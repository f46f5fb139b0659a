--------------------------- MODULE MCExecutionEngine ---------------------------
(***************************************************************************)
(* ExecutionEngine for TLC: one order, placed for three shares or by         *)
(* notional.  Orders share the clock and the pages of the account's orders   *)
(* (Older: no other order is older, or as many as fill the page a poll       *)
(* lists); three shares allow three executions.                              *)
(***************************************************************************)
EXTENDS ExecutionEngine

MCQuantities == {NoQuantity, 3}
=============================================================================
