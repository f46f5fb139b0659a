------------------------- MODULE MCPaperTradingEngine -------------------------
(***************************************************************************)
(* PaperTradingEngine for TLC: one order of three shares or by notional,     *)
(* which allows three executions at up to three times.  It is the account's  *)
(* first order, or beyond the page of orders or of fills that a poll reads.  *)
(***************************************************************************)
EXTENDS PaperTradingEngine

MCQuantities == {NoQuantity, 3}
=============================================================================
