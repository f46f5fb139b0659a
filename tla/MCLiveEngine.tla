------------------------------ MODULE MCLiveEngine ------------------------------
(***************************************************************************)
(* LiveEngine for TLC: configurations that differ in one gate each.          *)
(***************************************************************************)
EXTENDS LiveEngine

AllOpen == [live_enabled |-> TRUE, dry_run |-> FALSE, enable_order_submission |-> TRUE,
            enable_automated_submission |-> TRUE, automated_submission_kill_switch |-> FALSE]

MCConfigs ==
  {AllOpen,
   [AllOpen EXCEPT !.live_enabled = FALSE],
   [AllOpen EXCEPT !.dry_run = TRUE],
   [AllOpen EXCEPT !.enable_order_submission = FALSE],
   [AllOpen EXCEPT !.automated_submission_kill_switch = TRUE]}
=============================================================================
