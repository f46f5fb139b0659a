------------------------------ MODULE LiveEngine ------------------------------
(***************************************************************************)
(* The order paths of the LiveEngine: an operator's submit_live_order and    *)
(* the automated submission of a bar's decisions, with their gates, the      *)
(* reconciliations before and after, and the latch that stops automation.    *)
(*                                                                         *)
(* The engine is one thread, the broker is not: it executes resting orders   *)
(* and moves cash between any two broker calls of the engine, and every call *)
(* may raise.  All orders buy; an execution costs one unit and adds one      *)
(* share.  Fills never reach the portfolio of a LiveEngine: on_broker_event  *)
(* only counts them.                                                       *)
(***************************************************************************)
EXTENDS Integers, Sequences, FiniteSets

CONSTANTS
  NoPortfolio,    \* the engine has not built its portfolio yet
  Configs,        \* runtime configurations an operator may use
  MaxOrders,      \* bound on the orders at the broker
  MaxDecisions,   \* decisions one bar may bring
  MaxDeposits,    \* bound on cash the broker account receives
  MaxRestarts     \* bound on process restarts

(* broker.safety, and runtime checks that make every gate fail: live_enabled. *)
RuntimeConfig ==
  [live_enabled: BOOLEAN, dry_run: BOOLEAN, enable_order_submission: BOOLEAN,
   enable_automated_submission: BOOLEAN, automated_submission_kill_switch: BOOLEAN]

ASSUME ConfigAssumption == Configs \subseteq RuntimeConfig
ASSUME BoundAssumption ==
  /\ NoPortfolio \notin Int
  /\ MaxOrders \in Nat /\ MaxDecisions \in Nat /\ MaxDeposits \in Nat /\ MaxRestarts \in Nat

VARIABLES
  engine,      \* the LiveEngine
  call,        \* where submit_live_order stands: its caller and next broker call
  decisions,   \* decisions of the current bar not looked at yet
  orders,      \* the broker's orders: who placed them, in which process, and when
  deposits,    \* cash the broker account has received
  restarts

brokerVars == <<orders, deposits>>
vars       == <<engine, call, decisions, brokerVars, restarts>>
-----------------------------------------------------------------------------
Idle == [caller |-> "nobody", next |-> "nothing"]

Call == {Idle} \cup [caller: {"operator", "automation"}, next: {"reconcile", "place", "confirm"}]

Shares == Cardinality({i \in DOMAIN orders : orders[i].executed})
Cash   == deposits - Shares

(* reconcile: the portfolio never holds a share and keeps the cash it started
   with.  The account is read before the positions; a move between the two
   reads shows as a mismatch, as if it had come before both. *)
Matched == engine.portfolio = Cash /\ Shares = 0

NewEngine(brokerage, config) ==
  [config      |-> config,
   brokerage   |-> brokerage,
   connected   |-> FALSE,
   portfolio   |-> NoPortfolio,
   initialized |-> FALSE,
   running     |-> FALSE,
   stopped     |-> FALSE,
   submissions |-> {}]

(* A brokerage may be injected; otherwise initialize builds one. *)
Init ==
  /\ \E brokerage \in {"none", "live"}, config \in Configs :
       engine = NewEngine(brokerage, config)
  /\ call = Idle
  /\ decisions = 0
  /\ orders = <<>>
  /\ deposits = 0
  /\ restarts = 0

(* The engine is not inside a call. *)
Free == call = Idle /\ decisions = 0
-----------------------------------------------------------------------------
(* validate_live_order_submission_config *)
SubmissionGate(config) ==
  /\ config.live_enabled
  /\ ~config.dry_run
  /\ config.enable_order_submission

(* validate_live_automated_submission_config *)
AutomationGate(config) ==
  /\ SubmissionGate(config)
  /\ config.enable_automated_submission
  /\ ~config.automated_submission_kill_switch

(* Mistakes: the latch is not looked at, the gate neither. *)
RunningIsEnough(e) == AutomationGate(e.config) /\ e.running

EnabledIsEnough(e) ==
  e.config.enable_automated_submission /\ ~e.stopped /\ e.running

(* The gates _maybe_submit_automated_preview passes before it submits. *)
AutomationMaySubmit(e) ==
  /\ AutomationGate(e.config)
  /\ ~e.stopped
  /\ e.running

(* initialize keeps a brokerage and a portfolio it has, and the latch. *)
CanBuild(e) ==
  /\ e.config.live_enabled
  /\ e.brokerage = "none" => e.config.dry_run \/ e.config.enable_order_submission

Connected(e) ==
  [e EXCEPT !.connected = TRUE,
            !.brokerage = CASE @ # "none"                     -> @
                            [] @ = "none" /\ e.config.dry_run -> "dry_run"
                            [] OTHER                          -> "live"]

WithPortfolio(e) ==
  [e EXCEPT !.portfolio = CASE @ # NoPortfolio                             -> @
                            [] @ = NoPortfolio /\ e.brokerage = "dry_run" -> 0
                            [] OTHER                                       -> Cash]

(* Mistake: the positions are not compared. *)
CashMatches(e) == e.brokerage = "dry_run" \/ e.portfolio = Cash

MatchesAccount(e) ==
  e.brokerage = "dry_run" \/ (e.portfolio = Cash /\ Shares = 0)

(* The configuration is taken before it is validated; a gate that fails, a broker
   call that raises, an account that does not reconcile leave what was done up to
   there. *)
Initialize(config) ==
  LET configured == [engine EXCEPT !.config = config]
      connected  == Connected(configured)
      chosen     == [connected EXCEPT !.connected = engine.connected]
      built      == WithPortfolio(connected)
  IN  /\ Free
      /\ \/ ~CanBuild(configured) /\ engine' = configured
         \/ CanBuild(configured) /\ engine' \in {chosen, connected, built}
         \/ /\ CanBuild(configured)
            /\ MatchesAccount(built)
            /\ engine' = [built EXCEPT !.initialized = TRUE]
      /\ UNCHANGED <<call, decisions, brokerVars, restarts>>

(* start: max_events > 0 raises, but only after the engine has been set running.
   An engine that is not initialized is initialized first. *)
Start ==
  /\ Free
  /\ engine.initialized
  /\ engine.config.live_enabled
  /\ engine' = [engine EXCEPT !.running = TRUE]
  /\ UNCHANGED <<call, decisions, brokerVars, restarts>>

Stop ==
  /\ Free
  /\ engine' = [engine EXCEPT !.running = FALSE, !.connected = FALSE]
  /\ UNCHANGED <<call, decisions, brokerVars, restarts>>
-----------------------------------------------------------------------------
(* on_market_event: the safety-approved decisions of a bar, one after the other. *)
OnMarketEvent(n) ==
  /\ Free
  /\ engine.initialized
  /\ decisions' = n
  /\ UNCHANGED <<engine, call, brokerVars, restarts>>

(* A decision that automation does not submit stays a preview. *)
Preview ==
  /\ call = Idle
  /\ decisions > 0
  /\ ~AutomationMaySubmit(engine)
  /\ decisions' = decisions - 1
  /\ UNCHANGED <<engine, call, brokerVars, restarts>>

SubmitAutomatically ==
  /\ call = Idle
  /\ decisions > 0
  /\ AutomationMaySubmit(engine)
  /\ call' = [caller |-> "automation", next |-> "reconcile"]
  /\ UNCHANGED <<engine, decisions, brokerVars, restarts>>

(* submit_live_order called by the operator, who may waive the reconciliation.
   A request that fails a gate raises and changes nothing. *)
SubmitManually(require_reconciliation) ==
  /\ Free
  /\ engine.initialized
  /\ SubmissionGate(engine.config)
  /\ call' = [caller |-> "operator",
              next   |-> IF require_reconciliation THEN "reconcile" ELSE "place"]
  /\ UNCHANGED <<engine, decisions, brokerVars, restarts>>

(* A call returns or raises; automation goes on to its next decision. *)
EndCall ==
  /\ call' = Idle
  /\ decisions' = IF call.caller = "automation" THEN decisions - 1 ELSE decisions

(* _stop_automated_submission *)
StopAutomation(e) == [e EXCEPT !.stopped = TRUE, !.running = FALSE]

(* Mistake: automation forgets a failure. *)
AfterForgottenFailure(e) == e

(* What an exception does: the operator gets it, automation is stopped by it. *)
AfterFailure(e) == IF call.caller = "automation" THEN StopAutomation(e) ELSE e

(* Any broker call may raise; a mismatch raises too, and so does every call to a
   brokerage that is disconnected or a dry run's submit_order. *)
CallRaises ==
  /\ call # Idle
  /\ EndCall
  /\ engine' = AfterFailure(engine)
  /\ UNCHANGED <<brokerVars, restarts>>

ReconcileBefore ==
  /\ call.next = "reconcile"
  /\ engine.connected
  /\ MatchesAccount(engine)
  /\ call' = [call EXCEPT !.next = "place"]
  /\ UNCHANGED <<engine, decisions, brokerVars, restarts>>

(* The broker takes the order; then the answer arrives and is recorded, or it is
   lost and the call raises. *)
Taken == Append(orders, [caller    |-> call.caller,
                         process   |-> restarts,
                         unmatched |-> ~Matched,
                         executed  |-> FALSE])

Place ==
  /\ call.next = "place"
  /\ engine.connected
  /\ engine.brokerage = "live"
  /\ Len(orders) < MaxOrders
  /\ orders' = Taken
  /\ \/ /\ engine' = [engine EXCEPT !.submissions = @ \cup {Len(Taken)}]
        /\ IF call.caller = "automation"
           THEN call' = [call EXCEPT !.next = "confirm"] /\ UNCHANGED decisions
           ELSE EndCall
     \/ EndCall /\ engine' = AfterFailure(engine)
  /\ UNCHANGED <<deposits, restarts>>

(* The reconciliation after an automated submission. *)
ReconcileAfter ==
  /\ call.next = "confirm"
  /\ engine.connected
  /\ MatchesAccount(engine)
  /\ EndCall
  /\ UNCHANGED <<engine, brokerVars, restarts>>
-----------------------------------------------------------------------------
(* The broker: an order is executed, cash comes in. *)
Execute(i) ==
  /\ ~orders[i].executed
  /\ orders' = [orders EXCEPT ![i].executed = TRUE]
  /\ UNCHANGED <<engine, call, decisions, deposits, restarts>>

Deposit ==
  /\ deposits < MaxDeposits
  /\ deposits' = deposits + 1
  /\ UNCHANGED <<engine, call, decisions, orders, restarts>>

(* A new process, in the middle of a call or not.  The latch is in memory only. *)
Restart ==
  /\ restarts < MaxRestarts
  /\ restarts' = restarts + 1
  /\ \E brokerage \in {"none", "live"} : engine' = NewEngine(brokerage, engine.config)
  /\ call' = Idle
  /\ decisions' = 0
  /\ UNCHANGED brokerVars

Next ==
  \/ \E config \in Configs : Initialize(config)
  \/ Start
  \/ Stop
  \/ \E n \in 1..MaxDecisions : OnMarketEvent(n)
  \/ Preview
  \/ SubmitAutomatically
  \/ \E require_reconciliation \in BOOLEAN : SubmitManually(require_reconciliation)
  \/ CallRaises
  \/ ReconcileBefore
  \/ Place
  \/ ReconcileAfter
  \/ \E i \in DOMAIN orders : Execute(i)
  \/ Deposit
  \/ Restart

Spec == Init /\ [][Next]_vars
-----------------------------------------------------------------------------
Engine ==
  [config: Configs, brokerage: {"none", "dry_run", "live"}, connected: BOOLEAN,
   portfolio: Int \cup {NoPortfolio}, initialized: BOOLEAN, running: BOOLEAN,
   stopped: BOOLEAN, submissions: SUBSET Nat]

Order == [caller: {"operator", "automation"}, process: Nat, unmatched: BOOLEAN,
          executed: BOOLEAN]

TypeOK ==
  /\ engine \in Engine
  /\ engine.submissions \subseteq DOMAIN orders
  /\ engine.initialized => engine.brokerage # "none" /\ engine.portfolio # NoPortfolio
  /\ engine.running => engine.initialized
  /\ call \in Call
  /\ call.caller = "automation" => decisions > 0
  /\ decisions \in 0..MaxDecisions
  /\ orders \in Seq(Order)
  /\ deposits \in Nat
  /\ restarts \in Nat

PlacedHere(caller) ==
  {i \in DOMAIN orders : orders[i].caller = caller /\ orders[i].process = restarts}

(* DECISIONS.md, ADR-034: a failed automated submission "stops further automated
   submissions".  Nothing but a new process brings automation back: no start, no
   initialize with any configuration, no manual order, no account that
   reconciles again, not even for the rest of the bar. *)
StoppedForGood ==
  [][engine.stopped /\ restarts' = restarts =>
       engine'.stopped /\ PlacedHere("automation")' = PlacedHere("automation")]_vars

(* The account may move after it was reconciled and before the order is placed, and
   executions never reach the portfolio.  Still automation places at most one
   order on an account that is not the portfolio's: the reconciliation after the
   order, or the one before the next, stops it. *)
AtMostOneUnmatchedOrder ==
  LET unmatched == {i \in PlacedHere("automation") : orders[i].unmatched}
  IN  /\ Cardinality(unmatched) <= 1
      /\ call = Idle /\ unmatched # {} => engine.stopped

(* While automation goes on, it knows every order it has placed: an order whose
   answer was lost stops it. *)
NoUnknownOrder ==
  call = Idle /\ ~engine.stopped => PlacedHere("automation") \subseteq engine.submissions

(* INTERFACES.md, safety contract: no order reaches a broker in a dry run or with
   a submission gate closed, and automation places none unless its own gate is
   open and the engine runs: at the moment of placing, several broker calls
   after the gates were looked at, and whatever initialize left behind. *)
PlacedThroughTheGates ==
  [][Len(orders') > Len(orders) =>
       /\ engine.initialized
       /\ SubmissionGate(engine.config)
       /\ call.caller = "automation" => AutomationGate(engine.config) /\ engine.running]_vars
=============================================================================
