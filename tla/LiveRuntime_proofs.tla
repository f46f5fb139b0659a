--------------------------- MODULE LiveRuntime_proofs ---------------------------
(***************************************************************************)
(* Theorems about the two halves of a live runtime: LiveEngine, for every    *)
(* set of configurations and every bound, and the EventLoop that feeds it,   *)
(* for every feed, policy and bound on the clock.                           *)
(***************************************************************************)
EXTENDS LiveEngine, EventLoop, FiniteSetTheorems, SequenceTheorems, TLAPS

(***************************************************************************)
(* The order paths of the LiveEngine.                                       *)
(***************************************************************************)
(* What initialize makes of an engine is an engine. *)
LEMMA ConnectedType ==
  ASSUME NEW e \in Engine
  PROVE  /\ Connected(e) \in Engine
         /\ Connected(e).brokerage # "none"
         /\ Connected(e).portfolio = e.portfolio
         /\ Connected(e).initialized = e.initialized
         /\ Connected(e).running = e.running
         /\ Connected(e).stopped = e.stopped
         /\ Connected(e).submissions = e.submissions
BY DEF Connected, Engine

(* The shares and the cash of the account are numbers. *)
LEMMA AccountType ==
  ASSUME TypeOK
  PROVE  Shares \in Nat /\ Cash \in Int
<1>1. /\ Len(orders) \in Nat
      /\ DOMAIN orders = 1..Len(orders)
  BY DEF TypeOK
<1>2. IsFiniteSet(DOMAIN orders)
  BY <1>1, FS_Interval
<1>3. IsFiniteSet({i \in DOMAIN orders : orders[i].executed})
  BY <1>2, FS_Subset
<1>4. Shares \in Nat
  BY <1>3, FS_CardinalityType DEF Shares
<1>5. QED
  BY <1>4 DEF Cash, TypeOK

LEMMA WithPortfolioType ==
  ASSUME TypeOK, NEW e \in Engine
  PROVE  /\ WithPortfolio(e) \in Engine
         /\ WithPortfolio(e).portfolio # NoPortfolio
         /\ WithPortfolio(e).brokerage = e.brokerage
         /\ WithPortfolio(e).initialized = e.initialized
         /\ WithPortfolio(e).running = e.running
         /\ WithPortfolio(e).stopped = e.stopped
         /\ WithPortfolio(e).submissions = e.submissions
<1>1. Cash \in Int
  BY AccountType
<1>2. NoPortfolio \notin Int
  BY BoundAssumption
<1>3. QED
  BY <1>1, <1>2 DEF WithPortfolio, Engine

(* The four results initialize may have: each is an engine that has kept its
   latch and its record, and an initialized one has its brokerage and portfolio. *)
LEMMA InitializeResult ==
  ASSUME TypeOK, NEW config \in Configs, Initialize(config)
  PROVE  /\ engine' \in Engine
         /\ engine'.stopped = engine.stopped
         /\ engine'.running = engine.running
         /\ engine'.submissions = engine.submissions
         /\ engine.initialized => engine'.initialized
         /\ engine'.initialized => engine'.brokerage # "none" /\ engine'.portfolio # NoPortfolio
<1> DEFINE configured == [engine EXCEPT !.config = config]
           connected  == Connected(configured)
           chosen     == [connected EXCEPT !.connected = engine.connected]
           built      == WithPortfolio(connected)
<1>1. /\ engine \in Engine
      /\ engine.initialized => engine.brokerage # "none" /\ engine.portfolio # NoPortfolio
  BY DEF TypeOK
<1>2. /\ configured \in Engine
      /\ configured.stopped = engine.stopped
      /\ configured.running = engine.running
      /\ configured.submissions = engine.submissions
      /\ configured.initialized = engine.initialized
      /\ configured.brokerage = engine.brokerage
      /\ configured.portfolio = engine.portfolio
  BY <1>1 DEF Engine
<1>3. /\ connected \in Engine
      /\ connected.brokerage # "none"
      /\ connected.stopped = engine.stopped
      /\ connected.running = engine.running
      /\ connected.submissions = engine.submissions
      /\ connected.initialized = engine.initialized
      /\ connected.portfolio = engine.portfolio
  BY <1>2, ConnectedType
<1>4. /\ chosen \in Engine
      /\ chosen.brokerage # "none"
      /\ chosen.stopped = engine.stopped
      /\ chosen.running = engine.running
      /\ chosen.submissions = engine.submissions
      /\ chosen.initialized = engine.initialized
      /\ chosen.portfolio = engine.portfolio
  <2> HIDE DEF connected
  <2> QED BY <1>1, <1>3 DEF Engine
<1>5. /\ built \in Engine
      /\ built.portfolio # NoPortfolio
      /\ built.brokerage # "none"
      /\ built.stopped = engine.stopped
      /\ built.running = engine.running
      /\ built.submissions = engine.submissions
      /\ built.initialized = engine.initialized
  <2> HIDE DEF connected
  <2> QED BY <1>3, WithPortfolioType
<1>6. \/ engine' \in {configured, chosen, connected, built}
      \/ engine' = [built EXCEPT !.initialized = TRUE]
  BY DEF Initialize
<1> HIDE DEF configured, connected, chosen, built
<1>7. CASE engine' = configured
  BY <1>1, <1>2, <1>7
<1>8. CASE engine' \in {chosen, connected, built}
  BY <1>1, <1>3, <1>4, <1>5, <1>8
<1>9. CASE engine' = [built EXCEPT !.initialized = TRUE]
  BY <1>5, <1>9 DEF Engine
<1>10. QED
  BY <1>6, <1>7, <1>8, <1>9
-----------------------------------------------------------------------------
(* Taking an order adds one record, of the caller's, at the end. *)
LEMMA TakenType ==
  ASSUME TypeOK, call # Idle
  PROVE  /\ Taken \in Seq(Order)
         /\ Len(Taken) = Len(orders) + 1
         /\ Len(Taken) \in Nat
         /\ DOMAIN orders = 1..Len(orders)
         /\ DOMAIN Taken = DOMAIN orders \cup {Len(Taken)}
         /\ \A i \in DOMAIN orders : Taken[i] = orders[i]
         /\ Taken[Len(Taken)].caller = call.caller
<1> DEFINE new == [caller    |-> call.caller,
                   process   |-> restarts,
                   unmatched |-> ~Matched,
                   executed  |-> FALSE]
<1>1. (~Matched) \in BOOLEAN
  BY DEF Matched
<1>2. call.caller \in {"operator", "automation"}
  BY DEF TypeOK, Call
<1>3. new \in Order
  BY <1>1, <1>2 DEF TypeOK, Order
<1>4. orders \in Seq(Order)
  BY DEF TypeOK
<1>5. Taken = Append(orders, new) /\ new.caller = call.caller
  BY DEF Taken
<1> HIDE DEF new
<1>6. QED
  BY <1>3, <1>4, <1>5

(* Typing, one action at a time. *)
LEMMA TypePreserved == TypeOK /\ [Next]_vars => TypeOK'
<1> SUFFICES ASSUME TypeOK, [Next]_vars PROVE TypeOK'
  OBVIOUS
<1> USE DEF TypeOK
<1>1. CASE \E config \in Configs : Initialize(config)
  <2>1. PICK config \in Configs : Initialize(config)
    BY <1>1
  <2>2. /\ engine' \in Engine
        /\ engine'.running = engine.running
        /\ engine'.submissions = engine.submissions
        /\ engine.initialized => engine'.initialized
        /\ engine'.initialized => engine'.brokerage # "none" /\ engine'.portfolio # NoPortfolio
    BY <2>1, InitializeResult
  <2>3. UNCHANGED <<call, decisions, orders, deposits, restarts>>
    BY <2>1 DEF Initialize, brokerVars
  <2>4. QED
    BY <2>2, <2>3
<1>2. CASE Start
  BY <1>2 DEF Start, Engine, brokerVars
<1>3. CASE Stop
  BY <1>3 DEF Stop, Engine, brokerVars
<1>4. CASE \E n \in 1..MaxDecisions : OnMarketEvent(n)
  BY <1>4, BoundAssumption DEF OnMarketEvent, Free, Idle, brokerVars
<1>5. CASE Preview
  BY <1>5, BoundAssumption DEF Preview, Idle, brokerVars
<1>6. CASE SubmitAutomatically
  BY <1>6 DEF SubmitAutomatically, Call, brokerVars
<1>7. CASE \E require_reconciliation \in BOOLEAN : SubmitManually(require_reconciliation)
  BY <1>7 DEF SubmitManually, Call, brokerVars
<1>8. ASSUME EndCall, call # Idle
      PROVE  /\ call' \in Call
             /\ call'.caller # "automation"
             /\ decisions' \in 0..MaxDecisions
  BY <1>8, BoundAssumption DEF EndCall, Call, Idle
<1>9. /\ AfterFailure(engine) \in Engine
      /\ AfterFailure(engine).submissions = engine.submissions
      /\ AfterFailure(engine).initialized = engine.initialized
      /\ AfterFailure(engine).brokerage = engine.brokerage
      /\ AfterFailure(engine).portfolio = engine.portfolio
      /\ AfterFailure(engine).running => engine.running
  BY DEF AfterFailure, StopAutomation, Engine
<1>10. CASE CallRaises
  BY <1>8, <1>9, <1>10 DEF CallRaises, brokerVars
<1>11. CASE ReconcileBefore
  BY <1>11 DEF ReconcileBefore, Call, Idle, brokerVars
<1>12. CASE Place
  <2>1. call # Idle
    BY <1>12 DEF Place, Idle
  <2>2. /\ orders' \in Seq(Order)
        /\ DOMAIN orders' = DOMAIN orders \cup {Len(Taken)}
        /\ Len(Taken) \in Nat
    BY <1>12, <2>1, TakenType DEF Place
  <2>3. deposits' = deposits /\ restarts' = restarts
    BY <1>12 DEF Place
  <2>4. CASE EndCall /\ engine' = AfterFailure(engine)
    BY <1>8, <1>9, <2>1, <2>2, <2>3, <2>4
  <2>5. ASSUME engine' = [engine EXCEPT !.submissions = @ \cup {Len(Taken)}]
        PROVE  /\ engine' \in Engine
               /\ engine'.submissions \subseteq DOMAIN orders'
               /\ engine'.initialized => engine'.brokerage # "none" /\ engine'.portfolio # NoPortfolio
               /\ engine'.running => engine'.initialized
    BY <2>2, <2>5 DEF Engine
  <2>6. CASE /\ engine' = [engine EXCEPT !.submissions = @ \cup {Len(Taken)}]
             /\ call.caller = "automation"
             /\ call' = [call EXCEPT !.next = "confirm"]
             /\ UNCHANGED decisions
    <3>1. call' \in Call /\ call'.caller = call.caller
      BY <2>1, <2>6 DEF Call
    <3>2. QED
      BY <2>2, <2>3, <2>5, <2>6, <3>1
  <2>7. CASE engine' = [engine EXCEPT !.submissions = @ \cup {Len(Taken)}] /\ EndCall
    BY <1>8, <2>1, <2>2, <2>3, <2>5, <2>7
  <2>8. QED
    BY <1>12, <2>4, <2>6, <2>7 DEF Place
<1>13. CASE ReconcileAfter
  <2>1. call # Idle
    BY <1>13 DEF ReconcileAfter, Idle
  <2>2. QED
    BY <1>8, <1>13, <2>1 DEF ReconcileAfter, brokerVars
<1>14. CASE \E i \in DOMAIN orders : Execute(i)
  <2>1. PICK i \in DOMAIN orders : Execute(i)
    BY <1>14
  <2>2. orders' = [orders EXCEPT ![i] = [orders[i] EXCEPT !.executed = TRUE]]
    BY <2>1 DEF Execute
  <2>3. orders[i] \in Order
    BY <2>1
  <2>4. [orders[i] EXCEPT !.executed = TRUE] \in Order
    BY <2>3 DEF Order
  <2>5. orders' \in Seq(Order) /\ DOMAIN orders' = DOMAIN orders
    BY <2>1, <2>2, <2>4
  <2>6. QED
    BY <2>1, <2>5 DEF Execute
<1>15. CASE Deposit
  BY <1>15 DEF Deposit
<1>16. CASE Restart
  BY <1>16, BoundAssumption DEF Restart, NewEngine, Engine, Idle, Call, brokerVars
<1>17. CASE UNCHANGED vars
  BY <1>17 DEF vars, brokerVars
<1>18. QED
  BY <1>1, <1>2, <1>3, <1>4, <1>5, <1>6, <1>7, <1>10, <1>11, <1>12, <1>13, <1>14,
     <1>15, <1>16, <1>17 DEF Next

LEMMA TypeInit == Init => TypeOK
BY BoundAssumption DEF Init, TypeOK, NewEngine, Engine, Idle, Call

(* Every reachable state is well-formed. *)
THEOREM TypeCorrect == Spec => []TypeOK
<1>1. QED
  BY TypeInit, TypePreserved, PTL DEF Spec
-----------------------------------------------------------------------------
(***************************************************************************)
(* The invariant of a call in progress.  A gate is looked at when a call     *)
(* begins and relied on when the order is placed: nothing in between takes   *)
(* back what the gates found.  And automation that has not been stopped has  *)
(* recorded each of its orders in the step that placed it.                   *)
(***************************************************************************)
CallInv ==
  /\ call # Idle => engine.initialized /\ SubmissionGate(engine.config)
  /\ call.caller = "automation" =>
       AutomationGate(engine.config) /\ engine.running /\ ~engine.stopped
  /\ \A i \in DOMAIN orders : orders[i].process <= restarts
  /\ ~engine.stopped => PlacedHere("automation") \subseteq engine.submissions

(* A step that leaves the orders alone leaves their bookkeeping alone. *)
LEMMA OrdersKept ==
  ASSUME CallInv, UNCHANGED <<orders, restarts>>
  PROVE  /\ PlacedHere("automation")' = PlacedHere("automation")
         /\ \A i \in DOMAIN orders' : orders'[i].process <= restarts'
BY DEF CallInv, PlacedHere

(* An order taken is an order of this process, and one of automation's only if
   automation made the call. *)
LEMMA TakenPlaced ==
  ASSUME TypeOK, CallInv, call # Idle, orders' = Taken, restarts' = restarts
  PROVE  /\ \A i \in DOMAIN orders' : orders'[i].process <= restarts'
         /\ PlacedHere("automation")' =
              IF call.caller = "automation"
              THEN PlacedHere("automation") \cup {Len(Taken)}
              ELSE PlacedHere("automation")
<1>1. /\ DOMAIN orders = 1..Len(orders)
      /\ Len(Taken) = Len(orders) + 1
      /\ DOMAIN Taken = DOMAIN orders \cup {Len(Taken)}
      /\ \A i \in DOMAIN orders : Taken[i] = orders[i]
      /\ Taken[Len(Taken)].caller = call.caller
  BY TakenType
<1>2. Taken[Len(Taken)].process = restarts
  BY DEF Taken, TypeOK
<1>3. restarts \in Nat
  BY DEF TypeOK
<1>4. \A i \in DOMAIN orders' : orders'[i].process <= restarts'
  BY <1>1, <1>2, <1>3 DEF CallInv
<1>5. PlacedHere("automation")' =
        {i \in DOMAIN Taken : Taken[i].caller = "automation" /\ Taken[i].process = restarts}
  BY DEF PlacedHere
<1>6. CASE call.caller = "automation"
  BY <1>1, <1>2, <1>4, <1>5, <1>6 DEF PlacedHere
<1>7. CASE call.caller # "automation"
  BY <1>1, <1>4, <1>5, <1>7 DEF PlacedHere
<1>8. QED
  BY <1>4, <1>6, <1>7

(* What an exception leaves of the engine. *)
LEMMA FailureKeeps ==
  ASSUME TypeOK
  PROVE  /\ AfterFailure(engine).initialized = engine.initialized
         /\ AfterFailure(engine).config = engine.config
         /\ AfterFailure(engine).submissions = engine.submissions
         /\ call.caller = "automation" => AfterFailure(engine).stopped
         /\ call.caller # "automation" => AfterFailure(engine) = engine
         /\ engine.stopped => AfterFailure(engine).stopped
BY DEF AfterFailure, StopAutomation, TypeOK, Engine

LEMMA CallInvInit == Init => CallInv
BY DEF Init, CallInv, PlacedHere, Idle, NewEngine

LEMMA CallInvPreserved == TypeOK /\ CallInv /\ [Next]_vars => CallInv'
<1> SUFFICES ASSUME TypeOK, CallInv, [Next]_vars PROVE CallInv'
  OBVIOUS
<1> USE DEF CallInv
<1>1. CASE \E config \in Configs : Initialize(config)
  <2>1. PICK config \in Configs : Initialize(config)
    BY <1>1
  <2>2. /\ engine'.stopped = engine.stopped
        /\ engine'.submissions = engine.submissions
    BY <2>1, InitializeResult
  <2>3. call' = Idle /\ UNCHANGED <<orders, restarts>>
    BY <2>1 DEF Initialize, Free, brokerVars
  <2>4. Idle.caller # "automation"
    BY DEF Idle
  <2>5. QED
    BY <2>2, <2>3, <2>4, OrdersKept
<1>2. CASE Start \/ Stop
  <2>1. call' = Idle /\ Idle.caller # "automation" /\ UNCHANGED <<orders, restarts>>
    BY <1>2 DEF Start, Stop, Free, brokerVars, Idle
  <2>2. engine'.stopped = engine.stopped /\ engine'.submissions = engine.submissions
    BY <1>2 DEF Start, Stop, TypeOK, Engine
  <2>3. QED
    BY <2>1, <2>2, OrdersKept
<1>3. CASE \/ \E n \in 1..MaxDecisions : OnMarketEvent(n)
           \/ Preview
           \/ Deposit
           \/ UNCHANGED vars
  <2>1. UNCHANGED <<engine, call, orders, restarts>>
    BY <1>3 DEF OnMarketEvent, Preview, Deposit, vars, brokerVars
  <2>2. QED
    BY <2>1, OrdersKept DEF SubmissionGate, AutomationGate
<1>4. CASE SubmitAutomatically
  <2>1. /\ UNCHANGED <<engine, orders, restarts>>
        /\ call'.caller = "automation"
        /\ AutomationMaySubmit(engine)
    BY <1>4 DEF SubmitAutomatically, brokerVars
  <2>2. engine.initialized
    BY <2>1 DEF AutomationMaySubmit, TypeOK
  <2>3. QED
    BY <2>1, <2>2, OrdersKept DEF AutomationMaySubmit, AutomationGate
<1>5. CASE \E require_reconciliation \in BOOLEAN : SubmitManually(require_reconciliation)
  <2>1. /\ UNCHANGED <<engine, orders, restarts>>
        /\ call'.caller # "automation"
        /\ engine.initialized
        /\ SubmissionGate(engine.config)
    BY <1>5 DEF SubmitManually, brokerVars
  <2>2. QED
    BY <2>1, OrdersKept
<1>6. CASE CallRaises
  <2>1. /\ call' = Idle
        /\ engine' = AfterFailure(engine)
        /\ UNCHANGED <<orders, restarts>>
    BY <1>6 DEF CallRaises, EndCall, brokerVars
  <2>2. Idle.caller # "automation"
    BY DEF Idle
  <2>3. QED
    BY <2>1, <2>2, OrdersKept, FailureKeeps
<1>7. CASE ReconcileBefore
  <2>1. /\ UNCHANGED <<engine, orders, restarts>>
        /\ call # Idle
        /\ call'.caller = call.caller
    BY <1>7 DEF ReconcileBefore, Idle, brokerVars, TypeOK, Call
  <2>2. QED
    BY <2>1, OrdersKept
<1>8. CASE Place
  <2>1. call # Idle
    BY <1>8 DEF Place, Idle
  <2>2. orders' = Taken /\ restarts' = restarts
    BY <1>8 DEF Place
  <2>3. Idle.caller # "automation"
    BY DEF Idle
  <2>4. CASE EndCall /\ engine' = AfterFailure(engine)
    BY <2>1, <2>2, <2>3, <2>4, TakenPlaced, FailureKeeps DEF EndCall
  <2>5. ASSUME engine' = [engine EXCEPT !.submissions = @ \cup {Len(Taken)}]
        PROVE  /\ engine'.initialized = engine.initialized
               /\ engine'.config = engine.config
               /\ engine'.running = engine.running
               /\ engine'.stopped = engine.stopped
               /\ engine'.submissions = engine.submissions \cup {Len(Taken)}
    BY <2>5 DEF TypeOK, Engine
  <2>6. CASE /\ engine' = [engine EXCEPT !.submissions = @ \cup {Len(Taken)}]
             /\ call.caller = "automation"
             /\ call' = [call EXCEPT !.next = "confirm"]
    <3>1. call'.caller = "automation"
      BY <2>1, <2>6 DEF TypeOK, Call
    <3>2. QED
      BY <2>1, <2>2, <2>5, <2>6, <3>1, TakenPlaced
  <2>7. CASE engine' = [engine EXCEPT !.submissions = @ \cup {Len(Taken)}] /\ EndCall
    BY <2>1, <2>2, <2>3, <2>5, <2>7, TakenPlaced DEF EndCall
  <2>8. QED
    BY <1>8, <2>4, <2>6, <2>7 DEF Place
<1>9. CASE ReconcileAfter
  <2>1. call' = Idle /\ Idle.caller # "automation" /\ UNCHANGED <<engine, orders, restarts>>
    BY <1>9 DEF ReconcileAfter, EndCall, Idle, brokerVars
  <2>2. QED
    BY <2>1, OrdersKept
<1>10. CASE \E i \in DOMAIN orders : Execute(i)
  <2>1. PICK i \in DOMAIN orders : Execute(i)
    BY <1>10
  <2>2. /\ UNCHANGED <<engine, call, restarts>>
        /\ orders' = [orders EXCEPT ![i] = [orders[i] EXCEPT !.executed = TRUE]]
    BY <2>1 DEF Execute
  <2>3. orders \in Seq(Order)
    BY DEF TypeOK
  <2>4. orders[i] \in Order
    BY <2>3
  <2>5. /\ DOMAIN orders' = DOMAIN orders
        /\ \A j \in DOMAIN orders : /\ orders'[j].caller = orders[j].caller
                                    /\ orders'[j].process = orders[j].process
    BY <2>2, <2>3, <2>4 DEF Order
  <2>6. PlacedHere("automation")' = PlacedHere("automation")
    BY <2>2, <2>5 DEF PlacedHere
  <2>7. QED
    BY <2>2, <2>5, <2>6
<1>11. CASE Restart
  <2>1. /\ call' = Idle
        /\ restarts' = restarts + 1
        /\ orders' = orders
    BY <1>11 DEF Restart, brokerVars
  <2>2. Idle.caller # "automation"
    BY DEF Idle
  <2>3. ASSUME NEW i \in DOMAIN orders
        PROVE  orders[i].process \in Nat /\ orders[i].process < restarts'
    <3>1. orders \in Seq(Order) /\ restarts \in Nat
      BY DEF TypeOK
    <3>2. orders[i] \in Order
      BY <3>1
    <3>3. orders[i].process \in Nat /\ orders[i].process <= restarts
      BY <3>2 DEF Order
    <3>4. QED
      BY <2>1, <3>1, <3>3
  <2>4. PlacedHere("automation")' = {}
    BY <2>1, <2>3 DEF PlacedHere
  <2>5. \A i \in DOMAIN orders' : orders'[i].process <= restarts'
    BY <2>1, <2>3 DEF TypeOK
  <2>6. QED
    BY <2>1, <2>2, <2>4, <2>5
<1>12. QED
  BY <1>1, <1>2, <1>3, <1>4, <1>5, <1>6, <1>7, <1>8, <1>9, <1>10, <1>11 DEF Next

(* Both invariants hold in every reachable state. *)
LEMMA Invariants == Spec => [](TypeOK /\ CallInv)
<1>1. Init => TypeOK /\ CallInv
  BY TypeInit, CallInvInit
<1>2. TypeOK /\ CallInv /\ [Next]_vars => (TypeOK /\ CallInv)'
  BY TypePreserved, CallInvPreserved
<1>3. QED
  BY <1>1, <1>2, PTL DEF Spec

(* StoppedForGood: no step of a process whose automation was stopped clears the
   latch or places an order of automation's.  Only Place adds orders, and a call
   of automation's means, by CallInv, that the latch is open. *)
LEMMA StepKeepsLatch ==
  ASSUME TypeOK, CallInv, [Next]_vars, engine.stopped, restarts' = restarts
  PROVE  engine'.stopped /\ PlacedHere("automation")' = PlacedHere("automation")
<1>1. CASE \E config \in Configs : Initialize(config)
  BY <1>1, InitializeResult DEF Initialize, brokerVars, PlacedHere
<1>2. CASE Start \/ Stop
  BY ZenonT(40), <1>2 DEF Start, Stop, TypeOK, Engine, brokerVars, PlacedHere
<1>3. CASE \/ \E n \in 1..MaxDecisions : OnMarketEvent(n)
           \/ Preview
           \/ SubmitAutomatically
           \/ \E require_reconciliation \in BOOLEAN : SubmitManually(require_reconciliation)
           \/ ReconcileBefore
           \/ ReconcileAfter
           \/ Deposit
           \/ UNCHANGED vars
  <2>1. UNCHANGED <<engine, orders>>
    BY <1>3 DEF OnMarketEvent, Preview, SubmitAutomatically, SubmitManually, ReconcileBefore,
                ReconcileAfter, Deposit, vars, brokerVars
  <2>2. QED
    BY <2>1 DEF PlacedHere
<1>4. CASE CallRaises
  BY <1>4, FailureKeeps DEF CallRaises, brokerVars, PlacedHere
<1>5. CASE Place
  <2>1. call # Idle /\ orders' = Taken
    BY <1>5 DEF Place, Idle
  <2>2. call.caller # "automation"
    BY DEF CallInv
  <2>3. PlacedHere("automation")' = PlacedHere("automation")
    BY <2>1, <2>2, TakenPlaced
  <2>4. \/ engine' = AfterFailure(engine)
        \/ engine' = [engine EXCEPT !.submissions = @ \cup {Len(Taken)}]
    BY <1>5 DEF Place
  <2>5. engine'.stopped
    BY <2>4, FailureKeeps DEF TypeOK, Engine
  <2>6. QED
    BY <2>3, <2>5
<1>6. CASE \E i \in DOMAIN orders : Execute(i)
  <2>1. PICK i \in DOMAIN orders : Execute(i)
    BY <1>6
  <2>2. /\ engine' = engine
        /\ orders' = [orders EXCEPT ![i] = [orders[i] EXCEPT !.executed = TRUE]]
    BY <2>1 DEF Execute
  <2>3. orders \in Seq(Order)
    BY DEF TypeOK
  <2>4. orders[i] \in Order
    BY <2>3
  <2>5. /\ DOMAIN orders' = DOMAIN orders
        /\ \A j \in DOMAIN orders : /\ orders'[j].caller = orders[j].caller
                                    /\ orders'[j].process = orders[j].process
    BY <2>2, <2>3, <2>4 DEF Order
  <2>6. QED
    BY <2>2, <2>5 DEF PlacedHere
<1>7. CASE Restart
  BY <1>7 DEF Restart, TypeOK
<1>8. QED
  BY <1>1, <1>2, <1>3, <1>4, <1>5, <1>6, <1>7 DEF Next

(* A stopped automation stays stopped, and silent, for the life of its process. *)
THEOREM AutomationStaysStopped == Spec => StoppedForGood
<1>1. TypeOK /\ CallInv /\ [Next]_vars =>
        [engine.stopped /\ restarts' = restarts =>
           engine'.stopped /\ PlacedHere("automation")' = PlacedHere("automation")]_vars
  BY StepKeepsLatch
<1>2. QED
  BY <1>1, Invariants, PTL DEF StoppedForGood, Spec

(* NoUnknownOrder: while automation goes on, it has a record of every order it
   has placed. *)
THEOREM AutomationKnowsItsOrders == Spec => []NoUnknownOrder
<1>1. CallInv => NoUnknownOrder
  BY DEF CallInv, NoUnknownOrder
<1>2. QED
  BY <1>1, Invariants, PTL

(* PlacedThroughTheGates: an order reaches the broker only with the gates open. *)
LEMMA OnlyPlaceAddsOrders ==
  ASSUME TypeOK, [Next]_vars, Len(orders') > Len(orders)
  PROVE  Place
<1>1. Len(orders) \in Nat
  BY DEF TypeOK
<1>2. ASSUME NEW i \in DOMAIN orders, Execute(i)
      PROVE  Len(orders') = Len(orders)
  <2>1. orders \in Seq(Order)
    BY DEF TypeOK
  <2>2. orders' = [orders EXCEPT ![i] = [orders[i] EXCEPT !.executed = TRUE]]
    BY <1>2 DEF Execute
  <2>3. orders[i] \in Order
    BY <2>1
  <2>4. [orders[i] EXCEPT !.executed = TRUE] \in Order
    BY <2>3 DEF Order
  <2>5. QED
    BY <2>1, <2>2, <2>4
<1>3. ASSUME \/ \E config \in Configs : Initialize(config)
             \/ Start
             \/ Stop
             \/ \E n \in 1..MaxDecisions : OnMarketEvent(n)
             \/ Preview
             \/ SubmitAutomatically
             \/ \E require_reconciliation \in BOOLEAN : SubmitManually(require_reconciliation)
             \/ CallRaises
             \/ ReconcileBefore
             \/ ReconcileAfter
             \/ Deposit
             \/ Restart
             \/ UNCHANGED vars
      PROVE  orders' = orders
  BY <1>3 DEF Initialize, Start, Stop, OnMarketEvent, Preview, SubmitAutomatically,
              SubmitManually, CallRaises, ReconcileBefore, ReconcileAfter, Deposit, Restart,
              vars, brokerVars
<1>4. QED
  BY <1>1, <1>2, <1>3 DEF Next

(* No order reaches the broker through a closed gate. *)
THEOREM OrdersPassTheGates == Spec => PlacedThroughTheGates
<1>1. TypeOK /\ CallInv /\ [Next]_vars =>
        [Len(orders') > Len(orders) =>
           /\ engine.initialized
           /\ SubmissionGate(engine.config)
           /\ call.caller = "automation" => AutomationGate(engine.config) /\ engine.running]_vars
  <2>1. ASSUME TypeOK, CallInv, [Next]_vars, Len(orders') > Len(orders)
        PROVE  call # Idle
    BY <2>1, OnlyPlaceAddsOrders DEF Place, Idle
  <2>2. QED
    BY <2>1 DEF CallInv
<1>2. QED
  BY <1>1, Invariants, PTL DEF PlacedThroughTheGates, Spec
-----------------------------------------------------------------------------
(***************************************************************************)
(* At most one unmatched order.  A mismatch between account and portfolio    *)
(* never heals within a process: executed shares stay executed, and deposits *)
(* only grow past the cash the portfolio began with.  So an order placed     *)
(* unmatched fails the reconciliation after it, and there is no next one.    *)
(***************************************************************************)
NoneExecuted == \A i \in DOMAIN orders : ~orders[i].executed

Unmatched == {i \in PlacedHere("automation") : orders[i].unmatched}

MatchInv ==
  /\ engine.portfolio \in Int => engine.portfolio <= deposits
  /\ Unmatched # {} =>
       /\ engine.brokerage = "live"
       /\ engine.portfolio \in Int
       /\ NoneExecuted => engine.portfolio < deposits
       /\ engine.stopped \/ (call.caller = "automation" /\ call.next = "confirm")
  /\ \E i \in Nat : Unmatched \subseteq {i}

(* No share is held exactly when no order is executed; then cash is deposits. *)
LEMMA SharesZero ==
  ASSUME TypeOK
  PROVE  /\ Shares = 0 <=> NoneExecuted
         /\ Cash <= deposits
         /\ NoneExecuted => Cash = deposits
<1>1. Len(orders) \in Nat /\ DOMAIN orders = 1..Len(orders)
  BY DEF TypeOK
<1>2. IsFiniteSet(DOMAIN orders)
  BY <1>1, FS_Interval
<1>3. IsFiniteSet({i \in DOMAIN orders : orders[i].executed})
  BY <1>2, FS_Subset
<1>4. Shares = 0 <=> {i \in DOMAIN orders : orders[i].executed} = {}
  BY <1>3, FS_EmptySet DEF Shares
<1>5. Shares = 0 <=> NoneExecuted
  BY <1>4 DEF NoneExecuted
<1>6. QED
  BY <1>5, AccountType DEF Cash, TypeOK

(* A live engine that matches its account has no mismatch on record. *)
LEMMA MatchMeansNone ==
  ASSUME TypeOK, MatchInv, MatchesAccount(engine)
  PROVE  Unmatched = {}
BY SharesZero DEF MatchInv, MatchesAccount, TypeOK

LEMMA MatchInvInit == Init => MatchInv
<1> SUFFICES ASSUME Init PROVE MatchInv
  OBVIOUS
<1>2. orders = <<>> /\ engine.portfolio = NoPortfolio
  BY DEF Init, NewEngine
<1>3. Unmatched = {}
  BY <1>2 DEF Unmatched, PlacedHere
<1>4. 0 \in Nat /\ Unmatched \subseteq {0}
  BY <1>3
<1>5. QED
  BY <1>2, <1>3, <1>4, BoundAssumption DEF MatchInv

(* Steps that leave orders, deposits and the engine's portfolio alone. *)
LEMMA MatchKept ==
  ASSUME MatchInv, UNCHANGED <<orders, deposits, restarts>>,
         engine'.portfolio = engine.portfolio, engine'.brokerage = engine.brokerage,
         Unmatched = {} \/ engine'.stopped \/ (engine'.stopped = engine.stopped /\ call' = call)
  PROVE  MatchInv'
<1>1. Unmatched' = Unmatched /\ NoneExecuted' = NoneExecuted
  BY DEF Unmatched, PlacedHere, NoneExecuted
<1>2. QED
  BY <1>1 DEF MatchInv

LEMMA MatchInvPreserved == TypeOK /\ CallInv /\ MatchInv /\ [Next]_vars => MatchInv'
<1> SUFFICES ASSUME TypeOK, CallInv, MatchInv, [Next]_vars PROVE MatchInv'
  OBVIOUS
<1>0. ASSUME call = Idle PROVE engine.stopped \/ Unmatched = {}
  BY <1>0 DEF MatchInv, Idle
<1>1. CASE \E config \in Configs : Initialize(config)
  <2>1. PICK config \in Configs : Initialize(config)
    BY <1>1
  <2>2. /\ call = Idle /\ call' = call
        /\ UNCHANGED <<orders, deposits, restarts>>
        /\ engine'.stopped = engine.stopped
    BY <2>1, InitializeResult DEF Initialize, Free, brokerVars
  <2>3. Unmatched' = Unmatched /\ NoneExecuted' = NoneExecuted
    BY <2>2 DEF Unmatched, PlacedHere, NoneExecuted
  <2>4. /\ engine'.portfolio \in {engine.portfolio, 0, Cash}
        /\ engine.portfolio # NoPortfolio => engine'.portfolio = engine.portfolio
        /\ engine.brokerage # "none" => engine'.brokerage = engine.brokerage
    <3> DEFINE configured == [engine EXCEPT !.config = config]
               connected  == Connected(configured)
               chosen     == [connected EXCEPT !.connected = engine.connected]
               built      == WithPortfolio(connected)
    <3>1. /\ configured \in Engine
          /\ configured.portfolio = engine.portfolio
          /\ configured.brokerage = engine.brokerage
      BY DEF TypeOK, Engine
    <3>2. /\ connected \in Engine
          /\ connected.portfolio = engine.portfolio
          /\ engine.brokerage # "none" => connected.brokerage = engine.brokerage
      BY <3>1, ConnectedType DEF Connected, Engine
    <3>3. /\ chosen.portfolio = connected.portfolio
          /\ chosen.brokerage = connected.brokerage
      <4> HIDE DEF connected
      <4> QED BY <3>2 DEF Engine
    <3>4. /\ built \in Engine
          /\ built.brokerage = connected.brokerage
          /\ built.portfolio \in {connected.portfolio, 0, Cash}
          /\ connected.portfolio # NoPortfolio => built.portfolio = connected.portfolio
      <4> HIDE DEF connected
      <4> QED BY <3>2, WithPortfolioType DEF WithPortfolio, Engine
    <3>5. \/ engine' \in {configured, chosen, connected, built}
          \/ engine' = [built EXCEPT !.initialized = TRUE]
      BY <2>1 DEF Initialize
    <3> HIDE DEF configured, connected, chosen, built
    <3>6. \/ engine' \in {configured, chosen, connected, built}
          \/ engine'.portfolio = built.portfolio /\ engine'.brokerage = built.brokerage
      BY <3>4, <3>5 DEF Engine
    <3>7. QED
      BY <3>1, <3>2, <3>3, <3>4, <3>6
  <2>5. engine'.portfolio \in Int => engine'.portfolio <= deposits
    BY <2>4, SharesZero DEF MatchInv, TypeOK
  <2>6. Unmatched # {} =>
          engine'.brokerage = engine.brokerage /\ engine'.portfolio = engine.portfolio
    BY <2>4, BoundAssumption DEF MatchInv
  <2>7. QED
    BY <2>2, <2>3, <2>5, <2>6 DEF MatchInv
<1>2. CASE \/ Start
           \/ Stop
           \/ \E n \in 1..MaxDecisions : OnMarketEvent(n)
           \/ Preview
           \/ UNCHANGED vars
  <2>1. /\ UNCHANGED <<orders, deposits, restarts, call>>
        /\ engine'.portfolio = engine.portfolio
        /\ engine'.brokerage = engine.brokerage
        /\ engine'.stopped = engine.stopped
    BY <1>2 DEF Start, Stop, OnMarketEvent, Preview, vars, brokerVars, TypeOK, Engine
  <2>2. QED
    BY <2>1, MatchKept
<1>3. CASE \/ SubmitAutomatically
           \/ \E require_reconciliation \in BOOLEAN : SubmitManually(require_reconciliation)
  <2>1. call = Idle /\ UNCHANGED <<engine, orders, deposits, restarts>>
    BY <1>3 DEF SubmitAutomatically, SubmitManually, Free, brokerVars
  <2>2. QED
    BY <1>0, <2>1, MatchKept
<1>4. CASE CallRaises
  <2>1. /\ engine' = AfterFailure(engine)
        /\ UNCHANGED <<orders, deposits, restarts>>
    BY <1>4 DEF CallRaises, brokerVars
  <2>2. /\ engine'.portfolio = engine.portfolio
        /\ engine'.brokerage = engine.brokerage
    BY <2>1 DEF AfterFailure, StopAutomation, TypeOK, Engine
  <2>3. Unmatched = {} \/ engine'.stopped
    BY <2>1, FailureKeeps DEF MatchInv
  <2>4. QED
    BY <2>1, <2>2, <2>3, MatchKept
<1>5. CASE ReconcileBefore \/ ReconcileAfter
  <2>1. MatchesAccount(engine) /\ UNCHANGED <<engine, orders, deposits, restarts>>
    BY <1>5 DEF ReconcileBefore, ReconcileAfter, brokerVars
  <2>2. QED
    BY <2>1, MatchMeansNone, MatchKept
<1>6. CASE Place
  <2>1. /\ call # Idle
        /\ call.next = "place"
        /\ orders' = Taken
        /\ UNCHANGED <<deposits, restarts>>
        /\ engine.brokerage = "live"
    BY <1>6 DEF Place, Idle
  <2>2. Unmatched = {} \/ engine.stopped
    BY <2>1 DEF MatchInv
  <2>3. \/ engine' = AfterFailure(engine) /\ call' = Idle
        \/ /\ engine' = [engine EXCEPT !.submissions = @ \cup {Len(Taken)}]
           /\ IF call.caller = "automation" THEN call' = [call EXCEPT !.next = "confirm"]
                                            ELSE call' = Idle
    BY <1>6 DEF Place, EndCall
  <2>4. /\ engine'.portfolio = engine.portfolio
        /\ engine'.brokerage = engine.brokerage
        /\ engine.stopped => engine'.stopped
    BY <2>3, FailureKeeps DEF AfterFailure, StopAutomation, TypeOK, Engine
  <2>5. /\ DOMAIN Taken = DOMAIN orders \cup {Len(Taken)}
        /\ Len(Taken) \in Nat
        /\ \A i \in DOMAIN orders : Taken[i] = orders[i]
        /\ DOMAIN orders = 1..Len(orders)
        /\ Len(Taken) = Len(orders) + 1
    BY <2>1, TakenType
  <2>6. /\ ~Taken[Len(Taken)].executed
        /\ Taken[Len(Taken)].unmatched <=> ~Matched
    <3> DEFINE new == [caller    |-> call.caller,
                       process   |-> restarts,
                       unmatched |-> ~Matched,
                       executed  |-> FALSE]
    <3>1. /\ ~new.executed
          /\ new.unmatched <=> ~Matched
      OBVIOUS
    <3>2. Taken[Len(Taken)] = new
      <4>1. orders \in Seq(Order) /\ Taken = Append(orders, new)
        BY DEF Taken, TypeOK
      <4> HIDE DEF new
      <4>2. QED
        BY <4>1, <2>5
    <3>3. QED
      BY <3>1, <3>2
  <2>7. NoneExecuted' => NoneExecuted
    BY <2>1, <2>5 DEF NoneExecuted
  <2>8. CASE call.caller # "automation" \/ Matched
    <3>1. Unmatched' = Unmatched
      BY <2>1, <2>5, <2>6, <2>8, TakenPlaced DEF Unmatched, PlacedHere
    <3>2. QED
      BY <2>1, <2>2, <2>4, <2>7, <3>1 DEF MatchInv
  <2>9. CASE call.caller = "automation" /\ ~Matched
    <3>1. Unmatched = {} /\ engine.initialized
      BY <2>1, <2>2, <2>9 DEF CallInv
    <3>2. Unmatched' \subseteq {Len(Taken)}
      BY <2>1, <2>5, <2>9, <3>1, TakenPlaced DEF Unmatched, PlacedHere
    <3>3. engine.portfolio \in Int
      BY <3>1 DEF TypeOK, Engine
    <3>4. NoneExecuted => engine.portfolio < deposits
      BY <2>9, <3>3, SharesZero DEF Matched, MatchInv, TypeOK
    <3>5. engine'.stopped \/ (call'.caller = "automation" /\ call'.next = "confirm")
      BY <2>1, <2>3, <2>9, FailureKeeps DEF TypeOK, Call
    <3>6. QED
      BY <2>1, <2>4, <2>5, <2>7, <3>2, <3>3, <3>4, <3>5 DEF MatchInv
  <2>10. QED
    BY <2>8, <2>9
<1>7. CASE \E i \in DOMAIN orders : Execute(i)
  <2>1. PICK i \in DOMAIN orders : Execute(i)
    BY <1>7
  <2>2. /\ UNCHANGED <<engine, call, deposits, restarts>>
        /\ orders' = [orders EXCEPT ![i] = [orders[i] EXCEPT !.executed = TRUE]]
    BY <2>1 DEF Execute
  <2>3. orders \in Seq(Order)
    BY DEF TypeOK
  <2>4. orders[i] \in Order
    BY <2>3
  <2>5. /\ DOMAIN orders' = DOMAIN orders
        /\ \A j \in DOMAIN orders : /\ orders'[j].caller = orders[j].caller
                                    /\ orders'[j].process = orders[j].process
                                    /\ orders'[j].unmatched = orders[j].unmatched
        /\ orders'[i].executed
    BY <2>2, <2>3, <2>4 DEF Order
  <2>6. Unmatched' = Unmatched /\ ~NoneExecuted'
    BY <2>2, <2>5 DEF Unmatched, PlacedHere, NoneExecuted
  <2>7. QED
    BY <2>2, <2>6 DEF MatchInv
<1>8. CASE Deposit
  <2>1. UNCHANGED <<engine, call, orders, restarts>> /\ deposits' = deposits + 1
    BY <1>8 DEF Deposit
  <2>2. Unmatched' = Unmatched /\ NoneExecuted' = NoneExecuted
    BY <2>1 DEF Unmatched, PlacedHere, NoneExecuted
  <2>3. ASSUME engine.portfolio \in Int
        PROVE  /\ engine.portfolio <= deposits'
               /\ engine.portfolio < deposits => engine.portfolio < deposits'
    BY <2>1, <2>3 DEF MatchInv, TypeOK
  <2>4. QED
    BY <2>1, <2>2, <2>3 DEF MatchInv
<1>9. CASE Restart
  <2>1. /\ restarts' = restarts + 1
        /\ orders' = orders
        /\ engine'.portfolio = NoPortfolio
    BY <1>9 DEF Restart, NewEngine, brokerVars
  <2>2. ASSUME NEW i \in DOMAIN orders
        PROVE  orders[i].process # restarts'
    <3>1. orders \in Seq(Order) /\ restarts \in Nat
      BY DEF TypeOK
    <3>2. orders[i] \in Order
      BY <3>1
    <3>3. orders[i].process \in Nat /\ orders[i].process <= restarts
      BY <3>2 DEF Order, CallInv
    <3>4. QED
      BY <2>1, <3>1, <3>3
  <2>3. Unmatched' = {}
    BY <2>1, <2>2 DEF Unmatched, PlacedHere
  <2>4. 0 \in Nat /\ Unmatched' \subseteq {0}
    BY <2>3
  <2>5. QED
    BY <2>1, <2>3, <2>4, BoundAssumption DEF MatchInv
<1>10. QED
  BY <1>1, <1>2, <1>3, <1>4, <1>5, <1>6, <1>7, <1>8, <1>9 DEF Next

LEMMA MatchInvImplies == TypeOK /\ MatchInv => AtMostOneUnmatchedOrder
<1> SUFFICES ASSUME TypeOK, MatchInv PROVE AtMostOneUnmatchedOrder
  OBVIOUS
<1>1. PICK i \in Nat : Unmatched \subseteq {i}
  BY DEF MatchInv
<1>2. Unmatched = {} \/ Unmatched = {i}
  BY <1>1
<1>3. Cardinality(Unmatched) <= 1
  <2>1. Cardinality({}) = 0 /\ Cardinality({i}) = 1
    BY FS_EmptySet, FS_Singleton
  <2>2. QED
    BY <1>2, <2>1
<1>4. call = Idle /\ Unmatched # {} => engine.stopped
  BY DEF MatchInv, Idle
<1>5. QED
  BY <1>3, <1>4 DEF AtMostOneUnmatchedOrder, Unmatched

(* Automation places at most one order on an account its portfolio does not
   match, and has stopped once that call is over. *)
THEOREM OneUnmatchedOrder == Spec => []AtMostOneUnmatchedOrder
<1>1. TypeOK /\ CallInv /\ MatchInv /\ [Next]_vars => MatchInv'
  BY MatchInvPreserved
<1>2. QED
  BY <1>1, MatchInvInit, MatchInvImplies, Invariants, PTL DEF Spec
-----------------------------------------------------------------------------
(***************************************************************************)
(* The event loop.                                                          *)
(***************************************************************************)
(* What the loop remembers explains what it has handled. *)

SeenInv ==
  policy.deduplicate => \A i \in DOMAIN handled : handled[i] \in loop.seen

LatestInv ==
  policy.fail_on_out_of_order =>
    \A i \in DOMAIN handled :
      /\ loop.last_timestamp[handled[i].symbol] # NoTime
      /\ handled[i].timestamp <= loop.last_timestamp[handled[i].symbol]

(* A loop that fails closed and still runs heard its last heartbeat from the event it
   handled last. *)
HeartbeatInv ==
  Running /\ Len(handled) > 0 => loop.last_heartbeat = handled[Len(handled)].timestamp

(* While it runs, an event it has seen was handled or is of no session, and so is
   every event before the position of its source. *)
Settled ==
  {event \in Event : IsOutsideSession(event) \/ \E k \in DOMAIN handled : handled[k] = event}

ProgressInv ==
  Running =>
    /\ loop.seen \subseteq Settled
    /\ policy.source_factory # "resume" => \A i \in 1..(position - 1) : feed[i] \in Settled

IInv ==
  /\ LoopTypeOK
  /\ HandledOnceInOrder
  /\ HandledWithoutGap
  /\ NothingLost
  /\ SeenInv
  /\ LatestInv
  /\ HeartbeatInv
  /\ ProgressInv
-----------------------------------------------------------------------------
(* What a source yields is an event of the feed. *)
LEMMA YieldsType ==
  ASSUME LoopTypeOK, NEW event, Yields(event)
  PROVE  /\ event \in Event
         /\ position \in 1..Len(feed)
         /\ event = feed[position]
         /\ feed \in Seq(Event)
         /\ policy \in Policy
BY FeedAssumption, PolicyAssumption DEF LoopTypeOK, Yields

(* What the stages of the loop make of its memory: each adds to what the one before
   remembers, and the latest time of a symbol never goes back. *)
LEMMA Stages ==
  ASSUME LoopTypeOK, NEW event \in Event
  PROVE  /\ Filtered(event) \in Loop
         /\ Ordered(event) \in Loop
         /\ Checked(event) \in Loop
         /\ \A l \in {Filtered(event), Ordered(event), Checked(event)} :
              /\ l.reconnects = loop.reconnects
              /\ l.stopped = loop.stopped
              /\ l.seen = IF policy.deduplicate THEN loop.seen \cup {event} ELSE loop.seen
         /\ Filtered(event).last_timestamp = loop.last_timestamp
         /\ Filtered(event).last_heartbeat = loop.last_heartbeat
         /\ Checked(event).last_timestamp = Ordered(event).last_timestamp
         /\ Checked(event).last_heartbeat = event.timestamp
<1>1. loop \in Loop /\ event.symbol \in Symbols /\ event.timestamp \in Nat
  BY DEF LoopTypeOK, Event
<1>2. /\ Filtered(event) \in Loop
      /\ Filtered(event).reconnects = loop.reconnects
      /\ Filtered(event).stopped = loop.stopped
      /\ Filtered(event).last_timestamp = loop.last_timestamp
      /\ Filtered(event).last_heartbeat = loop.last_heartbeat
      /\ Filtered(event).seen
           = IF policy.deduplicate THEN loop.seen \cup {event} ELSE loop.seen
  BY <1>1 DEF Filtered, Loop
<1>3. /\ Ordered(event) \in Loop
      /\ Ordered(event).reconnects = Filtered(event).reconnects
      /\ Ordered(event).stopped = Filtered(event).stopped
      /\ Ordered(event).seen = Filtered(event).seen
  <2>1. CASE IsOutOfOrder(event)
    BY <1>2, <2>1 DEF Ordered
  <2>2. CASE ~IsOutOfOrder(event)
    <3> DEFINE times == [Filtered(event).last_timestamp EXCEPT ![event.symbol] = event.timestamp]
    <3>1. times \in [Symbols -> Nat \cup {NoTime}]
      BY <1>1, <1>2 DEF Loop
    <3>2. Ordered(event) = [Filtered(event) EXCEPT !.last_timestamp = times]
      BY <2>2 DEF Ordered
    <3> HIDE DEF times
    <3>3. QED
      BY <1>2, <3>1, <3>2 DEF Loop
  <2>3. QED
    BY <2>1, <2>2
<1>4. /\ Checked(event) \in Loop
      /\ Checked(event).reconnects = Ordered(event).reconnects
      /\ Checked(event).stopped = Ordered(event).stopped
      /\ Checked(event).seen = Ordered(event).seen
      /\ Checked(event).last_timestamp = Ordered(event).last_timestamp
      /\ Checked(event).last_heartbeat = event.timestamp
  BY <1>1, <1>3 DEF Checked, Loop
<1>5. QED
  BY <1>2, <1>3, <1>4

(* Giving a reason to stop changes nothing else. *)
LEMMA StoppedType ==
  ASSUME NEW l \in Loop,
         NEW reason \in {"source_exhausted", "max_events", "error", "stream_disconnected"}
  PROVE  /\ Stopped(l, reason) \in Loop
         /\ Stopped(l, reason).stopped = reason
         /\ Stopped(l, reason).seen = l.seen
         /\ Stopped(l, reason).reconnects = l.reconnects
         /\ Stopped(l, reason).last_timestamp = l.last_timestamp
BY DEF Stopped, Loop

(* The time kept for the symbol of an event that passes the ordering is the event's,
   and no other changes. *)
LEMMA OrderedTimes ==
  ASSUME LoopTypeOK, NEW event \in Event
  PROVE  /\ IsOutOfOrder(event) => Ordered(event).last_timestamp = loop.last_timestamp
         /\ ~IsOutOfOrder(event) =>
              Ordered(event).last_timestamp
                = [loop.last_timestamp EXCEPT ![event.symbol] = event.timestamp]
<1>1. Filtered(event) \in Loop /\ Filtered(event).last_timestamp = loop.last_timestamp
  BY Stages
<1>2. QED
  BY <1>1 DEF Ordered, Loop
-----------------------------------------------------------------------------
(* A loop just made remembers nothing and has handled nothing. *)
THEOREM Initially == LoopInit => IInv
<1> SUFFICES ASSUME LoopInit PROVE IInv
  OBVIOUS
<1>1. LoopTypeOK
  BY FeedAssumption, PolicyAssumption DEF LoopInit, LoopTypeOK, Loop, Running, Policy
<1>2. handled = <<>> /\ Len(handled) = 0 /\ DOMAIN handled = {}
  BY DEF LoopInit
<1>3. loop.seen = {} /\ position = 1 /\ loop.stopped = "running"
  BY DEF LoopInit
<1>4. HandledOnceInOrder /\ HandledWithoutGap /\ SeenInv /\ LatestInv
  BY <1>2 DEF HandledOnceInOrder, HandledWithoutGap, SeenInv, LatestInv
<1>5. NothingLost /\ HeartbeatInv
  BY <1>2, <1>3 DEF NothingLost, HeartbeatInv
<1>6. ProgressInv
  BY <1>3 DEF ProgressInv
<1>7. QED
  BY <1>1, <1>4, <1>5, <1>6 DEF IInv

LEMMA TypeStep ==
  ASSUME LoopTypeOK, [LoopNext]_loopVars
  PROVE  LoopTypeOK'
<1>1. /\ policy \in Policy /\ feed \in Seq(Event) /\ Len(feed) \in Nat
      /\ position \in 1..(Len(feed) + 1)
      /\ loop \in Loop /\ loop.reconnects \in Nat /\ opened = loop.reconnects + 1
      /\ handled \in Seq(Event)
      /\ policy.max_attempts \in Nat
  BY FeedAssumption, PolicyAssumption DEF LoopTypeOK, Loop, Policy
<1>2. ASSUME NEW event \in Event, Yields(event)
      PROVE  position + 1 \in 1..(Len(feed) + 1)
  BY <1>1, <1>2 DEF Yields
<1>3. ASSUME Running, Close
      PROVE  closed' = 1..opened
  BY <1>1, <1>3 DEF Close, LoopTypeOK
<1>4. ASSUME NEW event, SkipDuplicate(event)
      PROVE  LoopTypeOK'
  <2>1. event \in Event
    BY <1>4, YieldsType DEF SkipDuplicate
  <2>2. QED
    BY <1>2, <1>4, <2>1 DEF SkipDuplicate, LoopTypeOK, Running
<1>5. ASSUME NEW event, SkipOutsideSession(event)
      PROVE  LoopTypeOK'
  <2>1. event \in Event
    BY <1>5, YieldsType DEF SkipOutsideSession
  <2>2. loop' \in Loop /\ loop'.reconnects = loop.reconnects /\ loop'.stopped = loop.stopped
    BY <1>5, <2>1, Stages DEF SkipOutsideSession
  <2>3. QED
    BY <1>2, <1>5, <2>1, <2>2 DEF SkipOutsideSession, LoopTypeOK, Running
<1>6. ASSUME NEW event, FailCheck(event)
      PROVE  LoopTypeOK'
  <2>1. event \in Event /\ Running
    BY <1>6, YieldsType DEF FailCheck, Yields
  <2>2. PICK l \in {Filtered(event), Ordered(event), Checked(event)} : loop' = Stopped(l, "error")
    BY <1>6 DEF FailCheck
  <2>3. l \in Loop /\ l.reconnects = loop.reconnects
    BY <2>1, Stages
  <2>4. loop' \in Loop /\ loop'.reconnects = loop.reconnects /\ loop'.stopped = "error"
    BY <2>2, <2>3, StoppedType
  <2>5. closed' = 1..opened
    BY <1>3, <1>6, <2>1 DEF FailCheck
  <2>6. QED
    BY <1>6, <2>4, <2>5 DEF FailCheck, LoopTypeOK, Running
<1>7. ASSUME NEW event, Dispatch(event)
      PROVE  LoopTypeOK'
  <2>1. event \in Event /\ Running
    BY <1>7, YieldsType DEF Dispatch, Yields
  <2>2. handled' \in Seq(Event)
    BY <1>1, <1>7, <2>1 DEF Dispatch
  <2>3. Checked(event) \in Loop /\ Checked(event).reconnects = loop.reconnects
        /\ Checked(event).stopped = loop.stopped
    BY <2>1, Stages
  <2>4. \/ loop' = Checked(event) /\ closed' = closed
        \/ \E reason \in {"max_events", "error"} : loop' = Stopped(Checked(event), reason) /\ Close
    BY <1>7 DEF Dispatch
  <2>5. position' = position + 1 /\ UNCHANGED <<policy, feed, clock, opened>>
    BY <1>7 DEF Dispatch
  <2>6. position' \in 1..(Len(feed) + 1)
    BY <1>2, <1>7, <2>1, <2>5 DEF Dispatch
  <2>7. CASE loop' = Checked(event) /\ closed' = closed
    BY <2>2, <2>3, <2>5, <2>6, <2>7 DEF LoopTypeOK, Running
  <2>8. ASSUME NEW reason \in {"max_events", "error"},
               loop' = Stopped(Checked(event), reason), Close
        PROVE  LoopTypeOK'
    <3>1. loop' \in Loop /\ loop'.reconnects = loop.reconnects /\ loop'.stopped = reason
      BY <2>3, <2>8, StoppedType
    <3>2. closed' = 1..opened
      BY <1>3, <2>1, <2>8
    <3>3. QED
      BY <2>2, <2>5, <2>6, <3>1, <3>2 DEF LoopTypeOK, Running
  <2>9. QED
    BY <2>4, <2>7, <2>8
<1>8. ASSUME Running, Close, UNCHANGED <<policy, feed, clock, position, opened, handled>>,
             NEW reason \in {"source_exhausted", "max_events", "error", "stream_disconnected"},
             loop' = Stopped(loop, reason)
      PROVE  LoopTypeOK'
  <2>1. loop' \in Loop /\ loop'.reconnects = loop.reconnects /\ loop'.stopped = reason
    BY <1>1, <1>8, StoppedType
  <2>2. closed' = 1..opened
    BY <1>3, <1>8
  <2>3. QED
    BY <1>8, <2>1, <2>2 DEF LoopTypeOK, Running
<1>9. CASE Exhausted
  BY <1>8, <1>9 DEF Exhausted
<1>10. CASE GiveUp
  BY <1>8, <1>10 DEF GiveUp
<1>11. CASE Reconnect
  <2> DEFINE used == loop.reconnects + 1
  <2>1. /\ loop' \in Loop
        /\ loop'.reconnects = loop.reconnects + 1
        /\ loop'.stopped = loop.stopped
    <3>1. used \in Nat /\ loop' = [loop EXCEPT !.reconnects = used]
      BY <1>1, <1>11 DEF Reconnect
    <3> HIDE DEF used
    <3>2. loop' \in Loop /\ loop'.reconnects = used /\ loop'.stopped = loop.stopped
      BY <1>1, <3>1 DEF Loop
    <3>3. QED
      BY <3>2 DEF used
  <2>2. loop'.reconnects <= policy.max_attempts
    BY <1>1, <1>11, <2>1 DEF Reconnect, CanReconnect
  <2>3. closed' = 1..opened /\ opened' = opened + 1 /\ Running
    BY <1>3, <1>11 DEF Reconnect
  <2>4. Resumption \subseteq 1..(Len(feed) + 1)
    BY <1>1 DEF Resumption
  <2>5. QED
    BY <1>1, <1>11, <2>1, <2>2, <2>3, <2>4 DEF Reconnect, LoopTypeOK, Running
<1>12. CASE Tick
  BY <1>12 DEF Tick, LoopTypeOK, Running
<1>13. CASE UNCHANGED loopVars
  BY <1>13 DEF loopVars, LoopTypeOK, Running
<1>14. QED
  BY <1>4, <1>5, <1>6, <1>7, <1>9, <1>10, <1>11, <1>12, <1>13 DEF LoopNext, Receive
-----------------------------------------------------------------------------
(* What a step may do to the record of handled events. *)
LEMMA HandledStep ==
  ASSUME LoopTypeOK, [LoopNext]_loopVars
  PROVE  \/ \E event \in Event : Dispatch(event)
         \/ handled' = handled
BY YieldsType DEF LoopNext, Receive, SkipDuplicate, SkipOutsideSession, FailCheck, Dispatch,
                  Exhausted, Reconnect, GiveUp, Tick, loopVars

(* The loop forgets nothing: events seen stay seen and times only grow. *)
LEMMA MemoryStep ==
  ASSUME LoopTypeOK, [LoopNext]_loopVars
  PROVE  /\ policy' = policy /\ feed' = feed
         /\ loop.seen \subseteq loop'.seen
         /\ \A s \in Symbols :
              loop.last_timestamp[s] # NoTime =>
                /\ loop'.last_timestamp[s] # NoTime
                /\ loop.last_timestamp[s] <= loop'.last_timestamp[s]
<1>1. loop \in Loop /\ loop.last_timestamp \in [Symbols -> Nat \cup {NoTime}]
  BY DEF LoopTypeOK, Loop
<1>2. policy' = policy /\ feed' = feed
  BY DEF LoopNext, Receive, SkipDuplicate, SkipOutsideSession, FailCheck, Dispatch, Exhausted,
         Reconnect, GiveUp, Tick, loopVars
<1> DEFINE Remembers(l) ==
             /\ loop.seen \subseteq l.seen
             /\ \A s \in Symbols :
                  loop.last_timestamp[s] # NoTime =>
                    /\ l.last_timestamp[s] # NoTime
                    /\ loop.last_timestamp[s] <= l.last_timestamp[s]
<1>3. ASSUME NEW l \in Loop, l.seen = loop.seen, l.last_timestamp = loop.last_timestamp
      PROVE  Remembers(l)
  BY <1>1, <1>3
<1>4. ASSUME NEW event \in Event
      PROVE  \A l \in {Filtered(event), Ordered(event), Checked(event)} : Remembers(l)
  <2>1. /\ \A l \in {Filtered(event), Ordered(event), Checked(event)} : loop.seen \subseteq l.seen
        /\ Filtered(event).last_timestamp = loop.last_timestamp
        /\ Checked(event).last_timestamp = Ordered(event).last_timestamp
    BY Stages
  <2>2. event.symbol \in Symbols /\ event.timestamp \in Nat /\ NoTime \notin Nat
    BY NoTimeAssumption DEF Event
  <2>3. \A s \in Symbols :
          loop.last_timestamp[s] # NoTime =>
            /\ Ordered(event).last_timestamp[s] # NoTime
            /\ loop.last_timestamp[s] <= Ordered(event).last_timestamp[s]
    <3>1. CASE IsOutOfOrder(event)
      <4>1. Ordered(event).last_timestamp = loop.last_timestamp
        BY <3>1, OrderedTimes
      <4>2. \A s \in Symbols :
              loop.last_timestamp[s] # NoTime => loop.last_timestamp[s] <= loop.last_timestamp[s]
        BY <1>1
      <4>3. QED
        BY <4>1, <4>2
    <3>2. CASE ~IsOutOfOrder(event)
      <4>1. Ordered(event).last_timestamp
              = [loop.last_timestamp EXCEPT ![event.symbol] = event.timestamp]
        BY <3>2, OrderedTimes
      <4>2. loop.last_timestamp[event.symbol] # NoTime =>
              loop.last_timestamp[event.symbol] <= event.timestamp
        BY <1>1, <2>2, <3>2 DEF IsOutOfOrder
      <4>3. QED
        BY <1>1, <2>2, <4>1, <4>2
    <3>3. QED
      BY <3>1, <3>2
  <2>4. \A s \in Symbols :
          loop.last_timestamp[s] # NoTime => loop.last_timestamp[s] <= loop.last_timestamp[s]
    BY <1>1
  <2>5. QED
    BY <2>1, <2>3, <2>4
<1>5. ASSUME NEW event \in Event, NEW l \in {Filtered(event), Ordered(event), Checked(event)},
             NEW reason \in {"max_events", "error"}
      PROVE  Remembers(Stopped(l, reason))
  <2>1. l \in Loop /\ Remembers(l)
    BY <1>4, Stages
  <2>2. Stopped(l, reason).seen = l.seen /\ Stopped(l, reason).last_timestamp = l.last_timestamp
    BY <2>1, StoppedType
  <2>3. QED
    BY <2>1, <2>2
<1>6. ASSUME NEW reason \in {"source_exhausted", "stream_disconnected", "error"}
      PROVE  Remembers(Stopped(loop, reason))
  BY <1>1, <1>3, StoppedType
<1>7. Remembers(loop')
  <2> HIDE DEF Remembers
  <2>1. CASE Receive
    <3>1. PICK event : SkipDuplicate(event) \/ SkipOutsideSession(event) \/ FailCheck(event)
                         \/ Dispatch(event)
      BY <2>1 DEF Receive
    <3>2. event \in Event
      BY <3>1, YieldsType DEF SkipDuplicate, SkipOutsideSession, FailCheck, Dispatch
    <3>3. CASE SkipDuplicate(event)
      BY <1>1, <1>3, <3>3 DEF SkipDuplicate
    <3>4. CASE SkipOutsideSession(event)
      BY <1>4, <3>2, <3>4 DEF SkipOutsideSession
    <3>5. CASE FailCheck(event)
      BY <1>5, <3>2, <3>5 DEF FailCheck
    <3>6. CASE Dispatch(event)
      BY <1>4, <1>5, <3>2, <3>6 DEF Dispatch
    <3>7. QED
      BY <3>1, <3>3, <3>4, <3>5, <3>6
  <2>2. CASE Exhausted
    BY <1>6, <2>2 DEF Exhausted
  <2>3. CASE GiveUp
    BY <1>6, <2>3 DEF GiveUp
  <2>4. CASE Reconnect
    <3>1. /\ loop' = [loop EXCEPT !.reconnects = @ + 1]
      BY <2>4 DEF Reconnect
    <3>2. loop'.seen = loop.seen /\ loop'.last_timestamp = loop.last_timestamp
      BY <1>1, <3>1 DEF Loop
    <3>3. loop' \in Loop
      BY TypeStep DEF LoopTypeOK
    <3>4. QED
      BY <1>3, <3>2, <3>3
  <2>5. CASE Tick \/ UNCHANGED loopVars
    BY <1>1, <1>3, <2>5 DEF Tick, loopVars
  <2>6. QED
    BY <2>1, <2>2, <2>3, <2>4, <2>5 DEF LoopNext
<1>8. QED
  BY <1>2, <1>7
-----------------------------------------------------------------------------
(* The handler is called with the event after what it was called with before, when
   the event has passed every filter and check. *)
LEMMA DispatchResult ==
  ASSUME LoopTypeOK, NEW event \in Event, Dispatch(event)
  PROVE  /\ Running /\ position \in 1..Len(feed) /\ feed[position] = event
         /\ position' = position + 1
         /\ ~IsDuplicate(event) /\ ~FailsOrdering(event) /\ ~FailsHeartbeat(event)
         /\ Len(handled') = Len(handled) + 1
         /\ DOMAIN handled' = 1..(Len(handled) + 1)
         /\ DOMAIN handled = 1..Len(handled) /\ Len(handled) \in Nat
         /\ \A i \in 1..Len(handled) : handled'[i] = handled[i]
         /\ handled'[Len(handled) + 1] = event
         /\ loop'.seen = IF policy.deduplicate THEN loop.seen \cup {event} ELSE loop.seen
         /\ loop'.last_timestamp = Ordered(event).last_timestamp
         /\ loop'.stopped \in {"running", "max_events", "error"}
         /\ loop'.stopped = "running" => loop'.last_heartbeat = event.timestamp
<1>1. handled \in Seq(Event) /\ handled' = Append(handled, event)
  BY DEF LoopTypeOK, Dispatch
<1>2. /\ Running /\ position \in 1..Len(feed) /\ feed[position] = event
      /\ position' = position + 1
      /\ ~IsDuplicate(event) /\ ~FailsOrdering(event) /\ ~FailsHeartbeat(event)
  BY YieldsType DEF Dispatch, Raises, Yields
<1>3. /\ Checked(event) \in Loop
      /\ Checked(event).stopped = "running"
      /\ Checked(event).seen = IF policy.deduplicate THEN loop.seen \cup {event} ELSE loop.seen
      /\ Checked(event).last_timestamp = Ordered(event).last_timestamp
      /\ Checked(event).last_heartbeat = event.timestamp
  BY <1>2, Stages DEF Running
<1>4. \/ loop' = Checked(event)
      \/ loop' = Stopped(Checked(event), "max_events")
      \/ loop' = Stopped(Checked(event), "error")
  BY DEF Dispatch
<1>5. /\ loop'.seen = Checked(event).seen
      /\ loop'.last_timestamp = Checked(event).last_timestamp
      /\ loop'.stopped \in {"running", "max_events", "error"}
      /\ loop'.stopped = "running" => loop'.last_heartbeat = event.timestamp
  BY <1>3, <1>4, StoppedType
<1>6. /\ Len(handled') = Len(handled) + 1
      /\ DOMAIN handled' = 1..(Len(handled) + 1)
      /\ DOMAIN handled = 1..Len(handled) /\ Len(handled) \in Nat
      /\ \A i \in 1..Len(handled) : handled'[i] = handled[i]
      /\ handled'[Len(handled) + 1] = event
  BY <1>1
<1>7. QED
  BY <1>2, <1>3, <1>5, <1>6

(* Each place of the new record is a place of the old one or the last, the event's. *)
LEMMA DispatchAppends ==
  ASSUME LoopTypeOK, NEW event \in Event, Dispatch(event)
  PROVE  /\ \A i \in DOMAIN handled' :
              \/ i \in DOMAIN handled /\ handled'[i] = handled[i]
              \/ /\ i = Len(handled) + 1 /\ i \notin DOMAIN handled
                 /\ handled'[i] = event
         /\ \A i \in DOMAIN handled : i \in DOMAIN handled' /\ handled'[i] = handled[i]
         /\ Len(handled) + 1 \in DOMAIN handled'
         /\ \A i, j \in DOMAIN handled' : i < j => i \in DOMAIN handled
<1> DEFINE n == Len(handled)
<1>1. /\ DOMAIN handled' = 1..(n + 1) /\ DOMAIN handled = 1..n /\ n \in Nat
      /\ \A i \in 1..n : handled'[i] = handled[i]
      /\ handled'[n + 1] = event
  BY DispatchResult
<1> HIDE DEF n
<1>2. /\ \A i \in 1..(n + 1) : i \in 1..n \/ (i = n + 1 /\ i \notin 1..n)
      /\ \A i \in 1..n : i \in 1..(n + 1)
      /\ n + 1 \in 1..(n + 1)
      /\ \A i, j \in 1..(n + 1) : i < j => i \in 1..n
  BY <1>1
<1>3. \A i \in DOMAIN handled' :
        \/ i \in DOMAIN handled /\ handled'[i] = handled[i]
        \/ i = n + 1 /\ i \notin DOMAIN handled /\ handled'[i] = event
  BY <1>1, <1>2
<1>4. QED
  BY <1>1, <1>2, <1>3 DEF n

LEMMA SeenStep ==
  ASSUME LoopTypeOK, SeenInv, [LoopNext]_loopVars
  PROVE  SeenInv'
<1>1. policy' = policy /\ loop.seen \subseteq loop'.seen
  BY MemoryStep
<1>2. ASSUME NEW event \in Event, Dispatch(event)
      PROVE  SeenInv'
  <2> SUFFICES ASSUME policy.deduplicate, NEW i \in DOMAIN handled'
               PROVE  handled'[i] \in loop'.seen
    BY <1>1 DEF SeenInv
  <2>1. (i \in DOMAIN handled /\ handled'[i] = handled[i]) \/ handled'[i] = event
    BY <1>2, DispatchAppends
  <2>2. event \in loop'.seen
    BY <1>2, DispatchResult
  <2>3. QED
    BY <1>1, <2>1, <2>2 DEF SeenInv
<1>3. CASE handled' = handled
  BY <1>1, <1>3 DEF SeenInv
<1>4. QED
  BY <1>2, <1>3, HandledStep

LEMMA LatestStep ==
  ASSUME LoopTypeOK, LatestInv, [LoopNext]_loopVars
  PROVE  LatestInv'
<1> SUFFICES ASSUME policy.fail_on_out_of_order
             PROVE  \A i \in DOMAIN handled' :
                      /\ loop'.last_timestamp[handled'[i].symbol] # NoTime
                      /\ handled'[i].timestamp <= loop'.last_timestamp[handled'[i].symbol]
  BY MemoryStep DEF LatestInv
<1>1. /\ loop.last_timestamp \in [Symbols -> Nat \cup {NoTime}]
      /\ \A i \in DOMAIN handled : handled[i] \in Event
      /\ NoTime \notin Nat
  BY NoTimeAssumption DEF LoopTypeOK, Loop
<1>2. loop'.last_timestamp \in [Symbols -> Nat \cup {NoTime}]
  BY TypeStep DEF LoopTypeOK, Loop
<1>3. \A i \in DOMAIN handled :
        /\ loop'.last_timestamp[handled[i].symbol] # NoTime
        /\ handled[i].timestamp <= loop'.last_timestamp[handled[i].symbol]
  <2> TAKE i \in DOMAIN handled
  <2> DEFINE before == loop.last_timestamp[handled[i].symbol]
             after  == loop'.last_timestamp[handled[i].symbol]
  <2>1. handled[i].symbol \in Symbols /\ handled[i].timestamp \in Nat
    BY <1>1 DEF Event
  <2>2. before # NoTime /\ handled[i].timestamp <= before
    BY DEF LatestInv
  <2>3. after # NoTime /\ before <= after
    BY <2>1, <2>2, MemoryStep
  <2>4. before \in Nat /\ after \in Nat
    BY <1>1, <1>2, <2>1, <2>2, <2>3
  <2> HIDE DEF before, after
  <2>5. handled[i].timestamp <= after
    BY <2>1, <2>2, <2>3, <2>4
  <2>6. QED
    BY <2>3, <2>5 DEF after
<1>4. ASSUME NEW event \in Event, Dispatch(event)
      PROVE  /\ loop'.last_timestamp[event.symbol] # NoTime
             /\ event.timestamp <= loop'.last_timestamp[event.symbol]
  <2>1. ~IsOutOfOrder(event) /\ loop'.last_timestamp = Ordered(event).last_timestamp
    BY <1>4, DispatchResult DEF FailsOrdering
  <2>2. loop'.last_timestamp = [loop.last_timestamp EXCEPT ![event.symbol] = event.timestamp]
    BY <2>1, OrderedTimes
  <2>3. event.symbol \in Symbols /\ event.timestamp \in Nat
    BY DEF Event
  <2>4. loop'.last_timestamp[event.symbol] = event.timestamp
    BY <1>1, <2>2, <2>3
  <2>5. QED
    BY <1>1, <2>3, <2>4
<1>5. CASE handled' = handled
  BY <1>3, <1>5
<1>6. ASSUME NEW event \in Event, Dispatch(event)
      PROVE  \A i \in DOMAIN handled' :
               (i \in DOMAIN handled /\ handled'[i] = handled[i]) \/ handled'[i] = event
  BY <1>6, DispatchAppends
<1>7. QED
  BY <1>3, <1>4, <1>5, <1>6, HandledStep

LEMMA OnceStep ==
  ASSUME LoopTypeOK, SeenInv, LatestInv, HandledOnceInOrder, [LoopNext]_loopVars
  PROVE  HandledOnceInOrder'
<1>1. policy' = policy
  BY MemoryStep
<1>2. ASSUME NEW event \in Event, Dispatch(event)
      PROVE  HandledOnceInOrder'
  <2> SUFFICES ASSUME NEW i \in DOMAIN handled', NEW j \in DOMAIN handled', i < j
               PROVE  /\ policy.deduplicate => handled'[i] # handled'[j]
                      /\ policy.fail_on_out_of_order /\ handled'[i].symbol = handled'[j].symbol =>
                           handled'[i].timestamp <= handled'[j].timestamp
    BY <1>1 DEF HandledOnceInOrder
  <2>1. i \in DOMAIN handled /\ handled'[i] = handled[i]
    BY <1>2, DispatchAppends
  <2>2. CASE j \in DOMAIN handled
    <3>1. handled'[j] = handled[j]
      BY <1>2, <2>2, DispatchAppends
    <3>2. QED
      BY <2>1, <2>2, <3>1 DEF HandledOnceInOrder
  <2>3. CASE j \notin DOMAIN handled
    <3>1. handled'[j] = event
      BY <1>2, <2>3, DispatchAppends
    <3>2. ASSUME policy.deduplicate
          PROVE  handled[i] # event
      BY <1>2, <2>1, <3>2, DispatchResult DEF SeenInv, IsDuplicate
    <3>3. ASSUME policy.fail_on_out_of_order, handled[i].symbol = event.symbol
          PROVE  handled[i].timestamp <= event.timestamp
      <4> DEFINE latest == loop.last_timestamp[event.symbol]
      <4>1. latest # NoTime /\ handled[i].timestamp <= latest
        BY <2>1, <3>3 DEF LatestInv
      <4>2. ~(event.timestamp < latest)
        BY <1>2, <3>3, <4>1, DispatchResult DEF FailsOrdering, IsOutOfOrder
      <4>3. event.timestamp \in Nat /\ latest \in Nat /\ handled[i].timestamp \in Nat
        <5>1. handled[i] \in Event /\ loop.last_timestamp \in [Symbols -> Nat \cup {NoTime}]
          BY <2>1 DEF LoopTypeOK, Loop
        <5>2. event.timestamp \in Nat /\ event.symbol \in Symbols /\ handled[i].timestamp \in Nat
          BY <5>1 DEF Event
        <5>3. QED
          BY <4>1, <5>1, <5>2
      <4> HIDE DEF latest
      <4>4. QED
        BY <4>1, <4>2, <4>3
    <3>4. QED
      BY <2>1, <3>1, <3>2, <3>3
  <2>4. QED
    BY <2>2, <2>3
<1>3. CASE handled' = handled
  BY <1>1, <1>3 DEF HandledOnceInOrder
<1>4. QED
  BY <1>2, <1>3, HandledStep

(* A step that leaves the loop running leaves the last heartbeat alone, unless it
   calls the handler; and only the end of a source exhausts it. *)
LEMMA QuietStep ==
  ASSUME LoopTypeOK, [LoopNext]_loopVars, handled' = handled, loop'.stopped = "running"
  PROVE  Running /\ loop'.last_heartbeat = loop.last_heartbeat
<1>1. loop \in Loop
  BY DEF LoopTypeOK
<1>2. CASE Receive
  <2>1. PICK event : SkipDuplicate(event) \/ SkipOutsideSession(event) \/ FailCheck(event)
                       \/ Dispatch(event)
    BY <1>2 DEF Receive
  <2>2. event \in Event
    BY <2>1, YieldsType DEF SkipDuplicate, SkipOutsideSession, FailCheck, Dispatch
  <2>3. CASE SkipDuplicate(event)
    BY <2>3 DEF SkipDuplicate, Yields
  <2>4. CASE SkipOutsideSession(event)
    BY <2>2, <2>4, Stages DEF SkipOutsideSession, Yields
  <2>5. CASE FailCheck(event)
    <3>1. PICK l \in {Filtered(event), Ordered(event), Checked(event)} : loop' = Stopped(l, "error")
      BY <2>5 DEF FailCheck
    <3>2. l \in Loop
      BY <2>2, Stages
    <3>3. loop'.stopped = "error"
      BY <3>1, <3>2, StoppedType
    <3>4. QED
      BY <3>3
  <2>6. CASE Dispatch(event)
    <3>1. Len(handled') = Len(handled) + 1 /\ Len(handled) \in Nat
      BY <2>2, <2>6, DispatchResult
    <3>2. QED
      BY <3>1
  <2>7. QED
    BY <2>1, <2>3, <2>4, <2>5, <2>6
<1>3. CASE Exhausted
  BY <1>1, <1>3, StoppedType DEF Exhausted
<1>4. CASE GiveUp
  BY <1>1, <1>4, StoppedType DEF GiveUp
<1>5. CASE Reconnect
  BY <1>1, <1>5 DEF Reconnect, Loop
<1>6. CASE Tick \/ UNCHANGED loopVars
  BY <1>6 DEF Tick, loopVars, Running
<1>7. QED
  BY <1>2, <1>3, <1>4, <1>5, <1>6 DEF LoopNext

LEMMA HeartbeatStep ==
  ASSUME LoopTypeOK, HeartbeatInv, [LoopNext]_loopVars
  PROVE  HeartbeatInv'
<1>1. ASSUME NEW event \in Event, Dispatch(event)
      PROVE  HeartbeatInv'
  <2>1. /\ handled'[Len(handled')] = event
        /\ loop'.stopped = "running" => loop'.last_heartbeat = event.timestamp
    BY <1>1, DispatchResult
  <2>2. QED
    BY <2>1 DEF HeartbeatInv, Running
<1>2. CASE handled' = handled
  BY <1>2, QuietStep DEF HeartbeatInv, Running
<1>3. QED
  BY <1>1, <1>2, HandledStep

LEMMA GapStep ==
  ASSUME LoopTypeOK, HeartbeatInv, HandledWithoutGap, [LoopNext]_loopVars
  PROVE  HandledWithoutGap'
<1>1. policy' = policy
  BY MemoryStep
<1>2. ASSUME NEW event \in Event, Dispatch(event)
      PROVE  HandledWithoutGap'
  <2> DEFINE n == Len(handled)
  <2>1. /\ Running /\ ~FailsHeartbeat(event)
        /\ Len(handled') = n + 1 /\ n \in Nat /\ DOMAIN handled = 1..n
        /\ \A i \in 1..n : handled'[i] = handled[i]
        /\ handled'[n + 1] = event
    BY <1>2, DispatchResult
  <2> HIDE DEF n
  <2> SUFFICES ASSUME policy.timeout # NoTime, policy.fail_closed, NEW i \in 1..n
               PROVE  handled'[i + 1].timestamp - handled'[i].timestamp <= policy.timeout
    BY <1>1, <2>1 DEF HandledWithoutGap
  <2>2. CASE i < n
    <3>1. i + 1 \in 1..n /\ i \in 1..(n - 1)
      BY <2>1, <2>2
    <3>2. handled[i + 1].timestamp - handled[i].timestamp <= policy.timeout
      BY <3>1 DEF HandledWithoutGap, n
    <3>3. QED
      BY <2>1, <3>1, <3>2
  <2>3. CASE i = n
    <3>1. n > 0 /\ n \in 1..n
      BY <2>1, <2>3
    <3>2. loop.last_heartbeat = handled[n].timestamp
      BY <2>1, <3>1 DEF HeartbeatInv, n
    <3>3. handled[n] \in Event
      BY <2>1, <3>1 DEF LoopTypeOK
    <3>4. handled[n].timestamp \in Nat /\ event.timestamp \in Nat
      BY <3>3 DEF Event
    <3>5. loop.last_heartbeat # NoTime
      BY <3>2, <3>4, NoTimeAssumption
    <3>6. ~(event.timestamp - loop.last_heartbeat > policy.timeout)
      BY <2>1, <3>5 DEF FailsHeartbeat, MissesHeartbeat
    <3>7. policy.timeout \in Nat
      BY PolicyAssumption DEF LoopTypeOK, Policy
    <3>8. handled'[n] = handled[n] /\ handled'[n + 1] = event
      BY <2>1, <3>1
    <3>9. QED
      BY <2>3, <3>2, <3>4, <3>6, <3>7, <3>8
  <2>4. QED
    BY <2>1, <2>2, <2>3
<1>3. CASE handled' = handled
  BY <1>1, <1>3 DEF HandledWithoutGap
<1>4. QED
  BY <1>2, <1>3, HandledStep
-----------------------------------------------------------------------------
(* An event that is settled stays settled. *)
LEMMA SettledStays ==
  ASSUME LoopTypeOK, [LoopNext]_loopVars
  PROVE  Settled \subseteq Settled'
<1>1. policy' = policy
  BY MemoryStep
<1>2. ASSUME NEW other \in Event, Dispatch(other), NEW k \in DOMAIN handled
      PROVE  k \in DOMAIN handled' /\ handled'[k] = handled[k]
  BY <1>2, DispatchAppends
<1>3. QED
  BY <1>1, <1>2, HandledStep DEF Settled, IsOutsideSession

(* The loop that still runs has passed over nothing but what is settled. *)
LEMMA ProgressStep ==
  ASSUME LoopTypeOK, ProgressInv, [LoopNext]_loopVars
  PROVE  ProgressInv'
<1> SUFFICES ASSUME loop'.stopped = "running"
             PROVE  /\ loop'.seen \subseteq Settled'
                    /\ policy.source_factory # "resume" =>
                         \A i \in 1..(position' - 1) : feed[i] \in Settled'
  <2>1. policy' = policy /\ feed' = feed
    BY MemoryStep
  <2>2. QED
    BY <2>1 DEF ProgressInv, Running
<1>1. loop \in Loop /\ position \in Nat
  BY DEF LoopTypeOK
<1>2. ASSUME Running, loop'.seen = loop.seen, position' = position \/ position' \in 1..position
      PROVE  /\ loop'.seen \subseteq Settled'
             /\ policy.source_factory # "resume" =>
                  \A i \in 1..(position' - 1) : feed[i] \in Settled'
  <2>1. \A i \in 1..(position' - 1) : i \in 1..(position - 1)
    BY <1>1, <1>2
  <2>2. QED
    BY <1>2, <2>1, SettledStays DEF ProgressInv
<1>3. ASSUME Running, NEW event \in Event, feed[position] = event, event \in Settled',
             loop'.seen \subseteq loop.seen \cup {event}, position' = position + 1
      PROVE  /\ loop'.seen \subseteq Settled'
             /\ policy.source_factory # "resume" =>
                  \A i \in 1..(position' - 1) : feed[i] \in Settled'
  <2>1. \A i \in 1..(position' - 1) : i \in 1..(position - 1) \/ i = position
    BY <1>1, <1>3
  <2>2. loop.seen \subseteq Settled'
    BY <1>3, SettledStays DEF ProgressInv
  <2>3. policy.source_factory # "resume" => \A i \in 1..(position - 1) : feed[i] \in Settled'
    BY <1>3, SettledStays DEF ProgressInv
  <2>4. QED
    BY <1>3, <2>1, <2>2, <2>3
<1>4. CASE Receive
  <2>1. PICK event : SkipDuplicate(event) \/ SkipOutsideSession(event) \/ FailCheck(event)
                       \/ Dispatch(event)
    BY <1>4 DEF Receive
  <2>2. event \in Event /\ feed[position] = event /\ Running
    BY <2>1, YieldsType DEF SkipDuplicate, SkipOutsideSession, FailCheck, Dispatch, Yields
  <2>3. CASE SkipDuplicate(event)
    <3>1. event \in loop.seen
      BY <2>3 DEF SkipDuplicate, IsDuplicate
    <3>2. event \in Settled'
      BY <2>2, <3>1, SettledStays DEF ProgressInv
    <3>3. QED
      BY <1>3, <2>2, <2>3, <3>2 DEF SkipDuplicate
  <2>4. CASE SkipOutsideSession(event)
    <3>1. event \in Settled
      BY <2>2, <2>4 DEF SkipOutsideSession, Settled
    <3>2. event \in Settled'
      BY <3>1, SettledStays
    <3>3. loop'.seen \subseteq loop.seen \cup {event}
      BY <2>2, <2>4, Stages DEF SkipOutsideSession
    <3>4. QED
      BY <1>3, <2>2, <2>4, <3>2, <3>3 DEF SkipOutsideSession
  <2>5. CASE FailCheck(event)
    <3>1. PICK l \in {Filtered(event), Ordered(event), Checked(event)} : loop' = Stopped(l, "error")
      BY <2>5 DEF FailCheck
    <3>2. l \in Loop
      BY <2>2, Stages
    <3>3. loop'.stopped = "error"
      BY <3>1, <3>2, StoppedType
    <3>4. QED
      BY <3>3
  <2>6. CASE Dispatch(event)
    <3>1. Len(handled) + 1 \in DOMAIN handled' /\ handled'[Len(handled) + 1] = event
      BY <2>2, <2>6, DispatchAppends, DispatchResult
    <3>2. event \in Settled'
      BY <2>2, <3>1 DEF Settled, IsOutsideSession
    <3>3. loop'.seen \subseteq loop.seen \cup {event} /\ position' = position + 1
      BY <2>2, <2>6, DispatchResult
    <3>4. QED
      BY <1>3, <2>2, <3>2, <3>3
  <2>7. QED
    BY <2>1, <2>3, <2>4, <2>5, <2>6
<1>5. CASE Exhausted
  BY <1>1, <1>5, StoppedType DEF Exhausted
<1>6. CASE GiveUp
  BY <1>1, <1>6, StoppedType DEF GiveUp
<1>7. CASE Reconnect
  <2>1. Running /\ loop'.seen = loop.seen
    BY <1>1, <1>7 DEF Reconnect, Loop
  <2>2. CASE policy.source_factory = "resume"
    BY <2>1, <2>2, SettledStays DEF ProgressInv
  <2>3. CASE policy.source_factory # "resume"
    <3>1. position' \in 1..position
      BY <1>7, <2>3 DEF Reconnect, Resumption
    <3>2. QED
      BY <1>2, <2>1, <3>1
  <2>4. QED
    BY <2>2, <2>3
<1>8. CASE Tick \/ UNCHANGED loopVars
  <2>1. Running /\ loop' = loop /\ position' = position
    BY <1>8 DEF Tick, loopVars, Running
  <2>2. QED
    BY <1>2, <2>1
<1>9. QED
  BY <1>4, <1>5, <1>6, <1>7, <1>8 DEF LoopNext

(* A source is exhausted when all of the feed is behind its position. *)
LEMMA LostStep ==
  ASSUME LoopTypeOK, ProgressInv, NothingLost, [LoopNext]_loopVars
  PROVE  NothingLost'
<1> SUFFICES ASSUME loop'.stopped = "source_exhausted", policy.source_factory # "resume",
                    NEW i \in DOMAIN feed
             PROVE  feed[i] \in Settled
  <2>1. policy' = policy /\ feed' = feed
    BY MemoryStep
  <2>2. ASSUME NEW i \in DOMAIN feed, feed[i] \in Settled
        PROVE  feed[i] \in Settled'
    BY <2>1, <2>2, SettledStays DEF Settled, IsOutsideSession
  <2>3. QED
    BY <2>1, <2>2 DEF NothingLost, Settled, IsOutsideSession
<1>1. loop \in Loop /\ feed \in Seq(Event) /\ position \in Nat
  BY FeedAssumption DEF LoopTypeOK
<1>2. CASE Running
  <2>1. position > Len(feed)
    <3>1. CASE Receive
      <4>1. PICK event : SkipDuplicate(event) \/ SkipOutsideSession(event) \/ FailCheck(event)
                           \/ Dispatch(event)
        BY <3>1 DEF Receive
      <4>2. event \in Event
        BY <4>1, YieldsType DEF SkipDuplicate, SkipOutsideSession, FailCheck, Dispatch
      <4>3. CASE SkipDuplicate(event)
        BY <1>2, <4>3 DEF SkipDuplicate, Running
      <4>4. CASE SkipOutsideSession(event)
        BY <1>2, <4>2, <4>4, Stages DEF SkipOutsideSession, Running
      <4>5. CASE FailCheck(event)
        <5>1. PICK l \in {Filtered(event), Ordered(event), Checked(event)} :
                loop' = Stopped(l, "error")
          BY <4>5 DEF FailCheck
        <5>2. l \in Loop
          BY <4>2, Stages
        <5>3. loop'.stopped = "error"
          BY <5>1, <5>2, StoppedType
        <5>4. QED
          BY <5>3
      <4>6. CASE Dispatch(event)
        BY <4>2, <4>6, DispatchResult
      <4>7. QED
        BY <4>1, <4>3, <4>4, <4>5, <4>6
    <3>2. CASE Exhausted
      BY <3>2 DEF Exhausted
    <3>3. CASE GiveUp
      BY <1>1, <3>3, StoppedType DEF GiveUp
    <3>4. CASE Reconnect
      BY <1>1, <1>2, <3>4 DEF Reconnect, Loop, Running
    <3>5. CASE Tick \/ UNCHANGED loopVars
      BY <1>2, <3>5 DEF Tick, loopVars, Running
    <3>6. QED
      BY <3>1, <3>2, <3>3, <3>4, <3>5 DEF LoopNext
  <2>2. i \in 1..(position - 1)
    BY <1>1, <2>1
  <2>3. QED
    BY <1>2, <2>2 DEF ProgressInv
<1>3. CASE ~Running
  <2>1. loop' = loop
    BY <1>3 DEF LoopNext, Receive, SkipDuplicate, SkipOutsideSession, FailCheck, Dispatch, Yields,
                Exhausted, Reconnect, GiveUp, Tick, loopVars
  <2>2. feed[i] \in Event
    BY <1>1
  <2>3. QED
    BY <2>1, <2>2 DEF NothingLost, Settled
<1>4. QED
  BY <1>2, <1>3
-----------------------------------------------------------------------------
(* IInv is inductive. *)
LEMMA Inductive == IInv /\ [LoopNext]_loopVars => IInv'
BY TypeStep, SeenStep, LatestStep, OnceStep, HeartbeatStep, GapStep, ProgressStep, LostStep
   DEF IInv

(* What the loop remembers always explains what it has handled. *)
THEOREM Invariance == LoopSpec => []IInv
<1>1. QED
  BY Initially, Inductive, PTL DEF LoopSpec

(* The loop's memory stays well formed, whatever it is fed. *)
THEOREM LoopTypeCorrect == LoopSpec => []LoopTypeOK
<1>1. IInv => LoopTypeOK
  BY DEF IInv
<1>2. QED
  BY <1>1, Invariance, PTL

(* event_loop.py, _is_duplicate and _validate_ordering: over every disconnect and every
   new source, no event is handled twice, nor one earlier than its symbol's last. *)
THEOREM HandlesOnceInOrder == LoopSpec => []HandledOnceInOrder
<1>1. IInv => HandledOnceInOrder
  BY DEF IInv
<1>2. QED
  BY <1>1, Invariance, PTL

(* _validate_heartbeat: a loop that fails closed handles no two events in a row that
   are further apart than its timeout. *)
THEOREM HandlesWithoutGap == LoopSpec => []HandledWithoutGap
<1>1. IInv => HandledWithoutGap
  BY DEF IInv
<1>2. QED
  BY <1>1, Invariance, PTL

(* run: a run over sources that replay ends as exhausted only when every event of its
   sessions has been handled. *)
THEOREM LosesNothing == LoopSpec => []NothingLost
<1>1. IInv => NothingLost
  BY DEF IInv
<1>2. QED
  BY <1>1, Invariance, PTL
=============================================================================
