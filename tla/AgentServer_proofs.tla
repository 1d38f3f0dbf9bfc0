-------------------------- MODULE AgentServer_proofs --------------------------
(***************************************************************************)
(* Proofs about AgentServer, for any number of workers, orders and crashes:  *)
(* its type invariant, that its fills and decisions tables implement         *)
(* TradeLog, that a pause takes effect, and that cycles keep their distance; *)
(* for one worker, that the two jobs never act on what the other changed and *)
(* that the stop-loss runs in time.                                          *)
(***************************************************************************)
EXTENDS AgentServer, FiniteSetTheorems, TLAPS

-------------------------------------------------------------------------------
(* Type correctness. *)

(* Counting to a bound stays within it. *)
LEMMA CountToType ==
    ASSUME NEW bound \in Nat, NEW n \in 0..bound
    PROVE  CountTo(bound, n) \in 0..bound
BY DEF CountTo

(* While the process is down nothing runs and nothing is queued; what is     *)
(* queued does not run yet.                                                  *)
QueueInv ==
    /\ ~up => \A a \in Actors : pc[a] = "idle"
    /\ \A j \in Jobs : waiting[j] # "no" => pc[j] = "idle"

LEMMA InitType == Init => TypeOK /\ QueueInv
<1> SUFFICES ASSUME Init PROVE TypeOK /\ QueueInv
  OBVIOUS
<1> USE ServerAssumption DEF Init
<1>1. until \in [Jobs -> 0..Cadence] /\ waiting \in [Jobs -> {"no", "due", "behind", "late"}]
  BY DEF Jobs
<1>2. ran \in [Jobs -> 0..JobTime] /\ seen \in [Actors -> 0..MaxOrders]
  OBVIOUS
<1>3. /\ pc \in [Actors -> {"idle", "begun", "looked", "sent", "logged"}]
      /\ own \in [Actors -> SUBSET Orders]
  OBVIOUS
<1>4. /\ sinceDecision \in 0..Cadence /\ sinceCycle \in 0..Cadence
      /\ sinceMonitor \in 0..(2 * JobTime + 3) /\ sincePause \in 0..(JobTime + 1)
      /\ nextOrder \in 1..(MaxOrders + 1) /\ crashes \in 0..MaxCrashes
      /\ pos \in 0..MaxOrders
  OBVIOUS
<1>5. QueueInv
  BY DEF QueueInv, Jobs
<1> QED
  BY <1>1, <1>2, <1>3, <1>4, <1>5 DEF TypeOK

LEMMA CrashType == TypeOK /\ Crash => TypeOK' /\ QueueInv'
<1> SUFFICES ASSUME TypeOK, Crash PROVE TypeOK' /\ QueueInv'
  OBVIOUS
<1>1. seen' \in [Actors -> 0..MaxOrders] /\ crashes' \in 0..MaxCrashes
  BY ServerAssumption DEF TypeOK, Crash
<1>2. /\ waiting' \in [Jobs -> {"no", "due", "behind", "late"}]
      /\ pc' \in [Actors -> {"idle", "begun", "looked", "sent", "logged"}]
      /\ own' \in [Actors -> SUBSET Orders]
      /\ up' \in BOOLEAN
  BY DEF Crash
<1>3. QueueInv'
  BY DEF Crash, QueueInv, Jobs, Actors
<1> QED
  BY <1>1, <1>2, <1>3 DEF TypeOK, Crash, ledger, exchange, clocks

LEMMA BootType == TypeOK /\ QueueInv /\ Boot => TypeOK' /\ QueueInv'
<1> SUFFICES ASSUME TypeOK, QueueInv, Boot PROVE TypeOK' /\ QueueInv'
  OBVIOUS
<1>1. until' \in [Jobs -> 0..Cadence] /\ sinceMonitor' \in 0..(2 * JobTime + 3)
  BY ServerAssumption DEF TypeOK, Boot, FirstRuns, FirstCycleIn
<1> QED
  BY <1>1 DEF TypeOK, QueueInv, Boot, ledger, exchange, Jobs, Actors

LEMMA TickType == TypeOK /\ QueueInv /\ Tick => TypeOK' /\ QueueInv'
<1> SUFFICES ASSUME TypeOK, QueueInv, Tick PROVE TypeOK' /\ QueueInv'
  OBVIOUS
<1> USE ServerAssumption
<1>1. until' \in [Jobs -> 0..Cadence] /\ waiting' \in [Jobs -> {"no", "due", "behind", "late"}]
  BY DEF TypeOK, Tick
<1>2. ran' \in [Jobs -> 0..JobTime]
  <2>1. CASE up
    BY <2>1 DEF TypeOK, Tick, Running
  <2>2. CASE ~up
    <3>1. Running = {}
      BY <2>2 DEF QueueInv, Running, Actors
    <3>2. ran' = [j \in Jobs |-> 0]
      BY <3>1 DEF Tick
    <3> QED
      BY <3>2
  <2> QED
    BY <2>1, <2>2
<1>3. sinceDecision' \in 0..Cadence /\ sinceCycle' \in 0..Cadence
  BY CountToType DEF TypeOK, Tick
<1>4. sinceMonitor' \in 0..(2 * JobTime + 3)
  <2>1. 2 * JobTime + 3 \in Nat
    OBVIOUS
  <2> QED
    BY <2>1, CountToType DEF TypeOK, Tick
<1>5. sincePause' \in 0..(JobTime + 1)
  BY CountToType DEF TypeOK, Tick
<1>6. QueueInv'
  BY DEF QueueInv, TypeOK, Tick, Actors
<1> QED
  BY <1>1, <1>2, <1>3, <1>4, <1>5, <1>6 DEF TypeOK, Tick, ledger, exchange

LEMMA SubmitType ==
    ASSUME TypeOK, QueueInv, NEW j \in Jobs, Submit(j)
    PROVE  TypeOK' /\ QueueInv'
<1>1. until' \in [Jobs -> 0..Cadence]
  BY ServerAssumption DEF TypeOK, Submit, Interval
<1>2. waiting' \in [Jobs -> {"no", "due", "behind", "late"}]
  BY DEF TypeOK, Submit
<1>3. QueueInv'
  BY DEF QueueInv, TypeOK, Submit, Skipped, Running, Actors
<1> QED
  BY <1>1, <1>2, <1>3 DEF TypeOK, Submit, ledger, exchange, clocks

LEMMA StartType ==
    ASSUME TypeOK, QueueInv, NEW j \in Jobs, Start(j)
    PROVE  TypeOK' /\ QueueInv'
<1>1. j \in Actors
  BY DEF Actors
<1>2. ran' \in [Jobs -> 0..JobTime] /\ sinceMonitor' \in 0..(2 * JobTime + 3)
  BY ServerAssumption DEF TypeOK, Start
<1>3. pc' \in [Actors -> {"idle", "begun", "looked", "sent", "logged"}]
  BY DEF TypeOK, Start, Goto
<1>4. waiting' \in [Jobs -> {"no", "due", "behind", "late"}]
  BY DEF TypeOK, Start, QueueAfter
<1>5. QueueInv'
  BY <1>1 DEF QueueInv, TypeOK, Start, QueueAfter, Goto, Taken, Actors
<1> QED
  BY <1>2, <1>3, <1>4, <1>5 DEF TypeOK, Start, ledger, exchange

LEMMA MisfireType ==
    ASSUME TypeOK, QueueInv, NEW j \in Jobs, Misfire(j)
    PROVE  TypeOK' /\ QueueInv'
BY DEF TypeOK, QueueInv, Misfire, ledger, exchange, clocks, Actors

LEMMA GetStateType ==
    ASSUME TypeOK, QueueInv, NEW a \in Actors, GetState(a)
    PROVE  TypeOK' /\ QueueInv'
<1>1. /\ seen' \in [Actors -> 0..MaxOrders]
      /\ pc' \in [Actors -> {"idle", "begun", "looked", "sent", "logged"}]
  BY DEF TypeOK, GetState, Goto
<1>2. QueueInv'
  BY DEF QueueInv, TypeOK, GetState, Goto, scheduler, Actors, Jobs
<1> QED
  BY <1>1, <1>2 DEF TypeOK, GetState, scheduler, ledger, exchange, clocks

(* An order changes the run's own state and whatever it does at the exchange. *)
LEMMA SendType ==
    ASSUME TypeOK, QueueInv, NEW a \in Actors, Send(a),
           pos' \in 0..MaxOrders, resting' \subseteq Orders,
           mover' \in Actors \cup {"exchange"}
    PROVE  TypeOK' /\ QueueInv'
<1>1. nextOrder \in Orders /\ nextOrder' \in 1..(MaxOrders + 1)
  BY ServerAssumption DEF TypeOK, Send, Orders
<1>2. /\ own' \in [Actors -> SUBSET Orders]
      /\ pc' \in [Actors -> {"idle", "begun", "looked", "sent", "logged"}]
  BY <1>1 DEF TypeOK, Send, Goto
<1>3. QueueInv'
  BY DEF QueueInv, TypeOK, Send, Goto, scheduler, Actors, Jobs
<1> QED
  BY <1>1, <1>2, <1>3 DEF TypeOK, Send, scheduler, clocks

LEMMA OrderType == TypeOK /\ QueueInv /\ Order => TypeOK' /\ QueueInv'
<1> SUFFICES ASSUME TypeOK, QueueInv, Order PROVE TypeOK' /\ QueueInv'
  OBVIOUS
<1>1. Send("cycle") /\ "cycle" \in Actors
  BY DEF Order, Actors, Jobs
<1>2. nextOrder \in Orders /\ nextOrder \in 0..MaxOrders
  BY ServerAssumption, <1>1 DEF TypeOK, Send, Orders
<1>3. /\ pos' \in 0..MaxOrders /\ resting' \subseteq Orders
      /\ mover' \in Actors \cup {"exchange"}
  <2>1. CASE Move("cycle", {pos, 0, nextOrder}) /\ UNCHANGED resting
    <3>1. {pos, 0, nextOrder} \subseteq 0..MaxOrders
      BY <1>2, ServerAssumption DEF TypeOK
    <3> QED
      BY <1>1, <2>1, <3>1 DEF TypeOK, Move
  <2>2. CASE resting' = resting \cup {nextOrder} /\ UNCHANGED <<pos, mover>>
    BY <1>2, <2>2 DEF TypeOK
  <2> QED
    BY <2>1, <2>2 DEF Order
<1> QED
  BY <1>1, <1>3, SendType

LEMMA CloseType ==
    ASSUME TypeOK, QueueInv, NEW a \in Actors, Close(a)
    PROVE  TypeOK' /\ QueueInv'
<1>1. /\ pos' \in 0..MaxOrders /\ resting' \subseteq Orders
      /\ mover' \in Actors \cup {"exchange"}
  BY ServerAssumption DEF TypeOK, Close, Move
<1> QED
  BY <1>1, SendType DEF Close

LEMMA LogFillType ==
    ASSUME TypeOK, QueueInv, NEW a \in Actors, LogFill(a)
    PROVE  TypeOK' /\ QueueInv'
<1>1. /\ fills' \subseteq Orders
      /\ pc' \in [Actors -> {"idle", "begun", "looked", "sent", "logged"}]
  BY DEF TypeOK, LogFill, Logged, Goto
<1>2. QueueInv'
  BY DEF QueueInv, TypeOK, LogFill, Goto, scheduler, Actors, Jobs
<1> QED
  BY <1>1, <1>2 DEF TypeOK, LogFill, scheduler, exchange, clocks

LEMMA LogDecisionType ==
    ASSUME TypeOK, QueueInv, NEW a \in Actors, LogDecision(a)
    PROVE  TypeOK' /\ QueueInv'
<1>1. /\ own' \in [Actors -> SUBSET Orders] /\ decided' \subseteq Orders
      /\ pc' \in [Actors -> {"idle", "begun", "looked", "sent", "logged"}]
      /\ seen' \in [Actors -> 0..MaxOrders]
  BY ServerAssumption DEF TypeOK, LogDecision, Goto, End
<1>2. sinceDecision' \in 0..Cadence /\ sinceCycle' \in 0..Cadence
  BY ServerAssumption DEF TypeOK, LogDecision
<1>3. QueueInv'
  BY DEF QueueInv, TypeOK, LogDecision, Goto, End, scheduler, Actors, Jobs
<1> QED
  BY <1>1, <1>2, <1>3 DEF TypeOK, LogDecision, scheduler, exchange

LEMMA MonitorReturnsType ==
    TypeOK /\ QueueInv /\ MonitorReturns => TypeOK' /\ QueueInv'
<1> SUFFICES ASSUME TypeOK, QueueInv, MonitorReturns PROVE TypeOK' /\ QueueInv'
  OBVIOUS
<1>1. pc' \in [Actors -> {"idle", "begun", "looked", "sent", "logged"}]
  BY DEF TypeOK, MonitorReturns, Goto, End
<1>3. seen' \in [Actors -> 0..MaxOrders]
  <2>1. 0 \in 0..MaxOrders
    BY ServerAssumption
  <2> QED
    BY <2>1 DEF TypeOK, MonitorReturns, End
<1>2. QueueInv'
  BY DEF QueueInv, TypeOK, MonitorReturns, Goto, End, scheduler, Actors, Jobs
<1> QED
  BY <1>1, <1>2, <1>3 DEF TypeOK, MonitorReturns, scheduler, ledger, exchange, clocks

LEMMA CloseRaisesType ==
    TypeOK /\ QueueInv /\ CloseRaises => TypeOK' /\ QueueInv'
<1> SUFFICES ASSUME TypeOK, QueueInv, CloseRaises PROVE TypeOK' /\ QueueInv'
  OBVIOUS
<1>1. /\ pc' \in [Actors -> {"idle", "begun", "looked", "sent", "logged"}]
      /\ own' \in [Actors -> SUBSET Orders]
  BY DEF TypeOK, CloseRaises, Goto
<1>2. QueueInv'
  BY DEF QueueInv, TypeOK, CloseRaises, Goto, scheduler, Actors, Jobs
<1> QED
  BY <1>1, <1>2 DEF TypeOK, CloseRaises, scheduler, exchange, clocks

LEMMA RaiseType ==
    ASSUME TypeOK, QueueInv, NEW a \in Actors, Raise(a)
    PROVE  TypeOK' /\ QueueInv'
<1>1. /\ pc' \in [Actors -> {"idle", "begun", "looked", "sent", "logged"}]
      /\ seen' \in [Actors -> 0..MaxOrders]
      /\ own' \in [Actors -> SUBSET Orders]
  BY ServerAssumption DEF TypeOK, Raise, Goto, End
<1>2. QueueInv'
  BY DEF QueueInv, TypeOK, Raise, Goto, End, scheduler, Actors, Jobs
<1> QED
  BY <1>1, <1>2 DEF TypeOK, Raise, scheduler, exchange, clocks

LEMMA OutsideType ==
    /\ TypeOK /\ QueueInv
    /\ CancelAll \/ SetPaused \/ \E o \in Orders : RestingFills(o)
    => TypeOK' /\ QueueInv'
<1> SUFFICES ASSUME TypeOK, QueueInv,
                    CancelAll \/ SetPaused \/ \E o \in Orders : RestingFills(o)
             PROVE  TypeOK' /\ QueueInv'
  OBVIOUS
<1>1. CASE CancelAll
  BY <1>1 DEF TypeOK, QueueInv, CancelAll, scheduler, ledger, clocks
<1>2. CASE SetPaused
  <2>1. paused' \in BOOLEAN /\ sincePause' \in 0..(JobTime + 1)
    BY <1>2, ServerAssumption DEF TypeOK, SetPaused
  <2> QED
    BY <1>2, <2>1 DEF TypeOK, QueueInv, SetPaused, scheduler, ledger, exchange
<1>3. ASSUME NEW o \in Orders, RestingFills(o) PROVE TypeOK' /\ QueueInv'
  <2>1. /\ pos' \in 0..MaxOrders /\ resting' \subseteq Orders
        /\ mover' \in Actors \cup {"exchange"}
    BY <1>3, ServerAssumption DEF TypeOK, RestingFills, Move, Orders
  <2> QED
    BY <1>3, <2>1 DEF TypeOK, QueueInv, RestingFills, scheduler, ledger, clocks
<1> QED
  BY <1>1, <1>2, <1>3

LEMMA TypeStep == TypeOK /\ QueueInv /\ [Next]_vars => TypeOK' /\ QueueInv'
<1> SUFFICES ASSUME TypeOK, QueueInv, [Next]_vars PROVE TypeOK' /\ QueueInv'
  OBVIOUS
<1>1. CASE UNCHANGED vars
  BY <1>1 DEF TypeOK, QueueInv, vars, scheduler, ledger, exchange, clocks
<1>2. CASE Crash \/ Boot \/ Tick
  BY <1>2, CrashType, BootType, TickType
<1>3. CASE \E j \in Jobs : Submit(j) \/ Start(j) \/ Misfire(j)
  BY <1>3, SubmitType, StartType, MisfireType
<1>4. CASE \E a \in Actors : Run(a)
  BY <1>4, GetStateType, CloseType, LogFillType, LogDecisionType, RaiseType DEF Run
<1>5. CASE Order \/ CancelAll \/ MonitorReturns \/ CloseRaises
  BY <1>5, OrderType, OutsideType, MonitorReturnsType, CloseRaisesType
<1>6. CASE SetPaused \/ \E o \in Orders : RestingFills(o)
  BY <1>6, OutsideType
<1> QED
  BY <1>1, <1>2, <1>3, <1>4, <1>5, <1>6 DEF Next

(* The types of the server's state are kept, restarts and crashes included:   *)
(* in particular the first cycle after a restart is never due in the past,    *)
(* nor later than a cadence.                                                  *)
THEOREM TypeCorrect == Spec => []TypeOK
<1>1. TypeOK /\ QueueInv /\ [Next]_vars => (TypeOK /\ QueueInv)'
  BY TypeStep
<1>2. Init => TypeOK /\ QueueInv
  BY InitType
<1> QED
  BY <1>1, <1>2, PTL DEF Spec

-------------------------------------------------------------------------------
(* The tables implement TradeLog. *)

(* What the runs owe the tables: the orders a run holds are its own, have been *)
(* sent, are in no decision, and have their fill row but for the one whose    *)
(* answer the run waits for; a run that has not looked yet holds none, nor    *)
(* does the monitor between two closes.                                       *)
LedgerInv ==
    /\ \A a \in Actors : own[a] \subseteq 1..(nextOrder - 1)
    /\ \A a, b \in Actors : a # b => own[a] \cap own[b] = {}
    /\ \A a \in Actors : own[a] \cap decided = {}
    /\ fills \subseteq 1..(nextOrder - 1) /\ decided \subseteq fills
    /\ \A a \in Actors : pc[a] # "sent" => own[a] \subseteq fills
    /\ \A a \in Actors : pc[a] = "sent" => \E o \in own[a] : own[a] \ fills = {o}
    /\ \A a \in Actors : pc[a] \in {"idle", "begun"} => own[a] = {}
    /\ \A a \in Actors : pc[a] = "logged" => own[a] # {}
    /\ pc["monitor"] = "looked" => own["monitor"] = {}

Inv == TypeOK /\ QueueInv /\ LedgerInv

(* The status of one order, for the states in which no order is in two runs.  *)
LEMMA StatusOf ==
    ASSUME Inv, NEW o \in Orders
    PROVE  /\ StatusBar[o] = "none" <=> o >= nextOrder
           /\ \A a \in Actors : o \in own[a] =>
                  StatusBar[o] = IF o \in fills THEN "recorded" ELSE "sent"
<1>1. /\ nextOrder \in Nat /\ o \in Nat
      /\ \A a \in Actors : own[a] \subseteq 1..(nextOrder - 1)
      /\ \A a \in Actors : own[a] \cap decided = {}
      /\ fills \subseteq 1..(nextOrder - 1) /\ decided \subseteq fills
  BY ServerAssumption DEF Inv, TypeOK, LedgerInv, Orders
<1>2. StatusBar[o] = IF o \in decided THEN "decided"
                     ELSE IF o \in fills THEN IF o \in Held THEN "recorded" ELSE "orphaned"
                     ELSE IF o \in Held THEN "sent"
                     ELSE IF o < nextOrder THEN "lost" ELSE "none"
  BY DEF StatusBar
<1>3. o \in Held <=> \E a \in Actors : o \in own[a]
  BY DEF Held
<1>4. o >= nextOrder => o \notin fills /\ o \notin decided /\ o \notin Held
  BY <1>1, <1>3
<1>5. StatusBar[o] = "none" <=> o >= nextOrder
  BY <1>1, <1>2, <1>4
<1>6. ASSUME NEW a \in Actors, o \in own[a]
      PROVE  StatusBar[o] = IF o \in fills THEN "recorded" ELSE "sent"
  BY <1>1, <1>2, <1>3, <1>6
<1> QED
  BY <1>5, <1>6

LEMMA InitLedger == Init => LedgerInv /\ Log!Init
<1> SUFFICES ASSUME Init PROVE LedgerInv /\ Log!Init
  OBVIOUS
<1>1. LedgerInv
  BY DEF Init, LedgerInv, Actors, Jobs
<1>2. Held = {}
  BY DEF Init, Held
<1>3. StatusBar = [o \in Orders |-> "none"]
  BY <1>2, ServerAssumption DEF Init, StatusBar, Orders
<1> QED
  BY <1>1, <1>3 DEF Init, Log!Init

(* A step that leaves the tables alone and moves no run in or out of the wait *)
(* for an answer.                                                             *)
LEMMA QuietStep ==
    ASSUME Inv, UNCHANGED ledger,
           \A a \in Actors : pc'[a] = "sent" <=> pc[a] = "sent",
           \A a \in Actors : pc'[a] = "logged" => pc[a] = "logged",
           \A a \in Actors : pc'[a] \in {"idle", "begun"} => own[a] = {},
           pc'["monitor"] = "looked" => own["monitor"] = {}
    PROVE  LedgerInv' /\ UNCHANGED <<StatusBar, own>>
<1>1. LedgerInv'
  BY DEF Inv, LedgerInv, ledger
<1>2. UNCHANGED <<StatusBar, own>>
  BY DEF StatusBar, Held, ledger
<1> QED
  BY <1>1, <1>2

LEMMA SendStep ==
    ASSUME Inv, NEW a \in Actors, Send(a)
    PROVE  LedgerInv' /\ Log!Send(a, nextOrder)
<1>1. /\ nextOrder \in Orders /\ nextOrder \in Nat
      /\ own \in [Actors -> SUBSET Orders] /\ pc[a] = "looked"
      /\ pc \in [Actors -> {"idle", "begun", "looked", "sent", "logged"}]
      /\ own[a] \subseteq fills
      /\ \A b \in Actors : own[b] \subseteq 1..(nextOrder - 1)
      /\ fills \subseteq 1..(nextOrder - 1) /\ decided \subseteq fills
  BY ServerAssumption DEF Inv, TypeOK, LedgerInv, Send, Orders
<1>2. /\ own' = [own EXCEPT ![a] = own[a] \cup {nextOrder}]
      /\ pc' = [pc EXCEPT ![a] = "sent"]
      /\ nextOrder' = nextOrder + 1 /\ fills' = fills /\ decided' = decided
  BY DEF Send, Goto
<1>3. nextOrder \notin fills /\ nextOrder \notin decided
      /\ \A b \in Actors : nextOrder \notin own[b]
  BY <1>1
<1>4. LedgerInv'
  <2>1. \A b \in Actors : own'[b] \subseteq 1..(nextOrder' - 1)
    <3>1. 1..(nextOrder - 1) \subseteq 1..(nextOrder' - 1) /\ nextOrder \in 1..(nextOrder' - 1)
      BY <1>1, <1>2 DEF Orders
    <3>2. \A b \in Actors : own'[b] \subseteq own[b] \cup {nextOrder}
      BY <1>1, <1>2
    <3> QED
      BY <1>1, <3>1, <3>2
  <2>2. /\ \A b, c \in Actors : b # c => own'[b] \cap own'[c] = {}
        /\ \A b \in Actors : own'[b] \cap decided' = {}
    BY <1>1, <1>2, <1>3 DEF Inv, LedgerInv
  <2>3. fills' \subseteq 1..(nextOrder' - 1) /\ decided' \subseteq fills'
    BY <1>1, <1>2
  <2>4. own'[a] \ fills' = {nextOrder} /\ nextOrder \in own'[a]
    BY <1>1, <1>2, <1>3
  <2>5. \A b \in Actors : b # a => own'[b] = own[b] /\ pc'[b] = pc[b]
    BY <1>1, <1>2
  <2> QED
    BY <1>1, <1>2, <2>1, <2>2, <2>3, <2>4, <2>5 DEF Inv, LedgerInv
<1>5. Log!InFlight(a) = {}
  <2>1. \A o \in own[a] : StatusBar[o] = "recorded"
    BY <1>1, StatusOf
  <2> QED
    BY <2>1 DEF Log!InFlight
<1>6. StatusBar[nextOrder] = "none"
  BY <1>1, StatusOf
<1>7. StatusBar' = [StatusBar EXCEPT ![nextOrder] = "sent"]
  <2>1. Held' = Held \cup {nextOrder}
    BY <1>1, <1>2 DEF Held
  <2>2. ASSUME NEW o \in Orders
        PROVE  StatusBar'[o] = IF o = nextOrder THEN "sent" ELSE StatusBar[o]
    BY <1>1, <1>2, <1>3, <2>1, <2>2 DEF StatusBar, Orders
  <2> QED
    BY <2>2 DEF StatusBar
<1> QED
  BY <1>2, <1>4, <1>5, <1>6, <1>7 DEF Log!Send

LEMMA LogFillStep ==
    ASSUME Inv, NEW a \in Actors, LogFill(a)
    PROVE  LedgerInv' /\ \E o \in Orders : Log!Record(a, o)
<1>1. PICK o \in own[a] : own[a] \ fills = {o}
  BY DEF Inv, LedgerInv, LogFill
<1>2. /\ o \in Orders /\ own \in [Actors -> SUBSET Orders]
      /\ pc \in [Actors -> {"idle", "begun", "looked", "sent", "logged"}]
      /\ own[a] \subseteq 1..(nextOrder - 1)
      /\ own[a] \cap decided = {}
      /\ pc[a] = "sent"
  BY DEF Inv, TypeOK, LedgerInv, LogFill
<1>3. /\ fills' = fills \cup {o} /\ decided' = decided /\ own' = own
      /\ nextOrder' = nextOrder
      /\ pc' = [pc EXCEPT ![a] = IF a = "cycle" THEN "looked" ELSE "logged"]
  BY <1>1 DEF LogFill, Logged, Goto
<1>4. \A b \in Actors : b # a => o \notin own[b]
  BY <1>1 DEF Inv, LedgerInv
<1>5. LedgerInv'
  <2>1. own'[a] \subseteq fills' /\ fills' \subseteq 1..(nextOrder - 1)
    BY <1>1, <1>2, <1>3 DEF Inv, LedgerInv
  <2>2. \A b \in Actors : b # a => pc'[b] = pc[b] /\ own'[b] \ fills' = own[b] \ fills
    BY <1>2, <1>3, <1>4
  <2>3. pc'[a] \in {"looked", "logged"} /\ (a = "monitor" => pc'[a] = "logged")
    BY <1>2, <1>3
  <2>4. own'[a] # {}
    BY <1>1, <1>3
  <2>5. "monitor" \in Actors
    BY DEF Actors, Jobs
  <2> QED
    BY <1>3, <2>1, <2>2, <2>3, <2>4, <2>5 DEF Inv, LedgerInv
<1>6. o \in Log!InFlight(a)
  BY <1>1, <1>2, StatusOf DEF Log!InFlight
<1>7. StatusBar' = [StatusBar EXCEPT ![o] = "recorded"]
  <2>1. Held' = Held /\ o \in Held
    BY <1>1, <1>3 DEF Held
  <2>2. ASSUME NEW q \in Orders
        PROVE  StatusBar'[q] = IF q = o THEN "recorded" ELSE StatusBar[q]
    BY <1>1, <1>2, <1>3, <2>1 DEF StatusBar
  <2> QED
    BY <2>2 DEF StatusBar
<1> QED
  BY <1>2, <1>3, <1>5, <1>6, <1>7 DEF Log!Record

LEMMA LogDecisionStep ==
    ASSUME Inv, NEW a \in Actors, LogDecision(a)
    PROVE  LedgerInv' /\ (Log!Decide(a) \/ UNCHANGED <<StatusBar, own>>)
<1>1. /\ own \in [Actors -> SUBSET Orders]
      /\ pc \in [Actors -> {"idle", "begun", "looked", "sent", "logged"}]
      /\ pc[a] \in {"looked", "logged"} /\ own[a] \subseteq fills
  BY DEF Inv, TypeOK, LedgerInv, LogDecision
<1>2. /\ own' = [own EXCEPT ![a] = {}] /\ decided' = decided \cup own[a]
      /\ fills' = fills /\ nextOrder' = nextOrder
      /\ pc' = [pc EXCEPT ![a] = IF a = "monitor" THEN "looked" ELSE "idle"]
  BY DEF LogDecision, Goto, End
<1>3. LedgerInv'
  <2>1. own'[a] = {} /\ pc'[a] \in {"looked", "idle"}
    BY <1>1, <1>2
  <2>2. \A b \in Actors : b # a => own'[b] = own[b] /\ pc'[b] = pc[b]
    BY <1>1, <1>2
  <2>3. \A b \in Actors : b # a => own[b] \cap decided' = {}
    BY <1>2 DEF Inv, LedgerInv
  <2>4. decided' \subseteq fills'
    BY <1>1, <1>2 DEF Inv, LedgerInv
  <2>5. "monitor" \in Actors
    BY DEF Actors, Jobs
  <2> QED
    BY <1>2, <2>1, <2>2, <2>3, <2>4, <2>5 DEF Inv, LedgerInv
<1>4. StatusBar' = [o \in Orders |-> IF o \in own[a] THEN "decided" ELSE StatusBar[o]]
  <2>1. Held' = Held \ own[a]
    BY <1>1, <1>2 DEF Held, Inv, LedgerInv
  <2>2. ASSUME NEW o \in Orders
        PROVE  StatusBar'[o] = IF o \in own[a] THEN "decided" ELSE StatusBar[o]
    BY <1>1, <1>2, <2>1 DEF StatusBar
  <2> QED
    BY <2>2 DEF StatusBar
<1>5. CASE own[a] = {}
  <2>1. own' = own
    BY <1>1, <1>2, <1>5
  <2>2. StatusBar' = StatusBar
    BY <1>4, <1>5 DEF StatusBar
  <2> QED
    BY <1>3, <2>1, <2>2
<1>6. CASE own[a] # {}
  <2>1. Log!InFlight(a) = {}
    <3>1. \A o \in own[a] : StatusBar[o] = "recorded"
      BY <1>1, StatusOf
    <3> QED
      BY <3>1 DEF Log!InFlight
  <2> QED
    BY <1>2, <1>3, <1>4, <1>6, <2>1 DEF Log!Decide
<1> QED
  BY <1>5, <1>6

(* The runs of some actors are over and their orders held by nobody.          *)
LEMMA LoseStep ==
    ASSUME Inv, NEW dead \in SUBSET Actors,
           own' = [a \in Actors |-> IF a \in dead THEN {} ELSE own[a]],
           \A a \in Actors \ dead : pc'[a] = pc[a],
           \A a \in dead : pc'[a] \in {"idle", "looked"},
           UNCHANGED <<fills, decided, nextOrder>>
    PROVE  LedgerInv' /\ Log!Lose(dead)
<1>1. LedgerInv'
  <2>1. \A a \in dead : own'[a] = {} /\ pc'[a] \in {"idle", "looked"}
    OBVIOUS
  <2>2. \A a \in Actors \ dead : own'[a] = own[a] /\ pc'[a] = pc[a]
    OBVIOUS
  <2>3. \A a \in Actors : own'[a] \subseteq own[a]
    BY <2>1, <2>2
  <2>4. "monitor" \in Actors
    BY DEF Actors, Jobs
  <2>5. /\ \A a \in Actors : own'[a] \subseteq 1..(nextOrder' - 1)
        /\ \A a, b \in Actors : a # b => own'[a] \cap own'[b] = {}
        /\ \A a \in Actors : own'[a] \cap decided' = {}
        /\ fills' \subseteq 1..(nextOrder' - 1) /\ decided' \subseteq fills'
    BY <2>3 DEF Inv, LedgerInv
  <2>6. ASSUME NEW a \in Actors
        PROVE  /\ pc'[a] # "sent" => own'[a] \subseteq fills'
               /\ pc'[a] = "sent" => \E o \in own'[a] : own'[a] \ fills' = {o}
               /\ pc'[a] \in {"idle", "begun"} => own'[a] = {}
               /\ pc'[a] = "logged" => own'[a] # {}
    <3>1. CASE a \in dead
      BY <2>1, <3>1
    <3>2. CASE a \notin dead
      <4>1. own'[a] = own[a] /\ pc'[a] = pc[a] /\ fills' = fills
        BY <2>2, <3>2
      <4> QED
        BY <4>1 DEF Inv, LedgerInv
    <3> QED
      BY <3>1, <3>2
  <2>7. pc'["monitor"] = "looked" => own'["monitor"] = {}
    BY <2>1, <2>2, <2>4 DEF Inv, LedgerInv
  <2> QED
    BY <2>5, <2>6, <2>7 DEF LedgerInv
<1> DEFINE Gone == UNION {own[a] : a \in dead}
<1>2. \A o \in Orders : o \in Gone <=> \E a \in dead : o \in own[a]
  OBVIOUS
<1>3. Held' = Held \ Gone
  BY <1>2 DEF Held, Inv, LedgerInv
<1>4. ASSUME NEW o \in Orders
      PROVE  StatusBar'[o] = IF o \notin Gone THEN StatusBar[o]
                             ELSE IF StatusBar[o] = "sent" THEN "lost" ELSE "orphaned"
  <2>1. CASE o \notin Gone
    BY <1>3, <2>1 DEF StatusBar
  <2>2. CASE o \in Gone
    <3>1. PICK a \in dead : o \in own[a]
      BY <2>2
    <3>2. o \notin Held' /\ o \notin decided /\ o < nextOrder
      BY <1>3, <2>2, <3>1, ServerAssumption DEF Inv, LedgerInv, TypeOK
    <3>3. StatusBar[o] = IF o \in fills THEN "recorded" ELSE "sent"
      BY <3>1, StatusOf
    <3>4. StatusBar'[o] = IF o \in fills THEN "orphaned" ELSE "lost"
      BY <3>2 DEF StatusBar
    <3> QED
      BY <2>2, <3>3, <3>4
  <2> QED
    BY <2>1, <2>2
<1>5. StatusBar' = [o \in Orders |->
                      IF o \notin Gone THEN StatusBar[o]
                      ELSE IF StatusBar[o] = "sent" THEN "lost" ELSE "orphaned"]
  BY <1>4 DEF StatusBar
<1> QED
  BY <1>1, <1>5 DEF Log!Lose

LEMMA LedgerStep ==
    ASSUME Inv, [Next]_vars
    PROVE  LedgerInv' /\ [Log!Next]_<<StatusBar, own>>
<1>0. /\ pc \in [Actors -> {"idle", "begun", "looked", "sent", "logged"}]
      /\ own \in [Actors -> SUBSET Orders]
      /\ \A a \in Actors : pc[a] \in {"idle", "begun"} => own[a] = {}
      /\ pc["monitor"] = "looked" => own["monitor"] = {}
      /\ Jobs \subseteq Actors /\ "monitor" \in Actors /\ "cycle" \in Actors
  BY DEF Inv, TypeOK, LedgerInv, Actors, Jobs
<1>1. CASE UNCHANGED <<ledger, pc>>
  BY <1>0, <1>1, QuietStep DEF ledger
<1>2. CASE Crash
  <2>1. LedgerInv' /\ Log!Lose(Actors)
    BY <1>2, LoseStep DEF Crash
  <2> QED
    BY <2>1 DEF Log!Next
<1>3. ASSUME NEW j \in Jobs, Start(j)
      PROVE  LedgerInv' /\ [Log!Next]_<<StatusBar, own>>
  <2>1. pc[j] = "idle"
    BY <1>3 DEF Inv, QueueInv, Start, Taken
  <2> QED
    BY <1>0, <1>3, <2>1, QuietStep DEF Start, Goto, ledger
<1>4. ASSUME NEW a \in Actors, GetState(a)
      PROVE  LedgerInv' /\ [Log!Next]_<<StatusBar, own>>
  BY <1>0, <1>4, QuietStep DEF GetState, Goto, ledger
<1>5. ASSUME NEW a \in Actors, Send(a)
      PROVE  LedgerInv' /\ [Log!Next]_<<StatusBar, own>>
  <2>1. nextOrder \in Orders
    BY <1>5, ServerAssumption DEF Inv, TypeOK, Send, Orders
  <2> QED
    BY <1>5, <2>1, SendStep DEF Log!Next
<1>6. ASSUME NEW a \in Actors, LogFill(a)
      PROVE  LedgerInv' /\ [Log!Next]_<<StatusBar, own>>
  BY <1>6, LogFillStep DEF Log!Next
<1>7. ASSUME NEW a \in Actors, LogDecision(a)
      PROVE  LedgerInv' /\ [Log!Next]_<<StatusBar, own>>
  BY <1>7, LogDecisionStep DEF Log!Next
<1>8. ASSUME NEW a \in Actors, Raise(a)
      PROVE  LedgerInv' /\ [Log!Next]_<<StatusBar, own>>
  <2>1. LedgerInv' /\ Log!Lose({a})
    BY <1>0, <1>8, LoseStep DEF Raise, Goto, End
  <2> QED
    BY <2>1 DEF Log!Next
<1>9. CASE CloseRaises
  <2>1. LedgerInv' /\ Log!Lose({"monitor"})
    BY <1>0, <1>9, LoseStep DEF CloseRaises, Goto
  <2> QED
    BY <1>0, <2>1 DEF Log!Next
<1>10. CASE MonitorReturns
  BY <1>0, <1>10, QuietStep DEF MonitorReturns, Goto, End, ledger
<1>11. CASE Boot \/ Tick \/ CancelAll \/ SetPaused
            \/ (\E o \in Orders : RestingFills(o))
            \/ (\E j \in Jobs : Submit(j) \/ Misfire(j))
            \/ UNCHANGED vars
  BY <1>1, <1>11 DEF Boot, Tick, CancelAll, SetPaused, RestingFills, Submit, Misfire, vars
<1>12. Next \/ UNCHANGED vars
  OBVIOUS
<1>13. CASE \E a \in Actors : Run(a)
  BY <1>13, <1>4, <1>5, <1>6, <1>7, <1>8 DEF Run, Close
<1>14. CASE Order
  BY <1>0, <1>14, <1>5 DEF Order
<1> QED
  BY <1>2, <1>3, <1>9, <1>10, <1>11, <1>12, <1>13, <1>14 DEF Next

(* The bookkeeping holds with any number of workers, orders and crashes.      *)
THEOREM LedgerCorrect == Spec => []Inv
<1>1. Init => Inv
  BY InitType, InitLedger DEF Inv
<1>2. Inv /\ [Next]_vars => Inv'
  BY TypeStep, LedgerStep DEF Inv
<1> QED
  BY <1>1, <1>2, PTL DEF Spec

(* The fills and decisions tables implement TradeLog, whichever way the cycle, *)
(* the monitor and manual closes interleave, raise, or die with the process:   *)
(* an order is recorded and decided at most once, no decision covers an order  *)
(* without a fill row, and only the death of a run loses a row.                *)
THEOREM ImplementsTradeLog == Spec => LogSpec
<1>1. Init => Log!Init
  BY InitLedger
<1>2. Inv /\ [Next]_vars => [Log!Next]_<<StatusBar, own>>
  BY LedgerStep
<1> QED
  BY <1>1, <1>2, LedgerCorrect, PTL DEF Spec, LogSpec, Log!Spec

-------------------------------------------------------------------------------
(* One worker keeps a job's snapshot its own. *)

(* No two jobs run at the same time. *)
Alone == \A j, k \in Jobs : pc[j] # "idle" /\ pc[k] # "idle" => j = k

HeldInv == Alone /\ SnapshotHeldAlone

(* A worker out of one is free only if nothing runs. *)
LEMMA OneWorker ==
    ASSUME Workers = 1, WorkerFree
    PROVE  \A j \in Jobs : pc[j] = "idle"
<1>1. IsFiniteSet({"cycle", "monitor"})
  <2>1. IsFiniteSet({"cycle"})
    BY FS_Singleton
  <2>2. {"cycle", "monitor"} = {"cycle"} \cup {"monitor"}
    OBVIOUS
  <2> QED
    BY <2>1, <2>2, FS_AddElement
<1>2. IsFiniteSet(Running)
  BY <1>1, FS_Subset DEF Running, Jobs
<1>3. Cardinality(Running) = 0
  BY <1>2, FS_CardinalityType DEF WorkerFree
<1>4. Running = {}
  BY <1>2, <1>3, FS_EmptySet
<1> QED
  BY <1>4 DEF Running

(* A run that goes on, or ends, without anybody moving the position.          *)
LEMMA StillHeld ==
    ASSUME TypeOK, HeldInv, UNCHANGED <<pos, mover>>,
           \A j \in Jobs : pc'[j] # "idle" => pc[j] # "idle",
           \A j \in Jobs : pc'[j] \notin {"idle", "begun"} =>
               \/ pc[j] \notin {"idle", "begun"} /\ seen'[j] = seen[j]
               \/ seen'[j] = pos
    PROVE  HeldInv'
BY DEF HeldInv, Alone, SnapshotHeldAlone

(* Whoever moves the position is not a job that does not run.                 *)
LEMMA MovedHeld ==
    ASSUME TypeOK, HeldInv, NEW a \in Actors \cup {"exchange"}, NEW P, Move(a, P),
           a \in Jobs => pc[a] # "idle",
           \A j \in Jobs : pc'[j] = pc[j] \/ (j = a /\ pc[j] = "looked" /\ pc'[j] = "sent"),
           UNCHANGED seen
    PROVE  HeldInv'
<1>1. Alone'
  BY DEF HeldInv, Alone
<1>2. ASSUME NEW j \in Jobs, pc'[j] \notin {"idle", "begun"}, pos' # seen'[j]
      PROVE  mover' \notin Jobs \ {j}
  <2>1. pc[j] \notin {"idle", "begun"}
    BY <1>2
  <2>2. CASE pos' = pos
    BY <1>2, <2>1, <2>2 DEF HeldInv, SnapshotHeldAlone, Move
  <2>3. CASE pos' # pos
    BY <2>1, <2>3 DEF HeldInv, Alone, Move
  <2> QED
    BY <2>2, <2>3
<1> QED
  BY <1>1, <1>2 DEF HeldInv, SnapshotHeldAlone

LEMMA SendHeld ==
    ASSUME TypeOK, HeldInv, NEW a \in Actors, NEW P, Send(a), Move(a, P)
    PROVE  HeldInv'
<1>1. pc \in [Actors -> {"idle", "begun", "looked", "sent", "logged"}]
      /\ \A j \in Jobs : j \in Actors
  BY DEF TypeOK, Actors
<1>2. pc[a] = "looked" /\ pc' = [pc EXCEPT ![a] = "sent"]
  BY DEF Send, Goto
<1>3. \A j \in Jobs : pc'[j] = pc[j] \/ (j = a /\ pc[j] = "looked" /\ pc'[j] = "sent")
  BY <1>1, <1>2
<1> QED
  BY <1>2, <1>3, MovedHeld DEF Send

LEMMA HeldStep ==
    ASSUME Workers = 1, TypeOK, HeldInv, [Next]_vars
    PROVE  HeldInv'
<1>0. /\ pc \in [Actors -> {"idle", "begun", "looked", "sent", "logged"}]
      /\ seen \in [Actors -> 0..MaxOrders]
      /\ \A j \in Jobs : j \in Actors
      /\ "monitor" \in Actors /\ "cycle" \in Actors
  BY DEF TypeOK, Actors, Jobs
<1>1. CASE UNCHANGED <<pc, seen, pos, mover>>
  BY <1>1, StillHeld
<1>2. CASE Crash
  BY <1>0, <1>2, StillHeld DEF Crash, exchange
<1>3. ASSUME NEW j \in Jobs, Start(j) PROVE HeldInv'
  <2>1. \A k \in Jobs : pc[k] = "idle"
    BY <1>3, OneWorker DEF Start, Taken
  <2>2. \A k \in Jobs : pc'[k] # "idle" => k = j /\ pc'[k] = "begun"
    BY <1>0, <1>3, <2>1 DEF Start, Goto
  <2> QED
    BY <2>2 DEF HeldInv, Alone, SnapshotHeldAlone
<1>4. ASSUME NEW a \in Actors, GetState(a) PROVE HeldInv'
  <2>1. /\ \A j \in Jobs : pc'[j] # "idle" => pc[j] # "idle"
        /\ \A j \in Jobs : pc'[j] \notin {"idle", "begun"} =>
               \/ pc[j] \notin {"idle", "begun"} /\ seen'[j] = seen[j]
               \/ seen'[j] = pos
    BY <1>0, <1>4 DEF GetState, Goto, Jobs
  <2> QED
    BY <1>4, <2>1, StillHeld DEF GetState, exchange
<1>5. CASE Order
  <2>1. Send("cycle")
    BY <1>5 DEF Order
  <2>2. CASE Move("cycle", {pos, 0, nextOrder})
    BY <1>0, <2>1, <2>2, SendHeld
  <2>3. CASE UNCHANGED <<pos, mover>>
    <3>1. Move("cycle", {pos})
      BY <2>3 DEF Move
    <3> QED
      BY <1>0, <2>1, <3>1, SendHeld
  <2> QED
    BY <1>5, <2>2, <2>3 DEF Order
<1>6. ASSUME NEW a \in Actors, Close(a) PROVE HeldInv'
  BY <1>6, SendHeld DEF Close
<1>7. ASSUME NEW a \in Actors, LogFill(a) PROVE HeldInv'
  <2>1. \A j \in Jobs : pc'[j] = pc[j] \/ pc[j] = "sent"
    BY <1>0, <1>7 DEF LogFill, Goto
  <2> QED
    BY <1>7, <2>1, StillHeld DEF LogFill, exchange
<1>8. ASSUME NEW a \in Actors, LogDecision(a) PROVE HeldInv'
  <2>1. CASE a = "monitor"
    <3>1. \A j \in Jobs : pc'[j] = pc[j] \/ pc[j] = "logged"
      BY <1>0, <1>8, <2>1 DEF LogDecision, Goto
    <3> QED
      BY <1>8, <2>1, <3>1, StillHeld DEF LogDecision, exchange
  <2>2. CASE a # "monitor"
    <3>1. \A j \in Jobs : pc'[j] = "idle" \/ (pc'[j] = pc[j] /\ seen'[j] = seen[j])
      BY <1>0, <1>8, <2>2 DEF LogDecision, Goto, End
    <3> QED
      BY <1>8, <3>1, StillHeld DEF LogDecision, exchange
  <2> QED
    BY <2>1, <2>2
<1>9. ASSUME NEW a \in Actors, Raise(a) PROVE HeldInv'
  <2>1. \A j \in Jobs : pc'[j] = "idle" \/ (pc'[j] = pc[j] /\ seen'[j] = seen[j])
    BY <1>0, <1>9 DEF Raise, Goto, End
  <2> QED
    BY <1>9, <2>1, StillHeld DEF Raise, exchange
<1>10. CASE MonitorReturns
  <2>1. \A j \in Jobs : pc'[j] = "idle" \/ (pc'[j] = pc[j] /\ seen'[j] = seen[j])
    BY <1>0, <1>10 DEF MonitorReturns, Goto, End
  <2> QED
    BY <1>10, <2>1, StillHeld DEF MonitorReturns, exchange
<1>11. CASE CloseRaises
  <2>1. \A j \in Jobs : pc'[j] = pc[j] \/ pc[j] = "sent"
    BY <1>0, <1>11 DEF CloseRaises, Goto
  <2> QED
    BY <1>11, <2>1, StillHeld DEF CloseRaises, exchange
<1>12. ASSUME NEW o \in Orders, RestingFills(o) PROVE HeldInv'
  <2>1. Move("exchange", {pos, 0, o}) /\ UNCHANGED <<pc, seen>>
    BY <1>12 DEF RestingFills
  <2>2. "exchange" \notin Jobs /\ "exchange" \in Actors \cup {"exchange"}
    BY DEF Jobs
  <2>3. \A j \in Jobs : pc'[j] = pc[j]
    BY <2>1
  <2> QED
    BY <2>1, <2>2, <2>3, MovedHeld
<1>13. CASE Boot \/ Tick \/ CancelAll \/ SetPaused
            \/ (\E j \in Jobs : Submit(j) \/ Misfire(j))
            \/ UNCHANGED vars
  BY <1>1, <1>13 DEF Boot, Tick, CancelAll, SetPaused, Submit, Misfire, vars, exchange
<1>14. Next \/ UNCHANGED vars
  OBVIOUS
<1> QED
  BY <1>2, <1>3, <1>4, <1>5, <1>6, <1>7, <1>8, <1>9, <1>10, <1>11, <1>12, <1>13, <1>14
     DEF Next, Run

(* With the one worker server.py gives the scheduler, whatever the number of   *)
(* orders, the length of the runs and the crashes: between its get_state and   *)
(* its end a job sees the position move by itself, by manual closes and by     *)
(* resting orders only.                                                        *)
THEOREM SnapshotHeld == Workers = 1 /\ Spec => []SnapshotHeldAlone
<1> SUFFICES ASSUME Workers = 1 PROVE Spec => []SnapshotHeldAlone
  OBVIOUS
<1>1. Init => HeldInv
  BY DEF Init, HeldInv, Alone, SnapshotHeldAlone, Actors
<1>2. TypeOK /\ HeldInv /\ [Next]_vars => HeldInv'
  BY HeldStep
<1>3. HeldInv => SnapshotHeldAlone
  BY DEF HeldInv
<1> QED
  BY <1>1, <1>2, <1>3, TypeCorrect, PTL DEF Spec

-------------------------------------------------------------------------------
(* A pause. *)

(* A job that runs while the agent is paused had begun before.                *)
PauseInv == paused => \A j \in Running : sincePause <= ran[j]

LEMMA PauseStep ==
    ASSUME TypeOK, QueueInv, PauseInv, [Next]_vars
    PROVE  PauseInv'
<1>0. /\ pc \in [Actors -> {"idle", "begun", "looked", "sent", "logged"}]
      /\ ran \in [Jobs -> 0..JobTime] /\ sincePause \in 0..(JobTime + 1) /\ JobTime \in Nat
      /\ Jobs \subseteq Actors
  BY ServerAssumption DEF TypeOK, Jobs, Actors
<1>1. CASE Crash \/ Boot
  BY <1>1 DEF Crash, Boot, Running, Jobs, Actors, QueueInv, PauseInv, clocks
<1>2. CASE Tick
  <2>1. up => \A j \in Running : ran[j] < JobTime
    BY <1>2 DEF Tick
  <2>2. ~up => Running = {}
    BY <1>0 DEF QueueInv, Running
  <2>3. Running' = Running /\ paused' = paused
    BY <1>2 DEF Tick, Running
  <2>4. ASSUME paused, NEW j \in Running PROVE sincePause' <= ran'[j]
    <3>1. sincePause <= ran[j] /\ ran[j] < JobTime /\ j \in Jobs
      BY <2>1, <2>2, <2>4 DEF PauseInv, Running
    <3>2. ran'[j] = ran[j] + 1 /\ sincePause' = CountTo(JobTime + 1, sincePause)
      BY <1>2, <2>4, <3>1 DEF Tick
    <3>3. ran[j] \in 0..JobTime
      BY <1>0, <3>1
    <3>4. QED
      BY <1>0, <3>1, <3>2, <3>3 DEF CountTo
  <2>5. QED
    BY <2>3, <2>4 DEF PauseInv
<1>3. ASSUME NEW j \in Jobs, Start(j) PROVE PauseInv'
  <2>1. /\ paused' = paused /\ sincePause' = sincePause
        /\ pc'[j] = (IF paused THEN "idle" ELSE "begun")
        /\ \A k \in Jobs \ {j} : pc'[k] = pc[k] /\ ran'[k] = ran[k]
    BY <1>0, <1>3 DEF Start, Goto, GoesAhead
  <2>2. paused => Running' \subseteq Running \ {j}
    BY <2>1 DEF Running
  <2>3. QED
    BY <2>1, <2>2 DEF PauseInv, Running
<1>4. CASE SetPaused
  <2>1. Running' = Running /\ ran' = ran /\ sincePause' = 0
    BY <1>4 DEF SetPaused, Running, vars
  <2>2. \A j \in Running : ran[j] \in 0..JobTime
    BY <1>0 DEF Running
  <2>3. QED
    BY <1>0, <2>1, <2>2 DEF PauseInv
<1>5. ASSUME NEW a \in Actors, Run(a) PROVE PauseInv'
  <2>1. /\ paused' = paused /\ sincePause' = sincePause /\ ran' = ran
        /\ \A k \in Actors \ {a} : pc'[k] = pc[k]
        /\ a \in Jobs => pc[a] # "idle"
    BY <1>0, <1>5 DEF Run, GetState, Close, Send, LogFill, LogDecision, Raise, End, Goto, clocks,
       Jobs
  <2>2. Running' \subseteq Running
    BY <1>0, <2>1 DEF Running
  <2>3. QED
    BY <2>1, <2>2 DEF PauseInv
<1>6. CASE Order \/ CancelAll \/ MonitorReturns \/ CloseRaises
  <2>1. /\ paused' = paused /\ sincePause' = sincePause /\ ran' = ran
        /\ \A k \in Jobs : pc'[k] = pc[k] \/ pc[k] # "idle"
    BY <1>0, <1>6 DEF Order, Send, CancelAll, MonitorReturns, CloseRaises, End, Goto, clocks,
       Jobs
  <2>2. Running' \subseteq Running
    BY <2>1 DEF Running
  <2>3. QED
    BY <2>1, <2>2 DEF PauseInv
<1>7. CASE \/ \E j \in Jobs : Submit(j) \/ Misfire(j)
           \/ \E o \in Orders : RestingFills(o)
           \/ UNCHANGED vars
  BY <1>7 DEF Submit, Misfire, RestingFills, vars, clocks, PauseInv, Running
<1>8. QED
  BY <1>1, <1>2, <1>3, <1>4, <1>5, <1>6, <1>7 DEF Next

(* PauseTakesEffect: however long a run takes, it sends its last order within  *)
(* the time of a job after a pause.                                           *)
THEOREM PauseHolds == Spec => PauseTakesEffect
<1> DEFINE Sends == \A j \in Jobs : own[j] # own'[j] /\ nextOrder' # nextOrder
                       => ~paused \/ sincePause <= JobTime
<1>1. Init => PauseInv
  BY DEF Init, PauseInv
<1>2. TypeOK /\ QueueInv /\ PauseInv /\ [Next]_vars => PauseInv'
  BY PauseStep
<1>3. ASSUME TypeOK, PauseInv, [Next]_vars PROVE Sends \/ UNCHANGED vars
  <2>1. ASSUME NEW a \in Actors, Send(a), NEW j \in Jobs, own[j] # own'[j], paused
        PROVE  sincePause <= JobTime
    <3>1. a = j /\ pc[j] # "idle"
      BY <1>3, <2>1 DEF Send, TypeOK, Actors, Jobs
    <3>2. j \in Running
      BY <3>1 DEF Running
    <3>3. sincePause <= ran[j]
      BY <1>3, <2>1, <3>2 DEF PauseInv
    <3>4. ran[j] \in 0..JobTime /\ sincePause \in 0..(JobTime + 1)
      BY <1>3 DEF TypeOK
    <3>5. QED
      BY <3>3, <3>4, ServerAssumption
  <2>2. ASSUME nextOrder' # nextOrder PROVE \E a \in Actors : Send(a)
    BY <1>3, <2>2 DEF Next, Crash, Boot, Tick, Submit, Start, Misfire, Run, GetState, Close,
       LogFill, LogDecision, Raise, Order, CancelAll, MonitorReturns, CloseRaises, SetPaused,
       RestingFills, vars, ledger, Actors, Jobs
  <2>3. QED
    BY <2>1, <2>2
<1>4. QED
  <2>1. Init => TypeOK /\ QueueInv
    BY InitType
  <2>2. TypeOK /\ QueueInv /\ [Next]_vars => (TypeOK /\ QueueInv)'
    BY TypeStep
  <2>3. QED
    BY <1>1, <1>2, <1>3, <2>1, <2>2, PTL DEF Spec, PauseTakesEffect

-------------------------------------------------------------------------------
(* The distance of cycles. *)

(* A job that is queued and on time is taken in the tick it was submitted in,  *)
(* so a running cycle is a cadence, less its own time, away from the next one; *)
(* and what still separates the last decision of a cycle from the next run is  *)
(* at least a cadence, less the time the run took.                            *)
SpacedInv ==
    /\ sinceDecision <= sinceCycle
    /\ pc["cycle"] # "idle" => until["cycle"] + ran["cycle"] >= Cadence
    /\ waiting["cycle"] \in {"due", "behind"} => until["cycle"] = Cadence
    /\ \A j \in Jobs : waiting[j] = "due" => WorkerFree
    /\ up => sinceCycle + until["cycle"] + JobTime >= Cadence
    /\ waiting["cycle"] # "no" => sinceCycle + JobTime >= Cadence

(* A process that is down has no queue. *)
DownInv == ~up => \A j \in Jobs : waiting[j] = "no"

LEMMA DownStep == DownInv /\ [Next]_vars => DownInv'
<1> SUFFICES ASSUME DownInv, [Next]_vars PROVE DownInv'
  OBVIOUS
<1>1. CASE Crash
  BY <1>1 DEF Crash, DownInv
<1>2. CASE Tick
  BY <1>2 DEF Tick, DownInv
<1>3. CASE Boot \/ (\E j \in Jobs : Submit(j) \/ Start(j) \/ Misfire(j))
  BY <1>3 DEF Boot, Submit, Start, Misfire, DownInv
<1>4. CASE \/ (\E a \in Actors : Run(a)) \/ Order \/ CancelAll \/ MonitorReturns \/ CloseRaises
           \/ SetPaused \/ (\E o \in Orders : RestingFills(o)) \/ UNCHANGED vars
  BY <1>4 DEF Run, GetState, Close, Send, LogFill, LogDecision, Raise, Order, CancelAll,
     MonitorReturns, CloseRaises, SetPaused, RestingFills, vars, scheduler, DownInv
<1>5. QED
  BY <1>1, <1>2, <1>3, <1>4 DEF Next

LEMMA RunningFinite == IsFiniteSet(Jobs) /\ Running \subseteq Jobs /\ Running' \subseteq Jobs
                       /\ IsFiniteSet(Running) /\ IsFiniteSet(Running')
                       /\ Cardinality(Running) \in Nat /\ Cardinality(Running') \in Nat
<1>1. IsFiniteSet({"cycle"}) /\ IsFiniteSet({"monitor"})
  BY FS_Singleton
<1>2. {"cycle"} \cup {"monitor"} = Jobs
  BY DEF Jobs
<1>3. IsFiniteSet(Jobs) /\ Running \subseteq Jobs /\ Running' \subseteq Jobs
  BY <1>1, <1>2, FS_Union DEF Running
<1>4. QED
  BY <1>3, FS_Subset, FS_CardinalityType

(* Runs that end free their worker. *)
LEMMA FreeStaysFree ==
    ASSUME WorkerFree, \A j \in Jobs : pc'[j] # "idle" => pc[j] # "idle"
    PROVE  WorkerFree'
<1>1. Running' \subseteq Running
  BY DEF Running
<1>2. Cardinality(Running') <= Cardinality(Running)
  BY <1>1, RunningFinite, FS_Subset
<1>3. QED
  BY <1>2, RunningFinite, ServerAssumption DEF WorkerFree

(* A run that begins takes one. *)
LEMMA OneWorkerMore ==
    ASSUME NEW j \in Jobs, Running' \subseteq Running \cup {j}
    PROVE  Cardinality(Running') <= Cardinality(Running) + 1
<1> DEFINE more == Running \cup {j}
<1>1. IsFiniteSet(more) /\ Cardinality(more) \in {Cardinality(Running), Cardinality(Running) + 1}
  BY RunningFinite, FS_AddElement
<1>2. Cardinality(Running') <= Cardinality(more)
  BY <1>1, FS_Subset
<1>3. QED
  BY <1>1, <1>2, RunningFinite

(* A step that starts nothing, ends what it likes and leaves the clocks alone. *)
LEMMA SpacedKept ==
    ASSUME TypeOK, SpacedInv, UNCHANGED <<up, until, waiting, ran, sinceDecision, sinceCycle>>,
           \A j \in Jobs : pc'[j] # "idle" => pc[j] # "idle"
    PROVE  SpacedInv'
<1>1. WorkerFree => WorkerFree'
  BY FreeStaysFree
<1>2. QED
  BY <1>1 DEF SpacedInv, Jobs

LEMMA SubmitSpaced ==
    ASSUME TypeOK, QueueInv, SpacedInv, NEW j \in Jobs, Submit(j)
    PROVE  SpacedInv'
<1>0. /\ until \in [Jobs -> 0..Cadence] /\ waiting \in [Jobs -> {"no", "due", "behind", "late"}]
      /\ "cycle" \in Jobs /\ Interval["cycle"] = Cadence /\ Cadence \in Nat /\ JobTime \in Nat
      /\ ran \in [Jobs -> 0..JobTime] /\ sinceCycle \in 0..Cadence
  BY ServerAssumption DEF TypeOK, Jobs, Interval
<1>1. /\ up /\ up' = up /\ until[j] = 0 /\ until' = [until EXCEPT ![j] = Interval[j]]
      /\ UNCHANGED <<pc, ran, sinceDecision, sinceCycle>>
  BY DEF Submit, clocks
<1>2. Running' = Running /\ (WorkerFree' <=> WorkerFree)
  BY <1>1 DEF Running, WorkerFree
<1>3. waiting' = waiting \/ waiting' = [waiting EXCEPT ![j] = IF WorkerFree THEN "due" ELSE "behind"]
  BY DEF Submit
<1>4. \A k \in Jobs : waiting'[k] = "due" => WorkerFree'
  BY <1>0, <1>2, <1>3 DEF SpacedInv
<1>5. CASE j = "cycle"
  <2>1. until'["cycle"] = Cadence
    BY <1>0, <1>1, <1>5
  <2>2. sinceCycle + JobTime >= Cadence
    BY <1>0, <1>1, <1>5 DEF SpacedInv
  <2>3. QED
    BY <1>0, <1>1, <1>4, <2>1, <2>2 DEF SpacedInv
<1>6. CASE j # "cycle"
  <2>1. until'["cycle"] = until["cycle"] /\ waiting'["cycle"] = waiting["cycle"]
    BY <1>0, <1>1, <1>3, <1>6
  <2>2. QED
    BY <1>1, <1>4, <2>1 DEF SpacedInv
<1>7. QED
  BY <1>5, <1>6

LEMMA StartSpaced ==
    ASSUME TypeOK, QueueInv, SpacedInv, NEW j \in Jobs, Start(j)
    PROVE  SpacedInv'
<1>0. /\ pc \in [Actors -> {"idle", "begun", "looked", "sent", "logged"}]
      /\ waiting \in [Jobs -> {"no", "due", "behind", "late"}] /\ ran \in [Jobs -> 0..JobTime]
      /\ until \in [Jobs -> 0..Cadence] /\ Cadence \in Nat /\ JobTime \in Nat /\ Workers \in Nat
      /\ "cycle" \in Jobs /\ Jobs \subseteq Actors
  BY ServerAssumption DEF TypeOK, Jobs, Actors
<1>1. /\ UNCHANGED <<up, until, sinceDecision, sinceCycle>>
      /\ waiting' = QueueAfter(j) /\ ran' = [ran EXCEPT ![j] = 0]
      /\ \A k \in Jobs \ {j} : pc'[k] = pc[k]
  BY <1>0 DEF Start, Goto
<1>2. \A k \in Jobs : waiting'[k] = "due" =>
          k # j /\ waiting[k] = "due" /\ ~(Cardinality(Running) + 1 >= Workers)
  BY <1>0, <1>1 DEF QueueAfter
<1>3. \A k \in Jobs : waiting'[k] = "due" => WorkerFree'
  <2>1. Running' \subseteq Running \cup {j}
    BY <1>1 DEF Running
  <2>2. Cardinality(Running') <= Cardinality(Running) + 1
    BY <2>1, OneWorkerMore
  <2>3. QED
    BY <1>0, <1>2, <2>2, RunningFinite DEF WorkerFree
<1>4. /\ waiting'["cycle"] \in {"due", "behind"} => waiting["cycle"] \in {"due", "behind"}
      /\ waiting'["cycle"] # "no" => waiting["cycle"] # "no"
  BY <1>0, <1>1 DEF QueueAfter
<1>5. pc'["cycle"] # "idle" => until'["cycle"] + ran'["cycle"] >= Cadence
  <2>1. CASE j = "cycle"
    <3>1. waiting["cycle"] \in {"due", "behind"} /\ ran'["cycle"] = 0
      BY <1>0, <1>1, <2>1 DEF Start, Taken
    <3>2. QED
      BY <1>0, <1>1, <3>1 DEF SpacedInv
  <2>2. CASE j # "cycle"
    BY <1>0, <1>1, <2>2 DEF SpacedInv
  <2>3. QED
    BY <2>1, <2>2
<1>6. QED
  BY <1>1, <1>3, <1>4, <1>5 DEF SpacedInv

LEMMA TickSpaced ==
    ASSUME TypeOK, QueueInv, DownInv, SpacedInv, Tick
    PROVE  SpacedInv'
<1>0. /\ waiting \in [Jobs -> {"no", "due", "behind", "late"}] /\ ran \in [Jobs -> 0..JobTime]
      /\ until \in [Jobs -> 0..Cadence] /\ Cadence \in Nat /\ JobTime \in Nat
      /\ sinceDecision \in 0..Cadence /\ sinceCycle \in 0..Cadence
      /\ "cycle" \in Jobs /\ "cycle" \in Actors
  BY ServerAssumption DEF TypeOK, Jobs, Actors
<1>1. /\ UNCHANGED <<up, pc>> /\ Running' = Running
      /\ sinceDecision' = CountTo(Cadence, sinceDecision)
      /\ sinceCycle' = CountTo(Cadence, sinceCycle)
  BY DEF Tick, Running
<1>2. \A j \in Jobs : waiting[j] # "due"
  <2>1. CASE up
    BY <2>1 DEF Tick, SpacedInv
  <2>2. CASE ~up
    BY <2>2 DEF DownInv
  <2>3. QED
    BY <2>1, <2>2
<1>3. \A j \in Jobs : waiting'[j] \in {"no", "late"} /\ (waiting'[j] # "no" => waiting[j] # "no")
  BY <1>0, <1>2 DEF Tick
<1>4. /\ sinceDecision' <= sinceCycle' /\ sinceCycle' \in 0..Cadence
      /\ sinceCycle' = sinceCycle + 1 \/ sinceCycle' = Cadence
      /\ sinceCycle' >= sinceCycle
  BY <1>0, <1>1 DEF SpacedInv, CountTo
<1>5. up => until'["cycle"] = until["cycle"] - 1 /\ until["cycle"] > 0
  BY <1>0 DEF Tick
<1>6. up' => sinceCycle' + until'["cycle"] + JobTime >= Cadence
  BY <1>0, <1>1, <1>4, <1>5 DEF SpacedInv
<1>7. pc'["cycle"] # "idle" => until'["cycle"] + ran'["cycle"] >= Cadence
  <2> SUFFICES ASSUME pc["cycle"] # "idle" PROVE until'["cycle"] + ran'["cycle"] >= Cadence
    BY <1>1
  <2>1. up /\ "cycle" \in Running
    BY <1>0 DEF QueueInv, Running
  <2>2. ran'["cycle"] = ran["cycle"] + 1
    BY <1>0, <2>1 DEF Tick
  <2>3. QED
    BY <1>0, <1>5, <2>1, <2>2 DEF SpacedInv
<1>8. waiting'["cycle"] # "no" => sinceCycle' + JobTime >= Cadence
  <2> SUFFICES ASSUME waiting'["cycle"] # "no" PROVE sinceCycle' + JobTime >= Cadence
    OBVIOUS
  <2>1. waiting["cycle"] # "no"
    BY <1>0, <1>3
  <2>2. sinceCycle + JobTime >= Cadence
    BY <2>1 DEF SpacedInv
  <2>3. \A c, d, j, s \in Int : s + j >= c /\ d >= s => d + j >= c
    OBVIOUS
  <2>4. /\ Cadence \in Int /\ JobTime \in Int /\ sinceCycle \in Int /\ sinceCycle' \in Int
        /\ sinceCycle' >= sinceCycle
    BY <1>0, <1>4
  <2>5. QED
    BY <2>2, <2>3, <2>4
<1>9. /\ waiting'["cycle"] \notin {"due", "behind"}
      /\ \A j \in Jobs : waiting'[j] # "due"
  BY <1>0, <1>3
<1>10. QED
  BY <1>4, <1>6, <1>7, <1>8, <1>9 DEF SpacedInv

(* The decision of a cycle, and those of the others. *)
LEMMA DecisionSpaced ==
    ASSUME TypeOK, QueueInv, SpacedInv, NEW a \in Actors, LogDecision(a)
    PROVE  SpacedInv'
<1>0. /\ until \in [Jobs -> 0..Cadence] /\ ran \in [Jobs -> 0..JobTime]
      /\ sinceDecision \in 0..Cadence /\ sinceCycle \in 0..Cadence
      /\ Cadence \in Nat /\ JobTime \in Nat /\ "cycle" \in Jobs
      /\ pc \in [Actors -> {"idle", "begun", "looked", "sent", "logged"}] /\ Jobs \subseteq Actors
  BY ServerAssumption DEF TypeOK, Jobs, Actors
<1>1. /\ UNCHANGED <<up, until, waiting, ran>> /\ sinceDecision' = 0
      /\ \A j \in Jobs : pc'[j] # "idle" => pc[j] # "idle"
  BY <1>0 DEF LogDecision, scheduler, End, Goto
<1>2. WorkerFree => WorkerFree'
  BY <1>1, FreeStaysFree
<1>3. CASE a = "cycle"
  <2>1. pc["cycle"] # "idle" /\ pc'["cycle"] = "idle" /\ sinceCycle' = 0
    BY <1>0, <1>3 DEF LogDecision, End, Goto
  <2>2. waiting["cycle"] = "no"
    BY <1>0, <2>1 DEF QueueInv
  <2>3. until["cycle"] + JobTime >= Cadence
    BY <1>0, <2>1 DEF SpacedInv
  <2>4. QED
    BY <1>0, <1>1, <1>2, <2>1, <2>2, <2>3 DEF SpacedInv
<1>4. CASE a # "cycle"
  <2>1. sinceCycle' = sinceCycle
    BY <1>4 DEF LogDecision
  <2>2. QED
    BY <1>0, <1>1, <1>2, <2>1 DEF SpacedInv
<1>5. QED
  BY <1>3, <1>4

LEMMA SpacedStep ==
    ASSUME TypeOK, QueueInv, DownInv, SpacedInv, [Next]_vars
    PROVE  SpacedInv'
<1>0. /\ pc \in [Actors -> {"idle", "begun", "looked", "sent", "logged"}] /\ Jobs \subseteq Actors
      /\ "cycle" \in Jobs /\ "cycle" \in Actors
      /\ sinceDecision \in 0..Cadence /\ sinceCycle \in 0..Cadence /\ Cadence \in Nat
      /\ JobTime \in Nat
  BY ServerAssumption DEF TypeOK, Jobs, Actors
<1>1. CASE Crash
  BY <1>0, <1>1 DEF Crash, SpacedInv, clocks, Jobs
<1>2. CASE Boot
  <2>1. until'["cycle"] = Cadence - sinceDecision
    BY <1>0, <1>2 DEF Boot, FirstRuns, FirstCycleIn
  <2>2. /\ UNCHANGED <<waiting, pc, sinceDecision, sinceCycle>> /\ pc["cycle"] = "idle"
        /\ \A j \in Jobs : waiting[j] = "no"
    BY <1>0, <1>2 DEF Boot, QueueInv, DownInv
  <2>3. QED
    BY <1>0, <2>1, <2>2 DEF SpacedInv
<1>3. ASSUME NEW j \in Jobs, Misfire(j) PROVE SpacedInv'
  <2>1. /\ UNCHANGED <<up, until, pc, ran, sinceDecision, sinceCycle>>
        /\ waiting' = [waiting EXCEPT ![j] = "no"] /\ waiting \in [Jobs -> {"no", "due", "behind", "late"}]
    BY <1>3 DEF Misfire, clocks, TypeOK
  <2>2. Running' = Running /\ (WorkerFree' <=> WorkerFree)
    BY <2>1 DEF Running, WorkerFree
  <2>3. QED
    BY <1>0, <2>1, <2>2 DEF SpacedInv
<1>4. ASSUME NEW a \in Actors, GetState(a) \/ Close(a) \/ LogFill(a) \/ Raise(a) PROVE SpacedInv'
  <2>1. /\ UNCHANGED <<up, until, waiting, ran, sinceDecision, sinceCycle>>
        /\ \A j \in Jobs : pc'[j] # "idle" => pc[j] # "idle"
    BY <1>0, <1>4 DEF GetState, Close, Send, LogFill, Raise, End, Goto, scheduler, clocks, Jobs
  <2>2. QED
    BY <2>1, SpacedKept
<1>5. CASE Order \/ CancelAll \/ MonitorReturns \/ CloseRaises \/ SetPaused
           \/ (\E o \in Orders : RestingFills(o)) \/ UNCHANGED vars
  <2>1. /\ UNCHANGED <<up, until, waiting, ran, sinceDecision, sinceCycle>>
        /\ \A j \in Jobs : pc'[j] # "idle" => pc[j] # "idle"
    BY <1>0, <1>5 DEF Order, Send, CancelAll, MonitorReturns, CloseRaises, SetPaused,
       RestingFills, End, Goto, scheduler, clocks, vars, Jobs
  <2>2. QED
    BY <2>1, SpacedKept
<1>6. QED
  BY <1>1, <1>2, <1>3, <1>4, <1>5, SubmitSpaced, StartSpaced, TickSpaced, DecisionSpaced
     DEF Next, Run

(* CyclesAreSpaced: with any number of workers, any cadence and crashes at any *)
(* point, a cycle begins a cadence, less the time of a run, after the last      *)
(* decision of a cycle, although the monitor and manual closes write decisions  *)
(* that compute_next_run_time takes for a cycle's.                             *)
THEOREM Spaced == Spec => CyclesAreSpaced
<1> DEFINE Begins == pc["cycle"] = "idle" /\ pc'["cycle"] = "begun"
                        => sinceCycle >= Cadence - JobTime
<1>1. Init => SpacedInv /\ DownInv
  BY ServerAssumption DEF Init, SpacedInv, DownInv, Jobs, Actors
<1>2. TypeOK /\ QueueInv /\ DownInv /\ SpacedInv /\ [Next]_vars => (SpacedInv /\ DownInv)'
  BY SpacedStep, DownStep
<1>3. ASSUME TypeOK, SpacedInv, [Next]_vars PROVE Begins \/ UNCHANGED vars
  <2> SUFFICES ASSUME pc["cycle"] = "idle", pc'["cycle"] = "begun"
               PROVE  sinceCycle >= Cadence - JobTime
    OBVIOUS
  <2>1. pc \in [Actors -> {"idle", "begun", "looked", "sent", "logged"}] /\ "cycle" \in Jobs
        /\ Jobs \subseteq Actors
    BY <1>3 DEF TypeOK, Jobs, Actors
  <2>2. Start("cycle")
    BY <1>3, <2>1 DEF Next, Crash, Boot, Tick, Submit, Start, Misfire, Run, GetState, Close,
       Send, LogFill, LogDecision, Raise, Order, CancelAll, MonitorReturns, CloseRaises,
       SetPaused, RestingFills, vars, End, Goto, Jobs
  <2>3. waiting["cycle"] # "no"
    BY <2>2 DEF Start, Taken
  <2>4. QED
    BY <1>3, <2>3, ServerAssumption DEF SpacedInv, TypeOK
<1>4. QED
  <2>1. Init => TypeOK /\ QueueInv
    BY InitType
  <2>2. TypeOK /\ QueueInv /\ [Next]_vars => (TypeOK /\ QueueInv)'
    BY TypeStep
  <2>3. QED
    BY <1>1, <1>2, <1>3, <2>1, <2>2, PTL DEF Spec, CyclesAreSpaced

-------------------------------------------------------------------------------
(* The time between two runs of the monitor. *)

(* The cycle is about to be taken from the queue. *)
CycleDue == until["cycle"] = 0 \/ waiting["cycle"] \in {"due", "behind"}

(* The monitor will not run before the next tick. *)
MonitorPassed == \/ waiting["monitor"] \in {"behind", "late"}
                 \/ waiting["monitor"] = "no" /\ until["monitor"] > 0

(* The monitor's last run is at most its own time old when it ends, a tick     *)
(* more when a cycle takes the worker from it, and that cycle's time more when *)
(* the worker is free again: the next cycle is then two ticks away, and the    *)
(* monitor is due in one.                                                    *)
TimelyInv ==
    /\ ~up => sinceMonitor <= 2 * JobTime + 2
    /\ up => until["monitor"] <= 1
    /\ pc["monitor"] # "idle" => sinceMonitor <= ran["monitor"]
    /\ pc["cycle"] # "idle" => sinceMonitor <= JobTime + 1 + ran["cycle"]
    /\ pc["monitor"] = "idle" /\ pc["cycle"] = "idle" =>
         /\ sinceMonitor <= 2 * JobTime + 2
         /\ up /\ CycleDue => sinceMonitor <= JobTime + 1
         /\ up /\ MonitorPassed =>
              /\ sinceMonitor <= 2 * JobTime + 1
              /\ until["cycle"] = 1 => sinceMonitor <= JobTime

TimelyTypes ==
    /\ Cadence \in Nat /\ JobTime \in Nat /\ JobTime + 2 <= Cadence
    /\ "cycle" \in Jobs /\ "monitor" \in Jobs /\ Jobs \subseteq Actors
    /\ Jobs = {"cycle", "monitor"}
    /\ until \in [Jobs -> 0..Cadence] /\ ran \in [Jobs -> 0..JobTime]
    /\ waiting \in [Jobs -> {"no", "due", "behind", "late"}]
    /\ pc \in [Actors -> {"idle", "begun", "looked", "sent", "logged"}]
    /\ sinceMonitor \in Nat

LEMMA TimelyTyped == TypeOK /\ JobTime + 2 <= Cadence => TimelyTypes
BY ServerAssumption DEF TypeOK, TimelyTypes, Jobs, Actors

(* Runs that go on or end: what follows a cycle follows by a time.            *)
LEMMA TimelyKept ==
    ASSUME TimelyTypes, QueueInv, SpacedInv, TimelyInv,
           UNCHANGED <<up, until, waiting, ran, sinceMonitor>>,
           \A j \in Jobs : pc'[j] # "idle" => pc[j] # "idle"
    PROVE  TimelyInv'
<1>1. CASE pc["monitor"] # "idle"
  <2>1. sinceMonitor <= JobTime
    BY <1>1 DEF TimelyTypes, TimelyInv
  <2>2. QED
    BY <2>1, <1>1 DEF TimelyTypes, TimelyInv, CycleDue, MonitorPassed
<1>2. CASE pc["cycle"] # "idle"
  <2>1. /\ sinceMonitor <= 2 * JobTime + 1
        /\ until["cycle"] >= 2 /\ waiting["cycle"] = "no"
    BY <1>2 DEF TimelyTypes, TimelyInv, QueueInv, SpacedInv
  <2>2. QED
    BY <2>1, <1>2 DEF TimelyTypes, TimelyInv, CycleDue, MonitorPassed
<1>3. CASE pc["monitor"] = "idle" /\ pc["cycle"] = "idle"
  BY <1>3 DEF TimelyTypes, TimelyInv, CycleDue, MonitorPassed
<1>4. QED
  BY <1>1, <1>2, <1>3

LEMMA SubmitTimely ==
    ASSUME TimelyTypes, TimelyInv, Workers = 1, NEW j \in Jobs, Submit(j)
    PROVE  TimelyInv'
<1>1. /\ up /\ until[j] = 0 /\ until' = [until EXCEPT ![j] = Interval[j]]
      /\ UNCHANGED <<up, pc, ran, sinceMonitor>>
      /\ waiting' = IF Skipped(j) THEN waiting
                    ELSE [waiting EXCEPT ![j] = IF WorkerFree THEN "due" ELSE "behind"]
  BY DEF Submit, clocks
<1>2. CASE pc["monitor"] # "idle" \/ pc["cycle"] # "idle"
  <2>1. until'["monitor"] <= 1
    BY <1>1 DEF TimelyInv, TimelyTypes, Interval
  <2>2. QED
    BY <1>1, <1>2, <2>1 DEF TimelyInv
<1>3. CASE pc["monitor"] = "idle" /\ pc["cycle"] = "idle"
  <2>1. WorkerFree
    <3>1. Running = {}
      BY <1>3 DEF Running, Jobs
    <3>2. QED
      BY <3>1, FS_EmptySet DEF WorkerFree
  <2>2. CASE j = "cycle"
    <3>1. sinceMonitor <= JobTime + 1
      BY <1>1, <1>3, <2>2 DEF TimelyInv, CycleDue
    <3>2. /\ until'["cycle"] = Cadence /\ until'["monitor"] = until["monitor"]
          /\ waiting'["monitor"] = waiting["monitor"]
      BY <1>1, <2>2 DEF TimelyTypes, Interval
    <3>3. QED
      BY <1>1, <1>3, <3>1, <3>2 DEF TimelyInv, TimelyTypes, MonitorPassed
  <2>3. CASE j = "monitor"
    <3>1. /\ until'["cycle"] = until["cycle"] /\ waiting'["cycle"] = waiting["cycle"]
          /\ waiting'["monitor"] = IF waiting["monitor"] # "no" THEN waiting["monitor"] ELSE "due"
      BY <1>1, <1>3, <2>1, <2>3 DEF TimelyTypes, Skipped, Running
    <3>2. MonitorPassed' => MonitorPassed
      BY <3>1 DEF MonitorPassed
    <3>3. CycleDue' <=> CycleDue
      BY <3>1 DEF CycleDue
    <3>4. until'["monitor"] <= 1
      BY <1>1, <2>3 DEF TimelyTypes, Interval
    <3>5. QED
      BY <1>1, <1>3, <3>1, <3>2, <3>3, <3>4 DEF TimelyInv
  <2>4. QED
    BY <2>2, <2>3 DEF TimelyTypes
<1>4. QED
  BY <1>2, <1>3

LEMMA StartTimely ==
    ASSUME TimelyTypes, QueueInv, SpacedInv, TimelyInv, Workers = 1, NEW j \in Jobs, Start(j)
    PROVE  TimelyInv'
<1>1. /\ up /\ UNCHANGED <<up, until>> /\ waiting' = QueueAfter(j)
      /\ waiting[j] \in {"due", "behind"} /\ WorkerFree
      /\ ran' = [ran EXCEPT ![j] = 0]
      /\ pc' = [pc EXCEPT ![j] = IF GoesAhead(j) THEN "begun" ELSE "idle"]
      /\ sinceMonitor' = IF j = "monitor" THEN 0 ELSE sinceMonitor
  BY DEF Start, Taken, Goto
<1>2. pc["monitor"] = "idle" /\ pc["cycle"] = "idle"
  BY <1>1, OneWorker DEF TimelyTypes
<1>3. CASE j = "monitor"
  <2>1. sinceMonitor' = 0 /\ ran'["monitor"] = 0 /\ pc'["cycle"] = "idle"
    BY <1>1, <1>2, <1>3 DEF TimelyTypes
  <2>2. QED
    BY <1>1, <2>1 DEF TimelyTypes, TimelyInv
<1>4. CASE j = "cycle"
  <2>1. /\ sinceMonitor' = sinceMonitor /\ sinceMonitor <= JobTime + 1
        /\ ran'["cycle"] = 0 /\ pc'["monitor"] = "idle"
        /\ until'["cycle"] = Cadence /\ waiting'["cycle"] = "no"
    BY <1>1, <1>2, <1>4 DEF TimelyTypes, TimelyInv, CycleDue, SpacedInv, QueueAfter
  <2>2. QED
    BY <1>1, <2>1 DEF TimelyTypes, TimelyInv, CycleDue, MonitorPassed
<1>5. QED
  BY <1>3, <1>4 DEF TimelyTypes

LEMMA TickTimely ==
    ASSUME TimelyTypes, QueueInv, Alone, TimelyInv, Workers = 1, Tick
    PROVE  TimelyInv'
<1>1. UNCHANGED <<up, pc>>
  BY DEF Tick
<1>2. CASE ~up
  <2>1. sinceMonitor' = 0 /\ \A j \in Jobs : pc[j] = "idle"
    BY <1>2 DEF Tick, QueueInv, TimelyTypes
  <2>2. QED
    BY <1>1, <1>2, <2>1 DEF TimelyInv, TimelyTypes
<1>3. CASE up
  <2>1. /\ sinceMonitor' <= sinceMonitor + 1
        /\ \A j \in Jobs : /\ until[j] > 0 /\ until'[j] = until[j] - 1
                           /\ waiting[j] # "no" => ~WorkerFree
                           /\ waiting'[j] = IF waiting[j] = "behind" THEN "late" ELSE waiting[j]
                           /\ pc[j] # "idle" => ran'[j] = ran[j] + 1 /\ ran[j] < JobTime
        /\ sinceMonitor' \in Nat
    BY <1>3 DEF Tick, CountTo, TimelyTypes, Running
  <2>2. CASE pc["monitor"] # "idle"
    <3>1. pc["cycle"] = "idle"
      BY <2>2 DEF Alone, TimelyTypes
    <3>2. QED
      BY <1>1, <1>3, <2>1, <2>2, <3>1 DEF TimelyInv, TimelyTypes
  <2>3. CASE pc["cycle"] # "idle"
    <3>1. pc["monitor"] = "idle"
      BY <2>3 DEF Alone, TimelyTypes
    <3>2. QED
      BY <1>1, <1>3, <2>1, <2>3, <3>1 DEF TimelyInv, TimelyTypes
  <2>4. CASE pc["monitor"] = "idle" /\ pc["cycle"] = "idle"
    <3>1. WorkerFree
      <4>1. Running = {}
        BY <2>4 DEF Running, Jobs
      <4>2. QED
        BY <4>1, FS_EmptySet DEF WorkerFree
    <3>2. waiting["monitor"] = "no" /\ waiting["cycle"] = "no" /\ until["monitor"] > 0
      BY <2>1, <3>1 DEF TimelyTypes
    <3>3. /\ sinceMonitor <= 2 * JobTime + 1
          /\ until["cycle"] = 1 => sinceMonitor <= JobTime
      BY <1>3, <2>4, <3>2 DEF TimelyInv, MonitorPassed
    <3>4. CycleDue' => until["cycle"] = 1
      BY <2>1, <3>2 DEF CycleDue, TimelyTypes
    <3>5. until'["monitor"] = 0 /\ ~MonitorPassed'
      BY <1>3, <2>1, <3>2 DEF TimelyInv, MonitorPassed, TimelyTypes
    <3>6. QED
      BY <1>1, <1>3, <2>1, <2>4, <3>2, <3>3, <3>4, <3>5 DEF TimelyInv, TimelyTypes
  <2>5. QED
    BY <2>2, <2>3, <2>4
<1>4. QED
  BY <1>2, <1>3

LEMMA TimelyStep ==
    ASSUME TimelyTypes, QueueInv, DownInv, SpacedInv, Alone, TimelyInv, Workers = 1,
           [Next]_vars
    PROVE  TimelyInv'
<1>1. CASE Crash
  <2>1. /\ up' = FALSE /\ sinceMonitor' = sinceMonitor
        /\ pc'["cycle"] = "idle" /\ pc'["monitor"] = "idle"
    BY <1>1 DEF Crash, clocks, TimelyTypes
  <2>2. sinceMonitor <= 2 * JobTime + 2
    BY DEF TimelyInv, TimelyTypes
  <2>3. QED
    BY <2>1, <2>2 DEF TimelyInv
<1>2. CASE Boot
  <2>1. /\ sinceMonitor' = 0 /\ UNCHANGED pc /\ until'["monitor"] = 1
        /\ pc["cycle"] = "idle" /\ pc["monitor"] = "idle"
    BY <1>2 DEF Boot, FirstRuns, QueueInv, TimelyTypes
  <2>2. QED
    BY <2>1 DEF TimelyInv, TimelyTypes
<1>3. ASSUME NEW j \in Jobs, Misfire(j) PROVE TimelyInv'
  <2>1. /\ UNCHANGED <<up, until, pc, ran, sinceMonitor>>
        /\ waiting[j] \in {"behind", "late"} /\ waiting' = [waiting EXCEPT ![j] = "no"]
    BY <1>3 DEF Misfire, clocks
  <2>2. (CycleDue' => CycleDue) /\ (MonitorPassed' => MonitorPassed)
    BY <2>1 DEF CycleDue, MonitorPassed, TimelyTypes
  <2>3. QED
    BY <2>1, <2>2 DEF TimelyInv
<1>4. ASSUME NEW a \in Actors, Run(a) PROVE TimelyInv'
  <2>1. /\ UNCHANGED <<up, until, waiting, ran, sinceMonitor>>
        /\ \A j \in Jobs : pc'[j] # "idle" => pc[j] # "idle"
    BY <1>4 DEF Run, GetState, Close, Send, LogFill, LogDecision, Raise, End, Goto, scheduler,
       clocks, TimelyTypes
  <2>2. QED
    BY <2>1, TimelyKept
<1>5. CASE Order \/ CancelAll \/ MonitorReturns \/ CloseRaises \/ SetPaused
           \/ (\E o \in Orders : RestingFills(o)) \/ UNCHANGED vars
  <2>1. /\ UNCHANGED <<up, until, waiting, ran, sinceMonitor>>
        /\ \A j \in Jobs : pc'[j] # "idle" => pc[j] # "idle"
    BY <1>5 DEF Order, Send, CancelAll, MonitorReturns, CloseRaises, SetPaused,
       RestingFills, End, Goto, scheduler, clocks, vars, TimelyTypes
  <2>2. QED
    BY <2>1, TimelyKept
<1>6. QED
  BY <1>1, <1>2, <1>3, <1>4, <1>5, SubmitTimely, StartTimely, TickTimely DEF Next

(* MonitorRunsInTime: with one worker and a cadence two intervals longer than  *)
(* the longest run, no order of long runs, skipped and dropped jobs, pauses    *)
(* and restarts keeps the stop-loss from running within the time of its own    *)
(* run, of one cycle and of two intervals.  A shorter cadence lets the cycle   *)
(* take the worker each time the monitor is due.                              *)
THEOREM RunsInTime ==
    Workers = 1 /\ JobTime + 2 <= Cadence /\ Spec => []MonitorRunsInTime
<1> SUFFICES ASSUME Workers = 1, JobTime + 2 <= Cadence PROVE Spec => []MonitorRunsInTime
  OBVIOUS
<1> DEFINE Timely == QueueInv /\ DownInv /\ SpacedInv /\ HeldInv /\ TimelyInv
<1>1. Init => TypeOK /\ Timely
  <2> SUFFICES ASSUME Init PROVE TypeOK /\ Timely
    OBVIOUS
  <2>1. TypeOK /\ QueueInv
    BY InitType
  <2>2. HeldInv
    BY DEF Init, HeldInv, Alone, SnapshotHeldAlone, Actors
  <2>3. SpacedInv /\ DownInv
    BY ServerAssumption DEF Init, SpacedInv, DownInv, Jobs, Actors
  <2>4. TimelyInv
    BY <2>1, TimelyTyped DEF Init, TimelyInv, TimelyTypes
  <2>5. QED
    BY <2>1, <2>2, <2>3, <2>4
<1>2. TypeOK /\ Timely /\ [Next]_vars => (TypeOK /\ Timely)'
  <2> SUFFICES ASSUME TypeOK, Timely, [Next]_vars PROVE TypeOK' /\ Timely'
    OBVIOUS
  <2>1. TimelyTypes
    BY TimelyTyped
  <2>2. TimelyInv'
    BY <2>1, TimelyStep DEF HeldInv
  <2>3. QED
    BY <2>2, TypeStep, DownStep, SpacedStep, HeldStep
<1>3. TypeOK /\ Timely => MonitorRunsInTime
  <2> SUFFICES ASSUME TypeOK, Timely PROVE MonitorRunsInTime
    OBVIOUS
  <2>1. TimelyTypes
    BY TimelyTyped
  <2>2. QED
    BY <2>1 DEF TimelyInv, TimelyTypes, MonitorRunsInTime
<1>4. QED
  BY <1>1, <1>2, <1>3, PTL DEF Spec
===============================================================================
