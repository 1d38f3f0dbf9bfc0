----------------------------- MODULE AgentServer ------------------------------
(***************************************************************************)
(* The process as a whole (server.py): the scheduler that runs the trading   *)
(* cycle (main.py) and the take-profit / stop-loss monitor (monitor.py) on a  *)
(* pool of one worker, the manual close of the dashboard beside them in the  *)
(* HTTP threads, the pause switch, and the process dying and starting again. *)
(*                                                                          *)
(* Time is discrete: one tick is one interval of the monitor.  What a run    *)
(* does in between takes any number of steps, and a job runs for at most     *)
(* JobTime ticks, the time the remote calls of a run may take.               *)
(* Orders are numbered, and what they do to the one position kept here is    *)
(* only whether they open, replace, keep or close it: TradeCycle and         *)
(* TpSlMonitor say which order is sent when.                                 *)
(***************************************************************************)
EXTENDS Integers, FiniteSets

CONSTANTS Workers,      \* threads of the scheduler's pool: 1 in server.py
          Cadence,      \* cadence_minutes, in ticks
          JobTime,      \* bound: ticks a job takes at most
          MaxOrders,    \* bound: orders of a run
          MaxCrashes    \* bound: crashes of a run

ASSUME ServerAssumption ==
    /\ Workers \in Nat \ {0}
    /\ Cadence \in Nat \ {0}
    /\ JobTime \in Nat
    /\ MaxOrders \in Nat /\ MaxCrashes \in Nat

VARIABLES
    \* the scheduler: ticks to the next run of each job, where a due job stands
    up, until, waiting,
    \* per actor: step of its run, ticks it has taken, position its get_state saw
    pc, ran, seen,
    \* per actor: the orders its run has sent and not yet put in a decision
    own,
    \* SQLite: the paused row, orders with a fill row, orders in a decision row
    paused, fills, decided,
    \* the exchange: the order that opened the position or 0, resting orders
    pos, resting,
    \* history: who moved the position last
    mover,
    \* ticks since the last decision of anyone, the last decision of a cycle,
    \* the last run of the monitor, the pause; each counts to a bound
    sinceDecision, sinceCycle, sinceMonitor, sincePause,
    \* the next order's number, bound: crashes so far
    nextOrder, crashes

Jobs == {"cycle", "monitor"}
Actors == Jobs \cup {"manual"}
Orders == 1..MaxOrders

scheduler == <<up, until, waiting>>
clocks    == <<sinceDecision, sinceCycle, sinceMonitor, sincePause>>
exchange  == <<pos, resting, mover>>
ledger    == <<own, fills, decided, nextOrder>>
vars      == <<scheduler, pc, ran, seen, ledger, paused, exchange, clocks, crashes>>

(* Mutant: the monitor is registered with the cadence of the cycle. *)
IntervalOfCycle == [j \in Jobs |-> Cadence]

Interval == [j \in Jobs |-> IF j = "cycle" THEN Cadence ELSE 1]

Running == {j \in Jobs : pc[j] # "idle"}

WorkerFree == Cardinality(Running) < Workers

Goto(a, step) == pc' = [pc EXCEPT ![a] = step]

(* The run's locals are gone. *)
End(a) == Goto(a, "idle") /\ seen' = [seen EXCEPT ![a] = 0]

(* n + 1, counting up to bound. *)
CountTo(bound, n) == IF n < bound THEN n + 1 ELSE bound

-------------------------------------------------------------------------------
(* Starting. *)

(* Mutant: the first cycle runs at once whatever the tables say. *)
FirstCycleAtOnce == 0

(* compute_next_run_time: a cadence after the last row of decisions, which   *)
(* the monitor and manual closes write too, or now if that has passed.       *)
FirstCycleIn == Cadence - sinceDecision

FirstRuns == [j \in Jobs |-> IF j = "cycle" THEN FirstCycleIn ELSE 1]

(* A new database: no decision, so the first cycle is due at once.           *)
Init ==
    /\ up = TRUE
    /\ until = [j \in Jobs |-> IF j = "cycle" THEN 0 ELSE 1]
    /\ waiting = [j \in Jobs |-> "no"]
    /\ pc = [a \in Actors |-> "idle"]
    /\ ran = [j \in Jobs |-> 0]
    /\ seen = [a \in Actors |-> 0]
    /\ own = [a \in Actors |-> {}]
    /\ paused = FALSE /\ fills = {} /\ decided = {}
    /\ pos = 0 /\ resting = {} /\ mover = "exchange"
    /\ sinceDecision = Cadence /\ sinceCycle = Cadence
    /\ sinceMonitor = 0 /\ sincePause = 0
    /\ nextOrder = 1 /\ crashes = 0

(* The process dies: threads, job queue and locals are gone.                 *)
Crash ==
    /\ up /\ crashes < MaxCrashes
    /\ up' = FALSE
    /\ crashes' = crashes + 1
    /\ pc' = [a \in Actors |-> "idle"]
    /\ own' = [a \in Actors |-> {}]
    /\ waiting' = [j \in Jobs |-> "no"]
    /\ seen' = [a \in Actors |-> 0]
    /\ UNCHANGED <<until, ran, fills, decided, nextOrder, paused, exchange,
                   clocks>>

(* lifespan: the exchange is initialised and both jobs are registered.       *)
Boot ==
    /\ ~up
    /\ up' = TRUE
    /\ until' = FirstRuns
    /\ sinceMonitor' = 0
    /\ UNCHANGED <<waiting, pc, ran, seen, ledger, paused, exchange, sinceDecision,
                   sinceCycle, sincePause, crashes>>

-------------------------------------------------------------------------------
(* APScheduler, as the two jobs are registered with it. *)

(* max_instances=1: a job that is still queued or running is not submitted.  *)
Skipped(j) == waiting[j] # "no" \/ j \in Running

(* The job is due and handed to the pool; misfire_grace_time is one second,  *)
(* so it matters whether a worker takes it at once.                          *)
Submit(j) ==
    /\ up /\ until[j] = 0
    /\ until' = [until EXCEPT ![j] = Interval[j]]
    /\ waiting' = IF Skipped(j) THEN waiting
                  ELSE [waiting EXCEPT ![j] = IF WorkerFree THEN "due" ELSE "behind"]
    /\ UNCHANGED <<up, pc, ran, seen, ledger, paused, exchange, clocks, crashes>>

(* Mutant: the pool takes every job at once. *)
TakenAlways(j) == waiting[j] \in {"due", "behind"}

(* A worker takes the job from the queue in time. *)
Taken(j) == WorkerFree /\ waiting[j] \in {"due", "behind"}

(* What else is due now has to wait when j takes the last worker. *)
QueueAfter(j) ==
    [k \in Jobs |-> IF k = j THEN "no"
                    ELSE IF waiting[k] = "due" /\ Cardinality(Running) + 1 >= Workers
                    THEN "behind" ELSE waiting[k]]

(* Mutant: the pause switch is not looked at. *)
GoesAheadAlways(j) == TRUE

(* is_paused is the first thing run_one_cycle and check_and_close ask.       *)
GoesAhead(j) == ~paused

(* The job's function is called. *)
Start(j) ==
    /\ up /\ Taken(j)
    /\ waiting' = QueueAfter(j)
    /\ Goto(j, IF GoesAhead(j) THEN "begun" ELSE "idle")
    /\ ran' = [ran EXCEPT ![j] = 0]
    /\ sinceMonitor' = IF j = "monitor" THEN 0 ELSE sinceMonitor
    /\ UNCHANGED <<up, until, seen, ledger, paused, exchange, sinceDecision,
                   sinceCycle, sincePause, crashes>>

(* It waited for more than its grace time and is dropped: logged as missed.  *)
Misfire(j) ==
    /\ up /\ WorkerFree
    /\ waiting[j] \in {"behind", "late"}
    /\ waiting' = [waiting EXCEPT ![j] = "no"]
    /\ UNCHANGED <<up, until, pc, ran, seen, ledger, paused, exchange, clocks, crashes>>

(* One monitor interval passes.  What is due has been submitted by then, and *)
(* a worker that is free has taken what was queued.                          *)
Tick ==
    /\ up => /\ \A j \in Jobs : until[j] > 0
             /\ \A j \in Jobs : waiting[j] # "no" => ~WorkerFree
             /\ \A j \in Running : ran[j] < JobTime
    /\ until' = IF up THEN [j \in Jobs |-> until[j] - 1] ELSE until
    /\ waiting' = [j \in Jobs |-> IF waiting[j] = "behind" THEN "late" ELSE waiting[j]]
    /\ ran' = [j \in Jobs |-> IF j \in Running THEN ran[j] + 1 ELSE 0]
    /\ sinceDecision' = CountTo(Cadence, sinceDecision)
    /\ sinceCycle' = CountTo(Cadence, sinceCycle)
    /\ sinceMonitor' = IF up THEN CountTo(2 * JobTime + 3, sinceMonitor) ELSE 0
    /\ sincePause' = IF paused THEN CountTo(JobTime + 1, sincePause) ELSE 0
    /\ UNCHANGED <<up, pc, seen, ledger, paused, exchange, crashes>>

-------------------------------------------------------------------------------
(* The runs. *)

(* account.get_state of a job, or of a manual close: 404 without a position. *)
GetState(a) ==
    /\ up
    /\ \/ a \in Jobs /\ pc[a] = "begun"
       \/ a = "manual" /\ pc[a] = "idle" /\ pos # 0
    /\ seen' = [seen EXCEPT ![a] = pos]
    /\ Goto(a, "looked")
    /\ UNCHANGED <<scheduler, ran, ledger, paused, exchange, clocks, crashes>>

(* An order goes out; the exchange acts on it whether or not its answer gets *)
(* back.                                                                     *)
Send(a) ==
    /\ pc[a] = "looked" /\ nextOrder <= MaxOrders
    /\ own' = [own EXCEPT ![a] = @ \cup {nextOrder}]
    /\ nextOrder' = nextOrder + 1
    /\ Goto(a, "sent")
    /\ UNCHANGED <<scheduler, ran, seen, fills, decided, paused, clocks, crashes>>

Move(a, positions) ==
    /\ pos' \in positions
    /\ mover' = IF pos' # pos THEN a ELSE mover

(* The cycle's orders: at once, or resting, or a close of a position it saw. *)
Order ==
    /\ Send("cycle")
    /\ \/ Move("cycle", {pos, 0, nextOrder}) /\ UNCHANGED resting
       \/ resting' = resting \cup {nextOrder} /\ UNCHANGED <<pos, mover>>

(* market_close of the position get_state showed closes whichever is open.   *)
Close(a) ==
    /\ seen[a] # 0
    /\ Send(a)
    /\ Move(a, {pos, 0})
    /\ UNCHANGED resting

CancelAll ==
    /\ pc["cycle"] = "looked"
    /\ \E kept \in SUBSET resting : kept # resting /\ resting' = kept
    /\ UNCHANGED <<scheduler, pc, ran, seen, ledger, paused, pos, mover, clocks, crashes>>

(* Mutant: the monitor writes its decision without a fill row. *)
LoggedByOthers(a) == IF a = "monitor" THEN {} ELSE own[a] \ fills

(* The order whose fill row log_fill writes. *)
Logged(a) == own[a] \ fills

(* log_fill; the cycle's loop goes on, the others write their decision.      *)
LogFill(a) ==
    /\ pc[a] = "sent"
    /\ fills' = fills \cup Logged(a)
    /\ Goto(a, IF a = "cycle" THEN "looked" ELSE "logged")
    /\ UNCHANGED <<scheduler, ran, seen, own, decided, nextOrder, paused, exchange,
                   clocks, crashes>>

(* log_decision.  The cycle and a manual close are over, the monitor turns   *)
(* to its next position.                                                     *)
LogDecision(a) ==
    /\ pc[a] = IF a = "cycle" THEN "looked" ELSE "logged"
    /\ decided' = decided \cup own[a]
    /\ own' = [own EXCEPT ![a] = {}]
    /\ IF a = "monitor" THEN Goto(a, "looked") /\ UNCHANGED seen ELSE End(a)
    /\ sinceDecision' = 0
    /\ sinceCycle' = IF a = "cycle" THEN 0 ELSE sinceCycle
    /\ UNCHANGED <<scheduler, ran, fills, nextOrder, paused, exchange,
                   sinceMonitor, sincePause, crashes>>

(* The monitor has nothing more to close. *)
MonitorReturns ==
    /\ pc["monitor"] = "looked"
    /\ End("monitor")
    /\ UNCHANGED <<scheduler, ran, ledger, paused, exchange, clocks, crashes>>

(* market_close raises in the monitor, which goes on without a row although  *)
(* the exchange may have closed the position.                                *)
CloseRaises ==
    /\ pc["monitor"] = "sent"
    /\ Goto("monitor", "looked")
    /\ own' = [own EXCEPT !["monitor"] = {}]
    /\ UNCHANGED <<scheduler, ran, seen, fills, decided, nextOrder, paused, exchange,
                   clocks, crashes>>

(* Anything else raises: _safe_cycle and safe_check log it, the server        *)
(* answers 500 or 502, and the run is over.                                   *)
Raise(a) ==
    /\ pc[a] # "idle"
    /\ End(a)
    /\ own' = [own EXCEPT ![a] = {}]
    /\ UNCHANGED <<scheduler, ran, fills, decided, nextOrder, paused, exchange,
                   clocks, crashes>>

-------------------------------------------------------------------------------
(* The dashboard's pause switch, and the exchange. *)

SetPaused ==
    /\ up
    /\ paused' = ~paused
    /\ sincePause' = 0
    /\ UNCHANGED <<scheduler, pc, ran, seen, ledger, exchange, sinceDecision,
                   sinceCycle, sinceMonitor, crashes>>

RestingFills(o) ==
    /\ o \in resting
    /\ resting' = resting \ {o}
    /\ Move("exchange", {pos, 0, o})
    /\ UNCHANGED <<scheduler, pc, ran, seen, ledger, paused, clocks, crashes>>

Run(a) ==
    \/ GetState(a) \/ Close(a) \/ LogFill(a) \/ LogDecision(a) \/ Raise(a)

Next ==
    \/ Crash \/ Boot \/ Tick
    \/ \E j \in Jobs : Submit(j) \/ Start(j) \/ Misfire(j)
    \/ \E a \in Actors : Run(a)
    \/ Order \/ CancelAll \/ MonitorReturns \/ CloseRaises
    \/ SetPaused \/ \E o \in Orders : RestingFills(o)

Spec == Init /\ [][Next]_vars

-------------------------------------------------------------------------------
(* Properties. *)

(* The shape of the scheduler's, the runs' and the tables' state.            *)
TypeOK ==
    /\ up \in BOOLEAN /\ paused \in BOOLEAN
    /\ until \in [Jobs -> 0..Cadence]
    /\ waiting \in [Jobs -> {"no", "due", "behind", "late"}]
    /\ pc \in [Actors -> {"idle", "begun", "looked", "sent", "logged"}]
    /\ ran \in [Jobs -> 0..JobTime]
    /\ seen \in [Actors -> 0..MaxOrders]
    /\ own \in [Actors -> SUBSET Orders]
    /\ fills \subseteq Orders /\ decided \subseteq Orders
    /\ pos \in 0..MaxOrders /\ resting \subseteq Orders
    /\ mover \in Actors \cup {"exchange"}
    /\ sinceDecision \in 0..Cadence /\ sinceCycle \in 0..Cadence
    /\ sinceMonitor \in 0..(2 * JobTime + 3) /\ sincePause \in 0..(JobTime + 1)
    /\ nextOrder \in 1..(MaxOrders + 1) /\ crashes \in 0..MaxCrashes

(* The one worker keeps a job's snapshot its own (server.py:122): while a run *)
(* still acts on what get_state showed it, the position is replaced or closed *)
(* by itself, by a manual close or by a resting order, never by the other     *)
(* job, so the monitor does not close what a cycle has just opened.           *)
SnapshotHeldAlone ==
    \A j \in Jobs :
        pc[j] \notin {"idle", "begun"} /\ pos # seen[j] => mover \notin Jobs \ {j}

(* A long run of either job makes the stop-loss miss its time, be skipped or  *)
(* be dropped, yet while the process is up it runs again within the time of   *)
(* its own run, of one cycle and of two intervals (server.py:122).            *)
MonitorRunsInTime == sinceMonitor <= 2 * JobTime + 2

(* "wait the remainder so we don't fire a cycle right after a restart"        *)
(* (main.py:154): whenever a cycle begins to trade, the last decision of a    *)
(* cycle is a cadence old, less the time that cycle took, restarts or not.    *)
CyclesAreSpaced ==
    [][pc["cycle"] = "idle" /\ pc'["cycle"] = "begun"
          => sinceCycle >= Cadence - JobTime]_vars

(* A pause does not stop a run that has begun (main.py:46), but what such a   *)
(* run still sends, it sends within the time a job takes; after that only     *)
(* manual closes reach the exchange until the pause is lifted.                *)
PauseTakesEffect ==
    [][\A j \in Jobs : own[j] # own'[j] /\ nextOrder' # nextOrder
          => ~paused \/ sincePause <= JobTime]_vars

(* The tables as TradeLog sees them. *)
Held == UNION {own[a] : a \in Actors}

StatusBar ==
    [o \in Orders |->
        IF o \in decided THEN "decided"
        ELSE IF o \in fills THEN IF o \in Held THEN "recorded" ELSE "orphaned"
        ELSE IF o \in Held THEN "sent"
        ELSE IF o < nextOrder THEN "lost" ELSE "none"]

Log == INSTANCE TradeLog WITH status <- StatusBar, pending <- own

(* Whatever interleaves, dies or is paused, the fills and decisions tables    *)
(* keep the promises TradeLog states.                                         *)
LogSpec == Log!Spec
===============================================================================
