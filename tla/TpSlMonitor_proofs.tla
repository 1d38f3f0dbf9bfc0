-------------------------- MODULE TpSlMonitor_proofs --------------------------
(***************************************************************************)
(* Proofs about the take-profit / stop-loss monitor, for every set of       *)
(* assets, price levels, thresholds and required number of checks.          *)
(***************************************************************************)
EXTENDS TpSlMonitor, TLAPS

(* The required number of checks is a positive number a streak can reach. *)
LEMMA RequiredBounds ==
    \A k \in Kinds : Required(k) \in 1..MaxStreak
  BY MonitorAssumption DEF Required, Kinds

LEMMA AtMostType ==
    ASSUME NEW n \in Nat
    PROVE  AtMost(n) \in 0..MaxStreak
  BY MonitorAssumption DEF AtMost

LEMMA BumpType ==
    ASSUME NEW n \in 0..MaxStreak
    PROVE  Bump(n) \in 0..MaxStreak
  BY AtMostType, MonitorAssumption DEF Bump

CountsOK ==
    /\ run \in [Keys -> 0..MaxStreak] /\ carried \in [Keys -> 0..MaxStreak]
    /\ checked \subseteq Keys

(* A gap keeps the shape of the counts. *)
LEMMA MissType ==
    ASSUME CountsOK, NEW missed, Miss(missed)
    PROVE  /\ run' \in [Keys -> 0..MaxStreak]
           /\ carried' \in [Keys -> 0..MaxStreak]
<1>1. ASSUME NEW k \in Keys
      PROVE  AtMost(carried[k] + run[k]) \in 0..MaxStreak
  <2>1. carried[k] + run[k] \in Nat
    BY MonitorAssumption DEF CountsOK
  <2>2. QED
    BY <2>1, AtMostType
<1>2. 0 \in 0..MaxStreak
  BY MonitorAssumption
<1>3. QED
  BY <1>1, <1>2 DEF Miss, CountsOK

(* A gap moves what was counted, up to the largest streak told apart. *)
LEMMA MissKeeps ==
    ASSUME CountsOK, NEW missed, Miss(missed), NEW k \in Keys,
           NEW n \in 0..MaxStreak, run[k] + carried[k] >= n
    PROVE  run'[k] + carried'[k] >= n
<1>1. run[k] \in 0..MaxStreak /\ carried[k] \in 0..MaxStreak /\ n \in Nat
  BY MonitorAssumption DEF CountsOK
<1>2. CASE k \in missed
  <2>1. run'[k] = 0 /\ carried'[k] = AtMost(carried[k] + run[k])
    BY <1>2 DEF Miss
  <2>2. QED
    BY <1>1, <2>1, MonitorAssumption DEF AtMost
<1>3. CASE k \notin missed
  BY <1>3 DEF Miss
<1>4. QED
  BY <1>2, <1>3

(* Type correctness: the monitor's rows, locals and counters keep their shape *)
(* through every tick, fault, restart and step of the other actors.           *)
THEOREM TypeCorrect == Spec => []TypeOK
<1>1. Init => TypeOK
  <2> SUFFICES ASSUME Init PROVE TypeOK
    OBVIOUS
  <2>1. NoStreak \in [Keys -> 0..MaxStreak] /\ faults \in 0..MaxFaults
    BY MonitorAssumption DEF NoStreak, Init
  <2>2. open \in [Assets -> BOOLEAN]
    BY DEF Init
  <2>3. QED
    BY <2>1, <2>2 DEF Init, TypeOK, Pcs, Kinds
<1>2. TypeOK /\ [Next]_vars => TypeOK'
  <2> SUFFICES ASSUME TypeOK, [Next]_vars PROVE TypeOK'
    OBVIOUS
  <2>0. CountsOK
    BY DEF TypeOK, CountsOK
  <2> USE BumpType DEF TypeOK, Pcs, SideDone, Fault
  <2>1. CASE StartTick \/ PausedTick
    <3>1. /\ run' \in [Keys -> 0..MaxStreak] /\ carried' \in [Keys -> 0..MaxStreak]
          /\ checked' \subseteq Keys
      BY <2>0, <2>1, MissType DEF StartTick, PausedTick, TickBegins
    <3>2. QED
      BY <2>1, <3>1 DEF StartTick, PausedTick, settings, exchange, locals
  <2>2. CASE ReadTakeProfit
    BY <2>2 DEF ReadTakeProfit, settings, exchange, history, counts, Kinds
  <2>3. CASE ReadStopLoss
    BY <2>3 DEF ReadStopLoss, settings, exchange, history, counts, Kinds
  <2>4. CASE GetState
    <3>1. /\ streak' \in [Keys -> 0..MaxStreak]
          /\ run' \in [Keys -> 0..MaxStreak]
          /\ carried' \in [Keys -> 0..MaxStreak]
      BY <2>4, MonitorAssumption DEF GetState, StreaksOfOpen, OfOpen
    <3>2. QED
      BY <2>4, <3>1 DEF GetState, settings, exchange
  <2>5. ASSUME NEW a \in Assets, NextPosition(a) PROVE TypeOK'
    BY <2>5 DEF NextPosition, settings, exchange, history, counts, Kinds
  <2>6. CASE EndTick
    BY <2>6 DEF EndTick, settings, exchange, locals, history, counts
  <2>7. CASE SkipInactive
    BY <2>7 DEF SkipInactive, settings, exchange, history, counts, Kinds
  <2>8. <<kind, asset>> \in Keys
    BY DEF Keys
  <2>9. CASE NotBreached
    <3>1. /\ streak' \in [Keys -> 0..MaxStreak]
          /\ run' \in [Keys -> 0..MaxStreak]
          /\ carried' \in [Keys -> 0..MaxStreak]
          /\ checked' \subseteq Keys
      BY <2>9, <2>8, MonitorAssumption DEF NotBreached, RecordCheck
    <3>2. QED
      BY <2>9, <3>1 DEF NotBreached, RecordCheck, settings, exchange, Kinds
  <2>10. ASSUME Pending \/ Fire PROVE TypeOK'
    <3>1. /\ streak' = [streak EXCEPT ![<<kind, asset>>] = Bump(@)]
          /\ run' = [run EXCEPT ![<<kind, asset>>] = Bump(@)]
          /\ carried' = carried /\ checked' = checked \cup {<<kind, asset>>}
      BY <2>10 DEF Pending, Fire, RecordCheck
    <3>2. /\ streak' \in [Keys -> 0..MaxStreak]
          /\ run' \in [Keys -> 0..MaxStreak]
          /\ checked' \subseteq Keys
      BY <3>1, <2>8
    <3>3. QED
      BY <2>10, <3>1, <3>2 DEF Pending, Fire, RecordCheck, settings, exchange, locals, Kinds
  <2>11. ASSUME NEW a \in Assets, Gone(a)
         PROVE  /\ open' \in [Assets -> BOOLEAN]
                /\ run' \in [Keys -> 0..MaxStreak] /\ carried' \in [Keys -> 0..MaxStreak]
    BY <2>0, <2>11, MissType DEF Gone
  <2>12. CASE CloseReturns
    <3>1. /\ open' \in [Assets -> BOOLEAN]
          /\ run' \in [Keys -> 0..MaxStreak] /\ carried' \in [Keys -> 0..MaxStreak]
          /\ faults' \in 0..MaxFaults
      BY <2>12, <2>11, MonitorAssumption DEF CloseReturns
    <3>2. QED
      BY <2>12, <3>1 DEF CloseReturns, settings, locals
  <2>13. CASE CloseRaises
    BY <2>13, MonitorAssumption DEF CloseRaises, settings, exchange, history, counts, Kinds
  <2>14. CASE LogFill
    BY <2>14 DEF LogFill, settings, exchange, locals, history, counts
  <2>15. CASE LogDecision
    <3>1. /\ streak' \in [Keys -> 0..MaxStreak] /\ run' \in [Keys -> 0..MaxStreak]
          /\ carried' \in [Keys -> 0..MaxStreak]
      BY <2>15, <2>8, MonitorAssumption DEF LogDecision
    <3>2. QED
      BY <2>15, <3>1 DEF LogDecision, settings, exchange, locals
  <2>16. CASE TickRaises
    BY <2>16, MonitorAssumption DEF TickRaises, settings, exchange, locals, history, counts
  <2>17. CASE Restart
    BY <2>17, MonitorAssumption
    DEF Restart, settings, exchange, locals, history, NoStreak
  <2>18. CASE TogglePause
    BY <2>18 DEF TogglePause, exchange, locals, history, counts
  <2>19. ASSUME NEW k \in Kinds, SetSide(k) PROVE TypeOK'
    BY <2>19 DEF SetSide, exchange, locals, history, counts
  <2>20. ASSUME NEW a \in Assets, MovePrice(a) PROVE TypeOK'
    BY <2>20 DEF MovePrice, settings, locals, history, counts
  <2>21. ASSUME NEW a \in Assets, OpenPosition(a) PROVE TypeOK'
    BY <2>21 DEF OpenPosition, settings, locals, history, counts
  <2>22. ASSUME NEW a \in Assets, CloseElsewhere(a) PROVE TypeOK'
    BY <2>22, <2>11 DEF CloseElsewhere, settings, locals
  <2>23. CASE UNCHANGED vars
    BY <2>23 DEF vars, settings, exchange, locals, history, counts
  <2>24. QED
    BY <2>1, <2>2, <2>3, <2>4, <2>5, <2>6, <2>7, <2>9, <2>10, <2>12, <2>13,
       <2>14, <2>15, <2>16, <2>17, <2>18, <2>19, <2>20, <2>21, <2>22, <2>23
    DEF Next, Tick, Environment
<1>3. QED
  BY <1>1, <1>2, PTL DEF Spec

-------------------------------------------------------------------------------
(***************************************************************************)
(* A streak never counts a check that did not breach, nor one before a       *)
(* restart, nor one of a position seen to be gone: what run and carried      *)
(* count together, which only these reset, bounds it from above.             *)
(***************************************************************************)
StreakWithinCounts == \A k \in Keys : streak[k] <= run[k] + carried[k]

(* A side fires only on the required number of breaches in a row, those       *)
(* before a gap included, for every interleaving with pauses, toggles,       *)
(* restarts, failed closes and positions that come and go.                   *)
THEOREM FiresOnlyOnConsecutiveBreaches == Spec => []FireNeedsConsecutiveBreaches
<1>1. Init => StreakWithinCounts /\ FireNeedsConsecutiveBreaches
  BY MonitorAssumption DEF Init, StreakWithinCounts, FireNeedsConsecutiveBreaches, NoStreak
<1>2. TypeOK /\ StreakWithinCounts /\ FireNeedsConsecutiveBreaches /\ [Next]_vars
        => (StreakWithinCounts /\ FireNeedsConsecutiveBreaches)'
  <2> SUFFICES ASSUME TypeOK, StreakWithinCounts, FireNeedsConsecutiveBreaches, [Next]_vars
               PROVE  StreakWithinCounts' /\ FireNeedsConsecutiveBreaches'
    OBVIOUS
  <2> DEFINE key == <<kind, asset>>
  <2>0. key \in Keys
    BY DEF Keys, TypeOK
  <2>a. CountsOK
    BY DEF TypeOK, CountsOK
  <2>b. \A k \in Keys : /\ streak[k] \in 0..MaxStreak
                        /\ run[k] \in 0..MaxStreak /\ carried[k] \in 0..MaxStreak
    BY DEF TypeOK
  <2>1. CASE NotBreached
    <3>1. pc' # "close"
      BY <2>1 DEF NotBreached, SideDone
    <3>2. \A k \in Keys : streak'[k] <= run'[k] + carried'[k]
      BY <2>0, <2>1, MonitorAssumption DEF NotBreached, RecordCheck, TypeOK, StreakWithinCounts
    <3>3. QED
      BY <3>1, <3>2 DEF StreakWithinCounts, FireNeedsConsecutiveBreaches
  <2>2. ASSUME Pending \/ Fire
        PROVE  /\ StreakWithinCounts'
               /\ streak'[key] = Bump(streak[key])
    <3>1. /\ streak' = [streak EXCEPT ![key] = Bump(@)]
          /\ run' = [run EXCEPT ![key] = Bump(@)]
          /\ carried' = carried
      BY <2>2 DEF Pending, Fire, RecordCheck
    <3>2. Bump(streak[key]) <= Bump(run[key]) + carried[key]
      BY <2>0, <2>b, MonitorAssumption DEF Bump, AtMost, StreakWithinCounts
    <3>3. \A k \in Keys : streak'[k] <= run'[k] + carried'[k]
      BY <2>0, <3>1, <3>2 DEF TypeOK, StreakWithinCounts
    <3>4. QED
      BY <2>0, <3>1, <3>3 DEF TypeOK, StreakWithinCounts
  <2>3. CASE Pending
    BY <2>2, <2>3 DEF Pending, SideDone, FireNeedsConsecutiveBreaches
  <2>4. CASE Fire
    <3>1. Bump(streak[key]) >= Required(kind)
      BY <2>0, <2>4, RequiredBounds, MonitorAssumption DEF Fire, Bump, AtMost, TypeOK
    <3>2. run'[key] + carried'[key] >= Required(kind)
      <4>1. /\ run'[key] \in 0..MaxStreak /\ streak'[key] \in 0..MaxStreak
            /\ carried'[key] \in 0..MaxStreak
        BY <2>0, <2>4, BumpType DEF Fire, RecordCheck, TypeOK
      <4>2. streak'[key] <= run'[key] + carried'[key]
        BY <2>0, <2>2, <2>4 DEF StreakWithinCounts
      <4>3. QED
        BY <2>2, <2>4, <3>1, <4>1, <4>2, RequiredBounds, MonitorAssumption DEF TypeOK
    <3>3. Active(read[kind])' /\ CheckBreached'
      BY <2>4 DEF Fire, locals, CheckBreached
    <3>4. Required(kind)' = Required(kind) /\ key' = key
      BY <2>4 DEF Fire, locals
    <3>5. QED
      BY <2>2, <2>4, <3>2, <3>3, <3>4 DEF FireNeedsConsecutiveBreaches, Fire, locals
  <2>5. CASE GetState
    <3>1. \A k \in Keys : streak'[k] <= run'[k] + carried'[k]
      BY <2>5, <2>b, MonitorAssumption
      DEF GetState, StreaksOfOpen, OfOpen, StreakWithinCounts
    <3>2. pc' # "close"
      BY <2>5 DEF GetState
    <3>3. QED
      BY <3>1, <3>2 DEF StreakWithinCounts, FireNeedsConsecutiveBreaches
  <2>6. CASE LogDecision
    <3>1. \A k \in Keys : streak'[k] <= run'[k] + carried'[k]
      BY <2>0, <2>6, MonitorAssumption DEF LogDecision, TypeOK, StreakWithinCounts
    <3>2. pc' # "close"
      BY <2>6 DEF LogDecision
    <3>3. QED
      BY <3>1, <3>2 DEF StreakWithinCounts, FireNeedsConsecutiveBreaches
  <2>7. CASE Restart
    <3>1. \A k \in Keys : streak'[k] <= run'[k] + carried'[k]
      BY <2>7, MonitorAssumption DEF Restart, NoStreak
    <3>2. pc' # "close"
      BY <2>7 DEF Restart
    <3>3. QED
      BY <3>1, <3>2 DEF StreakWithinCounts, FireNeedsConsecutiveBreaches
  <2>8. ASSUME NEW missed, Miss(missed), UNCHANGED streak
        PROVE  StreakWithinCounts'
    BY <2>8, <2>a, <2>b, MissKeeps DEF StreakWithinCounts
  <2>9. ASSUME UNCHANGED <<streak, run, carried>>, pc' # "close"
        PROVE  StreakWithinCounts' /\ FireNeedsConsecutiveBreaches'
    BY <2>9 DEF StreakWithinCounts, FireNeedsConsecutiveBreaches
  <2>10. ASSUME UNCHANGED locals
         PROVE  /\ Active(read[kind])' = Active(read[kind])
                /\ CheckBreached' = CheckBreached
                /\ Required(kind)' = Required(kind) /\ key' = key
    BY <2>10 DEF locals, CheckBreached
  <2>11. ASSUME UNCHANGED <<streak, run, carried, pc, locals>>
         PROVE  StreakWithinCounts' /\ FireNeedsConsecutiveBreaches'
    BY <2>10, <2>11 DEF StreakWithinCounts, FireNeedsConsecutiveBreaches
  <2>12. CASE ReadTakeProfit \/ ReadStopLoss \/ EndTick
    BY <2>9, <2>12 DEF ReadTakeProfit, ReadStopLoss, EndTick, history, counts
  <2>13. CASE StartTick \/ PausedTick
    BY <2>8, <2>13
    DEF StartTick, PausedTick, TickBegins, FireNeedsConsecutiveBreaches
  <2>14. ASSUME NEW a \in Assets, NextPosition(a)
         PROVE  StreakWithinCounts' /\ FireNeedsConsecutiveBreaches'
    BY <2>9, <2>14 DEF NextPosition, history, counts
  <2>15. CASE SkipInactive \/ CloseRaises
    BY <2>9, <2>15 DEF SkipInactive, CloseRaises, SideDone, history, counts
  <2>16. CASE LogFill \/ TickRaises
    BY <2>9, <2>16 DEF LogFill, TickRaises, history, counts
  <2>17. CASE CloseReturns
    <3>1. StreakWithinCounts'
      <4>1. CASE UNCHANGED <<run, carried>>
        BY <2>17, <4>1 DEF CloseReturns, StreakWithinCounts
      <4>2. CASE Gone(asset)
        BY <2>8, <2>17, <4>2 DEF CloseReturns, Gone
      <4>3. QED
        BY <2>17, <4>1, <4>2 DEF CloseReturns
    <3>2. pc' # "close"
      BY <2>17 DEF CloseReturns
    <3>3. QED
      BY <3>1, <3>2 DEF FireNeedsConsecutiveBreaches
  <2>18. ASSUME NEW a \in Assets, CloseElsewhere(a)
         PROVE  StreakWithinCounts' /\ FireNeedsConsecutiveBreaches'
    <3>1. Miss({k \in Keys : k[2] = a}) /\ UNCHANGED <<streak, pc, locals>>
      BY <2>18 DEF CloseElsewhere, Gone
    <3>2. ASSUME pc = "close"
          PROVE  run'[key] + carried'[key] >= Required(kind)
      <4>1. run[key] + carried[key] >= Required(kind)
        BY <3>2 DEF FireNeedsConsecutiveBreaches
      <4>2. Required(kind) \in 0..MaxStreak
        BY RequiredBounds, MonitorAssumption DEF TypeOK
      <4>3. QED
        BY <2>0, <2>a, <3>1, <4>1, <4>2, MissKeeps
    <3>3. QED
      BY <2>8, <2>10, <3>1, <3>2 DEF FireNeedsConsecutiveBreaches
  <2>19. ASSUME \/ TogglePause \/ UNCHANGED vars
                \/ \E k \in Kinds : SetSide(k)
                \/ \E a \in Assets : MovePrice(a) \/ OpenPosition(a)
         PROVE  UNCHANGED <<streak, run, carried, pc, locals>>
    BY <2>19 DEF TogglePause, SetSide, MovePrice, OpenPosition, history, counts, vars
  <2>20. QED
    BY <2>1, <2>3, <2>4, <2>5, <2>6, <2>7, <2>11, <2>12, <2>13, <2>14, <2>15,
       <2>16, <2>17, <2>18, <2>19 DEF Next, Tick, Environment
<1>3. QED
  BY <1>1, <1>2, TypeCorrect, PTL DEF Spec

-------------------------------------------------------------------------------
(***************************************************************************)
(* What a tick has done so far: the positions still to visit have not been  *)
(* closed by it, nor has the one being checked.                             *)
(***************************************************************************)
VisitedOnce ==
    /\ pc \in {"read_tp", "read_sl", "state"} => closed = {} /\ logged = {}
    /\ pc \in {"next", "check", "close", "log_fill", "log_decision"}
         => todo \cap closed = {}
    /\ pc \in {"check", "close", "log_fill", "log_decision"} => asset \notin todo
    /\ pc \in {"check", "close"} => asset \notin closed

(* A tick closes an asset at most once and records each close before it goes *)
(* on, for every number of positions and every pattern of failed calls.      *)
THEOREM ClosesOncePerTick == Spec => []OneRecordedClosePerAsset
<1>1. Init => VisitedOnce /\ OneRecordedClosePerAsset
  BY DEF Init, VisitedOnce, OneRecordedClosePerAsset
<1>2. VisitedOnce /\ OneRecordedClosePerAsset /\ [Next]_vars
        => (VisitedOnce /\ OneRecordedClosePerAsset)'
  <2> SUFFICES ASSUME VisitedOnce, OneRecordedClosePerAsset, [Next]_vars
               PROVE  VisitedOnce' /\ OneRecordedClosePerAsset'
    OBVIOUS
  <2> USE DEF VisitedOnce, OneRecordedClosePerAsset, SideDone
  <2>1. CASE StartTick \/ PausedTick \/ ReadTakeProfit \/ ReadStopLoss
    BY <2>1 DEF StartTick, PausedTick, ReadTakeProfit, ReadStopLoss, history, locals
  <2>2. CASE GetState
    BY <2>2 DEF GetState
  <2>3. ASSUME NEW a \in Assets, NextPosition(a)
        PROVE  VisitedOnce' /\ OneRecordedClosePerAsset'
    BY <2>3 DEF NextPosition, history
  <2>4. CASE EndTick \/ TickRaises \/ Restart
    BY <2>4 DEF EndTick, TickRaises, Restart
  <2>5. CASE SkipInactive \/ CloseRaises
    BY <2>5 DEF SkipInactive, CloseRaises, history
  <2>6. CASE NotBreached \/ Pending \/ Fire
    BY <2>6 DEF NotBreached, Pending, Fire, RecordCheck, locals
  <2>7. CASE CloseReturns
    BY <2>7 DEF CloseReturns, locals
  <2>8. CASE LogFill \/ LogDecision
    BY <2>8 DEF LogFill, LogDecision, locals, history
  <2>9. ASSUME Environment \/ UNCHANGED vars
        PROVE  UNCHANGED <<pc, todo, asset, closed, logged>>
    BY <2>9 DEF Environment, TogglePause, SetSide, MovePrice, OpenPosition,
                CloseElsewhere, locals, history, vars
  <2>10. QED
    BY <2>1, <2>2, <2>3, <2>4, <2>5, <2>6, <2>7, <2>8, <2>9 DEF Next, Tick
<1>3. QED
  BY <1>1, <1>2, PTL DEF Spec
===============================================================================
