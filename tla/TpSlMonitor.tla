----------------------------- MODULE TpSlMonitor ------------------------------
(***************************************************************************)
(* The take-profit / stop-loss monitor (monitor.py) with the overrides it   *)
(* reads (runtime.py), while prices move, positions come and go, and the UI *)
(* pauses the agent, toggles a side or moves a threshold.                   *)
(*                                                                          *)
(* Every database read, remote call and row written by check_and_close is a *)
(* step; the code between two of them is not.  Profit is a level, in units  *)
(* of the thresholds, of the position's entry notional.                     *)
(***************************************************************************)
EXTENDS Integers

CONSTANTS Assets,
          Levels,         \* bound: profit levels a position moves between
          Thresholds,     \* bound: pct values the UI may set
          RequireChecks,  \* require_consecutive_checks of either side
          MaxStreak,      \* bound: streaks are not told apart above it
          MaxFaults       \* bound: raises, unfilled closes and restarts

Kinds == {"tp", "sl"}

(* max(1, int(cfg.require_consecutive_checks)) *)
Required(k) == IF RequireChecks[k] > 1 THEN RequireChecks[k] ELSE 1

ASSUME MonitorAssumption ==
    /\ Levels \subseteq Int /\ Thresholds \subseteq Int
    /\ RequireChecks \in [Kinds -> Int]
    /\ MaxStreak \in Nat /\ \A k \in Kinds : Required(k) <= MaxStreak
    /\ MaxFaults \in Nat

VARIABLES
    paused, cfg,             \* runtime_state: the pause flag, the effective sides
    open, pnl,               \* the exchange: open positions and their profit
    streak,                  \* monitor._streak, 0 for a missing key
    pc, read, view, todo,    \* check_and_close: step, sides, positions, the rest
    asset, kind,             \* _check_one: the position and the side checked
    run, carried, checked,   \* history: see Miss and RecordCheck
    closed, logged,          \* history: closes of this tick, those recorded
    faults

settings == <<paused, cfg>>
exchange == <<open, pnl>>
locals   == <<read, view, todo, asset, kind>>
counts   == <<run, carried, checked>>
history  == <<counts, closed, logged>>
vars     == <<settings, exchange, streak, pc, locals, history, faults>>

Keys == Kinds \X Assets
NoStreak == [k \in Keys |-> 0]

SideConfig == [enabled : BOOLEAN, pct : Thresholds]

Active(side) == side.enabled /\ side.pct > 0

Breached(level, k, pct) == IF k = "tp" THEN level >= pct ELSE level <= -pct

AtMost(n) == IF n < MaxStreak THEN n ELSE MaxStreak

Bump(n) == AtMost(n + 1)

-------------------------------------------------------------------------------
Init ==
    /\ paused = FALSE /\ cfg \in [Kinds -> SideConfig]
    /\ open = [a \in Assets |-> FALSE] /\ pnl \in [Assets -> Levels]
    /\ streak = NoStreak
    /\ pc = "idle" /\ read = cfg /\ view = pnl /\ todo = {}
    /\ asset \in Assets /\ kind = "tp"
    /\ run = NoStreak /\ carried = NoStreak /\ checked = {}
    /\ closed = {} /\ logged = {}
    /\ faults = 0

(* History of a side of an asset: run counts the breaches that ticks without *)
(* a gap have seen on the position open now, carried those before the last   *)
(* gap: a tick that did not check the side, or the end of the position.      *)
Miss(missed) ==
    /\ run' = [k \in Keys |-> IF k \in missed THEN 0 ELSE run[k]]
    /\ carried' = [k \in Keys |-> IF k \in missed THEN AtMost(carried[k] + run[k])
                                                 ELSE carried[k]]

(* A tick begins: the last one missed what it did not check. *)
TickBegins == Miss(Keys \ checked) /\ checked' = {}

StartTick ==
    /\ pc = "idle" /\ ~paused
    /\ pc' = "read_tp"
    /\ closed' = {} /\ logged' = {}
    /\ TickBegins
    /\ UNCHANGED <<settings, exchange, streak, locals, faults>>

(* A paused monitor returns here and leaves its streaks alone. *)
PausedTick ==
    /\ pc = "idle" /\ paused
    /\ TickBegins
    /\ UNCHANGED <<settings, exchange, streak, pc, locals, closed, logged, faults>>

ReadTakeProfit ==
    /\ pc = "read_tp"
    /\ read' = [read EXCEPT !["tp"] = cfg["tp"]]
    /\ pc' = "read_sl"
    /\ UNCHANGED <<settings, exchange, streak, view, todo, asset, kind, history,
                   faults>>

ReadStopLoss ==
    /\ pc = "read_sl"
    /\ read' = [read EXCEPT !["sl"] = cfg["sl"]]
    /\ pc' = IF \E k \in Kinds : Active(read'[k]) THEN "state" ELSE "idle"
    /\ UNCHANGED <<settings, exchange, streak, view, todo, asset, kind, history,
                   faults>>

(* What counts for an asset without a position is dropped. *)
OfOpen(count) == [k \in Keys |-> IF open[k[2]] THEN count[k] ELSE 0]

(* Mutant: the streaks survive the position. *)
StreaksKept == streak

StreaksOfOpen == OfOpen(streak)

(* get_state, then the streaks of assets without a position are dropped. *)
GetState ==
    /\ pc = "state"
    /\ view' = pnl
    /\ todo' = {a \in Assets : open[a]}
    /\ streak' = StreaksOfOpen
    /\ run' = OfOpen(run) /\ carried' = OfOpen(carried)
    /\ pc' = "next"
    /\ UNCHANGED <<settings, exchange, read, asset, kind, checked, closed, logged,
                   faults>>

NextPosition(a) ==
    /\ pc = "next" /\ a \in todo
    /\ todo' = todo \ {a}
    /\ asset' = a /\ kind' = "tp"
    /\ pc' = "check"
    /\ UNCHANGED <<settings, exchange, streak, read, view, history, faults>>

EndTick ==
    /\ pc = "next" /\ todo = {}
    /\ pc' = "idle"
    /\ UNCHANGED <<settings, exchange, streak, locals, history, faults>>

(* Take-profit first, then stop-loss, then the next position. *)
SideDone ==
    IF kind = "tp" THEN kind' = "sl" /\ pc' = "check"
                   ELSE kind' = kind /\ pc' = "next"

SkipInactive ==
    /\ pc = "check" /\ ~Active(read[kind])
    /\ SideDone
    /\ UNCHANGED <<settings, exchange, streak, read, view, todo, asset, history,
                   faults>>

(* History: a check that does not breach ends the count of its side. *)
RecordCheck(breached) ==
    LET k == <<kind, asset>>
    IN  /\ run' = [run EXCEPT ![k] = IF breached THEN Bump(@) ELSE 0]
        /\ carried' = IF breached THEN carried ELSE [carried EXCEPT ![k] = 0]
        /\ checked' = checked \cup {k}
        /\ UNCHANGED <<closed, logged>>

CheckBreached == Breached(view[asset], kind, read[kind].pct)

NotBreached ==
    /\ pc = "check" /\ Active(read[kind]) /\ ~CheckBreached
    /\ streak' = [streak EXCEPT ![<<kind, asset>>] = 0]
    /\ RecordCheck(FALSE)
    /\ SideDone
    /\ UNCHANGED <<settings, exchange, read, view, todo, asset, faults>>

(* Mutant: the incremented streak is not stored. *)
PendingForgets ==
    /\ pc = "check" /\ Active(read[kind]) /\ CheckBreached
    /\ streak[<<kind, asset>>] + 1 < Required(kind)
    /\ RecordCheck(TRUE)
    /\ SideDone
    /\ UNCHANGED <<settings, exchange, streak, read, view, todo, asset, faults>>

Pending ==
    /\ pc = "check" /\ Active(read[kind]) /\ CheckBreached
    /\ streak[<<kind, asset>>] + 1 < Required(kind)
    /\ streak' = [streak EXCEPT ![<<kind, asset>>] = Bump(@)]
    /\ RecordCheck(TRUE)
    /\ SideDone
    /\ UNCHANGED <<settings, exchange, read, view, todo, asset, faults>>

Fire ==
    /\ pc = "check" /\ Active(read[kind]) /\ CheckBreached
    /\ streak[<<kind, asset>>] + 1 >= Required(kind)
    /\ streak' = [streak EXCEPT ![<<kind, asset>>] = Bump(@)]
    /\ RecordCheck(TRUE)
    /\ pc' = "close"
    /\ UNCHANGED <<settings, exchange, locals, faults>>

Fault == faults < MaxFaults /\ faults' = faults + 1

Gone(a) ==
    /\ open' = [open EXCEPT ![a] = FALSE]
    /\ Miss({k \in Keys : k[2] = a})

(* market_close returns: the position is closed, or nothing or only a part   *)
(* was filled; the response is not looked at.                                *)
CloseReturns ==
    /\ pc = "close"
    /\ \/ Gone(asset) /\ UNCHANGED faults
       \/ Fault /\ UNCHANGED <<open, run, carried>>
    /\ closed' = closed \cup {asset}
    /\ pc' = "log_fill"
    /\ UNCHANGED <<settings, pnl, streak, locals, checked, logged>>

(* market_close raises: the streak stays and the next side is checked. *)
CloseRaises ==
    /\ pc = "close"
    /\ Fault
    /\ SideDone
    /\ UNCHANGED <<settings, exchange, streak, read, view, todo, asset, history>>

LogFill ==
    /\ pc = "log_fill"
    /\ pc' = "log_decision"
    /\ UNCHANGED <<settings, exchange, streak, locals, history, faults>>

(* log_decision, then the streak is dropped and, after a take-profit, the    *)
(* stop-loss side of the position is skipped.                                *)
LogDecision ==
    /\ pc = "log_decision"
    /\ logged' = logged \cup {asset}
    /\ streak' = [streak EXCEPT ![<<kind, asset>>] = 0]
    /\ run' = [run EXCEPT ![<<kind, asset>>] = 0]
    /\ carried' = [carried EXCEPT ![<<kind, asset>>] = 0]
    /\ pc' = "next"
    /\ UNCHANGED <<settings, exchange, locals, checked, closed, faults>>

(* Mutant: a row that cannot be written is skipped and the loop goes on. *)
TickRaisesIntoLoop ==
    /\ pc \in {"read_tp", "read_sl", "state", "log_fill", "log_decision"}
    /\ Fault
    /\ pc' = IF pc \in {"log_fill", "log_decision"} THEN "next" ELSE "idle"
    /\ UNCHANGED <<settings, exchange, streak, locals, history>>

(* A read, get_state or a row fails: safe_check swallows it, the tick ends. *)
TickRaises ==
    /\ pc \in {"read_tp", "read_sl", "state", "log_fill", "log_decision"}
    /\ Fault
    /\ pc' = "idle"
    /\ UNCHANGED <<settings, exchange, streak, locals, history>>

(* The process dies at any point and comes back without its streaks. *)
Restart ==
    /\ Fault
    /\ pc' = "idle"
    /\ streak' = NoStreak
    /\ run' = NoStreak /\ carried' = NoStreak
    /\ UNCHANGED <<settings, exchange, locals, checked, closed, logged>>

-------------------------------------------------------------------------------
(* The other actors. *)

TogglePause ==
    /\ paused' = ~paused
    /\ UNCHANGED <<cfg, exchange, streak, pc, locals, history, faults>>

(* POST /api/monitor: one write per side; the UI cannot set a pct of zero. *)
SetSide(k) ==
    /\ \E side \in SideConfig \ {cfg[k]} :
          /\ side.pct > 0 \/ side.pct = cfg[k].pct
          /\ cfg' = [cfg EXCEPT ![k] = side]
    /\ UNCHANGED <<paused, exchange, streak, pc, locals, history, faults>>

MovePrice(a) ==
    /\ \E level \in Levels \ {pnl[a]} : pnl' = [pnl EXCEPT ![a] = level]
    /\ UNCHANGED <<settings, open, streak, pc, locals, history, faults>>

OpenPosition(a) ==
    /\ ~open[a]
    /\ open' = [open EXCEPT ![a] = TRUE]
    /\ UNCHANGED <<settings, pnl, streak, pc, locals, history, faults>>

(* A trading cycle or the dashboard closes the position. *)
CloseElsewhere(a) ==
    /\ open[a]
    /\ Gone(a)
    /\ UNCHANGED <<settings, pnl, streak, pc, locals, checked, closed, logged,
                   faults>>

Tick ==
    \/ StartTick \/ PausedTick \/ ReadTakeProfit \/ ReadStopLoss \/ GetState
    \/ \E a \in Assets : NextPosition(a)
    \/ EndTick \/ SkipInactive \/ NotBreached \/ Pending \/ Fire
    \/ CloseReturns \/ LogFill \/ LogDecision

Environment ==
    \/ TogglePause
    \/ \E k \in Kinds : SetSide(k)
    \/ \E a \in Assets : MovePrice(a) \/ OpenPosition(a) \/ CloseElsewhere(a)

Next == Tick \/ CloseRaises \/ TickRaises \/ Restart \/ Environment

Spec == Init /\ [][Next]_vars

(* The scheduler keeps firing the job and lets a started tick run to its end. *)
FairSpec == Spec /\ WF_vars(Tick)

-------------------------------------------------------------------------------
(* Properties. *)

Pcs == {"idle", "read_tp", "read_sl", "state", "next", "check", "close",
        "log_fill", "log_decision"}

TypeOK ==
    /\ paused \in BOOLEAN
    /\ cfg \in [Kinds -> SideConfig] /\ read \in [Kinds -> SideConfig]
    /\ open \in [Assets -> BOOLEAN]
    /\ pnl \in [Assets -> Levels] /\ view \in [Assets -> Levels]
    /\ streak \in [Keys -> 0..MaxStreak]
    /\ run \in [Keys -> 0..MaxStreak] /\ carried \in [Keys -> 0..MaxStreak]
    /\ checked \subseteq Keys
    /\ pc \in Pcs
    /\ todo \subseteq Assets /\ asset \in Assets /\ kind \in Kinds
    /\ closed \subseteq Assets /\ logged \subseteq Assets
    /\ faults \in 0..MaxFaults

(* "Per-(kind, asset) count of consecutive monitor ticks where the threshold *)
(* was breached" (monitor.py:38): with no gap among them, so with nothing    *)
(* carried, a side fires only on the required number of breaches by          *)
(* consecutive ticks of one position, since a restart and since it last      *)
(* fired.  Across a gap the breaches before it still count, so a position    *)
(* opened between two ticks may be closed on its first breach; but a side    *)
(* never fires on fewer than required, nor on one older than a check that    *)
(* did not breach or than a tick that found no position.                     *)
FireNeedsConsecutiveBreaches ==
    pc = "close" =>
        /\ Active(read[kind]) /\ CheckBreached
        /\ run[<<kind, asset>>] + carried[<<kind, asset>>] >= Required(kind)

(* A tick closes an asset at most once, whatever its two sides say and       *)
(* however a close failed, and has recorded the close before it goes on to   *)
(* another position.                                                         *)
OneRecordedClosePerAsset ==
    /\ pc = "close" => asset \notin closed
    /\ pc \in {"next", "check", "close"} => closed = logged
    /\ pc \in {"log_fill", "log_decision"} => closed = logged \cup {asset}

(* A stop-loss that stays breached, enabled and unpaused gets the position   *)
(* closed, once remote calls stop failing.                                   *)
PersistentLossIsClosed ==
    \A a \in Assets :
        ~<>[](open[a] /\ ~paused /\ Active(cfg["sl"])
                /\ Breached(pnl[a], "sl", cfg["sl"].pct))
===============================================================================
