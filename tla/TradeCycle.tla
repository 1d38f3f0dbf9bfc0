------------------------------ MODULE TradeCycle ------------------------------
(***************************************************************************)
(* One scheduled trading cycle after another: run_one_cycle (main.py), the  *)
(* tool loop of run_cycle (agent.py), the Executor (executor.py) and the    *)
(* rows they leave in SQLite (storage.py), against an exchange that moves   *)
(* on its own and is also traded on by the monitor and by manual closes.    *)
(*                                                                          *)
(* Every remote call and every database transaction of the cycle is a step  *)
(* of its own, so whatever the other actors do can fall between any two,    *)
(* except reads whose results the cycle never compares: the assets of a     *)
(* snapshot, positions and open orders, the rows read before the model is   *)
(* called.                                                                  *)
(* The language model is the environment: any response built from Calls.    *)
(***************************************************************************)
EXTENDS RiskGate, Venue, Sequences, FiniteSets

CONSTANTS CorrelatedAssets,  \* executor.CORRELATED_ASSETS
          Risk,              \* runtime.effective_risk, constant during a run
          Calls,             \* the tool calls the model may make
          MaxTurns,          \* agent.MAX_TURNS
          MaxCalls,          \* bound: tool calls in one response
          MaxCycles,         \* bound: cycles of a run
          Marks,             \* bound: prices the exchange moves between
          MaxResting,        \* bound: orders resting at the same time
          MaxMoves,          \* bound: steps of the other actors in a run
          InitialCash,       \* account value without positions
          InitialPositions,  \* bound: positions a run may start with
          InitialDayStarts,  \* bound: today's first equity row before the run, or None
          InitialResting,    \* bound: sets of orders that may rest when a run starts
          None               \* no equity row logged today

(* A limit price that is not positive raises in _coin_size_from_usd, as other  *)
(* malformed calls raise: Abort stands for them all.                         *)
ASSUME CallsAssumption ==
    /\ Calls \subseteq [tool : STRING, asset : Assets, side : STRING, usd : Int,
                        px : Int, reduceOnly : BOOLEAN]
    /\ \A c \in Calls : c.tool = "place_limit_order" => c.px > 0

ASSUME RiskAssumption ==
    Risk \in [maxPositionPct : Int, maxTotalPct : Int, maxLeverage : Int,
              killSwitchPct : Int, minOrder : Int]

ASSUME TurnsAssumption ==
    /\ MaxTurns \in Nat \ {0}
    /\ MaxCalls \in Nat \ {0}
    /\ MaxCycles \in Nat
    /\ MaxMoves \in Nat
    /\ None \notin Int
    /\ InitialDayStarts \subseteq Int \cup {None}

ASSUME MarketAssumption ==
    /\ IsFiniteSet(Assets)
    /\ Marks \subseteq Nat \ {0}
    /\ InitialCash \in Int
    /\ InitialPositions \subseteq [Assets -> Int]
    /\ \A book \in InitialResting : \A o \in book :
           o.asset \in Assets /\ o.lots \in Int \ {0} /\ o.px \in Int

VARIABLES
    \* SQLite: runtime_state, fills, decisions, first equity_snapshots row of the day
    paused, fills, decisions, dayStart,
    \* the exchange
    mark, pos, cash, resting,
    \* the locals of run_one_cycle and run_cycle
    pc, cycle, mids, account, starting, turn, calls, onlyHolds, actions,
    \* history: exchange orders of the cycle, the row being logged last
    sent,
    \* bound: steps the other actors have taken
    moves

store    == <<paused, fills, decisions, dayStart>>
exchange == <<mark, pos, cash, resting>>
locals   == <<cycle, mids, account, starting, turn, calls, onlyHolds, actions>>
vars     == <<store, exchange, pc, locals, sent, moves>>

-------------------------------------------------------------------------------
(* The exchange, seen through account.get_state. *)

PositionView(a) == [size  |-> pos[a].size,
                    basis |-> pos[a].basis,
                    value |-> Abs(pos[a].size) * mark[a]]

Equity == cash + SumFunction([a \in Assets |-> UnrealizedPnl(pos[a], mark[a])])

AccountView == [equity    |-> Equity,
                positions |-> [a \in Assets |-> PositionView(a)],
                orders    |-> resting]

NoAccount == [equity    |-> 0,
              positions |-> [a \in Assets |-> [size |-> 0, basis |-> 0, value |-> 0]],
              orders    |-> {}]

(* Any part of the order the venue fills at px. *)
Execute(a, d, reduceOnly, px) ==
    \E n \in Fills(pos[a], d, reduceOnly) :
        /\ pos' = [pos EXCEPT ![a] = Trade(@, n, px)]
        /\ cash' = cash + RealizedPnl(pos[a], n, px)

-------------------------------------------------------------------------------
(* Executor helpers. *)

(* round(usd / price, sz_decimals) in lots; Python rounds a tie to even. *)
CoinSizeFromUsd(usd, px) ==
    LET q == usd \div px
        r == usd % px
    IN  IF 2 * r < px \/ (2 * r = px /\ q % 2 = 0) THEN q ELSE q + 1

(* Mutant: the cycle id is left out of the query. *)
OpeningRowsOfAnyCycle(c) == {j \in DOMAIN fills : fills[j].side \in Sides}

OpeningRows(c) ==
    {j \in DOMAIN fills : fills[j].cycle = c /\ fills[j].side \in Sides}

(* Mutant: the side logged last wins, as in a plain dict of the rows. *)
OpensByLastSide(c) ==
    {[asset |-> fills[j].asset, side |-> fills[j].side] :
        j \in {k \in OpeningRows(c) : \A n \in OpeningRows(c) :
                  fills[n].asset = fills[k].asset => n <= k}}

(* opens_in_cycle_by_side: the assets with a buy or sell row in the cycle,  *)
(* each with the side logged first.                                         *)
OpensInCycleBySide(c) ==
    {[asset |-> fills[j].asset, side |-> fills[j].side] :
        j \in {k \in OpeningRows(c) : \A n \in OpeningRows(c) :
                  fills[n].asset = fills[k].asset => k <= n}}

CorrelationBlocks(a, side, reduceOnly) ==
    /\ ~reduceOnly
    /\ a \in CorrelatedAssets
    /\ \E o \in OpensInCycleBySide(cycle) :
          /\ o.asset # a
          /\ o.asset \in CorrelatedAssets
          /\ o.side = side

(* What _market_order and _limit_order ask before they size an order. *)
OrderAllowed(c) ==
    /\ ~CorrelationBlocks(c.asset, c.side, c.reduceOnly)
    /\ CheckOpenOrIncrease(account, starting, Risk, c.asset, c.side, c.usd)

FreshOid == CHOOSE n \in 0..Cardinality(resting \cup account.orders) :
                \A o \in resting \cup account.orders : o.oid # n

-------------------------------------------------------------------------------
Init ==
    /\ paused = FALSE /\ fills = <<>> /\ decisions = {} /\ dayStart \in InitialDayStarts
    /\ mark \in [Assets -> Marks]
    /\ \E p \in InitialPositions :
          pos = [a \in Assets |-> [size |-> p[a], basis |-> p[a] * mark[a]]]
    /\ cash = InitialCash
    /\ resting \in InitialResting
    /\ pc = "idle" /\ cycle = 0
    /\ mids = mark /\ account = NoAccount /\ starting = 0
    /\ turn = 0 /\ calls = 0 /\ onlyHolds = TRUE /\ actions = 0
    /\ sent = <<>> /\ moves = 0

(* The scheduler fires the job; a paused agent returns before doing anything. *)
StartCycle ==
    /\ pc = "idle" /\ cycle < MaxCycles
    /\ ~paused
    /\ pc' = "snapshot"
    /\ cycle' = cycle + 1
    /\ turn' = 0 /\ calls' = 0 /\ onlyHolds' = TRUE /\ actions' = 0
    /\ account' = NoAccount /\ starting' = 0
    /\ sent' = <<>>
    /\ UNCHANGED <<store, exchange, mids, moves>>

GetSnapshot ==
    /\ pc = "snapshot"
    /\ mids' = mark
    /\ pc' = "account"
    /\ UNCHANGED <<store, exchange, cycle, account, starting, turn, calls,
                   onlyHolds, actions, sent, moves>>

(* get_state, then log_equity: the first row of a day is its starting equity. *)
GetState ==
    /\ pc = "account"
    /\ account' = AccountView
    /\ dayStart' = IF dayStart = None THEN Equity ELSE dayStart
    /\ pc' = "config"
    /\ UNCHANGED <<paused, fills, decisions, exchange, cycle, mids, starting,
                   turn, calls, onlyHolds, actions, sent, moves>>

(* starting_equity_today() or account.equity_usd, the risk configuration and *)
(* the provider.                                                             *)
Configure ==
    /\ pc = "config"
    /\ starting' = IF dayStart \in {None, 0} THEN account.equity ELSE dayStart
    /\ pc' = "model"
    /\ UNCHANGED <<store, exchange, cycle, mids, account, turn, calls,
                   onlyHolds, actions, sent, moves>>

(* Mutant: the inferred hold is not appended to the actions of the cycle. *)
TextOnlyUnrecorded ==
    /\ pc = "model" /\ turn < MaxTurns
    /\ turn' = turn + 1
    /\ pc' = "decide"
    /\ UNCHANGED <<store, exchange, cycle, mids, account, starting, calls,
                   onlyHolds, actions, sent, moves>>

(* provider.complete returns text only: a hold is synthesised and the loop ends. *)
TextOnly ==
    /\ pc = "model" /\ turn < MaxTurns
    /\ turn' = turn + 1
    /\ actions' = actions + 1
    /\ pc' = "decide"
    /\ UNCHANGED <<store, exchange, cycle, mids, account, starting, calls,
                   onlyHolds, sent, moves>>

(* Mutant: a response with tool calls is asked for without counting turns. *)
ToolUseUnbounded ==
    /\ pc = "model"
    /\ turn' = turn + 1
    /\ calls' = 0 /\ onlyHolds' = TRUE
    /\ pc' = "tools"
    /\ UNCHANGED <<store, exchange, cycle, mids, account, starting, actions,
                   sent, moves>>

(* provider.complete returns tool calls; they are picked one by one below. *)
ToolUse ==
    /\ pc = "model" /\ turn < MaxTurns
    /\ turn' = turn + 1
    /\ calls' = 0 /\ onlyHolds' = TRUE
    /\ pc' = "tools"
    /\ UNCHANGED <<store, exchange, cycle, mids, account, starting, actions,
                   sent, moves>>

(* Mutant: the exit is taken one turn later than the loop allows. *)
TurnsUsedUpLate ==
    /\ pc = "model" /\ turn > MaxTurns
    /\ pc' = "decide"
    /\ UNCHANGED <<store, exchange, locals, sent, moves>>

TurnsUsedUp ==
    /\ pc = "model" /\ turn = MaxTurns
    /\ pc' = "decide"
    /\ UNCHANGED <<store, exchange, locals, sent, moves>>

(* Executor.apply returned: what every call adds to the locals of the loop. *)
Applied(tool) ==
    /\ pc = "tools" /\ calls < MaxCalls
    /\ calls' = calls + 1
    /\ actions' = actions + 1
    /\ onlyHolds' = (onlyHolds /\ tool = "hold")
    /\ UNCHANGED <<cycle, mids, account, starting, turn>>

(* The call is a hold, is not a known tool, or is rejected. *)
NothingSent(tool) ==
    /\ Applied(tool)
    /\ UNCHANGED <<store, exchange, pc, sent, moves>>

Hold(c) == c.tool = "hold" /\ NothingSent(c.tool)

UnknownTool(c) == c.tool = "unknown" /\ NothingSent(c.tool)

(* An exchange call went out; the Executor logs its fill row next. *)
Sent(c, side) ==
    /\ Applied(c.tool)
    /\ sent' = Append(sent, [cycle |-> cycle, asset |-> c.asset, side |-> side,
                             reduceOnly |-> c.reduceOnly, usd |-> c.usd])
    /\ pc' = "log_fill"
    /\ UNCHANGED <<store, mark, moves>>

MarketOrder(c) ==
    LET lots == CoinSizeFromUsd(c.usd, mids[c.asset])
    IN  /\ c.tool = "place_market_order"
        /\ \/ ~(OrderAllowed(c) /\ lots > 0) /\ NothingSent(c.tool)
           \/ /\ OrderAllowed(c) /\ lots > 0
              /\ Sent(c, c.side)
              /\ Execute(c.asset, Signed(c.side, lots), FALSE, mark[c.asset])
              /\ UNCHANGED resting

(* An order at c.px: the part that does not fill at once rests, or the       *)
(* venue drops it.                                                           *)
OrderAtLimit(c, d, reduceOnly) ==
    \E n \in Fills(pos[c.asset], d, reduceOnly) :
        /\ pos' = [pos EXCEPT ![c.asset] = Trade(@, n, c.px)]
        /\ cash' = cash + RealizedPnl(pos[c.asset], n, c.px)
        /\ \/ resting' = resting
           \/ /\ n # d /\ Cardinality(resting) < MaxResting
              /\ resting' = resting \cup
                   {[oid |-> FreshOid, asset |-> c.asset, lots |-> d - n,
                     px |-> c.px, reduceOnly |-> reduceOnly]}

(* Mutant: reduce_only is not passed on, as in _market_order. *)
SendLimitOpening(c, d) == OrderAtLimit(c, d, FALSE)

SendLimit(c, d) == OrderAtLimit(c, d, c.reduceOnly)

LimitOrder(c) ==
    LET lots == CoinSizeFromUsd(c.usd, c.px)
    IN  /\ c.tool = "place_limit_order"
        /\ \/ ~(OrderAllowed(c) /\ lots > 0) /\ NothingSent(c.tool)
           \/ /\ OrderAllowed(c) /\ lots > 0
              /\ Sent(c, c.side)
              /\ SendLimit(c, Signed(c.side, lots))

(* One cancel request per order of the snapshot; a raise part of the way     *)
(* through leaves the rest in place and ends the cycle.                      *)
CancelAll(c) ==
    LET targets == {o \in resting : \E s \in account.orders :
                                       s.oid = o.oid /\ s.asset = c.asset}
    IN  /\ c.tool = "cancel_all"
        /\ \/ ~CheckCancel(account, c.asset) /\ NothingSent(c.tool)
           \/ /\ CheckCancel(account, c.asset)
              /\ Applied(c.tool)
              /\ \/ resting' = resting \ targets /\ pc' = pc
                 \/ \E done \in SUBSET targets :
                       resting' = resting \ done /\ pc' = "idle"
              /\ UNCHANGED <<store, mark, pos, cash, sent, moves>>

(* market_close returns without an order when the position is already gone. *)
ClosePosition(c) ==
    /\ c.tool = "close_position"
    /\ \/ ~CheckClose(account, c.asset) /\ NothingSent(c.tool)
       \/ /\ CheckClose(account, c.asset)
          /\ Sent(c, "close")
          /\ Execute(c.asset, -pos[c.asset].size, TRUE, mark[c.asset])
          /\ UNCHANGED resting

(* Mutant: closes leave no fill row. *)
LogOpensOnly ==
    /\ pc = "log_fill"
    /\ LET s == sent[Len(sent)]
       IN  fills' = IF s.side \notin Sides THEN fills
                    ELSE Append(fills, [cycle |-> cycle, asset |-> s.asset, side |-> s.side])
    /\ pc' = "tools"
    /\ UNCHANGED <<paused, decisions, dayStart, exchange, locals, sent, moves>>

LogFill ==
    /\ pc = "log_fill"
    /\ LET s == sent[Len(sent)]
       IN  fills' = Append(fills, [cycle |-> cycle, asset |-> s.asset, side |-> s.side])
    /\ pc' = "tools"
    /\ UNCHANGED <<paused, decisions, dayStart, exchange, locals, sent, moves>>

(* The response's last call was applied: holds only, or a stop reason other *)
(* than tool_use, ends the loop.                                            *)
EndTurn ==
    /\ pc = "tools" /\ calls > 0
    /\ \/ pc' = "decide"
       \/ ~onlyHolds /\ pc' = "model"
    /\ UNCHANGED <<store, exchange, locals, sent, moves>>

LogDecision ==
    /\ pc = "decide"
    /\ decisions' = decisions \cup {[cycle |-> cycle, actions |-> actions]}
    /\ pc' = "usage"
    /\ UNCHANGED <<paused, fills, dayStart, exchange, locals, sent, moves>>

LogTokenUsage ==
    /\ pc = "usage"
    /\ pc' = "idle"
    /\ UNCHANGED <<store, exchange, locals, sent, moves>>

(* A remote call, a malformed tool call or a database write raises and       *)
(* _safe_cycle swallows it, or the process dies and systemd restarts it: the *)
(* locals are gone either way.  At log_fill the order has reached the venue. *)
Abort ==
    /\ pc # "idle"
    /\ pc' = "idle"
    /\ UNCHANGED <<store, exchange, locals, sent, moves>>
-------------------------------------------------------------------------------
(* The other actors. *)

OtherActor == moves < MaxMoves /\ moves' = moves + 1

TogglePause ==
    /\ OtherActor
    /\ paused' = ~paused
    /\ UNCHANGED <<fills, decisions, dayStart, exchange, pc, locals, sent>>

RollDay ==
    /\ OtherActor
    /\ dayStart' = None
    /\ UNCHANGED <<paused, fills, decisions, exchange, pc, locals, sent>>

MoveMark(a) ==
    /\ OtherActor
    /\ \E px \in Marks \ {mark[a]} : mark' = [mark EXCEPT ![a] = px]
    /\ UNCHANGED <<store, pos, cash, resting, pc, locals, sent>>

(* The monitor, or POST /api/close_position, closes the position. *)
CloseElsewhere(a) ==
    /\ OtherActor
    /\ pos[a].size # 0
    /\ Execute(a, -pos[a].size, TRUE, mark[a])
    /\ UNCHANGED <<store, mark, resting, pc, locals, sent>>

(* A resting order trades, in part or in full, or the venue drops it. *)
RestingOrder(o) ==
    /\ OtherActor
    /\ \E n \in Fills(pos[o.asset], o.lots, o.reduceOnly) :
         /\ pos' = [pos EXCEPT ![o.asset] = Trade(@, n, o.px)]
         /\ cash' = cash + RealizedPnl(pos[o.asset], n, o.px)
         /\ resting' = (resting \ {o}) \cup
                         IF n \in {0, o.lots} THEN {} ELSE {[o EXCEPT !.lots = @ - n]}
    /\ UNCHANGED <<store, mark, pc, locals, sent>>

ToolCall ==
    \E c \in Calls : \/ Hold(c) \/ UnknownTool(c) \/ MarketOrder(c)
                     \/ LimitOrder(c) \/ CancelAll(c) \/ ClosePosition(c)

CycleStep ==
    \/ GetSnapshot \/ GetState \/ Configure
    \/ TextOnly \/ ToolUse \/ TurnsUsedUp
    \/ ToolCall \/ LogFill \/ EndTurn
    \/ LogDecision \/ LogTokenUsage

Environment ==
    \/ TogglePause \/ RollDay
    \/ \E a \in Assets : MoveMark(a) \/ CloseElsewhere(a)
    \/ \E o \in resting : RestingOrder(o)

Next == StartCycle \/ CycleStep \/ Abort \/ Environment

Spec == Init /\ [][Next]_vars

(* The scheduler's worker runs a started job to its end, and the remote      *)
(* calls it waits for return or raise.                                       *)
FairSpec == Spec /\ WF_vars(CycleStep)

-------------------------------------------------------------------------------
(* Properties. *)

Pcs == {"idle", "snapshot", "account", "config", "model", "tools", "log_fill",
        "decide", "usage"}

Rows == [cycle : Nat, asset : Assets, side : Sides \cup {"close"}]

Orders == [cycle : Nat, asset : Assets, side : Sides \cup {"close"},
           reduceOnly : BOOLEAN, usd : Int]

(* The shape of the rows, of the exchange state and of the cycle's locals.  *)
TypeOK ==
    /\ paused \in BOOLEAN /\ onlyHolds \in BOOLEAN
    /\ fills \in Seq(Rows) /\ sent \in Seq(Orders)
    /\ \A d \in decisions : d.cycle \in 1..cycle /\ d.actions \in Nat
    /\ dayStart \in Int \cup {None}
    /\ mark \in [Assets -> Marks] /\ mids \in [Assets -> Marks]
    /\ pos \in [Assets -> [size : Int, basis : Int]]
    /\ cash \in Int /\ starting \in Int /\ account.equity \in Int
    /\ account.positions \in [Assets -> [size : Int, basis : Int, value : Int]]
    /\ \A o \in resting \cup account.orders :
           o.asset \in Assets /\ o.lots \in Int \ {0} /\ o.px \in Int
    /\ pc \in Pcs /\ cycle \in 0..MaxCycles
    /\ moves \in 0..MaxMoves
    /\ turn \in 0..MaxTurns /\ calls \in 0..MaxCalls /\ actions \in Nat
    /\ \A i \in DOMAIN sent : sent[i].cycle = cycle

(* Order i is a leg that order j, later in the same cycle, may not stack on. *)
StacksOn(j, i) ==
    /\ i < j
    /\ sent[i].side \in Sides /\ sent[j].side = sent[i].side
    /\ sent[i].asset # sent[j].asset
    /\ {sent[i].asset, sent[j].asset} \subseteq CorrelatedAssets
    /\ ~sent[j].reduceOnly

(* "Reject if another correlated asset already had a same-direction opening *)
(* fill in this cycle" (executor.py:86) holds across turns and whatever the *)
(* venue filled, except behind an asset whose first order went the other    *)
(* way: opens_in_cycle_by_side keeps the first side only.                   *)
NoStackOnFirstLeg ==
    \A i, j \in DOMAIN sent :
        StacksOn(j, i) =>
            \E k \in 1..(i - 1) : /\ sent[k].asset = sent[i].asset
                                  /\ sent[k].side \in Sides \ {sent[i].side}

(* Only an order of the running cycle blocks another one: rows that earlier, *)
(* aborted or restarted cycles left in the table never do.                   *)
OnlySameCycleBlocks ==
    \A a \in Assets, side \in Sides :
        pc # "idle" /\ CorrelationBlocks(a, side, FALSE) =>
            \E i \in DOMAIN sent : sent[i].asset # a /\ sent[i].side = side

(* The last n rows of the table are those of the cycle's first n orders, and *)
(* no row before them is of this cycle.                                      *)
RowsAreOf(n) ==
    LET start == Len(fills) - n
    IN  /\ start >= 0
        /\ \A r \in 1..start : fills[r].cycle # cycle
        /\ \A i \in 1..n : fills[start + i] = [cycle |-> cycle, asset |-> sent[i].asset,
                                              side |-> sent[i].side]

(* The fills table holds every exchange order of the cycle in the order they *)
(* were sent, except the last one while it is being logged or after the      *)
(* cycle died there: never a gap in the middle, never a row without an order. *)
FillsTrailOrders ==
    \/ RowsAreOf(Len(sent))
    \/ /\ pc \in {"log_fill", "idle"} /\ Len(sent) > 0
       /\ RowsAreOf(Len(sent) - 1)

(* A decision row vouches for its cycle: it records at least one action (the *)
(* inferred hold included), no order of the cycle is missing from the fills  *)
(* table, and there is one row per cycle.                                    *)
DecisionVouchesForCycle ==
    \A d \in decisions :
        /\ d.actions > 0
        /\ d.cycle = cycle => RowsAreOf(Len(sent))
        /\ \A e \in decisions : e.cycle = d.cycle => e = d

(* The caps one order is held to, as the gate computes them (times 100). *)
AssetCap(a) ==
    LET cap   == account.equity * Risk.maxPositionPct
        value == CurrentNotional(account, a) * Percent
    IN  IF cap > value THEN cap ELSE value

OpenOrders(a) == {i \in DOMAIN sent : sent[i].asset = a /\ sent[i].side \in Sides}

(* The notional the cycle's orders on a add up to, as requested. *)
Requested(a) ==
    SumFunctionOnSet([i \in DOMAIN sent |-> Signed(sent[i].side, sent[i].usd)],
                     OpenOrders(a))

(* Every order of a cycle is checked against the cycle-start snapshot, so n  *)
(* accepted orders can carry an asset past its cap, but never past n times   *)
(* the cap plus n - 1 times the position the cycle started from.             *)
OvershootBound ==
    \A a \in Assets :
        LET n     == Cardinality(OpenOrders(a))
            basis == IF HasPosition(account, a) THEN account.positions[a].basis ELSE 0
        IN  n > 0 => Abs(basis + Requested(a)) * Percent
                        <= n * AssetCap(a) + (n - 1) * Abs(basis) * Percent

(* The gate adds the order to the entry-priced notional of the position, yet *)
(* while a cycle has sent one order the mark-priced total exposure it asked  *)
(* for stays within the total cap, give or take the position's unrealised    *)
(* profit: the two valuations never drift further apart than that.           *)
FirstOrderMarkExposure ==
    \A a \in Assets :
        Len(sent) = 1 /\ OpenOrders(a) # {} =>
            LET p  == account.positions[a]
                mv == IF p.size < 0 THEN -p.value ELSE p.value
            IN  (OtherNotional(account, a) + Abs(mv + Requested(a))) * Percent
                    <= account.equity * Risk.maxTotalPct + Abs(mv - p.basis) * Percent

(* "Per-asset cap: only enforced on increases" (risk.py:69): an order that   *)
(* makes the position larger at the mark keeps it within the cap.            *)
IncreaseWithinAssetCap ==
    \A a \in Assets :
        Len(sent) = 1 /\ OpenOrders(a) # {} =>
            LET p   == account.positions[a]
                mv  == IF p.size < 0 THEN -p.value ELSE p.value
                new == Abs(mv + Requested(a))
            IN  new > p.value => new * Percent <= account.equity * Risk.maxPositionPct

(* A reduce-only order may only reduce: no step that sends one makes the     *)
(* position larger or turns it around (tools.py: "the order can only reduce  *)
(* an existing position").                                                   *)
Reduces(a) ==
    /\ SameDirection(pos[a].size, pos'[a].size)
    /\ Abs(pos'[a].size) <= Abs(pos[a].size)

ReduceOnlyReduces ==
    [][\A c \in Calls : c.reduceOnly /\ MarketOrder(c) => Reduces(c.asset)]_vars

(* For limit orders it does hold: what fills at once reduces, and what rests *)
(* carries the flag to the venue.                                            *)
ReduceOnlyLimitReduces ==
    [][\A c \in Calls : c.reduceOnly /\ LimitOrder(c) =>
            /\ Reduces(c.asset)
            /\ \A o \in resting' \ resting : o.reduceOnly]_vars

(* With the kill switch active in the snapshot a cycle sends closes only.   *)
KillSwitchAllowsCloses ==
    pc \in {"model", "tools", "log_fill", "decide"}
      /\ KillSwitchActive(account, starting, Risk)
        => \A i \in DOMAIN sent : sent[i].side = "close"

(* Every cycle ends: the turn limit stops a model that never stops calling.  *)
CycleEnds == (pc # "idle") ~> (pc = "idle")
===============================================================================
