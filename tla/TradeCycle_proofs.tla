--------------------------- MODULE TradeCycle_proofs --------------------------
(***************************************************************************)
(* Proofs about the trading cycle, for every set of assets, every set of    *)
(* tool calls the model may make, every risk configuration and every bound  *)
(* on turns, calls, cycles and moves of the other actors.                   *)
(***************************************************************************)
EXTENDS TradeCycle, SequenceTheorems, FiniteSetTheorems, WellFoundedInduction, TLAPS

(* A set of row numbers that is not empty has a first one. *)
LEMMA FirstRow ==
    ASSUME NEW T \in SUBSET Nat, T # {}
    PROVE  \E m \in T : \A n \in T : m <= n
<1>1. PICK m \in T : \A n \in T : ~(<<n, m>> \in OpToRel(<, Nat))
  BY NatLessThanWellFounded, WFMin
<1>2. \A n \in T : ~(n < m)
  BY <1>1 DEF OpToRel
<1>3. QED
  BY <1>2

-------------------------------------------------------------------------------
(***************************************************************************)
(* The fills table during a cycle: rows of other cycles, then the rows of   *)
(* this cycle's orders in the order they were sent, short of the one that   *)
(* is being logged.                                                         *)
(***************************************************************************)
LogTypes ==
    /\ cycle \in Nat /\ pc \in Pcs
    /\ fills \in Seq(Rows) /\ sent \in Seq(Orders)

Logged == IF pc = "log_fill" THEN Len(sent) - 1 ELSE Len(sent)

Start == Len(fills) - Logged

RowsFollowOrders ==
    /\ \A r \in DOMAIN fills : fills[r].cycle <= cycle
    /\ pc = "log_fill" => Len(sent) > 0
    /\ pc \in {"snapshot", "account", "config"} => sent = <<>>
    /\ pc # "idle" =>
         /\ Start >= 0
         /\ \A r \in 1..Start : fills[r].cycle # cycle
         /\ \A i \in 1..Logged :
               fills[Start + i] = [cycle |-> cycle, asset |-> sent[i].asset,
                                   side |-> sent[i].side]

IInv == LogTypes /\ RowsFollowOrders /\ NoStackOnFirstLeg /\ KillSwitchAllowsCloses

(* What a step does to the log: nothing, a new cycle, an order, or its row. *)
Quiet ==
    /\ UNCHANGED <<fills, sent, cycle>>
    /\ pc # "log_fill" /\ pc' # "log_fill" /\ pc' \in Pcs
    /\ pc = "idle" => pc' = "idle"
    /\ pc' \in {"snapshot", "account", "config"}
         => pc \in {"snapshot", "account", "config"}

StaysOrAborts == UNCHANGED <<fills, sent, cycle>> /\ pc' \in {pc, "idle"}

OrderSent ==
    /\ pc = "tools" /\ pc' = "log_fill"
    /\ UNCHANGED <<fills, cycle, account, starting>>
    /\ \E c \in Calls :
          \/ /\ OrderAllowed(c)
             /\ sent' = Append(sent, [cycle |-> cycle, asset |-> c.asset, side |-> c.side,
                                      reduceOnly |-> c.reduceOnly, usd |-> c.usd])
          \/ sent' = Append(sent, [cycle |-> cycle, asset |-> c.asset, side |-> "close",
                                   reduceOnly |-> c.reduceOnly, usd |-> c.usd])

LEMMA StepKinds ==
    ASSUME LogTypes, [Next]_vars
    PROVE  \/ StartCycle \/ OrderSent \/ LogFill
           \/ Quiet \/ StaysOrAborts
  <1> USE DEF store, exchange, locals
  <1>1. CASE StartCycle
    BY <1>1
  <1>2. CASE GetSnapshot \/ GetState \/ Configure
    BY <1>2 DEF GetSnapshot, GetState, Configure, Quiet, Pcs
  <1>3. CASE TextOnly \/ ToolUse \/ TurnsUsedUp
    BY <1>3 DEF TextOnly, ToolUse, TurnsUsedUp, Quiet, Pcs
  <1>4. ASSUME NEW c \in Calls, NothingSent(c.tool) PROVE StaysOrAborts
    BY <1>4 DEF NothingSent, Applied, StaysOrAborts
  <1>5. ASSUME NEW c \in Calls, MarketOrder(c) \/ LimitOrder(c) \/ ClosePosition(c)
        PROVE  StaysOrAborts \/ OrderSent
    BY <1>4, <1>5 DEF MarketOrder, LimitOrder, ClosePosition, Sent, Applied, OrderSent
  <1>6. ASSUME NEW c \in Calls, CancelAll(c) PROVE StaysOrAborts
    BY <1>4, <1>6 DEF CancelAll, Applied, StaysOrAborts
  <1>7. ASSUME ToolCall PROVE StaysOrAborts \/ OrderSent
    BY <1>4, <1>5, <1>6, <1>7 DEF ToolCall, Hold, UnknownTool
  <1>8. CASE EndTurn \/ LogDecision \/ LogTokenUsage
    BY <1>8 DEF EndTurn, LogDecision, LogTokenUsage, Quiet, Pcs
  <1>9. CASE Abort
    BY <1>9 DEF Abort, StaysOrAborts
  <1>10. CASE Environment
    BY <1>10 DEF Environment, TogglePause, RollDay, MoveMark, CloseElsewhere,
                 RestingOrder, StaysOrAborts
  <1>11. CASE UNCHANGED vars
    BY <1>11 DEF vars, StaysOrAborts
  <1>12. QED
    BY <1>1, <1>2, <1>3, <1>7, <1>8, <1>9, <1>10, <1>11 DEF Next, CycleStep

(* The record an order leaves in sent is well typed. *)
LEMMA OrderType ==
    ASSUME LogTypes, OrderSent
    PROVE  \E e \in Orders :
             /\ sent' = Append(sent, e) /\ e.cycle = cycle
             /\ e.side \in Sides =>
                  /\ ~CorrelationBlocks(e.asset, e.side, e.reduceOnly)
                  /\ ~KillSwitchActive(account, starting, Risk)
                  /\ CheckOpenOrIncrease(account, starting, Risk, e.asset, e.side, e.usd)
<1>1. PICK c \in Calls :
          \/ /\ OrderAllowed(c)
             /\ sent' = Append(sent, [cycle |-> cycle, asset |-> c.asset, side |-> c.side,
                                      reduceOnly |-> c.reduceOnly, usd |-> c.usd])
          \/ sent' = Append(sent, [cycle |-> cycle, asset |-> c.asset, side |-> "close",
                                   reduceOnly |-> c.reduceOnly, usd |-> c.usd])
  BY DEF OrderSent
<1>2. c.asset \in Assets /\ c.reduceOnly \in BOOLEAN /\ c.usd \in Int /\ cycle \in Nat
  BY CallsAssumption DEF LogTypes
<1>3. CASE OrderAllowed(c) /\ sent' = Append(sent,
               [cycle |-> cycle, asset |-> c.asset, side |-> c.side,
                reduceOnly |-> c.reduceOnly, usd |-> c.usd])
  <2>1. /\ ~CorrelationBlocks(c.asset, c.side, c.reduceOnly)
        /\ c.side \in Sides /\ ~KillSwitchActive(account, starting, Risk)
        /\ CheckOpenOrIncrease(account, starting, Risk, c.asset, c.side, c.usd)
    BY <1>3 DEF OrderAllowed, CheckOpenOrIncrease
  <2> DEFINE e == [cycle |-> cycle, asset |-> c.asset, side |-> c.side,
                   reduceOnly |-> c.reduceOnly, usd |-> c.usd]
  <2>2. e \in Orders
    BY <1>2, <2>1 DEF Orders
  <2>3. QED
    BY <1>3, <2>1, <2>2
<1>4. CASE sent' = Append(sent,
               [cycle |-> cycle, asset |-> c.asset, side |-> "close",
                reduceOnly |-> c.reduceOnly, usd |-> c.usd])
  <2> DEFINE e == [cycle |-> cycle, asset |-> c.asset, side |-> "close",
                   reduceOnly |-> c.reduceOnly, usd |-> c.usd]
  <2>1. e \in Orders /\ e.side \notin Sides
    BY <1>2 DEF Orders, Sides
  <2>2. QED
    BY <1>4, <2>1
<1>5. QED
  BY <1>1, <1>3, <1>4

LEMMA TypesStep ==
    ASSUME LogTypes, RowsFollowOrders, [Next]_vars
    PROVE  LogTypes'
<1>1. CASE StartCycle
  BY <1>1, EmptySeq DEF StartCycle, LogTypes, Pcs, store
<1>2. CASE OrderSent
  <2>1. PICK e \in Orders : sent' = Append(sent, e)
    BY <1>2, OrderType
  <2>2. sent' \in Seq(Orders)
    BY <2>1, AppendProperties DEF LogTypes
  <2>3. QED
    BY <1>2, <2>2 DEF OrderSent, LogTypes, Pcs
<1>3. CASE LogFill
  <2> DEFINE s == sent[Len(sent)]
             row == [cycle |-> cycle, asset |-> s.asset, side |-> s.side]
  <2>1. s \in Orders
    BY <1>3, ElementOfSeq DEF LogFill, LogTypes, RowsFollowOrders
  <2>2. row \in Rows
    BY <2>1 DEF LogTypes, Orders, Rows
  <2>3. QED
    BY <1>3, <2>2, AppendProperties DEF LogFill, LogTypes, Pcs, locals
<1>4. CASE Quiet \/ StaysOrAborts
  BY <1>4 DEF Quiet, StaysOrAborts, LogTypes, Pcs
<1>5. QED
  BY <1>1, <1>2, <1>3, <1>4, StepKinds

LEMMA RowsStep ==
    ASSUME LogTypes, RowsFollowOrders, [Next]_vars
    PROVE  RowsFollowOrders'
<1> USE DEF LogTypes
<1>0. /\ Len(fills) \in Nat /\ DOMAIN fills = 1..Len(fills)
      /\ Len(sent) \in Nat /\ DOMAIN sent = 1..Len(sent)
  BY LenProperties
<1> /\ \A r \in 1..Len(fills) : fills[r] \in Rows
    /\ \A i \in 1..Len(sent) : sent[i] \in Orders
  BY ElementOfSeq
<1>1. CASE StartCycle
  <2>1. /\ cycle' = cycle + 1 /\ fills' = fills /\ sent' = <<>> /\ pc' = "snapshot"
    BY <1>1 DEF StartCycle, store
  <2>2. Logged' = 0 /\ Start' = Len(fills)
    BY <1>0, <2>1 DEF Logged, Start
  <2>3. \A r \in DOMAIN fills : fills[r].cycle \in Nat
    BY <1>0 DEF Rows
  <2>4. QED
    BY <1>0, <2>1, <2>2, <2>3 DEF RowsFollowOrders
<1>2. CASE OrderSent
  <2>1. PICK e \in Orders : sent' = Append(sent, e)
    BY <1>2, OrderType
  <2>2. /\ Len(sent') = Len(sent) + 1
        /\ \A i \in 1..Len(sent) : sent'[i] = sent[i]
    BY <2>1, AppendProperties
  <2>3. Logged' = Logged /\ Start' = Start /\ Logged = Len(sent)
    BY <1>0, <1>2, <2>2 DEF Logged, Start, OrderSent
  <2>4. QED
    BY <1>0, <1>2, <2>2, <2>3 DEF OrderSent, RowsFollowOrders
<1>3. CASE LogFill
  <2> DEFINE s == sent[Len(sent)]
             row == [cycle |-> cycle, asset |-> s.asset, side |-> s.side]
  <2>1. /\ fills' = Append(fills, row) /\ sent' = sent /\ cycle' = cycle
        /\ pc = "log_fill" /\ pc' = "tools"
    BY <1>3 DEF LogFill, locals
  <2>2. row \in Rows
    <3>1. Len(sent) \in 1..Len(sent)
      BY <1>0, <2>1 DEF RowsFollowOrders
    <3>2. s \in Orders
      BY <3>1
    <3>3. s.asset \in Assets /\ s.side \in Sides \cup {"close"}
      BY <3>2 DEF Orders
    <3>4. QED
      BY <3>3 DEF Rows
  <2>3. /\ Len(fills') = Len(fills) + 1
        /\ \A r \in 1..Len(fills) : fills'[r] = fills[r]
        /\ fills'[Len(fills) + 1] = row
        /\ DOMAIN fills' = 1..(Len(fills) + 1)
    BY <2>1, <2>2, AppendProperties, LenProperties
  <2>4. Logged = Len(sent) - 1 /\ Logged' = Logged + 1 /\ Start' = Start
    BY <1>0, <2>1, <2>3 DEF Logged, Start
  <2>5. Start \in Nat /\ Start + Logged = Len(fills) /\ Logged \in Nat
    BY <1>0, <2>1, <2>4 DEF RowsFollowOrders, Start
  <2>6. \A i \in 1..Logged' :
           fills'[Start + i] = [cycle |-> cycle, asset |-> sent[i].asset,
                                side |-> sent[i].side]
    <3> SUFFICES ASSUME NEW i \in 1..Logged'
                 PROVE  fills'[Start + i] = [cycle |-> cycle, asset |-> sent[i].asset,
                                             side |-> sent[i].side]
      OBVIOUS
    <3>1. CASE i \in 1..Logged
      <4>1. fills[Start + i] = [cycle |-> cycle, asset |-> sent[i].asset,
                                side |-> sent[i].side]
        BY <2>1, <3>1 DEF RowsFollowOrders
      <4>2. Start + i \in 1..Len(fills)
        BY <1>0, <2>5, <3>1
      <4>3. QED
        BY <2>3, <4>1, <4>2
    <3>2. CASE i = Logged + 1
      BY <1>0, <2>1, <2>3, <2>4, <2>5, <3>2
    <3>3. QED
      BY <2>4, <2>5, <3>1, <3>2
  <2>7. \A r \in 1..Start : fills'[r].cycle # cycle
    BY <1>0, <2>1, <2>3, <2>5 DEF RowsFollowOrders
  <2>8. \A r \in DOMAIN fills' : fills'[r].cycle <= cycle
    BY <1>0, <2>1, <2>3 DEF RowsFollowOrders
  <2>9. QED
    BY <2>1, <2>4, <2>5, <2>6, <2>7, <2>8 DEF RowsFollowOrders
<1>4. CASE Quiet
  <2>1. UNCHANGED <<fills, sent, cycle>> /\ Logged' = Logged /\ Start' = Start
    BY <1>4 DEF Quiet, Logged, Start
  <2>2. QED
    BY <1>4, <2>1 DEF Quiet, RowsFollowOrders
<1>5. CASE StaysOrAborts
  <2>1. CASE pc' = pc
    <3>1. Logged' = Logged /\ Start' = Start
      BY <1>5, <2>1 DEF StaysOrAborts, Logged, Start
    <3>2. QED
      BY <1>5, <2>1, <3>1 DEF StaysOrAborts, RowsFollowOrders
  <2>2. CASE pc' = "idle"
    BY <1>5, <2>2 DEF StaysOrAborts, RowsFollowOrders
  <2>3. QED
    BY <1>5, <2>1, <2>2 DEF StaysOrAborts
<1>6. QED
  BY <1>1, <1>2, <1>3, <1>4, <1>5, StepKinds

-------------------------------------------------------------------------------
(* An order of the cycle that is in the table, and the first of its asset to  *)
(* go its way, makes opens_in_cycle_by_side report that side or an earlier    *)
(* order of the other side.                                                   *)
LEMMA FirstLegIsReported ==
    ASSUME LogTypes, RowsFollowOrders, pc = "tools",
           NEW i \in 1..Len(sent), sent[i].side \in Sides
    PROVE  \E k \in 1..i :
             /\ sent[k].asset = sent[i].asset /\ sent[k].side \in Sides
             /\ [asset |-> sent[i].asset, side |-> sent[k].side]
                  \in OpensInCycleBySide(cycle)
<1> DEFINE mine == {r \in OpeningRows(cycle) : fills[r].asset = sent[i].asset}
<1>0. /\ Len(fills) \in Nat /\ DOMAIN fills = 1..Len(fills)
      /\ Len(sent) \in Nat /\ Logged = Len(sent)
  BY LenProperties DEF LogTypes, Logged
<1>1. /\ Start \in Nat /\ Start + Len(sent) = Len(fills)
      /\ \A r \in 1..Start : fills[r].cycle # cycle
      /\ \A k \in 1..Len(sent) :
            fills[Start + k] = [cycle |-> cycle, asset |-> sent[k].asset,
                                side |-> sent[k].side]
  BY <1>0 DEF RowsFollowOrders, Start
<1>2. Start + i \in mine
  <2>1. Start + i \in 1..Len(fills)
    BY <1>0, <1>1
  <2>2. fills[Start + i] = [cycle |-> cycle, asset |-> sent[i].asset,
                            side |-> sent[i].side]
    BY <1>1
  <2>3. QED
    BY <1>0, <2>1, <2>2 DEF OpeningRows
<1>3. mine \in SUBSET Nat
  BY <1>0 DEF OpeningRows
<1> HIDE DEF mine
<1>4. PICK m \in mine : \A n \in mine : m <= n
  BY <1>2, <1>3, FirstRow
<1>5. /\ m \in 1..Len(fills) /\ m \in Nat /\ m <= Start + i
      /\ fills[m].cycle = cycle /\ fills[m].side \in Sides
      /\ fills[m].asset = sent[i].asset
  BY <1>0, <1>2, <1>4 DEF mine, OpeningRows
<1>6. PICK k \in 1..i : m = Start + k
  <2>1. m \notin 1..Start
    BY <1>1, <1>5
  <2>2. m - Start \in 1..i /\ m = Start + (m - Start)
    BY <1>0, <1>1, <1>5, <2>1
  <2>3. QED
    BY <2>2
<1>7. sent[k].asset = fills[m].asset /\ sent[k].side = fills[m].side
  <2>1. k \in 1..Len(sent)
    BY <1>0
  <2>2. fills[m] = [cycle |-> cycle, asset |-> sent[k].asset,
                    side |-> sent[k].side]
    BY <1>1, <1>6, <2>1
  <2>3. QED
    BY <2>2
<1>8. \A n \in OpeningRows(cycle) : fills[n].asset = fills[m].asset => m <= n
  BY <1>4, <1>5 DEF mine
<1>9. [asset |-> fills[m].asset, side |-> fills[m].side] \in OpensInCycleBySide(cycle)
  BY <1>4, <1>8 DEF OpensInCycleBySide, mine
<1>10. QED
  BY <1>5, <1>6, <1>7, <1>9

(* One more order never stacks on a first leg. *)
LEMMA StackStep ==
    ASSUME LogTypes, RowsFollowOrders, NoStackOnFirstLeg, OrderSent
    PROVE  NoStackOnFirstLeg'
<1>1. PICK e \in Orders :
        /\ sent' = Append(sent, e) /\ e.cycle = cycle
        /\ e.side \in Sides => ~CorrelationBlocks(e.asset, e.side, e.reduceOnly)
  BY OrderType
<1>2. /\ Len(sent) \in Nat /\ DOMAIN sent = 1..Len(sent)
      /\ DOMAIN sent' = 1..(Len(sent) + 1)
      /\ \A i \in 1..Len(sent) : sent'[i] = sent[i]
      /\ sent'[Len(sent) + 1] = e
  BY <1>1, AppendProperties, LenProperties DEF LogTypes
<1> SUFFICES ASSUME NEW i \in DOMAIN sent', NEW j \in DOMAIN sent', StacksOn(j, i)'
             PROVE  \E k \in 1..(i - 1) : /\ sent'[k].asset = sent'[i].asset
                                          /\ sent'[k].side \in Sides \ {sent'[i].side}
  BY DEF NoStackOnFirstLeg
<1>3. i < j /\ i \in 1..Len(sent) /\ j \in 1..(Len(sent) + 1)
  BY <1>2 DEF StacksOn
<1>4. \A k \in 1..(i - 1) : sent'[k] = sent[k]
  BY <1>2, <1>3
<1>5. CASE j \in 1..Len(sent)
  <2>1. StacksOn(j, i)
    BY <1>2, <1>3, <1>5 DEF StacksOn
  <2>2. QED
    BY <1>2, <1>3, <1>4, <1>5, <2>1 DEF NoStackOnFirstLeg
<1>6. CASE j = Len(sent) + 1
  <2>1. /\ sent[i].side \in Sides /\ e.side = sent[i].side
        /\ sent[i].asset # e.asset
        /\ sent[i].asset \in CorrelatedAssets /\ e.asset \in CorrelatedAssets
        /\ ~e.reduceOnly
    BY <1>2, <1>3, <1>6 DEF StacksOn
  <2>2. pc = "tools"
    BY DEF OrderSent
  <2>3. PICK k \in 1..i :
          /\ sent[k].asset = sent[i].asset /\ sent[k].side \in Sides
          /\ [asset |-> sent[i].asset, side |-> sent[k].side]
               \in OpensInCycleBySide(cycle)
    BY <1>3, <2>1, <2>2, FirstLegIsReported
  <2>4. sent[k].side # e.side
    BY <1>1, <2>1, <2>3 DEF CorrelationBlocks
  <2>5. k \in 1..(i - 1)
    BY <1>3, <2>1, <2>4
  <2>6. QED
    BY <1>2, <1>3, <1>4, <2>1, <2>3, <2>4, <2>5
<1>7. Len(sent) \in Nat
  BY <1>2
<1>8. QED
  BY <1>3, <1>5, <1>6, <1>7

(* The steps that matter to the kill switch: the one that fixes the starting *)
(* equity, the orders, and those that leave snapshot and orders alone.       *)
LEMMA SwitchKinds ==
    ASSUME [Next]_vars, pc' \in {"model", "tools", "log_fill", "decide"}
    PROVE  \/ pc = "config" /\ sent' = sent
           \/ OrderSent
           \/ /\ UNCHANGED <<account, starting, sent>>
              /\ pc \in {"model", "tools", "log_fill", "decide"}
  <1> USE DEF store, exchange, locals
  <1>1. CASE StartCycle \/ GetSnapshot \/ GetState \/ Configure
    BY <1>1 DEF StartCycle, GetSnapshot, GetState, Configure
  <1>2. CASE TextOnly \/ ToolUse \/ TurnsUsedUp
    BY <1>2 DEF TextOnly, ToolUse, TurnsUsedUp
  <1>3. ASSUME NEW c \in Calls, NothingSent(c.tool) \/ CancelAll(c)
        PROVE  UNCHANGED <<account, starting, sent>> /\ pc = "tools"
    BY <1>3 DEF NothingSent, CancelAll, Applied
  <1>4. ASSUME NEW c \in Calls, MarketOrder(c) \/ LimitOrder(c) \/ ClosePosition(c)
        PROVE  NothingSent(c.tool) \/ OrderSent
    BY <1>4 DEF MarketOrder, LimitOrder, ClosePosition, Sent, Applied, OrderSent
  <1>5. CASE ToolCall
    BY <1>3, <1>4, <1>5 DEF ToolCall, Hold, UnknownTool
  <1>6. CASE EndTurn \/ LogFill \/ LogDecision \/ LogTokenUsage \/ Abort
    BY <1>6 DEF EndTurn, LogFill, LogDecision, LogTokenUsage, Abort
  <1>7. CASE Environment
    BY <1>7 DEF Environment, TogglePause, RollDay, MoveMark, CloseElsewhere, RestingOrder
  <1>8. CASE UNCHANGED vars
    BY <1>8 DEF vars
  <1>9. QED
    BY <1>1, <1>2, <1>5, <1>6, <1>7, <1>8 DEF Next, CycleStep

LEMMA KillSwitchStep ==
    ASSUME LogTypes, RowsFollowOrders, KillSwitchAllowsCloses, [Next]_vars
    PROVE  KillSwitchAllowsCloses'
<1> SUFFICES ASSUME pc' \in {"model", "tools", "log_fill", "decide"},
                    KillSwitchActive(account', starting', Risk),
                    NEW i \in DOMAIN sent'
             PROVE  sent'[i].side = "close"
  BY DEF KillSwitchAllowsCloses, KillSwitchActive
<1>1. CASE pc = "config" /\ sent' = sent
  BY <1>1, DOMAIN <<>> = {} DEF RowsFollowOrders
<1>2. CASE OrderSent
  <2>1. PICK e \in Orders :
          /\ sent' = Append(sent, e)
          /\ e.side \in Sides => ~KillSwitchActive(account, starting, Risk)
    BY <1>2, OrderType
  <2>2. KillSwitchActive(account, starting, Risk) /\ pc = "tools"
    BY <1>2 DEF OrderSent
  <2>3. e.side = "close"
    BY <2>1, <2>2 DEF Orders
  <2>4. /\ Len(sent) \in Nat /\ DOMAIN sent = 1..Len(sent)
        /\ DOMAIN sent' = 1..(Len(sent) + 1)
        /\ \A n \in 1..Len(sent) : sent'[n] = sent[n]
        /\ sent'[Len(sent) + 1] = e
    BY <2>1, AppendProperties, LenProperties DEF LogTypes
  <2>5. \A n \in 1..Len(sent) : sent[n].side = "close"
    BY <2>2, <2>4 DEF KillSwitchAllowsCloses
  <2>6. QED
    BY <2>3, <2>4, <2>5
<1>3. CASE /\ UNCHANGED <<account, starting, sent>>
           /\ pc \in {"model", "tools", "log_fill", "decide"}
  BY <1>3 DEF KillSwitchAllowsCloses
<1>4. QED
  BY <1>1, <1>2, <1>3, SwitchKinds

LEMMA InitHolds == Init => IInv
<1> SUFFICES ASSUME Init PROVE IInv
  OBVIOUS
<1>1. /\ fills = <<>> /\ sent = <<>> /\ cycle = 0 /\ pc = "idle"
  BY DEF Init
<1>2. LogTypes
  BY <1>1, EmptySeq DEF LogTypes, Pcs
<1>3. QED
  BY <1>1, <1>2 DEF IInv, RowsFollowOrders, NoStackOnFirstLeg, KillSwitchAllowsCloses

LEMMA StepHolds == IInv /\ [Next]_vars => IInv'
<1> SUFFICES ASSUME IInv, [Next]_vars PROVE IInv'
  OBVIOUS
<1> USE DEF IInv
<1>1. LogTypes' /\ RowsFollowOrders'
  BY TypesStep, RowsStep
<1>2. NoStackOnFirstLeg'
  <2>1. CASE StartCycle
    <3>1. sent' = <<>> /\ DOMAIN sent' = {}
      BY <2>1 DEF StartCycle
    <3>2. QED
      BY <3>1 DEF NoStackOnFirstLeg
  <2>2. CASE OrderSent
    BY <2>2, StackStep
  <2>3. ASSUME UNCHANGED sent PROVE NoStackOnFirstLeg'
    BY <2>3 DEF NoStackOnFirstLeg, StacksOn
  <2>4. QED
    BY <2>1, <2>2, <2>3, StepKinds
    DEF LogFill, Quiet, StaysOrAborts, locals
<1>3. KillSwitchAllowsCloses'
  BY KillSwitchStep
<1>4. QED
  BY <1>1, <1>2, <1>3

(* No cycle opens two correlated assets in the same direction, except behind *)
(* an asset whose first order of the cycle went the other way.               *)
THEOREM NoStack == Spec => []NoStackOnFirstLeg
<1>1. Spec => []IInv
  BY InitHolds, StepHolds, PTL DEF Spec
<1>2. IInv => NoStackOnFirstLeg
  BY DEF IInv
<1>3. QED
  BY <1>1, <1>2, PTL

(* With the kill switch active in its snapshot a cycle sends closes only,     *)
(* whatever the model asks for, the equity does or the day rolls to meanwhile. *)
THEOREM KillSwitch == Spec => []KillSwitchAllowsCloses
<1>1. Spec => []IInv
  BY InitHolds, StepHolds, PTL DEF Spec
<1>2. IInv => KillSwitchAllowsCloses
  BY DEF IInv
<1>3. QED
  BY <1>1, <1>2, PTL

(* Only an order that this cycle has sent can make the correlation block      *)
(* reject one: rows of aborted, earlier or other cycles never do.             *)
THEOREM SameCycleBlocks == Spec => []OnlySameCycleBlocks
<1>1. Spec => []IInv
  BY InitHolds, StepHolds, PTL DEF Spec
<1>2. IInv => OnlySameCycleBlocks
  <2> SUFFICES ASSUME LogTypes, RowsFollowOrders,
                      NEW a \in Assets, NEW side \in Sides,
                      pc # "idle", CorrelationBlocks(a, side, FALSE)
               PROVE  \E i \in DOMAIN sent : sent[i].asset # a /\ sent[i].side = side
    BY DEF IInv, OnlySameCycleBlocks
  <2>1. PICK r \in OpeningRows(cycle) : fills[r].asset # a /\ fills[r].side = side
    BY DEF CorrelationBlocks, OpensInCycleBySide
  <2>2. /\ Len(fills) \in Nat /\ DOMAIN fills = 1..Len(fills)
        /\ Len(sent) \in Nat /\ DOMAIN sent = 1..Len(sent)
    BY LenProperties DEF LogTypes
  <2>3. r \in 1..Len(fills) /\ fills[r].cycle = cycle
    BY <2>1, <2>2 DEF OpeningRows
  <2>4. /\ Start \in Nat /\ Start + Logged = Len(fills) /\ Logged \in 0..Len(sent)
        /\ r \notin 1..Start
    BY <2>2, <2>3 DEF RowsFollowOrders, Start, Logged
  <2>5. r - Start \in 1..Logged /\ r = Start + (r - Start)
    BY <2>3, <2>4
  <2>6. fills[r] = [cycle |-> cycle, asset |-> sent[r - Start].asset,
                    side |-> sent[r - Start].side]
    BY <2>5 DEF RowsFollowOrders
  <2>7. r - Start \in DOMAIN sent
    BY <2>2, <2>4, <2>5
  <2>8. QED
    BY <2>1, <2>6, <2>7
<1>3. QED
  BY <1>1, <1>2, PTL


-------------------------------------------------------------------------------
(*****************************************************************************)
(* Sums over a finite set do not depend on the order the fold takes it in:   *)
(* the equity and the exposure the gate computes are integers, and an order  *)
(* more adds its notional.                                                   *)
(*****************************************************************************)
PickOf(s) == CHOOSE x \in s : TRUE

SumsOver(f, D, g) ==
    /\ DOMAIN g = D
    /\ \A s \in D : g[s] = IF s = {} THEN 0 ELSE f[PickOf(s)] + g[s \ {PickOf(s)}]

SmallSubsets(S, n) == {s \in SUBSET S : Cardinality(s) <= n}

LEMMA SubsetFacts ==
    ASSUME NEW S, IsFiniteSet(S)
    PROVE  \A s \in SUBSET S :
             /\ IsFiniteSet(s) /\ Cardinality(s) \in Nat /\ Cardinality(s) <= Cardinality(S)
             /\ Cardinality(s) = 0 <=> s = {}
             /\ s # {} => /\ PickOf(s) \in s
                          /\ s \ {PickOf(s)} \in SUBSET S
                          /\ Cardinality(s \ {PickOf(s)}) = Cardinality(s) - 1
<1> TAKE s \in SUBSET S
<1>1. IsFiniteSet(s) /\ Cardinality(s) \in Nat /\ Cardinality(s) <= Cardinality(S)
  BY FS_Subset, FS_CardinalityType
<1>2. Cardinality(s) = 0 <=> s = {}
  BY <1>1, FS_EmptySet
<1>3. s # {} => PickOf(s) \in s
  BY DEF PickOf
<1>4. s # {} => Cardinality(s \ {PickOf(s)}) = Cardinality(s) - 1
  BY <1>1, <1>3, FS_RemoveElement
<1>5. QED
  BY <1>1, <1>2, <1>3, <1>4

LEMMA SumsExist ==
    ASSUME NEW S, IsFiniteSet(S), NEW f
    PROVE  \E g : SumsOver(f, SUBSET S, g)
<1> DEFINE Missing == {n \in Nat : ~\E g : SumsOver(f, SmallSubsets(S, n), g)}
<1>1. 0 \notin Missing
  <2> DEFINE g == [s \in SmallSubsets(S, 0) |-> 0]
  <2>1. \A s \in SmallSubsets(S, 0) : s = {}
    <3> SUFFICES ASSUME NEW s \in SUBSET S, Cardinality(s) <= 0 PROVE s = {}
      BY DEF SmallSubsets
    <3>1. Cardinality(s) \in Nat
      BY SubsetFacts
    <3>2. Cardinality(s) = 0
      BY <3>1
    <3>3. QED
      BY <3>2, SubsetFacts
  <2>2. SumsOver(f, SmallSubsets(S, 0), g)
    BY <2>1 DEF SumsOver
  <2>3. QED
    BY <2>2
<1>2. \A n \in Nat : n \notin Missing => n + 1 \notin Missing
  <2> SUFFICES ASSUME NEW n \in Nat, NEW g, SumsOver(f, SmallSubsets(S, n), g)
               PROVE  \E h : SumsOver(f, SmallSubsets(S, n + 1), h)
    OBVIOUS
  <2> DEFINE h == [s \in SmallSubsets(S, n + 1) |->
                     IF s = {} THEN 0 ELSE f[PickOf(s)] + g[s \ {PickOf(s)}]]
  <2>1. \A s \in SmallSubsets(S, n) : s \in SmallSubsets(S, n + 1) /\ h[s] = g[s]
    BY SubsetFacts DEF SmallSubsets, SumsOver
  <2>2. \A s \in SmallSubsets(S, n + 1) :
          s # {} => s \ {PickOf(s)} \in SmallSubsets(S, n)
    BY SubsetFacts DEF SmallSubsets
  <2>3. SumsOver(f, SmallSubsets(S, n + 1), h)
    BY <2>1, <2>2 DEF SumsOver
  <2>4. QED
    BY <2>3
<1>3. Missing = {}
  <2> SUFFICES ASSUME Missing # {} PROVE FALSE
    OBVIOUS
  <2>1. PICK m \in Missing : \A n \in Missing : m <= n
    BY FirstRow
  <2>2. m \in Nat /\ m # 0 /\ m - 1 \in Nat /\ m - 1 \notin Missing
    BY <1>1, <2>1
  <2>3. QED
    BY <1>2, <2>1, <2>2
<1>4. Cardinality(S) \in Nat /\ SmallSubsets(S, Cardinality(S)) = SUBSET S
  BY SubsetFacts, FS_CardinalityType DEF SmallSubsets
<1>5. QED
  BY <1>3, <1>4

LEMMA SumsAgree ==
    ASSUME NEW S, IsFiniteSet(S), NEW f, NEW g, SumsOver(f, SUBSET S, g),
           NEW T, T \subseteq S, NEW h, SumsOver(f, SUBSET T, h)
    PROVE  \A s \in SUBSET T : g[s] = h[s]
<1> DEFINE Sizes == {n \in Nat : \E s \in SUBSET T : Cardinality(s) = n /\ g[s] # h[s]}
<1>1. Sizes = {}
  <2> SUFFICES ASSUME Sizes # {} PROVE FALSE
    OBVIOUS
  <2>1. PICK m \in Sizes : \A n \in Sizes : m <= n
    BY FirstRow
  <2>2. PICK s \in SUBSET T : Cardinality(s) = m /\ g[s] # h[s]
    BY <2>1
  <2>3. s # {} /\ s \in SUBSET S
    BY <2>2 DEF SumsOver
  <2>4. IsFiniteSet(T)
    BY FS_Subset
  <2>5. /\ s \ {PickOf(s)} \in SUBSET T /\ Cardinality(s \ {PickOf(s)}) = m - 1
        /\ m \in Nat /\ Cardinality(s \ {PickOf(s)}) \in Nat
    BY <2>1, <2>2, <2>3, <2>4, SubsetFacts
  <2>6. g[s \ {PickOf(s)}] = h[s \ {PickOf(s)}]
    BY <2>1, <2>5
  <2>7. QED
    BY <2>2, <2>3, <2>6 DEF SumsOver
<1>2. \A s \in SUBSET T : Cardinality(s) \in Nat
  BY SubsetFacts
<1>3. QED
  BY <1>1, <1>2

LEMMA SumIsOver ==
    ASSUME NEW S, IsFiniteSet(S), NEW f
    PROVE  \E g : SumsOver(f, SUBSET S, g) /\ SumFunctionOnSet(f, S) = g[S]
<1> DEFINE G == CHOOSE g : g = [s \in SUBSET S |->
                  IF s = {} THEN 0
                  ELSE f[CHOOSE x \in s : TRUE] + g[s \ {CHOOSE x \in s : TRUE}]]
<1>1. SumFunctionOnSet(f, S) = G[S]
  BY DEF SumFunctionOnSet, FoldFunctionOnSet, MapThenFoldSet
<1>2. PICK g : SumsOver(f, SUBSET S, g)
  BY SumsExist
<1>3. g[{}] = 0 /\ DOMAIN g = SUBSET S
  BY <1>2 DEF SumsOver
<1> DEFINE g2 == [s \in SUBSET S |-> g[s]]
<1>4. g2 = [s \in SUBSET S |->
                  IF s = {} THEN 0
                  ELSE f[CHOOSE x \in s : TRUE] + g2[s \ {CHOOSE x \in s : TRUE}]]
  BY <1>2 DEF SumsOver, PickOf
<1>5. G = [s \in SUBSET S |->
                  IF s = {} THEN 0
                  ELSE f[CHOOSE x \in s : TRUE] + G[s \ {CHOOSE x \in s : TRUE}]]
  BY <1>4
<1> HIDE DEF G
<1>6. SumsOver(f, SUBSET S, G)
  BY <1>5 DEF SumsOver, PickOf
<1>7. QED
  BY <1>1, <1>6

(* The sum over no index, and over one more. *)
LEMMA SumPick ==
    ASSUME NEW T, IsFiniteSet(T), NEW f
    PROVE  /\ SumFunctionOnSet(f, {}) = 0
           /\ T # {} => /\ PickOf(T) \in T
                        /\ SumFunctionOnSet(f, T)
                             = f[PickOf(T)] + SumFunctionOnSet(f, T \ {PickOf(T)})
<1>1. SumFunctionOnSet(f, {}) = 0
  <2>1. PICK g : SumsOver(f, SUBSET {}, g) /\ SumFunctionOnSet(f, {}) = g[{}]
    BY SumIsOver, FS_EmptySet
  <2>2. QED
    BY <2>1 DEF SumsOver
<1>2. ASSUME T # {}
      PROVE  SumFunctionOnSet(f, T) = f[PickOf(T)] + SumFunctionOnSet(f, T \ {PickOf(T)})
  <2> DEFINE U == T \ {PickOf(T)}
  <2>1. U \subseteq T /\ IsFiniteSet(U)
    BY FS_Subset
  <2> HIDE DEF U
  <2>2. PICK g : SumsOver(f, SUBSET T, g) /\ SumFunctionOnSet(f, T) = g[T]
    BY SumIsOver
  <2>3. PICK h : SumsOver(f, SUBSET U, h) /\ SumFunctionOnSet(f, U) = h[U]
    BY <2>1, SumIsOver
  <2>4. g[U] = h[U]
    <3>1. SumsOver(f, SUBSET T, g) /\ SumsOver(f, SUBSET U, h) /\ U \subseteq T
      BY <2>1, <2>2, <2>3
    <3>2. \A s \in SUBSET U : g[s] = h[s]
      BY <3>1, SumsAgree, SMTT(60)
    <3>3. QED
      BY <3>2
  <2>5. g[T] = f[PickOf(T)] + g[T \ {PickOf(T)}]
    BY <1>2, <2>2 DEF SumsOver
  <2>6. QED
    BY <2>2, <2>3, <2>4, <2>5 DEF U
<1>3. T # {} => PickOf(T) \in T
  BY DEF PickOf
<1>4. QED
  BY <1>1, <1>2, <1>3

(* Of a set of finite sets that is not empty, one is smallest. *)
LEMMA SmallestSet ==
    ASSUME NEW W, W # {}, \A s \in W : IsFiniteSet(s)
    PROVE  \E s \in W : \A t \in W : Cardinality(s) <= Cardinality(t)
<1> DEFINE Sizes == {Cardinality(s) : s \in W}
<1>1. Sizes \in SUBSET Nat /\ Sizes # {}
  BY FS_CardinalityType
<1>2. PICK m \in Sizes : \A n \in Sizes : m <= n
  BY <1>1, FirstRow
<1>3. QED
  BY <1>2

LEMMA SumType ==
    ASSUME NEW S, IsFiniteSet(S), NEW f, \A x \in S : f[x] \in Int
    PROVE  SumFunctionOnSet(f, S) \in Int
<1> DEFINE W == {s \in SUBSET S : SumFunctionOnSet(f, s) \notin Int}
<1> SUFFICES ASSUME W # {} PROVE FALSE
  OBVIOUS
<1>1. \A s \in W : IsFiniteSet(s)
  BY FS_Subset
<1>2. PICK s \in W : \A t \in W : Cardinality(s) <= Cardinality(t)
  BY <1>1, SmallestSet
<1>3. s # {}
  <2>1. SumFunctionOnSet(f, {}) = 0
    BY FS_EmptySet, SumPick
  <2>2. QED
    BY <2>1
<1>4. /\ PickOf(s) \in s /\ s \ {PickOf(s)} \in SUBSET S
      /\ Cardinality(s \ {PickOf(s)}) = Cardinality(s) - 1 /\ Cardinality(s) \in Nat
  BY <1>3, SubsetFacts
<1>5. s \ {PickOf(s)} \notin W
  BY <1>2, <1>4
<1>6. f[PickOf(s)] \in Int /\ SumFunctionOnSet(f, s \ {PickOf(s)}) \in Int
  BY <1>4, <1>5
<1>7. SumFunctionOnSet(f, s)
        = f[PickOf(s)] + SumFunctionOnSet(f, s \ {PickOf(s)})
  BY <1>1, <1>3, SumPick
<1>8. SumFunctionOnSet(f, s) \in Int
  BY <1>6, <1>7
<1>9. QED
  BY <1>8

(* Sums of functions that agree on the indices. *)
LEMMA SumSame ==
    ASSUME NEW S, IsFiniteSet(S), NEW f, NEW g, \A x \in S : f[x] = g[x]
    PROVE  SumFunctionOnSet(f, S) = SumFunctionOnSet(g, S)
<1> DEFINE W == {s \in SUBSET S : SumFunctionOnSet(f, s) # SumFunctionOnSet(g, s)}
<1> SUFFICES ASSUME W # {} PROVE FALSE
  OBVIOUS
<1>1. \A s \in W : IsFiniteSet(s)
  BY FS_Subset
<1>2. PICK s \in W : \A t \in W : Cardinality(s) <= Cardinality(t)
  BY <1>1, SmallestSet
<1>3. s # {}
  <2>1. SumFunctionOnSet(f, {}) = 0 /\ SumFunctionOnSet(g, {}) = 0
    BY FS_EmptySet, SumPick
  <2>2. QED
    BY <2>1
<1>4. /\ PickOf(s) \in s /\ s \ {PickOf(s)} \in SUBSET S
      /\ Cardinality(s \ {PickOf(s)}) = Cardinality(s) - 1 /\ Cardinality(s) \in Nat
  BY <1>3, SubsetFacts
<1>5. s \ {PickOf(s)} \notin W
  BY <1>2, <1>4
<1>6. /\ SumFunctionOnSet(f, s) = f[PickOf(s)] + SumFunctionOnSet(f, s \ {PickOf(s)})
      /\ SumFunctionOnSet(g, s) = g[PickOf(s)] + SumFunctionOnSet(g, s \ {PickOf(s)})
  BY <1>1, <1>3, SumPick
<1>7. QED
  BY <1>4, <1>5, <1>6

(* One index more adds its value, whichever index the fold takes first. *)
LEMMA SumAdd ==
    ASSUME NEW S, IsFiniteSet(S), NEW f, \A x \in S : f[x] \in Int
    PROVE  \A x \in S : SumFunctionOnSet(f, S) = f[x] + SumFunctionOnSet(f, S \ {x})
<1> DEFINE Sum(s) == SumFunctionOnSet(f, s)
           W == {s \in SUBSET S : \E x \in s : Sum(s) # f[x] + Sum(s \ {x})}
<1> SUFFICES ASSUME W # {} PROVE FALSE
  OBVIOUS
<1>1. \A s \in SUBSET S : IsFiniteSet(s)
  BY FS_Subset
<1>2. PICK s \in W : \A t \in W : Cardinality(s) <= Cardinality(t)
  BY <1>1, SmallestSet
<1>3. PICK x \in s : Sum(s) # f[x] + Sum(s \ {x})
  BY <1>2
<1> DEFINE p == PickOf(s)
<1>4. p \in s /\ Sum(s) = f[p] + Sum(s \ {p})
  BY <1>1, <1>3, SumPick
<1>5. p # x
  BY <1>3, <1>4
<1>6. /\ s \ {p} \in SUBSET S /\ s \ {x} \in SUBSET S
      /\ Cardinality(s \ {p}) < Cardinality(s) /\ Cardinality(s \ {x}) < Cardinality(s)
  <2>1. IsFiniteSet(s) /\ Cardinality(s) \in Nat
    BY <1>1, FS_CardinalityType
  <2>2. Cardinality(s \ {p}) = Cardinality(s) - 1 /\ Cardinality(s \ {x}) = Cardinality(s) - 1
    BY <1>3, <1>4, <2>1, FS_RemoveElement
  <2>3. QED
    BY <2>1, <2>2
<1>7. \A t \in SUBSET S : Cardinality(t) \in Nat
  BY <1>1, FS_CardinalityType
<1> HIDE DEF p
<1>8. s \ {p} \notin W /\ s \ {x} \notin W
  BY <1>2, <1>6, <1>7
<1>9. /\ Sum(s \ {p}) = f[x] + Sum((s \ {p}) \ {x})
      /\ Sum(s \ {x}) = f[p] + Sum((s \ {x}) \ {p})
  BY <1>3, <1>4, <1>5, <1>6, <1>8
<1>10. (s \ {p}) \ {x} = (s \ {x}) \ {p} /\ (s \ {p}) \ {x} \in SUBSET S
  OBVIOUS
<1>11. f[x] \in Int /\ f[p] \in Int /\ Sum((s \ {p}) \ {x}) \in Int
  BY <1>1, <1>3, <1>4, <1>10, SumType
<1>12. \A a, b, q \in Int : a + (b + q) = b + (a + q)
  OBVIOUS
<1>13. f[p] + (f[x] + Sum((s \ {p}) \ {x})) = f[x] + (f[p] + Sum((s \ {p}) \ {x}))
  BY <1>11, <1>12
<1> HIDE DEF Sum
<1>14. QED
  BY <1>3, <1>4, <1>9, <1>10, <1>13, Zenon


-------------------------------------------------------------------------------
(*****************************************************************************)
(* The market, the account and the snapshot of it stay typed, whatever the   *)
(* venue fills.                                                              *)
(*****************************************************************************)
PosType == [size : Int, basis : Int]

(* What n lots at px do to a position. *)
LEMMA TradeType ==
    ASSUME NEW p \in PosType, NEW n \in Int, NEW px \in Int
    PROVE  /\ Trade(p, n, px) \in PosType /\ Trade(p, n, px).size = p.size + n
           /\ RealizedPnl(p, n, px) \in Int
<1> DEFINE size == p.size + n
<1>1. p.size \in Int /\ p.basis \in Int /\ size \in Int
  BY DEF PosType
<1>2. Trade(p, n, px) \in PosType /\ Trade(p, n, px).size = size
  <2>1. CASE SameDirection(p.size, n)
    BY <1>1, <2>1 DEF Trade, PosType
  <2>2. CASE ~SameDirection(p.size, n) /\ SameDirection(p.size, size)
    <3> DEFINE m == p.basis * Magnitude(size)
               k == Magnitude(p.size)
    <3>1. m \in Int /\ k \in Nat \ {0}
      BY <1>1, <2>2 DEF SameDirection, Magnitude
    <3>2. Trade(p, n, px) = [size |-> size, basis |-> m \div k]
      BY <2>2 DEF Trade
    <3> HIDE DEF m, k, size
    <3>3. m \div k \in Int
      BY <3>1
    <3>4. QED
      BY <1>1, <3>2, <3>3 DEF PosType
  <2>3. CASE ~SameDirection(p.size, n) /\ ~SameDirection(p.size, size)
    BY <1>1, <2>3 DEF Trade, PosType
  <2>4. QED
    BY <2>1, <2>2, <2>3
<1>3. \A q \in PosType : UnrealizedPnl(q, px) \in Int
  BY DEF UnrealizedPnl, PosType
<1>4. QED
  BY <1>2, <1>3 DEF RealizedPnl

(* What the venue may fill of an order, and of a reduce-only one. *)
LEMMA FillsType ==
    ASSUME NEW p \in PosType, NEW d \in Int, NEW reduceOnly, NEW n \in Fills(p, d, reduceOnly)
    PROVE  /\ n \in Int
           /\ reduceOnly = TRUE => /\ SameDirection(p.size, p.size + n)
                                   /\ Abs(p.size + n) <= Abs(p.size)
<1>1. p.size \in Int
  BY DEF PosType
<1> DEFINE room == IF ~reduceOnly THEN Magnitude(d)
                   ELSE IF SameDirection(p.size, d) THEN 0
                   ELSE IF Magnitude(d) < Magnitude(p.size) THEN Magnitude(d)
                   ELSE Magnitude(p.size)
           sign == IF d < 0 THEN -1 ELSE 1
<1>2. PICK k \in 0..room : n = sign * k
  BY DEF Fills
<1>3. room \in Nat /\ sign \in {-1, 1}
  BY <1>1 DEF Magnitude
<1>4. n \in Int
  BY <1>2, <1>3
<1>5. ASSUME reduceOnly = TRUE
      PROVE  SameDirection(p.size, p.size + n) /\ Abs(p.size + n) <= Abs(p.size)
  <2>1. CASE SameDirection(p.size, d)
    <3>1. n = 0
      BY <1>2, <1>3, <1>5, <2>1
    <3>2. QED
      BY <1>1, <3>1 DEF SameDirection, Abs
  <2>2. CASE ~SameDirection(p.size, d)
    <3>1. room <= Magnitude(p.size)
      BY <1>1, <1>5, <2>2 DEF Magnitude
    <3>2. CASE d < 0
      <4>1. p.size > 0 /\ n = -k /\ k \in Int /\ k >= 0 /\ k <= p.size
        BY <1>1, <1>2, <1>3, <2>2, <3>1, <3>2 DEF SameDirection, Magnitude
      <4> HIDE DEF room, sign
      <4>2. QED
        BY <1>1, <4>1 DEF SameDirection, Abs
    <3>3. CASE ~(d < 0)
      <4>1. p.size < 0 /\ n = k /\ k \in Int /\ k >= 0 /\ k <= -p.size
        BY <1>1, <1>2, <1>3, <2>2, <3>1, <3>3 DEF SameDirection, Magnitude
      <4> HIDE DEF room, sign
      <4>2. QED
        BY <1>1, <4>1 DEF SameDirection, Abs
    <3>4. QED
      BY <3>2, <3>3
  <2>3. QED
    BY <2>1, <2>2
<1>6. QED
  BY <1>4, <1>5

(* Sizes in lots are integers. *)
LEMMA SizeType ==
    ASSUME NEW usd \in Int, NEW px \in Nat \ {0}
    PROVE  CoinSizeFromUsd(usd, px) \in Int
<1>1. usd \div px \in Int
  OBVIOUS
<1>2. QED
  BY <1>1 DEF CoinSizeFromUsd

OrderShape(o) == o.asset \in Assets /\ o.lots \in Int \ {0} /\ o.px \in Int

MarketTypes ==
    /\ dayStart \in Int \cup {None}
    /\ mark \in [Assets -> Marks] /\ mids \in [Assets -> Marks]
    /\ pos \in [Assets -> PosType]
    /\ cash \in Int /\ starting \in Int /\ account.equity \in Int
    /\ account.positions \in [Assets -> [size : Int, basis : Int, value : Int]]
    /\ \A a \in Assets :
          account.positions[a].size = 0 => account.positions[a].value = 0
    /\ \A o \in resting : OrderShape(o)
    /\ \A o \in account.orders : OrderShape(o)

LEMMA MarketAt ==
    ASSUME MarketTypes, NEW a \in Assets
    PROVE  /\ pos[a].size \in Int /\ pos[a].basis \in Int
           /\ mark[a] \in Nat \ {0} /\ mids[a] \in Nat \ {0}
<1>1. pos[a] \in PosType /\ mark[a] \in Marks /\ mids[a] \in Marks
  BY DEF MarketTypes
<1>2. QED
  BY <1>1, MarketAssumption DEF PosType

LEMMA EquityType == MarketTypes => Equity \in Int
<1> SUFFICES ASSUME MarketTypes PROVE Equity \in Int
  OBVIOUS
<1> DEFINE f == [a \in Assets |-> UnrealizedPnl(pos[a], mark[a])]
<1>1. \A a \in Assets : f[a] \in Int
  <2> TAKE a \in Assets
  <2>1. pos[a].size \in Int /\ pos[a].basis \in Int /\ mark[a] \in Int
    BY MarketAt
  <2>2. QED
    BY <2>1 DEF UnrealizedPnl
<1>2. SumFunctionOnSet(f, Assets) \in Int
  BY <1>1, MarketAssumption, SumType
<1>3. DOMAIN f = Assets
  OBVIOUS
<1>4. SumFunction(f) \in Int
  BY <1>2, <1>3 DEF SumFunction
<1>5. QED
  BY <1>4 DEF Equity, MarketTypes

LEMMA ViewType ==
    ASSUME MarketTypes
    PROVE  /\ AccountView.equity \in Int
           /\ AccountView.positions \in [Assets -> [size : Int, basis : Int, value : Int]]
           /\ \A a \in Assets : AccountView.positions[a].size = 0
                                  => AccountView.positions[a].value = 0
           /\ AccountView.orders = resting
<1>1. AccountView.equity \in Int /\ AccountView.orders = resting
  BY EquityType DEF AccountView
<1>2. AccountView.positions = [a \in Assets |-> PositionView(a)]
  BY DEF AccountView
<1>3. ASSUME NEW a \in Assets
      PROVE  /\ PositionView(a) \in [size : Int, basis : Int, value : Int]
             /\ PositionView(a).size = 0 => PositionView(a).value = 0
  <2>1. pos[a].size \in Int /\ pos[a].basis \in Int /\ mark[a] \in Int
    BY MarketAt
  <2>2. Abs(pos[a].size) \in Int /\ (pos[a].size = 0 => Abs(pos[a].size) = 0)
    BY <2>1 DEF Abs
  <2>3. Abs(pos[a].size) * mark[a] \in Int
        /\ (pos[a].size = 0 => Abs(pos[a].size) * mark[a] = 0)
    BY <2>1, <2>2
  <2>4. QED
    BY <2>1, <2>3 DEF PositionView
<1>4. QED
  BY <1>1, <1>2, <1>3

(* A trade of the venue keeps positions and cash typed. *)
LEMMA ExecuteType ==
    ASSUME MarketTypes, NEW a \in Assets, NEW d \in Int, NEW reduceOnly,
           NEW px \in Int, NEW n \in Fills(pos[a], d, reduceOnly),
           pos' = [pos EXCEPT ![a] = Trade(@, n, px)],
           cash' = cash + RealizedPnl(pos[a], n, px)
    PROVE  pos' \in [Assets -> PosType] /\ cash' \in Int
<1>1. pos[a] \in PosType /\ pos \in [Assets -> PosType] /\ cash \in Int
  BY DEF MarketTypes
<1>2. n \in Int
  BY <1>1, FillsType
<1>3. Trade(pos[a], n, px) \in PosType /\ RealizedPnl(pos[a], n, px) \in Int
  BY <1>1, <1>2, TradeType
<1>4. QED
  BY <1>1, <1>3

(* The orders a cycle sends. *)
LEMMA OrderMarket ==
    ASSUME MarketTypes, NEW c \in Calls,
           MarketOrder(c) \/ LimitOrder(c) \/ ClosePosition(c)
    PROVE  /\ UNCHANGED <<dayStart, mark, mids, starting, account>>
           /\ pos' \in [Assets -> PosType] /\ cash' \in Int
           /\ \A o \in resting' : OrderShape(o)
<1> USE DEF store, exchange, locals
<1>0. c.asset \in Assets /\ c.usd \in Int /\ c.px \in Int
  BY CallsAssumption
<1>1. CASE NothingSent(c.tool)
  BY <1>1 DEF NothingSent, Applied, MarketTypes
<1>2. CASE MarketOrder(c) /\ ~NothingSent(c.tool)
  <2> DEFINE lots == CoinSizeFromUsd(c.usd, mids[c.asset])
  <2>1. lots \in Int /\ Signed(c.side, lots) \in Int /\ mark[c.asset] \in Int
    BY <1>0, MarketAt, SizeType DEF Signed
  <2>2. /\ Sent(c, c.side) /\ UNCHANGED resting
        /\ Execute(c.asset, Signed(c.side, lots), FALSE, mark[c.asset])
    BY <1>2 DEF MarketOrder
  <2> HIDE DEF lots
  <2>3. PICK n \in Fills(pos[c.asset], Signed(c.side, lots), FALSE) :
          /\ pos' = [pos EXCEPT ![c.asset] = Trade(@, n, mark[c.asset])]
          /\ cash' = cash + RealizedPnl(pos[c.asset], n, mark[c.asset])
    BY <2>2 DEF Execute
  <2>4. pos' \in [Assets -> PosType] /\ cash' \in Int
    BY <1>0, <2>1, <2>3, ExecuteType
  <2>5. QED
    BY <2>2, <2>4 DEF Sent, Applied, MarketTypes
<1>3. CASE LimitOrder(c) /\ ~NothingSent(c.tool)
  <2> DEFINE d == Signed(c.side, CoinSizeFromUsd(c.usd, c.px))
  <2>1. d \in Int
    BY <1>0, <1>3, CallsAssumption, SizeType DEF Signed, LimitOrder
  <2>2. Sent(c, c.side) /\ OrderAtLimit(c, d, c.reduceOnly)
    BY <1>3 DEF LimitOrder, SendLimit
  <2> HIDE DEF d
  <2>3. PICK n \in Fills(pos[c.asset], d, c.reduceOnly) :
          /\ pos' = [pos EXCEPT ![c.asset] = Trade(@, n, c.px)]
          /\ cash' = cash + RealizedPnl(pos[c.asset], n, c.px)
          /\ \/ resting' = resting
             \/ /\ n # d
                /\ resting' = resting \cup
                     {[oid |-> FreshOid, asset |-> c.asset, lots |-> d - n,
                       px |-> c.px, reduceOnly |-> c.reduceOnly]}
    BY <2>2 DEF OrderAtLimit
  <2>4. pos' \in [Assets -> PosType] /\ cash' \in Int
    BY <1>0, <2>1, <2>3, ExecuteType
  <2>5. n \in Int
    BY <1>0, <2>1, FillsType DEF MarketTypes
  <2>6. n # d => d - n \in Int \ {0}
    BY <2>1, <2>5
  <2>7. \A o \in resting' : OrderShape(o)
    BY <1>0, <2>3, <2>6 DEF MarketTypes, OrderShape
  <2>8. QED
    BY <2>2, <2>4, <2>7 DEF Sent, Applied
<1>4. CASE ClosePosition(c) /\ ~NothingSent(c.tool)
  <2>1. /\ Sent(c, "close") /\ UNCHANGED resting
        /\ Execute(c.asset, -pos[c.asset].size, TRUE, mark[c.asset])
    BY <1>4 DEF ClosePosition
  <2>2. PICK n \in Fills(pos[c.asset], -pos[c.asset].size, TRUE) :
          /\ pos' = [pos EXCEPT ![c.asset] = Trade(@, n, mark[c.asset])]
          /\ cash' = cash + RealizedPnl(pos[c.asset], n, mark[c.asset])
    BY <2>1 DEF Execute
  <2>3. -pos[c.asset].size \in Int /\ mark[c.asset] \in Int
    BY <1>0, MarketAt
  <2>4. pos' \in [Assets -> PosType] /\ cash' \in Int
    BY <1>0, <2>2, <2>3, ExecuteType
  <2>5. QED
    BY <2>1, <2>4 DEF Sent, Applied, MarketTypes
<1>5. QED
  BY <1>1, <1>2, <1>3, <1>4

(* The other actors. *)
LEMMA EnvironmentMarket ==
    ASSUME MarketTypes, Environment
    PROVE  MarketTypes'
<1> USE DEF store, exchange, locals, OtherActor
<1>1. CASE TogglePause \/ RollDay
  BY <1>1 DEF TogglePause, RollDay, MarketTypes, OrderShape
<1>2. ASSUME NEW a \in Assets, MoveMark(a) PROVE MarketTypes'
  BY <1>2 DEF MoveMark, MarketTypes, OrderShape
<1>3. ASSUME NEW a \in Assets, CloseElsewhere(a) PROVE MarketTypes'
  <2>1. PICK n \in Fills(pos[a], -pos[a].size, TRUE) :
          /\ pos' = [pos EXCEPT ![a] = Trade(@, n, mark[a])]
          /\ cash' = cash + RealizedPnl(pos[a], n, mark[a])
    BY <1>3 DEF CloseElsewhere, Execute
  <2>2. -pos[a].size \in Int /\ mark[a] \in Int
    BY MarketAt
  <2>3. pos' \in [Assets -> PosType] /\ cash' \in Int
    BY <2>1, <2>2, ExecuteType
  <2>4. QED
    BY <1>3, <2>3 DEF CloseElsewhere, MarketTypes, OrderShape
<1>4. ASSUME NEW o \in resting, RestingOrder(o) PROVE MarketTypes'
  <2>1. o.asset \in Assets /\ o.lots \in Int \ {0} /\ o.px \in Int
    BY DEF MarketTypes, OrderShape
  <2>2. PICK n \in Fills(pos[o.asset], o.lots, o.reduceOnly) :
          /\ pos' = [pos EXCEPT ![o.asset] = Trade(@, n, o.px)]
          /\ cash' = cash + RealizedPnl(pos[o.asset], n, o.px)
          /\ resting' = (resting \ {o}) \cup
                          IF n \in {0, o.lots} THEN {} ELSE {[o EXCEPT !.lots = @ - n]}
    BY <1>4 DEF RestingOrder
  <2>3. pos' \in [Assets -> PosType] /\ cash' \in Int
    BY <2>1, <2>2, ExecuteType
  <2>4. n \in Int
    BY <2>1, FillsType DEF MarketTypes
  <2>5. n \notin {0, o.lots} => OrderShape([o EXCEPT !.lots = @ - n])
    <3> SUFFICES ASSUME n # o.lots PROVE OrderShape([o EXCEPT !.lots = @ - n])
      OBVIOUS
    <3>1. o.lots - n \in Int \ {0}
      BY <2>1, <2>4
    <3>2. QED
      BY <2>1, <3>1 DEF OrderShape
  <2>6. \A r \in resting' : OrderShape(r)
    BY <2>2, <2>5 DEF MarketTypes
  <2>7. QED
    BY <1>4, <2>3, <2>6 DEF RestingOrder, MarketTypes, OrderShape
<1>5. QED
  BY <1>1, <1>2, <1>3, <1>4 DEF Environment

LEMMA MarketStep ==
    ASSUME MarketTypes, [Next]_vars
    PROVE  MarketTypes'
<1> USE DEF store, exchange, locals
<1>1. CASE StartCycle
  BY <1>1 DEF StartCycle, NoAccount, MarketTypes, OrderShape
<1>2. CASE GetSnapshot
  BY <1>2 DEF GetSnapshot, MarketTypes, OrderShape
<1>3. CASE GetState
  <2>1. /\ account' = AccountView /\ dayStart' = IF dayStart = None THEN Equity ELSE dayStart
        /\ UNCHANGED <<mark, mids, pos, cash, starting, resting>>
    BY <1>3 DEF GetState
  <2>2. QED
    BY <2>1, ViewType, EquityType DEF MarketTypes, OrderShape
<1>4. CASE Configure
  BY <1>4 DEF Configure, MarketTypes, OrderShape
<1>5. CASE TextOnly \/ ToolUse \/ TurnsUsedUp
  BY <1>5 DEF TextOnly, ToolUse, TurnsUsedUp, MarketTypes, OrderShape
<1>6. ASSUME NEW c \in Calls, MarketOrder(c) \/ LimitOrder(c) \/ ClosePosition(c)
      PROVE  MarketTypes'
  <2>1. /\ UNCHANGED <<dayStart, mark, mids, starting, account>>
        /\ pos' \in [Assets -> PosType] /\ cash' \in Int
        /\ \A o \in resting' : OrderShape(o)
    BY <1>6, OrderMarket
  <2>2. QED
    BY <2>1 DEF MarketTypes, OrderShape
<1>7. ASSUME NEW c \in Calls, NothingSent(c.tool) PROVE MarketTypes'
  BY <1>7 DEF NothingSent, Applied, MarketTypes, OrderShape
<1>8. ASSUME NEW c \in Calls, CancelAll(c), ~NothingSent(c.tool) PROVE MarketTypes'
  BY <1>8 DEF CancelAll, Applied, MarketTypes, OrderShape
<1>9. CASE ToolCall
  BY <1>6, <1>7, <1>8, <1>9 DEF ToolCall, Hold, UnknownTool
<1>10. CASE LogFill \/ EndTurn \/ LogDecision \/ LogTokenUsage \/ Abort
  BY <1>10 DEF LogFill, EndTurn, LogDecision, LogTokenUsage, Abort, MarketTypes, OrderShape
<1>11. CASE UNCHANGED vars
  BY <1>11 DEF vars, MarketTypes, OrderShape
<1>12. QED
  BY <1>1, <1>2, <1>3, <1>4, <1>5, <1>9, <1>10, <1>11, EnvironmentMarket
     DEF Next, CycleStep

LEMMA MarketInit == Init => MarketTypes
<1> SUFFICES ASSUME Init PROVE MarketTypes
  OBVIOUS
<1>1. PICK p \in InitialPositions :
         pos = [a \in Assets |-> [size |-> p[a], basis |-> p[a] * mark[a]]]
  BY DEF Init
<1>2. mark \in [Assets -> Marks] /\ p \in [Assets -> Int]
  BY MarketAssumption DEF Init
<1>3. \A a \in Assets : p[a] * mark[a] \in Int
  <2> TAKE a \in Assets
  <2>1. p[a] \in Int /\ mark[a] \in Marks
    BY <1>2
  <2>2. mark[a] \in Nat \ {0}
    BY <2>1, MarketAssumption
  <2>3. QED
    BY <2>1, <2>2
<1>4. pos \in [Assets -> PosType]
  BY <1>1, <1>2, <1>3 DEF PosType
<1>5. QED
  BY <1>2, <1>4, MarketAssumption, TurnsAssumption DEF Init, MarketTypes, NoAccount, OrderShape


-------------------------------------------------------------------------------
(*****************************************************************************)
(* The bookkeeping of a cycle: its locals, its orders, its fills rows and    *)
(* its decision row.                                                         *)
(*****************************************************************************)
(* The locals of the loop, and that a turn that ended left an action.       *)
LocalTypes ==
    /\ cycle \in 0..MaxCycles /\ moves \in 0..MaxMoves
    /\ turn \in 0..MaxTurns /\ calls \in 0..MaxCalls /\ actions \in Nat
    /\ calls > 0 => actions > 0
    /\ pc = "model" /\ turn > 0 => actions > 0
    /\ pc = "log_fill" => calls > 0
    /\ pc = "decide" => actions > 0
    /\ pc # "idle" => cycle > 0
    /\ pc \in {"snapshot", "account", "config"} => turn = 0

LEMMA LocalInit == Init => LocalTypes
BY TurnsAssumption DEF Init, LocalTypes

LEMMA LocalStep ==
    ASSUME LocalTypes, [Next]_vars
    PROVE  LocalTypes'
<1> USE TurnsAssumption DEF LocalTypes, store, exchange, locals
<1>1. CASE StartCycle
  BY <1>1 DEF StartCycle
<1>2. CASE GetSnapshot \/ GetState
  BY <1>2 DEF GetSnapshot, GetState
<1>3. CASE Configure
  BY <1>3 DEF Configure
<1>4. CASE TextOnly \/ ToolUse \/ TurnsUsedUp
  BY <1>4 DEF TextOnly, ToolUse, TurnsUsedUp
<1>5. ASSUME NEW c \in Calls, Applied(c.tool), UNCHANGED <<store, moves>>,
             pc' \in {"tools", "log_fill", "idle"}
      PROVE  LocalTypes'
  BY <1>5 DEF Applied
<1>6. ASSUME NEW c \in Calls, NothingSent(c.tool) PROVE LocalTypes'
  <2>1. Applied(c.tool) /\ UNCHANGED <<store, moves>> /\ pc' \in {"tools", "log_fill", "idle"}
    BY <1>6 DEF NothingSent, Applied
  <2>2. QED
    BY <1>5, <2>1
<1>7. ASSUME NEW c \in Calls, NEW side, Sent(c, side) PROVE LocalTypes'
  <2>1. Applied(c.tool) /\ UNCHANGED <<store, moves>> /\ pc' \in {"tools", "log_fill", "idle"}
    BY <1>7 DEF Sent
  <2>2. QED
    BY <1>5, <2>1
<1>8. ASSUME NEW c \in Calls, CancelAll(c), ~NothingSent(c.tool) PROVE LocalTypes'
  <2>1. Applied(c.tool) /\ UNCHANGED <<store, moves>> /\ pc' \in {"tools", "log_fill", "idle"}
    BY <1>8 DEF CancelAll, Applied
  <2>2. QED
    BY <1>5, <2>1
<1>9. CASE ToolCall
  <2>1. PICK c \in Calls : \/ Hold(c) \/ UnknownTool(c) \/ MarketOrder(c)
                           \/ LimitOrder(c) \/ CancelAll(c) \/ ClosePosition(c)
    BY <1>9 DEF ToolCall
  <2>2. NothingSent(c.tool) \/ Sent(c, c.side) \/ Sent(c, "close") \/ CancelAll(c)
    BY <2>1 DEF Hold, UnknownTool, MarketOrder, LimitOrder, ClosePosition
  <2>3. QED
    BY <1>6, <1>7, <1>8, <2>2
<1>10. CASE LogFill \/ EndTurn \/ LogDecision \/ LogTokenUsage \/ Abort
  BY <1>10 DEF LogFill, EndTurn, LogDecision, LogTokenUsage, Abort
<1>11. CASE Environment
  <2>1. OtherActor /\ UNCHANGED <<pc, locals>>
    BY <1>11 DEF Environment, TogglePause, RollDay, MoveMark, CloseElsewhere, RestingOrder
  <2>2. QED
    BY <2>1 DEF OtherActor
<1>12. CASE UNCHANGED vars
  BY <1>12 DEF vars
<1>13. QED
  BY <1>1, <1>2, <1>3, <1>4, <1>9, <1>10, <1>11, <1>12 DEF Next, CycleStep

FlagTypes == paused \in BOOLEAN /\ onlyHolds \in BOOLEAN

LEMMA FlagStep == FlagTypes /\ [Next]_vars => FlagTypes'
<1> SUFFICES ASSUME FlagTypes, [Next]_vars PROVE FlagTypes'
  OBVIOUS
<1> USE DEF FlagTypes, store, exchange, locals
<1>1. CASE StartCycle \/ GetSnapshot \/ GetState \/ Configure
  BY <1>1 DEF StartCycle, GetSnapshot, GetState, Configure
<1>2. CASE TextOnly \/ ToolUse \/ TurnsUsedUp
  BY <1>2 DEF TextOnly, ToolUse, TurnsUsedUp
<1>3. CASE ToolCall
  BY <1>3 DEF ToolCall, Hold, UnknownTool, MarketOrder, LimitOrder, CancelAll,
              ClosePosition, NothingSent, Sent, Applied
<1>4. CASE LogFill \/ EndTurn \/ LogDecision \/ LogTokenUsage \/ Abort
  BY <1>4 DEF LogFill, EndTurn, LogDecision, LogTokenUsage, Abort
<1>5. CASE Environment
  BY <1>5 DEF Environment, TogglePause, RollDay, MoveMark, CloseElsewhere, RestingOrder
<1>6. CASE UNCHANGED vars
  BY <1>6 DEF vars
<1>7. QED
  BY <1>1, <1>2, <1>3, <1>4, <1>5, <1>6 DEF Next, CycleStep

-------------------------------------------------------------------------------
(* The rows of a cycle that has ended. *)

(* Every order of sent is of this cycle. *)
SentOfCycle == \A i \in DOMAIN sent : sent[i].cycle = cycle

LEMMA SentStep ==
    ASSUME LogTypes, RowsFollowOrders, SentOfCycle, [Next]_vars
    PROVE  SentOfCycle'
<1>1. CASE StartCycle
  <2>1. sent' = <<>> /\ DOMAIN sent' = {}
    BY <1>1 DEF StartCycle
  <2>2. QED
    BY <2>1 DEF SentOfCycle
<1>2. CASE OrderSent
  <2>1. PICK e \in Orders : sent' = Append(sent, e) /\ e.cycle = cycle
    BY <1>2, OrderType
  <2>2. /\ Len(sent) \in Nat /\ DOMAIN sent = 1..Len(sent)
        /\ DOMAIN sent' = 1..(Len(sent) + 1)
        /\ \A n \in 1..Len(sent) : sent'[n] = sent[n]
        /\ sent'[Len(sent) + 1] = e
    BY <2>1, AppendProperties, LenProperties DEF LogTypes
  <2>3. cycle' = cycle
    BY <1>2 DEF OrderSent
  <2>4. QED
    BY <2>1, <2>2, <2>3 DEF SentOfCycle
<1>3. CASE LogFill \/ Quiet \/ StaysOrAborts
  BY <1>3 DEF LogFill, Quiet, StaysOrAborts, locals, SentOfCycle
<1>4. QED
  BY <1>1, <1>2, <1>3, StepKinds

(* While the cycle runs, the table holds what it has logged. *)
LEMMA RunningRows ==
    ASSUME RowsFollowOrders, pc # "idle"
    PROVE  RowsAreOf(Logged)
BY DEF RowsFollowOrders, RowsAreOf, Start

LEMMA TrailStep ==
    ASSUME LogTypes, RowsFollowOrders, FillsTrailOrders, [Next]_vars
    PROVE  FillsTrailOrders'
<1>1. CASE pc' # "idle"
  <2>1. RowsFollowOrders'
    BY RowsStep
  <2>2. RowsAreOf(Logged)'
    BY <1>1, <2>1 DEF RowsFollowOrders, RowsAreOf, Start
  <2>3. pc' = "log_fill" => Len(sent') > 0
    BY <2>1 DEF RowsFollowOrders
  <2>4. QED
    BY <2>2, <2>3 DEF FillsTrailOrders, Logged
<1>2. CASE pc' = "idle"
  <2>1. UNCHANGED <<fills, sent, cycle>>
    BY <1>2, StepKinds DEF StartCycle, OrderSent, LogFill, Quiet, StaysOrAborts
  <2>2. RowsAreOf(Len(sent)) \/ (Len(sent) > 0 /\ RowsAreOf(Len(sent) - 1))
    BY DEF FillsTrailOrders
  <2>3. QED
    BY <1>2, <2>1, <2>2 DEF FillsTrailOrders, RowsAreOf
<1>3. QED
  BY <1>1, <1>2

DecisionsInv ==
    /\ \A d \in decisions : d.cycle \in 1..cycle /\ d.actions \in Nat
    /\ \A d \in decisions : d.cycle = cycle => pc \in {"usage", "idle"}
    /\ DecisionVouchesForCycle

LEMMA DecisionsStep ==
    ASSUME LogTypes, RowsFollowOrders, LocalTypes, DecisionsInv, [Next]_vars
    PROVE  DecisionsInv'
<1> USE DEF store, exchange, locals
<1>0. cycle \in Nat
  BY DEF LogTypes
<1>1. CASE StartCycle
  <2>1. cycle' = cycle + 1 /\ decisions' = decisions
    BY <1>1 DEF StartCycle
  <2>2. \A d \in decisions' : d.cycle \in 1..cycle /\ d.cycle # cycle'
    BY <1>0, <2>1 DEF DecisionsInv
  <2>3. QED
    BY <1>0, <2>1, <2>2 DEF DecisionsInv, DecisionVouchesForCycle
<1>2. CASE LogDecision
  <2> DEFINE row == [cycle |-> cycle, actions |-> actions]
  <2>1. /\ decisions' = decisions \cup {row} /\ pc = "decide" /\ pc' = "usage"
        /\ UNCHANGED <<fills, sent, cycle>>
    BY <1>2 DEF LogDecision
  <2>2. \A d \in decisions : d.cycle # cycle
    BY <2>1 DEF DecisionsInv
  <2>3. actions \in Nat /\ actions > 0
    BY <2>1 DEF LocalTypes
  <2>4. RowsAreOf(Len(sent))'
    <3>1. RowsAreOf(Len(sent))
      BY <2>1, RunningRows DEF Logged
    <3>2. QED
      BY <2>1, <3>1 DEF RowsAreOf
  <2>5. cycle \in 1..cycle
    BY <1>0, <2>1 DEF LocalTypes
  <2>6. QED
    BY <1>0, <2>1, <2>2, <2>3, <2>4, <2>5 DEF DecisionsInv, DecisionVouchesForCycle
<1>3. CASE /\ UNCHANGED <<fills, sent, cycle, decisions>>
           /\ pc \in {"usage", "idle"} => pc' \in {"usage", "idle"}
  BY <1>3 DEF DecisionsInv, DecisionVouchesForCycle, RowsAreOf
<1>4. CASE pc \notin {"usage", "idle"} /\ UNCHANGED <<cycle, decisions>>
  BY <1>4 DEF DecisionsInv, DecisionVouchesForCycle
<1>5. CASE GetSnapshot \/ GetState \/ Configure \/ TextOnly \/ ToolUse \/ TurnsUsedUp
  BY <1>4, <1>5 DEF GetSnapshot, GetState, Configure, TextOnly, ToolUse, TurnsUsedUp
<1>6. CASE ToolCall
  <2>1. PICK c \in Calls : Applied(c.tool) /\ UNCHANGED store
    BY <1>6 DEF ToolCall, Hold, UnknownTool, MarketOrder, LimitOrder, CancelAll,
                ClosePosition, NothingSent, Sent
  <2>2. QED
    BY <1>4, <2>1 DEF Applied
<1>7. CASE LogFill \/ EndTurn
  BY <1>4, <1>7 DEF LogFill, EndTurn
<1>8. CASE LogTokenUsage \/ Abort \/ UNCHANGED vars
  BY <1>3, <1>8 DEF LogTokenUsage, Abort, vars
<1>9. CASE Environment
  BY <1>3, <1>9 DEF Environment, TogglePause, RollDay, MoveMark, CloseElsewhere, RestingOrder
<1>10. QED
  BY <1>1, <1>2, <1>5, <1>6, <1>7, <1>8, <1>9 DEF Next, CycleStep


-------------------------------------------------------------------------------
(*****************************************************************************)
(* What the gate promises of the orders of one cycle, which are all checked  *)
(* against the snapshot the cycle began with.                                *)
(*****************************************************************************)
(* The orders of the cycle on an asset, and the notional they add up to.    *)
LEMMA OrdersOn ==
    ASSUME LogTypes, NEW a
    PROVE  /\ IsFiniteSet(OpenOrders(a)) /\ Cardinality(OpenOrders(a)) \in Nat
           /\ Requested(a) \in Int
           /\ OpenOrders(a) = {} => Requested(a) = 0
<1> DEFINE f == [i \in DOMAIN sent |-> Signed(sent[i].side, sent[i].usd)]
<1>1. Len(sent) \in Nat /\ DOMAIN sent = 1..Len(sent)
  BY LenProperties DEF LogTypes
<1>2. OpenOrders(a) \subseteq 1..Len(sent) /\ IsFiniteSet(1..Len(sent))
  BY <1>1, FS_Interval DEF OpenOrders
<1>3. IsFiniteSet(OpenOrders(a)) /\ Cardinality(OpenOrders(a)) \in Nat
  BY <1>2, FS_Subset, FS_CardinalityType
<1>4. \A i \in OpenOrders(a) : f[i] \in Int
  <2> TAKE i \in OpenOrders(a)
  <2>1. sent[i] \in Orders /\ i \in DOMAIN sent
    BY <1>1, <1>2, ElementOfSeq DEF LogTypes
  <2>2. sent[i].usd \in Int
    BY <2>1 DEF Orders
  <2>3. QED
    BY <2>1, <2>2 DEF Signed
<1>5. Requested(a) = SumFunctionOnSet(f, OpenOrders(a))
  BY DEF Requested
<1> HIDE DEF f
<1>6. Requested(a) \in Int
  BY <1>3, <1>4, <1>5, SumType
<1>7. SumFunctionOnSet(f, {}) = 0
  BY FS_EmptySet, SumPick
<1>8. QED
  BY <1>3, <1>5, <1>6, <1>7

LEMMA OneOrderMore ==
    ASSUME LogTypes, NEW e \in Orders, sent' = Append(sent, e), LogTypes', NEW a
    PROVE  IF e.asset = a /\ e.side \in Sides
           THEN /\ Cardinality(OpenOrders(a)') = Cardinality(OpenOrders(a)) + 1
                /\ Requested(a)' = Requested(a) + Signed(e.side, e.usd)
           ELSE OpenOrders(a)' = OpenOrders(a) /\ Requested(a)' = Requested(a)
<1> DEFINE f == [i \in DOMAIN sent |-> Signed(sent[i].side, sent[i].usd)]
           g == [i \in DOMAIN sent' |-> Signed(sent'[i].side, sent'[i].usd)]
           old == OpenOrders(a)
           last == Len(sent) + 1
<1>1. /\ Len(sent) \in Nat /\ DOMAIN sent = 1..Len(sent)
      /\ DOMAIN sent' = 1..last
      /\ \A n \in 1..Len(sent) : sent'[n] = sent[n]
      /\ sent'[last] = e
  BY AppendProperties, LenProperties DEF LogTypes
<1>2. Requested(a) = SumFunctionOnSet(f, old) /\ Requested(a)' = SumFunctionOnSet(g, OpenOrders(a)')
  BY DEF Requested
<1>3. IsFiniteSet(old) /\ Cardinality(old) \in Nat
  BY OrdersOn
<1>4. old \subseteq 1..Len(sent) /\ last \notin old
  BY <1>1 DEF OpenOrders
<1>5. \A i \in old : f[i] = g[i]
  BY <1>1, <1>4
<1>6. SumFunctionOnSet(f, old) = SumFunctionOnSet(g, old)
  <2> HIDE DEF f, g, old
  <2>1. QED
    BY <1>3, <1>5, SumSame
<1>7. CASE e.asset = a /\ e.side \in Sides
  <2>1. OpenOrders(a)' = old \cup {last}
    BY <1>1, <1>7 DEF OpenOrders
  <2>2. Cardinality(old \cup {last}) = Cardinality(old) + 1 /\ IsFiniteSet(old \cup {last})
    BY <1>3, <1>4, FS_AddElement
  <2>3. \A i \in old \cup {last} : g[i] \in Int
    <3> TAKE i \in old \cup {last}
    <3>1. i \in DOMAIN sent' /\ sent' \in Seq(Orders)
      BY <1>1, <1>4 DEF LogTypes
    <3>2. sent'[i] \in Orders
      BY <3>1, ElementOfSeq, LenProperties
    <3>3. sent'[i].usd \in Int
      BY <3>2 DEF Orders
    <3>4. QED
      BY <3>1, <3>3 DEF Signed
  <2>4. g[last] = Signed(e.side, e.usd)
    BY <1>1
  <2>5. (old \cup {last}) \ {last} = old
    BY <1>4
  <2> HIDE DEF f, g, old, last
  <2>6. SumFunctionOnSet(g, old \cup {last})
          = g[last] + SumFunctionOnSet(g, (old \cup {last}) \ {last})
    BY <2>2, <2>3, SumAdd
  <2>7. Requested(a)' = Signed(e.side, e.usd) + Requested(a)
    BY <1>2, <1>6, <2>1, <2>4, <2>5, <2>6
  <2>8. Requested(a) \in Int /\ Signed(e.side, e.usd) \in Int
    BY OrdersOn DEF Orders, Signed
  <2>9. QED
    BY <1>7, <2>1, <2>2, <2>7, <2>8 DEF old
<1>8. CASE ~(e.asset = a /\ e.side \in Sides)
  <2>1. OpenOrders(a)' = old
    BY <1>1, <1>8 DEF OpenOrders
  <2>2. QED
    BY <1>2, <1>6, <1>8, <2>1
<1>9. QED
  BY <1>7, <1>8

(* A step begins a list of orders, adds one, or leaves it with its account. *)
LEMMA GateKinds ==
    ASSUME LogTypes, RowsFollowOrders, [Next]_vars
    PROVE  sent' = <<>> \/ OrderSent \/ UNCHANGED <<account, sent>>
  <1> USE DEF store, exchange, locals
  <1>1. CASE StartCycle \/ GetSnapshot \/ Configure
    BY <1>1 DEF StartCycle, GetSnapshot, Configure
  <1>2. CASE GetState
    BY <1>2 DEF GetState, RowsFollowOrders
  <1>3. CASE TextOnly \/ ToolUse \/ TurnsUsedUp
    BY <1>3 DEF TextOnly, ToolUse, TurnsUsedUp
  <1>4. ASSUME NEW c \in Calls, NothingSent(c.tool) \/ CancelAll(c)
        PROVE  UNCHANGED <<account, sent>>
    BY <1>4 DEF NothingSent, CancelAll, Applied
  <1>5. ASSUME NEW c \in Calls, MarketOrder(c) \/ LimitOrder(c) \/ ClosePosition(c)
        PROVE  NothingSent(c.tool) \/ OrderSent
    BY <1>5 DEF MarketOrder, LimitOrder, ClosePosition, Sent, Applied, OrderSent
  <1>6. CASE ToolCall
    BY <1>4, <1>5, <1>6 DEF ToolCall, Hold, UnknownTool
  <1>7. CASE EndTurn \/ LogFill \/ LogDecision \/ LogTokenUsage \/ Abort
    BY <1>7 DEF EndTurn, LogFill, LogDecision, LogTokenUsage, Abort
  <1>8. CASE Environment
    BY <1>8 DEF Environment, TogglePause, RollDay, MoveMark, CloseElsewhere, RestingOrder
  <1>9. CASE UNCHANGED vars
    BY <1>9 DEF vars
  <1>10. QED
    BY <1>1, <1>2, <1>3, <1>6, <1>7, <1>8, <1>9 DEF Next, CycleStep

LEMMA Triangle ==
    \A x, y \in Int : /\ Abs(x) \in Nat
                      /\ Abs(x + y) <= Abs(x) + Abs(y)
                      /\ Abs(y) <= Abs(x + y) + Abs(x)
BY DEF Abs

(* The notional a position is entered at, as the gate counts it. *)
Entered(a) == IF HasPosition(account, a) THEN account.positions[a].basis ELSE 0

LEMMA GateTypes ==
    ASSUME MarketTypes, NEW a \in Assets
    PROVE  /\ Entered(a) \in Int /\ AssetCap(a) \in Int
           /\ CurrentNotional(account, a) \in Int
           /\ account.equity * Risk.maxPositionPct \in Int
           /\ account.equity * Risk.maxTotalPct \in Int
           /\ OtherNotional(account, a) \in Int
<1>1. /\ account.positions[a].size \in Int /\ account.positions[a].basis \in Int
      /\ account.positions[a].value \in Int /\ account.equity \in Int
  BY DEF MarketTypes
<1>2. Risk.maxPositionPct \in Int /\ Risk.maxTotalPct \in Int
  BY RiskAssumption
<1>3. account.equity * Risk.maxPositionPct \in Int /\ account.equity * Risk.maxTotalPct \in Int
  BY <1>1, <1>2
<1>4. CurrentNotional(account, a) \in Int /\ Entered(a) \in Int
  BY <1>1 DEF CurrentNotional, Entered
<1>5. CurrentNotional(account, a) * Percent \in Int
  BY <1>4 DEF Percent
<1>6. AssetCap(a) \in Int
  BY <1>3, <1>5 DEF AssetCap
<1>7. OtherNotional(account, a) \in Int
  <2> DEFINE f == [b \in Assets |-> account.positions[b].value]
  <2>1. \A b \in Assets \ {a} : f[b] \in Int
    BY DEF MarketTypes
  <2>2. IsFiniteSet(Assets \ {a})
    BY MarketAssumption, FS_Subset
  <2>3. OtherNotional(account, a) = SumFunctionOnSet(f, Assets \ {a})
    BY DEF OtherNotional
  <2> HIDE DEF f
  <2>4. QED
    BY <2>1, <2>2, <2>3, SumType
<1>8. QED
  BY <1>3, <1>4, <1>6, <1>7

(* What an accepted order keeps of the cap of its asset. *)
LEMMA GateCap ==
    ASSUME MarketTypes, NEW a \in Assets, NEW side \in Sides, NEW usd \in Int,
           CheckOpenOrIncrease(account, starting, Risk, a, side, usd)
    PROVE  Abs(Entered(a) + Signed(side, usd)) * Percent <= AssetCap(a)
<1> DEFINE new == NewNotional(account, a, side, usd)
           cur == CurrentNotional(account, a)
           cap == account.equity * Risk.maxPositionPct
<1>1. new = Abs(Entered(a) + Signed(side, usd))
  BY DEF NewNotional, Entered
<1>2. new > cur => new * Percent <= cap
  BY DEF CheckOpenOrIncrease, WithinAssetCap
<1>3. AssetCap(a) = IF cap > cur * Percent THEN cap ELSE cur * Percent
  BY DEF AssetCap
<1>4. cur \in Int /\ cap \in Int
  BY GateTypes
<1>5. new \in Int
  <2>1. Entered(a) \in Int /\ Signed(side, usd) \in Int
    BY GateTypes DEF Signed
  <2>2. QED
    BY <1>1, <2>1, Triangle
<1> HIDE DEF new, cur, cap
<1>6. new * Percent <= AssetCap(a)
  BY <1>2, <1>3, <1>4, <1>5 DEF Percent
<1>7. QED
  BY <1>1, <1>6

(* n orders past the cap, by the induction on n that the steps make. *)
LEMMA Overshoot ==
    ASSUME NEW n \in Nat, NEW cap \in Int, NEW b \in Int, NEW r \in Int, NEW s \in Int,
           Abs(b + s) * Percent <= cap,
           n = 0 => r = 0,
           n > 0 => Abs(b + r) * Percent <= n * cap + (n - 1) * Abs(b) * Percent
    PROVE  Abs(b + (r + s)) * Percent
              <= (n + 1) * cap + ((n + 1) - 1) * Abs(b) * Percent
<1>1. CASE n = 0
  <2>1. r = 0
    BY <1>1
  <2>2. b + (r + s) = b + s
    BY <2>1
  <2>3. (n + 1) * cap = cap
    BY <1>1
  <2>4. ((n + 1) - 1) * Abs(b) * Percent = 0
    <3>1. Abs(b) \in Int
      BY Triangle
    <3> HIDE DEF Abs
    <3>2. (n + 1) - 1 = 0
      BY <1>1
    <3>3. 0 * Abs(b) * Percent = 0
      BY <3>1 DEF Percent
    <3>4. QED
      BY <3>2, <3>3
  <2>5. cap + 0 = cap
    OBVIOUS
  <2>6. QED
    BY <2>2, <2>3, <2>4, <2>5
<1>2. CASE n > 0
  <2> DEFINE B == Abs(b)
             R == Abs(r)
             X == Abs(b + r)
             Y == Abs(b + s)
             Z == Abs(b + (r + s))
  <2>1. B \in Nat /\ R \in Nat /\ X \in Nat /\ Y \in Nat /\ Z \in Nat
    <3>1. b + r \in Int /\ b + s \in Int /\ b + (r + s) \in Int
      OBVIOUS
    <3>2. Abs(b + r) \in Nat
      BY <3>1, Triangle
    <3>3. Abs(b + s) \in Nat
      BY <3>1, Triangle
    <3>4. Abs(b + (r + s)) \in Nat
      BY <3>1, Triangle
    <3>5. Abs(b) \in Nat /\ Abs(r) \in Nat
      BY Triangle
    <3>6. QED
      BY <3>2, <3>3, <3>4, <3>5
  <2>2. R <= X + B
    BY Triangle
  <2>3. Z <= Y + R
    <3>1. b + (r + s) = (b + s) + r
      OBVIOUS
    <3>2. Abs((b + s) + r) <= Abs(b + s) + Abs(r)
      BY Triangle
    <3>3. QED
      BY <3>1, <3>2
  <2> DEFINE P == n * cap
             Q == n * B
  <2>4. P \in Int /\ Q \in Int
    BY <2>1
  <2>5. (n + 1) * cap = P + cap /\ ((n + 1) - 1) * B * Percent = Q * Percent
        /\ (n - 1) * B * Percent = Q * Percent - B * Percent
    <3>1. (n + 1) * cap = n * cap + cap
      OBVIOUS
    <3>2. (n + 1) - 1 = n
      OBVIOUS
    <3>3. (n - 1) * B = n * B - B
      BY <2>1
    <3>4. QED
      BY <2>1, <2>4, <3>1, <3>2, <3>3 DEF Percent
  <2>6. X * Percent <= P + (Q * Percent - B * Percent) /\ Y * Percent <= cap
    BY <1>2, <2>5
  <2> HIDE DEF B, R, X, Y, Z, P, Q
  <2>7. Z * Percent <= P + cap + Q * Percent
    BY <2>1, <2>2, <2>3, <2>4, <2>6 DEF Percent
  <2>8. QED
    BY <2>5, <2>7 DEF B, Z
<1>3. QED
  BY <1>1, <1>2

LEMMA OvershootStep ==
    ASSUME LogTypes, LogTypes', RowsFollowOrders, MarketTypes, OvershootBound, [Next]_vars
    PROVE  OvershootBound'
<1>1. CASE sent' = <<>>
  <2>1. \A a : OpenOrders(a)' = {}
    BY <1>1 DEF OpenOrders
  <2>2. QED
    BY <2>1, FS_EmptySet DEF OvershootBound
<1>2. CASE OrderSent
  <2>0. account' = account
    BY <1>2 DEF OrderSent
  <2>1. PICK e \in Orders :
          /\ sent' = Append(sent, e)
          /\ e.side \in Sides =>
               CheckOpenOrIncrease(account, starting, Risk, e.asset, e.side, e.usd)
    BY <1>2, OrderType
  <2> SUFFICES ASSUME NEW a \in Assets, Cardinality(OpenOrders(a)') > 0
               PROVE  Abs(Entered(a) + Requested(a)') * Percent
                         <= Cardinality(OpenOrders(a)') * AssetCap(a)
                            + (Cardinality(OpenOrders(a)') - 1) * Abs(Entered(a)) * Percent
    BY <2>0 DEF OvershootBound, Entered, HasPosition, AssetCap, CurrentNotional
  <2> DEFINE n == Cardinality(OpenOrders(a))
  <2>2. /\ n \in Nat /\ Requested(a) \in Int /\ (n = 0 => Requested(a) = 0)
    BY OrdersOn, FS_EmptySet
  <2>3. n > 0 => Abs(Entered(a) + Requested(a)) * Percent
                    <= n * AssetCap(a) + (n - 1) * Abs(Entered(a)) * Percent
    BY DEF OvershootBound, Entered
  <2>4. Entered(a) \in Int /\ AssetCap(a) \in Int
    BY GateTypes
  <2>5. CASE e.asset = a /\ e.side \in Sides
    <3> DEFINE s == Signed(e.side, e.usd)
    <3>1. /\ Cardinality(OpenOrders(a)') = n + 1
          /\ Requested(a)' = Requested(a) + s
      BY <2>1, <2>5, OneOrderMore
    <3>2. e.usd \in Int /\ s \in Int
      BY DEF Orders, Signed
    <3>3. Abs(Entered(a) + s) * Percent <= AssetCap(a)
      BY <2>1, <2>5, <3>2, GateCap
    <3> HIDE DEF n, s
    <3>4. Abs(Entered(a) + (Requested(a) + s)) * Percent
             <= (n + 1) * AssetCap(a) + ((n + 1) - 1) * Abs(Entered(a)) * Percent
      BY <2>2, <2>3, <2>4, <3>2, <3>3, Overshoot
    <3>5. QED
      BY <3>1, <3>4
  <2>6. CASE ~(e.asset = a /\ e.side \in Sides)
    <3>1. OpenOrders(a)' = OpenOrders(a) /\ Requested(a)' = Requested(a)
      BY <2>1, <2>6, OneOrderMore
    <3>2. QED
      BY <2>3, <3>1
  <2>7. QED
    BY <2>5, <2>6
<1>3. CASE UNCHANGED <<account, sent>>
  BY <1>3 DEF OvershootBound, OpenOrders, Requested, AssetCap, HasPosition, CurrentNotional
<1>4. QED
  BY <1>1, <1>2, <1>3, GateKinds

(* The signed mark-priced notional of a position in the snapshot. *)
MarkedAt(a) == IF account.positions[a].size < 0 THEN -account.positions[a].value
               ELSE account.positions[a].value

LEMMA FirstOrderStep ==
    ASSUME LogTypes, LogTypes', RowsFollowOrders, MarketTypes,
           FirstOrderMarkExposure, [Next]_vars
    PROVE  FirstOrderMarkExposure'
<1>1. CASE sent' = <<>>
  BY <1>1 DEF FirstOrderMarkExposure
<1>2. CASE OrderSent
  <2>0. account' = account
    BY <1>2 DEF OrderSent
  <2>1. PICK e \in Orders :
          /\ sent' = Append(sent, e)
          /\ e.side \in Sides =>
               CheckOpenOrIncrease(account, starting, Risk, e.asset, e.side, e.usd)
    BY <1>2, OrderType
  <2> SUFFICES ASSUME NEW a \in Assets, Len(sent') = 1, OpenOrders(a)' # {}
               PROVE  (OtherNotional(account, a) + Abs(MarkedAt(a) + Requested(a)')) * Percent
                         <= account.equity * Risk.maxTotalPct
                            + Abs(MarkedAt(a) - account.positions[a].basis) * Percent
    BY <2>0 DEF FirstOrderMarkExposure, MarkedAt, OtherNotional
  <2>2. Len(sent) \in Nat /\ DOMAIN sent = 1..Len(sent) /\ Len(sent') = Len(sent) + 1
    BY <2>1, AppendProperties, LenProperties DEF LogTypes
  <2>3. OpenOrders(a) = {} /\ Requested(a) = 0
    <3>1. DOMAIN sent = {}
      BY <2>2
    <3>2. QED
      BY <3>1, OrdersOn DEF OpenOrders
  <2> DEFINE s == Signed(e.side, e.usd)
             b == account.positions[a].basis
             mv == MarkedAt(a)
             other == OtherNotional(account, a)
             cap == account.equity * Risk.maxTotalPct
  <2>4. e.asset = a /\ e.side \in Sides /\ Requested(a)' = Requested(a) + s
    BY <2>1, <2>3, OneOrderMore
  <2>5. s \in Int /\ Requested(a)' = s
    BY <2>3, <2>4 DEF Orders, Signed
  <2>6. (other + Abs(Entered(a) + s)) * Percent <= cap
    BY <2>1, <2>4 DEF CheckOpenOrIncrease, WithinTotalCap, NewTotal, NewNotional, Entered
  <2>7. other \in Int /\ cap \in Int /\ Entered(a) \in Int
    BY GateTypes
  <2>8. account.positions[a] \in [size : Int, basis : Int, value : Int]
        /\ (account.positions[a].size = 0 => account.positions[a].value = 0)
    BY DEF MarketTypes
  <2>9. b \in Int /\ mv \in Int
    BY <2>8 DEF MarkedAt
  <2>10. Abs(mv + s) <= Abs(Entered(a) + s) + Abs(mv - b)
    <3>1. CASE account.positions[a].size = 0
      <4>1. mv = 0 /\ Entered(a) = 0
        BY <2>8, <3>1 DEF MarkedAt, Entered, HasPosition
      <4> HIDE DEF mv, s, b
      <4>2. mv - b \in Int /\ 0 + s \in Int
        BY <2>5, <2>9
      <4>3. Abs(mv - b) \in Nat /\ Abs(0 + s) \in Nat
        BY <4>2, Triangle
      <4>4. QED
        BY <4>1, <4>3
    <3>2. CASE account.positions[a].size # 0
      <4>1. Entered(a) = b
        BY <3>2 DEF Entered, HasPosition
      <4> HIDE DEF mv, s, b
      <4>2. b + s \in Int /\ mv - b \in Int /\ (b + s) + (mv - b) = mv + s
        BY <2>5, <2>9
      <4>3. Abs((b + s) + (mv - b)) <= Abs(b + s) + Abs(mv - b)
        BY <4>2, Triangle
      <4>4. QED
        BY <4>1, <4>2, <4>3
    <3>3. QED
      BY <3>1, <3>2
  <2>11. Abs(mv + s) \in Nat /\ Abs(Entered(a) + s) \in Nat /\ Abs(mv - b) \in Nat
    <3> HIDE DEF mv, s, b
    <3>1. mv + s \in Int /\ Entered(a) + s \in Int /\ mv - b \in Int
      BY <2>5, <2>7, <2>9
    <3>2. QED
      BY <3>1, Triangle
  <2> HIDE DEF mv, s, b, other, cap
  <2>12. (other + Abs(mv + s)) * Percent <= cap + Abs(mv - b) * Percent
    BY <2>6, <2>7, <2>10, <2>11 DEF Percent
  <2>13. QED
    BY <2>5, <2>12 DEF mv, b, other, cap
<1>3. CASE UNCHANGED <<account, sent>>
  BY <1>3 DEF FirstOrderMarkExposure, OpenOrders, Requested, OtherNotional
<1>4. QED
  BY <1>1, <1>2, <1>3, GateKinds

(* A reduce-only limit order reduces, or rests with its flag. *)
LEMMA LimitReduces ==
    ASSUME MarketTypes, NEW c \in Calls, c.reduceOnly, LimitOrder(c)
    PROVE  /\ Reduces(c.asset)
           /\ \A o \in resting' \ resting : o.reduceOnly
<1>0. /\ c.asset \in Assets /\ c.usd \in Int /\ c.px \in Int /\ c.reduceOnly = TRUE
      /\ pos[c.asset] \in PosType /\ pos \in [Assets -> PosType]
  BY CallsAssumption DEF MarketTypes
<1>1. pos[c.asset].size \in Int
  BY <1>0 DEF PosType
<1>2. CASE NothingSent(c.tool)
  <2>1. pos' = pos /\ resting' = resting
    BY <1>2 DEF NothingSent, exchange
  <2>2. QED
    BY <1>1, <2>1 DEF Reduces, SameDirection, Abs
<1>3. CASE ~NothingSent(c.tool)
  <2> DEFINE d == Signed(c.side, CoinSizeFromUsd(c.usd, c.px))
  <2>1. d \in Int
    BY <1>0, CallsAssumption, SizeType DEF Signed, LimitOrder
  <2>2. OrderAtLimit(c, d, c.reduceOnly)
    BY <1>3 DEF LimitOrder, SendLimit
  <2> HIDE DEF d
  <2>3. PICK n \in Fills(pos[c.asset], d, c.reduceOnly) :
          /\ pos' = [pos EXCEPT ![c.asset] = Trade(@, n, c.px)]
          /\ \/ resting' = resting
             \/ resting' = resting \cup
                     {[oid |-> FreshOid, asset |-> c.asset, lots |-> d - n,
                       px |-> c.px, reduceOnly |-> c.reduceOnly]}
    BY <2>2 DEF OrderAtLimit
  <2>4. /\ n \in Int
        /\ SameDirection(pos[c.asset].size, pos[c.asset].size + n)
        /\ Abs(pos[c.asset].size + n) <= Abs(pos[c.asset].size)
    BY <1>0, <2>1, FillsType
  <2>5. pos'[c.asset].size = pos[c.asset].size + n
    <3>1. Trade(pos[c.asset], n, c.px).size = pos[c.asset].size + n
      BY <1>0, <2>4, TradeType
    <3>2. QED
      BY <1>0, <2>3, <3>1
  <2>6. QED
    BY <1>0, <2>3, <2>4, <2>5 DEF Reduces
<1>4. QED
  BY <1>2, <1>3

-------------------------------------------------------------------------------
(* The whole inductive invariant. *)
CycleInv ==
    /\ IInv /\ MarketTypes /\ LocalTypes /\ FlagTypes
    /\ SentOfCycle /\ FillsTrailOrders /\ DecisionsInv
    /\ OvershootBound /\ FirstOrderMarkExposure

LEMMA CycleInit == Init => CycleInv
<1> SUFFICES ASSUME Init PROVE CycleInv
  OBVIOUS
<1>1. /\ fills = <<>> /\ sent = <<>> /\ cycle = 0 /\ pc = "idle" /\ decisions = {}
      /\ paused = FALSE /\ onlyHolds = TRUE
  BY DEF Init
<1>2. IInv /\ MarketTypes /\ LocalTypes
  BY InitHolds, MarketInit, LocalInit
<1>3. FlagTypes /\ DecisionsInv
  BY <1>1 DEF FlagTypes, DecisionsInv, DecisionVouchesForCycle
<1>4. /\ Len(sent) = 0 /\ DOMAIN sent = {} /\ DOMAIN fills = {}
  BY <1>1
<1>5. SentOfCycle /\ FillsTrailOrders
  BY <1>4 DEF SentOfCycle, FillsTrailOrders, RowsAreOf
<1>6. OvershootBound /\ FirstOrderMarkExposure
  <2>1. \A a : OpenOrders(a) = {}
    BY <1>4 DEF OpenOrders
  <2>2. QED
    BY <2>1, FS_EmptySet DEF OvershootBound, FirstOrderMarkExposure
<1>7. QED
  BY <1>2, <1>3, <1>5, <1>6 DEF CycleInv

LEMMA CycleInvStep == CycleInv /\ [Next]_vars => CycleInv'
<1> SUFFICES ASSUME CycleInv, [Next]_vars PROVE CycleInv'
  OBVIOUS
<1>0. LogTypes /\ RowsFollowOrders
  BY DEF CycleInv, IInv
<1>1. IInv' /\ LogTypes'
  BY StepHolds DEF CycleInv, IInv
<1>2. MarketTypes' /\ LocalTypes' /\ FlagTypes'
  BY MarketStep, LocalStep, FlagStep DEF CycleInv
<1>3. SentOfCycle' /\ FillsTrailOrders' /\ DecisionsInv'
  BY <1>0, SentStep, TrailStep, DecisionsStep DEF CycleInv
<1>4. OvershootBound' /\ FirstOrderMarkExposure'
  BY <1>0, <1>1, OvershootStep, FirstOrderStep DEF CycleInv
<1>5. QED
  BY <1>1, <1>2, <1>3, <1>4 DEF CycleInv

LEMMA CycleAlways == Spec => []CycleInv
BY CycleInit, CycleInvStep, PTL DEF Spec

(* Every variable stays in its type: positions, cash and the equity of the    *)
(* snapshot are integers whatever fills, and rows and orders are well formed. *)
THEOREM TypeCorrect == Spec => []TypeOK
<1>1. CycleInv => TypeOK
  BY DEF CycleInv, IInv, LogTypes, MarketTypes, LocalTypes, FlagTypes, SentOfCycle,
         DecisionsInv, TypeOK, PosType, OrderShape
<1>2. QED
  BY <1>1, CycleAlways, PTL

(* Every order of a cycle has its row in the fills table, except the last one *)
(* while it is being logged or if the cycle was cut off right there.          *)
THEOREM FillsTrail == Spec => []FillsTrailOrders
<1>1. CycleInv => FillsTrailOrders
  BY DEF CycleInv
<1>2. QED
  BY <1>1, CycleAlways, PTL

(* A decision row stands for a finished cycle: at least one action, all of    *)
(* the cycle's orders in the fills table, and one row per cycle.              *)
THEOREM DecisionVouches == Spec => []DecisionVouchesForCycle
<1>1. CycleInv => DecisionVouchesForCycle
  BY DEF CycleInv, DecisionsInv
<1>2. QED
  BY <1>1, CycleAlways, PTL

(* n orders of one cycle on an asset, each within the cap on its own, request *)
(* together at most n caps and n - 1 times the position they started from.    *)
THEOREM CapsOvershoot == Spec => []OvershootBound
<1>1. CycleInv => OvershootBound
  BY DEF CycleInv
<1>2. QED
  BY <1>1, CycleAlways, PTL

(* The first order of a cycle keeps the mark-priced total exposure within the *)
(* total cap, give or take the unrealised profit of the position it adds to.  *)
THEOREM FirstOrderExposure == Spec => []FirstOrderMarkExposure
<1>1. CycleInv => FirstOrderMarkExposure
  BY DEF CycleInv
<1>2. QED
  BY <1>1, CycleAlways, PTL

(* A reduce-only limit order never enlarges or turns its position, and what   *)
(* is left of it rests with its reduce-only flag.                             *)
THEOREM LimitOnlyReduces == Spec => ReduceOnlyLimitReduces
<1>1. CycleInv /\ [Next]_vars
        => [\A c \in Calls : c.reduceOnly /\ LimitOrder(c) =>
               /\ Reduces(c.asset)
               /\ \A o \in resting' \ resting : o.reduceOnly]_vars
  BY LimitReduces DEF CycleInv
<1>2. QED
  BY <1>1, CycleAlways, PTL DEF Spec, ReduceOnlyLimitReduces
===============================================================================
