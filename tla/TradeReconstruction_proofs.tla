----------------------- MODULE TradeReconstruction_proofs ----------------------
(***************************************************************************)
(* Proofs about TradeReconstruction, and about the second view TradeViews    *)
(* sets beside it, for every window and all fill sizes and prices.          *)
(***************************************************************************)
EXTENDS TradeViews, SequenceTheorems, TLAPS

PosType == [size : Int, basis : Int]

(* What a trade does to a position: the size, and the basis and profit by   *)
(* the kind of its fill.                                                    *)
LEMMA TradeFacts ==
    ASSUME NEW p \in PosType, NEW d \in Int, d # 0, NEW px \in Nat \ {0}
    PROVE  /\ Trade(p, d, px) \in PosType
           /\ Trade(p, d, px).size = p.size + d
           /\ RealizedPnl(p, d, px) \in Int
           /\ Kind(p, d) = "open" =>
                /\ Trade(p, d, px).basis = p.basis + d * px
                /\ RealizedPnl(p, d, px) = 0
           /\ Kind(p, d) = "close" =>
                /\ RealizedPnl(p, d, px) = Trade(p, d, px).basis - p.basis - d * px
                /\ p.size + d = 0 => Trade(p, d, px).basis = 0
           /\ Kind(p, d) = "flip" =>
                RealizedPnl(p, d, px) = p.size * px - p.basis
<1> DEFINE size == p.size + d
<1> p.size \in Int /\ p.basis \in Int /\ size \in Int /\ px \in Int
  BY DEF PosType
<1>1. CASE SameDirection(p.size, d)
  <2>1. Trade(p, d, px) = [size |-> size, basis |-> p.basis + d * px]
    BY <1>1 DEF Trade
  <2>2. RealizedPnl(p, d, px)
          = (p.size * px - p.basis) - ((p.size + d) * px - (p.basis + d * px))
    BY <2>1 DEF RealizedPnl, UnrealizedPnl
  <2>3. (p.size + d) * px = p.size * px + d * px
    OBVIOUS
  <2>4. RealizedPnl(p, d, px) = 0
    BY <2>2, <2>3
  <2>. QED  BY <1>1, <2>1, <2>4 DEF Kind, PosType
<1>2. CASE ~SameDirection(p.size, d) /\ SameDirection(p.size, size)
  <2> DEFINE basis == (p.basis * Magnitude(size)) \div Magnitude(p.size)
  <2>1. Magnitude(p.size) \in Nat \ {0} /\ Magnitude(size) \in Nat
    BY <1>2 DEF SameDirection, Magnitude
  <2>2. p.basis * Magnitude(size) \in Int
    BY <2>1
  <2>3. basis \in Int
    <3> DEFINE m == p.basis * Magnitude(size)
               n == Magnitude(p.size)
    <3>1. m \in Int /\ n \in Nat \ {0}
      BY <2>1, <2>2
    <3> HIDE DEF m, n
    <3>2. m \div n \in Int
      BY <3>1
    <3>. QED  BY <3>2 DEF m, n
  <2>4. Trade(p, d, px) = [size |-> size, basis |-> basis]
    BY <1>2 DEF Trade
  <2> HIDE DEF basis
  <2>5. RealizedPnl(p, d, px) = (p.size * px - p.basis) - ((p.size + d) * px - basis)
    BY <2>4 DEF RealizedPnl, UnrealizedPnl
  <2>6. (p.size + d) * px = p.size * px + d * px /\ p.size * px \in Int /\ d * px \in Int
    OBVIOUS
  <2>7. RealizedPnl(p, d, px) = basis - p.basis - d * px
    BY <2>3, <2>5, <2>6
  <2>8. size = 0 => basis = 0
    <3>1. size = 0 => p.basis * Magnitude(size) = 0
      BY DEF Magnitude
    <3>. QED  BY <2>1, <3>1 DEF basis
  <2>. QED  BY <1>2, <2>3, <2>4, <2>6, <2>7, <2>8 DEF Kind, PosType
<1>3. CASE ~SameDirection(p.size, d) /\ ~SameDirection(p.size, size)
  <2>1. Trade(p, d, px) = [size |-> size, basis |-> size * px]
    BY <1>3 DEF Trade
  <2>2. RealizedPnl(p, d, px) = (p.size * px - p.basis) - (size * px - size * px)
    BY <2>1 DEF RealizedPnl, UnrealizedPnl
  <2>3. p.size * px \in Int /\ size * px \in Int
    OBVIOUS
  <2>4. RealizedPnl(p, d, px) = p.size * px - p.basis
    BY <2>2, <2>3
  <2>. QED  BY <1>3, <2>1, <2>3, <2>4 DEF Kind, PosType
<1>. QED  BY <1>1, <1>2, <1>3

(* What the kind of a fill says of the position before and after it. *)
LEMMA KindFacts ==
    ASSUME NEW p \in PosType, NEW d \in Int, d # 0
    PROVE  /\ Kind(p, d) \in {"open", "close", "flip"}
           /\ Kind(p, d) = "open" =>
                /\ SideOf(p.size) \in {"none", SideOf(d)}
                /\ SideOf(d) \in Directions
                /\ SideOf(p.size + d) = SideOf(d)
                /\ Magnitude(p.size + d) = Magnitude(p.size) + Magnitude(d)
           /\ Kind(p, d) = "close" =>
                /\ SideOf(p.size) \in Directions
                /\ Magnitude(d) <= Magnitude(p.size)
                /\ Magnitude(p.size + d) = Magnitude(p.size) - Magnitude(d)
                /\ SideOf(p.size + d) = IF p.size + d = 0 THEN "none" ELSE SideOf(p.size)
           /\ Kind(p, d) = "flip" =>
                /\ SideOf(p.size) \in Directions
                /\ SideOf(p.size + d) # SideOf(p.size)
                /\ Magnitude(p.size) < Magnitude(d)
<1> p.size \in Int
  BY DEF PosType
<1>. QED  BY DEF Kind, SideOf, SameDirection, Magnitude, Directions

-------------------------------------------------------------------------------
(* The inductive invariant. *)

TypeInv == /\ pos \in PosType
           /\ walk \in WalkType /\ trades \in Seq(TradeType)
           /\ start \in Nat

(* A flat position has no cost. *)
FlatHasNoBasis == pos.size = 0 => pos.basis = 0

(* The profit booked so far on a trade that began without a position is what *)
(* its own prices come to, next to the cost of the position that remains.   *)
Balanced(w, p) ==
    w.pnl = (IF w.direction = "long" THEN w.closeValue - w.openCost
             ELSE w.openCost - w.closeValue) + p.basis - w.fillCount * Fee

BooksBalance == InProgress /\ start = 0 => Balanced(walk, pos)

(* Without a trade in progress nothing is summed up. *)
IdleIsEmpty ==
    ~InProgress => /\ walk.openSize = 0 /\ walk.openCost = 0 /\ walk.closeSize = 0
                   /\ walk.closeValue = 0 /\ walk.pnl = 0 /\ walk.fillCount = 0

IInv == /\ TypeInv /\ FlatHasNoBasis /\ IdleIsEmpty
        /\ WalkFollowsPosition /\ BooksBalance /\ RoundTripsAddUp

(* What RoundTripsAddUp asks of one trade. *)
AddsUp(t) == t.fromFlat => /\ t.openSize = t.size /\ t.closeSize = t.size
                           /\ t.pnl = Value(t) - t.fillCount * Fee

LEMMA AppendAddsUp ==
    ASSUME trades \in Seq(TradeType), RoundTripsAddUp,
           NEW t \in TradeType, AddsUp(t), trades' = Append(trades, t)
    PROVE  trades' \in Seq(TradeType) /\ Len(trades') = Len(trades) + 1 /\ RoundTripsAddUp'
<1>1. /\ trades' \in Seq(TradeType) /\ Len(trades') = Len(trades) + 1
      /\ \A i \in 1..Len(trades) : trades'[i] = trades[i]
      /\ trades'[Len(trades) + 1] = t
  BY AppendProperties
<1>2. \A i \in DOMAIN trades' : AddsUp(trades'[i])
  <2>1. Len(trades) \in Nat /\ DOMAIN trades = 1..Len(trades)
        /\ DOMAIN trades' = 1..(Len(trades) + 1)
    BY <1>1, LenProperties
  <2>2. \A i \in DOMAIN trades : AddsUp(trades[i])
    BY DEF RoundTripsAddUp, AddsUp
  <2>. QED  BY <1>1, <2>1, <2>2
<1>. QED  BY <1>1, <1>2 DEF RoundTripsAddUp, AddsUp, Value

(* The assignments of opening and closing fills keep the shape of the trade *)
(* in progress.                                                             *)
LEMMA CloseAssigns ==
    ASSUME NEW w \in WalkType, NEW n \in Nat, NEW v \in Int, NEW p \in Int, NEW c \in Nat
    PROVE  [w EXCEPT !.closeSize = n, !.closeValue = v, !.pnl = p, !.fillCount = c] \in WalkType
<1> DEFINE half == [w EXCEPT !.closeSize = n, !.closeValue = v]
<1>1. half \in WalkType
  BY DEF WalkType
<1>2. [w EXCEPT !.closeSize = n, !.closeValue = v, !.pnl = p, !.fillCount = c]
        = [half EXCEPT !.pnl = p, !.fillCount = c]
  BY DEF WalkType
<1> HIDE DEF half
<1>3. [half EXCEPT !.pnl = p, !.fillCount = c] \in WalkType
  BY <1>1 DEF WalkType
<1>. QED  BY <1>2, <1>3

LEMMA OpenAssigns ==
    ASSUME NEW w \in WalkType, NEW dir \in Directions,
           NEW n \in Nat, NEW v \in Int, NEW p \in Int, NEW c \in Nat
    PROVE  [w EXCEPT !.direction = dir, !.openSize = n, !.openCost = v,
                     !.pnl = p, !.fillCount = c] \in WalkType
<1> DEFINE first  == [w EXCEPT !.direction = dir, !.openSize = n]
           second == [first EXCEPT !.openCost = v, !.pnl = p]
<1>1. first \in WalkType
  BY DEF WalkType
<1>2. [w EXCEPT !.direction = dir, !.openSize = n, !.openCost = v, !.pnl = p, !.fillCount = c]
        = [second EXCEPT !.fillCount = c]
  BY DEF WalkType
<1> HIDE DEF first
<1>3. second \in WalkType
  BY <1>1 DEF WalkType
<1> HIDE DEF second
<1>4. [second EXCEPT !.fillCount = c] \in WalkType
  BY <1>3 DEF WalkType
<1>. QED  BY <1>2, <1>4

(* Opening and closing fills keep the shape of the trade in progress. *)
LEMMA AddTypes ==
    ASSUME NEW w \in WalkType, NEW f, f.sz \in Nat, f.px \in Nat, f.closedPnl \in Int,
           f.direction \in Directions, NEW taken \in Nat
    PROVE  /\ AddOpen(w, f) \in WalkType
           /\ AddClose(w, f, taken) \in WalkType
           /\ DerivedEntry(f) \in WalkType
<1>1. f.sz * f.px \in Int /\ taken * f.px \in Int
  OBVIOUS
<1>2. AddOpen(w, f) \in WalkType
  <2> DEFINE dir == IF w.direction = "none" THEN f.direction ELSE w.direction
             cost == w.openCost + f.sz * f.px
  <2>1. dir \in Directions /\ w.openSize + f.sz \in Nat /\ cost \in Int
        /\ w.pnl + f.closedPnl \in Int /\ w.fillCount + 1 \in Nat
    BY <1>1 DEF WalkType
  <2> HIDE DEF dir, cost
  <2>2. [w EXCEPT !.direction = dir, !.openSize = w.openSize + f.sz, !.openCost = cost,
                  !.pnl = w.pnl + f.closedPnl, !.fillCount = w.fillCount + 1] \in WalkType
    BY <2>1, OpenAssigns
  <2>. QED  BY <2>2 DEF AddOpen, dir, cost
<1>3. AddClose(w, f, taken) \in WalkType
  <2> DEFINE value == w.closeValue + taken * f.px
  <2>1. w.closeSize + taken \in Nat /\ value \in Int
        /\ w.pnl + f.closedPnl \in Int /\ w.fillCount + 1 \in Nat
    BY <1>1 DEF WalkType
  <2> HIDE DEF value
  <2>2. [w EXCEPT !.closeSize = w.closeSize + taken, !.closeValue = value,
                  !.pnl = w.pnl + f.closedPnl, !.fillCount = w.fillCount + 1] \in WalkType
    BY <2>1, CloseAssigns
  <2>. QED  BY <2>2 DEF AddClose, value
<1>4. DerivedEntry(f) \in WalkType
  <2> DEFINE cost == IF f.direction = "long" THEN f.sz * f.px - f.closedPnl
                     ELSE f.sz * f.px + f.closedPnl
  <2>1. cost \in Int
    BY <1>1
  <2> HIDE DEF cost
  <2>2. NoTrade \in WalkType
    BY DEF NoTrade, WalkType
  <2>3. [NoTrade EXCEPT !.direction = f.direction, !.openSize = f.sz, !.openCost = cost]
          \in WalkType
    BY <2>1, <2>2 DEF WalkType
  <2>. QED  BY <2>3 DEF DerivedEntry, cost
<1>. QED  BY <1>2, <1>3, <1>4

LEMMA TradeOfType ==
    ASSUME NEW w \in WalkType
    PROVE  TradeOf(w) \in TradeType
BY DEF TradeOf, TradeType, WalkType, Least

-------------------------------------------------------------------------------
(* One fill, by the case of the loop body it takes. *)

(* What holds of every fill before its case is looked at. *)
LEMMA FillFacts ==
    ASSUME IInv, NEW d \in Int, d # 0, NEW px \in Nat \ {0}, Fill(d, px)
    PROVE  /\ FillRow(pos, d, px).sz = Magnitude(d) /\ Magnitude(d) \in Nat \ {0}
           /\ FillRow(pos, d, px).px = px
           /\ FillRow(pos, d, px).kind = Kind(pos, d)
           /\ FillRow(pos, d, px).closedPnl = RealizedPnl(pos, d, px) - Fee
           /\ FillRow(pos, d, px).direction \in Directions
           /\ Kind(pos, d) = "open" => FillRow(pos, d, px).direction = SideOf(d)
           /\ Kind(pos, d) # "open" => FillRow(pos, d, px).direction = SideOf(pos.size)
           /\ RealizedPnl(pos, d, px) \in Int
           /\ pos' \in PosType /\ pos'.size = pos.size + d
           /\ start' = Base /\ Base \in Nat
           /\ FlatHasNoBasis'
<1>1. pos \in PosType /\ pos' = Trade(pos, d, px) /\ start' = Base
  BY DEF IInv, TypeInv, Fill
<1>2. pos' \in PosType /\ pos'.size = pos.size + d /\ RealizedPnl(pos, d, px) \in Int
  BY <1>1, TradeFacts
<1>3. Base \in Nat /\ Magnitude(d) \in Nat \ {0}
  BY <1>1 DEF Base, IInv, TypeInv, Magnitude, PosType
<1>4. FlatHasNoBasis'
  <2>1. CASE Kind(pos, d) = "open"
    <3>1. pos'.size # 0
      BY <1>1, <1>2, <2>1, KindFacts DEF SideOf, Directions, PosType
    <3>. QED  BY <3>1 DEF FlatHasNoBasis
  <2>2. CASE Kind(pos, d) = "close"
    BY <1>1, <1>2, <2>2, TradeFacts DEF FlatHasNoBasis
  <2>3. CASE Kind(pos, d) = "flip"
    <3>1. pos'.size # 0
      BY <1>1, <1>2, <2>3, KindFacts DEF Magnitude, PosType
    <3>. QED  BY <3>1 DEF FlatHasNoBasis
  <2>. QED  BY <1>1, <2>1, <2>2, <2>3, KindFacts
<1>5. FillRow(pos, d, px).direction \in Directions
  BY <1>1, KindFacts DEF FillRow, Directions
<1>. QED  BY <1>1, <1>2, <1>3, <1>4, <1>5 DEF FillRow

(* An opening fill: no trade is emitted, the remainder grows by the fill. *)
LEMMA OpenStep ==
    ASSUME ReconstructionAssumption, IInv,
           NEW d \in Int, d # 0, NEW px \in Nat \ {0}, Fill(d, px),
           Kind(pos, d) = "open"
    PROVE  IInv' /\ trades' = trades
                 /\ (InProgress => SideOf(pos'.size) = walk.direction)
<1> DEFINE f == FillRow(pos, d, px)
<1>1. /\ f.sz = Magnitude(d) /\ f.sz \in Nat \ {0} /\ f.px = px
      /\ f.direction = SideOf(d) /\ f.direction \in Directions
      /\ f.kind = "open"
      /\ pos' \in PosType /\ pos'.size = pos.size + d
      /\ start' = Base /\ Base \in Nat /\ FlatHasNoBasis'
  BY FillFacts
<1>2. pos \in PosType /\ walk \in WalkType /\ trades \in Seq(TradeType) /\ Fee \in Int
  BY DEF IInv, TypeInv, ReconstructionAssumption
<1>3. f.closedPnl = -Fee /\ pos'.basis = pos.basis + d * px
  <2>1. pos' = Trade(pos, d, px)
    BY DEF Fill
  <2>2. RealizedPnl(pos, d, px) = 0 /\ Trade(pos, d, px).basis = pos.basis + d * px
    BY <1>2, TradeFacts
  <2>3. f.closedPnl = RealizedPnl(pos, d, px) - Fee
    BY FillFacts
  <2>. QED  BY <1>2, <2>1, <2>2, <2>3
<1>4. /\ SideOf(pos.size) \in {"none", SideOf(d)}
      /\ SideOf(pos'.size) = SideOf(d)
      /\ Magnitude(pos'.size) = Magnitude(pos.size) + Magnitude(d)
  BY <1>1, <1>2, KindFacts
<1>5. InProgress => walk.direction = f.direction /\ walk.direction = SideOf(pos.size)
  BY <1>1, <1>2, <1>4 DEF IInv, WalkFollowsPosition, InProgress, WalkType
<1>6. WalkOpen(f)
  BY <1>1 DEF Fill
<1> HIDE DEF f
<1>7. walk' = AddOpen(walk, f) /\ trades' = trades
  BY <1>5, <1>6 DEF WalkOpen, InProgress
<1>8. walk' \in WalkType
  BY <1>1, <1>2, <1>3, <1>7, AddTypes
<1>9. /\ walk'.direction = f.direction /\ walk'.openSize = walk.openSize + f.sz
      /\ walk'.closeSize = walk.closeSize /\ walk'.closeValue = walk.closeValue
      /\ walk'.openCost = walk.openCost + f.sz * px
      /\ walk'.pnl = walk.pnl - Fee /\ walk'.fillCount = walk.fillCount + 1
  BY <1>1, <1>2, <1>3, <1>5, <1>7 DEF AddOpen, WalkType, InProgress
<1>10. InProgress'
  BY <1>1, <1>9 DEF InProgress, Directions
<1>11. ~InProgress => /\ walk.openSize = 0 /\ walk.closeSize = 0 /\ walk.openCost = 0
                      /\ walk.closeValue = 0 /\ walk.pnl = 0 /\ walk.fillCount = 0
  BY DEF IInv, IdleIsEmpty
<1>12. WalkFollowsPosition'
  <2>1. /\ walk.openSize \in Nat /\ walk.closeSize \in Nat
        /\ Magnitude(pos.size) \in Nat /\ Base \in Nat
    BY <1>1, <1>2 DEF WalkType, PosType, Magnitude
  <2>2. /\ walk.openSize >= walk.closeSize
        /\ walk.openSize - walk.closeSize + Base = Magnitude(pos.size)
    <3>1. CASE InProgress
      BY <2>1, <3>1 DEF IInv, WalkFollowsPosition, InProgress, Base
    <3>2. CASE ~InProgress
      BY <1>11, <2>1, <3>2 DEF InProgress, Base
    <3>. QED  BY <3>1, <3>2
  <2>3. walk'.direction = SideOf(pos'.size)
    BY <1>1, <1>4, <1>9
  <2>. QED  BY <1>1, <1>4, <1>9, <2>1, <2>2, <2>3 DEF WalkFollowsPosition
<1>13. BooksBalance'
  <2> SUFFICES ASSUME start' = 0
               PROVE  Balanced(walk, pos)'
    BY DEF BooksBalance
  <2>1. Balanced(walk, pos)
    <3>1. CASE InProgress
      BY <1>1, <3>1 DEF IInv, BooksBalance, Base, InProgress
    <3>2. CASE ~InProgress
      <4>1. pos.basis = 0
        BY <1>1, <1>2, <3>2 DEF Base, InProgress, Magnitude, PosType, IInv, FlatHasNoBasis
      <4>. QED  BY <1>2, <1>11, <3>2, <4>1 DEF Balanced
    <3>. QED  BY <3>1, <3>2
  <2>2. (walk.fillCount + 1) * Fee = walk.fillCount * Fee + Fee
        /\ walk.fillCount * Fee \in Int
    BY <1>2 DEF WalkType
  <2>3. d * px \in Int /\ f.sz * px = IF d > 0 THEN d * px ELSE -(d * px)
    BY <1>1 DEF Magnitude
  <2>4. f.direction = IF d > 0 THEN "long" ELSE "short"
    BY <1>1 DEF SideOf, Directions
  <2>5. walk.direction # f.direction => ~InProgress
    BY <1>5
  <2>6. walk.openCost \in Int /\ walk.closeValue \in Int /\ walk.pnl \in Int /\ pos.basis \in Int
    BY <1>2 DEF WalkType, PosType
  <2>9. Fee \in Int
    BY <1>2
  <2> DEFINE cost == d * px
             fees == walk.fillCount * Fee
             feesAfter == (walk.fillCount + 1) * Fee
  <2>7. CASE d > 0
    <3>1. walk'.openCost = walk.openCost + d * px /\ walk'.direction = "long"
      BY <1>9, <2>3, <2>4, <2>7
    <3>2. walk.direction = "long" \/ (walk.closeValue = 0 /\ walk.openCost = 0)
      BY <1>11, <2>4, <2>5, <2>7
    <3>3. walk.pnl = walk.closeValue - walk.openCost + pos.basis - walk.fillCount * Fee
      BY <2>1, <2>6, <3>2 DEF Balanced
    <3>4. walk.pnl - Fee = walk.closeValue - (walk.openCost + d * px) + (pos.basis + d * px)
                             - (walk.fillCount + 1) * Fee
      <4>1. /\ cost \in Int /\ fees \in Int /\ feesAfter = fees + Fee
        BY <2>2, <2>3
      <4>2. walk.pnl = walk.closeValue - walk.openCost + pos.basis - fees
        BY <3>3
      <4> HIDE DEF cost, fees, feesAfter
      <4>3. walk.pnl - Fee = walk.closeValue - (walk.openCost + cost) + (pos.basis + cost) - feesAfter
        BY <2>9, <2>6, <4>1, <4>2
      <4>. QED  BY <4>3 DEF cost, feesAfter
    <3>. QED  BY <1>3, <1>9, <3>1, <3>4 DEF Balanced
  <2>8. CASE ~(d > 0)
    <3>1. walk'.openCost = walk.openCost - d * px /\ walk'.direction = "short"
      BY <1>9, <2>3, <2>4, <2>6, <2>8
    <3>2. walk.direction # "long" \/ (walk.closeValue = 0 /\ walk.openCost = 0)
      BY <1>11, <2>4, <2>5, <2>8
    <3>3. walk.pnl = walk.openCost - walk.closeValue + pos.basis - walk.fillCount * Fee
      BY <2>1, <2>6, <3>2 DEF Balanced
    <3>4. walk.pnl - Fee = (walk.openCost - d * px) - walk.closeValue + (pos.basis + d * px)
                             - (walk.fillCount + 1) * Fee
      <4>1. /\ cost \in Int /\ fees \in Int /\ feesAfter = fees + Fee
        BY <2>2, <2>3
      <4>2. walk.pnl = walk.openCost - walk.closeValue + pos.basis - fees
        BY <3>3
      <4> HIDE DEF cost, fees, feesAfter
      <4>3. walk.pnl - Fee = (walk.openCost - cost) - walk.closeValue + (pos.basis + cost) - feesAfter
        BY <2>9, <2>6, <4>1, <4>2
      <4>. QED  BY <4>3 DEF cost, feesAfter
    <3>. QED  BY <1>3, <1>9, <3>1, <3>4 DEF Balanced
  <2>. QED  BY <2>7, <2>8
<1>14. RoundTripsAddUp'
  BY <1>7 DEF IInv, RoundTripsAddUp, Value
<1>15. IdleIsEmpty'
  BY <1>10 DEF IdleIsEmpty
<1>. QED  BY <1>1, <1>2, <1>4, <1>5, <1>7, <1>8, <1>12, <1>13, <1>14, <1>15
          DEF IInv, TypeInv

(* What the code promises of a fill that falls into a round trip. *)
EmitsWhenOver ==
    InProgress /\ start = 0 =>
        (Len(trades') > Len(trades) <=> SideOf(pos'.size) # walk.direction)

(* Once a trade was emitted nothing is in progress. *)
LEMMA IdleAfterEmit ==
    ASSUME pos' \in PosType, start' \in Nat, FlatHasNoBasis', walk' = NoTrade,
           trades' \in Seq(TradeType), RoundTripsAddUp'
    PROVE  IInv'
<1>1. walk' \in WalkType
  BY DEF NoTrade, WalkType
<1>2. walk'.direction = "none" /\ IdleIsEmpty'
  BY DEF NoTrade, IdleIsEmpty
<1>. QED  BY <1>1, <1>2
          DEF IInv, TypeInv, InProgress, WalkFollowsPosition, BooksBalance

(* A closing fill taken by the trade in progress. *)
LEMMA Taken ==
    ASSUME NEW f, NEW taken \in Nat, walk \in WalkType, f.closedPnl \in Int, f.px \in Nat
    PROVE  LET w == AddClose(walk, f, taken)
           IN  /\ w.direction = walk.direction
               /\ w.openSize = walk.openSize /\ w.openCost = walk.openCost
               /\ w.closeSize = walk.closeSize + taken
               /\ w.closeValue = walk.closeValue + taken * f.px
               /\ w.pnl = walk.pnl + f.closedPnl
               /\ w.fillCount = walk.fillCount + 1
BY DEF AddClose, WalkType

(* The books after a reduction by d at px balance the position that remains. *)
LEMMA ReductionBalances ==
    ASSUME Fee \in Int, walk \in WalkType, pos \in PosType,
           InProgress, walk.direction = SideOf(pos.size), Balanced(walk, pos),
           NEW d \in Int, NEW px \in Nat, NEW rest \in PosType, NEW f, NEW taken \in Nat,
           f.px = px, taken = IF pos.size > 0 THEN -d ELSE d,
           f.closedPnl = (rest.basis - pos.basis - d * px) - Fee
    PROVE  Balanced(AddClose(walk, f, taken), rest)
<1> DEFINE w == AddClose(walk, f, taken)
           proceeds == d * px
           fees == walk.fillCount * Fee
           feesAfter == (walk.fillCount + 1) * Fee
<1>1. /\ proceeds \in Int /\ fees \in Int /\ feesAfter = fees + Fee
      /\ taken * px = IF pos.size > 0 THEN -proceeds ELSE proceeds
  BY DEF WalkType
<1>2. /\ walk.openCost \in Int /\ walk.closeValue \in Int /\ walk.pnl \in Int
      /\ pos.basis \in Int /\ pos.size \in Int /\ rest.basis \in Int /\ px \in Nat
  BY DEF WalkType, PosType
<1>3. f.closedPnl = rest.basis - pos.basis - proceeds - Fee /\ f.closedPnl \in Int
  BY <1>1, <1>2
<1>4. /\ w.direction = walk.direction /\ w.openCost = walk.openCost
      /\ w.closeValue = walk.closeValue + taken * px
      /\ w.pnl = walk.pnl + f.closedPnl /\ w.fillCount = walk.fillCount + 1
  BY <1>3, Taken
<1>5. walk.direction = IF pos.size > 0 THEN "long" ELSE "short"
  BY <1>2 DEF SideOf, InProgress
<1>6. walk.pnl = (IF pos.size > 0 THEN walk.closeValue - walk.openCost
                  ELSE walk.openCost - walk.closeValue) + pos.basis - fees
  BY <1>5 DEF Balanced
<1>7. Balanced(w, rest)
        <=> w.pnl = (IF pos.size > 0 THEN w.closeValue - w.openCost
                     ELSE w.openCost - w.closeValue) + rest.basis - feesAfter
  BY <1>4, <1>5 DEF Balanced
<1>8. w.closeValue = walk.closeValue + (IF pos.size > 0 THEN -proceeds ELSE proceeds)
  BY <1>1, <1>4
<1> HIDE DEF w, proceeds, fees, feesAfter
<1>9. CASE pos.size > 0
  <2>1. walk.pnl = walk.closeValue - walk.openCost + pos.basis - fees
    BY <1>6, <1>9
  <2>2. w.openCost = walk.openCost /\ w.closeValue = walk.closeValue - proceeds
        /\ w.pnl = walk.pnl + f.closedPnl
    BY <1>1, <1>2, <1>4, <1>8, <1>9
  <2>3. w.pnl = w.closeValue - w.openCost + rest.basis - feesAfter
    BY <1>1, <1>2, <1>3, <2>1, <2>2
  <2>. QED  BY <1>7, <1>9, <2>3 DEF w
<1>10. CASE ~(pos.size > 0)
  <2>1. walk.pnl = walk.openCost - walk.closeValue + pos.basis - fees
    BY <1>6, <1>10
  <2>2. w.openCost = walk.openCost /\ w.closeValue = walk.closeValue + proceeds
        /\ w.pnl = walk.pnl + f.closedPnl
    BY <1>4, <1>8, <1>10
  <2>3. w.pnl = w.openCost - w.closeValue + rest.basis - feesAfter
    BY <1>1, <1>2, <1>3, <2>1, <2>2
  <2>. QED  BY <1>7, <1>10, <2>3 DEF w
<1>. QED  BY <1>9, <1>10

(* A closing fill: the trade ends when its remainder is gone, else it goes on. *)
LEMMA CloseStep ==
    ASSUME ReconstructionAssumption, IInv,
           NEW d \in Int, d # 0, NEW px \in Nat \ {0}, Fill(d, px),
           Kind(pos, d) = "close"
    PROVE  IInv' /\ EmitsWhenOver
<1> DEFINE f == FillRow(pos, d, px)
<1>1. /\ f.sz = Magnitude(d) /\ f.sz \in Nat \ {0} /\ f.px = px
      /\ f.direction = SideOf(pos.size) /\ f.direction \in Directions
      /\ f.kind = "close"
      /\ pos' \in PosType /\ pos'.size = pos.size + d
      /\ start' = Base /\ Base \in Nat /\ FlatHasNoBasis'
  BY FillFacts
<1>2. /\ pos \in PosType /\ walk \in WalkType /\ trades \in Seq(TradeType) /\ start \in Nat
      /\ Fee \in Int /\ pos.size \in Int
  BY DEF IInv, TypeInv, ReconstructionAssumption, PosType
<1>3. f.closedPnl = (pos'.basis - pos.basis - d * px) - Fee /\ f.closedPnl \in Int
  <2>1. pos' = Trade(pos, d, px)
    BY DEF Fill
  <2>2. RealizedPnl(pos, d, px) = Trade(pos, d, px).basis - pos.basis - d * px
    BY <1>2, TradeFacts
  <2>3. f.closedPnl = RealizedPnl(pos, d, px) - Fee /\ RealizedPnl(pos, d, px) \in Int
    BY FillFacts
  <2>. QED  BY <1>2, <2>1, <2>2, <2>3
<1>4. /\ Magnitude(d) <= Magnitude(pos.size)
      /\ Magnitude(pos'.size) = Magnitude(pos.size) - Magnitude(d)
      /\ SideOf(pos'.size) = IF pos'.size = 0 THEN "none" ELSE SideOf(pos.size)
      /\ Magnitude(pos.size) \in Nat
      /\ pos'.size = 0 <=> Magnitude(pos.size) = Magnitude(d)
      /\ Magnitude(d) = IF pos.size > 0 THEN -d ELSE d
  <2>1. /\ Magnitude(d) <= Magnitude(pos.size) /\ SideOf(pos.size) \in Directions
        /\ Magnitude(pos'.size) = Magnitude(pos.size) - Magnitude(d)
        /\ SideOf(pos'.size) = IF pos'.size = 0 THEN "none" ELSE SideOf(pos.size)
    BY <1>1, <1>2, KindFacts
  <2>. QED  BY <1>1, <1>2, <2>1 DEF Magnitude, SideOf, Directions
<1>5. WalkClose(f) /\ pos' = Trade(pos, d, px)
  BY <1>1 DEF Fill
<1> HIDE DEF f
<1>6. CASE ~InProgress
  <2> DEFINE w == AddClose(DerivedEntry(f), f, f.sz)
  <2>1. w \in WalkType
    <3> DEFINE entry == DerivedEntry(f)
    <3>1. entry \in WalkType
      BY <1>1, <1>2, <1>3, AddTypes
    <3> HIDE DEF entry
    <3>2. f.sz \in Nat /\ f.px \in Nat
      BY <1>1
    <3>3. AddClose(entry, f, f.sz) \in WalkType
      BY <1>1, <1>3, <3>1, <3>2, AddTypes
    <3>. QED  BY <3>3 DEF entry
  <2>2. w.openSize = f.sz /\ w.closeSize = f.sz /\ w.direction # "none"
    BY <1>1 DEF AddClose, DerivedEntry, NoTrade, Directions
  <2>3. Complete(w) /\ Emits(w)
    BY <1>1, <2>2 DEF Complete, Emits
  <2>4. walk' = NoTrade /\ trades' = Append(trades, TradeOf(w))
    BY <1>5, <1>6, <2>3 DEF WalkClose, Emit, InProgress
  <2>5. AddsUp(TradeOf(w))
    <3>1. Base # 0
      BY <1>1, <1>4, <1>6 DEF Base, InProgress
    <3>. QED  BY <3>1 DEF AddsUp, TradeOf
  <2>6. trades' \in Seq(TradeType) /\ RoundTripsAddUp'
    BY <1>2, <2>1, <2>4, <2>5, AppendAddsUp, TradeOfType DEF IInv
  <2>. QED  BY <1>1, <1>6, <2>4, <2>6, IdleAfterEmit DEF EmitsWhenOver
<1>7. CASE InProgress
  <2> DEFINE w == AddClose(walk, f, f.sz)
  <2>1. w \in WalkType
    BY <1>1, <1>2, <1>3, AddTypes
  <2>2. /\ w.direction = walk.direction /\ w.openSize = walk.openSize
        /\ w.closeSize = walk.closeSize + f.sz
    BY <1>1, <1>2, <1>3, Taken
  <2>3. /\ walk.direction = SideOf(pos.size) /\ walk.openSize > walk.closeSize
        /\ walk.openSize - walk.closeSize + start = Magnitude(pos.size)
        /\ walk.openSize \in Nat /\ walk.closeSize \in Nat /\ Base = start
        /\ walk.direction # "none"
    BY <1>2, <1>7 DEF IInv, WalkFollowsPosition, WalkType, Base, InProgress
  <2>4. start = 0 => Balanced(w, pos')
    BY <1>1, <1>2, <1>3, <1>4, <1>7, <2>3, ReductionBalances DEF IInv, BooksBalance
  <2>5. \/ Complete(w) /\ Emit(w)
        \/ ~Complete(w) /\ walk' = w /\ trades' = trades
    BY <1>5, <1>7 DEF WalkClose, InProgress
  <2> HIDE DEF w
  <2>6. CASE Complete(w)
    <3>1. Emits(w)
      BY <1>1, <2>2, <2>3 DEF Emits
    <3>2. walk' = NoTrade /\ trades' = Append(trades, TradeOf(w))
      BY <2>5, <2>6, <3>1 DEF Emit
    <3>3. start = 0 => pos'.size = 0 /\ w.closeSize = w.openSize
      <4>1. walk.closeSize + f.sz >= walk.openSize
        BY <2>2, <2>6 DEF Complete
      <4>2. f.sz <= Magnitude(pos.size)
        BY <1>1, <1>4
      <4>3. start = 0 => f.sz = Magnitude(pos.size) /\ walk.closeSize + f.sz = walk.openSize
        <5>1. f.sz \in Nat /\ Magnitude(pos.size) \in Nat
          BY <1>1, <1>4
        <5>2. start = 0 => walk.openSize - walk.closeSize = Magnitude(pos.size)
          BY <2>3, <5>1
        <5>. QED  BY <2>3, <4>1, <4>2, <5>1, <5>2
      <4>4. f.sz = Magnitude(pos.size) => pos'.size = 0
        BY <1>1, <1>4
      <4>. QED  BY <2>2, <4>3, <4>4
    <3>4. AddsUp(TradeOf(w))
      <4>1. start = 0 => pos'.basis = 0
        BY <1>1, <3>3 DEF FlatHasNoBasis
      <4>2. start = 0 => w.pnl = (IF w.direction = "long" THEN w.closeValue - w.openCost
                                  ELSE w.openCost - w.closeValue) - w.fillCount * Fee
        <5> DEFINE fees == w.fillCount * Fee
        <5>1. w.closeValue \in Int /\ w.openCost \in Int /\ fees \in Int
          BY <1>2, <2>1 DEF WalkType
        <5>2. start = 0 => w.pnl = (IF w.direction = "long" THEN w.closeValue - w.openCost
                                    ELSE w.openCost - w.closeValue) + 0 - fees
          BY <2>4, <4>1 DEF Balanced
        <5> HIDE DEF fees
        <5>3. start = 0 => w.pnl = (IF w.direction = "long" THEN w.closeValue - w.openCost
                                    ELSE w.openCost - w.closeValue) - fees
          BY <5>1, <5>2
        <5>. QED  BY <5>3 DEF fees
      <4>. QED  BY <2>3, <3>3, <4>2 DEF AddsUp, TradeOf, Value, Least
    <3>5. trades' \in Seq(TradeType) /\ Len(trades') = Len(trades) + 1 /\ RoundTripsAddUp'
      BY <1>2, <2>1, <3>2, <3>4, AppendAddsUp, TradeOfType DEF IInv
    <3>6. EmitsWhenOver
      <4>1. Len(trades') > Len(trades)
        BY <1>2, <3>5, LenProperties
      <4>. QED  BY <1>4, <2>3, <3>3, <4>1 DEF EmitsWhenOver
    <3>. QED  BY <1>1, <3>2, <3>5, <3>6, IdleAfterEmit
  <2>7. CASE ~Complete(w)
    <3>1. walk' = w /\ trades' = trades
      BY <2>5, <2>7
    <3>2. f.sz < walk.openSize - walk.closeSize
      BY <1>1, <2>2, <2>3, <2>7 DEF Complete
    <3>3. pos'.size # 0 /\ SideOf(pos'.size) = walk.direction
      BY <1>1, <1>2, <1>4, <2>3, <3>2
    <3>4. InProgress' /\ IdleIsEmpty'
      BY <2>2, <2>3, <3>1 DEF InProgress, IdleIsEmpty
    <3>5. WalkFollowsPosition'
      BY <1>1, <1>2, <1>4, <2>2, <2>3, <3>1, <3>2, <3>3 DEF WalkFollowsPosition
    <3>6. BooksBalance'
      BY <1>1, <2>3, <2>4, <3>1 DEF BooksBalance, Balanced
    <3>7. RoundTripsAddUp'
      BY <3>1 DEF IInv, RoundTripsAddUp, Value
    <3>8. EmitsWhenOver
      BY <1>2, <3>1, <3>3, LenProperties DEF EmitsWhenOver
    <3>. QED  BY <1>1, <1>2, <2>1, <3>1, <3>4, <3>5, <3>6, <3>7, <3>8 DEF IInv, TypeInv
  <2>. QED  BY <2>6, <2>7
<1>. QED  BY <1>6, <1>7

(* A flip: what is left of the trade in progress is closed and emitted; a   *)
(* flip that finds none leaves everything as it is.                         *)
LEMMA FlipStep ==
    ASSUME ReconstructionAssumption, IInv,
           NEW d \in Int, d # 0, NEW px \in Nat \ {0}, Fill(d, px),
           Kind(pos, d) = "flip"
    PROVE  IInv' /\ EmitsWhenOver
<1> DEFINE f == FillRow(pos, d, px)
<1>1. /\ f.sz = Magnitude(d) /\ f.sz \in Nat \ {0} /\ f.px = px
      /\ f.direction \in Directions /\ f.kind = "flip"
      /\ pos' \in PosType /\ pos'.size = pos.size + d
      /\ start' = Base /\ Base \in Nat /\ FlatHasNoBasis'
  BY FillFacts
<1>2. /\ pos \in PosType /\ walk \in WalkType /\ trades \in Seq(TradeType) /\ start \in Nat
      /\ Fee \in Int /\ pos.size \in Int /\ pos.basis \in Int
  BY DEF IInv, TypeInv, ReconstructionAssumption, PosType
<1>3. f.closedPnl = (pos.size * px - pos.basis) - Fee /\ f.closedPnl \in Int
  <2>1. RealizedPnl(pos, d, px) = pos.size * px - pos.basis
    BY <1>2, TradeFacts
  <2>2. f.closedPnl = RealizedPnl(pos, d, px) - Fee /\ RealizedPnl(pos, d, px) \in Int
    BY FillFacts
  <2>. QED  BY <1>2, <2>1, <2>2
<1>4. /\ SideOf(pos'.size) # SideOf(pos.size)
      /\ Magnitude(pos.size) < f.sz /\ Magnitude(pos.size) \in Nat
      /\ Magnitude(pos.size) = IF pos.size > 0 THEN pos.size ELSE -pos.size
  <2>1. SideOf(pos'.size) # SideOf(pos.size) /\ Magnitude(pos.size) < f.sz
    BY <1>1, <1>2, KindFacts
  <2>. QED  BY <1>2, <2>1 DEF Magnitude
<1>5. WalkFlip(f)
  BY <1>1 DEF Fill
<1> HIDE DEF f
<1>6. CASE ~InProgress
  <2>1. walk' = walk /\ trades' = trades
    BY <1>5, <1>6 DEF WalkFlip, InProgress
  <2>2. ~InProgress' /\ IdleIsEmpty' /\ RoundTripsAddUp'
    BY <1>6, <2>1 DEF InProgress, IInv, IdleIsEmpty, RoundTripsAddUp, Value
  <2>. QED  BY <1>1, <1>2, <1>6, <2>1, <2>2
            DEF IInv, TypeInv, WalkFollowsPosition, BooksBalance, EmitsWhenOver
<1>7. CASE InProgress
  <2> DEFINE rest  == walk.openSize - walk.closeSize
             taken == Least(rest, f.sz)
             w     == AddClose(walk, f, taken)
  <2>1. /\ walk.direction = SideOf(pos.size) /\ walk.openSize > walk.closeSize
        /\ rest + start = Magnitude(pos.size)
        /\ walk.openSize \in Nat /\ walk.closeSize \in Nat /\ Base = start
        /\ walk.direction # "none"
    BY <1>2, <1>7 DEF IInv, WalkFollowsPosition, WalkType, Base, InProgress
  <2>2. taken \in Nat /\ taken = rest /\ f.sz \in Nat
    BY <1>1, <1>2, <1>4, <2>1 DEF Least
  <2> HIDE DEF taken
  <2>3. w \in WalkType
    BY <1>1, <1>2, <1>3, <2>2, AddTypes
  <2>4. /\ w.direction = walk.direction /\ w.openSize = walk.openSize
        /\ w.closeSize = walk.openSize
    <3>1. /\ w.direction = walk.direction /\ w.openSize = walk.openSize
          /\ w.closeSize = walk.closeSize + taken
      BY <1>1, <1>2, <1>3, <2>2, Taken
    <3>2. walk.closeSize + taken = walk.openSize
      BY <2>1, <2>2
    <3>. QED  BY <3>1, <3>2
  <2>5. start = 0 => Balanced(w, Flat)
    <3> SUFFICES ASSUME start = 0
                 PROVE  Balanced(w, Flat)
      OBVIOUS
    <3>1. Balanced(walk, pos) /\ taken = Magnitude(pos.size)
      BY <1>7, <2>1, <2>2 DEF IInv, BooksBalance
    <3>2. f.closedPnl = (Flat.basis - pos.basis - (-pos.size) * px) - Fee
      <4>1. (-pos.size) * px = -(pos.size * px) /\ pos.size * px \in Int
        BY <1>2
      <4> DEFINE proceeds == pos.size * px
      <4>2. proceeds \in Int /\ f.closedPnl = (proceeds - pos.basis) - Fee
            /\ (-pos.size) * px = -proceeds /\ Flat.basis = 0
        BY <1>3, <4>1 DEF Flat
      <4> HIDE DEF proceeds
      <4>3. f.closedPnl = (Flat.basis - pos.basis - (-proceeds)) - Fee
        BY <1>2, <4>2
      <4>. QED  BY <4>2, <4>3
    <3>3. taken = IF pos.size > 0 THEN -(-pos.size) ELSE -pos.size
      BY <1>2, <1>4, <3>1
    <3>4. Flat \in PosType /\ -pos.size \in Int /\ px \in Nat
      BY <1>2 DEF Flat, PosType
    <3>. QED  BY <1>1, <1>2, <1>7, <2>1, <2>2, <3>1, <3>2, <3>3, <3>4, ReductionBalances
  <2>6. Emit(w)
    BY <1>5, <1>7 DEF WalkFlip, InProgress, taken
  <2> HIDE DEF w
  <2>7. Emits(w)
    BY <1>1, <2>1, <2>4 DEF Emits
  <2>8. walk' = NoTrade /\ trades' = Append(trades, TradeOf(w))
    BY <2>6, <2>7 DEF Emit
  <2>9. AddsUp(TradeOf(w))
    <3> DEFINE fees == w.fillCount * Fee
    <3>1. w.closeValue \in Int /\ w.openCost \in Int /\ fees \in Int
      BY <1>2, <2>3 DEF WalkType
    <3>2. start = 0 => w.pnl = (IF w.direction = "long" THEN w.closeValue - w.openCost
                                ELSE w.openCost - w.closeValue) + 0 - fees
      BY <2>5 DEF Balanced, Flat
    <3> HIDE DEF fees
    <3>3. start = 0 => w.pnl = (IF w.direction = "long" THEN w.closeValue - w.openCost
                                ELSE w.openCost - w.closeValue) - fees
      BY <3>1, <3>2
    <3>. QED  BY <2>1, <2>4, <3>3 DEF AddsUp, TradeOf, Value, Least, fees
  <2>10. trades' \in Seq(TradeType) /\ Len(trades') = Len(trades) + 1 /\ RoundTripsAddUp'
    BY <1>2, <2>3, <2>8, <2>9, AppendAddsUp, TradeOfType DEF IInv
  <2>11. EmitsWhenOver
    <3>1. Len(trades') > Len(trades)
      BY <1>2, <2>10, LenProperties
    <3>. QED  BY <1>4, <2>1, <3>1 DEF EmitsWhenOver
  <2>. QED  BY <1>1, <2>8, <2>10, <2>11, IdleAfterEmit
<1>. QED  BY <1>6, <1>7

-------------------------------------------------------------------------------
(* The specification. *)

LEMMA InitIInv == ASSUME ReconstructionAssumption, Init PROVE IInv
<1>1. PICK n \in InitialSizes, px \in Prices : pos = [size |-> n, basis |-> n * px]
  BY DEF Init
<1>2. n \in Int /\ px \in Nat
  BY DEF ReconstructionAssumption
<1>3. n * px \in Int /\ (n = 0 => n * px = 0)
  BY <1>2
<1>4. pos \in PosType /\ FlatHasNoBasis
  BY <1>1, <1>2, <1>3 DEF PosType, FlatHasNoBasis
<1>5. walk \in WalkType /\ ~InProgress /\ IdleIsEmpty
  BY DEF Init, NoTrade, WalkType, InProgress, IdleIsEmpty
<1>6. trades \in Seq(TradeType) /\ RoundTripsAddUp
  BY DEF Init, RoundTripsAddUp
<1>. QED  BY <1>4, <1>5, <1>6
          DEF Init, IInv, TypeInv, WalkFollowsPosition, BooksBalance

LEMMA StepIInv ==
    ASSUME ReconstructionAssumption, IInv, [Next]_vars
    PROVE  IInv' /\ (UNCHANGED vars \/ EmitsWhenOver)
<1>1. CASE UNCHANGED vars
  BY <1>1 DEF vars, IInv, TypeInv, FlatHasNoBasis, IdleIsEmpty, InProgress,
              WalkFollowsPosition, BooksBalance, Balanced, RoundTripsAddUp, Value
<1>2. CASE Next
  <2>1. PICK d \in Int, px \in Nat \ {0} : d # 0 /\ Fill(d, px)
    <3>1. PICK n \in Lots, px \in Prices : Fill(n, px) \/ Fill(-n, px)
      BY <1>2 DEF Next
    <3>2. n \in Nat \ {0} /\ px \in Nat \ {0} /\ -n \in Int /\ n \in Int /\ -n # 0
      BY DEF ReconstructionAssumption
    <3>. QED  BY <3>1, <3>2
  <2>2. Kind(pos, d) \in {"open", "close", "flip"}
    BY <2>1, KindFacts DEF IInv, TypeInv
  <2>3. CASE Kind(pos, d) = "open"
    <3>1. IInv' /\ trades' = trades /\ (InProgress => SideOf(pos'.size) = walk.direction)
      BY <2>1, <2>3, OpenStep
    <3>. QED  BY <3>1, LenProperties DEF EmitsWhenOver, IInv, TypeInv
  <2>4. CASE Kind(pos, d) = "close"
    BY <2>1, <2>4, CloseStep
  <2>5. CASE Kind(pos, d) = "flip"
    BY <2>1, <2>5, FlipStep
  <2>. QED  BY <2>2, <2>3, <2>4, <2>5
<1>. QED  BY <1>1, <1>2

LEMMA Invariance == Spec => []IInv
<1>1. Init => IInv
  BY InitIInv, ReconstructionAssumption
<1>2. IInv /\ [Next]_vars => IInv'
  BY StepIInv, ReconstructionAssumption
<1>. QED  BY <1>1, <1>2, PTL DEF Spec

(* Wherever the window begins, the open remainder of the trade in progress  *)
(* is the part of the position that its own fills built.                    *)
THEOREM WalkFollows == Spec => []WalkFollowsPosition
<1>1. IInv => WalkFollowsPosition
  BY DEF IInv
<1>. QED  BY <1>1, Invariance, PTL

(* A trade that began without a position closes what it opened, and its     *)
(* profit is what its prices and fees come to.                              *)
THEOREM RoundTrips == Spec => []RoundTripsAddUp
<1>1. IInv => RoundTripsAddUp
  BY DEF IInv
<1>. QED  BY <1>1, Invariance, PTL

(* Such a trade is emitted by the fill that ends its position and by no     *)
(* other.                                                                   *)
THEOREM EmittedAtTheEnd == Spec => EmittedWhenPositionEnds
<1>1. IInv /\ [Next]_vars
        => [InProgress /\ start = 0 =>
              (Len(trades') > Len(trades) <=> SideOf(pos'.size) # walk.direction)]_vars
  BY StepIInv, ReconstructionAssumption DEF EmitsWhenOver
<1>. QED  BY <1>1, Invariance, PTL DEF Spec, EmittedWhenPositionEnds

-------------------------------------------------------------------------------
(* The second view: compute_trades over the rows of the same orders. *)

LocalType == [direction : Directions \cup {"none"}, openSize : Nat, openCost : Int,
              closeSize : Nat, closeValue : Int, fillCount : Nat]

OrderType == [kind : {"none", "open", "close"}, size : Int, value : Int]

(* What the order being placed adds to one side of the books. *)
Due(kind, n) == IF order.kind = kind THEN n ELSE 0

(* The walk over the exchange's fills is ahead of compute_trades by what has   *)
(* filled of the order being placed.                                         *)
Ahead(w) ==
    /\ w.direction \in Directions
    /\ w.openSize = local.openSize + Due("open", Magnitude(order.size))
    /\ w.openCost = local.openCost + Due("open", order.value)
    /\ w.closeSize = local.closeSize + Due("close", Magnitude(order.size))
    /\ w.closeValue = local.closeValue + Due("close", order.value)
    /\ local.fillCount + (IF order.kind = "none" THEN 0 ELSE 1) <= w.fillCount
    /\ order.kind = "none" => local.direction = w.direction
    /\ order.kind = "open" => /\ w.direction = SideOf(order.size)
                              /\ local.direction \in {"none", w.direction}
    /\ order.kind = "close" => /\ local.direction = w.direction
                               /\ SideOf(order.size) \in Directions \ {w.direction}

SameTrades(made, logged) ==
    /\ made \in Seq(TradeType) /\ Len(logged) = Len(made)
    /\ \E S : logged \in Seq(S)
    /\ \A i \in DOMAIN made : Alike(made[i], logged[i])

(* The trade the order being placed has ended, and its row has not. *)
EndedBy(w, t) ==
    /\ w \in WalkType /\ Ahead(w) /\ w.openSize <= w.closeSize
    /\ t \in TradeType
    /\ t.side = w.direction /\ t.size = Least(w.openSize, w.closeSize)
    /\ t.openSize = w.openSize /\ t.openCost = w.openCost
    /\ t.closeSize = w.closeSize /\ t.closeValue = w.closeValue
    /\ t.fillCount = w.fillCount

Ongoing == InProgress /\ start = 0 /\ Ahead(walk) /\ SameTrades(trades, localTrades)

Idle == ~InProgress /\ pos.size = 0 /\ order = NoOrder /\ local = NoLocal
        /\ SameTrades(trades, localTrades)

Ended == /\ ~InProgress /\ pos.size = 0 /\ order.kind = "close"
         /\ \E before \in Seq(TradeType), w \in WalkType, t \in TradeType :
               /\ EndedBy(w, t) /\ trades = Append(before, t)
               /\ SameTrades(before, localTrades)

ViewTypes == /\ local \in LocalType /\ order \in OrderType
             /\ local.direction = "none" => local = NoLocal
             /\ order.kind = "none" => order = NoOrder
             /\ order.size = 0 => order.kind = "none"

(* As long as every order is seen and none turns the position, both views hold *)
(* the same trade in progress up to the order being placed, which may have     *)
(* ended it, and there is one exactly while a position is open.               *)
InStep == seen => ViewTypes /\ (Ongoing \/ Idle \/ Ended)

ViewsInv == IInv /\ InStep

LEMMA AppendAlike ==
    ASSUME NEW made, NEW logged, SameTrades(made, logged),
           NEW t \in TradeType, NEW l, Alike(t, l)
    PROVE  SameTrades(Append(made, t), Append(logged, l))
<1>1. PICK R : logged \in Seq(R) /\ l \in R
  <2>1. PICK S : logged \in Seq(S)
    BY DEF SameTrades
  <2>2. logged \in Seq(S \cup {l})
    BY <2>1
  <2>. QED  BY <2>2
<1> DEFINE made2 == Append(made, t)
           logged2 == Append(logged, l)
<1>2. /\ Len(made2) = Len(made) + 1 /\ made2 \in Seq(TradeType)
      /\ \A i \in 1..Len(made) : made2[i] = made[i]
      /\ made2[Len(made) + 1] = t
  BY AppendProperties DEF SameTrades
<1>3. /\ Len(logged2) = Len(logged) + 1 /\ logged2 \in Seq(R)
      /\ \A i \in 1..Len(logged) : logged2[i] = logged[i]
      /\ logged2[Len(logged) + 1] = l
  BY <1>1, AppendProperties
<1> HIDE DEF made2, logged2
<1>4. /\ Len(made) \in Nat /\ DOMAIN made = 1..Len(made)
      /\ DOMAIN made2 = 1..(Len(made) + 1)
  BY <1>2, LenProperties DEF SameTrades
<1>5. Len(logged) = Len(made) /\ \A i \in 1..Len(made) : Alike(made[i], logged[i])
  BY <1>4 DEF SameTrades
<1>6. \A i \in DOMAIN made2 : Alike(made2[i], logged2[i])
  <2> SUFFICES ASSUME NEW i \in 1..(Len(made) + 1)
               PROVE  Alike(made2[i], logged2[i])
    BY <1>4
  <2>1. CASE i = Len(made) + 1
    BY <1>2, <1>3, <1>5, <2>1
  <2>2. CASE i # Len(made) + 1
    <3>1. i \in 1..Len(made)
      BY <1>4, <2>2
    <3>. QED  BY <1>2, <1>3, <1>5, <3>1
  <2>. QED  BY <2>1, <2>2
<1>7. SameTrades(made2, logged2)
  BY <1>2, <1>3, <1>5, <1>6 DEF SameTrades
<1>. QED  BY <1>7 DEF made2, logged2

(* What a row does to compute_trades' trade in progress. *)
LEMMA LocalOpened ==
    ASSUME NEW w \in LocalType, NEW side \in {"buy", "sell"}, NEW sz \in Nat, NEW value \in Int
    PROVE  LET v == AddLocalOpen(w, side, sz, value)
           IN  /\ v \in LocalType
               /\ v.direction = DirectionOf(side)
               /\ v.openSize = w.openSize + sz /\ v.openCost = w.openCost + value
               /\ v.closeSize = w.closeSize /\ v.closeValue = w.closeValue
               /\ v.fillCount = w.fillCount + 1
<1> DEFINE v == AddLocalOpen(w, side, sz, value)
           dir == DirectionOf(side)
           n == w.openSize + sz
           cost == w.openCost + value
           count == w.fillCount + 1
           half == [w EXCEPT !.direction = dir, !.openSize = n]
<1>1. dir \in Directions /\ n \in Nat /\ cost \in Int /\ count \in Nat
  BY DEF DirectionOf, Directions, LocalType
<1>2. v = [half EXCEPT !.openCost = cost, !.fillCount = count]
  BY DEF AddLocalOpen, LocalType
<1> HIDE DEF v, dir, n, cost, count
<1>3. /\ half \in LocalType /\ half.direction = dir /\ half.openSize = n
      /\ half.openCost = w.openCost /\ half.closeSize = w.closeSize
      /\ half.closeValue = w.closeValue
  BY <1>1 DEF LocalType
<1> HIDE DEF half
<1>4. /\ v \in LocalType /\ v.direction = half.direction /\ v.openSize = half.openSize
      /\ v.closeSize = half.closeSize /\ v.closeValue = half.closeValue
      /\ v.openCost = cost /\ v.fillCount = count
  BY <1>1, <1>2, <1>3 DEF LocalType
<1>. QED  BY <1>3, <1>4 DEF v, dir, n, cost, count

LEMMA LocalClosed ==
    ASSUME NEW w \in LocalType, NEW sz \in Nat, NEW value \in Int
    PROVE  LET v == AddLocalClose(w, sz, value)
           IN  /\ v \in LocalType
               /\ v.direction = w.direction
               /\ v.openSize = w.openSize /\ v.openCost = w.openCost
               /\ v.closeSize = w.closeSize + sz /\ v.closeValue = w.closeValue + value
               /\ v.fillCount = w.fillCount + 1
<1> DEFINE v == AddLocalClose(w, sz, value)
           n == w.closeSize + sz
           worth == w.closeValue + value
           count == w.fillCount + 1
           half == [w EXCEPT !.closeSize = n]
<1>1. n \in Nat /\ worth \in Int /\ count \in Nat
  BY DEF LocalType
<1>2. v = [half EXCEPT !.closeValue = worth, !.fillCount = count]
  BY DEF AddLocalClose, LocalType
<1> HIDE DEF v, n, worth, count
<1>3. /\ half \in LocalType /\ half.direction = w.direction /\ half.openSize = w.openSize
      /\ half.openCost = w.openCost /\ half.closeSize = n
  BY <1>1 DEF LocalType
<1> HIDE DEF half
<1>4. /\ v \in LocalType /\ v.direction = half.direction /\ v.openSize = half.openSize
      /\ v.closeSize = half.closeSize /\ v.closeValue = worth
      /\ v.openCost = half.openCost /\ v.fillCount = count
  BY <1>1, <1>2, <1>3 DEF LocalType
<1>. QED  BY <1>3, <1>4 DEF v, n, worth, count

(* The order being placed after one more fill of it. *)
LEMMA OrderGrows ==
    ASSUME ViewTypes, NEW d \in Int, d # 0, NEW px \in Nat \ {0}, SeenFill(d, px),
           pos \in PosType, seen, seen'
    PROVE  /\ order'.kind = Kind(pos, d) /\ order.kind \in {"none", Kind(pos, d)}
           /\ order'.size = order.size + d /\ order'.value = order.value + Magnitude(d) * px
           /\ order'.size # 0 /\ SideOf(order'.size) = SideOf(d) /\ SideOf(d) \in Directions
           /\ Magnitude(order'.size) = Magnitude(order.size) + Magnitude(d)
           /\ Magnitude(order.size) \in Nat /\ Magnitude(d) \in Nat
           /\ local' = local /\ localTrades' = localTrades
           /\ ViewTypes'
           /\ order.kind = "none" => order.size = 0 /\ order.value = 0
           /\ order.kind # "none" => SideOf(order.size) = SideOf(d)
<1>1. /\ order.size \in Int /\ order.value \in Int /\ Magnitude(d) * px \in Int
      /\ Kind(pos, d) \in {"open", "close"}
  <2>1. Magnitude(d) \in Int /\ px \in Int
    BY DEF Magnitude
  <2>2. Magnitude(d) * px \in Int
    BY <2>1
  <2>3. Kind(pos, d) \in {"open", "close"}
    BY KindFacts DEF SeenFill
  <2>. QED  BY <2>2, <2>3 DEF ViewTypes, OrderType
<1>2. /\ order.kind \in {"none", Kind(pos, d)} /\ local' = local /\ localTrades' = localTrades
      /\ order.size = 0 \/ SameDirection(order.size, d)
      /\ order' = [kind  |-> IF order.kind = "none" THEN Kind(pos, d) ELSE order.kind,
                   size  |-> order.size + d, value |-> order.value + Magnitude(d) * px]
  BY DEF SeenFill
<1> DEFINE cost == Magnitude(d) * px
<1>3. /\ order'.kind = Kind(pos, d) /\ order'.size = order.size + d
      /\ order'.value = order.value + cost /\ order' \in OrderType
  <2>1. cost \in Int /\ order' = [kind |-> Kind(pos, d), size |-> order.size + d,
                                  value |-> order.value + cost]
    BY <1>1, <1>2
  <2> HIDE DEF cost
  <2>. QED  BY <1>1, <2>1 DEF OrderType
<1>4. /\ order'.size # 0 /\ SideOf(order'.size) = SideOf(d) /\ SideOf(d) \in Directions
      /\ Magnitude(order'.size) = Magnitude(order.size) + Magnitude(d)
      /\ Magnitude(order.size) \in Nat /\ Magnitude(d) \in Nat
  BY <1>1, <1>2, <1>3 DEF SameDirection, SideOf, Magnitude, Directions
<1>5. order.kind = "none" => order.size = 0 /\ order.value = 0
  BY DEF ViewTypes, NoOrder
<1>6. order.kind # "none" => SideOf(order.size) = SideOf(d)
  BY <1>1, <1>2 DEF ViewTypes, SameDirection, SideOf
<1>7. ViewTypes'
  BY <1>1, <1>2, <1>3, <1>4 DEF ViewTypes
<1>. QED  BY <1>2, <1>3, <1>4, <1>5, <1>6, <1>7

(* One more fill of an order that opens. *)
LEMMA SeenOpen ==
    ASSUME ReconstructionAssumption, ViewsInv, seen, seen',
           NEW d \in Int, d # 0, NEW px \in Nat \ {0}, SeenFill(d, px),
           Kind(pos, d) = "open"
    PROVE  ViewsInv'
<1> DEFINE f == FillRow(pos, d, px)
           cost == Magnitude(d) * px
<1>1. /\ Fill(d, px) /\ IInv /\ pos \in PosType /\ walk \in WalkType /\ ViewTypes
      /\ Ongoing \/ Idle \/ Ended
  BY DEF SeenFill, ViewsInv, IInv, TypeInv, InStep
<1>2. IInv' /\ trades' = trades
  BY <1>1, OpenStep
<1>3. /\ f.sz = Magnitude(d) /\ Magnitude(d) \in Nat \ {0} /\ f.px = px
      /\ f.direction = SideOf(d) /\ f.direction \in Directions /\ f.kind = "open"
      /\ start' = Base
  BY <1>1, FillFacts
<1>4. /\ order'.kind = "open" /\ order.kind \in {"none", "open"}
      /\ order'.size = order.size + d /\ order'.value = order.value + cost
      /\ SideOf(order'.size) = SideOf(d)
      /\ Magnitude(order'.size) = Magnitude(order.size) + Magnitude(d)
      /\ Magnitude(order.size) \in Nat
      /\ local' = local /\ localTrades' = localTrades /\ ViewTypes'
      /\ order.kind = "none" => order.size = 0 /\ order.value = 0
  BY <1>1, OrderGrows
<1>5. walk.direction \in {"none", f.direction} /\ WalkOpen(f)
  <2>1. SideOf(pos.size) \in {"none", SideOf(d)}
    BY <1>1, KindFacts
  <2>2. InProgress => walk.direction = SideOf(pos.size)
    BY <1>1 DEF IInv, WalkFollowsPosition
  <2>3. WalkOpen(f)
    BY <1>1, <1>3 DEF Fill
  <2>. QED  BY <1>3, <2>1, <2>2, <2>3 DEF InProgress
<1>6. cost \in Int /\ f.sz * f.px = cost /\ order.value \in Int
  <2>1. Magnitude(d) * px \in Int
    BY <1>3
  <2>. QED  BY <1>1, <1>3, <2>1 DEF ViewTypes, OrderType
<1> HIDE DEF f, cost
<1>7. walk' = AddOpen(walk, f)
  BY <1>5 DEF WalkOpen
<1>8. /\ walk'.direction = SideOf(d) /\ walk'.openSize = walk.openSize + Magnitude(d)
      /\ walk'.openCost = walk.openCost + cost
      /\ walk'.closeSize = walk.closeSize /\ walk'.closeValue = walk.closeValue
      /\ walk'.fillCount = walk.fillCount + 1
  BY <1>1, <1>3, <1>5, <1>6, <1>7 DEF AddOpen, WalkType
<1>9. ~Ended
  BY <1>4 DEF Ended
<1>10. SameTrades(trades, localTrades) /\ start' = 0
  <2>1. SameTrades(trades, localTrades)
    BY <1>1, <1>9 DEF Ongoing, Idle
  <2>2. Base = 0
    BY <1>1, <1>9 DEF Ongoing, Idle, Base, InProgress, Magnitude
  <2>. QED  BY <1>3, <2>1, <2>2
<1>11. Ahead(walk)'
  <2>1. CASE Ongoing
    <3>1. /\ walk.openSize = local.openSize + Due("open", Magnitude(order.size))
          /\ walk.openCost = local.openCost + Due("open", order.value)
          /\ walk.closeSize = local.closeSize + Due("close", Magnitude(order.size))
          /\ walk.closeValue = local.closeValue + Due("close", order.value)
          /\ local.fillCount + (IF order.kind = "none" THEN 0 ELSE 1) <= walk.fillCount
          /\ walk.direction \in Directions
          /\ local.direction \in {"none", walk.direction}
      BY <1>4, <2>1 DEF Ongoing, Ahead
    <3>2. /\ Due("open", Magnitude(order.size)) = Magnitude(order.size)
          /\ Due("open", order.value) = order.value
      BY <1>4 DEF Due, Magnitude
    <3>3. Due("close", Magnitude(order.size)) = 0 /\ Due("close", order.value) = 0
      BY <1>4 DEF Due
    <3>4. /\ local.openSize \in Nat /\ local.openCost \in Int /\ local.closeSize \in Nat
          /\ local.closeValue \in Int /\ local.fillCount \in Nat /\ walk.fillCount \in Nat
      BY <1>1 DEF ViewTypes, LocalType, WalkType
    <3>5. walk.direction = SideOf(d)
      BY <1>3, <1>5, <3>1 DEF Directions
    <3>. QED  BY <1>3, <1>4, <1>6, <1>8, <3>1, <3>2, <3>3, <3>4, <3>5 DEF Ahead, Due
  <2>2. CASE Idle
    <3>1. /\ walk.openSize = 0 /\ walk.openCost = 0 /\ walk.closeSize = 0 /\ walk.closeValue = 0
          /\ walk.fillCount = 0
      BY <1>1, <2>2 DEF Idle, IInv, IdleIsEmpty, InProgress, NoTrade
    <3>2. /\ local.openSize = 0 /\ local.openCost = 0 /\ local.closeSize = 0
          /\ local.closeValue = 0 /\ local.fillCount = 0 /\ local.direction = "none"
          /\ order.kind = "none"
      BY <2>2 DEF Idle, NoLocal, NoOrder
    <3>. QED  BY <1>3, <1>4, <1>6, <1>8, <3>1, <3>2 DEF Ahead, Due
  <2>. QED  BY <1>1, <1>9, <2>1, <2>2
<1>12. InProgress'
  BY <1>8, <1>3 DEF InProgress, Directions, SideOf
<1>13. Ongoing'
  BY <1>2, <1>4, <1>10, <1>11, <1>12 DEF Ongoing
<1>. QED  BY <1>2, <1>4, <1>13 DEF ViewsInv, InStep

(* One more fill of an order that reduces. *)
LEMMA SeenClose ==
    ASSUME ReconstructionAssumption, ViewsInv, seen, seen',
           NEW d \in Int, d # 0, NEW px \in Nat \ {0}, SeenFill(d, px),
           Kind(pos, d) = "close"
    PROVE  ViewsInv'
<1> DEFINE f == FillRow(pos, d, px)
           cost == Magnitude(d) * px
<1>1. /\ Fill(d, px) /\ IInv /\ pos \in PosType /\ pos.size \in Int /\ ViewTypes
      /\ walk \in WalkType /\ trades \in Seq(TradeType)
      /\ Ongoing \/ Idle \/ Ended
  BY DEF SeenFill, ViewsInv, IInv, TypeInv, PosType, InStep
<1>2. IInv'
  BY <1>1, CloseStep
<1>3. /\ f.sz = Magnitude(d) /\ Magnitude(d) \in Nat \ {0} /\ f.px = px
      /\ f.direction = SideOf(pos.size) /\ f.kind = "close"
      /\ f.closedPnl = RealizedPnl(pos, d, px) - Fee /\ RealizedPnl(pos, d, px) \in Int
      /\ pos'.size = pos.size + d /\ start' = Base
  BY <1>1, FillFacts
<1>4. f.closedPnl \in Int
  BY <1>3 DEF ReconstructionAssumption
<1>5. /\ SideOf(pos.size) \in Directions /\ Magnitude(d) <= Magnitude(pos.size)
      /\ Magnitude(pos'.size) = Magnitude(pos.size) - Magnitude(d)
  BY <1>1, <1>3, KindFacts
<1>6. Ongoing
  <2>1. pos.size # 0
    BY <1>5 DEF SideOf, Directions
  <2>. QED  BY <1>1, <2>1 DEF Idle, Ended
<1>7. InProgress /\ start = 0 /\ Base = 0 /\ Ahead(walk) /\ SameTrades(trades, localTrades)
  BY <1>6 DEF Ongoing, Base, InProgress
<1>8. WalkClose(f)
  BY <1>1, <1>3 DEF Fill
<1>9. /\ order'.kind = "close" /\ order.kind \in {"none", "close"}
      /\ order'.size = order.size + d /\ order'.value = order.value + cost
      /\ SideOf(order'.size) = SideOf(d) /\ SideOf(d) \in Directions
      /\ Magnitude(order'.size) = Magnitude(order.size) + Magnitude(d)
      /\ Magnitude(order.size) \in Nat
      /\ local' = local /\ localTrades' = localTrades /\ ViewTypes'
      /\ order.kind = "none" => order.size = 0 /\ order.value = 0
  BY <1>1, OrderGrows
<1>10. cost \in Int /\ order.value \in Int
  <2>1. Magnitude(d) * px \in Int
    BY <1>3
  <2>. QED  BY <1>1, <2>1 DEF ViewTypes, OrderType
<1> HIDE DEF f, cost
<1> DEFINE w == AddClose(walk, f, f.sz)
<1>11. w \in WalkType
  BY <1>1, <1>3, <1>4, <1>5, AddTypes
<1>12. /\ w.direction = walk.direction
       /\ w.openSize = walk.openSize /\ w.openCost = walk.openCost
       /\ w.closeSize = walk.closeSize + Magnitude(d)
       /\ w.closeValue = walk.closeValue + cost
       /\ w.fillCount = walk.fillCount + 1
  BY <1>1, <1>3, <1>4, Taken DEF cost
<1>13. /\ walk.direction = SideOf(pos.size) /\ walk.openSize > walk.closeSize
       /\ walk.openSize - walk.closeSize = Magnitude(pos.size)
       /\ walk.openSize \in Nat /\ walk.closeSize \in Nat /\ walk.fillCount \in Nat
  <2>1. walk.openSize \in Nat /\ walk.closeSize \in Nat /\ walk.fillCount \in Nat
    BY <1>1 DEF WalkType
  <2>. QED  BY <1>1, <1>7, <2>1 DEF IInv, WalkFollowsPosition
<1> HIDE DEF w
<1> PICK v \in WalkType : v = w
  BY <1>11
<1>14. Ahead(v)'
  <2>1. /\ walk.openSize = local.openSize + Due("open", Magnitude(order.size))
        /\ walk.openCost = local.openCost + Due("open", order.value)
        /\ walk.closeSize = local.closeSize + Due("close", Magnitude(order.size))
        /\ walk.closeValue = local.closeValue + Due("close", order.value)
        /\ local.fillCount + (IF order.kind = "none" THEN 0 ELSE 1) <= walk.fillCount
        /\ walk.direction \in Directions /\ local.direction = walk.direction
    BY <1>7, <1>9 DEF Ahead
  <2>2. /\ Due("close", Magnitude(order.size)) = Magnitude(order.size)
        /\ Due("close", order.value) = order.value
    BY <1>9 DEF Due, Magnitude
  <2>3. Due("open", Magnitude(order.size)) = 0 /\ Due("open", order.value) = 0
    BY <1>9 DEF Due
  <2>4. /\ local.openSize \in Nat /\ local.openCost \in Int /\ local.closeSize \in Nat
        /\ local.closeValue \in Int /\ local.fillCount \in Nat /\ walk.fillCount \in Nat
    BY <1>1 DEF ViewTypes, LocalType, WalkType
  <2>5. SideOf(d) # walk.direction
    BY <1>1, <1>3, <1>5, <1>13 DEF SideOf, Magnitude, Directions
  <2>6. /\ v.direction \in Directions
        /\ v.openSize = local.openSize /\ v.openCost = local.openCost
        /\ v.closeSize = local.closeSize + Magnitude(order'.size)
        /\ v.closeValue = local.closeValue + order'.value
        /\ local.fillCount + 1 <= v.fillCount
        /\ local.direction = v.direction
        /\ SideOf(order'.size) \in Directions \ {v.direction}
    BY <1>3, <1>9, <1>10, <1>12, <2>1, <2>2, <2>3, <2>4, <2>5
  <2>. QED  BY <1>9, <2>4, <2>6 DEF Ahead, Due
<1>15. \/ Complete(w) /\ Emit(w)
       \/ ~Complete(w) /\ walk' = w /\ trades' = trades
  BY <1>7, <1>8 DEF WalkClose, InProgress, w
<1>16. CASE Complete(w)
  <2>1. Emits(w)
    BY <1>3, <1>7, <1>12, <1>13 DEF Emits, InProgress
  <2>2. walk' = NoTrade /\ trades' = Append(trades, TradeOf(w))
    BY <1>15, <1>16, <2>1 DEF Emit
  <2>3. pos'.size = 0
    <3>1. walk.closeSize + Magnitude(d) >= walk.openSize
      BY <1>12, <1>16 DEF Complete
    <3>2. Magnitude(pos'.size) = 0
      BY <1>3, <1>5, <1>13, <3>1 DEF Magnitude
    <3>. QED  BY <1>1, <1>3, <3>2 DEF Magnitude
  <2>4. TradeOf(w) \in TradeType
    BY <1>11, TradeOfType
  <2> PICK t \in TradeType : t = TradeOf(w)
    BY <2>4
  <2>5. /\ t.side = v.direction /\ t.size = Least(v.openSize, v.closeSize)
        /\ t.openSize = v.openSize /\ t.openCost = v.openCost
        /\ t.closeSize = v.closeSize /\ t.closeValue = v.closeValue
        /\ t.fillCount = v.fillCount
    BY DEF TradeOf
  <2>6. EndedBy(v, t)'
    <3>1. v.openSize <= v.closeSize
      BY <1>11, <1>16 DEF Complete, WalkType
    <3>. QED  BY <1>14, <2>5, <3>1 DEF EndedBy
  <2> PICK before \in Seq(TradeType) : before = trades
    BY <1>1
  <2>7. trades' = Append(before, t) /\ SameTrades(before, localTrades')
    BY <1>7, <1>9, <2>2
  <2>8. Ended'
    <3>1. ~InProgress'
      BY <2>2 DEF NoTrade, InProgress
    <3>. QED  BY <1>9, <2>3, <2>6, <2>7, <3>1 DEF Ended
  <2>. QED  BY <1>2, <1>9, <2>8 DEF ViewsInv, InStep
<1>17. CASE ~Complete(w)
  <2>1. walk' = v /\ trades' = trades
    BY <1>15, <1>17
  <2>2. SameTrades(trades', localTrades')
    BY <1>7, <1>9, <2>1
  <2>3. InProgress' /\ start' = 0
    BY <1>3, <1>7, <1>12, <2>1 DEF InProgress
  <2>4. Ongoing'
    BY <1>14, <2>1, <2>2, <2>3 DEF Ongoing, Ahead
  <2>. QED  BY <1>2, <1>9, <2>4 DEF ViewsInv, InStep
<1>. QED  BY <1>16, <1>17

(* The row of an order that opened. *)
LEMMA RowOpens ==
    ASSUME ViewsInv, seen, LogRow, order.kind = "open"
    PROVE  ViewTypes' /\ Ongoing'
<1>1. /\ IInv /\ walk \in WalkType /\ ViewTypes
      /\ Ongoing \/ Idle \/ Ended
  BY DEF ViewsInv, IInv, TypeInv, InStep
<1>2. Ongoing
  BY <1>1 DEF Idle, Ended, NoOrder
<1>3. UNCHANGED <<pos, walk, trades, start>> /\ order' = NoOrder
  BY DEF LogRow, vars
<1>4. /\ local \in LocalType /\ order.size \in Int /\ order.value \in Int /\ order.size # 0
      /\ local.direction = "none" => local = NoLocal
  BY <1>1 DEF ViewTypes, OrderType
<1>5. PICK side \in RowSides(order) : WalkLocal(side, Magnitude(order.size), order.value)
  BY DEF LogRow
<1>6. /\ side \in {"buy", "sell"} /\ DirectionOf(side) = SideOf(order.size) /\ side # "close"
      /\ Magnitude(order.size) \in Nat
  BY <1>4, <1>5 DEF RowSides, DirectionOf, SideOf, Magnitude
<1>7. /\ walk.direction = SideOf(order.size) /\ local.direction \in {"none", walk.direction}
      /\ walk.direction \in Directions
      /\ walk.openSize = local.openSize + Magnitude(order.size)
      /\ walk.openCost = local.openCost + order.value
      /\ walk.closeSize = local.closeSize /\ walk.closeValue = local.closeValue
      /\ local.fillCount + 1 <= walk.fillCount
  BY <1>2, <1>4 DEF Ongoing, Ahead, Due, LocalType
<1> DEFINE v == AddLocalOpen(local, side, Magnitude(order.size), order.value)
<1>8. LocalAfter(side, Magnitude(order.size), order.value) = v
  BY <1>4, <1>6, <1>7 DEF LocalAfter
<1>9. /\ v \in LocalType /\ v.direction = DirectionOf(side)
      /\ v.openSize = local.openSize + Magnitude(order.size)
      /\ v.openCost = local.openCost + order.value
      /\ v.closeSize = local.closeSize /\ v.closeValue = local.closeValue
      /\ v.fillCount = local.fillCount + 1
  BY <1>4, <1>6, LocalOpened
<1> HIDE DEF v
<1>10. walk.openSize > walk.closeSize /\ walk.openSize \in Nat /\ walk.closeSize \in Nat
  BY <1>1, <1>2 DEF Ongoing, IInv, WalkFollowsPosition, WalkType
<1>11. ~LocalDone(v)
  BY <1>7, <1>9, <1>10 DEF LocalDone
<1>12. local' = v /\ localTrades' = localTrades
  BY <1>5, <1>8, <1>11 DEF WalkLocal
<1>13. v.direction # "none" /\ NoOrder \in OrderType /\ NoOrder.kind = "none"
  BY <1>6, <1>7, <1>9 DEF Directions, NoOrder, OrderType
<1>14. ViewTypes'
  BY <1>3, <1>9, <1>12, <1>13 DEF ViewTypes
<1>15. Ahead(walk)'
  <2>1. /\ order'.kind = "none" /\ local'.direction = walk'.direction
        /\ walk'.openSize = local'.openSize /\ walk'.openCost = local'.openCost
        /\ walk'.closeSize = local'.closeSize /\ walk'.closeValue = local'.closeValue
        /\ local'.fillCount <= walk'.fillCount
    BY <1>3, <1>6, <1>7, <1>9, <1>12, <1>13
  <2>. QED  BY <1>1, <1>3, <1>7, <1>9, <1>12, <2>1 DEF Ahead, Due, LocalType, WalkType
<1>16. SameTrades(trades', localTrades')
  BY <1>2, <1>3, <1>12 DEF Ongoing
<1>17. Ongoing'
  BY <1>2, <1>3, <1>15, <1>16 DEF Ongoing, InProgress
<1>. QED  BY <1>14, <1>17

(* The row of an order that reduced, explicit close or not. *)
LEMMA RowCloses ==
    ASSUME ViewsInv, seen, LogRow, order.kind = "close"
    PROVE  ViewTypes' /\ (Ongoing' \/ Idle')
<1>1. /\ IInv /\ walk \in WalkType /\ ViewTypes
      /\ Ongoing \/ Ended
  BY DEF ViewsInv, IInv, TypeInv, InStep, Idle, NoOrder
<1>2. UNCHANGED <<pos, walk, trades, start>> /\ order' = NoOrder
  BY DEF LogRow, vars
<1>3. local \in LocalType /\ order.size \in Int /\ order.value \in Int /\ order.size # 0
  BY <1>1 DEF ViewTypes, OrderType
<1>4. PICK side \in RowSides(order) : WalkLocal(side, Magnitude(order.size), order.value)
  BY DEF LogRow
<1>5. /\ side # "close" => DirectionOf(side) = SideOf(order.size)
      /\ Magnitude(order.size) \in Nat
  BY <1>3, <1>4 DEF RowSides, DirectionOf, SideOf, Magnitude
<1>6. PICK w \in WalkType : /\ Ahead(w)
                            /\ Ongoing => w = walk
                            /\ ~Ongoing => \E before \in Seq(TradeType), t \in TradeType :
                                  /\ EndedBy(w, t) /\ trades = Append(before, t)
                                  /\ SameTrades(before, localTrades)
  <2>1. CASE Ongoing
    BY <1>1, <2>1 DEF Ongoing
  <2>2. CASE ~Ongoing
    BY <1>1, <2>2 DEF Ended, EndedBy
  <2>. QED  BY <2>1, <2>2
<1>7. /\ w.direction \in Directions /\ local.direction = w.direction
      /\ SideOf(order.size) # w.direction
      /\ w.openSize = local.openSize /\ w.openCost = local.openCost
      /\ w.closeSize = local.closeSize + Magnitude(order.size)
      /\ w.closeValue = local.closeValue + order.value
      /\ local.fillCount + 1 <= w.fillCount
  BY <1>3, <1>6 DEF Ahead, Due, LocalType
<1> DEFINE v == AddLocalClose(local, Magnitude(order.size), order.value)
<1>8. LocalAfter(side, Magnitude(order.size), order.value) = v
  BY <1>5, <1>7 DEF LocalAfter, Directions
<1>9. /\ v \in LocalType /\ v.direction = w.direction
      /\ v.openSize = w.openSize /\ v.openCost = w.openCost
      /\ v.closeSize = w.closeSize /\ v.closeValue = w.closeValue
      /\ v.fillCount <= w.fillCount
  BY <1>3, <1>5, <1>7, LocalClosed
<1> HIDE DEF v
<1>10. LocalDone(v) <=> w.openSize <= w.closeSize
  BY <1>7, <1>9 DEF LocalDone, Directions
<1>11. NoOrder \in OrderType /\ NoOrder.kind = "none" /\ NoLocal \in LocalType
  BY DEF NoOrder, OrderType, NoLocal, LocalType
<1>12. CASE Ongoing
  <2>1. w = walk /\ walk.openSize > walk.closeSize
        /\ walk.openSize \in Nat /\ walk.closeSize \in Nat
    BY <1>1, <1>6, <1>12 DEF Ongoing, IInv, WalkFollowsPosition, WalkType
  <2>2. local' = v /\ localTrades' = localTrades
    BY <1>4, <1>8, <1>10, <2>1 DEF WalkLocal
  <2>3. ViewTypes'
    BY <1>2, <1>7, <1>9, <1>11, <2>2 DEF ViewTypes, Directions
  <2>4. Ahead(walk)'
    BY <1>2, <1>3, <1>7, <1>9, <1>11, <2>1, <2>2 DEF Ahead, Due, LocalType, WalkType
  <2>5. SameTrades(trades', localTrades')
    BY <1>2, <1>12, <2>2 DEF Ongoing
  <2>6. Ongoing'
    BY <1>2, <1>12, <2>4, <2>5 DEF Ongoing, InProgress
  <2>. QED  BY <2>3, <2>6
<1>13. CASE ~Ongoing
  <2>1. Ended
    BY <1>1, <1>13
  <2>2. PICK before \in Seq(TradeType), t \in TradeType :
           /\ EndedBy(w, t) /\ trades = Append(before, t)
           /\ SameTrades(before, localTrades)
    BY <1>6, <1>13
  <2>3. w.openSize <= w.closeSize /\ t \in TradeType
    BY <2>2 DEF EndedBy
  <2>4. local' = NoLocal /\ localTrades' = Append(localTrades, MakeTrade(v))
    BY <1>4, <1>8, <1>10, <2>3 DEF WalkLocal
  <2>5. Alike(t, MakeTrade(v))
    BY <1>9, <2>2 DEF EndedBy, MakeTrade, Alike
  <2>6. SameTrades(Append(before, t), Append(localTrades, MakeTrade(v)))
    <3> DEFINE l == MakeTrade(v)
    <3>1. Alike(t, l)
      BY <2>5
    <3> HIDE DEF l
    <3>2. SameTrades(Append(before, t), Append(localTrades, l))
      BY <2>2, <2>3, <3>1, AppendAlike
    <3>. QED  BY <3>2 DEF l
  <2>7. SameTrades(trades', localTrades')
    BY <1>2, <2>2, <2>4, <2>6
  <2>8. ViewTypes'
    BY <1>2, <1>11, <2>4 DEF ViewTypes
  <2>9. Idle'
    BY <1>2, <2>1, <2>4, <2>7 DEF Ended, Idle, InProgress
  <2>. QED  BY <2>8, <2>9
<1>. QED  BY <1>12, <1>13

LEMMA ViewsStep ==
    ASSUME ReconstructionAssumption, ViewsInv, [ViewsNext]_<<vars, views>>
    PROVE  ViewsInv'
<1>1. CASE UNCHANGED <<vars, views>>
  <2>1. IInv'
    BY <1>1, StepIInv DEF ViewsInv
  <2>2. UNCHANGED <<local, localTrades, order, seen, pos, walk, trades, start>>
    BY <1>1 DEF vars, views
  <2>3. InStep'
    BY <2>2 DEF ViewsInv, InStep, ViewTypes, Ongoing, Idle, Ended, EndedBy, Ahead, Due,
                InProgress
  <2>. QED  BY <2>1, <2>3 DEF ViewsInv
<1>2. ASSUME NEW n \in Lots, NEW px \in Prices, NEW d \in {n, -n},
             SeenFill(d, px) \/ UnseenFill(d, px)
      PROVE  ViewsInv'
  <2>1. d \in Int /\ d # 0 /\ px \in Nat \ {0}
    BY DEF ReconstructionAssumption
  <2>2. Fill(d, px) /\ Next
    BY <1>2 DEF SeenFill, UnseenFill, Next
  <2>3. IInv'
    BY <2>2, StepIInv DEF ViewsInv
  <2>4. CASE seen' /\ seen
    <3>1. SeenFill(d, px) /\ Kind(pos, d) # "flip"
      BY <1>2, <2>4 DEF SeenFill, UnseenFill
    <3>2. Kind(pos, d) \in {"open", "close"}
      BY <2>1, <3>1, KindFacts DEF ViewsInv, IInv, TypeInv
    <3>. QED  BY <2>1, <2>4, <3>1, <3>2, SeenOpen, SeenClose
  <2>5. CASE ~seen'
    BY <2>3, <2>5 DEF ViewsInv, InStep
  <2>6. CASE seen' /\ ~seen
    BY <1>2, <2>6 DEF SeenFill, UnseenFill
  <2>. QED  BY <2>4, <2>5, <2>6
<1>3. CASE LogRow
  <2>1. seen' = seen /\ UNCHANGED vars
    BY <1>3 DEF LogRow
  <2>2. IInv'
    BY <2>1, StepIInv DEF ViewsInv
  <2>3. CASE seen
    <3>1. order.kind \in {"open", "close"}
      BY <1>3, <2>3 DEF LogRow, ViewsInv, InStep, ViewTypes, OrderType
    <3>2. ViewTypes' /\ (Ongoing' \/ Idle')
      BY <1>3, <2>3, <3>1, RowOpens, RowCloses
    <3>. QED  BY <2>2, <3>2 DEF ViewsInv, InStep
  <2>. QED  BY <2>1, <2>2, <2>3 DEF ViewsInv, InStep
<1>. QED  BY <1>1, <1>2, <1>3 DEF ViewsNext

LEMMA ViewsInvariance == ViewsSpec => []ViewsInv
<1>1. ViewsInit => ViewsInv
  <2> SUFFICES ASSUME ViewsInit PROVE ViewsInv
    OBVIOUS
  <2>1. IInv
    BY InitIInv, ReconstructionAssumption DEF ViewsInit
  <2>2. /\ ~InProgress /\ order = NoOrder /\ local = NoLocal /\ seen = (pos.size = 0)
        /\ trades = <<>> /\ localTrades = <<>>
    BY DEF ViewsInit, Init, NoTrade, InProgress
  <2>3. SameTrades(trades, localTrades)
    BY <2>2 DEF SameTrades
  <2>4. ViewTypes
    BY <2>2 DEF ViewTypes, NoOrder, OrderType, NoLocal, LocalType
  <2>. QED  BY <2>1, <2>2, <2>3, <2>4 DEF ViewsInv, InStep, Idle
<1>2. ViewsInv /\ [ViewsNext]_<<vars, views>> => ViewsInv'
  BY ViewsStep, ReconstructionAssumption
<1>. QED  BY <1>1, <1>2, PTL DEF ViewsSpec

(* As long as every order fills as it is placed, in however many fills, and  *)
(* none turns the position around, compute_trades makes of the rows of the  *)
(* orders the trades trades_from_user_fills makes of the exchange's fills,  *)
(* and has the same one in progress whenever no order is part-filled.       *)
THEOREM ViewsAgree == ViewsSpec => []ViewsAgreeWhenSeen
<1>1. ViewsInv => ViewsAgreeWhenSeen
  <2> SUFFICES ASSUME ViewsInv, seen, order = NoOrder
               PROVE  /\ Len(localTrades) = Len(trades)
                      /\ \A i \in DOMAIN trades : Alike(trades[i], localTrades[i])
                      /\ local.direction = walk.direction
                      /\ local.openSize - local.closeSize = Magnitude(pos.size)
    BY DEF ViewsAgreeWhenSeen
  <2>1. /\ IInv /\ local \in LocalType /\ order.kind = "none"
        /\ Ongoing \/ Idle
    BY DEF ViewsInv, InStep, ViewTypes, Ended, NoOrder
  <2>2. SameTrades(trades, localTrades)
    BY <2>1 DEF Ongoing, Idle
  <2>3. CASE Ongoing
    <3>1. /\ walk.openSize = local.openSize /\ walk.closeSize = local.closeSize
          /\ local.direction = walk.direction
      BY <2>1, <2>3 DEF Ongoing, Ahead, Due, LocalType
    <3>2. walk.openSize - walk.closeSize = Magnitude(pos.size)
      BY <2>1, <2>3 DEF Ongoing, IInv, WalkFollowsPosition, TypeInv, WalkType, PosType, Magnitude
    <3>. QED  BY <2>2, <3>1, <3>2 DEF SameTrades
  <2>4. CASE Idle
    BY <2>2, <2>4 DEF Idle, NoLocal, InProgress, Magnitude, SameTrades
  <2>. QED  BY <2>1, <2>3, <2>4
<1>. QED  BY <1>1, ViewsInvariance, PTL
===============================================================================
