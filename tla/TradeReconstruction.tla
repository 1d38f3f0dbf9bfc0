-------------------------- MODULE TradeReconstruction -------------------------
(***************************************************************************)
(* GET /api/trades: the round trips trades_from_user_fills (trades.py)      *)
(* builds from the fills the exchange reports for one coin.                 *)
(*                                                                          *)
(* The loop of the code is a fold over the fills in time order, so its state *)
(* after n fills is what it answers when the window ends there.  Here it     *)
(* takes one step per fill, next to the position the fill changes.  A window *)
(* may begin while a position is open: fills older than it are not reported. *)
(* Average prices are kept as size and value, the quotient being left out.   *)
(***************************************************************************)
EXTENDS Venue, SequencesExt

CONSTANTS Prices,        \* bound: fill prices
          Lots,          \* bound: sizes of one fill
          MaxSize,       \* bound: size of a position
          MaxFills,      \* bound: fills of a window
          InitialSizes,  \* bound: positions a window may begin with
          Fee            \* what the exchange takes off closedPnl per fill

ASSUME ReconstructionAssumption ==
    /\ Prices \subseteq Nat \ {0}
    /\ Lots \subseteq Nat \ {0}
    /\ MaxSize \in Nat /\ MaxFills \in Nat
    /\ InitialSizes \subseteq Int
    /\ Fee \in Int

VARIABLES pos,       \* the exchange: the position in the coin
          walk,      \* the trade in progress
          trades,    \* the trades emitted
          start,     \* history: size of the position before that trade's first fill
          fills      \* bound: fills so far

vars == <<pos, walk, trades, start, fills>>

Directions == {"long", "short"}

SideOf(n) == IF n > 0 THEN "long" ELSE IF n < 0 THEN "short" ELSE "none"

NoTrade == [direction |-> "none", openSize |-> 0, openCost |-> 0,
            closeSize |-> 0, closeValue |-> 0, pnl |-> 0, fillCount |-> 0]

Least(m, n) == IF m < n THEN m ELSE n

-------------------------------------------------------------------------------
(* The fills of the exchange. *)

(* "Open Long", "Close Short" or "Long > Short", by what the fill does. *)
Kind(p, d) ==
    IF SameDirection(p.size, d) THEN "open"
    ELSE IF SameDirection(p.size, p.size + d) THEN "close"
    ELSE "flip"

FillRow(p, d, px) ==
    [kind      |-> Kind(p, d),
     direction |-> IF Kind(p, d) = "open" THEN SideOf(d) ELSE SideOf(p.size),
     sz        |-> Magnitude(d),
     px        |-> px,
     closedPnl |-> RealizedPnl(p, d, px) - Fee]

-------------------------------------------------------------------------------
(* The loop body, as functions of the trade in progress. *)

(* History: the position the exchange held before the trade in progress. *)
Base == IF walk.direction = "none" THEN Magnitude(pos.size) ELSE start

(* What emit appends to the trades; fromFlat is history. *)
TradeOf(w) ==
    [side |-> w.direction, size |-> Least(w.openSize, w.closeSize),
     openSize |-> w.openSize, openCost |-> w.openCost, closeSize |-> w.closeSize,
     closeValue |-> w.closeValue, pnl |-> w.pnl, fillCount |-> w.fillCount,
     fromFlat |-> Base = 0]

(* emit returns early, without a reset, when nothing has been closed yet. *)
Emits(w) == w.direction # "none" /\ w.openSize > 0 /\ w.closeSize > 0

(* Mutant: emit does not reset the trade in progress. *)
EmitNoReset(w) ==
    /\ walk' = w
    /\ trades' = IF Emits(w) THEN Append(trades, TradeOf(w)) ELSE trades

Emit(w) ==
    /\ walk' = IF Emits(w) THEN NoTrade ELSE w
    /\ trades' = IF Emits(w) THEN Append(trades, TradeOf(w)) ELSE trades

(* Mutant: the closedPnl of an opening fill, its fee, is not summed. *)
AddOpenNoFee(w, f) ==
    [w EXCEPT !.direction = IF @ = "none" THEN f.direction ELSE @,
              !.openSize = @ + f.sz, !.openCost = @ + f.sz * f.px,
              !.fillCount = @ + 1]

AddOpen(w, f) ==
    [w EXCEPT !.direction = IF @ = "none" THEN f.direction ELSE @,
              !.openSize = @ + f.sz, !.openCost = @ + f.sz * f.px,
              !.pnl = @ + f.closedPnl, !.fillCount = @ + 1]

AddClose(w, f, taken) ==
    [w EXCEPT !.closeSize = @ + taken, !.closeValue = @ + taken * f.px,
              !.pnl = @ + f.closedPnl, !.fillCount = @ + 1]

(* A close without a trade in progress: its entry is derived from closedPnl. *)
DerivedEntry(f) ==
    [NoTrade EXCEPT !.direction = f.direction, !.openSize = f.sz,
                    !.openCost = IF f.direction = "long" THEN f.sz * f.px - f.closedPnl
                                 ELSE f.sz * f.px + f.closedPnl]

(* An opening the other way first emits the trade in progress, if it can be. *)
WalkOpen(f) ==
    LET implicit == walk.direction \notin {"none", f.direction} /\ Emits(walk)
    IN  /\ walk' = AddOpen(IF implicit THEN NoTrade ELSE walk, f)
        /\ trades' = IF implicit THEN Append(trades, TradeOf(walk)) ELSE trades

(* Mutant: a trade is complete only once more is closed than was opened. *)
CompleteStrictly(w) == w.closeSize > w.openSize

Complete(w) == w.closeSize >= w.openSize

WalkClose(f) ==
    LET w == AddClose(IF walk.direction = "none" THEN DerivedEntry(f) ELSE walk, f, f.sz)
    IN  \/ Complete(w) /\ Emit(w)
        \/ ~Complete(w) /\ walk' = w /\ trades' = trades

(* A flip closes what is left of the trade in progress.  What it opens on    *)
(* the other side is not taken up, and without a trade in progress the row   *)
(* is skipped.                                                               *)
WalkFlip(f) ==
    \/ /\ walk.direction = "none"
       /\ UNCHANGED <<walk, trades>>
    \/ /\ walk.direction # "none"
       /\ Emit(AddClose(walk, f, Least(walk.openSize - walk.closeSize, f.sz)))

-------------------------------------------------------------------------------
Init ==
    /\ \E n \in InitialSizes, px \in Prices : pos = [size |-> n, basis |-> n * px]
    /\ walk = NoTrade /\ trades = <<>>
    /\ start = 0 /\ fills = 0

Fill(d, px) ==
    LET f == FillRow(pos, d, px)
    IN  /\ fills < MaxFills /\ fills' = fills + 1
        /\ Magnitude(pos.size + d) <= MaxSize
        /\ pos' = Trade(pos, d, px)
        /\ start' = Base
        /\ \/ f.kind = "open" /\ WalkOpen(f)
           \/ f.kind = "close" /\ WalkClose(f)
           \/ f.kind = "flip" /\ WalkFlip(f)

Next == \E n \in Lots, px \in Prices : Fill(n, px) \/ Fill(-n, px)

Spec == Init /\ [][Next]_vars

-------------------------------------------------------------------------------
(* Properties. *)

InProgress == walk.direction # "none"

WalkType == [direction : Directions \cup {"none"}, openSize : Nat, openCost : Int,
             closeSize : Nat, closeValue : Int, pnl : Int, fillCount : Nat]

TradeType == [side : Directions \cup {"none"}, size : Nat, openSize : Nat,
              openCost : Int, closeSize : Nat, closeValue : Int, pnl : Int,
              fillCount : Nat, fromFlat : BOOLEAN]

(* The shape of the position, of the trade in progress and of the trades.   *)
TypeOK ==
    /\ pos \in [size : Int, basis : Int]
    /\ walk \in WalkType /\ trades \in Seq(TradeType)
    /\ start \in Nat /\ fills \in 0..MaxFills

(* Wherever the window begins and however positions flip, the trade in       *)
(* progress is on the side of the position and its open remainder is the     *)
(* part of the position its own fills built: the walk falls behind after a   *)
(* flip or a cut-off opening, and is in step again once the position has     *)
(* been flat.                                                                *)
WalkFollowsPosition ==
    InProgress =>
        /\ walk.direction = SideOf(pos.size)
        /\ walk.openSize > walk.closeSize
        /\ walk.openSize - walk.closeSize + start = Magnitude(pos.size)

Value(t) == IF t.side = "long" THEN t.closeValue - t.openCost
            ELSE t.openCost - t.closeValue

(* A trade that began without a position is a round trip: it closes what it  *)
(* opened, and the profit summed over its fills is what its own prices and   *)
(* the fees of its fills come to, flips included.                            *)
RoundTripsAddUp ==
    \A i \in DOMAIN trades :
        LET t == trades[i]
        IN  t.fromFlat => /\ t.openSize = t.size /\ t.closeSize = t.size
                          /\ t.pnl = Value(t) - t.fillCount * Fee

(* Such a trade is emitted by the fill that ends its position, never before  *)
(* and never later: "when size returns to ~0 we emit a Trade" (trades.py:278). *)
EmittedWhenPositionEnds ==
    [][InProgress /\ start = 0 =>
        (Len(trades') > Len(trades) <=> SideOf(pos'.size) # walk.direction)]_vars
===============================================================================
