------------------------------ MODULE TradeViews ------------------------------
(***************************************************************************)
(* The two reconstructions of trades.py over the same orders in one coin: the *)
(* walk over what the exchange reports (TradeReconstruction), and             *)
(* compute_trades, the walk over the fills table.  An order that fills as it   *)
(* is placed may take several fills at the exchange; the table has one row for *)
(* it, written once the order is through, with its total size and average     *)
(* price.  A limit order that rested first has no row that parses.            *)
(* compute_trades is kept for debugging; nothing but the tests calls it.      *)
(***************************************************************************)
EXTENDS TradeReconstruction

VARIABLES local,        \* compute_trades: the trade in progress
          localTrades,  \* compute_trades: the trades made
          order,        \* the order being placed: what has filled of it so far
          seen          \* history: from a flat start, every order filled as it was
                        \* placed, has its row, and left the position on its side

views == <<local, localTrades, order, seen>>

NoLocal == [direction |-> "none", openSize |-> 0, openCost |-> 0, closeSize |-> 0,
            closeValue |-> 0, fillCount |-> 0]

NoOrder == [kind |-> "none", size |-> 0, value |-> 0]

(* The sides of an order's row: its own, or "close" when a tool, the monitor  *)
(* or the dashboard closed the position.                                     *)
RowSides(o) ==
    {IF o.size > 0 THEN "buy" ELSE "sell"} \cup (IF o.kind = "close" THEN {"close"} ELSE {})

DirectionOf(side) == IF side = "buy" THEN "long" ELSE "short"

(* totalSz, and its product with avgPx. *)
AddLocalOpen(w, side, sz, value) ==
    [w EXCEPT !.direction = DirectionOf(side), !.openSize = @ + sz,
              !.openCost = @ + value, !.fillCount = @ + 1]

AddLocalClose(w, sz, value) ==
    [w EXCEPT !.closeSize = @ + sz, !.closeValue = @ + value, !.fillCount = @ + 1]

(* _make_trade; its averages are the quotients of value and size. *)
MakeTrade(w) ==
    [side |-> w.direction, size |-> Least(w.openSize, w.closeSize),
     openSize |-> w.openSize, openCost |-> w.openCost, closeSize |-> w.closeSize,
     closeValue |-> w.closeValue, fillCount |-> w.fillCount]

(* Mutant: only an explicit close reduces; other rows add to the trade.        *)
LocalAfterExplicit(side, sz, value) ==
    IF local.direction = "none"
    THEN IF side = "close" THEN NoLocal ELSE AddLocalOpen(NoLocal, side, sz, value)
    ELSE IF side # "close" THEN [AddLocalOpen(local, side, sz, value) EXCEPT !.direction = local.direction]
    ELSE AddLocalClose(local, sz, value)

(* The loop body: a close without a trade is ignored, a row on the trade's own *)
(* side adds to it, any other reduces it.                                     *)
LocalAfter(side, sz, value) ==
    IF local.direction = "none"
    THEN IF side = "close" THEN NoLocal ELSE AddLocalOpen(NoLocal, side, sz, value)
    ELSE IF side # "close" /\ DirectionOf(side) = local.direction
         THEN AddLocalOpen(local, side, sz, value)
         ELSE AddLocalClose(local, sz, value)

(* running_size <= _POSITION_EPS *)
LocalDone(w) == w.direction # "none" /\ w.openSize <= w.closeSize

WalkLocal(side, sz, value) ==
    LET w == LocalAfter(side, sz, value)
    IN  /\ local' = IF LocalDone(w) THEN NoLocal ELSE w
        /\ localTrades' = IF LocalDone(w) THEN Append(localTrades, MakeTrade(w))
                          ELSE localTrades

-------------------------------------------------------------------------------
ViewsInit ==
    /\ Init
    /\ local = NoLocal /\ localTrades = <<>> /\ order = NoOrder
    /\ seen = (pos.size = 0)

(* One fill of an order that fills as it is placed. *)
SeenFill(d, px) ==
    /\ order.size = 0 \/ SameDirection(order.size, d)
    /\ Fill(d, px)
    /\ order' = [kind  |-> IF order.kind = "none" THEN Kind(pos, d) ELSE order.kind,
                 size  |-> order.size + d,
                 value |-> order.value + Magnitude(d) * px]
    /\ seen' = (seen /\ Kind(pos, d) # "flip" /\ order.kind \in {"none", Kind(pos, d)})
    /\ UNCHANGED <<local, localTrades>>

(* The order is through: its row. *)
LogRow ==
    /\ order.kind # "none"
    /\ \E side \in RowSides(order) : WalkLocal(side, Magnitude(order.size), order.value)
    /\ order' = NoOrder
    /\ UNCHANGED <<vars, seen>>

(* A fill of a limit order that was logged as resting, or of an order whose    *)
(* row was never written.                                                    *)
UnseenFill(d, px) ==
    /\ Fill(d, px)
    /\ seen' = FALSE
    /\ UNCHANGED <<local, localTrades, order>>

ViewsNext ==
    \/ \E n \in Lots, px \in Prices : \E d \in {n, -n} :
          SeenFill(d, px) \/ UnseenFill(d, px)
    \/ LogRow

ViewsSpec == ViewsInit /\ [][ViewsNext]_<<vars, views>>

-------------------------------------------------------------------------------
(* Properties. *)

Alike(t, l) ==
    /\ l.side = t.side /\ l.size = t.size /\ l.fillCount <= t.fillCount
    /\ l.openSize = t.openSize /\ l.openCost = t.openCost
    /\ l.closeSize = t.closeSize /\ l.closeValue = t.closeValue

(* As long as every order fills as it is placed, in however many fills, and     *)
(* none turns the position around, the two reconstructions make the same trades *)
(* out of explicit closes, reducing orders and additions alike, and have the    *)
(* same one in progress whenever no order is part-filled; only the number of    *)
(* fills they report differs, the table having one row per order.             *)
ViewsAgreeWhenSeen ==
    seen /\ order = NoOrder =>
        /\ Len(localTrades) = Len(trades)
        /\ \A i \in DOMAIN trades : Alike(trades[i], localTrades[i])
        /\ local.direction = walk.direction
        /\ local.openSize - local.closeSize = Magnitude(pos.size)
===============================================================================
