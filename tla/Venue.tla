-------------------------------- MODULE Venue ---------------------------------
(***************************************************************************)
(* The exchange as the trading code sees it (external: the Hyperliquid SDK  *)
(* and the venue are not part of this repository).  A position is           *)
(* [size, basis]: the signed size in lots and the signed notional at the    *)
(* average entry price.  Prices are whole money units per lot.              *)
(***************************************************************************)
EXTENDS Integers

Flat == [size |-> 0, basis |-> 0]

Magnitude(n) == IF n < 0 THEN -n ELSE n

SameDirection(m, n) == (m >= 0 /\ n >= 0) \/ (m <= 0 /\ n <= 0)

(* The position after d lots (signed) trade at px: adding averages the      *)
(* entry, reducing keeps it, crossing zero opens at px.                     *)
Trade(p, d, px) ==
    LET size == p.size + d
    IN  IF SameDirection(p.size, d)
          THEN [size |-> size, basis |-> p.basis + d * px]
        ELSE IF SameDirection(p.size, size)
          THEN [size  |-> size,
                basis |-> (p.basis * Magnitude(size)) \div Magnitude(p.size)]
        ELSE [size |-> size, basis |-> size * px]

UnrealizedPnl(p, px) == p.size * px - p.basis

(* What a trade moves from unrealised to realised profit. *)
RealizedPnl(p, d, px) == UnrealizedPnl(p, px) - UnrealizedPnl(Trade(p, d, px), px)

(* How much of an order the venue may fill: an IOC order may fill in part   *)
(* or not at all; a reduce-only order never goes past zero.                 *)
Fills(p, d, reduceOnly) ==
    LET room   == IF ~reduceOnly THEN Magnitude(d)
                  ELSE IF SameDirection(p.size, d) THEN 0
                  ELSE IF Magnitude(d) < Magnitude(p.size) THEN Magnitude(d)
                  ELSE Magnitude(p.size)
        sign   == IF d < 0 THEN -1 ELSE 1
    IN  {sign * n : n \in 0..room}
===============================================================================
