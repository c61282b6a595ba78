------------------------------ MODULE MCReplay ------------------------------
(* Small markets for ReplayProperties.  BuyBelow = 2 and SellAbove = 4: a    *)
(* market at 1 makes the strategy buy, one at 5 makes it sell, one at 3 does *)
(* neither.  The displayed quantities fill an order of 3 not at all, partly  *)
(* or completely, with and without a queue ahead of a passive order.         *)
EXTENDS ReplayProperties

Market(bid, ask, bid_qty, ask_qty) ==
  [bid_price |-> bid, ask_price |-> ask, bid_qty |-> bid_qty,
   ask_qty |-> ask_qty]

Calm == Market(3, 3, 1, 1)

MCQuotes ==
  {Calm,
   Market(1, 1, 0, 1), Market(1, 1, 1, 3), Market(1, 2, 0, 0),
   Market(5, 5, 1, 0), Market(5, 5, 3, 1), Market(4, 5, 0, 0)}

\* A recording whose clock starts before zero.
MCEpoch == -1
=============================================================================
