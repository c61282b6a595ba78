--------------------------- MODULE MCReplayResult ---------------------------
(* Two-sided markets that fill an order of 2 in part, for ReplayResult.      *)
EXTENDS ReplayResult

Market(bid, ask, bid_qty, ask_qty) ==
  [bid_price |-> bid, ask_price |-> ask, bid_qty |-> bid_qty,
   ask_qty |-> ask_qty]

MCQuotes ==
  {Market(3, 3, 1, 1), Market(1, 1, 0, 1), Market(1, 1, 0, 2),
   Market(5, 5, 1, 0)}
=============================================================================
