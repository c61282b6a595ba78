---------------------------- MODULE MCTradingMain ----------------------------
(* Files of up to three rows, good ones of three times and two symbols, one *)
(* row for each defect, read completely or not.                              *)
EXTENDS TradingMain

Field(n) == [kind |-> "int", value |-> n]

Empty == [kind |-> "empty", value |-> 0]

Junk == [kind |-> "junk", value |-> 0]

Row(exchange, receive, symbol, bid, ask_qty) ==
  <<Field(exchange), Field(receive), Field(symbol), Field(bid), Field(2), Field(0),
    Field(ask_qty)>>

Good(ts, symbol) == Row(ts, ts, symbol, 1, 1)

Rows ==
  {Good(0, 1), Good(1, 1), Good(2, 1), Good(1, 2),
   Tail(Good(0, 1)), Append(Good(0, 1), Field(1)),
   [Good(1, 1) EXCEPT ![4] = Empty], [Good(1, 1) EXCEPT ![7] = Junk],
   Row(1, 1, 2, 0, 1), Row(1, 1, 1, 1, -1), Row(1, 1, 1, 3, 1),
   Row(1, 0, 1, 1, 1)}

File(rows, bad_after) ==
  [opens |-> TRUE, header |-> TRUE, rows |-> rows, bad_after |-> bad_after]

MCInputs ==
  {File(rows, bad_after) : rows \in BoundedSeq(Rows, 3), bad_after \in 0 .. 5}
    \cup {[File(<<>>, 5) EXCEPT !.opens = FALSE],
          [File(<<>>, 5) EXCEPT !.header = FALSE]}
=============================================================================
