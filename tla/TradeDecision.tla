--------------------------- MODULE TradeDecision ----------------------------
(***************************************************************************)
(* The two pure decisions of the kernel: llt::Strategy, which turns a tick *)
(* into an order request, and llt::RiskEngine, which refuses a request     *)
(* that would take the position past its limit.                            *)
(***************************************************************************)
EXTENDS TradingTypes

CONSTANTS
  BuyBelow, SellAbove, OrderQty,   \* Strategy(100000, 120000, 50)
  MaxAbsPosition                   \* RiskEngine(200)

ASSUME DecisionAssumption ==
  /\ BuyBelow \in Int
  /\ SellAbove \in Int
  /\ OrderQty \in Nat \ {0}
  /\ MaxAbsPosition \in Nat

OrderRequest == [side : Side, quantity : Nat, limit_price : Int]

Order(side, qty) == [side |-> side, quantity |-> qty, limit_price |-> 0]

\* The buy rule is looked at first; the price is set later, by the runner.
strategy_on_tick(tick) ==
  IF tick.ask_price <= BuyBelow
  THEN [has_order |-> TRUE, order |-> Order("Buy", OrderQty)]
  ELSE IF tick.bid_price >= SellAbove
  THEN [has_order |-> TRUE, order |-> Order("Sell", OrderQty)]
  ELSE [has_order |-> FALSE, order |-> Order("Buy", 0)]

projected(net_qty, request) ==
  net_qty + side_sign(request.side) * request.quantity

\* Mutant of evaluate: the limit is compared with the position held, not with
\* the one the order would lead to.
evaluate_current_position(net_qty, request) ==
  IF request.quantity <= 0 THEN "InvalidQuantity"
  ELSE IF abs_qty(net_qty) <= MaxAbsPosition THEN "None"
  ELSE "MaxPosition"

\* Mutant of evaluate: the short side has no limit.
evaluate_long_only(net_qty, request) ==
  IF request.quantity <= 0 THEN "InvalidQuantity"
  ELSE IF projected(net_qty, request) <= MaxAbsPosition THEN "None"
  ELSE "MaxPosition"

\* The reject reason; "None" is the accepted decision.
evaluate(net_qty, request) ==
  IF request.quantity <= 0 THEN "InvalidQuantity"
  ELSE IF projected(net_qty, request) \in -MaxAbsPosition .. MaxAbsPosition
  THEN "None"
  ELSE "MaxPosition"
=============================================================================
