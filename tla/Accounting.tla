----------------------------- MODULE Accounting -----------------------------
(***************************************************************************)
(* llt::AccountingEngine: cash, position and average-cost PnL.  open_cost  *)
(* is the signed cost of the open position.  The environment applies fills *)
(* in any order and marks the book to any price.                           *)
(***************************************************************************)
EXTENDS TradingTypes

CONSTANTS
  Prices,           \* prices of fills and marks, a bounded range's worth
  FillQuantities,   \* quantities of fills, good and bad
  MaxNet,           \* bound on the position (the risk limit)
  MaxCash           \* bound on the cash balance

ASSUME AccountingAssumption ==
  /\ Prices \subseteq Nat \ {0}
  /\ \E low, high \in Prices : Prices \subseteq low .. high
  /\ FillQuantities \subseteq Int
  /\ MaxNet \in Nat
  /\ MaxCash \in Nat

VARIABLES net_qty, avg_price, realized_pnl, unrealized_pnl, cash, open_cost,
          mark_price

bookVars == <<net_qty, avg_price, realized_pnl, unrealized_pnl, cash,
              open_cost, mark_price>>

\* C++ integer division truncates toward zero; b is positive.
\* Mutant: division that rounds down.
floor_div(a, b) == a \div b

trunc_div(a, b) == IF a >= 0 THEN a \div b ELSE -((-a) \div b)

\* The cost of the open position after a signed fill, before refresh_derived:
\* open or increase, close, reduce (keep cost in proportion), flip.
\*
\* Mutant: an increase of a short position adds cost instead of taking it.
open_cost_unsigned(cost, current, signed_qty, price) ==
  LET residual == current + signed_qty
  IN IF current = 0 \/ (current > 0) = (signed_qty > 0)
     THEN cost + abs_qty(signed_qty) * price
     ELSE IF residual = 0 THEN 0
     ELSE IF (residual > 0) = (current > 0)
     THEN trunc_div(cost * abs_qty(residual), abs_qty(current))
     ELSE residual * price

\* Mutant: a flip keeps the old cost.
open_cost_no_flip(cost, current, signed_qty, price) ==
  LET residual == current + signed_qty
  IN IF current = 0 \/ (current > 0) = (signed_qty > 0)
     THEN cost + signed_qty * price
     ELSE trunc_div(cost * abs_qty(residual), abs_qty(current))

open_cost_after(cost, current, signed_qty, price) ==
  LET residual == current + signed_qty
  IN IF current = 0 \/ (current > 0) = (signed_qty > 0)
     THEN cost + signed_qty * price
     ELSE IF residual = 0 THEN 0
     ELSE IF (residual > 0) = (current > 0)
     THEN trunc_div(cost * abs_qty(residual), abs_qty(current))
     ELSE residual * price

\* Mutant: the derived figures keep the old mark.
refresh_derived_stale_mark(net, cost, mark) ==
  /\ open_cost' = IF net = 0 THEN 0 ELSE cost
  /\ avg_price' = IF net = 0 THEN 0 ELSE abs_qty(cost) \div abs_qty(net)
  /\ unrealized_pnl' = IF net = 0 THEN 0 ELSE net * mark_price - cost
  /\ realized_pnl' = cash' + open_cost'

\* refresh_derived, after the fields it reads were written.
refresh_derived(net, cost, mark) ==
  /\ open_cost' = IF net = 0 THEN 0 ELSE cost
  /\ avg_price' = IF net = 0 THEN 0 ELSE abs_qty(cost) \div abs_qty(net)
  /\ unrealized_pnl' = IF net = 0 THEN 0 ELSE net * mark - cost
  /\ realized_pnl' = cash' + open_cost'

BookInit ==
  /\ net_qty = 0
  /\ avg_price = 0
  /\ realized_pnl = 0
  /\ unrealized_pnl = 0
  /\ cash = 0
  /\ open_cost = 0
  /\ mark_price = 0

apply_fill(side, quantity, price) ==
  LET signed_qty == side_sign(side) * quantity
  IN /\ quantity > 0
     /\ cash' = cash - signed_qty * price
     /\ net_qty' = net_qty + signed_qty
     /\ mark_price' = mark_price
     /\ refresh_derived(net_qty + signed_qty,
          open_cost_after(open_cost, net_qty, signed_qty, price), mark_price)

\* A fill that is not positive is refused and changes nothing.
refuse_fill(quantity) == quantity <= 0 /\ UNCHANGED bookVars

mark_to_market(mid_price) ==
  /\ mark_price' = mid_price
  /\ UNCHANGED <<net_qty, cash>>
  /\ refresh_derived(net_qty, open_cost, mid_price)

Bounded == abs_qty(net_qty') <= MaxNet /\ abs_qty(cash') <= MaxCash

BookNext ==
  \/ \E side \in Side, quantity \in FillQuantities, price \in Prices :
       apply_fill(side, quantity, price) /\ Bounded
  \/ \E quantity \in FillQuantities : refuse_fill(quantity)
  \/ \E price \in Prices : mark_to_market(price)

BookSpec == BookInit /\ [][BookNext]_bookVars

-----------------------------------------------------------------------------
(* Properties *)

\* The figures stay integers, and the average price is never negative.
BookTypeOK ==
  /\ net_qty \in Int
  /\ avg_price \in Nat
  /\ realized_pnl \in Int
  /\ unrealized_pnl \in Int
  /\ cash \in Int
  /\ open_cost \in Int
  /\ mark_price \in Nat

\* SPEC.md, cross-module invariant 9: realized plus unrealized PnL is cash
\* plus the position at the mark, after every update and whatever the
\* truncation discarded.
Reconciles == realized_pnl + unrealized_pnl = cash + net_qty * mark_price

\* The range of the prices of the input.
LowestPrice  == CHOOSE p \in Prices : \A q \in Prices : p <= q
HighestPrice == CHOOSE p \in Prices : \A q \in Prices : p >= q

\* The cost of the open position has the position's sign and a price per unit
\* between the lowest and the highest of the prices that can be traded:
\* neither truncation nor a flip takes the basis out of that range.
BasisWithinPrices ==
  LET low  == LowestPrice
      high == HighestPrice
      n    == abs_qty(net_qty)
  IN /\ low * n <= abs_qty(open_cost) /\ abs_qty(open_cost) <= high * n
     /\ net_qty >= 0 => open_cost >= 0
     /\ net_qty <= 0 => open_cost <= 0
     /\ net_qty # 0 => avg_price \in low .. high

\* The step leaves a smaller position of the same sign.
Reduces ==
  /\ net_qty' # 0
  /\ abs_qty(net_qty') < abs_qty(net_qty)
  /\ (net_qty' > 0) = (net_qty > 0)

\* Reducing a position does not change avg_price, long or short, although the
\* remaining cost is truncated (docs/implemented_history.md).
ReduceKeepsAverage == [][Reduces => avg_price' = avg_price]_bookVars

\* Realized PnL moves only when a position is reduced, closed or flipped: not
\* on a mark, and not on a fill that opens or increases.
RealizedOnlyOnClose ==
  [][(net_qty = 0 \/ net_qty' = net_qty
      \/ (abs_qty(net_qty') > abs_qty(net_qty)
          /\ (net_qty' > 0) = (net_qty > 0)))
       => realized_pnl' = realized_pnl]_bookVars
=============================================================================
