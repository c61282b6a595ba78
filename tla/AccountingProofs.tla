-------------------------- MODULE AccountingProofs --------------------------
(***************************************************************************)
(* The books reconcile after every sequence of fills and marks, for every  *)
(* set of prices and quantities (BookInv).  The cost of an open position   *)
(* stays between what it would cost at the lowest and at the highest price *)
(* (BasisInv), although every partial close truncates it, and truncating   *)
(* the cost does not move the average.                                     *)
(***************************************************************************)
EXTENDS Accounting, TLAPS

\* What refresh_derived establishes.  Reconciles alone is not inductive: it
\* does not say how the total splits into realized and unrealized.
Derived ==
  /\ realized_pnl = cash + open_cost
  /\ net_qty = 0 => open_cost = 0 /\ unrealized_pnl = 0
  /\ net_qty # 0 => unrealized_pnl = net_qty * mark_price - open_cost
  /\ net_qty # 0 => avg_price = abs_qty(open_cost) \div abs_qty(net_qty)

BookInv == BookTypeOK /\ Derived

\* abs_qty is a natural number, and zero only of zero.
LEMMA AbsNat ==
  ASSUME NEW x \in Int
  PROVE  abs_qty(x) \in Nat /\ (x # 0 => abs_qty(x) > 0)
BY DEF abs_qty

\* Dividing natural numbers leaves them natural.
LEMMA DivNat ==
  ASSUME NEW a \in Nat, NEW b \in Nat, b > 0
  PROVE  a \div b \in Nat
OBVIOUS

\* The truncating division of the code yields an integer.
LEMMA TruncDivInt ==
  ASSUME NEW a \in Int, NEW b \in Nat, b > 0
  PROVE  trunc_div(a, b) \in Int
<1>1. CASE a >= 0
  BY <1>1, DivNat DEF trunc_div
<1>2. CASE a < 0
  <2>1. -a \in Nat
    BY <1>2
  <2>2. (-a) \div b \in Nat
    BY <2>1, DivNat
  <2> QED
    BY <1>2, <2>2 DEF trunc_div
<1> QED
  BY <1>1, <1>2

\* A product of integers, as a fact of its own: the solver loses it among
\* nonlinear terms.
LEMMA ProductInt ==
  ASSUME NEW a \in Int, NEW b \in Int
  PROVE  a * b \in Int
OBVIOUS

\* The signed quantity of a fill is an integer.
LEMMA SignedQty ==
  ASSUME NEW side \in Side, NEW qty \in Int
  PROVE  side_sign(side) * qty \in Int
BY DEF side_sign, Side

\* The cost rule yields an integer in each of its four cases.
LEMMA OpenCostInt ==
  ASSUME NEW cost \in Int, NEW cur \in Int, NEW s \in Int, NEW p \in Int
  PROVE  open_cost_after(cost, cur, s, p) \in Int
<1>1. s * p \in Int /\ (cur + s) * p \in Int
  BY ProductInt
<1>2. ASSUME cur # 0
      PROVE  trunc_div(cost * abs_qty(cur + s), abs_qty(cur)) \in Int
  <2>1. cost * abs_qty(cur + s) \in Int
    BY AbsNat, ProductInt
  <2>2. abs_qty(cur) \in Nat /\ abs_qty(cur) > 0
    BY <1>2, AbsNat
  <2> QED
    BY <2>1, <2>2, TruncDivInt
<1> QED
  BY <1>1, <1>2 DEF open_cost_after

\* refresh_derived re-establishes the invariant whatever was written before.
LEMMA RefreshEstablishes ==
  ASSUME NEW net \in Int, NEW cost \in Int, NEW mark \in Nat,
         net_qty' = net, mark_price' = mark, cash' \in Int,
         refresh_derived(net, cost, mark)
  PROVE  BookInv'
<1>1. net * mark \in Int
  BY ProductInt
<1>2. net # 0 => abs_qty(cost) \div abs_qty(net) \in Nat
  BY AbsNat, DivNat
<1>3. CASE net = 0
  BY <1>3 DEF refresh_derived, BookInv, BookTypeOK, Derived
<1>4. CASE net # 0
  BY <1>1, <1>2, <1>4 DEF refresh_derived, BookInv, BookTypeOK, Derived
<1> QED
  BY <1>3, <1>4

\* apply_fill, with its trailing refresh, keeps the equations of the books.
LEMMA FillKeepsBook ==
  ASSUME BookInv, NEW side \in Side, NEW qty \in Int, NEW price \in Nat,
         apply_fill(side, qty, price)
  PROVE  BookInv'
<1> DEFINE s == side_sign(side) * qty
           net == net_qty + s
           cost == open_cost_after(open_cost, net_qty, s, price)
<1>1. s \in Int
  BY SignedQty
<1>2. /\ net_qty' = net /\ mark_price' = mark_price
      /\ cash' = cash - s * price
      /\ refresh_derived(net, cost, mark_price)
  BY DEF apply_fill
<1>3. net_qty \in Int /\ open_cost \in Int /\ cash \in Int /\ mark_price \in Nat
  BY DEF BookInv, BookTypeOK
<1> HIDE DEF s
<1>4. net \in Int /\ cost \in Int /\ cash' \in Int
  BY <1>1, <1>2, <1>3, OpenCostInt, ProductInt
<1> HIDE DEF net, cost
<1> QED
  BY <1>2, <1>3, <1>4, RefreshEstablishes

\* So does mark_to_market.
LEMMA MarkKeepsBook ==
  ASSUME BookInv, NEW price \in Nat, mark_to_market(price)
  PROVE  BookInv'
<1>1. net_qty \in Int /\ open_cost \in Int /\ cash \in Int
  BY DEF BookInv, BookTypeOK
<1>2. /\ net_qty' = net_qty /\ cash' = cash /\ mark_price' = price
      /\ refresh_derived(net_qty, open_cost, price)
  BY DEF mark_to_market
<1> QED
  BY <1>1, <1>2, RefreshEstablishes

\* The figures keep their types and refresh_derived's equations hold after
\* every update.
THEOREM BookInvariant == BookSpec => []BookInv
<1>1. BookInit => BookInv
  BY DEF BookInit, BookInv, BookTypeOK, Derived
<1>2. BookInv /\ [BookNext]_bookVars => BookInv'
  <2> SUFFICES ASSUME BookInv, [BookNext]_bookVars PROVE BookInv'
    OBVIOUS
  <2>1. ASSUME NEW side \in Side, NEW qty \in FillQuantities,
               NEW price \in Prices, apply_fill(side, qty, price)
        PROVE  BookInv'
    BY <2>1, AccountingAssumption, FillKeepsBook
  <2>2. ASSUME NEW price \in Prices, mark_to_market(price)
        PROVE  BookInv'
    BY <2>2, AccountingAssumption, MarkKeepsBook
  <2>3. CASE UNCHANGED bookVars
    BY <2>3 DEF bookVars, BookInv, BookTypeOK, Derived
  <2> QED
    BY <2>1, <2>2, <2>3 DEF BookNext, refuse_fill
<1> QED
  BY <1>1, <1>2, PTL DEF BookSpec

\* Realized plus unrealized PnL is cash plus the position at the mark, for
\* every price and quantity: truncation loses nothing.
THEOREM BooksReconcile == BookSpec => []Reconciles
<1>1. BookInv => Reconciles
  <2> SUFFICES ASSUME BookInv PROVE Reconciles
    OBVIOUS
  <2>1. net_qty \in Int /\ mark_price \in Nat /\ net_qty * mark_price \in Int
    BY ProductInt DEF BookInv, BookTypeOK
  <2>2. CASE net_qty = 0
    BY <2>1, <2>2 DEF BookInv, BookTypeOK, Derived, Reconciles
  <2>3. CASE net_qty # 0
    BY <2>1, <2>3 DEF BookInv, BookTypeOK, Derived, Reconciles
  <2> QED
    BY <2>2, <2>3
<1> QED
  BY <1>1, BookInvariant, PTL

\* An opening or increasing fill moves cash and cost by the same amount.
LEMMA IncreaseKeepsRealized ==
  ASSUME BookInv, NEW side \in Side, NEW qty \in Int, NEW price \in Nat,
         apply_fill(side, qty, price),
         \/ net_qty = 0
         \/ net_qty' = net_qty
         \/ /\ abs_qty(net_qty') > abs_qty(net_qty)
            /\ (net_qty' > 0) = (net_qty > 0)
  PROVE  realized_pnl' = realized_pnl
<1> DEFINE s == side_sign(side) * qty
           cost == open_cost_after(open_cost, net_qty, s, price)
<1>1. s \in Int /\ s # 0
  BY DEF side_sign, Side, apply_fill
<1>2. /\ net_qty' = net_qty + s /\ cash' = cash - s * price
      /\ refresh_derived(net_qty + s, cost, mark_price)
  BY DEF apply_fill
<1>3. /\ net_qty \in Int /\ open_cost \in Int /\ cash \in Int
      /\ realized_pnl = cash + open_cost
      /\ net_qty = 0 => open_cost = 0
  BY DEF BookInv, BookTypeOK, Derived
<1> HIDE DEF s
<1>4. net_qty = 0 \/ (net_qty > 0) = (s > 0)
  BY <1>1, <1>2, <1>3 DEF abs_qty
<1>5. net_qty + s # 0
  BY <1>1, <1>3, <1>4
<1>6. cost = open_cost + s * price
  BY <1>4 DEF open_cost_after
<1>7. s * price \in Int
  BY <1>1, ProductInt
<1>8. realized_pnl' = cash' + open_cost' /\ open_cost' = cost
  BY <1>2, <1>5 DEF refresh_derived
<1> HIDE DEF cost
<1> QED
  BY <1>2, <1>3, <1>6, <1>7, <1>8

\* Realized PnL never moves on a mark or on a fill that opens or increases a
\* position.
THEOREM RealizedOnlyWhenClosing == BookSpec => RealizedOnlyOnClose
<1> DEFINE Grows == \/ net_qty = 0
                    \/ net_qty' = net_qty
                    \/ /\ abs_qty(net_qty') > abs_qty(net_qty)
                       /\ (net_qty' > 0) = (net_qty > 0)
           A == Grows => realized_pnl' = realized_pnl
<1>1. BookInv /\ [BookNext]_bookVars => [A]_bookVars
  <2> SUFFICES ASSUME BookInv, BookNext, Grows
               PROVE  realized_pnl' = realized_pnl
    OBVIOUS
  <2>1. ASSUME NEW side \in Side, NEW qty \in FillQuantities,
               NEW price \in Prices, apply_fill(side, qty, price)
        PROVE  realized_pnl' = realized_pnl
    BY <2>1, AccountingAssumption, IncreaseKeepsRealized
  <2>2. ASSUME NEW price \in Prices, mark_to_market(price)
        PROVE  realized_pnl' = realized_pnl
    <3>1. /\ cash' = cash
          /\ open_cost' = IF net_qty = 0 THEN 0 ELSE open_cost
          /\ realized_pnl' = cash' + open_cost'
      BY <2>2 DEF mark_to_market, refresh_derived
    <3> QED
      BY <3>1 DEF BookInv, Derived
  <2> QED
    BY <2>1, <2>2 DEF BookNext, refuse_fill, bookVars
<1> QED
  BY <1>1, BookInvariant, PTL DEF BookSpec, RealizedOnlyOnClose
-----------------------------------------------------------------------------
(* Average cost: products and truncated quotients.                         *)

\* Multiplying by a natural number keeps an order.
LEMMA ProductMonotone ==
  ASSUME NEW a \in Int, NEW b \in Int, NEW c \in Nat, a <= b
  PROVE  c * a <= c * b /\ a * c <= b * c
OBVIOUS

\* What \div computes, for the sign the code's quotients have.
LEMMA DivFloor ==
  ASSUME NEW a \in Nat, NEW b \in Nat, b > 0
  PROVE  /\ a \div b \in Nat
         /\ b * (a \div b) <= a
         /\ a < b * (a \div b) + b
OBVIOUS

\* ... and that nothing else lies in that interval.
LEMMA DivUnique ==
  ASSUME NEW a \in Nat, NEW b \in Nat, b > 0, NEW d \in Nat,
         b * d <= a, a < b * d + b
  PROVE  a \div b = d
<1> DEFINE e == a \div b
<1>1. e \in Nat /\ b * e <= a /\ a < b * e + b
  BY DivFloor
<1> HIDE DEF e
<1>2. d < e => b * (d + 1) <= b * e
  BY <1>1, ProductMonotone
<1>3. e < d => b * (e + 1) <= b * d
  BY <1>1, ProductMonotone
<1>4. b * (d + 1) = b * d + b /\ b * (e + 1) = b * e + b
  BY <1>1
<1>5. b * d \in Int /\ b * e \in Int
  BY <1>1, ProductInt
<1>6. e = d
  BY <1>1, <1>2, <1>3, <1>4, <1>5
<1> QED
  BY <1>6 DEF e

\* A quotient stays between bounds that hold of the dividend.
LEMMA DivRange ==
  ASSUME NEW a \in Nat, NEW b \in Nat, b > 0, NEW low \in Nat, NEW high \in Nat,
         low * b <= a, a <= high * b
  PROVE  a \div b \in low .. high
<1> DEFINE e == a \div b
<1>1. e \in Nat /\ b * e <= a /\ a < b * e + b
  BY DivFloor
<1> HIDE DEF e
<1>2. e < low => (e + 1) * b <= low * b
  BY <1>1, ProductMonotone
<1>3. high < e => (high + 1) * b <= e * b
  BY <1>1, ProductMonotone
<1>4. /\ (e + 1) * b = b * e + b /\ (high + 1) * b = high * b + b
      /\ e * b = b * e
  BY <1>1
<1>5. low * b \in Int /\ b * e \in Int /\ high * b \in Int
  BY <1>1, ProductInt
<1>6. e \in low .. high
  BY <1>1, <1>2, <1>3, <1>4, <1>5
<1> QED
  BY <1>6 DEF e

\* Keeping the cost in proportion keeps the price per unit between bounds.
LEMMA ProportionRange ==
  ASSUME NEW c \in Nat, NEW n \in Nat, n > 0, NEW r \in Nat,
         NEW low \in Nat, NEW high \in Nat, low * n <= c, c <= high * n
  PROVE  (c * r) \div n \in low * r .. high * r
<1>1. (low * n) * r <= c * r /\ c * r <= (high * n) * r
  BY ProductInt, ProductMonotone
<1>2. (low * n) * r = (low * r) * n /\ (high * n) * r = (high * r) * n
  OBVIOUS
<1>3. c * r \in Nat /\ low * r \in Nat /\ high * r \in Nat
  OBVIOUS
<1> QED
  BY <1>1, <1>2, <1>3, DivRange

\* Truncating the remaining cost and then the average loses nothing more than
\* truncating the average.
LEMMA ProportionKeepsQuotient ==
  ASSUME NEW c \in Nat, NEW n \in Nat, n > 0, NEW r \in Nat, r > 0
  PROVE  ((c * r) \div n) \div r = c \div n
<1> DEFINE d == c \div n
           e == (c * r) \div n
<1>1. d \in Nat /\ n * d <= c /\ c < n * d + n
  BY DivFloor
<1>2. c * r \in Nat
  OBVIOUS
<1>3. e \in Nat /\ n * e <= c * r /\ c * r < n * e + n
  BY <1>2, DivFloor
<1> HIDE DEF d, e
<1>4. n * d \in Nat /\ n * e \in Nat /\ r * d \in Nat
  BY <1>1, <1>3
<1>5. (n * d) * r <= c * r /\ (c + 1) * r <= (n * d + n) * r
  BY <1>1, <1>4, ProductMonotone
<1>6. /\ (n * d) * r = n * (r * d)
      /\ (c + 1) * r = c * r + r
      /\ (n * d + n) * r = n * (r * d + r)
  BY <1>1
<1>7. e < r * d => n * (e + 1) <= n * (r * d)
  BY <1>3, <1>4, ProductMonotone
<1>8. r * d + r <= e => n * (r * d + r) <= n * e
  BY <1>3, <1>4, ProductMonotone
<1>9. n * (e + 1) = n * e + n
  BY <1>3
<1>10. n * (r * d) \in Int /\ n * (r * d + r) \in Int
  BY <1>4, ProductInt
<1>11. r * d <= e /\ e < r * d + r
  BY <1>2, <1>3, <1>4, <1>5, <1>6, <1>7, <1>8, <1>9, <1>10
<1>12. e \div r = d
  BY <1>1, <1>3, <1>11, DivUnique
<1> QED
  BY <1>12 DEF d, e

\* The lowest and the highest price bound every price.
LEMMA PriceRange ==
  /\ LowestPrice \in Nat /\ HighestPrice \in Nat
  /\ \A p \in Prices : p \in Nat /\ LowestPrice <= p /\ p <= HighestPrice
<1>1. PICK low \in Prices, high \in Prices : Prices \subseteq low .. high
  BY AccountingAssumption
<1>2. Prices \subseteq Nat
  BY AccountingAssumption
<1>3. \A q \in Prices : low <= q /\ high >= q
  BY <1>1, <1>2
<1>4. LowestPrice \in Prices /\ \A q \in Prices : LowestPrice <= q
  BY <1>3 DEF LowestPrice
<1>5. HighestPrice \in Prices /\ \A q \in Prices : HighestPrice >= q
  BY <1>3 DEF HighestPrice
<1> QED
  BY <1>2, <1>4, <1>5

\* A position and its cost: the cost has the position's sign and a price per
\* unit within the range.
Based(net, cost) ==
  /\ LowestPrice * abs_qty(net) <= abs_qty(cost)
  /\ abs_qty(cost) <= HighestPrice * abs_qty(net)
  /\ net >= 0 => cost >= 0
  /\ net <= 0 => cost <= 0

\* A product with a price has the sign and the size of its quantity.
LEMMA SignedProduct ==
  ASSUME NEW x \in Int, NEW p \in Nat
  PROVE  /\ x * p \in Int
         /\ abs_qty(x * p) = abs_qty(x) * p
         /\ x >= 0 => x * p >= 0
         /\ x <= 0 => x * p <= 0
<1>1. (x >= 0 => x * p >= 0) /\ (x <= 0 => x * p <= 0) /\ x * p \in Int
  OBVIOUS
<1>2. CASE x < 0
  <2>1. (-x) * p = -(x * p)
    OBVIOUS
  <2>2. x * p = 0 => abs_qty(x * p) = -(x * p)
    BY DEF abs_qty
  <2>3. abs_qty(x * p) = -(x * p) /\ abs_qty(x) = -x
    BY <1>1, <1>2 DEF abs_qty
  <2> QED
    BY <1>1, <2>1, <2>3
<1>3. CASE x >= 0
  BY <1>1, <1>3 DEF abs_qty
<1> QED
  BY <1>1, <1>2, <1>3

\* A quantity at one price is based.
LEMMA OnePriceIsBased ==
  ASSUME NEW x \in Int, NEW p \in Prices
  PROVE  Based(x, x * p)
<1>1. p \in Nat /\ LowestPrice \in Nat /\ HighestPrice \in Nat
      /\ LowestPrice <= p /\ p <= HighestPrice /\ abs_qty(x) \in Nat
  BY PriceRange, AbsNat
<1>2. /\ LowestPrice * abs_qty(x) <= p * abs_qty(x)
      /\ p * abs_qty(x) <= HighestPrice * abs_qty(x)
  BY <1>1, ProductMonotone
<1>3. abs_qty(x) * p = p * abs_qty(x)
  BY <1>1
<1> QED
  BY <1>1, <1>2, <1>3, SignedProduct DEF Based

\* Two holdings of the same sign add up.
LEMMA BasedSum ==
  ASSUME NEW n \in Int, NEW c \in Int, NEW s \in Int, NEW d \in Int,
         Based(n, c), Based(s, d),
         (n >= 0 /\ s >= 0) \/ (n <= 0 /\ s <= 0)
  PROVE  Based(n + s, c + d)
<1> DEFINE L == LowestPrice
           H == HighestPrice
           a == abs_qty(n)
           b == abs_qty(s)
<1>1. L \in Nat /\ H \in Nat /\ a \in Nat /\ b \in Nat
  BY PriceRange, AbsNat
<1>2. abs_qty(n + s) = a + b
  BY DEF abs_qty
<1>3. /\ n >= 0 /\ s >= 0 => c >= 0 /\ d >= 0
      /\ n <= 0 /\ s <= 0 => c <= 0 /\ d <= 0
  BY DEF Based
<1>4. abs_qty(c + d) = abs_qty(c) + abs_qty(d)
  BY <1>3 DEF abs_qty
<1>5. L * a <= abs_qty(c) /\ abs_qty(c) <= H * a
      /\ L * b <= abs_qty(d) /\ abs_qty(d) <= H * b
  BY DEF Based
<1>6. abs_qty(c) \in Nat /\ abs_qty(d) \in Nat
  BY AbsNat
<1>7. (n + s >= 0 => c + d >= 0) /\ (n + s <= 0 => c + d <= 0)
  BY <1>3 DEF Based
<1> HIDE DEF L, H, a, b
<1>8. /\ L * (a + b) = L * a + L * b /\ H * (a + b) = H * a + H * b
      /\ L * a \in Int /\ L * b \in Int /\ H * a \in Int /\ H * b \in Int
  BY <1>1
<1>9. L * (a + b) <= abs_qty(c) + abs_qty(d)
      /\ abs_qty(c) + abs_qty(d) <= H * (a + b)
  BY <1>5, <1>6, <1>8
<1> QED
  BY <1>2, <1>4, <1>7, <1>9 DEF Based, L, H

\* Dividing toward zero: the size is the quotient of the sizes.
LEMMA TruncDivSign ==
  ASSUME NEW c \in Int, NEW m \in Nat, NEW n \in Nat, n > 0
  PROVE  /\ abs_qty(trunc_div(c * m, n)) = (abs_qty(c) * m) \div n
         /\ c >= 0 => trunc_div(c * m, n) >= 0
         /\ c <= 0 => trunc_div(c * m, n) <= 0
<1> DEFINE x == c * m
           q == (abs_qty(c) * m) \div n
<1>1. /\ x \in Int /\ abs_qty(x) = abs_qty(c) * m
      /\ c >= 0 => x >= 0
      /\ c <= 0 => x <= 0
  BY SignedProduct
<1>2. abs_qty(x) \in Nat
  BY <1>1, AbsNat
<1>3. q \in Nat /\ abs_qty(x) \div n = q
  BY <1>1, <1>2, DivNat
<1> HIDE DEF x
<1>4. CASE x >= 0
  <2>1. trunc_div(x, n) = q
    BY <1>1, <1>3, <1>4 DEF trunc_div, abs_qty
  <2>2. x = 0 => q = 0
    <3>1. ASSUME x = 0 PROVE 0 \div n = 0
      BY DivUnique
    <3> QED
      BY <1>3, <3>1 DEF abs_qty
  <2> HIDE DEF q
  <2>3. abs_qty(q) = q
    BY <1>3 DEF abs_qty
  <2> QED
    BY <1>1, <1>3, <1>4, <2>1, <2>2, <2>3 DEF q, x
<1>5. CASE x < 0
  <2>1. trunc_div(x, n) = -q
    BY <1>1, <1>3, <1>5 DEF trunc_div, abs_qty
  <2> HIDE DEF q
  <2>2. abs_qty(-q) = q /\ -q <= 0
    BY <1>3 DEF abs_qty
  <2>3. c < 0
    BY <1>1, <1>5
  <2> QED
    BY <2>1, <2>2, <2>3 DEF q, x
<1> QED
  BY <1>1, <1>4, <1>5

\* Every fill keeps the cost based: it opens or increases, closes, reduces or
\* flips the position.
LEMMA FillIsBased ==
  ASSUME NEW n \in Int, NEW c \in Int, Based(n, c),
         NEW s \in Int, s # 0, NEW p \in Prices
  PROVE  Based(n + s, open_cost_after(c, n, s, p))
<1> DEFINE r == n + s
           k == open_cost_after(c, n, s, p)
<1>1. p \in Nat /\ LowestPrice \in Nat /\ HighestPrice \in Nat
  BY PriceRange
<1>2. CASE n = 0 \/ (n > 0) = (s > 0)
  <2>1. k = c + s * p
    BY <1>2 DEF open_cost_after
  <2>2. Based(s, s * p) /\ s * p \in Int
    BY <1>1, OnePriceIsBased, SignedProduct
  <2>3. (n >= 0 /\ s >= 0) \/ (n <= 0 /\ s <= 0)
    BY <1>2
  <2> QED
    BY <2>1, <2>2, <2>3, BasedSum
<1>3. CASE ~(n = 0 \/ (n > 0) = (s > 0)) /\ r = 0
  <2>1. k = 0
    BY <1>3 DEF open_cost_after
  <2>2. Based(0, 0 * p) /\ 0 * p = 0
    BY <1>1, OnePriceIsBased
  <2> QED
    BY <1>3, <2>1, <2>2
<1>4. CASE /\ ~(n = 0 \/ (n > 0) = (s > 0))
           /\ r # 0
           /\ (r > 0) = (n > 0)
  <2>1. k = trunc_div(c * abs_qty(r), abs_qty(n))
    BY <1>4 DEF open_cost_after
  <2>2. /\ r \in Int /\ abs_qty(r) \in Nat /\ abs_qty(c) \in Nat
        /\ abs_qty(n) \in Nat /\ abs_qty(n) > 0
    BY <1>4, AbsNat
  <2>3. /\ LowestPrice * abs_qty(n) <= abs_qty(c)
        /\ abs_qty(c) <= HighestPrice * abs_qty(n)
    BY DEF Based
  <2> HIDE DEF k, r
  <2>4. /\ abs_qty(k) = (abs_qty(c) * abs_qty(r)) \div abs_qty(n)
        /\ c >= 0 => k >= 0
        /\ c <= 0 => k <= 0
    BY <2>1, <2>2, TruncDivSign
  <2>5. abs_qty(k) \in LowestPrice * abs_qty(r) .. HighestPrice * abs_qty(r)
    <3> DEFINE a == abs_qty(c)
               b == abs_qty(n)
               m == abs_qty(r)
    <3>1. /\ a \in Nat /\ b \in Nat /\ b > 0 /\ m \in Nat
          /\ LowestPrice * b <= a /\ a <= HighestPrice * b
      BY <2>2, <2>3
    <3> HIDE DEF a, b, m
    <3>2. (a * m) \div b \in LowestPrice * m .. HighestPrice * m
      BY <1>1, <3>1, ProportionRange
    <3> QED
      BY <2>4, <3>2 DEF a, b, m
  <2>6. /\ LowestPrice * abs_qty(r) <= abs_qty(k)
        /\ abs_qty(k) <= HighestPrice * abs_qty(r)
    <3>1. LowestPrice * abs_qty(r) \in Int /\ HighestPrice * abs_qty(r) \in Int
      BY <1>1, <2>2, ProductInt
    <3> QED
      BY <2>5, <3>1
  <2>7. (r >= 0 => k >= 0) /\ (r <= 0 => k <= 0)
    <3>1. (n >= 0 => c >= 0) /\ (n <= 0 => c <= 0)
      BY DEF Based
    <3> QED
      BY <1>4, <2>2, <2>4, <3>1
  <2>8. Based(r, k)
    BY <2>6, <2>7 DEF Based
  <2> QED
    BY <2>8 DEF r, k
<1>5. CASE /\ ~(n = 0 \/ (n > 0) = (s > 0))
           /\ r # 0
           /\ ~((r > 0) = (n > 0))
  <2>1. k = r * p
    BY <1>5 DEF open_cost_after
  <2> QED
    BY <2>1, OnePriceIsBased
<1> QED
  BY <1>2, <1>3, <1>4, <1>5

\* refresh_derived stores a based cost as it is.
LEMMA RefreshKeepsBased ==
  ASSUME NEW net \in Int, NEW cost \in Int, NEW mark \in Nat,
         Based(net, cost), net_qty' = net, refresh_derived(net, cost, mark)
  PROVE  open_cost' = cost /\ Based(net, cost)
<1>1. net = 0 => cost = 0
  BY DEF Based
<1> QED
  BY <1>1 DEF refresh_derived

\* The books with a based cost.
BasisInv == BookInv /\ Based(net_qty, open_cost)

\* The cost of the open position stays within the range of the prices.
THEOREM BasisInvariant == BookSpec => []BasisInv
<1>1. BookInit => Based(net_qty, open_cost)
  <2>1. LowestPrice * 0 = 0 /\ HighestPrice * 0 = 0
    BY PriceRange
  <2> QED
    BY <2>1 DEF BookInit, Based, abs_qty
<1>2. BookInv /\ Based(net_qty, open_cost) /\ [BookNext]_bookVars
        => Based(net_qty, open_cost)'
  <2> SUFFICES ASSUME BookInv, Based(net_qty, open_cost), [BookNext]_bookVars
               PROVE  Based(net_qty', open_cost')
    BY DEF Based
  <2>1. net_qty \in Int /\ open_cost \in Int /\ mark_price \in Nat
    BY DEF BookInv, BookTypeOK
  <2>2. ASSUME NEW side \in Side, NEW qty \in FillQuantities,
               NEW price \in Prices, apply_fill(side, qty, price)
        PROVE  Based(net_qty', open_cost')
    <3> DEFINE s == side_sign(side) * qty
               cost == open_cost_after(open_cost, net_qty, s, price)
    <3>1. qty \in Int /\ price \in Nat
      BY AccountingAssumption
    <3>2. s \in Int /\ s # 0
      BY <2>2, <3>1 DEF side_sign, Side, apply_fill
    <3>3. /\ net_qty' = net_qty + s
          /\ refresh_derived(net_qty + s, cost, mark_price)
      BY <2>2 DEF apply_fill
    <3> HIDE DEF s
    <3>4. cost \in Int
      BY <2>1, <3>1, <3>2, OpenCostInt
    <3>5. Based(net_qty + s, cost)
      BY <2>1, <3>2, FillIsBased
    <3> HIDE DEF cost
    <3>6. net_qty + s \in Int
      BY <2>1, <3>2
    <3> QED
      BY <2>1, <3>3, <3>4, <3>5, <3>6, RefreshKeepsBased
  <2>3. ASSUME NEW price \in Prices, mark_to_market(price)
        PROVE  Based(net_qty', open_cost')
    <3>1. price \in Nat
      BY AccountingAssumption
    <3>2. net_qty' = net_qty /\ refresh_derived(net_qty, open_cost, price)
      BY <2>3 DEF mark_to_market
    <3> QED
      BY <2>1, <3>1, <3>2, RefreshKeepsBased
  <2>4. CASE UNCHANGED bookVars
    BY <2>4 DEF bookVars
  <2> QED
    BY <2>2, <2>3, <2>4 DEF BookNext, refuse_fill
<1> QED
  BY <1>1, <1>2, BookInvariant, PTL DEF BookSpec, BasisInv

\* Neither truncation nor a flip takes the cost, or the average price, out of
\* the range of the prices that can be traded.
THEOREM BasisStaysWithinPrices == BookSpec => []BasisWithinPrices
<1>1. BasisInv => BasisWithinPrices
  <2> SUFFICES ASSUME BasisInv PROVE BasisWithinPrices
    OBVIOUS
  <2>1. /\ net_qty \in Int /\ open_cost \in Int
        /\ net_qty # 0
             => avg_price = abs_qty(open_cost) \div abs_qty(net_qty)
    BY DEF BasisInv, BookInv, BookTypeOK, Derived
  <2>2. Based(net_qty, open_cost)
    BY DEF BasisInv
  <2>3. net_qty # 0 => avg_price \in LowestPrice .. HighestPrice
    BY <2>1, <2>2, PriceRange, AbsNat, DivRange DEF Based
  <2> QED
    BY <2>2, <2>3 DEF BasisWithinPrices, Based
<1> QED
  BY <1>1, BasisInvariant, PTL

\* A fill that reduces a position leaves its average price alone: the cost is
\* truncated, and the average of the truncated cost is the same.
THEOREM ReducingKeepsAverage == BookSpec => ReduceKeepsAverage
<1>1. BookInv /\ [BookNext]_bookVars
        => [Reduces => avg_price' = avg_price]_bookVars
  <2> SUFFICES ASSUME BookInv, BookNext, Reduces
               PROVE  avg_price' = avg_price
    OBVIOUS
  <2>1. /\ net_qty \in Int /\ open_cost \in Int /\ mark_price \in Nat
        /\ net_qty # 0
             => avg_price = abs_qty(open_cost) \div abs_qty(net_qty)
    BY DEF BookInv, BookTypeOK, Derived
  <2>2. ASSUME NEW side \in Side, NEW qty \in FillQuantities,
               NEW price \in Prices, apply_fill(side, qty, price)
        PROVE  avg_price' = avg_price
    <3> DEFINE s == side_sign(side) * qty
               r == net_qty + s
               cost == open_cost_after(open_cost, net_qty, s, price)
    <3>1. qty \in Int /\ price \in Nat
      BY AccountingAssumption
    <3>2. s \in Int
      BY <3>1, SignedQty
    <3>3. net_qty' = r /\ refresh_derived(r, cost, mark_price)
      BY <2>2 DEF apply_fill
    <3> HIDE DEF s
    <3>4. /\ ~(net_qty = 0 \/ (net_qty > 0) = (s > 0))
          /\ r # 0 /\ (r > 0) = (net_qty > 0) /\ r \in Int
      BY <2>1, <3>2, <3>3 DEF Reduces, abs_qty
    <3>5. cost = trunc_div(open_cost * abs_qty(r), abs_qty(net_qty))
      BY <3>4 DEF open_cost_after
    <3>6. avg_price' = abs_qty(cost) \div abs_qty(r)
      BY <3>3, <3>4 DEF refresh_derived
    <3> HIDE DEF r, cost
    <3>7. /\ abs_qty(r) \in Nat /\ abs_qty(r) > 0
          /\ abs_qty(net_qty) \in Nat /\ abs_qty(net_qty) > 0
          /\ abs_qty(open_cost) \in Nat
      BY <2>1, <3>4, AbsNat
    <3>8. abs_qty(cost)
            = (abs_qty(open_cost) * abs_qty(r)) \div abs_qty(net_qty)
      BY <2>1, <3>5, <3>7, TruncDivSign
    <3>9. abs_qty(cost) \div abs_qty(r)
            = abs_qty(open_cost) \div abs_qty(net_qty)
      BY <3>7, <3>8, ProportionKeepsQuotient
    <3> QED
      BY <2>1, <3>4, <3>6, <3>9
  <2>3. ASSUME NEW price \in Prices, mark_to_market(price)
        PROVE  FALSE
    BY <2>1, <2>3 DEF mark_to_market, Reduces, abs_qty
  <2>4. ASSUME NEW qty \in FillQuantities, refuse_fill(qty)
        PROVE  FALSE
    BY <2>1, <2>4 DEF refuse_fill, bookVars, Reduces, abs_qty
  <2> QED
    BY <2>2, <2>3, <2>4 DEF BookNext
<1> QED
  BY <1>1, BookInvariant, PTL DEF BookSpec, ReduceKeepsAverage
=============================================================================
