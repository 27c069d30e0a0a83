------------------------------ MODULE Pricing ------------------------------
(***************************************************************************)
(* What an order costs: line subtotals, the coupon's discount spread over  *)
(* the lines, tax, shipping and the total (apps/api checkout.service.ts    *)
(* placeOrder, common/money.ts).  Amounts are integers in the ten-         *)
(* thousandths that every Decimal is rounded to, and products of them are  *)
(* exact.  A line's price, its eligibility for the coupon and its tax rate *)
(* are given; which row of the database they come from is left out.        *)
(***************************************************************************)
EXTENDS Integers, Sequences

CONSTANTS Prices,      \* unit prices
          MaxQuantity, \* bound on the units of a line
          MaxLines,    \* bound on the lines of a cart
          Coupons,     \* [type, value, minimum, maximum, restricted]; 0: no such limit
          Rates,       \* tax rates
          Hundred,     \* a hundred percent, in the unit that rates are kept in
          Shippings    \* [base, freeAbove]; 0: never free

ASSUME PricingAssumption ==
    /\ Prices \subseteq Nat /\ MaxQuantity \in Nat /\ MaxLines \in Nat /\ Rates \subseteq Nat
    /\ Hundred \in Nat \ {0}
    /\ \A c \in Coupons : c.value \in Nat /\ c.maximum \in Nat
    /\ \A s \in Shippings : s.base \in Int

VARIABLES bag,     \* the lines: price, quantity, eligible, rate, inclusive
          coupon,  \* the coupon applied
          method,  \* the shipping method
          order    \* the order placed, or Unplaced

pricingVars == <<bag, coupon, method, order>>

Unplaced == [placed |-> FALSE]
NoCoupon == [type |-> "NONE", value |-> 0, minimum |-> 0, maximum |-> 0,
             restricted |-> FALSE]

PricingInit == /\ bag = <<>> /\ coupon = NoCoupon /\ order = Unplaced
               /\ method \in Shippings

----------------------------------------------------------------------------
\* toDecimalPlaces(4, ROUND_HALF_UP) of n/d, d > 0: a half is rounded away from 0.
HalfUp(n, d) == IF n >= 0 THEN (2 * n + d) \div (2 * d) ELSE -((d - 2 * n) \div (2 * d))

Percentage(amount, rate) == HalfUp(amount * rate, Hundred)

\* addMoney: the amounts are added from the first to the last.
Sum(f) == LET upTo[k \in 0..Len(f)] == IF k = 0 THEN 0 ELSE upTo[k - 1] + f[k]
          IN  upTo[Len(f)]

Least(a, b) == IF a <= b THEN a ELSE b

LineSubtotal(l) == l.price * l.quantity

LineSubtotals == [i \in DOMAIN bag |-> LineSubtotal(bag[i])]

Subtotal == Sum(LineSubtotals)

EligibleLines(c) ==
    [i \in DOMAIN bag |-> IF c.restricted => bag[i].eligible THEN LineSubtotal(bag[i]) ELSE 0]

EligibleSubtotal(c) == Sum(EligibleLines(c))

CouponFits(c) == /\ Subtotal >= c.minimum
                 /\ c.restricted => EligibleSubtotal(c) > 0

Capped(c, amount) == IF c.maximum > 0 THEN Least(amount, c.maximum) ELSE amount

Discount(c) ==
    Capped(c, CASE c.type = "PERCENTAGE"    -> Percentage(EligibleSubtotal(c), c.value)
                [] c.type = "FIXED_CART"    -> Least(Subtotal, c.value)
                [] c.type = "FIXED_PRODUCT" -> Least(EligibleSubtotal(c), c.value)
                [] OTHER                    -> 0)

\* The discount is spread over every line, the eligible ones or not.
LineDiscount(l) == IF Subtotal = 0 THEN 0
                   ELSE HalfUp(Discount(coupon) * LineSubtotal(l), Subtotal)

Taxable(l) == LineSubtotal(l) - LineDiscount(l)

LineTax(l) == IF l.inclusive THEN HalfUp(Taxable(l) * l.rate, Hundred + l.rate)
              ELSE Percentage(Taxable(l), l.rate)

\* Mutant: the tax that the price includes is added again.
LineTotal_TaxedTwice(l) == Taxable(l) + LineTax(l)

LineTotal(l) == Taxable(l) + (IF l.inclusive THEN 0 ELSE LineTax(l))

ExclusiveTaxes == [i \in DOMAIN bag |-> IF bag[i].inclusive THEN 0 ELSE LineTax(bag[i])]

ExclusiveTax == Sum(ExclusiveTaxes)

ShippingTotal == IF coupon.type = "FREE_SHIPPING"
                    \/ (method.freeAbove > 0 /\ Subtotal >= method.freeAbove)
                 THEN 0 ELSE method.base

GrandTotal == Subtotal - Discount(coupon) + ExclusiveTax + ShippingTotal

----------------------------------------------------------------------------
AddLine(l) == /\ ~order.placed /\ Len(bag) < MaxLines
              /\ bag' = Append(bag, l)
              /\ UNCHANGED <<coupon, method, order>>

ApplyCoupon(c) == /\ ~order.placed /\ coupon = NoCoupon /\ bag # <<>>
                  /\ coupon' = c
                  /\ UNCHANGED <<bag, method, order>>

PriceOrder == /\ ~order.placed /\ bag # <<>> /\ CouponFits(coupon)
              /\ order' = [placed |-> TRUE, lines |-> [i \in DOMAIN bag |-> LineTotal(bag[i])],
                           discounts |-> [i \in DOMAIN bag |-> LineDiscount(bag[i])],
                           discount |-> Discount(coupon), shipping |-> ShippingTotal,
                           total |-> GrandTotal]
              /\ UNCHANGED <<bag, coupon, method>>

Lines == [price : Prices, quantity : 1..MaxQuantity, eligible : BOOLEAN,
          rate : Rates, inclusive : BOOLEAN]

PricingNext == \/ \E l \in Lines : AddLine(l)
               \/ \E c \in Coupons : ApplyCoupon(c)
               \/ PriceOrder

PricingSpec == PricingInit /\ [][PricingNext]_pricingVars

----------------------------------------------------------------------------
Abs(n) == IF n < 0 THEN -n ELSE n

\* What the lines of an order add up to, and what is refunded line by line, is its
\* total without shipping, up to half a unit of rounding for each line
\* (placeOrder, pricedLines).
LinesAddUp == order.placed =>
    2 * Abs(Sum(order.lines) - (order.total - order.shipping)) <= Len(bag)

\* No coupon of at most a hundred percent makes a line or an order cost less than
\* nothing, though its discount is rounded line by line (placeOrder).
NothingNegative == order.placed /\ (coupon.type = "PERCENTAGE" => coupon.value <= Hundred) =>
    /\ order.total >= order.shipping
    /\ \A i \in DOMAIN bag : /\ order.lines[i] >= 0
                             /\ order.discounts[i] \in 0..LineSubtotal(bag[i])

\* The sums of an order, of its lines and of its discounts fit each other.
MoneyAddsUp == LinesAddUp /\ NothingNegative
=============================================================================
