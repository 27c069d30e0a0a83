------------------------------ MODULE CartProofs ------------------------------
(***************************************************************************)
(* Proofs about Cart: tables keep their types and lines their carts; a     *)
(* checkout places an order as OrderFlow allows, so what is proved of the  *)
(* order flow holds with carts in front of it; the counter of a coupon     *)
(* counts its uses; and no unit is ordered twice.                          *)
(***************************************************************************)
EXTENDS Cart, OrderFlowProofs

-----------------------------------------------------------------------------
(* Types                                                                   *)

\* A request that has taken hold of a cart, or of a line in it, still finds it.
HeldCartsExist == \A t \in Tabs : tab[t].at \in {"held", "update"} => tab[t].cart \in carts

CartInv == CartTypeOK /\ HeldCartsExist

LEMMA TabFields ==
    ASSUME CartTypeOK, NEW t \in Tabs
    PROVE  /\ tab[t].at \in {"checked", "held", "update"} =>
                 tab[t].cart \in Owners /\ tab[t].variant \in Variants /\ tab[t].qty \in 1 .. MaxQty
           /\ tab[t].at = "update" => tab[t].cart \in Users
           /\ tab[t].at = "merge" =>
                 tab[t].cart \in Users /\ tab[t].guest \in Guests /\ tab[t].lines \in Lines
<1>1. tab[t] \in TabRequests
  BY DEF CartTypeOK
<1> QED
  BY <1>1 DEF TabRequests, Idle, Owners

LEMMA RequestKinds ==
    /\ Idle \in TabRequests /\ Idle.at \notin {"checked", "held", "update", "merge"}
    /\ \A c \in Owners, v \in Variants, n \in 1 .. MaxQty :
          /\ [at |-> "checked", cart |-> c, variant |-> v, qty |-> n] \in TabRequests
          /\ [at |-> "held", cart |-> c, variant |-> v, qty |-> n] \in TabRequests
    /\ \A u \in Users, v \in Variants, n \in 1 .. MaxQty :
          [at |-> "update", cart |-> u, variant |-> v, qty |-> n] \in TabRequests
    /\ \A u \in Users, g \in Guests, lines \in Lines :
          [at |-> "merge", cart |-> u, guest |-> g, lines |-> lines] \in TabRequests
BY DEF TabRequests, Idle

\* The requests that a login's deletion of the guest's cart makes fail.
LEMMA OnGuestRequests ==
    ASSUME CartTypeOK, NEW t \in Tabs, NEW g, tab[t] \notin OnGuest(g)
    PROVE  /\ tab[t].at = "held" => tab[t].cart # g
           /\ tab[t].at = "merge" => tab[t].guest # g
<1>1. tab[t] \in TabRequests
  BY DEF CartTypeOK
<1>2. CASE tab[t].at = "held"
  <2>1. tab[t] \in [at : {"held"}, cart : {tab[t].cart}, variant : Variants, qty : 1 .. MaxQty]
    BY <1>1, <1>2 DEF TabRequests, Idle
  <2> QED
    BY <1>2, <2>1 DEF OnGuest
<1>3. CASE tab[t].at = "merge"
  <2>1. tab[t] \in [at : {"merge"}, cart : Users, guest : {tab[t].guest}, lines : Lines]
    BY <1>1, <1>3 DEF TabRequests, Idle
  <2> QED
    BY <1>3, <2>1 DEF OnGuest
<1> QED
  BY <1>2, <1>3

\* Requests end or go on; the others stay as they are.
LEMMA TabSteps ==
    ASSUME CartInv
    PROVE  /\ \A t \in Tabs : EndTab(t) => tab' \in [Tabs -> TabRequests]
           /\ \A requests : FailTabs(requests) => tab' \in [Tabs -> TabRequests]
           /\ \A t \in Tabs : EndTab(t) =>
                 \A x \in Tabs : tab'[x] = tab[x] \/ tab'[x] = Idle
           /\ \A requests : FailTabs(requests) =>
                 \A x \in Tabs : tab'[x] = tab[x] \/ tab'[x] = Idle
BY RequestKinds DEF CartInv, CartTypeOK, EndTab, Tab, FailTabs

\* Requests that only end, with carts that only become more.
LEMMA HeldKept ==
    ASSUME CartInv, carts \subseteq carts',
           \A x \in Tabs : tab'[x] = tab[x] \/ tab'[x] = Idle
    PROVE  HeldCartsExist'
BY RequestKinds DEF CartInv, HeldCartsExist

\* An order's lines come out of a cart that holds them.
LEMMA CheckoutPlaces ==
    ASSUME CartTypeOK, NEW u \in Users, NEW o, NEW p, NEW w, Checkout(u, o, p, w)
    PROVE  items[u] \in Lines /\ PlaceOrder(o, items[u], p)
BY DEF CartTypeOK, Checkout, Owners

LEMMA CartInvStep == CartInv /\ [CartNext]_shopVars => CartInv'
<1> SUFFICES ASSUME CartInv, [CartNext]_shopVars PROVE CartInv'
  OBVIOUS
<1> USE CartAssumption, StockAssumption DEF couponVars
<1>1. ASSUME NEW t \in Tabs, NEW c \in Owners, NEW v \in Variants, NEW n \in 1 .. MaxQty,
             AddCheck(t, c, v, n)
      PROVE  CartInv'
  BY <1>1, RequestKinds DEF AddCheck, Tab, CartInv, CartTypeOK, HeldCartsExist
<1>2. ASSUME NEW t \in Tabs, AddCart(t)
      PROVE  CartInv'
  BY <1>2, TabFields, RequestKinds DEF AddCart, Tab, CartInv, CartTypeOK, HeldCartsExist
<1>3. ASSUME NEW t \in Tabs, AddItem(t)
      PROVE  CartInv'
  <2> DEFINE c == tab[t].cart
             v == tab[t].variant
             n == tab[t].qty
  <2>1. c \in carts /\ v \in Variants /\ n \in 1 .. MaxQty
    BY <1>3, TabFields DEF AddItem, CartInv, HeldCartsExist
  <2>2. c \in Owners /\ items[c] \in Lines /\ items[c][v] \in 0 .. MaxQty /\ put[v] \in 0 .. PutBound
    BY <2>1 DEF CartInv, CartTypeOK, Lines
  <2>3. items' = [items EXCEPT ![c][v] = @ + n] /\ put' = [put EXCEPT ![v] = @ + n]
        /\ items[c][v] + n <= MaxQty /\ put[v] + n <= PutBound
    BY <1>3 DEF AddItem
  <2>4. items' \in [Owners -> Lines] /\ put' \in [Variants -> 0 .. PutBound]
    BY <2>1, <2>2, <2>3 DEF CartInv, CartTypeOK, Lines
  <2>5. \A x \in Owners \ carts : items'[x] = NoUnits
    BY <2>1, <2>2, <2>3 DEF CartInv, CartTypeOK
  <2>6. tab' \in [Tabs -> TabRequests] /\ HeldCartsExist'
    BY <1>3, TabSteps, HeldKept DEF AddItem
  <2> QED
    BY <1>3, <2>4, <2>5, <2>6 DEF AddItem, CartInv, CartTypeOK
<1>4. ASSUME NEW t \in Tabs, NEW u \in Users, NEW v \in Variants, NEW n \in 1 .. MaxQty,
             UpdateCheck(t, u, v, n)
      PROVE  CartInv'
  <2>1. u \in Owners /\ u \in carts
    BY <1>4 DEF UpdateCheck, CartInv, CartTypeOK, Owners, NoUnits
  <2> QED
    BY <1>4, <2>1, RequestKinds DEF UpdateCheck, Tab, CartInv, CartTypeOK, HeldCartsExist
<1>5. ASSUME NEW t \in Tabs, UpdateWrite(t)
      PROVE  CartInv'
  <2> DEFINE u == tab[t].cart
             v == tab[t].variant
             n == tab[t].qty
             added == IF n > items[u][v] THEN n - items[u][v] ELSE 0
  <2>1. u \in Owners /\ v \in Variants /\ n \in 1 .. MaxQty
    BY <1>5, TabFields DEF UpdateWrite, CartInv
  <2>2. /\ items[u] \in Lines /\ items[u][v] \in 0 .. MaxQty /\ put[v] \in 0 .. PutBound
        /\ added \in Nat
    BY <2>1 DEF CartInv, CartTypeOK, Lines
  <2>3. /\ items' = [items EXCEPT ![u][v] = n] /\ put' = [put EXCEPT ![v] = @ + added]
        /\ put[v] + added <= PutBound
    BY <1>5 DEF UpdateWrite
  <2>4. u \in carts
    BY <1>5 DEF UpdateWrite, CartInv, HeldCartsExist
  <2>5. items' \in [Owners -> Lines] /\ put' \in [Variants -> 0 .. PutBound]
    BY <2>1, <2>2, <2>3 DEF CartInv, CartTypeOK, Lines
  <2>6. \A x \in Owners \ carts : items'[x] = NoUnits
    BY <2>1, <2>2, <2>3, <2>4 DEF CartInv, CartTypeOK
  <2>7. tab' \in [Tabs -> TabRequests] /\ HeldCartsExist'
    BY <1>5, TabSteps, HeldKept DEF UpdateWrite
  <2> QED
    BY <1>5, <2>5, <2>6, <2>7 DEF UpdateWrite, CartInv, CartTypeOK
<1>6. ASSUME NEW c \in Owners, NEW v \in Variants, Remove(c, v)
      PROVE  CartInv'
  <2>1. items' \in [Owners -> Lines] /\ \A x \in Owners \ carts : items'[x] = NoUnits
    BY <1>6 DEF Remove, CartInv, CartTypeOK, Lines, NoUnits
  <2>2. tab' \in [Tabs -> TabRequests] /\ HeldCartsExist'
    BY <1>6, TabSteps, HeldKept DEF Remove
  <2> QED
    BY <1>6, <2>1, <2>2 DEF Remove, CartInv, CartTypeOK
<1>7. ASSUME NEW t \in Tabs, NEW u \in Users, NEW g \in Guests, MergeRead(t, u, g)
      PROVE  CartInv'
  BY <1>7, RequestKinds DEF MergeRead, Tab, CartInv, CartTypeOK, HeldCartsExist, Owners
<1>8. ASSUME NEW t \in Tabs, MergeWrite(t)
      PROVE  CartInv'
  <2> DEFINE u == tab[t].cart
             g == tab[t].guest
             lines == tab[t].lines
             merged == [v \in Variants |-> items[u][v] + lines[v]]
  <2>1. u \in Users /\ u \in Owners /\ g \in Guests /\ g \in Owners /\ u # g /\ lines \in Lines
    BY <1>8, TabFields DEF MergeWrite, CartInv, Owners
  <2>2. /\ \A v \in Variants : items[u][v] + lines[v] <= MaxQty
        /\ carts' = (carts \cup {u}) \ {g} /\ expired' = expired \ {g}
        /\ items' = [items EXCEPT ![u] = merged, ![g] = NoUnits]
        /\ FailTabs(OnGuest(g))
    BY <1>8 DEF MergeWrite
  <2>3. merged \in Lines
    BY <2>1, <2>2 DEF CartInv, CartTypeOK, Lines
  <2>4. items' \in [Owners -> Lines]
    BY <2>2, <2>3, NoUnitsType DEF CartInv, CartTypeOK
  <2>5. \A x \in Owners \ carts' : items'[x] = NoUnits
    BY <2>1, <2>2 DEF CartInv, CartTypeOK
  <2>6. tab' \in [Tabs -> TabRequests]
    BY <2>2, TabSteps
  <2>7. HeldCartsExist'
    <3> SUFFICES ASSUME NEW x \in Tabs, tab'[x].at \in {"held", "update"}
                    PROVE  tab'[x].cart \in carts'
      BY DEF HeldCartsExist
    <3>1. tab'[x] = tab[x] /\ tab[x] \notin OnGuest(g)
      BY <2>2, RequestKinds DEF FailTabs, CartInv, CartTypeOK
    <3>2. CASE tab[x].at = "update"
      BY <2>1, <2>2, <3>1, <3>2, TabFields, CartAssumption DEF CartInv, HeldCartsExist
    <3>3. CASE tab[x].at = "held"
      BY <2>2, <3>1, <3>3, OnGuestRequests DEF CartInv, HeldCartsExist
    <3> QED
      BY <3>1, <3>2, <3>3
  <2> QED
    BY <1>8, <2>1, <2>2, <2>4, <2>5, <2>6, <2>7 DEF MergeWrite, CartInv, CartTypeOK
<1>9. ASSUME NEW t \in Tabs, TabFail(t)
      PROVE  CartInv'
  <2>1. tab' \in [Tabs -> TabRequests] /\ HeldCartsExist'
    BY <1>9, TabSteps, HeldKept DEF TabFail
  <2> QED
    BY <1>9, <2>1 DEF TabFail, CartInv, CartTypeOK
<1>10. ASSUME NEW c \in Owners, Expire(c)
       PROVE  CartInv'
  BY <1>10 DEF Expire, CartInv, CartTypeOK, HeldCartsExist
<1>11. ASSUME NEW u \in Users, NEW o \in Orders, NEW p \in Offered, NEW w \in BOOLEAN,
              Checkout(u, o, p, w)
       PROVE  CartInv'
  <2>1. items' \in [Owners -> Lines] /\ \A x \in Owners \ carts : items'[x] = NoUnits
    BY <1>11, NoUnitsType DEF Checkout, CartInv, CartTypeOK
  <2>2. tab' \in [Tabs -> TabRequests] /\ HeldCartsExist'
    BY <1>11, TabSteps, HeldKept DEF Checkout
  <2>3. usedCount' \in Nat /\ uses' \subseteq Orders
    BY <1>11 DEF Checkout, UseCoupon, CartInv, CartTypeOK
  <2>4. buyer' \in [Orders -> Users \cup {None}]
    BY <1>11 DEF Checkout, CartInv, CartTypeOK
  <2> QED
    BY <1>11, <2>1, <2>2, <2>3, <2>4 DEF Checkout, CartInv, CartTypeOK
<1>12. ASSUME NEW policy \in Policies, UpdateCoupon(policy)
       PROVE  CartInv'
  BY <1>12 DEF UpdateCoupon, cartVars, CartInv, CartTypeOK, HeldCartsExist
<1>13. CASE UNCHANGED <<cartVars, couponVars>>
  BY <1>13 DEF cartVars, CartInv, CartTypeOK, HeldCartsExist
<1>14. CASE CartStep
  BY <1>14, <1>1, <1>2, <1>3, <1>4, <1>5, <1>6, <1>7, <1>8, <1>9, <1>10 DEF CartStep
<1>15. CASE CheckoutStep
  BY <1>15, <1>11, <1>12 DEF CheckoutStep
<1> QED
  BY <1>13, <1>14, <1>15 DEF CartNext, PlacedStep, shopVars

\* The tables of carts, coupons and requests keep their types, and neither a
\* login, a removal nor a checkout leaves lines of a cart that is gone.
THEOREM CartTypeCorrect == CartSpec => []CartTypeOK
<1>1. CartInit => CartInv
  BY NoUnitsType, RequestKinds, CartAssumption
  DEF CartInit, CartInv, CartTypeOK, HeldCartsExist, NoUnits
<1>2. CartInv => CartTypeOK
  BY DEF CartInv
<1> QED
  BY <1>1, <1>2, CartInvStep, PTL DEF CartSpec

-----------------------------------------------------------------------------
(* The order flow with carts in front of it                                *)

LEMMA CartStepIsFlowStep == CartTypeOK /\ [CartNext]_shopVars => [FlowNext]_flowVars
<1> SUFFICES ASSUME CartTypeOK, [CartNext]_shopVars PROVE [FlowNext]_flowVars
  OBVIOUS
<1>1. CASE CartStep
  BY <1>1 DEF CartStep, AddCheck, AddCart, AddItem, UpdateCheck, UpdateWrite, Remove,
              MergeRead, MergeWrite, TabFail, Expire
<1>2. CASE CheckoutStep
  BY <1>2, CheckoutPlaces DEF CheckoutStep, UpdateCoupon, FlowNext, OrderStep
<1>3. CASE PlacedStep
  BY <1>3 DEF PlacedStep, FlowNext, OrderStep
<1>4. CASE UNCHANGED shopVars
  BY <1>4 DEF shopVars
<1> QED
  BY <1>1, <1>2, <1>3, <1>4 DEF CartNext

\* Seen from the order flow a checkout is the placing of an order, and nothing
\* the carts and coupons do is more than that.
THEOREM CartImplementsFlow == CartSpec => FlowSpec
<1>1. CartInit => FlowInit
  BY DEF CartInit
<1> QED
  BY <1>1, CartStepIsFlowStep, CartTypeCorrect, PTL DEF CartSpec, FlowSpec

\* From the cart to the delivered order: no oversell, counters that count the
\* rows, and no online payment marked PAID that the provider has not charged.
THEOREM CartFlowIsSafe ==
    CartSpec => [](NeverOversold /\ ReservedMatchesRows /\ SoldMatchesRows /\ PaidMeansCharged)
BY CartImplementsFlow, FlowNeverOversold, FlowCountersMatchRows, FlowPaidMeansCharged, PTL

-----------------------------------------------------------------------------
(* The coupon                                                              *)

\* Only an order that was placed has used the coupon.
CouponInv ==
    /\ CartTypeOK /\ FlowTypeOK
    /\ CouponCountsUses
    /\ \A o \in uses : status[o] # None

LEMMA CouponInvStep == CouponInv /\ CartTypeOK' /\ FlowTypeOK' /\ [CartNext]_shopVars => CouponInv'
<1> SUFFICES ASSUME CouponInv, CartTypeOK', FlowTypeOK', [CartNext]_shopVars PROVE CouponInv'
  OBVIOUS
<1>1. \A o \in uses : status'[o] # None
  BY CartStepIsFlowStep, FlowOrderly DEF CouponInv, CartTypeOK, Orderly
<1>2. CASE UNCHANGED <<usedCount, uses>>
  BY <1>1, <1>2 DEF CouponInv, CouponCountsUses
<1>3. ASSUME NEW u \in Users, NEW o \in Orders, NEW p \in Offered, Checkout(u, o, p, TRUE)
      PROVE  CouponInv'
  <2>1. usedCount' = usedCount + 1 /\ uses' = uses \cup {o}
    BY <1>3 DEF Checkout, UseCoupon
  <2>2. o \notin uses /\ status'[o] # None
    BY <1>3, TablesInStatus DEF Checkout, PlaceOrder, SetStatus, CouponInv, FlowTypeOK
  <2>3. IsFiniteSet(uses)
    BY StockAssumption, FS_Subset DEF CouponInv, CartTypeOK
  <2>4. Cardinality(uses') = Cardinality(uses) + 1
    BY <2>1, <2>2, <2>3, FS_AddElement
  <2> QED
    BY <1>1, <2>1, <2>2, <2>4 DEF CouponInv, CouponCountsUses
<1>4. CASE CheckoutStep
  BY <1>2, <1>3, <1>4 DEF CheckoutStep, Checkout, UpdateCoupon
<1>5. CASE CartStep
  BY <1>2, <1>5 DEF CartStep, AddCheck, AddCart, AddItem, UpdateCheck, UpdateWrite, Remove,
                    MergeRead, MergeWrite, TabFail, Expire, couponVars
<1> QED
  BY <1>2, <1>4, <1>5 DEF CartNext, PlacedStep, shopVars, couponVars

\* The counter of the coupon is the number of its CouponUsage rows, for any
\* number of customers and whatever administrators save in between.
THEOREM CartCouponCounts == CartSpec => []CouponCountsUses
<1>1. CartInit => CouponCountsUses /\ uses = {}
  BY FS_EmptySet DEF CartInit, CouponCountsUses
<1>2. CartInit /\ CartTypeOK /\ FlowTypeOK => CouponInv
  BY <1>1 DEF CouponInv
<1>3. CouponInv => CouponCountsUses
  BY DEF CouponInv
<1> QED
  BY <1>2, <1>3, CouponInvStep, CartTypeCorrect, CartImplementsFlow, FlowTypeCorrect, PTL
  DEF CartSpec

LEMMA UseIsWithinLimits ==
    ASSUME CouponInv, NEW u \in Users, NEW o \in Orders, NEW p \in Offered, Checkout(u, o, p, TRUE)
    PROVE  uses' \ uses = {o} /\ WithinLimits(o)
<1>1. /\ uses' = uses \cup {o} /\ buyer' = [buyer EXCEPT ![o] = u]
      /\ CouponValid(u) /\ SetStatus(o, None, status'[o])
      /\ status[o] = None
  BY DEF Checkout, UseCoupon, PlaceOrder, SetStatus, CouponInv, FlowTypeOK
<1>2. o \notin uses /\ uses \subseteq Orders /\ IsFiniteSet(uses) /\ buyer'[o] = u
  BY <1>1, StockAssumption, FS_Subset DEF CouponInv, CartTypeOK
<1>3. coupon.usageLimit \in Nat /\ coupon.perUserLimit \in Nat
  BY CartAssumption DEF CouponInv, CartTypeOK, Policy
<1>4. Cardinality(uses') <= coupon.usageLimit
  <2>1. Cardinality(uses') = Cardinality(uses) + 1
    BY <1>1, <1>2, FS_AddElement
  <2>2. usedCount = Cardinality(uses) /\ usedCount \in Nat /\ usedCount < coupon.usageLimit
    BY <1>1 DEF CouponInv, CouponCountsUses, CartTypeOK, CouponValid
  <2> QED
    BY <1>3, <2>1, <2>2
<1>5. ASSUME coupon.perUserLimit # 0
      PROVE  Cardinality({x \in uses' : buyer'[x] = buyer'[o]}) <= coupon.perUserLimit
  <2>1. {x \in uses' : buyer'[x] = buyer'[o]} = UsesOf(u) \cup {o}
    BY <1>1, <1>2 DEF UsesOf, CouponInv, CartTypeOK
  <2>2. IsFiniteSet(UsesOf(u)) /\ o \notin UsesOf(u)
    BY <1>2, FS_Subset DEF UsesOf
  <2>3. /\ Cardinality(UsesOf(u) \cup {o}) = Cardinality(UsesOf(u)) + 1
        /\ Cardinality(UsesOf(u)) \in Nat
    BY <2>2, FS_AddElement, FS_CardinalityType
  <2>4. Cardinality(UsesOf(u)) < coupon.perUserLimit
    BY <1>1, <1>5 DEF CouponValid
  <2> QED
    BY <1>3, <2>1, <2>3, <2>4
<1>6. ASSUME coupon.firstOrderOnly, NEW x \in Orders \ {o}, buyer'[x] = buyer'[o]
      PROVE  status'[x] = "CANCELLED"
  <2>1. buyer[x] = u
    BY <1>1, <1>2, <1>6 DEF CouponInv, CartTypeOK
  <2>2. status[x] = "CANCELLED"
    BY <1>1, <1>6, <2>1 DEF CouponValid, IsFirstOrder
  <2> QED
    BY <1>1, <1>6, <2>2 DEF SetStatus, CouponInv, FlowTypeOK
<1> QED
  BY <1>1, <1>2, <1>4, <1>5, <1>6 DEF WithinLimits

LEMMA UsesWithinLimits ==
    ASSUME CouponInv, [CartNext]_shopVars
    PROVE  \A o \in uses' \ uses : WithinLimits(o)
<1>1. ASSUME NEW u \in Users, NEW o \in Orders, NEW p \in Offered, NEW w \in BOOLEAN,
             Checkout(u, o, p, w)
      PROVE  \A x \in uses' \ uses : WithinLimits(x)
  <2>1. CASE w
    BY <1>1, <2>1, UseIsWithinLimits
  <2>2. CASE ~w
    BY <1>1, <2>2 DEF Checkout
  <2> QED
    BY <2>1, <2>2
<1>2. CASE CheckoutStep
  BY <1>1, <1>2 DEF CheckoutStep, UpdateCoupon
<1>3. CASE CartStep
  BY <1>3 DEF CartStep, AddCheck, AddCart, AddItem, UpdateCheck, UpdateWrite, Remove,
              MergeRead, MergeWrite, TabFail, Expire, couponVars
<1> QED
  BY <1>2, <1>3 DEF CartNext, PlacedStep, shopVars, couponVars

\* No order takes the coupon beyond its limits, counted by the rows, though
\* checkouts decide by the counter and administrators change the limits.
THEOREM CartCouponLimits == CartSpec => CouponWithinLimits
<1>1. CartInit => CouponCountsUses /\ uses = {}
  BY FS_EmptySet DEF CartInit, CouponCountsUses
<1>2. CartInit /\ CartTypeOK /\ FlowTypeOK => CouponInv
  BY <1>1 DEF CouponInv
<1>3. CouponInv /\ [CartNext]_shopVars =>
         [\A o \in uses' \ uses : WithinLimits(o)]_shopVars
  BY UsesWithinLimits
<1>4. CartSpec => [][\A o \in uses' \ uses : WithinLimits(o)]_shopVars
  BY <1>2, <1>3, CouponInvStep, CartTypeCorrect, CartImplementsFlow, FlowTypeCorrect, PTL
  DEF CartSpec
<1> QED
  BY <1>4 DEF CouponWithinLimits

-----------------------------------------------------------------------------
(* No unit twice: counting claims                                          *)

\* For one variant: the units of every cart that count as put into it.
Claims == [Owners -> 0 .. PutBound]

UnitsClaimed(claim) == {u \in Owners \X (1 .. PutBound) : u[2] <= claim[u[1]]}
ClaimedBut(claim, c) == {u \in UnitsClaimed(claim) : u[1] # c}

LEMMA ClaimsFinite ==
    ASSUME NEW claim \in Claims
    PROVE  IsFiniteSet(UnitsClaimed(claim)) /\ Cardinality(UnitsClaimed(claim)) \in Nat
<1>1. IsFiniteSet(Owners) /\ IsFiniteSet(1 .. PutBound)
  BY FS_Interval, CartAssumption DEF Owners
<1>2. IsFiniteSet(Owners \X (1 .. PutBound))
  BY <1>1, FS_Product, Zenon
<1> QED
  BY <1>2, FS_Subset, FS_CardinalityType DEF UnitsClaimed

\* The claim of one cart can be split off, ...
LEMMA SplitClaim ==
    ASSUME NEW claim \in Claims, NEW c \in Owners
    PROVE  /\ Cardinality(ClaimedBut(claim, c)) \in Nat
           /\ Cardinality(UnitsClaimed(claim)) = Cardinality(ClaimedBut(claim, c)) + claim[c]
<1> DEFINE mine == {c} \X (1 .. claim[c])
<1>1. claim[c] \in 0 .. PutBound /\ claim[c] \in Nat
  BY CartAssumption DEF Claims
<1>2. UnitsClaimed(claim) = ClaimedBut(claim, c) \cup mine
  BY <1>1, CartAssumption DEF UnitsClaimed, ClaimedBut
<1>3. ClaimedBut(claim, c) \cap mine = {}
  BY DEF ClaimedBut
<1>4. IsFiniteSet(ClaimedBut(claim, c)) /\ Cardinality(ClaimedBut(claim, c)) \in Nat
  BY ClaimsFinite, FS_Subset, FS_CardinalityType DEF ClaimedBut
<1>5. IsFiniteSet(mine) /\ Cardinality(mine) = claim[c]
  BY <1>1, UnitsOfOneOrder
<1>6. Cardinality(ClaimedBut(claim, c) \cap mine) = 0
  BY <1>3, FS_EmptySet
<1> HIDE DEF mine
<1>7. Cardinality(ClaimedBut(claim, c) \cup mine)
         = Cardinality(ClaimedBut(claim, c)) + Cardinality(mine)
             - Cardinality(ClaimedBut(claim, c) \cap mine)
  BY <1>4, <1>5, FS_Union, Zenon
<1> QED
  BY <1>1, <1>2, <1>4, <1>5, <1>6, <1>7

\* ... and changed by itself.
LEMMA ChangeClaim ==
    ASSUME NEW claim \in Claims, NEW c \in Owners, NEW n \in 0 .. PutBound
    PROVE  LET changed == [claim EXCEPT ![c] = n] IN
           /\ changed \in Claims
           /\ Cardinality(UnitsClaimed(changed)) = Cardinality(UnitsClaimed(claim)) + n - claim[c]
<1> DEFINE changed == [claim EXCEPT ![c] = n]
<1>1. changed \in Claims /\ changed[c] = n
  BY DEF Claims
<1>2. ClaimedBut(changed, c) = ClaimedBut(claim, c)
  BY <1>1 DEF ClaimedBut, UnitsClaimed, Claims
<1>3. claim[c] \in Int /\ n \in Int
  BY CartAssumption DEF Claims
<1> HIDE DEF changed
<1>4. Cardinality(UnitsClaimed(changed)) = Cardinality(UnitsClaimed(claim)) + n - claim[c]
  BY <1>1, <1>2, <1>3, SplitClaim
<1> QED
  BY <1>1, <1>4 DEF changed

\* A claim covers the lines of the carts and what logins are about to add.
Covers(claim, v) ==
    /\ claim \in Claims
    /\ \A c \in Owners : items[c][v] <= claim[c]
    /\ \A t \in Tabs : tab[t].at = "merge" => tab[t].lines[v] <= claim[tab[t].guest]

Paid(claim, v) == Cardinality(UnitsClaimed(claim)) + Cardinality(OrderUnits(v)) <= put[v]

PutOnce(v) == \E claim \in Claims : Covers(claim, v) /\ Paid(claim, v)

LEMMA OrderUnitsCounted ==
    ASSUME StockTypeOK, NEW v \in Variants
    PROVE  /\ [o \in Orders |-> quantity[o][v]] \in Quantities
           /\ Cardinality(OrderUnits(v)) \in Nat
<1>1. [o \in Orders |-> quantity[o][v]] \in Quantities
  BY DEF StockTypeOK, Lines, Quantities
<1> QED
  BY <1>1, UnitsFinite DEF OrderUnits

LEMMA CoveredIsOnce ==
    ASSUME CartTypeOK, StockTypeOK, \A v \in Variants : PutOnce(v)
    PROVE  NoUnitTwice
<1> SUFFICES ASSUME NEW v \in Variants
             PROVE  Cardinality(CartUnits(v)) + Cardinality(OrderUnits(v)) <= put[v]
  BY DEF NoUnitTwice
<1>1. PICK claim \in Claims : Covers(claim, v) /\ Paid(claim, v)
  BY DEF PutOnce
<1>2. CartUnits(v) \subseteq UnitsClaimed(claim)
  <2> SUFFICES ASSUME NEW u \in Owners \X (1 .. MaxQty), u[2] <= items[u[1]][v]
               PROVE  u \in UnitsClaimed(claim)
    BY DEF CartUnits
  <2>1. u[1] \in Owners /\ u[2] \in 1 .. MaxQty /\ u[2] \in Nat /\ u[2] >= 1 /\ u = <<u[1], u[2]>>
    BY StockAssumption
  <2>2. items[u[1]][v] \in Nat /\ claim[u[1]] \in 0 .. PutBound
    BY <2>1, StockAssumption DEF CartTypeOK, Lines, Claims
  <2>3. u[2] <= claim[u[1]] /\ u[2] \in 1 .. PutBound
    BY <1>1, <2>1, <2>2, CartAssumption DEF Covers
  <2> QED
    BY <2>1, <2>3 DEF UnitsClaimed
<1>3. Cardinality(CartUnits(v)) <= Cardinality(UnitsClaimed(claim)) /\ Cardinality(CartUnits(v)) \in Nat
  BY <1>2, ClaimsFinite, FS_Subset, FS_CardinalityType
<1>4. put[v] \in Nat
  BY CartAssumption DEF CartTypeOK
<1>5. /\ Cardinality(UnitsClaimed(claim)) \in Nat /\ Cardinality(OrderUnits(v)) \in Nat
      /\ Cardinality(UnitsClaimed(claim)) + Cardinality(OrderUnits(v)) <= put[v]
  BY <1>1, ClaimsFinite, OrderUnitsCounted DEF Paid
<1> QED
  BY <1>3, <1>4, <1>5

-----------------------------------------------------------------------------
(* No unit twice: the steps                                                *)

\* Once an order is placed nothing changes what it has ordered.
LEMMA StockKeepsQuantity ==
    ASSUME \/ \E o \in Orders : CommitOrder(o) \/ CancelOrder(o) \/ Lapse(o)
           \/ ReleaseJob \/ ManualChange
           \/ UNCHANGED stockVars
    PROVE  quantity' = quantity
BY DEF CommitOrder, CancelOrder, Lapse, ReleaseJob, ReleaseRead, ReleaseClaim, ReleaseSkip,
       ReleaseFail, ManualChange, AdjustInventory, EditSnapshot, EditCommit, stockVars, rows,
       jobs, admins

LEMMA PlacedKeepsOrders == FlowTypeOK /\ PlacedStep => quantity' = quantity
<1> SUFFICES ASSUME FlowTypeOK, PlacedStep PROVE quantity' = quantity
  OBVIOUS
<1>1. ASSUME NEW o \in Orders, NEW s, ConfirmIfPending(o, s)
      PROVE  quantity' = quantity
  BY <1>1, StockKeepsQuantity DEF ConfirmIfPending
<1>2. ASSUME NEW o \in Orders, NEW p, NEW s, MarkPaid(o, p, s)
      PROVE  quantity' = quantity
  BY <1>1, <1>2, StockKeepsQuantity DEF MarkPaid
<1>3. ASSUME NEW o \in Orders, NEW to, Transition(o, to)
      PROVE  quantity' = quantity
  <2>1. CASE to = "CONFIRMED"
    BY <1>3, <2>1, StockKeepsQuantity DEF Transition
  <2>2. CASE to = "CANCELLED"
    BY <1>3, <2>2, StockKeepsQuantity DEF Transition
  <2>3. CASE to \notin {"CONFIRMED", "CANCELLED"}
    BY <1>3, <2>3, StockKeepsQuantity DEF Transition
  <2> QED
    BY <2>1, <2>2, <2>3
<1>4. ASSUME NEW o \in Orders, NEW type, StripeWebhook(o, type) \/ PayPalWebhook(o, type)
      PROVE  quantity' = quantity
  BY <1>1, <1>2, <1>4, StockKeepsQuantity DEF StripeWebhook, PayPalWebhook
<1>5. ASSUME NEW c \in Clients, CaptureWrite(c)
      PROVE  quantity' = quantity
  <2>1. capture[c].order \in Orders
    BY <1>5, CaptureOrder DEF CaptureWrite
  <2> QED
    BY <1>2, <1>5, <2>1 DEF CaptureWrite
<1>6. CASE PaymentStep
  BY <1>4, <1>5, <1>6, StockKeepsQuantity
  DEF PaymentStep, InitializeRead, InitializeWrite, InitializeFail, CaptureCheck,
      CaptureGateway, CaptureDenied, CaptureSnapshot, CaptureFail
<1>7. CASE ProviderStep
  BY <1>7, StockKeepsQuantity DEF ProviderStep, StripeCharge, StripeDecline
<1>8. CASE StockStep
  BY <1>8, StockKeepsQuantity DEF StockStep
<1>9. CASE \E o \in Orders : Ship(o)
  BY <1>9, StockKeepsQuantity DEF Ship
<1> QED
  BY <1>3, <1>6, <1>7, <1>8, <1>9 DEF PlacedStep

\* A step that puts nothing in, orders nothing and starts no login.
LEMMA QuietStep ==
    ASSUME CartTypeOK, CartTypeOK', NEW v \in Variants, PutOnce(v),
           quantity' = quantity, put'[v] = put[v],
           \A c \in Owners : items'[c][v] <= items[c][v],
           \A t \in Tabs : tab'[t].at = "merge" => tab'[t] = tab[t]
    PROVE  PutOnce(v)'
<1>1. PICK claim \in Claims : Covers(claim, v) /\ Paid(claim, v)
  BY DEF PutOnce
<1>2. \A c \in Owners : items'[c][v] <= claim[c]
  <2> SUFFICES ASSUME NEW c \in Owners PROVE items'[c][v] <= claim[c]
    OBVIOUS
  <2>1. items'[c][v] \in Int /\ items[c][v] \in Int /\ claim[c] \in Int
    BY StockAssumption, CartAssumption DEF CartTypeOK, Lines, Claims
  <2> QED
    BY <1>1, <2>1 DEF Covers
<1>3. Covers(claim, v)'
  BY <1>1, <1>2 DEF Covers
<1>4. Paid(claim, v)'
  BY <1>1 DEF Paid, OrderUnits
<1> QED
  BY <1>3, <1>4 DEF PutOnce

\* A step after which the claim of one cart is another.
LEMMA MoveStep ==
    ASSUME CartTypeOK', NEW v \in Variants, NEW claim \in Claims,
           NEW c \in Owners, NEW n \in 0 .. PutBound,
           items'[c][v] <= n,
           \A d \in Owners \ {c} : items'[d][v] <= claim[d],
           \A t \in Tabs : tab'[t].at = "merge" =>
              tab'[t].lines[v] <= IF tab'[t].guest = c THEN n ELSE claim[tab'[t].guest],
           Cardinality(UnitsClaimed(claim)) + n - claim[c] + Cardinality(OrderUnits(v)') <= put'[v]
    PROVE  PutOnce(v)'
<1> DEFINE changed == [claim EXCEPT ![c] = n]
<1>1. /\ changed \in Claims
      /\ Cardinality(UnitsClaimed(changed)) = Cardinality(UnitsClaimed(claim)) + n - claim[c]
  BY ChangeClaim
<1>2. \A d \in Owners : items'[d][v] <= changed[d]
  BY DEF Claims
<1>3. ASSUME NEW t \in Tabs, tab'[t].at = "merge"
      PROVE  tab'[t].lines[v] <= changed[tab'[t].guest]
  <2>1. tab'[t].guest \in Owners
    BY <1>3 DEF CartTypeOK, TabRequests, Idle, Owners
  <2> QED
    BY <1>3, <2>1 DEF Claims
<1>4. Covers(changed, v)'
  BY <1>1, <1>2, <1>3 DEF Covers
<1>5. Paid(changed, v)'
  BY <1>1 DEF Paid
<1> QED
  BY <1>1, <1>4, <1>5 DEF PutOnce

\* No cart claims more than was put in, nor do two of them together.
LEMMA ClaimBounds ==
    ASSUME CartTypeOK, StockTypeOK, NEW v \in Variants, NEW claim \in Claims, Paid(claim, v),
           NEW c \in Owners
    PROVE  /\ Cardinality(UnitsClaimed(claim)) \in Nat
           /\ Cardinality(OrderUnits(v)) \in Nat
           /\ claim[c] \in Nat /\ put[v] \in Nat
           /\ Cardinality(UnitsClaimed(claim)) + Cardinality(OrderUnits(v)) <= put[v]
           /\ claim[c] <= put[v] /\ put[v] <= PutBound
           /\ \A d \in Owners \ {c} : claim[c] + claim[d] <= put[v]
<1>1. /\ Cardinality(UnitsClaimed(claim)) \in Nat /\ Cardinality(OrderUnits(v)) \in Nat
      /\ put[v] \in Nat /\ put[v] <= PutBound
  <2>1. put[v] \in 0 .. PutBound
    BY DEF CartTypeOK
  <2>2. Cardinality(UnitsClaimed(claim)) \in Nat
    BY ClaimsFinite
  <2>3. Cardinality(OrderUnits(v)) \in Nat
    BY OrderUnitsCounted
  <2> QED
    BY <2>1, <2>2, <2>3, CartAssumption
<1>2. Cardinality(UnitsClaimed(claim)) + Cardinality(OrderUnits(v)) <= put[v]
  BY DEF Paid
<1>3. \A d \in Owners : claim[d] \in Nat
  BY CartAssumption DEF Claims
<1>4. claim[c] <= Cardinality(UnitsClaimed(claim))
  BY <1>3, SplitClaim
<1>5. ASSUME NEW d \in Owners \ {c}
      PROVE  claim[c] + claim[d] <= Cardinality(UnitsClaimed(claim))
  <2> DEFINE without == [claim EXCEPT ![d] = 0]
  <2>1. 0 \in 0 .. PutBound
    BY CartAssumption
  <2>2. /\ without \in Claims
        /\ Cardinality(UnitsClaimed(without)) = Cardinality(UnitsClaimed(claim)) + 0 - claim[d]
    BY <2>1, ChangeClaim
  <2>3. without[c] = claim[c]
    BY DEF Claims
  <2> HIDE DEF without
  <2>4. without[c] <= Cardinality(UnitsClaimed(without))
    BY <1>3, <2>2, <2>3, SplitClaim
  <2> QED
    BY <1>1, <1>3, <2>2, <2>3, <2>4
<1>6. claim[c] <= put[v]
  BY <1>1, <1>2, <1>3, <1>4
<1>7. \A d \in Owners \ {c} : claim[c] + claim[d] <= put[v]
  <2> SUFFICES ASSUME NEW d \in Owners \ {c} PROVE claim[c] + claim[d] <= put[v]
    OBVIOUS
  <2>1. claim[c] + claim[d] <= Cardinality(UnitsClaimed(claim)) /\ claim[d] \in Nat
    BY <1>3, <1>5
  <2> QED
    BY <1>1, <1>2, <1>3, <2>1
<1> QED
  BY <1>1, <1>2, <1>3, <1>6, <1>7

TwiceInv == CartInv /\ FlowTypeOK /\ StockTypeOK /\ \A v \in Variants : PutOnce(v)

\* What a login reads of the guest's cart is covered by its claim.
LEMMA MergeReadPuts ==
    ASSUME TwiceInv, NEW t \in Tabs, NEW u \in Users, NEW g \in Guests, MergeRead(t, u, g),
           NEW v \in Variants
    PROVE  PutOnce(v)'
<1>1. PICK claim \in Claims : Covers(claim, v) /\ Paid(claim, v)
  BY DEF TwiceInv, PutOnce
<1>2. items' = items /\ put' = put /\ quantity' = quantity
  BY DEF MergeRead, flowVars, stockVars, rows
<1>3. ASSUME NEW x \in Tabs, tab'[x].at = "merge"
      PROVE  tab'[x].lines[v] <= claim[tab'[x].guest]
  <2>1. CASE x = t
    <3>1. tab'[x].lines = items[g] /\ tab'[x].guest = g /\ g \in Owners
      BY <2>1 DEF MergeRead, Tab, TwiceInv, CartInv, CartTypeOK, Owners
    <3> QED
      BY <1>1, <3>1 DEF Covers
  <2>2. CASE x # t
    <3>1. tab'[x] = tab[x]
      BY <2>2 DEF MergeRead, Tab, TwiceInv, CartInv, CartTypeOK
    <3> QED
      BY <1>1, <1>3, <3>1 DEF Covers
  <2> QED
    BY <2>1, <2>2
<1>4. Covers(claim, v)'
  BY <1>1, <1>2, <1>3 DEF Covers
<1>5. Paid(claim, v)'
  BY <1>1, <1>2 DEF Paid, OrderUnits
<1> QED
  BY <1>4, <1>5 DEF PutOnce

\* A line that grows by as much as is put in.
LEMMA GrowPuts ==
    ASSUME TwiceInv, CartTypeOK', NEW v \in Variants, NEW c \in Owners, NEW n \in Nat,
           items'[c][v] <= items[c][v] + n,
           \A d \in Owners \ {c} : items'[d][v] = items[d][v],
           put'[v] = put[v] + n, quantity' = quantity,
           \A x \in Tabs : tab'[x] = tab[x] \/ tab'[x] = Idle
    PROVE  PutOnce(v)'
<1>1. PICK claim \in Claims : Covers(claim, v) /\ Paid(claim, v)
  BY DEF TwiceInv, PutOnce
<1>2. CartTypeOK /\ StockTypeOK
  BY DEF TwiceInv, CartInv
<1>3. /\ Cardinality(UnitsClaimed(claim)) \in Nat /\ Cardinality(OrderUnits(v)) \in Nat
      /\ claim[c] \in Nat /\ put[v] \in Nat
      /\ Cardinality(UnitsClaimed(claim)) + Cardinality(OrderUnits(v)) <= put[v]
      /\ claim[c] <= put[v]
  BY <1>1, <1>2, ClaimBounds
<1>4. put'[v] \in 0 .. PutBound
  BY DEF CartTypeOK
<1>5. claim[c] + n \in 0 .. PutBound
  BY <1>3, <1>4, CartAssumption
<1>6. items'[c][v] <= claim[c] + n
  <2>1. items[c][v] <= claim[c] /\ items[c][v] \in Int
    BY <1>1, <1>2, StockAssumption DEF Covers, CartTypeOK, Lines
  <2>2. items'[c][v] \in Int
    BY StockAssumption DEF CartTypeOK, Lines
  <2> QED
    BY <1>3, <2>1, <2>2
<1>7. \A d \in Owners \ {c} : items'[d][v] <= claim[d]
  BY <1>1 DEF Covers
<1>8. ASSUME NEW x \in Tabs, tab'[x].at = "merge"
      PROVE  tab'[x].lines[v] <= IF tab'[x].guest = c THEN claim[c] + n ELSE claim[tab'[x].guest]
  <2>1. tab'[x] = tab[x] /\ tab[x].at = "merge"
    BY <1>8, RequestKinds
  <2>2. tab[x].lines[v] \in Int /\ tab[x].lines[v] <= claim[tab[x].guest]
    BY <1>1, <1>2, <2>1, TabFields, StockAssumption DEF Covers, Lines
  <2> QED
    BY <1>3, <2>1, <2>2
<1>9. OrderUnits(v)' = OrderUnits(v)
  BY DEF OrderUnits
<1>10. Cardinality(UnitsClaimed(claim)) + (claim[c] + n) - claim[c]
          + Cardinality(OrderUnits(v)') <= put'[v]
  BY <1>3, <1>9
<1> QED
  BY <1>5, <1>6, <1>7, <1>8, <1>10, MoveStep

\* A login moves the claim of the guest's cart to the customer's.
LEMMA MergeWritePuts ==
    ASSUME TwiceInv, CartTypeOK', NEW t \in Tabs, MergeWrite(t), NEW v \in Variants
    PROVE  PutOnce(v)'
<1> DEFINE u == tab[t].cart
           g == tab[t].guest
           lines == tab[t].lines
<1>1. PICK claim \in Claims : Covers(claim, v) /\ Paid(claim, v)
  BY DEF TwiceInv, PutOnce
<1>2. CartTypeOK /\ StockTypeOK
  BY DEF TwiceInv, CartInv
<1>3. u \in Owners /\ g \in Owners /\ u # g /\ lines \in Lines /\ tab[t].at = "merge"
  BY <1>2, TabFields, CartAssumption DEF MergeWrite, Owners
<1>4. /\ items' = [items EXCEPT ![u] = [w \in Variants |-> items[u][w] + lines[w]],
                                ![g] = NoUnits]
      /\ FailTabs(OnGuest(g)) /\ put' = put /\ quantity' = quantity
  BY DEF MergeWrite, flowVars, stockVars, rows
<1> HIDE DEF u, g, lines
<1>5. /\ items'[u][v] = items[u][v] + lines[v] /\ items'[g][v] = 0
      /\ \A d \in Owners \ {u, g} : items'[d][v] = items[d][v]
  BY <1>2, <1>3, <1>4 DEF CartTypeOK, NoUnits
<1>6. /\ items[u][v] \in Int /\ items[u][v] <= claim[u]
      /\ lines[v] \in Int /\ lines[v] <= claim[g]
  BY <1>1, <1>2, <1>3, StockAssumption DEF Covers, CartTypeOK, Lines, g, lines
<1> DEFINE without == [claim EXCEPT ![g] = 0]
<1>7. /\ claim[g] \in Nat /\ claim[u] \in Nat /\ claim[u] + claim[g] <= put[v]
      /\ Cardinality(UnitsClaimed(claim)) \in Nat /\ Cardinality(OrderUnits(v)) \in Nat
      /\ Cardinality(UnitsClaimed(claim)) + Cardinality(OrderUnits(v)) <= put[v]
      /\ put[v] \in Nat /\ put[v] <= PutBound
  BY <1>1, <1>2, <1>3, ClaimBounds
<1>8. /\ without \in Claims
      /\ Cardinality(UnitsClaimed(without)) = Cardinality(UnitsClaimed(claim)) + 0 - claim[g]
  <2>1. 0 \in 0 .. PutBound
    BY CartAssumption
  <2> QED
    BY <1>3, <2>1, ChangeClaim
<1>9. without[g] = 0 /\ \A d \in Owners \ {g} : without[d] = claim[d]
  BY <1>3 DEF Claims
<1> HIDE DEF without
<1>10. claim[u] + claim[g] \in 0 .. PutBound
  BY <1>7, CartAssumption
<1>11. items'[u][v] <= claim[u] + claim[g]
  BY <1>5, <1>6, <1>7
<1>12. ASSUME NEW d \in Owners \ {u}
       PROVE  items'[d][v] <= without[d]
  BY <1>1, <1>3, <1>5, <1>9 DEF Covers
<1>13. ASSUME NEW x \in Tabs, tab'[x].at = "merge"
       PROVE  tab'[x].lines[v] <= IF tab'[x].guest = u THEN claim[u] + claim[g]
                                  ELSE without[tab'[x].guest]
  <2>1. tab'[x] = tab[x] /\ tab[x] \notin OnGuest(g) /\ tab[x].at = "merge"
    BY <1>4, <1>13, RequestKinds DEF FailTabs
  <2>2. tab[x].guest \in Owners \ {g} /\ tab[x].lines[v] <= claim[tab[x].guest]
    BY <1>1, <1>2, <2>1, TabFields, OnGuestRequests DEF Covers, Owners
  <2>3. tab[x].guest # u
    BY <1>2, <1>3, <2>1, TabFields, CartAssumption DEF u
  <2> QED
    BY <1>9, <2>1, <2>2, <2>3
<1>14. OrderUnits(v)' = OrderUnits(v)
  BY <1>4 DEF OrderUnits
<1>15. Cardinality(UnitsClaimed(without)) + (claim[u] + claim[g]) - without[u]
          + Cardinality(OrderUnits(v)') <= put'[v]
  BY <1>3, <1>4, <1>7, <1>8, <1>9, <1>14
<1> QED
  BY <1>3, <1>8, <1>10, <1>11, <1>12, <1>13, <1>15, MoveStep

\* A checkout moves the lines of the cart to the order.
LEMMA CheckoutPuts ==
    ASSUME TwiceInv, CartTypeOK', StockTypeOK', NEW u \in Users, NEW o \in Orders,
           NEW p \in Offered, NEW w \in BOOLEAN, Checkout(u, o, p, w), NEW v \in Variants
    PROVE  PutOnce(v)'
<1>1. PICK claim \in Claims : Covers(claim, v) /\ Paid(claim, v)
  BY DEF TwiceInv, PutOnce
<1>2. CartTypeOK /\ StockTypeOK /\ u \in Owners
  BY DEF TwiceInv, CartInv, Owners
<1>3. /\ items' = [items EXCEPT ![u] = NoUnits] /\ FailTabs(OnLines(u)) /\ put' = put
      /\ quantity' = [quantity EXCEPT ![o] = items[u]] /\ ~Placed(o)
  BY DEF Checkout, PlaceOrder, Reserve, ReserveAndCommit
<1>4. /\ claim[u] \in Nat /\ items[u][v] \in Nat /\ items[u][v] <= claim[u]
      /\ Cardinality(UnitsClaimed(claim)) \in Nat /\ Cardinality(OrderUnits(v)) \in Nat
      /\ Cardinality(UnitsClaimed(claim)) + Cardinality(OrderUnits(v)) <= put[v]
      /\ put[v] \in Nat /\ claim[u] <= PutBound
  <2>1. items[u][v] \in Nat
    BY <1>2, StockAssumption DEF CartTypeOK, Lines
  <2>2. claim[u] \in 0 .. PutBound
    BY <1>2 DEF Claims
  <2> QED
    BY <1>1, <1>2, <2>1, <2>2, ClaimBounds, CartAssumption DEF Covers
<1>5. Cardinality(OrderUnits(v)') = Cardinality(OrderUnits(v)) + items[u][v]
  <2> DEFINE f == [x \in Orders |-> quantity[x][v]]
             h == [x \in Orders |-> quantity'[x][v]]
  <2>1. f \in Quantities /\ h \in Quantities
    BY <1>2 DEF StockTypeOK, Lines, Quantities
  <2>2. h[o] = items[u][v] /\ \A x \in Orders \ {o} : h[x] = f[x]
    BY <1>2, <1>3 DEF StockTypeOK
  <2>3. f[o] = 0
    BY <1>2, <1>3, StockAssumption DEF Placed, StockTypeOK, Lines
  <2>4. OrderUnits(v) = UnitsOf(f) /\ OrderUnits(v)' = UnitsOf(h)
    BY DEF OrderUnits, UnitsOf
  <2> HIDE DEF f, h
  <2>5. Cardinality(UnitsOf(h)) = Cardinality(UnitsOf(f)) + h[o] - f[o]
    BY <2>1, <2>2, CountChange
  <2> QED
    BY <1>4, <2>2, <2>3, <2>4, <2>5
<1>6. claim[u] - items[u][v] \in 0 .. PutBound
  BY <1>4, CartAssumption
<1>7. items'[u][v] <= claim[u] - items[u][v]
  BY <1>2, <1>3, <1>4 DEF CartTypeOK, NoUnits
<1>8. ASSUME NEW d \in Owners \ {u}
      PROVE  items'[d][v] <= claim[d]
  BY <1>1, <1>2, <1>3 DEF Covers, CartTypeOK
<1>9. ASSUME NEW x \in Tabs, tab'[x].at = "merge"
      PROVE  tab'[x].lines[v] <= IF tab'[x].guest = u THEN claim[u] - items[u][v]
                                 ELSE claim[tab'[x].guest]
  <2>1. tab'[x] = tab[x] /\ tab[x].at = "merge"
    BY <1>3, <1>9, RequestKinds DEF FailTabs
  <2>2. tab[x].guest # u
    BY <1>2, <2>1, TabFields, CartAssumption
  <2> QED
    BY <1>1, <2>1, <2>2 DEF Covers
<1>10. Cardinality(UnitsClaimed(claim)) + (claim[u] - items[u][v]) - claim[u]
          + Cardinality(OrderUnits(v)') <= put'[v]
  BY <1>3, <1>4, <1>5
<1> QED
  BY <1>2, <1>6, <1>7, <1>8, <1>9, <1>10, MoveStep

LEMMA TwiceInvStep ==
    TwiceInv /\ CartInv' /\ FlowTypeOK' /\ StockTypeOK' /\ [CartNext]_shopVars => TwiceInv'
<1> SUFFICES ASSUME TwiceInv, CartInv', FlowTypeOK', StockTypeOK', [CartNext]_shopVars,
                    NEW v \in Variants
             PROVE  PutOnce(v)'
  BY DEF TwiceInv
<1>1. CartTypeOK /\ CartTypeOK' /\ PutOnce(v)
  BY DEF TwiceInv, CartInv
<1>2. \A c \in Owners, w \in Variants : items[c][w] \in Nat /\ put[w] \in Nat
  BY <1>1, StockAssumption, CartAssumption DEF CartTypeOK, Lines
\* The steps that leave lines and orders as they are, or take lines away.
<1>3. ASSUME items' = items, put' = put, quantity' = quantity,
             \A t \in Tabs : tab'[t].at = "merge" => tab'[t] = tab[t]
      PROVE  PutOnce(v)'
  BY <1>1, <1>2, <1>3, QuietStep
<1>4. ASSUME NEW t \in Tabs, \E c, w, n : AddCheck(t, c, w, n) \/ UpdateCheck(t, c, w, n)
      PROVE  PutOnce(v)'
  BY <1>1, <1>3, <1>4
  DEF AddCheck, UpdateCheck, Tab, CartTypeOK, flowVars, stockVars, rows
<1>5. ASSUME NEW t \in Tabs, AddCart(t) \/ TabFail(t)
      PROVE  PutOnce(v)'
  BY <1>1, <1>3, <1>5, RequestKinds
  DEF AddCart, TabFail, EndTab, Tab, CartTypeOK, flowVars, stockVars, rows
<1>6. ASSUME NEW c \in Owners, Expire(c)
      PROVE  PutOnce(v)'
  BY <1>3, <1>6 DEF Expire, flowVars, stockVars, rows
<1>7. ASSUME NEW c \in Owners, NEW w \in Variants, Remove(c, w)
      PROVE  PutOnce(v)'
  <2>1. put' = put /\ quantity' = quantity
    BY <1>7 DEF Remove, flowVars, stockVars, rows
  <2>2. \A d \in Owners : items'[d][v] <= items[d][v]
    BY <1>1, <1>2, <1>7 DEF Remove, CartTypeOK, Lines
  <2>3. \A t \in Tabs : tab'[t].at = "merge" => tab'[t] = tab[t]
    BY <1>7, RequestKinds DEF Remove, FailTabs
  <2> QED
    BY <1>1, <2>1, <2>2, <2>3, QuietStep
<1>8. ASSUME NEW t \in Tabs, AddItem(t)
      PROVE  PutOnce(v)'
  <2> DEFINE c == tab[t].cart
             w == tab[t].variant
             n == tab[t].qty
  <2>1. c \in Owners /\ w \in Variants /\ n \in Nat
    BY <1>1, <1>8, TabFields, StockAssumption DEF AddItem
  <2>2. /\ items' = [items EXCEPT ![c][w] = @ + n] /\ put' = [put EXCEPT ![w] = @ + n]
        /\ quantity' = quantity /\ EndTab(t)
    BY <1>8 DEF AddItem, flowVars, stockVars, rows
  <2> HIDE DEF c, w, n
  <2>3. \A x \in Tabs : tab'[x] = tab[x] \/ tab'[x] = Idle
    BY <1>1, <2>2 DEF EndTab, Tab, CartTypeOK
  <2>4. CASE v = w
    <3>1. /\ items'[c][v] <= items[c][v] + n /\ put'[v] = put[v] + n
          /\ \A d \in Owners \ {c} : items'[d][v] = items[d][v]
      BY <1>1, <1>2, <2>1, <2>2, <2>4 DEF CartTypeOK, Lines
    <3> QED
      BY <1>1, <2>1, <2>2, <2>3, <3>1, GrowPuts
  <2>5. CASE v # w
    <3>1. put'[v] = put[v] /\ \A d \in Owners : items'[d][v] <= items[d][v]
      BY <1>1, <1>2, <2>1, <2>2, <2>5 DEF CartTypeOK, Lines
    <3> QED
      BY <1>1, <2>2, <2>3, <3>1, RequestKinds, QuietStep
  <2> QED
    BY <2>4, <2>5
<1>9. ASSUME NEW t \in Tabs, UpdateWrite(t)
      PROVE  PutOnce(v)'
  <2> DEFINE u == tab[t].cart
             w == tab[t].variant
             n == tab[t].qty
             added == IF n > items[u][w] THEN n - items[u][w] ELSE 0
  <2>1. u \in Owners /\ w \in Variants /\ n \in Nat /\ added \in Nat /\ n <= items[u][w] + added
    BY <1>1, <1>2, <1>9, TabFields, StockAssumption DEF UpdateWrite
  <2>2. /\ items' = [items EXCEPT ![u][w] = n] /\ put' = [put EXCEPT ![w] = @ + added]
        /\ quantity' = quantity /\ EndTab(t)
    BY <1>9 DEF UpdateWrite, flowVars, stockVars, rows
  <2> HIDE DEF u, w, n, added
  <2>3. \A x \in Tabs : tab'[x] = tab[x] \/ tab'[x] = Idle
    BY <1>1, <2>2 DEF EndTab, Tab, CartTypeOK
  <2>4. CASE v = w
    <3>1. /\ items'[u][v] <= items[u][v] + added /\ put'[v] = put[v] + added
          /\ \A d \in Owners \ {u} : items'[d][v] = items[d][v]
      BY <1>1, <1>2, <2>1, <2>2, <2>4 DEF CartTypeOK, Lines
    <3> QED
      BY <1>1, <2>1, <2>2, <2>3, <3>1, GrowPuts
  <2>5. CASE v # w
    <3>1. put'[v] = put[v] /\ \A d \in Owners : items'[d][v] <= items[d][v]
      BY <1>1, <1>2, <2>1, <2>2, <2>5 DEF CartTypeOK, Lines
    <3> QED
      BY <1>1, <2>2, <2>3, <3>1, RequestKinds, QuietStep
  <2> QED
    BY <2>4, <2>5
<1>10. CASE CartStep
  BY <1>1, <1>4, <1>5, <1>6, <1>7, <1>8, <1>9, <1>10, MergeReadPuts, MergeWritePuts DEF CartStep
<1>11. CASE CheckoutStep
  BY <1>1, <1>3, <1>11, CheckoutPuts
  DEF CheckoutStep, UpdateCoupon, cartVars, flowVars, stockVars, rows
<1>12. CASE PlacedStep
  BY <1>3, <1>12, PlacedKeepsOrders DEF PlacedStep, cartVars, TwiceInv
<1>13. CASE UNCHANGED shopVars
  BY <1>3, <1>13 DEF shopVars, cartVars, flowVars, stockVars, rows
<1> QED
  BY <1>10, <1>11, <1>12, <1>13 DEF CartNext

LEMMA TwiceInit == CartInit /\ CartTypeOK /\ StockTypeOK => \A v \in Variants : PutOnce(v)
<1> SUFFICES ASSUME CartInit, CartTypeOK, StockTypeOK, NEW v \in Variants PROVE PutOnce(v)
  OBVIOUS
<1> DEFINE nothing == [c \in Owners |-> 0]
<1>1. nothing \in Claims
  BY CartAssumption DEF Claims
<1>2. Covers(nothing, v)
  BY <1>1, RequestKinds DEF Covers, CartInit, NoUnits
<1>3. UnitsClaimed(nothing) = {}
  BY CartAssumption DEF UnitsClaimed
<1>4. OrderUnits(v) = {}
  BY StockAssumption DEF CartInit, FlowInit, StockInit, OrderUnits, UnitsOf, NoUnits
<1>5. Paid(nothing, v)
  BY <1>3, <1>4, FS_EmptySet DEF Paid, CartInit, NoUnits
<1> QED
  BY <1>1, <1>2, <1>5 DEF PutOnce

\* No unit is ordered twice or stays in the cart it was ordered from, whatever
\* tabs, logins and checkouts of any number of customers interleave.
THEOREM CartNoUnitTwice == CartSpec => []NoUnitTwice
<1>1. CartInit => CartInv
  BY NoUnitsType, RequestKinds, CartAssumption
  DEF CartInit, CartInv, CartTypeOK, HeldCartsExist, NoUnits
<1>2. CartSpec => []CartInv
  BY <1>1, CartInvStep, PTL DEF CartSpec
<1>3. CartInit /\ CartInv /\ FlowTypeOK /\ StockTypeOK => TwiceInv
  BY TwiceInit DEF TwiceInv, CartInv
<1>4. CartSpec => []FlowTypeOK /\ []StockTypeOK
  BY CartImplementsFlow, FlowTypeCorrect, FlowImplementsStock, StockTypeCorrect, PTL
<1>5. TwiceInv => NoUnitTwice
  BY CoveredIsOnce DEF TwiceInv, CartInv
<1> QED
  BY <1>2, <1>3, <1>4, <1>5, TwiceInvStep, PTL DEF CartSpec

\* The coupon's counter counts its rows, and every use keeps its limits.
THEOREM CartCouponIsKept == CartSpec => CouponIsKept
BY CartCouponCounts, CartCouponLimits DEF CouponIsKept
=============================================================================
