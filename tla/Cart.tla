--------------------------------- MODULE Cart ---------------------------------
(***************************************************************************)
(* What happens before the order: the carts of customers and of guests     *)
(* (cart.service.ts), the guest's cart merged at login (auth.controller.ts)*)
(* and the checkout that turns a cart into an order, with the limits of a  *)
(* coupon (checkout.service.ts, the coupons of admin.service.ts).          *)
(*                                                                         *)
(* A checkout is one serializable transaction.  The requests of the cart   *)
(* service are not transactions: each looks at the stock, the cart or the  *)
(* line first and writes later.  A row that is deleted in between makes    *)
(* the request fail, since it has read the row's id.                       *)
(***************************************************************************)
EXTENDS OrderFlow

CONSTANTS
    Users,          \* customers, each with at most one cart
    Guests,         \* guest tokens (the guest_cart cookie)
    Tabs,           \* requests of the cart service that may be in flight
    Policies,       \* what an administrator may set the coupon to
    PutBound        \* bound: units of a variant put into carts in a behaviour

Policy == [active : BOOLEAN, usageLimit : Nat, perUserLimit : Nat, firstOrderOnly : BOOLEAN]

ASSUME CartAssumption ==
    /\ None \notin Users
    /\ Users \cap Guests = {}
    /\ IsFiniteSet(Users \cup Guests)
    /\ Policies \subseteq Policy
    /\ PutBound \in Nat

VARIABLES
    carts,          \* owners whose Cart row exists
    expired,        \* carts past expiresAt
    items,          \* items[c][v]: quantity of the CartItem row, 0: no row
    tab,            \* tab[t]: a request and what it has read
    put,            \* put[v]: units customers have put into carts so far
    coupon,         \* the policy in force
    usedCount,      \* Coupon.usedCount
    uses,           \* orders with a CouponUsage row
    buyer           \* Order.userId

cartVars   == <<carts, expired, items, tab, put>>
couponVars == <<coupon, usedCount, uses, buyer>>
shopVars   == <<flowVars, cartVars, couponVars>>

Owners == Users \cup Guests

TabRequests ==
    {Idle}
      \cup [at : {"checked", "held"}, cart : Owners, variant : Variants, qty : 1 .. MaxQty]
      \cup [at : {"update"}, cart : Users, variant : Variants, qty : 1 .. MaxQty]
      \cup [at : {"merge"}, cart : Users, guest : Guests, lines : Lines]

CartInit ==
    /\ FlowInit
    /\ carts = {}
    /\ expired = {}
    /\ items = [c \in Owners |-> NoUnits]
    /\ tab = [t \in Tabs |-> Idle]
    /\ put = NoUnits
    /\ coupon \in Policies
    /\ usedCount = 0
    /\ uses = {}
    /\ buyer = [o \in Orders |-> None]

\* A request goes on to the next step; or it answers, or dies, and is over.
Tab(t, request) == tab' = [tab EXCEPT ![t] = request]
EndTab(t)       == Tab(t, Idle)

-----------------------------------------------------------------------------
(* Adding to a cart                                                        *)

\* The stock check of the cart service.
CartAccepts(v, qty) == available[v] - reserved[v] >= qty

AddCheck(t, c, v, qty) ==
    /\ tab[t] = Idle
    /\ CartAccepts(v, qty)
    /\ Tab(t, [at |-> "checked", cart |-> c, variant |-> v, qty |-> qty])
    /\ UNCHANGED <<flowVars, carts, expired, items, put, couponVars>>

\* The cart is created, or its 30 days start again.
AddCart(t) ==
    /\ tab[t].at = "checked"
    /\ LET c == tab[t].cart IN
       /\ carts' = carts \cup {c}
       /\ expired' = expired \ {c}
       /\ Tab(t, [at |-> "held", cart |-> c, variant |-> tab[t].variant, qty |-> tab[t].qty])
    /\ UNCHANGED <<flowVars, items, put, couponVars>>

\* The line is created or incremented.
AddItem(t) ==
    /\ tab[t].at = "held"
    /\ LET c == tab[t].cart
           v == tab[t].variant
       IN  /\ items[c][v] + tab[t].qty <= MaxQty
           /\ put[v] + tab[t].qty <= PutBound
           /\ items' = [items EXCEPT ![c][v] = @ + tab[t].qty]
           /\ put' = [put EXCEPT ![v] = @ + tab[t].qty]
    /\ EndTab(t)
    /\ UNCHANGED <<flowVars, carts, expired, couponVars>>

-----------------------------------------------------------------------------
(* Changing and removing a line                                            *)

UpdateCheck(t, u, v, qty) ==
    /\ tab[t] = Idle
    /\ items[u][v] > 0
    /\ CartAccepts(v, qty)
    /\ Tab(t, [at |-> "update", cart |-> u, variant |-> v, qty |-> qty])
    /\ UNCHANGED <<flowVars, carts, expired, items, put, couponVars>>

\* The line still exists: its quantity is overwritten.
UpdateWrite(t) ==
    /\ tab[t].at = "update"
    /\ LET u     == tab[t].cart
           v     == tab[t].variant
           added == IF tab[t].qty > items[u][v] THEN tab[t].qty - items[u][v] ELSE 0
       IN  /\ put[v] + added <= PutBound
           /\ items' = [items EXCEPT ![u][v] = tab[t].qty]
           /\ put' = [put EXCEPT ![v] = @ + added]
    /\ EndTab(t)
    /\ UNCHANGED <<flowVars, carts, expired, couponVars>>

\* Requests that have read the id of a line of u, or of the guest's cart g.
OnLine(u, v) == [at : {"update"}, cart : {u}, variant : {v}, qty : 1 .. MaxQty]
OnLines(u)   == [at : {"update"}, cart : {u}, variant : Variants, qty : 1 .. MaxQty]
OnGuest(g)   == [at : {"held"}, cart : {g}, variant : Variants, qty : 1 .. MaxQty]
                  \cup [at : {"merge"}, cart : Users, guest : {g}, lines : Lines]

\* The rows these requests have read are deleted: they fail.
FailTabs(requests) == tab' = [t \in Tabs |-> IF tab[t] \in requests THEN Idle ELSE tab[t]]

Remove(c, v) ==
    /\ items[c][v] > 0
    /\ items' = [items EXCEPT ![c][v] = 0]
    /\ FailTabs(OnLine(c, v))
    /\ UNCHANGED <<flowVars, carts, expired, put, couponVars>>

-----------------------------------------------------------------------------
(* Login with a guest's cart                                               *)

\* mergeGuest reads the guest's cart outside its transaction ...
MergeRead(t, u, g) ==
    /\ tab[t] = Idle
    /\ g \in carts
    /\ Tab(t, [at |-> "merge", cart |-> u, guest |-> g, lines |-> items[g]])
    /\ UNCHANGED <<flowVars, carts, expired, items, put, couponVars>>

\* Mutant of MergeWrite: the guest's cart stays for the next visit.
MergeWrite_KeepsGuest(t) ==
    /\ tab[t].at = "merge"
    /\ LET u == tab[t].cart IN
       /\ \A v \in Variants : items[u][v] + tab[t].lines[v] <= MaxQty
       /\ carts' = carts \cup {u}
       /\ items' = [items EXCEPT ![u] = [v \in Variants |-> @[v] + tab[t].lines[v]]]
    /\ EndTab(t)
    /\ UNCHANGED <<flowVars, expired, put, couponVars>>

\* ... and adds what it has read, whatever is in the cart by then.  Deleting
\* the guest's cart with its lines fails when another login has done it.  The
\* expiry of the customer's cart stays as it is.
MergeWrite(t) ==
    /\ tab[t].at = "merge"
    /\ LET u == tab[t].cart
           g == tab[t].guest
       IN  /\ \A v \in Variants : items[u][v] + tab[t].lines[v] <= MaxQty
           /\ carts' = (carts \cup {u}) \ {g}
           /\ expired' = expired \ {g}
           /\ items' = [items EXCEPT ![u] = [v \in Variants |-> @[v] + tab[t].lines[v]],
                                     ![g] = NoUnits]
           /\ FailTabs(OnGuest(g))
    /\ UNCHANGED <<flowVars, put, couponVars>>

\* A request dies, or the database refuses its last write.
TabFail(t) ==
    /\ tab[t] # Idle
    /\ EndTab(t)
    /\ UNCHANGED <<flowVars, carts, expired, items, put, couponVars>>

\* The 30 days of a cart pass.
Expire(c) ==
    /\ c \in carts \ expired
    /\ expired' = expired \cup {c}
    /\ UNCHANGED <<flowVars, carts, items, tab, put, couponVars>>

-----------------------------------------------------------------------------
(* Checkout and the coupon                                                 *)

UsesOf(u) == {o \in uses : buyer[o] = u}

IsFirstOrder(u) == \A o \in Orders : buyer[o] = u => status[o] = "CANCELLED"

\* Mutant of CouponValid: the customer's own uses are not counted.
CouponValid_AnyUser(u) ==
    /\ coupon.active
    /\ usedCount < coupon.usageLimit
    /\ coupon.firstOrderOnly => IsFirstOrder(u)

\* A perUserLimit of 0 is none.
CouponValid(u) ==
    /\ coupon.active
    /\ usedCount < coupon.usageLimit
    /\ coupon.perUserLimit # 0 => Cardinality(UsesOf(u)) < coupon.perUserLimit
    /\ coupon.firstOrderOnly => IsFirstOrder(u)

UseCoupon(u, o) ==
    /\ usedCount' = usedCount + 1
    /\ uses' = uses \cup {o}

\* Mutant of Checkout: an order that costs nothing is marked paid.
Checkout_FreeIsPaid(u, o, p, withCoupon) ==
    /\ u \in carts \ expired
    /\ items[u] # NoUnits
    /\ withCoupon /\ CouponValid(u)
    /\ status[o] = None
    /\ ReserveAndCommit(o, items[u])
    /\ SetStatus(o, None, "CONFIRMED")
    /\ provider' = [provider EXCEPT ![o] = p]
    /\ payment' = [payment EXCEPT ![o] = "PAID"]
    /\ UNCHANGED <<transaction, shipment, requestVars, providerVars>>
    /\ items' = [items EXCEPT ![u] = NoUnits]
    /\ FailTabs(OnLines(u))
    /\ UseCoupon(u, o)
    /\ buyer' = [buyer EXCEPT ![o] = u]
    /\ UNCHANGED <<carts, expired, put, coupon>>

\* placeOrder: the lines of the cart become those of the order, or nothing
\* happens.  A cart without lines, or past its days, is answered CART_EMPTY.
Checkout(u, o, p, withCoupon) ==
    /\ u \in carts \ expired
    /\ withCoupon => CouponValid(u)
    /\ PlaceOrder(o, items[u], p)
    /\ items' = [items EXCEPT ![u] = NoUnits]
    /\ FailTabs(OnLines(u))
    /\ IF withCoupon THEN UseCoupon(u, o) ELSE UNCHANGED <<usedCount, uses>>
    /\ buyer' = [buyer EXCEPT ![o] = u]
    /\ UNCHANGED <<carts, expired, put, coupon>>

\* An administrator saves or deactivates the coupon, or the job does when the
\* promotion is over; the count of its uses stays.
UpdateCoupon(policy) ==
    /\ policy # coupon
    /\ coupon' = policy
    /\ UNCHANGED <<flowVars, cartVars, usedCount, uses, buyer>>

-----------------------------------------------------------------------------

CartStep ==
    \/ \E t \in Tabs :
          \/ \E c \in Owners, v \in Variants, qty \in 1 .. MaxQty : AddCheck(t, c, v, qty)
          \/ \E u \in Users, v \in Variants, qty \in 1 .. MaxQty : UpdateCheck(t, u, v, qty)
          \/ \E u \in Users, g \in Guests : MergeRead(t, u, g)
          \/ AddCart(t) \/ AddItem(t) \/ UpdateWrite(t) \/ MergeWrite(t) \/ TabFail(t)
    \/ \E c \in Owners : Expire(c) \/ \E v \in Variants : Remove(c, v)

CheckoutStep ==
    \/ \E u \in Users, o \in Orders, p \in Offered, withCoupon \in BOOLEAN :
          Checkout(u, o, p, withCoupon)
    \/ \E policy \in Policies : UpdateCoupon(policy)

\* What happens to the orders afterwards.
PlacedStep ==
    /\ \/ \E o \in Orders : Ship(o) \/ \E to \in Targets : Transition(o, to)
       \/ PaymentStep
       \/ ProviderStep
       \/ StockStep
    /\ UNCHANGED <<cartVars, couponVars>>

CartNext == CartStep \/ CheckoutStep \/ PlacedStep

CartSpec == CartInit /\ [][CartNext]_shopVars

-----------------------------------------------------------------------------
(* Properties                                                              *)

\* Lines belong to a cart that exists: what a login leaves of a guest's cart
\* is neither a line without a cart nor an expiry.
CartTypeOK ==
    /\ carts \subseteq Owners
    /\ expired \subseteq carts
    /\ items \in [Owners -> Lines]
    /\ \A c \in Owners \ carts : items[c] = NoUnits
    /\ tab \in [Tabs -> TabRequests]
    /\ put \in [Variants -> 0 .. PutBound]
    /\ coupon \in Policies
    /\ usedCount \in Nat
    /\ uses \subseteq Orders
    /\ buyer \in [Orders -> Users \cup {None}]

CartUnits(v) == {u \in Owners \X (1 .. MaxQty) : u[2] <= items[u[1]][v]}
OrderUnits(v) == UnitsOf([o \in Orders |-> quantity[o][v]])

\* No unit is in two carts, in two orders, or still in the cart it was ordered
\* from: what carts and orders hold together is at most what customers have
\* put in.  The page sends every submit with a fresh idempotency key, two tabs
\* log in with the same guest cart, and merges work with old copies of it.
NoUnitTwice ==
    \A v \in Variants : Cardinality(CartUnits(v)) + Cardinality(OrderUnits(v)) <= put[v]

\* usedCount counts the CouponUsage rows, whatever administrators save while
\* customers check out.
CouponCountsUses == usedCount = Cardinality(uses)

WithinLimits(o) ==
    /\ Cardinality(uses') <= coupon.usageLimit
    /\ coupon.perUserLimit # 0 =>
          Cardinality({x \in uses' : buyer'[x] = buyer'[o]}) <= coupon.perUserLimit
    /\ coupon.firstOrderOnly =>
          \A x \in Orders \ {o} : buyer'[x] = buyer'[o] => status'[x] = "CANCELLED"

\* An order that uses the coupon keeps the limits in force at that moment, by
\* the rows and not by the counter: of the coupon, of its customer, and, for a
\* first order, among the customer's orders that were not cancelled.
CouponWithinLimits == [][\A o \in uses' \ uses : WithinLimits(o)]_shopVars

\* The coupon's counter and its limits, against customers who check out at the
\* same time and administrators who change the coupon in between.
CouponIsKept == []CouponCountsUses /\ CouponWithinLimits

\* "Requested quantity is unavailable": the cart refuses only what a checkout
\* of the same quantity would refuse as well.
CartRefusesUnavailable ==
    \A v \in Variants, qty \in 1 .. MaxQty :
        CanReserve([NoUnits EXCEPT ![v] = qty]) => CartAccepts(v, qty)
=============================================================================
