----------------------------- MODULE CheckoutPage -----------------------------
(***************************************************************************)
(* The checkout page of one tab: its three steps, the submit and what it   *)
(* orders (apps/web checkout/page.tsx, middleware.ts).  A submit takes the *)
(* form as it is, also the parts of steps that were never shown, and goes  *)
(* on without the page.  Every one draws a new Idempotency-Key, so to the  *)
(* API a retry is another checkout; what that does to stock and payment is *)
(* module Cart.  The contact form is valid or not; the page asks /auth/me  *)
(* for fields its answer does not have, so nothing is filled in.           *)
(***************************************************************************)
EXTENDS Naturals

VARIABLES wizard,   \* mounted; step; contact: validateStep1; method: the selected one;
                    \* terms; provider; busy; seen: the steps shown in this visit
          methods,  \* the shipping methods have loaded
          sent,     \* submits in flight: the form as it was
          cookie,   \* "access", "refresh" (the access cookie is 15 minutes old) or "none"
          filled,   \* the cart has lines
          ordered   \* the submit that placed the latest order

checkoutVars == <<wizard, methods, sent, cookie, filled, ordered>>

Unmounted == [mounted |-> FALSE, step |-> 1, contact |-> FALSE, method |-> "none",
              terms |-> TRUE, provider |-> "COD", busy |-> FALSE, seen |-> {1}]
Opened    == [Unmounted EXCEPT !.mounted = TRUE]
NoOrder   == [provider |-> "none"]

PageInit == /\ wizard = Unmounted /\ methods = FALSE /\ sent = {}
            /\ cookie = "access"
            /\ filled = FALSE /\ ordered = NoOrder

Wizard(w) == wizard' = w /\ UNCHANGED <<methods, sent, cookie, filled, ordered>>

Shown(w, n) == [w EXCEPT !.step = n, !.seen = @ \cup {n}]

----------------------------------------------------------------------------
\* Mutant: the page remembers the provider of an earlier visit.
OpenCheckout_Remembers ==
    /\ ~wizard.mounted /\ cookie # "none"
    /\ \E p \in {"COD", "online"} :
          Wizard([Opened EXCEPT !.method = IF methods THEN "first" ELSE "none", !.provider = p])

\* The middleware lets in whoever has either cookie.
OpenCheckout ==
    /\ ~wizard.mounted /\ cookie # "none"
    /\ Wizard([Opened EXCEPT !.method = IF methods THEN "first" ELSE "none"])

\* Navigation: to the success page, the provider, or anywhere.
LeaveCheckout == wizard.mounted /\ Wizard(Unmounted)

\* The effect selects the first method when they arrive.
LoadMethods == /\ ~methods /\ methods' = TRUE
               /\ wizard' = [wizard EXCEPT !.method = IF wizard.mounted THEN "first" ELSE "none"]
               /\ UNCHANGED <<sent, cookie, filled, ordered>>

\* The inputs are hidden outside of step 1, the methods outside of 2, the terms and
\* providers outside of 3.
EditContact == /\ wizard.mounted /\ wizard.step = 1
               /\ Wizard([wizard EXCEPT !.contact = ~@])

ChooseMethod(m) == /\ wizard.step = 2 /\ methods
                   /\ Wizard([wizard EXCEPT !.method = m])

ToggleTerms == wizard.step = 3 /\ Wizard([wizard EXCEPT !.terms = ~@])

ChooseProvider(p) == wizard.step = 3 /\ Wizard([wizard EXCEPT !.provider = p])

ContinueToStep2 == wizard.step = 1 /\ wizard.contact /\ Wizard(Shown(wizard, 2))

ContinueToStep3 == wizard.step = 2 /\ wizard.method # "none" /\ Wizard(Shown(wizard, 3))

\* The step bar at the top, which may pass over step 2.
BarAllows(n) == \/ n = 1
                \/ n = 2 /\ wizard.contact
                \/ n = 3 /\ wizard.contact /\ wizard.method # "none"

StepBar(n) == wizard.mounted /\ BarAllows(n) /\ Wizard(Shown(wizard, n))

----------------------------------------------------------------------------
\* handleSubmit: what it finds missing takes the customer back.
Submitted(w) ==
    IF ~w.contact THEN Shown(w, 1)
    ELSE IF w.method = "none" THEN Shown(w, 2)
    ELSE [w EXCEPT !.busy = w.terms]

Form(w) == [contact |-> w.contact, method |-> w.method, terms |-> w.terms,
            provider |-> w.provider, seen |-> w.seen]

Submit(w) ==
    /\ ~w.busy /\ wizard' = Submitted(w)
    /\ sent' = IF Submitted(w).busy THEN sent \cup {Form(wizard)} ELSE sent
    /\ UNCHANGED <<methods, cookie, filled, ordered>>

ClickSubmit == wizard.step = 3 /\ Submit(wizard)

\* The continue button of the sidebar becomes the submit button in its own click,
\* and the browser may take the click for a submit: step 3 was not shown by then.
SidebarSubmits == wizard.step = 2 /\ wizard.method # "none" /\ Submit(Shown(wizard, 3))

\* The API: the cart of the user, emptied in the same transaction.
PlaceAtApi(s) ==
    /\ s \in sent /\ cookie = "access" /\ filled
    /\ ordered' = s /\ filled' = FALSE /\ sent' = sent \ {s}
    /\ UNCHANGED <<wizard, methods, cookie>>

\* An error of the API, a cart that is empty, a request that is lost.
RefuseAtApi(s) == /\ s \in sent /\ sent' = sent \ {s}
                  /\ UNCHANGED <<wizard, methods, cookie, filled, ordered>>

\* An answer, or none: the form is free again, and the order may be there or not.
SubmitOver == wizard.busy /\ Wizard([wizard EXCEPT !.busy = FALSE])

----------------------------------------------------------------------------
FillCart == /\ ~filled /\ filled' = TRUE
            /\ UNCHANGED <<wizard, methods, sent, cookie, ordered>>

CookieAges == /\ cookie' \in {"access", "refresh", "none"} \ {cookie}
              /\ UNCHANGED <<wizard, methods, sent, filled, ordered>>

PageNext == \/ OpenCheckout \/ LeaveCheckout \/ LoadMethods
            \/ EditContact \/ ToggleTerms
            \/ \E m \in {"first", "other"} : ChooseMethod(m)
            \/ \E p \in {"COD", "online"} : ChooseProvider(p)
            \/ ContinueToStep2 \/ ContinueToStep3 \/ \E n \in 1..3 : StepBar(n)
            \/ ClickSubmit \/ SidebarSubmits \/ SubmitOver
            \/ \E s \in sent : PlaceAtApi(s) \/ RefuseAtApi(s)
            \/ FillCart \/ CookieAges

PageSpec == PageInit /\ [][PageNext]_checkoutVars

----------------------------------------------------------------------------
\* The customer sees no step whose earlier ones are open: what handleSubmit
\* validates at the end was valid when its step was left, and stays so while she
\* goes to and fro (validateStep1, the step bar).
CheckoutStepsInOrder ==
    /\ wizard.step >= 2 => wizard.contact
    /\ wizard.step = 3 => wizard.contact /\ wizard.method # "none"

\* An order has a valid contact, a method and the terms, however late the submit is
\* carried out, and departs from the page's defaults, the first method and cash on
\* delivery, only in what was shown to the customer in that visit.  It may well be placed
\* with step 2 or step 3, its payment and terms, never shown: the step bar passes over
\* the one, the sidebar's button over the other (checkout/page.tsx:354-364, 1097-1112).
UnseenIsDefault ==
    ordered # NoOrder =>
        /\ ordered.contact /\ ordered.method # "none" /\ ordered.terms
        /\ ordered.method = "other" => 2 \in ordered.seen
        /\ ordered.provider = "online" => 3 \in ordered.seen

\* The wizard goes in order, and orders nothing it has neither shown nor set itself.
CheckoutIsOrderly == CheckoutStepsInOrder /\ UnseenIsDefault
=============================================================================
