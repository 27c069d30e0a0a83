----------------------------- MODULE PagesProofs -----------------------------
(***************************************************************************)
(* Proofs about the pages: the cart's steppers are exact, the checkout     *)
(* orders nothing it has neither shown nor set, a wish is moved once, the  *)
(* profile shows its row when it has come to rest, and the console does    *)
(* what was asked.  At the end, what the customer is written about the     *)
(* order.                                                                  *)
(***************************************************************************)
EXTENDS Bag, CheckoutPage, Wishlist, Console, ProfilePage, Mail, TLAPS

-----------------------------------------------------------------------------
(* The checkout page                                                       *)

WizardStates ==
    [mounted : BOOLEAN, step : 1..3, contact : BOOLEAN, method : {"none", "first", "other"},
     terms : BOOLEAN, provider : {"COD", "online"}, busy : BOOLEAN, seen : SUBSET (1..3)]

\* What a form departs from the defaults in was shown.
ChoicesSeen(f) == /\ f.method = "other" => 2 \in f.seen
                  /\ f.provider = "online" => 3 \in f.seen

\* A form that may be sent.
Complete(f) == f.contact /\ f.method # "none" /\ f.terms /\ ChoicesSeen(f)

CheckoutPageInv ==
    /\ wizard \in WizardStates /\ wizard.step \in wizard.seen
    /\ CheckoutStepsInOrder /\ ChoicesSeen(wizard)
    /\ wizard.method # "none" => methods
    /\ \A s \in sent : Complete(s)
    /\ ordered # NoOrder => Complete(ordered)

\* What a wizard has but for whether its page is there and busy.
Same(v, w) == /\ v.step = w.step /\ v.seen = w.seen /\ v.contact = w.contact
              /\ v.method = w.method /\ v.terms = w.terms /\ v.provider = w.provider

LEMMA ShownFields ==
    ASSUME NEW w \in WizardStates, NEW n \in 1..3
    PROVE  /\ Shown(w, n) \in WizardStates /\ Shown(w, n).step = n
           /\ Shown(w, n).seen = w.seen \cup {n} /\ Shown(w, n).contact = w.contact
           /\ Shown(w, n).method = w.method /\ Shown(w, n).provider = w.provider
           /\ Shown(w, n).terms = w.terms
<1>1. w.seen \cup {n} \in SUBSET (1..3) /\ Shown(w, n) = [w EXCEPT !.step = n, !.seen = w.seen \cup {n}]
  BY DEF WizardStates, Shown
<1> QED
  BY <1>1 DEF WizardStates

LEMMA BusyFields ==
    ASSUME NEW w \in WizardStates, NEW b \in BOOLEAN
    PROVE  /\ [w EXCEPT !.busy = b] \in WizardStates /\ Same([w EXCEPT !.busy = b], w)
           /\ [w EXCEPT !.busy = b].busy = b
BY DEF WizardStates, Same

LEMMA UnmountedIsOne ==
    /\ Unmounted \in WizardStates /\ Unmounted.step = 1 /\ Unmounted.seen = {1}
    /\ Unmounted.method = "none" /\ Unmounted.provider = "COD"
BY DEF Unmounted, WizardStates

LEMMA MethodFields ==
    ASSUME NEW w \in WizardStates, NEW m \in {"none", "first", "other"}
    PROVE  /\ [w EXCEPT !.method = m] \in WizardStates
           /\ [w EXCEPT !.method = m].step = w.step
           /\ [w EXCEPT !.method = m].seen = w.seen
           /\ [w EXCEPT !.method = m].contact = w.contact
           /\ [w EXCEPT !.method = m].method = m
           /\ [w EXCEPT !.method = m].provider = w.provider
BY DEF WizardStates

LEMMA ProviderFields ==
    ASSUME NEW w \in WizardStates, NEW p \in {"COD", "online"}
    PROVE  /\ [w EXCEPT !.provider = p] \in WizardStates
           /\ [w EXCEPT !.provider = p].step = w.step
           /\ [w EXCEPT !.provider = p].seen = w.seen
           /\ [w EXCEPT !.provider = p].contact = w.contact
           /\ [w EXCEPT !.provider = p].method = w.method
           /\ [w EXCEPT !.provider = p].provider = p
BY DEF WizardStates

LEMMA TermsFields ==
    ASSUME NEW w \in WizardStates, NEW b \in BOOLEAN
    PROVE  /\ [w EXCEPT !.terms = b] \in WizardStates
           /\ [w EXCEPT !.terms = b].step = w.step
           /\ [w EXCEPT !.terms = b].seen = w.seen
           /\ [w EXCEPT !.terms = b].contact = w.contact
           /\ [w EXCEPT !.terms = b].method = w.method
           /\ [w EXCEPT !.terms = b].provider = w.provider
BY DEF WizardStates

LEMMA ContactFields ==
    ASSUME NEW w \in WizardStates, NEW b \in BOOLEAN
    PROVE  /\ [w EXCEPT !.contact = b] \in WizardStates
           /\ [w EXCEPT !.contact = b].step = w.step
           /\ [w EXCEPT !.contact = b].seen = w.seen
           /\ [w EXCEPT !.contact = b].method = w.method
           /\ [w EXCEPT !.contact = b].provider = w.provider
BY DEF WizardStates

LEMMA MountedFields ==
    ASSUME NEW w \in WizardStates
    PROVE  /\ [w EXCEPT !.mounted = TRUE] \in WizardStates
           /\ [w EXCEPT !.mounted = TRUE].step = w.step
           /\ [w EXCEPT !.mounted = TRUE].seen = w.seen
           /\ [w EXCEPT !.mounted = TRUE].provider = w.provider
BY DEF WizardStates

LEMMA OpenedIsOne ==
    /\ Opened \in WizardStates /\ Opened.step = 1 /\ Opened.seen = {1}
    /\ Opened.provider = "COD"
BY UnmountedIsOne, MountedFields DEF Opened

\* The form that is sent from step 2 or 3, and the page after it.
LEMMA SubmitStep ==
    ASSUME CheckoutPageInv, NEW w \in WizardStates, Submit(w), w.step \in w.seen, w.step = 3,
           w.contact = wizard.contact, w.method = wizard.method, w.terms = wizard.terms,
           w.provider = wizard.provider, wizard.seen \subseteq w.seen,
           wizard.contact, wizard.method # "none"
    PROVE  CheckoutPageInv'
<1>1. Submitted(w) = [w EXCEPT !.busy = w.terms] /\ w.terms \in BOOLEAN
      /\ Submitted(w) \in WizardStates /\ Same(Submitted(w), w) /\ Submitted(w).busy = w.terms
  BY BusyFields DEF Submitted, WizardStates
<1>2. /\ wizard' = Submitted(w) /\ methods' = methods /\ ordered' = ordered
      /\ sent' = sent \/ (w.terms /\ sent' = sent \cup {Form(wizard)})
  BY <1>1 DEF Submit
<1>3. w.terms => Complete(Form(wizard))
  BY DEF Complete, ChoicesSeen, Form, CheckoutPageInv
<1>4. /\ wizard' \in WizardStates /\ wizard'.step = 3 /\ wizard'.seen = w.seen
      /\ wizard'.contact = w.contact /\ wizard'.method = w.method
      /\ wizard'.provider = w.provider
  BY <1>1, <1>2 DEF Same
<1>5. \A s \in sent' : Complete(s)
  BY <1>2, <1>3 DEF CheckoutPageInv
<1>6. ordered' # NoOrder => Complete(ordered)'
  BY <1>2 DEF CheckoutPageInv, Complete, ChoicesSeen
<1>7. CheckoutStepsInOrder' /\ ChoicesSeen(wizard)' /\ (wizard.method # "none" => methods)'
  BY <1>2, <1>4 DEF CheckoutPageInv, CheckoutStepsInOrder, ChoicesSeen
<1> QED
  BY <1>4, <1>5, <1>6, <1>7 DEF CheckoutPageInv

LEMMA CheckoutPageStep ==
    ASSUME CheckoutPageInv, [PageNext]_checkoutVars
    PROVE  CheckoutPageInv'
<1>0. wizard \in WizardStates
  BY DEF CheckoutPageInv
<1>. USE DEF Wizard
<1>1. ASSUME OpenCheckout PROVE CheckoutPageInv'
  <2>1. PICK m \in {"none", "first", "other"} :
           wizard' = [Opened EXCEPT !.method = m] /\ (m # "none" => methods)
    BY <1>1 DEF OpenCheckout
  <2>2. /\ wizard' \in WizardStates /\ wizard'.step = 1 /\ wizard'.seen = {1}
        /\ wizard'.method = m /\ wizard'.provider = "COD"
    BY <2>1, OpenedIsOne, MethodFields
  <2> QED
    BY <1>1, <2>1, <2>2 DEF OpenCheckout, Complete, CheckoutPageInv,
       CheckoutStepsInOrder, ChoicesSeen
<1>2. ASSUME LeaveCheckout PROVE CheckoutPageInv'
  BY <1>2, UnmountedIsOne DEF LeaveCheckout, Complete, CheckoutPageInv,
       CheckoutStepsInOrder, ChoicesSeen
<1>3. ASSUME LoadMethods PROVE CheckoutPageInv'
  <2>1. PICK m \in {"none", "first"} : wizard' = [wizard EXCEPT !.method = m]
    <3>1. wizard.mounted \/ ~wizard.mounted
      OBVIOUS
    <3> QED
      BY <1>3, <3>1 DEF LoadMethods
  <2>2. m \in {"none", "first", "other"}
    OBVIOUS
  <2>3. /\ wizard' \in WizardStates /\ wizard'.step = wizard.step /\ wizard'.seen = wizard.seen
        /\ wizard'.contact = wizard.contact /\ wizard'.method = m
        /\ wizard'.provider = wizard.provider
    BY <1>0, <2>1, <2>2, MethodFields
  <2>4. wizard.step # 3 /\ methods' = TRUE /\ sent' = sent /\ ordered' = ordered
    BY <1>3 DEF LoadMethods, CheckoutPageInv, CheckoutStepsInOrder
  <2> QED
    BY <2>3, <2>4 DEF Complete, CheckoutPageInv,
       CheckoutStepsInOrder, ChoicesSeen
<1>4. ASSUME EditContact PROVE CheckoutPageInv'
  <2>0. (~wizard.contact) \in BOOLEAN
    BY <1>0 DEF WizardStates
  <2>1. PICK b \in BOOLEAN : wizard' = [wizard EXCEPT !.contact = b]
    BY <1>4, <2>0 DEF EditContact
  <2>2. /\ wizard' \in WizardStates /\ wizard'.step = 1 /\ wizard'.seen = wizard.seen
        /\ wizard'.method = wizard.method /\ wizard'.provider = wizard.provider
    BY <1>0, <1>4, <2>1, ContactFields DEF EditContact
  <2> QED
    BY <1>4, <2>2 DEF EditContact, Complete, CheckoutPageInv,
       CheckoutStepsInOrder, ChoicesSeen
<1>5. ASSUME ToggleTerms PROVE CheckoutPageInv'
  <2>0. (~wizard.terms) \in BOOLEAN
    BY <1>0 DEF WizardStates
  <2>1. PICK b \in BOOLEAN : wizard' = [wizard EXCEPT !.terms = b]
    BY <1>5, <2>0 DEF ToggleTerms
  <2>2. /\ wizard' \in WizardStates /\ wizard'.step = wizard.step
        /\ wizard'.seen = wizard.seen /\ wizard'.contact = wizard.contact
        /\ wizard'.method = wizard.method /\ wizard'.provider = wizard.provider
    BY <1>0, <2>1, TermsFields
  <2> QED
    BY <1>5, <2>2 DEF ToggleTerms, Complete, CheckoutPageInv,
       CheckoutStepsInOrder, ChoicesSeen
<1>6. ASSUME NEW m \in {"first", "other"}, ChooseMethod(m) PROVE CheckoutPageInv'
  <2>0. m \in {"none", "first", "other"}
    OBVIOUS
  <2>1. /\ wizard' \in WizardStates /\ wizard'.step = 2 /\ wizard'.seen = wizard.seen
        /\ wizard'.contact = wizard.contact /\ wizard'.method = m
        /\ wizard'.provider = wizard.provider
    BY <1>0, <1>6, <2>0, MethodFields DEF ChooseMethod
  <2> QED
    BY <1>6, <2>1 DEF ChooseMethod, Complete, CheckoutPageInv,
       CheckoutStepsInOrder, ChoicesSeen
<1>7. ASSUME NEW p \in {"COD", "online"}, ChooseProvider(p) PROVE CheckoutPageInv'
  <2>1. /\ wizard' \in WizardStates /\ wizard'.step = wizard.step /\ wizard'.seen = wizard.seen
        /\ wizard'.contact = wizard.contact /\ wizard'.method = wizard.method
        /\ wizard'.provider = p
    BY <1>0, <1>7, ProviderFields DEF ChooseProvider
  <2> QED
    BY <1>7, <2>1 DEF ChooseProvider, Complete, CheckoutPageInv,
       CheckoutStepsInOrder, ChoicesSeen
<1>8. ASSUME ContinueToStep2 PROVE CheckoutPageInv'
  BY <1>8, ShownFields DEF ContinueToStep2, Complete, CheckoutPageInv,
       CheckoutStepsInOrder, ChoicesSeen
<1>9. ASSUME ContinueToStep3 PROVE CheckoutPageInv'
  BY <1>9, ShownFields DEF ContinueToStep3, Complete, CheckoutPageInv,
       CheckoutStepsInOrder, ChoicesSeen
<1>10. ASSUME NEW n \in 1..3, StepBar(n) PROVE CheckoutPageInv'
  BY <1>10, ShownFields DEF StepBar, BarAllows, Complete, CheckoutPageInv,
       CheckoutStepsInOrder, ChoicesSeen
<1>11. ASSUME ClickSubmit PROVE CheckoutPageInv'
  BY <1>0, <1>11, SubmitStep DEF ClickSubmit, CheckoutPageInv, CheckoutStepsInOrder
<1>12. ASSUME SidebarSubmits PROVE CheckoutPageInv'
  BY <1>0, <1>12, SubmitStep, ShownFields
     DEF SidebarSubmits, CheckoutPageInv, CheckoutStepsInOrder
<1>13. ASSUME SubmitOver PROVE CheckoutPageInv'
  BY <1>13, BusyFields DEF SubmitOver, Same, Complete, CheckoutPageInv,
       CheckoutStepsInOrder, ChoicesSeen
<1>14. ASSUME NEW s \in sent, PlaceAtApi(s) PROVE CheckoutPageInv'
  BY <1>14 DEF PlaceAtApi, Complete, CheckoutPageInv,
       CheckoutStepsInOrder, ChoicesSeen
<1>15. ASSUME NEW s \in sent, RefuseAtApi(s) PROVE CheckoutPageInv'
  BY <1>15 DEF RefuseAtApi, Complete, CheckoutPageInv,
       CheckoutStepsInOrder, ChoicesSeen
<1>16. ASSUME FillCart PROVE CheckoutPageInv'
  BY <1>16 DEF FillCart, Complete, CheckoutPageInv,
       CheckoutStepsInOrder, ChoicesSeen
<1>17. ASSUME CookieAges PROVE CheckoutPageInv'
  BY <1>17 DEF CookieAges, Complete, CheckoutPageInv,
       CheckoutStepsInOrder, ChoicesSeen
<1>18. ASSUME UNCHANGED checkoutVars PROVE CheckoutPageInv'
  BY <1>18 DEF checkoutVars, Complete, CheckoutPageInv,
       CheckoutStepsInOrder, ChoicesSeen
<1> QED
  BY <1>1, <1>2, <1>3, <1>4, <1>5, <1>6, <1>7, <1>8, <1>9, <1>10, <1>11, <1>12, <1>13, <1>14,
     <1>15, <1>16, <1>17, <1>18
     DEF PageNext

\* The customer sees no step whose earlier ones are open, and an order departs from the
\* page's defaults only in what she was shown, for any submits in flight, carried out
\* whenever: when the page was left, opened again and filled in anew (handleSubmit, the
\* step bar, the sidebar's button).
THEOREM CheckoutPageIsOrderly == PageSpec => []CheckoutIsOrderly
<1>1. PageInit => CheckoutPageInv
  BY UnmountedIsOne DEF PageInit, CheckoutPageInv, CheckoutStepsInOrder, ChoicesSeen
<1>2. CheckoutPageInv /\ [PageNext]_checkoutVars => CheckoutPageInv'
  BY CheckoutPageStep
<1>3. CheckoutPageInv => CheckoutIsOrderly
  BY DEF CheckoutPageInv, CheckoutIsOrderly, UnseenIsDefault, Complete, ChoicesSeen
<1> QED
  BY <1>1, <1>2, <1>3, PTL DEF PageSpec

-----------------------------------------------------------------------------
(* The profile page                                                        *)

\* With no unread answer under way a sure page shows the row, and so does a sure read.
ProfileInv ==
    /\ row \in User
    /\ save.at # "done" /\ upload.at # "done" =>
          /\ query.at = "none" /\ ~doubtful => view = row
          /\ query.at = "read" /\ query.sure => query.read = row
    /\ query \in [at : {"none", "asked", "read"}, read : User \cup {Unseen}, sure : BOOLEAN]
    /\ save \in [at : {"idle", "sent", "done"}, sends : Details \cup {Nothing},
                 answer : User \cup {Unseen}]
    /\ save.at = "sent" => save.sends \in Details
    /\ upload \in [at : {"idle", "sent", "done"}, sends : Photos \cup {Nothing}]
    /\ upload.at = "sent" => upload.sends \in Photos
    /\ doubtful \in BOOLEAN

LEMMA ProfileStep ==
    ASSUME ProfileInv, [ProfileNext]_profileVars
    PROVE  ProfileInv'
<1>. USE DEF ProfileInv, User, Unseen, NoSave, NoUpload, NoQuery, Asked
<1>1. ASSUME AskProfile PROVE ProfileInv'
  BY <1>1 DEF AskProfile
<1>2. ASSUME ReadProfile PROVE ProfileInv'
  BY <1>2 DEF ReadProfile
<1>3. ASSUME ProfileRead PROVE ProfileInv'
  BY <1>3 DEF ProfileRead
<1>4. ASSUME QueryFails PROVE ProfileInv'
  BY <1>4 DEF QueryFails
<1>5. ASSUME NEW u \in User, OtherTabSaves(u) PROVE ProfileInv'
  BY <1>5 DEF OtherTabSaves
<1>6. ASSUME NEW d \in Details, ClickSave(d) PROVE ProfileInv'
  BY <1>6 DEF ClickSave
<1>7. ASSUME NEW p \in Photos, ChoosePhoto(p) PROVE ProfileInv'
  BY <1>7 DEF ChoosePhoto
<1>8. ASSUME UpdateProfile PROVE ProfileInv'
  BY <1>8 DEF UpdateProfile
<1>9. ASSUME SaveAnswered PROVE ProfileInv'
  BY <1>9 DEF SaveAnswered
<1>10. ASSUME SaveFails PROVE ProfileInv'
  BY <1>10 DEF SaveFails
<1>11. ASSUME UpdateAvatar PROVE ProfileInv'
  BY <1>11 DEF UpdateAvatar
<1>12. ASSUME UploadAnswered PROVE ProfileInv'
  BY <1>12 DEF UploadAnswered
<1>13. ASSUME UploadFails PROVE ProfileInv'
  BY <1>13 DEF UploadFails
<1>14. ASSUME UNCHANGED profileVars PROVE ProfileInv'
  BY <1>14 DEF profileVars
<1> QED
  BY <1>1, <1>2, <1>3, <1>4, <1>5, <1>6, <1>7, <1>8, <1>9, <1>10, <1>11, <1>12, <1>13, <1>14
     DEF ProfileNext

\* Whatever order the answers of the form and of the photo come in, the page shows the
\* row when everything has come to rest (the onSuccess callbacks of AccountProfile).
THEOREM ProfilePageSettles == ProfileSpec => []ProfileSettles
<1>1. ProfileInit => ProfileInv
  BY DEF ProfileInit, ProfileInv, User, Unseen, NoSave, NoUpload, NoQuery
<1>2. ProfileInv /\ [ProfileNext]_profileVars => ProfileInv'
  BY ProfileStep
<1>3. ProfileInv => ProfileSettles
  BY DEF ProfileInv, ProfileSettles, NoSave, NoUpload, NoQuery
<1> QED
  BY <1>1, <1>2, <1>3, PTL DEF ProfileSpec

-----------------------------------------------------------------------------
(* The wishlist                                                            *)

WishKinds == {"move", "remove"}

WishStages == {"none", "sent", "found", "added", "answered"}
WishCall   == [kind : WishKinds \cup {"none"}, of : Wishes \cup {NoItem}, at : WishStages,
               here : BOOLEAN]

CallsOK == /\ call \in [Calls -> WishCall]
           /\ \A c \in Calls : call[c].of = NoItem => call[c] = NoWish
           /\ \A c \in Calls : call[c].of # NoItem => call[c].kind \in WishKinds

WishTypeOK ==
    /\ saved \in [Wishes -> {"none", "saved", "moved", "removed"}]
    /\ carted \in [Wishes -> 0..Many]
    /\ CallsOK
    /\ latest \in [WishKinds -> Calls \cup {NoItem}]
    /\ listed \subseteq Wishes /\ crossed \subseteq Wishes

\* A call of a row that was never crossed is the only one in flight, and the page knows it
\* unless it was left since.
LoneCalls == \A c \in Calls : call[c].of \in Wishes \ crossed =>
    /\ \A d \in Calls : call[d].of # NoItem => d = c
    /\ call[c].here => active = call[c].of /\ latest[call[c].kind] = c

\* A unit that a call has put into the cart.
UnitsMoved ==
    /\ \A c \in Calls : At(c, "move", "added") => carted[call[c].of] > 0
    /\ \A c \in Calls : At(c, "move", "found") =>
          saved[call[c].of] # "none" /\ (call[c].of \notin crossed => saved[call[c].of] = "saved")
    /\ \A i \in Wishes : /\ saved[i] = "moved" => carted[i] > 0
                         /\ saved[i] = "none" => carted[i] = 0
    /\ \A i \in Wishes \ crossed : carted[i] > 0 =>
          /\ carted[i] = 1
          /\ saved[i] = "saved" => \E c \in Calls : call[c].of = i /\ At(c, "move", "added")

WishInv == WishTypeOK /\ LoneCalls /\ UnitsMoved

\* A call that gets on is still one.
LEMMA CallGoesOn ==
    ASSUME CallsOK, NEW c \in Calls, call[c].at # "none", NEW a \in WishStages,
           call' = [call EXCEPT ![c].at = a]
    PROVE  CallsOK'
<1>1. call[c] \in WishCall /\ call[c].of # NoItem
  BY DEF CallsOK, NoWish
<1>2. [call[c] EXCEPT !.at = a] \in WishCall
  BY <1>1 DEF WishCall
<1>3. call' \in [Calls -> WishCall]
  BY <1>2 DEF CallsOK
<1>4. \A d \in Calls : call'[d].of = call[d].of /\ call'[d].kind = call[d].kind
                       /\ (d # c => call'[d] = call[d])
  BY DEF CallsOK, WishCall
<1> QED
  BY <1>1, <1>3, <1>4 DEF CallsOK

LEMMA WishTypeStep ==
    ASSUME WishTypeOK, [WishlistNext]_wishlistVars
    PROVE  WishTypeOK'
<1>. USE WishlistAssumption DEF WishTypeOK, Many, At
<1>1. ASSUME List PROVE WishTypeOK'
  BY <1>1 DEF List, CallsOK
<1>2. ASSUME NEW i \in Wishes, Save(i) PROVE WishTypeOK'
  BY <1>2 DEF Save, CallsOK
<1>3. ASSUME NEW k \in WishKinds, NEW i \in Wishes, NEW c \in Calls, Click(k, i, c)
      PROVE  WishTypeOK'
  <2> DEFINE w == [kind |-> k, of |-> i, at |-> "sent", here |-> TRUE]
  <2>1. w \in WishCall /\ w.of # NoItem /\ w.kind \in WishKinds
    BY DEF WishCall, WishKinds, WishStages
  <2>2. call' = [call EXCEPT ![c] = w]
    BY <1>3 DEF Click
  <2> HIDE DEF w
  <2>3. CallsOK'
    BY <2>1, <2>2 DEF CallsOK
  <2>4. InFlight \subseteq Wishes
    BY DEF InFlight, CallsOK, WishCall
  <2> QED
    BY <1>3, <2>3, <2>4 DEF Click, CanClick, WishKinds
<1>4. ASSUME NEW c \in Calls, MoveToCartAdd(c) PROVE WishTypeOK'
  <2>1. call[c].of \in Wishes
    BY <1>4 DEF MoveToCartAdd, CallsOK, WishCall, NoWish
  <2>2. carted' \in [Wishes -> 0..Many]
    BY <1>4, <2>1 DEF MoveToCartAdd
  <2>3. CallsOK'
    BY <1>4, CallGoesOn DEF MoveToCartAdd, WishStages
  <2> QED
    BY <1>4, <2>2, <2>3 DEF MoveToCartAdd
<1>5. ASSUME NEW c \in Calls, MoveToCartRefused(c) PROVE WishTypeOK'
  BY <1>5, CallGoesOn DEF MoveToCartRefused, WishStages
<1>6. ASSUME NEW c \in Calls, MoveToCartRemove(c) PROVE WishTypeOK'
  BY <1>6, CallGoesOn DEF MoveToCartRemove, WishStages
<1>7. ASSUME NEW c \in Calls, RemoveItem(c) PROVE WishTypeOK'
  BY <1>7, CallGoesOn DEF RemoveItem, WishStages
<1>8. ASSUME NEW c \in Calls, WishAnswered(c) PROVE WishTypeOK'
  BY <1>8 DEF WishAnswered, CallsOK, WishCall, WishKinds, WishStages, NoWish
<1>9. ASSUME NEW c \in Calls, WishLost(c) PROVE WishTypeOK'
  BY <1>9 DEF WishLost, CallsOK, WishCall, WishKinds, WishStages, NoWish
<1>10. ASSUME NEW c \in Calls, MoveToCartFind(c) PROVE WishTypeOK'
  BY <1>10, CallGoesOn DEF MoveToCartFind, WishStages
<1>11. ASSUME ReenterWishlist PROVE WishTypeOK'
  <2>1. ASSUME NEW c \in Calls
        PROVE  /\ call'[c] \in WishCall
               /\ call[c].of = NoItem => call'[c] = NoWish
               /\ call'[c].of = call[c].of /\ call'[c].kind = call[c].kind
    <3>1. call'[c] = [call[c] EXCEPT !.here = FALSE] /\ call[c] \in WishCall
      BY <1>11 DEF ReenterWishlist, CallsOK
    <3>2. [call[c] EXCEPT !.here = FALSE] \in WishCall
          /\ [call[c] EXCEPT !.here = FALSE].of = call[c].of
          /\ [call[c] EXCEPT !.here = FALSE].kind = call[c].kind
      BY <3>1 DEF WishCall
    <3>3. ASSUME call[c] = NoWish PROVE [call[c] EXCEPT !.here = FALSE] = NoWish
      <4>1. ASSUME NEW v \in WishCall, NEW u \in WishCall, v.kind = u.kind, v.of = u.of,
                   v.at = u.at, v.here = u.here
            PROVE  v = u
        BY <4>1 DEF WishCall
      <4>2. LET v == [call[c] EXCEPT !.here = FALSE]
            IN  v.kind = "none" /\ v.of = NoItem /\ v.at = "none" /\ v.here = FALSE
        BY <3>1, <3>3 DEF NoWish, WishCall
      <4>3. NoWish.kind = "none" /\ NoWish.of = NoItem /\ NoWish.at = "none"
            /\ NoWish.here = FALSE
        BY DEF NoWish
      <4> QED
        BY <3>1, <3>2, <3>3, <4>1, <4>2, <4>3
    <3> QED
      BY <3>1, <3>2, <3>3 DEF CallsOK
  <2>2. call' \in [Calls -> WishCall]
    BY <1>11, <2>1 DEF ReenterWishlist
  <2>3. CallsOK'
    BY <2>1, <2>2 DEF CallsOK
  <2> QED
    BY <1>11, <2>3 DEF ReenterWishlist, WishKinds
<1>12. ASSUME UNCHANGED wishlistVars PROVE WishTypeOK'
  BY <1>12 DEF wishlistVars, CallsOK
<1> QED
  BY <1>1, <1>2, <1>3, <1>4, <1>5, <1>6, <1>7, <1>8, <1>9, <1>10, <1>11, <1>12
     DEF WishlistNext, WishKinds

LEMMA LoneCallsStep ==
    ASSUME WishTypeOK, LoneCalls, [WishlistNext]_wishlistVars
    PROVE  LoneCalls'
<1>. USE WishlistAssumption DEF WishTypeOK, CallsOK, WishCall, WishKinds, WishStages, NoWish, Many, At, LoneCalls
<1>1. ASSUME List PROVE LoneCalls'
  BY <1>1 DEF List
<1>2. ASSUME NEW i \in Wishes, Save(i) PROVE LoneCalls'
  BY <1>2 DEF Save
<1>3. ASSUME NEW k \in WishKinds, NEW i \in Wishes, NEW c \in Calls, Click(k, i, c)
      PROVE  LoneCalls'
  BY <1>3 DEF Click, CanClick, Pending, InFlight, OthersCalled
<1>4. ASSUME NEW c \in Calls, MoveToCartAdd(c) PROVE LoneCalls'
  BY <1>4 DEF MoveToCartAdd, Many
<1>5. ASSUME NEW c \in Calls, MoveToCartRefused(c) PROVE LoneCalls'
  BY <1>5 DEF MoveToCartRefused
<1>6. ASSUME NEW c \in Calls, MoveToCartRemove(c) PROVE LoneCalls'
  BY <1>6 DEF MoveToCartRemove
<1>7. ASSUME NEW c \in Calls, RemoveItem(c) PROVE LoneCalls'
  BY <1>7 DEF RemoveItem
<1>8. ASSUME NEW c \in Calls, WishAnswered(c) PROVE LoneCalls'
  BY <1>8 DEF WishAnswered
<1>9. ASSUME NEW c \in Calls, WishLost(c) PROVE LoneCalls'
  BY <1>9 DEF WishLost
<1>10. ASSUME NEW c \in Calls, MoveToCartFind(c) PROVE LoneCalls'
  BY <1>10 DEF MoveToCartFind
<1>11. ASSUME ReenterWishlist PROVE LoneCalls'
  BY <1>11 DEF ReenterWishlist
<1>12. ASSUME UNCHANGED wishlistVars PROVE LoneCalls'
  BY <1>12 DEF wishlistVars
<1> QED
  BY <1>1, <1>2, <1>3, <1>4, <1>5, <1>6, <1>7, <1>8, <1>9, <1>10, <1>11, <1>12
     DEF WishlistNext, WishKinds

LEMMA UnitsMovedStep ==
    ASSUME WishTypeOK, LoneCalls, UnitsMoved, [WishlistNext]_wishlistVars
    PROVE  UnitsMoved'
<1>. USE WishlistAssumption DEF WishTypeOK, CallsOK, WishCall, WishKinds, WishStages, NoWish, Many, At, LoneCalls,
       UnitsMoved
<1>1. ASSUME List PROVE UnitsMoved'
  BY <1>1 DEF List
<1>2. ASSUME NEW i \in Wishes, Save(i) PROVE UnitsMoved'
  BY <1>2 DEF Save
<1>3. ASSUME NEW k \in WishKinds, NEW i \in Wishes, NEW c \in Calls, Click(k, i, c)
      PROVE  UnitsMoved'
  BY <1>3 DEF Click, CanClick, Pending, InFlight, OthersCalled
<1>4. ASSUME NEW c \in Calls, MoveToCartAdd(c) PROVE UnitsMoved'
  BY <1>4 DEF MoveToCartAdd, Many
<1>5. ASSUME NEW c \in Calls, MoveToCartRefused(c) PROVE UnitsMoved'
  BY <1>5 DEF MoveToCartRefused
<1>6. ASSUME NEW c \in Calls, MoveToCartRemove(c) PROVE UnitsMoved'
  BY <1>6 DEF MoveToCartRemove
<1>7. ASSUME NEW c \in Calls, RemoveItem(c) PROVE UnitsMoved'
  BY <1>7 DEF RemoveItem
<1>8. ASSUME NEW c \in Calls, WishAnswered(c) PROVE UnitsMoved'
  BY <1>8 DEF WishAnswered
<1>9. ASSUME NEW c \in Calls, WishLost(c) PROVE UnitsMoved'
  BY <1>9 DEF WishLost
<1>10. ASSUME NEW c \in Calls, MoveToCartFind(c) PROVE UnitsMoved'
  BY <1>10 DEF MoveToCartFind
<1>11. ASSUME ReenterWishlist PROVE UnitsMoved'
  BY <1>11 DEF ReenterWishlist
<1>12. ASSUME UNCHANGED wishlistVars PROVE UnitsMoved'
  BY <1>12 DEF wishlistVars
<1> QED
  BY <1>1, <1>2, <1>3, <1>4, <1>5, <1>6, <1>7, <1>8, <1>9, <1>10, <1>11, <1>12
     DEF WishlistNext, WishKinds

\* An item that was moved is in the cart, and a customer who deals with one row at a
\* time, and not with one of which a call is under way from before the page was left, puts
\* no unit there twice, for any number of rows and calls in flight
\* (moveToCart, the buttons of AccountWishlist).
THEOREM WishesAreMovedOnce == WishlistSpec => []MovedOnce
<1>1. WishlistInit => WishInv
  BY WishlistAssumption
     DEF WishlistInit, WishInv, WishTypeOK, CallsOK, WishCall, WishStages, LoneCalls, UnitsMoved,
         WishKinds, NoWish, Many, At
<1>2. WishInv /\ [WishlistNext]_wishlistVars => WishInv'
  BY WishTypeStep, LoneCallsStep, UnitsMovedStep DEF WishInv
<1>3. WishInv => MovedOnce
  BY DEF WishInv, WishTypeOK, UnitsMoved, MovedOnce, Many
<1> QED
  BY <1>1, <1>2, <1>3, PTL DEF WishlistSpec

-----------------------------------------------------------------------------
(* The console                                                             *)

\* How far an order has come: no step takes it back but the two stale writes.
Progress ==
    [PENDING |-> 0, CONFIRMED |-> 1, PROCESSING |-> 2, PACKED |-> 3, SHIPPED |-> 4,
     OUT_FOR_DELIVERY |-> 5, DELIVERED |-> 6, CANCELLED |-> 7, RETURN_REQUESTED |-> 7,
     RETURNED |-> 8, PARTIALLY_REFUNDED |-> 9, REFUNDED |-> 10]

LEMMA TransitionsProgress ==
    /\ \A s \in OrderStatus : Progress[s] \in Nat
    /\ \A s \in OrderStatus : \A t \in ORDER_TRANSITIONS[s] :
          t \in OrderStatus /\ Progress[s] < Progress[t]
    /\ \A s \in OrderStatus \ {"PARTIALLY_REFUNDED", "REFUNDED"} :
          \A t \in {"PARTIALLY_REFUNDED", "REFUNDED"} : Progress[s] < Progress[t]
BY DEF OrderStatus, ORDER_TRANSITIONS, Progress

\* What the page has loaded, what is on its way to it and what a click without a choice
\* sends are behind the order, unless they are older than a stale write.
NothingAhead == kind = "order" =>
    /\ status \in OrderStatus
    /\ shown \in OrderStatus \cup {Unset}
    /\ shown # Unset /\ "shown" \notin old => Progress[shown] <= Progress[status]
    /\ load \in OrderStatus \cup {"none", "asked"}
    /\ load \notin {"none", "asked"} /\ "load" \notin old => Progress[load] <= Progress[status]
    /\ post.at # "idle" /\ ~post.chosen => post.to \in OrderStatus
    /\ post.at # "idle" /\ ~post.chosen /\ "post" \notin old =>
          Progress[post.to] <= Progress[status]

One(b) == IF b THEN 1 ELSE 0

\* A note in the form is one that is not adjusted yet, or whose answer is under way.
NotesAddUp ==
    /\ typed \in Nat /\ adjusted \in Nat /\ unsure \in Nat /\ note \in BOOLEAN
    /\ kind \in Counting /\ post # NoPost => note
    /\ kind \in Counting => adjusted + One(note) <= typed + unsure + One(post.at = "done")
    /\ kind \notin Counting => adjusted = 0

PostTypeOK == /\ post = NoPost \/ post.at \in {"sent", "done"}
              /\ post.chosen \in BOOLEAN

ConsoleInv == PostTypeOK /\ NothingAhead /\ NotesAddUp

LEMMA PostTypeStep ==
    ASSUME PostTypeOK, [ConsoleNext]_consoleVars
    PROVE  PostTypeOK'
<1>. USE ConsoleAssumption DEF Counting, stockVars, PostTypeOK, NoPost
<1>1. ASSUME NEW s \in StatusOf(kind), Elsewhere(s) PROVE PostTypeOK'
  BY <1>1 DEF Elsewhere
<1>2. ASSUME NEW s \in StatusOf(kind), ChooseStatus(s) PROVE PostTypeOK'
  BY <1>2 DEF ChooseStatus
<1>3. ASSUME Load PROVE PostTypeOK'
  BY <1>3 DEF Load
<1>4. ASSUME ReadRecord PROVE PostTypeOK'
  BY <1>4 DEF ReadRecord
<1>5. ASSUME ShowRecord PROVE PostTypeOK'
  BY <1>5 DEF ShowRecord, Aged
<1>6. ASSUME ClickUpdate PROVE PostTypeOK'
  BY <1>6 DEF ClickUpdate, Aged
<1>7. ASSUME WriteStatus PROVE PostTypeOK'
  BY <1>7 DEF WriteStatus
<1>8. ASSUME UpdateFails PROVE PostTypeOK'
  BY <1>8 DEF UpdateFails
<1>9. ASSUME UpdateAnswered PROVE PostTypeOK'
  BY <1>9 DEF UpdateAnswered
<1>10. ASSUME TypeAdjustment PROVE PostTypeOK'
  BY <1>10 DEF TypeAdjustment
<1>11. ASSUME ClickAdjust PROVE PostTypeOK'
  BY <1>11 DEF ClickAdjust
<1>12. ASSUME WriteAdjustment PROVE PostTypeOK'
  BY <1>12 DEF WriteAdjustment
<1>13. ASSUME AdjustFails PROVE PostTypeOK'
  BY <1>13 DEF AdjustFails
<1>14. ASSUME AdjustAnswered PROVE PostTypeOK'
  BY <1>14 DEF AdjustAnswered
<1>15. ASSUME NEW s \in StatusOf(kind), StaleWrite(s) PROVE PostTypeOK'
  BY <1>15 DEF StaleWrite
<1>16. ASSUME UNCHANGED consoleVars PROVE PostTypeOK'
  BY <1>16 DEF consoleVars
<1>17. ASSUME ReenterPage PROVE PostTypeOK'
  BY <1>17 DEF ReenterPage
<1> QED
  BY <1>1, <1>2, <1>3, <1>4, <1>5, <1>6, <1>7, <1>8, <1>9, <1>10, <1>11, <1>12, <1>13, <1>14, <1>15,
     <1>16, <1>17
     DEF ConsoleNext

LEMMA NothingAheadStep ==
    ASSUME PostTypeOK, NothingAhead, [ConsoleNext]_consoleVars
    PROVE  NothingAhead'
<1>. USE ConsoleAssumption, TransitionsProgress
   DEF Counting, stockVars, PostTypeOK, NothingAhead, NoPost
<1>1. ASSUME NEW s \in StatusOf(kind), Elsewhere(s) PROVE NothingAhead'
  BY <1>1 DEF Elsewhere, Permits, StatusOf
<1>2. ASSUME NEW s \in StatusOf(kind), ChooseStatus(s) PROVE NothingAhead'
  BY <1>2 DEF ChooseStatus
<1>3. ASSUME Load PROVE NothingAhead'
  BY <1>3 DEF Load
<1>4. ASSUME ReadRecord PROVE NothingAhead'
  BY <1>4 DEF ReadRecord
<1>5. ASSUME ShowRecord PROVE NothingAhead'
  BY <1>5 DEF ShowRecord, Aged
<1>6. ASSUME ClickUpdate PROVE NothingAhead'
  BY <1>6 DEF ClickUpdate, Aged
<1>7. ASSUME WriteStatus PROVE NothingAhead'
  BY <1>7 DEF WriteStatus, Permits
<1>8. ASSUME UpdateFails PROVE NothingAhead'
  BY <1>8 DEF UpdateFails
<1>9. ASSUME UpdateAnswered PROVE NothingAhead'
  BY <1>9 DEF UpdateAnswered
<1>10. ASSUME TypeAdjustment PROVE NothingAhead'
  BY <1>10 DEF TypeAdjustment
<1>11. ASSUME ClickAdjust PROVE NothingAhead'
  BY <1>11 DEF ClickAdjust
<1>12. ASSUME WriteAdjustment PROVE NothingAhead'
  BY <1>12 DEF WriteAdjustment
<1>13. ASSUME AdjustFails PROVE NothingAhead'
  BY <1>13 DEF AdjustFails
<1>14. ASSUME AdjustAnswered PROVE NothingAhead'
  BY <1>14 DEF AdjustAnswered
<1>15. ASSUME NEW s \in StatusOf(kind), StaleWrite(s) PROVE NothingAhead'
  BY <1>15 DEF StaleWrite, StatusOf
<1>16. ASSUME UNCHANGED consoleVars PROVE NothingAhead'
  BY <1>16 DEF consoleVars
<1>17. ASSUME ReenterPage PROVE NothingAhead'
  BY <1>17 DEF ReenterPage
<1> QED
  BY <1>1, <1>2, <1>3, <1>4, <1>5, <1>6, <1>7, <1>8, <1>9, <1>10, <1>11, <1>12, <1>13, <1>14, <1>15,
     <1>16, <1>17
     DEF ConsoleNext

LEMMA NotesAddUpStep ==
    ASSUME PostTypeOK, NotesAddUp, [ConsoleNext]_consoleVars
    PROVE  NotesAddUp'
<1>. USE ConsoleAssumption DEF Counting, stockVars, PostTypeOK, NotesAddUp, One, NoPost
<1>1. ASSUME NEW s \in StatusOf(kind), Elsewhere(s) PROVE NotesAddUp'
  BY <1>1 DEF Elsewhere
<1>2. ASSUME NEW s \in StatusOf(kind), ChooseStatus(s) PROVE NotesAddUp'
  BY <1>2 DEF ChooseStatus
<1>3. ASSUME Load PROVE NotesAddUp'
  BY <1>3 DEF Load
<1>4. ASSUME ReadRecord PROVE NotesAddUp'
  BY <1>4 DEF ReadRecord
<1>5. ASSUME ShowRecord PROVE NotesAddUp'
  BY <1>5 DEF ShowRecord, Aged
<1>6. ASSUME ClickUpdate PROVE NotesAddUp'
  BY <1>6 DEF ClickUpdate, Aged
<1>7. ASSUME WriteStatus PROVE NotesAddUp'
  BY <1>7 DEF WriteStatus
<1>8. ASSUME UpdateFails PROVE NotesAddUp'
  BY <1>8 DEF UpdateFails
<1>9. ASSUME UpdateAnswered PROVE NotesAddUp'
  BY <1>9 DEF UpdateAnswered
<1>10. ASSUME TypeAdjustment PROVE NotesAddUp'
  BY <1>10 DEF TypeAdjustment
<1>11. ASSUME ClickAdjust PROVE NotesAddUp'
  BY <1>11 DEF ClickAdjust
<1>12. ASSUME WriteAdjustment PROVE NotesAddUp'
  BY <1>12 DEF WriteAdjustment
<1>13. ASSUME AdjustFails PROVE NotesAddUp'
  BY <1>13 DEF AdjustFails
<1>14. ASSUME AdjustAnswered PROVE NotesAddUp'
  <2>1. /\ kind \in Counting /\ kind' = kind /\ post.at = "done" /\ post' = NoPost
        /\ note' = FALSE /\ adjusted' = adjusted /\ typed' = typed /\ unsure' = unsure
    BY <1>14 DEF AdjustAnswered
  <2>2. note
    BY <2>1
  <2>3. One(note) = 1 /\ One(post.at = "done") = 1
    BY <2>1, <2>2
  <2>4. One(note') = 0 /\ One((post.at = "done")') = 0
    BY <2>1
  <2>5. note' \in BOOLEAN
    BY <2>1
  <2>6. adjusted <= typed + unsure
    BY <2>1, <2>3
  <2> QED
    BY <2>1, <2>4, <2>5, <2>6
<1>15. ASSUME NEW s \in StatusOf(kind), StaleWrite(s) PROVE NotesAddUp'
  BY <1>15 DEF StaleWrite
<1>16. ASSUME UNCHANGED consoleVars PROVE NotesAddUp'
  BY <1>16 DEF consoleVars
<1>17. ASSUME ReenterPage PROVE NotesAddUp'
  <2>1. /\ kind' = kind /\ post' = NoPost /\ note' = FALSE /\ typed' = typed
        /\ unsure' = unsure /\ adjusted' \in Nat
    BY <1>17 DEF ReenterPage
  <2>5. adjusted' = adjusted \/ (kind \in Counting /\ post.at = "sent" /\ adjusted' = adjusted + 1)
    BY <1>17 DEF ReenterPage
  <2>2. One(note') = 0 /\ One((post.at = "done")') = 0 /\ note' \in BOOLEAN
    BY <2>1
  <2>3. CASE kind \notin Counting
    BY <2>1, <2>2, <2>3, <2>5
  <2>4. CASE kind \in Counting
    <3>1. CASE adjusted' = adjusted
      <4>1. /\ One(post.at = "done") <= One(note)
            /\ One(note) \in {0, 1} /\ One(post.at = "done") \in {0, 1}
        BY <2>4
      <4>2. adjusted <= typed + unsure
        BY <2>4, <4>1
      <4> QED
        BY <2>1, <2>2, <2>4, <3>1, <4>2
    <3>2. CASE post.at = "sent" /\ adjusted' = adjusted + 1
      <4>1. One(note) = 1 /\ One(post.at = "done") = 0
        BY <2>4, <3>2
      <4>2. adjusted + 1 <= typed + unsure
        BY <2>4, <4>1
      <4> QED
        BY <2>1, <2>2, <2>4, <3>2, <4>2
    <3> QED
      BY <2>5, <3>1, <3>2
  <2> QED
    BY <2>3, <2>4
<1> QED
  BY <1>1, <1>2, <1>3, <1>4, <1>5, <1>6, <1>7, <1>8, <1>9, <1>10, <1>11, <1>12, <1>13, <1>14, <1>15,
     <1>16, <1>17
     DEF ConsoleNext

\* A click without a choice undoes nothing that has happened to an order since it was
\* loaded, unless a stale capture or refund has taken the order back in between, and stock
\* is adjusted once for what was typed once unless an answer is lost, for any interleaving
\* of administrators, customers and refetches (changeStatus, AdminInventoryDetail).
THEOREM ConsoleClicksAreMeant == ConsoleSpec => ClicksAreMeant
<1>1. ConsoleInit => ConsoleInv
  <2> SUFFICES ASSUME ConsoleInit PROVE ConsoleInv
    OBVIOUS
  <2>1. PostTypeOK
    BY DEF ConsoleInit, PostTypeOK, NoPost
  <2>2. NothingAhead
    BY DEF ConsoleInit, NothingAhead, NoPost, StatusOf
  <2>3. NotesAddUp
    <3>1. note = FALSE /\ typed = 0 /\ adjusted = 0 /\ unsure = 0 /\ post = NoPost
      BY DEF ConsoleInit
    <3>2. One(note) = 0 /\ One(post.at = "done") = 0
      BY <3>1 DEF One, NoPost
    <3>3. note \in BOOLEAN
      BY <3>1
    <3> QED
      BY <3>1, <3>2, <3>3 DEF NotesAddUp
  <2> QED
    BY <2>1, <2>2, <2>3 DEF ConsoleInv
<1>2. ConsoleInv /\ [ConsoleNext]_consoleVars => ConsoleInv'
  BY PostTypeStep, NothingAheadStep, NotesAddUpStep DEF ConsoleInv
<1>3. ConsoleInv /\ [ConsoleNext]_consoleVars =>
        [kind = "order" /\ WriteStatus /\ ~post.chosen /\ "post" \notin old => UNCHANGED status]_consoleVars
  <2> SUFFICES ASSUME ConsoleInv, kind = "order", WriteStatus, ~post.chosen, "post" \notin old PROVE FALSE
    OBVIOUS
  <2>1. post.to \in ORDER_TRANSITIONS[status] /\ post.at = "sent"
    BY DEF WriteStatus, Permits
  <2> QED
    BY <2>1, TransitionsProgress DEF ConsoleInv, NothingAhead
<1>4. ConsoleInv => AdjustedOncePerNote
  <2> SUFFICES ASSUME ConsoleInv PROVE adjusted <= typed + unsure
    BY DEF AdjustedOncePerNote
  <2>1. CASE kind \notin Counting
    BY <2>1 DEF ConsoleInv, NotesAddUp
  <2>2. CASE kind \in Counting
    <3>1. post.at = "done" => note
      BY <2>2 DEF ConsoleInv, NotesAddUp, NoPost
    <3>2. /\ One(post.at = "done") <= One(note)
          /\ One(note) \in {0, 1} /\ One(post.at = "done") \in {0, 1}
      BY <3>1 DEF One
    <3> QED
      BY <2>2, <3>2 DEF ConsoleInv, NotesAddUp
  <2> QED
    BY <2>1, <2>2
<1> QED
  BY <1>1, <1>2, <1>3, <1>4, PTL DEF ConsoleSpec, ClicksAreMeant, UnchosenIsHarmless

-----------------------------------------------------------------------------
(* The cart's page                                                         *)

CartLines == [Variants -> 0..MaxUnits]
CartPage  == [lines : CartLines, dead : SUBSET Variants]
Mutation  == [at : Stages, of : SUBSET Variants, to : 0..MaxUnits, clean : BOOLEAN, dead : BOOLEAN]
Request   == [at : {"none", "asked", "read"}, lines : CartLines, dead : SUBSET Variants,
              clean : BOOLEAN, for : SUBSET {"update", "removal"}]

BagTypeOK ==
    /\ served \in CartLines /\ page \in CartPage
    /\ update \in Mutation /\ removal \in Mutation
    /\ fetch \in Request /\ clean \in BOOLEAN

LEMMA MutationRows ==
    /\ Rest \in Mutation
    /\ \A m \in Mutation : \A gone : Killed(m, gone) \in Mutation
    /\ \A m \in Mutation : [m EXCEPT !.clean = FALSE] \in Mutation
    /\ \A m \in Mutation, at \in Stages : [m EXCEPT !.at = at] \in Mutation
<1>1. Rest \in Mutation
  BY BagAssumption DEF Mutation, Stages, Rest
<1>2. ASSUME NEW m \in Mutation PROVE [m EXCEPT !.clean = FALSE] \in Mutation
  BY DEF Mutation
<1>3. ASSUME NEW m \in Mutation PROVE [m EXCEPT !.dead = TRUE] \in Mutation
  BY DEF Mutation
<1>4. ASSUME NEW m \in Mutation, NEW at \in Stages PROVE [m EXCEPT !.at = at] \in Mutation
  BY DEF Mutation
<1>5. ASSUME NEW m \in Mutation, NEW gone PROVE Killed(m, gone) \in Mutation
  BY <1>3 DEF Killed
<1> QED
  BY <1>1, <1>2, <1>4, <1>5

LEMMA MembershipIsBoolean == ASSUME NEW x, NEW S PROVE (x \in S) \in BOOLEAN
OBVIOUS

\* A click sends one line.
LEMMA ClickRow ==
    ASSUME NEW v \in Variants, NEW q \in 0..MaxUnits, NEW sure \in BOOLEAN, NEW dead \in BOOLEAN
    PROVE  [at |-> "sent", of |-> {v}, to |-> q, clean |-> sure, dead |-> dead] \in Mutation
BY DEF Mutation, Stages

LEMMA RemovalRow ==
    ASSUME NEW v \in Variants, NEW dead \in BOOLEAN
    PROVE  [Rest EXCEPT !.at = "sent", !.of = {v}, !.dead = dead] \in Mutation
<1>1. Rest \in Mutation
  BY MutationRows
<1>2. [Rest EXCEPT !.at = "sent"] \in Mutation
  BY <1>1, MutationRows DEF Stages
<1> QED
  BY <1>2 DEF Mutation

LEMMA LineChange ==
    ASSUME NEW lines \in CartLines, NEW v \in Variants, NEW q \in 0..MaxUnits
    PROVE  [lines EXCEPT ![v] = q] \in CartLines /\ lines[v] \in 0..MaxUnits
BY DEF CartLines

LEMMA RequestRows ==
    /\ NoFetch \in Request
    /\ [NoFetch EXCEPT !.at = "asked"] \in Request
    /\ Invalidated("update") \in Request /\ Invalidated("removal") \in Request
<1>1. Blank \in CartLines
  BY BagAssumption DEF Blank, CartLines
<1> QED
  BY <1>1 DEF NoFetch, Request, Invalidated

LEMMA RequestChanges ==
    ASSUME NEW f \in Request, NEW gone \in SUBSET Variants, NEW lines \in CartLines
    PROVE  /\ [f EXCEPT !.clean = FALSE] \in Request
           /\ [f EXCEPT !.dead = f.dead \cup gone] \in Request
           /\ [f EXCEPT !.dead = f.dead \cup gone, !.clean = FALSE] \in Request
           /\ [f EXCEPT !.at = "read", !.lines = lines, !.dead = {}, !.clean = TRUE] \in Request
           /\ [f EXCEPT !.at = "read", !.lines = lines, !.dead = Variants, !.clean = FALSE]
                 \in Request
BY DEF Request

LEMMA PageChanges ==
    ASSUME NEW p \in CartPage, NEW gone \in SUBSET Variants, NEW lines \in CartLines
    PROVE  /\ [p EXCEPT !.dead = p.dead \cup gone] \in CartPage
           /\ [lines |-> lines, dead |-> gone] \in CartPage
BY DEF CartPage

LEMMA RowFields ==
    /\ \A f \in Request : f.lines \in CartLines /\ f.dead \in SUBSET Variants /\ f.clean \in BOOLEAN
    /\ Blank \in CartLines
BY BagAssumption DEF Request, Blank, CartLines

\* A stepper waits for the refetch of its own answer.
UpdateWaits == /\ "update" \in fetch.for <=> update.at = "settling"
               /\ fetch.at = "none" => fetch.for = {}

\* What a clean page shows, and what a clean request has read, is in the cart, once
\* the answer of a stepper has been followed by a fetch.
PageIsServed ==
    clean /\ update.at \in {"idle", "sent"} =>
        \A v \in Variants \ page.dead : page.lines[v] = served[v]

ReadIsServed ==
    fetch.at = "read" /\ fetch.clean /\ update.at # "done"
        => \A v \in Variants \ fetch.dead : fetch.lines[v] = served[v]

\* A stepper of a clean page is one away from what it will change.
StepIsOneAway ==
    update.at = "sent" /\ update.clean /\ ~update.dead
        => \A v \in update.of : update.to - served[v] \in {1, -1}

BagInv == BagTypeOK /\ UpdateWaits /\ PageIsServed /\ ReadIsServed /\ StepIsOneAway

LEMMA DisturbType ==
    ASSUME BagTypeOK, NEW rows \in CartLines, NEW gone \in SUBSET Variants, Disturb(rows, gone)
    PROVE  BagTypeOK'
<1>1. Killed(update, gone) \in Mutation /\ Killed(removal, gone) \in Mutation
  BY MutationRows DEF BagTypeOK
<1>2. [Killed(update, gone) EXCEPT !.clean = FALSE] \in Mutation
  BY <1>1, MutationRows
<1> QED
  BY <1>1, <1>2, RequestChanges, PageChanges, RowFields DEF BagTypeOK, Disturb

LEMMA BagTypeStep ==
    ASSUME BagTypeOK, [BagNext]_bagVars
    PROVE  BagTypeOK'
<1>. USE BagAssumption DEF BagTypeOK
<1>1. ASSUME Refocus PROVE BagTypeOK'
  BY <1>1, MutationRows, RequestRows, RequestChanges, PageChanges, RowFields
     DEF Stages, Refocus
<1>2. ASSUME LoadServed PROVE BagTypeOK'
  BY <1>2, MutationRows, RequestRows, RequestChanges, PageChanges, RowFields
     DEF Stages, LoadServed
<1>3. ASSUME LoadAnswered PROVE BagTypeOK'
  BY <1>3, MutationRows, RequestRows, RequestChanges, PageChanges, RowFields
     DEF Stages, LoadAnswered, Show, Settled
<1>4. ASSUME LoadFails PROVE BagTypeOK'
  BY <1>4, MutationRows, RequestRows, RequestChanges, PageChanges, RowFields
     DEF Stages, LoadFails, Show, Settled
<1>5. ASSUME StepRefused PROVE BagTypeOK'
  BY <1>5, MutationRows, RequestRows, RequestChanges, PageChanges, RowFields
     DEF Stages, StepRefused
<1>6. ASSUME StepAnswered PROVE BagTypeOK'
  BY <1>6, MutationRows, RequestRows, RequestChanges, PageChanges, RowFields
     DEF Stages, StepAnswered, Settled, Cancelled
<1>7. ASSUME StepLost PROVE BagTypeOK'
  BY <1>7, MutationRows, RequestRows, RequestChanges, PageChanges, RowFields
     DEF Stages, StepLost
<1>8. ASSUME RemoveRefused PROVE BagTypeOK'
  BY <1>8, MutationRows, RequestRows, RequestChanges, PageChanges, RowFields
     DEF Stages, RemoveRefused
<1>9. ASSUME RemoveAnswered PROVE BagTypeOK'
  BY <1>9, MutationRows, RequestRows, RequestChanges, PageChanges, RowFields
     DEF Stages, RemoveAnswered, Settled, Cancelled
<1>10. ASSUME RemoveLost PROVE BagTypeOK'
  BY <1>10, MutationRows, RequestRows, RequestChanges, PageChanges, RowFields
     DEF Stages, RemoveLost
<1>11. ASSUME NEW v \in Variants, AddToCart(v) PROVE BagTypeOK'
  <2>1. [served EXCEPT ![v] = served[v] + 1] \in CartLines
    <3>1. served[v] \in 0..MaxUnits
      BY DEF CartLines
    <3>2. served[v] + 1 \in 0..MaxUnits
      BY <1>11, <3>1 DEF AddToCart
    <3> QED
      BY <3>2, LineChange
  <2>2. Disturb([served EXCEPT ![v] = served[v] + 1], {})
    BY <1>11 DEF AddToCart
  <2> QED
    BY <2>1, <2>2, DisturbType
<1>12. ASSUME NEW v \in Variants, StepWrite(v) PROVE BagTypeOK'
  <2>1. update.to \in 0..MaxUnits
    BY DEF Mutation
  <2>2. [served EXCEPT ![v] = update.to] \in CartLines
    BY <2>1 DEF CartLines
  <2> QED
    BY <1>12, <2>2, MutationRows DEF StepWrite, Stages
<1>13. ASSUME NEW v \in Variants, ClickRemove(v) PROVE BagTypeOK'
  <2>1. [Rest EXCEPT !.at = "sent", !.of = {v}, !.dead = v \in page.dead] \in Mutation
    <3>1. (v \in page.dead) \in BOOLEAN
      BY MembershipIsBoolean
    <3> QED
      BY <3>1, RemovalRow
  <2> QED
    BY <1>13, <2>1 DEF ClickRemove
<1>14. ASSUME NEW v \in Variants, RemoveWrite(v) PROVE BagTypeOK'
  <2>1. [served EXCEPT ![v] = 0] \in CartLines
    BY LineChange
  <2> QED
    BY <1>14, <2>1, MutationRows, RequestChanges, PageChanges
       DEF RemoveWrite, Stages
<1>15. ASSUME NEW v \in Variants, NEW q \in 0..MaxUnits, OtherTab(v, q) PROVE BagTypeOK'
  <2>1. [served EXCEPT ![v] = q] \in CartLines
    BY LineChange
  <2>2. (IF q = 0 THEN {v} ELSE {}) \in SUBSET Variants
    OBVIOUS
  <2> QED
    BY <1>15, <2>1, <2>2, DisturbType DEF OtherTab
<1>16. ASSUME NEW v \in Variants, NEW d \in {1, -1}, ClickStep(v, d) PROVE BagTypeOK'
  <2>1. page.lines[v] + d \in 0..MaxUnits
    <3>1. page.lines[v] + d \in 1..MaxUnits
      BY <1>16 DEF ClickStep
    <3> QED
      BY <3>1
  <2>2. (v \in page.dead) \in BOOLEAN
    BY MembershipIsBoolean
  <2>3. [at |-> "sent", of |-> {v}, to |-> page.lines[v] + d, clean |-> clean,
         dead |-> v \in page.dead] \in Mutation
    BY <2>1, <2>2, ClickRow
  <2> QED
    BY <1>16, <2>3 DEF ClickStep
<1>17. ASSUME NEW rows \in [Variants -> 0..MaxUnits], SwitchCart(rows) PROVE BagTypeOK'
  BY <1>17, DisturbType DEF SwitchCart, CartLines
<1>18. ASSUME NEW rows \in [Variants -> 0..MaxUnits], LoadFallback(rows) PROVE BagTypeOK'
  BY <1>18, MutationRows, RequestRows, RequestChanges, PageChanges, RowFields
     DEF Stages, LoadFallback, CartLines
<1>19. ASSUME ReenterBag PROVE BagTypeOK'
  <2>1. [fetch EXCEPT !.for = {}, !.clean = fetch.clean /\ update.at # "done"] \in Request
    BY DEF Request
  <2> QED
    BY <1>19, <2>1, MutationRows DEF ReenterBag
<1>20. ASSUME InvalidatedElsewhere PROVE BagTypeOK'
  BY <1>20, MutationRows, RequestRows DEF InvalidatedElsewhere, Settled, Cancelled
<1>21. ASSUME UNCHANGED bagVars PROVE BagTypeOK'
  BY <1>21 DEF bagVars
<1> QED
  BY <1>1, <1>2, <1>3, <1>4, <1>5, <1>6, <1>7, <1>8, <1>9, <1>10, <1>11, <1>12, <1>13, <1>14,
     <1>15, <1>16, <1>17, <1>18, <1>19, <1>20, <1>21
     DEF BagNext

LEMMA UpdateWaitsStep ==
    ASSUME BagTypeOK, UpdateWaits, [BagNext]_bagVars
    PROVE  UpdateWaits'
<1>. USE BagAssumption
   DEF BagTypeOK, CartLines, CartPage, Mutation, Request, Stages, Rest, Blank, NoFetch,
       UpdateWaits
<1>1. ASSUME Refocus PROVE UpdateWaits'
  BY <1>1 DEF Refocus
<1>2. ASSUME LoadServed PROVE UpdateWaits'
  BY <1>2 DEF LoadServed
<1>3. ASSUME LoadAnswered PROVE UpdateWaits'
  BY <1>3 DEF LoadAnswered, Show, Settled
<1>4. ASSUME LoadFails PROVE UpdateWaits'
  BY <1>4 DEF LoadFails, Show, Settled
<1>5. ASSUME StepRefused PROVE UpdateWaits'
  BY <1>5 DEF StepRefused
<1>6. ASSUME StepAnswered PROVE UpdateWaits'
  BY <1>6 DEF StepAnswered, Invalidated, Settled, Cancelled
<1>7. ASSUME StepLost PROVE UpdateWaits'
  BY <1>7 DEF StepLost
<1>8. ASSUME RemoveRefused PROVE UpdateWaits'
  BY <1>8 DEF RemoveRefused
<1>9. ASSUME RemoveAnswered PROVE UpdateWaits'
  BY <1>9 DEF RemoveAnswered, Invalidated, Settled, Cancelled
<1>10. ASSUME RemoveLost PROVE UpdateWaits'
  BY <1>10 DEF RemoveLost
<1>11. ASSUME NEW v \in Variants, AddToCart(v) PROVE UpdateWaits'
  BY <1>11 DEF AddToCart, Disturb, Killed
<1>12. ASSUME NEW v \in Variants, StepWrite(v) PROVE UpdateWaits'
  BY <1>12 DEF StepWrite
<1>13. ASSUME NEW v \in Variants, ClickRemove(v) PROVE UpdateWaits'
  BY <1>13 DEF ClickRemove
<1>14. ASSUME NEW v \in Variants, RemoveWrite(v) PROVE UpdateWaits'
  BY <1>14 DEF RemoveWrite, Killed
<1>15. ASSUME NEW v \in Variants, NEW q \in 0..MaxUnits, OtherTab(v, q) PROVE UpdateWaits'
  BY <1>15 DEF OtherTab, Disturb, Killed
<1>16. ASSUME NEW v \in Variants, NEW d \in {1, -1}, ClickStep(v, d) PROVE UpdateWaits'
  BY <1>16 DEF ClickStep
<1>17. ASSUME NEW rows \in [Variants -> 0..MaxUnits], SwitchCart(rows) PROVE UpdateWaits'
  BY <1>17 DEF SwitchCart, Disturb, Killed
<1>18. ASSUME NEW rows \in [Variants -> 0..MaxUnits], LoadFallback(rows) PROVE UpdateWaits'
  BY <1>18 DEF LoadFallback
<1>19. ASSUME ReenterBag PROVE UpdateWaits'
  BY <1>19 DEF ReenterBag
<1>20. ASSUME InvalidatedElsewhere PROVE UpdateWaits'
  BY <1>20 DEF InvalidatedElsewhere, Settled, Cancelled
<1>21. ASSUME UNCHANGED bagVars PROVE UpdateWaits'
  BY <1>21 DEF bagVars
<1> QED
  BY <1>1, <1>2, <1>3, <1>4, <1>5, <1>6, <1>7, <1>8, <1>9, <1>10, <1>11, <1>12, <1>13, <1>14,
     <1>15, <1>16, <1>17, <1>18, <1>19, <1>20, <1>21
     DEF BagNext

LEMMA PageIsServedStep ==
    ASSUME BagTypeOK, UpdateWaits, ReadIsServed, PageIsServed, [BagNext]_bagVars
    PROVE  PageIsServed'
<1>. USE BagAssumption
   DEF BagTypeOK, CartLines, CartPage, Mutation, Request, Stages, Rest, Blank, NoFetch,
       UpdateWaits, ReadIsServed, PageIsServed
<1>1. ASSUME Refocus PROVE PageIsServed'
  BY <1>1 DEF Refocus
<1>2. ASSUME LoadServed PROVE PageIsServed'
  BY <1>2 DEF LoadServed
<1>3. ASSUME LoadAnswered PROVE PageIsServed'
  BY <1>3 DEF LoadAnswered, Show, Settled
<1>4. ASSUME LoadFails PROVE PageIsServed'
  BY <1>4 DEF LoadFails, Show, Settled
<1>5. ASSUME StepRefused PROVE PageIsServed'
  BY <1>5 DEF StepRefused
<1>6. ASSUME StepAnswered PROVE PageIsServed'
  BY <1>6 DEF StepAnswered, Invalidated, Settled, Cancelled
<1>7. ASSUME StepLost PROVE PageIsServed'
  BY <1>7 DEF StepLost
<1>8. ASSUME RemoveRefused PROVE PageIsServed'
  BY <1>8 DEF RemoveRefused
<1>9. ASSUME RemoveAnswered PROVE PageIsServed'
  BY <1>9 DEF RemoveAnswered, Invalidated, Settled, Cancelled
<1>10. ASSUME RemoveLost PROVE PageIsServed'
  BY <1>10 DEF RemoveLost
<1>11. ASSUME NEW v \in Variants, AddToCart(v) PROVE PageIsServed'
  BY <1>11 DEF AddToCart, Disturb, Killed
<1>12. ASSUME NEW v \in Variants, StepWrite(v) PROVE PageIsServed'
  BY <1>12 DEF StepWrite
<1>13. ASSUME NEW v \in Variants, ClickRemove(v) PROVE PageIsServed'
  BY <1>13 DEF ClickRemove
<1>14. ASSUME NEW v \in Variants, RemoveWrite(v) PROVE PageIsServed'
  BY <1>14 DEF RemoveWrite, Killed
<1>15. ASSUME NEW v \in Variants, NEW q \in 0..MaxUnits, OtherTab(v, q) PROVE PageIsServed'
  BY <1>15 DEF OtherTab, Disturb, Killed
<1>16. ASSUME NEW v \in Variants, NEW d \in {1, -1}, ClickStep(v, d) PROVE PageIsServed'
  BY <1>16 DEF ClickStep
<1>17. ASSUME NEW rows \in [Variants -> 0..MaxUnits], SwitchCart(rows) PROVE PageIsServed'
  BY <1>17 DEF SwitchCart, Disturb, Killed
<1>18. ASSUME NEW rows \in [Variants -> 0..MaxUnits], LoadFallback(rows) PROVE PageIsServed'
  BY <1>18 DEF LoadFallback
<1>19. ASSUME ReenterBag PROVE PageIsServed'
  BY <1>19 DEF ReenterBag
<1>20. ASSUME InvalidatedElsewhere PROVE PageIsServed'
  BY <1>20 DEF InvalidatedElsewhere, Settled, Cancelled
<1>21. ASSUME UNCHANGED bagVars PROVE PageIsServed'
  BY <1>21 DEF bagVars
<1> QED
  BY <1>1, <1>2, <1>3, <1>4, <1>5, <1>6, <1>7, <1>8, <1>9, <1>10, <1>11, <1>12, <1>13, <1>14,
     <1>15, <1>16, <1>17, <1>18, <1>19, <1>20, <1>21
     DEF BagNext

LEMMA ReadIsServedStep ==
    ASSUME BagTypeOK, UpdateWaits, ReadIsServed, [BagNext]_bagVars
    PROVE  ReadIsServed'
<1>. USE BagAssumption
   DEF BagTypeOK, CartLines, CartPage, Mutation, Request, Stages, Rest, Blank, NoFetch,
       UpdateWaits, ReadIsServed
<1>1. ASSUME Refocus PROVE ReadIsServed'
  BY <1>1 DEF Refocus
<1>2. ASSUME LoadServed PROVE ReadIsServed'
  BY <1>2 DEF LoadServed
<1>3. ASSUME LoadAnswered PROVE ReadIsServed'
  BY <1>3 DEF LoadAnswered, Show, Settled
<1>4. ASSUME LoadFails PROVE ReadIsServed'
  BY <1>4 DEF LoadFails, Show, Settled
<1>5. ASSUME StepRefused PROVE ReadIsServed'
  BY <1>5 DEF StepRefused
<1>6. ASSUME StepAnswered PROVE ReadIsServed'
  BY <1>6 DEF StepAnswered, Invalidated, Settled, Cancelled
<1>7. ASSUME StepLost PROVE ReadIsServed'
  BY <1>7 DEF StepLost
<1>8. ASSUME RemoveRefused PROVE ReadIsServed'
  BY <1>8 DEF RemoveRefused
<1>9. ASSUME RemoveAnswered PROVE ReadIsServed'
  BY <1>9 DEF RemoveAnswered, Invalidated, Settled, Cancelled
<1>10. ASSUME RemoveLost PROVE ReadIsServed'
  BY <1>10 DEF RemoveLost
<1>11. ASSUME NEW v \in Variants, AddToCart(v) PROVE ReadIsServed'
  BY <1>11 DEF AddToCart, Disturb, Killed
<1>12. ASSUME NEW v \in Variants, StepWrite(v) PROVE ReadIsServed'
  BY <1>12 DEF StepWrite
<1>13. ASSUME NEW v \in Variants, ClickRemove(v) PROVE ReadIsServed'
  BY <1>13 DEF ClickRemove
<1>14. ASSUME NEW v \in Variants, RemoveWrite(v) PROVE ReadIsServed'
  BY <1>14 DEF RemoveWrite, Killed
<1>15. ASSUME NEW v \in Variants, NEW q \in 0..MaxUnits, OtherTab(v, q) PROVE ReadIsServed'
  BY <1>15 DEF OtherTab, Disturb, Killed
<1>16. ASSUME NEW v \in Variants, NEW d \in {1, -1}, ClickStep(v, d) PROVE ReadIsServed'
  BY <1>16 DEF ClickStep
<1>17. ASSUME NEW rows \in [Variants -> 0..MaxUnits], SwitchCart(rows) PROVE ReadIsServed'
  BY <1>17 DEF SwitchCart, Disturb, Killed
<1>18. ASSUME NEW rows \in [Variants -> 0..MaxUnits], LoadFallback(rows) PROVE ReadIsServed'
  BY <1>18 DEF LoadFallback
<1>19. ASSUME ReenterBag PROVE ReadIsServed'
  BY <1>19 DEF ReenterBag
<1>20. ASSUME InvalidatedElsewhere PROVE ReadIsServed'
  BY <1>20 DEF InvalidatedElsewhere, Settled, Cancelled
<1>21. ASSUME UNCHANGED bagVars PROVE ReadIsServed'
  BY <1>21 DEF bagVars
<1> QED
  BY <1>1, <1>2, <1>3, <1>4, <1>5, <1>6, <1>7, <1>8, <1>9, <1>10, <1>11, <1>12, <1>13, <1>14,
     <1>15, <1>16, <1>17, <1>18, <1>19, <1>20, <1>21
     DEF BagNext

LEMMA StepIsOneAwayStep ==
    ASSUME BagTypeOK, PageIsServed, StepIsOneAway, [BagNext]_bagVars
    PROVE  StepIsOneAway'
<1>. USE BagAssumption
   DEF BagTypeOK, CartLines, CartPage, Mutation, Request, Stages, Rest, Blank, NoFetch,
       PageIsServed, StepIsOneAway
<1>1. ASSUME Refocus PROVE StepIsOneAway'
  BY <1>1 DEF Refocus
<1>2. ASSUME LoadServed PROVE StepIsOneAway'
  BY <1>2 DEF LoadServed
<1>3. ASSUME LoadAnswered PROVE StepIsOneAway'
  BY <1>3 DEF LoadAnswered, Show, Settled
<1>4. ASSUME LoadFails PROVE StepIsOneAway'
  BY <1>4 DEF LoadFails, Show, Settled
<1>5. ASSUME StepRefused PROVE StepIsOneAway'
  BY <1>5 DEF StepRefused
<1>6. ASSUME StepAnswered PROVE StepIsOneAway'
  BY <1>6 DEF StepAnswered, Invalidated, Settled, Cancelled
<1>7. ASSUME StepLost PROVE StepIsOneAway'
  BY <1>7 DEF StepLost
<1>8. ASSUME RemoveRefused PROVE StepIsOneAway'
  BY <1>8 DEF RemoveRefused
<1>9. ASSUME RemoveAnswered PROVE StepIsOneAway'
  BY <1>9 DEF RemoveAnswered, Invalidated, Settled, Cancelled
<1>10. ASSUME RemoveLost PROVE StepIsOneAway'
  BY <1>10 DEF RemoveLost
<1>11. ASSUME NEW v \in Variants, AddToCart(v) PROVE StepIsOneAway'
  BY <1>11 DEF AddToCart, Disturb, Killed
<1>12. ASSUME NEW v \in Variants, StepWrite(v) PROVE StepIsOneAway'
  BY <1>12 DEF StepWrite
<1>13. ASSUME NEW v \in Variants, ClickRemove(v) PROVE StepIsOneAway'
  BY <1>13 DEF ClickRemove
<1>14. ASSUME NEW v \in Variants, RemoveWrite(v) PROVE StepIsOneAway'
  BY <1>14 DEF RemoveWrite, Killed
<1>15. ASSUME NEW v \in Variants, NEW q \in 0..MaxUnits, OtherTab(v, q) PROVE StepIsOneAway'
  BY <1>15 DEF OtherTab, Disturb, Killed
<1>16. ASSUME NEW v \in Variants, NEW d \in {1, -1}, ClickStep(v, d) PROVE StepIsOneAway'
  <2>1. /\ served' = served /\ update'.of = {v} /\ update'.to = page.lines[v] + d
        /\ update'.clean = clean /\ update'.dead = (v \in page.dead) /\ update.at = "idle"
    BY <1>16 DEF ClickStep
  <2>2. page.lines[v] \in Int /\ served[v] \in Int
    OBVIOUS
  <2>3. CASE clean /\ v \notin page.dead
    <3>1. page.lines[v] = served[v]
      BY <2>1, <2>3
    <3> QED
      BY <2>1, <2>2, <3>1
  <2>4. CASE ~(clean /\ v \notin page.dead)
    BY <2>1, <2>4
  <2> QED
    BY <2>3, <2>4
<1>17. ASSUME NEW rows \in [Variants -> 0..MaxUnits], SwitchCart(rows) PROVE StepIsOneAway'
  BY <1>17 DEF SwitchCart, Disturb, Killed
<1>18. ASSUME NEW rows \in [Variants -> 0..MaxUnits], LoadFallback(rows) PROVE StepIsOneAway'
  BY <1>18 DEF LoadFallback
<1>19. ASSUME ReenterBag PROVE StepIsOneAway'
  BY <1>19 DEF ReenterBag
<1>20. ASSUME InvalidatedElsewhere PROVE StepIsOneAway'
  BY <1>20 DEF InvalidatedElsewhere, Settled, Cancelled
<1>21. ASSUME UNCHANGED bagVars PROVE StepIsOneAway'
  BY <1>21 DEF bagVars
<1> QED
  BY <1>1, <1>2, <1>3, <1>4, <1>5, <1>6, <1>7, <1>8, <1>9, <1>10, <1>11, <1>12, <1>13, <1>14,
     <1>15, <1>16, <1>17, <1>18, <1>19, <1>20, <1>21
     DEF BagNext

\* A click on plus or minus changes the units of the line by one, for any number of
\* variants and any interleaving of fetches, removals and other tabs, unless the page
\* could not know better (updateQuantity, remove).
THEOREM CartStepsAreExact == BagSpec => StepIsExact
<1>1. BagInit => BagInv
  <2> SUFFICES ASSUME BagInit PROVE BagInv
    OBVIOUS
  <2>1. BagTypeOK
    <3>1. [lines |-> Blank, dead |-> {}] \in CartPage
      BY RowFields DEF CartPage
    <3>2. clean \in BOOLEAN
      BY DEF BagInit
    <3> QED
      BY <3>1, <3>2, MutationRows, RequestRows DEF BagInit, BagTypeOK, CartLines
  <2> QED
    BY <2>1
       DEF BagInit, BagInv, UpdateWaits, PageIsServed, ReadIsServed, StepIsOneAway, Rest, NoFetch
<1>2. BagInv /\ [BagNext]_bagVars => BagInv'
  BY BagTypeStep, UpdateWaitsStep, PageIsServedStep, ReadIsServedStep, StepIsOneAwayStep
     DEF BagInv
<1>3. BagInv /\ [BagNext]_bagVars =>
        [\A v \in Variants : StepWrite(v) /\ update.clean
            => served'[v] - served[v] \in {1, -1}]_bagVars
  <2> SUFFICES ASSUME BagInv, NEW v \in Variants, StepWrite(v), update.clean
               PROVE  served'[v] - served[v] \in {1, -1}
    OBVIOUS
  <2>1. served'[v] = update.to
    BY DEF BagInv, BagTypeOK, CartLines, StepWrite
  <2>2. update.to - served[v] \in {1, -1}
    BY DEF BagInv, StepIsOneAway, StepWrite
  <2> QED
    BY <2>1, <2>2
<1> QED
  BY <1>1, <1>2, <1>3, PTL DEF BagSpec, StepIsExact

-----------------------------------------------------------------------------
(* The letters about an order                                              *)

\* How far an order is; no transition leads from a CANCELLED one.
Rank == [PENDING |-> 1, CONFIRMED |-> 2, PROCESSING |-> 3, PACKED |-> 4, SHIPPED |-> 5,
         OUT_FOR_DELIVERY |-> 6, DELIVERED |-> 7, CANCELLED |-> 8]

JobStates ==
    [state : {"none", "waiting", "active", "taken", "done", "failed"},
     tries : Nat, stalls : Nat, accepted : Nat, doubts : Nat]

MailTypeOK ==
    /\ orderStatus \in Statuses \cup {None} /\ reached \subseteq Statuses
    /\ capture \in {"none", "read", "over"} /\ overtook \in BOOLEAN
    /\ holds \in [Requests -> Letters \cup {"idle", "placing"}]
    /\ due \subseteq Letters /\ queued \subseteq Letters /\ died \subseteq Letters
    /\ job \in [Letters -> JobStates]

\* The order has been what it is, and only a capture ever takes it back.
HistoryInv ==
    /\ orderStatus = None => reached = {} /\ capture = "none"
    /\ orderStatus # None => orderStatus \in reached
    /\ capture # "over" => ~overtook
    /\ ~overtook => \A s \in reached : Rank[s] <= Rank[orderStatus]

\* A letter that is queued or about to be.
Written(l) == l \in queued \/ \E r \in Requests : holds[r] = l

True(l) == IF l = "placed" THEN reached # {} ELSE Tells(l) \in reached

LettersInv ==
    /\ \A l \in Letters : Written(l) => True(l)
    /\ \A l \in due : Written(l) \/ l \in died
    /\ ~overtook =>
         /\ \A r \in Requests : holds[r] \notin queued \ {"placed"}
         /\ \A r, p \in Requests : r # p /\ holds[r] = holds[p] => holds[r] \in {"idle", "placing", "placed"}

JobInv(j) ==
    /\ j.state = "none" => j = NoJob
    /\ j.accepted = j.doubts + (IF j.state \in {"taken", "done"} THEN 1 ELSE 0)
    /\ j.doubts <= j.tries + j.stalls
    /\ j.state # "failed" => j.tries < Attempts /\ j.stalls <= MaxStalls
    /\ j.state = "failed" => \/ j.tries = Attempts /\ j.stalls <= MaxStalls
                             \/ j.tries < Attempts /\ j.stalls = MaxStalls + 1

MailInv == MailTypeOK /\ HistoryInv /\ LettersInv /\ \A l \in Letters : JobInv(job[l])

-----------------------------------------------------------------------------
LEMMA StatusesAre ==
    /\ Statuses = {"PENDING", "CONFIRMED", "PROCESSING", "PACKED", "SHIPPED", "OUT_FOR_DELIVERY",
                   "DELIVERED", "CANCELLED"}
    /\ None \notin Statuses
BY DEF Statuses, OrderStatus, AfterDelivery, None

LEMMA RankGrows ==
    ASSUME NEW s \in Statuses, NEW to \in ORDER_TRANSITIONS[s] \cap Statuses
    PROVE  Rank[s] \in Nat /\ Rank[to] \in Nat /\ Rank[to] > Rank[s]
BY StatusesAre DEF ORDER_TRANSITIONS, Rank

LEMMA LetterTells ==
    ASSUME NEW s \in Statuses
    PROVE  /\ LetterOf(s) \in (Letters \ {"placed", "shipped"}) \cup {Silent}
           /\ LetterOf(s) # Silent => Tells(LetterOf(s)) = s
BY StatusesAre DEF LetterOf, Tells, Letters, Silent

\* A change that takes the order forward keeps its history, and its letter is a new one.
LEMMA CommitKeepsLetters ==
    ASSUME MailTypeOK, HistoryInv, LettersInv,
           NEW r \in Requests, NEW to \in Statuses, NEW letter \in Letters \cup {Silent},
           holds[r] \in {"idle", "placing"}, Commits(r, to, letter),
           UNCHANGED <<capture, overtook, died, queueVars>>,
           orderStatus # None => Rank[to] > Rank[orderStatus],
           letter \in Letters \ {"placed"} => Tells(letter) = to
    PROVE  MailTypeOK' /\ HistoryInv' /\ LettersInv'
<1>1. /\ orderStatus' = to /\ reached' = reached \cup {to} /\ due' = due \cup ({letter} \ {Silent})
      /\ holds' = [holds EXCEPT ![r] = IF letter = Silent THEN "idle" ELSE letter]
      /\ capture' = capture /\ overtook' = overtook /\ died' = died
      /\ queued' = queued /\ job' = job
  BY DEF Commits, queueVars
<1>2. MailTypeOK'
  BY <1>1 DEF MailTypeOK, Letters, Silent
<1>3. to # None
  BY StatusesAre
<1>4. \A s \in Statuses : Rank[s] \in Nat
  BY StatusesAre DEF Rank
<1>5. HistoryInv'
  <2>1. ASSUME ~overtook, NEW s \in reached PROVE Rank[s] <= Rank[to]
    <3>1. s \in Statuses /\ orderStatus \in Statuses /\ orderStatus # None
      BY <2>1 DEF MailTypeOK, HistoryInv
    <3>2. Rank[s] <= Rank[orderStatus] /\ Rank[to] > Rank[orderStatus]
      BY <2>1, <3>1 DEF HistoryInv
    <3> QED
      BY <3>1, <3>2, <1>4
  <2> QED
    BY <1>1, <1>3, <1>4, <2>1 DEF HistoryInv
<1>6. ASSUME ~overtook PROVE to \notin reached
  <2> SUFFICES ASSUME to \in reached PROVE FALSE
    OBVIOUS
  <2>1. orderStatus # None /\ orderStatus \in Statuses
    BY DEF MailTypeOK, HistoryInv
  <2>2. Rank[to] <= Rank[orderStatus] /\ Rank[to] > Rank[orderStatus]
    BY <1>6, <2>1 DEF HistoryInv
  <2> QED
    BY <1>4, <2>1, <2>2
<1>7. ASSUME ~overtook, letter \in Letters \ {"placed"} PROVE ~Written(letter)
  BY <1>6, <1>7 DEF LettersInv, True
<1>8. holds'[r] = IF letter = Silent THEN "idle" ELSE letter
  BY <1>1 DEF MailTypeOK
<1>9. \A p \in Requests : p # r => holds'[p] = holds[p]
  BY <1>1 DEF MailTypeOK
<1>10. ASSUME NEW l \in Letters, Written(l) PROVE Written(l)'
  <2>1. CASE l \in queued
    BY <1>1, <2>1 DEF Written
  <2>2. CASE \E p \in Requests : holds[p] = l
    <3>1. PICK p \in Requests : holds[p] = l
      BY <2>2
    <3>2. p # r
      BY <3>1 DEF Letters
    <3> QED
      BY <3>1, <3>2, <1>9 DEF Written
  <2> QED
    BY <1>10, <2>1, <2>2 DEF Written
<1>11. ASSUME NEW l \in Letters, Written(l)' PROVE Written(l) \/ l = letter
  BY <1>1, <1>8, <1>9, <1>11 DEF Written, Letters
<1>12. ASSUME NEW l \in Letters, Written(l)' PROVE True(l)'
  <2>1. CASE Written(l)
    BY <2>1, <1>1 DEF LettersInv, True
  <2>2. CASE l = letter
    BY <2>2, <1>1 DEF True
  <2> QED
    BY <1>11, <1>12, <2>1, <2>2
<1>13. ASSUME NEW l \in due' PROVE (Written(l) \/ l \in died)'
  <2>1. CASE l \in due
    BY <2>1, <1>1, <1>10 DEF LettersInv, MailTypeOK
  <2>2. CASE l = letter /\ letter # Silent
    BY <2>2, <1>8 DEF Written
  <2> QED
    BY <1>1, <2>1, <2>2
<1>14. ASSUME ~overtook, NEW p \in Requests PROVE holds'[p] \notin queued \ {"placed"}
  <2>1. CASE p # r
    BY <1>9, <1>14, <2>1 DEF LettersInv
  <2>2. CASE p = r
    <3>1. "idle" \notin queued
      BY DEF MailTypeOK, Letters
    <3> QED
      BY <1>7, <1>8, <1>14, <2>2, <3>1 DEF Written
  <2> QED
    BY <2>1, <2>2
<1>15. ASSUME ~overtook, NEW q \in Requests, NEW p \in Requests, q # p, holds'[q] = holds'[p]
       PROVE  holds'[q] \in {"idle", "placing", "placed"}
  <2>1. CASE q # r /\ p # r
    BY <1>9, <1>15, <2>1 DEF LettersInv
  <2>2. CASE q = r \/ p = r
    <3>1. PICK o \in Requests : holds[o] = holds'[r]
      BY <1>9, <1>15, <2>2
    <3> QED
      BY <1>7, <1>8, <1>15, <2>2, <3>1 DEF Written
  <2> QED
    BY <2>1, <2>2
<1> QED
  BY <1>1, <1>2, <1>5, <1>12, <1>13, <1>14, <1>15 DEF LettersInv

\* A request that ends, or writes again what was written, tells no more than before.
LEMMA RequestKeepsLetters ==
    ASSUME MailTypeOK, HistoryInv, LettersInv, NEW r \in Requests,
           orderStatus' = orderStatus, reached' = reached, capture' = capture,
           overtook' = overtook, due' = due,
           \/ /\ holds[r] = "idle" /\ holds' = [holds EXCEPT ![r] = "placing"]
              /\ UNCHANGED <<queued, died>>
           \/ /\ holds[r] = "placing" /\ orderStatus # None
              /\ holds' = [holds EXCEPT ![r] = "placed"]
              /\ UNCHANGED <<queued, died>>
           \/ /\ holds' = [holds EXCEPT ![r] = "idle"]
              /\ queued' = queued \cup ({holds[r]} \cap Letters) /\ died' = died
           \/ /\ holds' = [holds EXCEPT ![r] = "idle"]
              /\ died' = died \cup ({holds[r]} \cap Letters) /\ queued' = queued
    PROVE  LettersInv'
<1>1. \A p \in Requests : p # r => holds'[p] = holds[p]
  BY DEF MailTypeOK
<1>2. holds'[r] \in {"idle", "placing", "placed"}
  BY DEF MailTypeOK
<1>3. holds'[r] = "placed" => reached # {}
  BY DEF MailTypeOK, HistoryInv, Letters
<1>4. ASSUME NEW l \in Letters, Written(l)' PROVE Written(l) \/ (l = "placed" /\ reached # {})
  <2>1. ASSUME NEW p \in Requests, holds'[p] = l PROVE Written(l) \/ (l = "placed" /\ reached # {})
    BY <1>1, <1>2, <1>3, <2>1 DEF Written, Letters
  <2>2. ASSUME l \in queued' PROVE Written(l)
    BY <2>2 DEF Written
  <2> QED
    BY <1>4, <2>1, <2>2 DEF Written
<1>5. ASSUME NEW l \in Letters, Written(l)' PROVE True(l)'
  BY <1>4, <1>5 DEF LettersInv, True
<1>6. ASSUME NEW l \in due PROVE (Written(l) \/ l \in died)'
  <2>1. l \in Letters
    BY DEF MailTypeOK
  <2>2. CASE l \in queued \/ l \in died
    BY <2>2 DEF Written
  <2>3. CASE \E p \in Requests : holds[p] = l
    <3>1. PICK p \in Requests : holds[p] = l
      BY <2>3
    <3>2. CASE p # r
      BY <1>1, <3>1, <3>2 DEF Written
    <3>3. CASE p = r
      BY <2>1, <3>1, <3>3 DEF Written, Letters
    <3> QED
      BY <3>2, <3>3
  <2> QED
    BY <2>2, <2>3 DEF LettersInv, Written
<1>7. ASSUME ~overtook, NEW p \in Requests PROVE holds'[p] \notin queued' \ {"placed"}
  <2>1. holds'[p] \notin queued \ {"placed"}
    BY <1>1, <1>2, <1>7 DEF LettersInv, MailTypeOK, Letters
  <2>2. ASSUME holds'[p] = holds[r], holds[r] \in Letters, holds'[r] = "idle" PROVE holds[r] = "placed"
    <3>1. p # r
      BY <2>2 DEF Letters
    <3> QED
      BY <1>1, <1>7, <2>2, <3>1 DEF LettersInv, Letters
  <2>3. holds'[r] = "idle" \/ queued' = queued
    BY DEF MailTypeOK
  <2> QED
    BY <2>1, <2>2, <2>3
<1>8. ASSUME ~overtook, NEW q \in Requests, NEW p \in Requests, q # p, holds'[q] = holds'[p]
      PROVE  holds'[q] \in {"idle", "placing", "placed"}
  BY <1>1, <1>2, <1>8 DEF LettersInv
<1> QED
  BY <1>5, <1>6, <1>7, <1>8 DEF LettersInv

\* A payment writes no letter, and takes the order back only by writing over a status.
LEMMA PaymentKeepsLetters ==
    ASSUME MailTypeOK, HistoryInv, LettersInv, OfPayment
    PROVE  MailTypeOK' /\ HistoryInv' /\ LettersInv'
<1>1. /\ holds' = holds /\ due' = due /\ died' = died /\ queued' = queued /\ job' = job
      /\ reached \subseteq reached'
  BY DEF OfPayment, PaidByWebhook, CaptureReads, CaptureWrites, queueVars
<1>2. MailTypeOK'
  <2>1. orderStatus' \in Statuses \cup {None} /\ reached' \subseteq Statuses
    BY StatusesAre DEF OfPayment, PaidByWebhook, CaptureReads, CaptureWrites, MailTypeOK
  <2>2. capture' \in {"none", "read", "over"} /\ overtook' \in BOOLEAN
    BY DEF OfPayment, PaidByWebhook, CaptureReads, CaptureWrites, MailTypeOK
  <2> QED
    BY <1>1, <2>1, <2>2 DEF MailTypeOK
<1>3. HistoryInv'
  <2>. USE StatusesAre DEF HistoryInv, MailTypeOK
  <2>1. CASE PaidByWebhook
    BY <2>1 DEF PaidByWebhook, Rank, None
  <2>2. CASE CaptureReads
    BY <2>2 DEF CaptureReads, None
  <2>3. CASE CaptureWrites
    <3>1. /\ capture' = "over" /\ orderStatus' = "CONFIRMED" /\ reached' = reached \cup {"CONFIRMED"}
          /\ overtook' = (orderStatus \notin {"PENDING", "CONFIRMED"})
          /\ orderStatus # None /\ ~overtook
      BY <2>3 DEF CaptureWrites
    <3>2. ASSUME ~overtook', NEW s \in reached PROVE Rank[s] <= Rank["CONFIRMED"]
      <4>1. s \in Statuses /\ Rank[s] <= Rank[orderStatus] /\ orderStatus \in {"PENDING", "CONFIRMED"}
        BY <3>1, <3>2
      <4> QED
        BY <4>1 DEF Rank
    <3>3. Rank["CONFIRMED"] <= Rank["CONFIRMED"] /\ "CONFIRMED" # None
      BY DEF Rank, None
    <3> QED
      BY <3>1, <3>2, <3>3
  <2> QED
    BY <2>1, <2>2, <2>3 DEF OfPayment
<1>4. overtook => overtook'
  BY DEF OfPayment, PaidByWebhook, CaptureReads, CaptureWrites, HistoryInv
<1> QED
  BY <1>1, <1>2, <1>3, <1>4 DEF LettersInv, Written, True

-----------------------------------------------------------------------------
\* The worker's steps keep the books of the job they move.
LEMMA JobStep ==
    ASSUME NEW l \in Letters, OfWorker(l), job[l] \in JobStates, JobInv(job[l])
    PROVE  \E new \in JobStates : JobInv(new) /\ Move(l, new)
<1>. DEFINE j == job[l]
<1>. USE MailAssumption DEF JobStates
<1>1. ASSUME Claim(l) PROVE \E new \in JobStates : JobInv(new) /\ Move(l, new)
  <2>. DEFINE new == [j EXCEPT !.state = "active"]
  <2>1. new \in JobStates /\ JobInv(new) /\ Move(l, new)
    BY <1>1 DEF Claim, JobInv
  <2> QED
    BY <2>1
<1>2. ASSUME Accept(l) PROVE \E new \in JobStates : JobInv(new) /\ Move(l, new)
  <2>. DEFINE new == [j EXCEPT !.state = "taken", !.accepted = @ + 1]
  <2>1. /\ j.state = "active" /\ new.state = "taken" /\ new.accepted = j.accepted + 1
        /\ new.tries = j.tries /\ new.stalls = j.stalls /\ new.doubts = j.doubts
    BY <1>2 DEF Accept
  <2>2. JobInv(new)
    <3>. HIDE DEF new
    <3> QED
      BY <2>1 DEF JobInv
  <2>3. Move(l, new)
    BY <1>2 DEF Accept
  <2>4. new \in JobStates
    <3>1. ASSUME NEW n \in Nat PROVE [j EXCEPT !.state = "taken", !.accepted = n] \in JobStates
      OBVIOUS
    <3>2. j.accepted + 1 \in Nat
      OBVIOUS
    <3> QED
      BY <3>1, <3>2
  <2> QED
    BY <2>2, <2>3, <2>4
<1>3. ASSUME Finish(l) PROVE \E new \in JobStates : JobInv(new) /\ Move(l, new)
  <2>. DEFINE new == [j EXCEPT !.state = "done"]
  <2>1. new \in JobStates /\ JobInv(new) /\ Move(l, new)
    BY <1>3 DEF Finish, JobInv
  <2> QED
    BY <2>1
<1>4. ASSUME Throw(l) PROVE \E new \in JobStates : JobInv(new) /\ Move(l, new)
  <2>. DEFINE new == [j EXCEPT !.tries = @ + 1, !.doubts = Doubt(l),
                      !.state = IF j.tries + 1 < Attempts THEN "waiting" ELSE "failed"]
  <2>1. j.state \in {"active", "taken"} /\ Move(l, new)
    BY <1>4 DEF Throw
  <2>2. /\ new.tries = j.tries + 1 /\ new.stalls = j.stalls /\ new.accepted = j.accepted
        /\ new.doubts = Doubt(l)
        /\ new.state = IF j.tries + 1 < Attempts THEN "waiting" ELSE "failed"
    OBVIOUS
  <2>3. Doubt(l) = j.accepted /\ Doubt(l) \in Nat /\ Doubt(l) <= j.tries + j.stalls + 1
    BY <2>1 DEF Doubt, JobInv
  <2>4. new \in JobStates
    <3>1. ASSUME NEW n \in Nat, NEW d \in Nat, NEW s \in {"waiting", "failed"}
          PROVE  [j EXCEPT !.tries = n, !.doubts = d, !.state = s] \in JobStates
      OBVIOUS
    <3>2. j.tries + 1 \in Nat
      OBVIOUS
    <3>3. (IF j.tries + 1 < Attempts THEN "waiting" ELSE "failed") \in {"waiting", "failed"}
      OBVIOUS
    <3> QED
      BY <2>3, <3>1, <3>2, <3>3, Zenon
  <2>5. JobInv(new)
    <3>. HIDE DEF new
    <3> QED
      BY <2>1, <2>2, <2>3 DEF JobInv
  <2> QED
    BY <2>1, <2>4, <2>5
<1>5. ASSUME NEW late \in {0, 1}, Stall(l, late)
      PROVE  \E new \in JobStates : JobInv(new) /\ Move(l, new)
  <2>. DEFINE new == [j EXCEPT !.stalls = @ + 1,
                      !.accepted = @ + late, !.doubts = Doubt(l) + late,
                      !.state = IF j.stalls < MaxStalls THEN "waiting" ELSE "failed"]
  <2>1. j.state \in {"active", "taken"} /\ (late = 1 => j.state = "active") /\ Move(l, new)
    BY <1>5 DEF Stall
  <2>2. /\ new.stalls = j.stalls + 1 /\ new.tries = j.tries /\ new.accepted = j.accepted + late
        /\ new.doubts = Doubt(l) + late
        /\ new.state = IF j.stalls < MaxStalls THEN "waiting" ELSE "failed"
    OBVIOUS
  <2>3. /\ Doubt(l) = j.accepted /\ Doubt(l) \in Nat
        /\ Doubt(l) + late <= j.tries + j.stalls + 1
    BY <2>1 DEF Doubt, JobInv
  <2>4. new \in JobStates
    <3>1. ASSUME NEW n \in Nat, NEW a \in Nat, NEW d \in Nat, NEW s \in {"waiting", "failed"}
          PROVE  [j EXCEPT !.stalls = n, !.accepted = a, !.doubts = d, !.state = s] \in JobStates
      OBVIOUS
    <3>2. j.stalls + 1 \in Nat /\ j.accepted + late \in Nat /\ Doubt(l) + late \in Nat
      BY <2>3
    <3>3. (IF j.stalls < MaxStalls THEN "waiting" ELSE "failed") \in {"waiting", "failed"}
      OBVIOUS
    <3> QED
      BY <3>1, <3>2, <3>3, Zenon
  <2>5. JobInv(new)
    <3>. HIDE DEF new
    <3> QED
      BY <2>1, <2>2, <2>3 DEF JobInv
  <2> QED
    BY <2>1, <2>4, <2>5
<1>6. ASSUME Evict(l) PROVE \E new \in JobStates : JobInv(new) /\ Move(l, new)
  BY <1>6 DEF Evict, JobInv, NoJob
<1> QED
  BY <1>1, <1>2, <1>3, <1>4, <1>5, <1>6 DEF OfWorker

LEMMA MailStep ==
    ASSUME MailInv, [MailNext]_mailVars
    PROVE  MailInv'
<1>. USE DEF MailInv
<1>1. ASSUME NEW r \in Requests, Begin(r) PROVE MailInv'
  <2>1. MailTypeOK' /\ HistoryInv' /\ job' = job
    BY <1>1 DEF Begin, MailTypeOK, HistoryInv, orderVars, queueVars
  <2>2. LettersInv'
    BY <1>1, RequestKeepsLetters DEF Begin, orderVars, queueVars
  <2> QED
    BY <2>1, <2>2
<1>2. ASSUME NEW r \in Requests, PlacedAlready(r) PROVE MailInv'
  <2>1. MailTypeOK' /\ HistoryInv' /\ job' = job
    BY <1>2 DEF PlacedAlready, MailTypeOK, HistoryInv, orderVars, queueVars, Letters
  <2>2. LettersInv'
    BY <1>2, RequestKeepsLetters DEF PlacedAlready, orderVars, queueVars
  <2> QED
    BY <2>1, <2>2
<1>3. ASSUME NEW r \in Requests, Enqueue(r) PROVE MailInv'
  <2>1. /\ orderStatus' = orderStatus /\ reached' = reached /\ capture' = capture
        /\ overtook' = overtook /\ due' = due /\ died' = died
        /\ holds' = [holds EXCEPT ![r] = "idle"] /\ queued' = queued \cup {holds[r]} /\ holds[r] \in Letters
    BY <1>3 DEF Enqueue, orderVars
  <2>. DEFINE new == [NoJob EXCEPT !.state = "waiting"]
  <2>2. job' = job \/ job' = [job EXCEPT ![holds[r]] = new]
    BY <1>3 DEF Enqueue
  <2>3. new \in JobStates /\ JobInv(new)
    BY MailAssumption DEF NoJob, JobStates, JobInv
  <2>4. MailTypeOK'
    <3>1. job' \in [Letters -> JobStates]
      <4>. HIDE DEF new
      <4> QED
        BY <2>2, <2>3 DEF MailTypeOK
    <3> QED
      BY <2>1, <3>1 DEF MailTypeOK
  <2>5. \A l \in Letters : JobInv(job[l])'
    <3>. HIDE DEF new
    <3> QED
      BY <2>1, <2>2, <2>3 DEF MailTypeOK
  <2>6. HistoryInv'
    BY <2>1 DEF HistoryInv
  <2>7. queued' = queued \cup ({holds[r]} \cap Letters)
    BY <2>1
  <2>8. LettersInv'
    BY <2>1, <2>7, RequestKeepsLetters
  <2> QED
    BY <2>4, <2>5, <2>6, <2>8
<1>4. ASSUME NEW r \in Requests, Dies(r) PROVE MailInv'
  <2>1. /\ orderStatus' = orderStatus /\ reached' = reached /\ capture' = capture
        /\ overtook' = overtook /\ due' = due /\ queued' = queued /\ job' = job
        /\ holds' = [holds EXCEPT ![r] = "idle"]
    BY <1>4 DEF Dies, orderVars, queueVars
  <2>2. died' = died \cup ({holds[r]} \cap Letters)
    BY <1>4 DEF Dies, MailTypeOK, Letters
  <2>3. MailTypeOK'
    BY <2>1, <2>2 DEF MailTypeOK
  <2>4. HistoryInv'
    BY <2>1 DEF HistoryInv
  <2>5. LettersInv'
    BY <2>1, <2>2, RequestKeepsLetters
  <2> QED
    BY <2>1, <2>3, <2>4, <2>5
<1>5. ASSUME NEW r \in Requests, NEW s \in Statuses, Place(r, s) PROVE MailInv'
  <2>1. holds[r] = "placing" /\ orderStatus = None /\ Commits(r, s, "placed")
        /\ UNCHANGED <<capture, overtook, died, queueVars>>
    BY <1>5 DEF Place
  <2>2. "placed" \in Letters
    BY DEF Letters
  <2>3. MailTypeOK' /\ HistoryInv' /\ LettersInv'
    BY <2>1, <2>2, CommitKeepsLetters
  <2> QED
    BY <2>1, <2>3 DEF queueVars
<1>6. ASSUME NEW r \in Requests, NEW s \in Statuses, Transition(r, s) PROVE MailInv'
  <2>1. /\ holds[r] = "idle" /\ orderStatus \in Statuses
        /\ s \in ORDER_TRANSITIONS[orderStatus] \cap Statuses
        /\ Commits(r, s, LetterOf(s)) /\ UNCHANGED <<capture, overtook, died, queueVars>>
    BY <1>6 DEF Transition
  <2>2. Rank[s] > Rank[orderStatus]
    BY <2>1, RankGrows
  <2>3. /\ LetterOf(s) \in Letters \cup {Silent}
        /\ LetterOf(s) \in Letters \ {"placed"} => Tells(LetterOf(s)) = s
    BY LetterTells DEF Letters, Silent
  <2>4. MailTypeOK' /\ HistoryInv' /\ LettersInv'
    BY <2>1, <2>2, <2>3, CommitKeepsLetters
  <2> QED
    BY <2>1, <2>4 DEF queueVars
<1>7. ASSUME NEW r \in Requests, Ship(r) PROVE MailInv'
  <2>1. /\ holds[r] = "idle" /\ orderStatus = "PACKED" /\ Commits(r, "SHIPPED", "shipped")
        /\ UNCHANGED <<capture, overtook, died, queueVars>>
    BY <1>7 DEF Ship
  <2>2. Rank["SHIPPED"] > Rank["PACKED"] /\ "SHIPPED" \in Statuses
    BY StatusesAre DEF Rank
  <2>3. "shipped" \in Letters /\ Tells("shipped") = "SHIPPED"
    BY DEF Letters, Tells
  <2>4. MailTypeOK' /\ HistoryInv' /\ LettersInv'
    BY <2>1, <2>2, <2>3, CommitKeepsLetters
  <2> QED
    BY <2>1, <2>4 DEF queueVars
<1>8. ASSUME OfPayment PROVE MailInv'
  <2>1. job' = job
    BY <1>8 DEF OfPayment, PaidByWebhook, CaptureReads, CaptureWrites, queueVars
  <2> QED
    BY <1>8, <2>1, PaymentKeepsLetters
<1>9. ASSUME NEW l \in Letters, OfWorker(l) PROVE MailInv'
  <2>1. PICK new \in JobStates : JobInv(new) /\ Move(l, new)
    <3>1. job[l] \in JobStates /\ JobInv(job[l])
      BY DEF MailTypeOK
    <3> QED
      BY <1>9, <3>1, JobStep
  <2>2. /\ job' = [job EXCEPT ![l] = new] /\ UNCHANGED <<holds, due, died, queued>>
        /\ orderStatus' = orderStatus /\ reached' = reached /\ capture' = capture
        /\ overtook' = overtook
    BY <2>1 DEF Move, orderVars
  <2>3. MailTypeOK' /\ \A k \in Letters : JobInv(job[k])'
    BY <2>1, <2>2 DEF MailTypeOK
  <2>4. HistoryInv' /\ LettersInv'
    BY <2>2 DEF HistoryInv, LettersInv, Written, True
  <2> QED
    BY <2>3, <2>4
<1>10. ASSUME UNCHANGED mailVars PROVE MailInv'
  BY <1>10
     DEF mailVars, orderVars, queueVars, MailTypeOK, HistoryInv, LettersInv, Written, True
<1> QED
  BY <1>1, <1>2, <1>3, <1>4, <1>5, <1>6, <1>7, <1>8, <1>9, <1>10 DEF MailNext, OfRequest

LEMMA MailBegins == MailInit => MailInv
<1> SUFFICES ASSUME MailInit PROVE MailInv
  OBVIOUS
<1>. USE DEF MailInit
<1>1. NoJob \in JobStates /\ JobInv(NoJob)
  BY MailAssumption DEF NoJob, JobStates, JobInv
<1>2. MailTypeOK
  BY <1>1 DEF MailTypeOK
<1>3. HistoryInv
  BY DEF HistoryInv
<1>4. LettersInv
  BY DEF LettersInv, Written, Letters
<1>5. \A l \in Letters : JobInv(job[l])
  BY <1>1
<1> QED
  BY <1>2, <1>3, <1>4, <1>5 DEF MailInv

\* For any number of calls on an order at once, and wherever they die: what is queued is
\* true, nothing that is due vanishes but with the call that held it, and the queue drops no
\* letter for its id unless a capture took the order back (transition, ship, placeOrder).
THEOREM OrderIsTold == MailSpec => []LettersTellTheOrder
<1>1. MailInv => LettersTellTheOrder
  <2> SUFFICES ASSUME MailInv PROVE LettersTellTheOrder
    OBVIOUS
  <2>1. \A l \in queued : l \in Letters
    BY DEF MailInv, MailTypeOK
  <2>2. \A l \in queued : True(l)
    BY <2>1 DEF MailInv, LettersInv, Written
  <2>3. \A l \in due : l \in queued \cup died \/ \E r \in Requests : holds[r] = l
    BY DEF MailInv, LettersInv, Written
  <2>4. ~overtook => \A r \in Requests : holds[r] \notin queued \ {"placed"}
    BY DEF MailInv, LettersInv
  <2> QED
    BY <2>2, <2>3, <2>4 DEF LettersTellTheOrder, True
<1> QED
  BY <1>1, MailBegins, MailStep, PTL DEF MailSpec

\* However many attempts a job has and however often its workers stall: a letter that is
\* done was accepted, and every copy but one is owed to an attempt that threw or stalled
\* without its answer (process, sendEmail).
THEOREM CopiesAreOwed == MailSpec => []CopiesAreCounted
<1>1. MailInv => CopiesAreCounted
  <2> SUFFICES ASSUME MailInv, NEW l \in Letters
               PROVE  LET j == job[l]
                      IN  /\ j.state = "done" => j.accepted >= 1
                          /\ j.accepted = j.doubts + (IF j.state \in {"taken", "done"} THEN 1 ELSE 0)
                          /\ j.accepted <= Attempts + MaxStalls
                          /\ j.state = "failed" => j.tries = Attempts \/ j.stalls = MaxStalls + 1
    BY DEF CopiesAreCounted
  <2>1. job[l] \in JobStates /\ JobInv(job[l])
    BY DEF MailInv, MailTypeOK
  <2> QED
    BY <2>1, MailAssumption DEF JobStates, JobInv
<1> QED
  BY <1>1, MailBegins, MailStep, PTL DEF MailSpec
=============================================================================
