----------------------------- MODULE Newsletter -----------------------------
(***************************************************************************)
(* One address of the newsletter: its subscription, the mailed links that  *)
(* confirm it, and the withdrawal (public.service.ts subscribe,            *)
(* verifyNewsletter, unsubscribe; apps/web newsletter-form.tsx and         *)
(* newsletter/verify).  subscribe writes the row, then withdraws the open  *)
(* links and creates one in a second transaction, then queues the mail.    *)
(***************************************************************************)
CONSTANTS Confirmations,  \* rows of NewsletterVerificationToken
          Visits,         \* requests in flight
          NoLink

ASSUME NewsletterAssumption == NoLink \notin Confirmations

VARIABLES subscription,  \* "none", "asked", "verified"; and whether withdrawn
          confirmation,  \* the links: "none", "open", "void"
          visit          \* a request: at subscribe, or the link it has found good

newsletterVars == <<subscription, confirmation, visit>>

Away == [at |-> "away", with |-> NoLink]

NewsletterInit == /\ subscription = [state |-> "none", withdrawn |-> FALSE]
                  /\ confirmation = [l \in Confirmations |-> "none"]
                  /\ visit = [v \in Visits |-> Away]

Visiting(v, at, with) == visit' = [visit EXCEPT ![v] = [at |-> at, with |-> with]]
Leave(v) == visit' = [visit EXCEPT ![v] = Away]

SubscribeRow(v) ==
    /\ visit[v] = Away
    /\ subscription' = [state |-> IF subscription.state = "none" THEN "asked" ELSE subscription.state,
                        withdrawn |-> FALSE]
    /\ Visiting(v, "subscribe", NoLink)
    /\ UNCHANGED confirmation

\* The new link withdraws the open ones.
SubscribeLink(v, l) ==
    /\ visit[v].at = "subscribe" /\ confirmation[l] = "none"
    /\ confirmation' = [k \in Confirmations |-> IF k = l THEN "open"
                          ELSE IF confirmation[k] = "open" THEN "void" ELSE confirmation[k]]
    /\ Leave(v)
    /\ UNCHANGED subscription

\* Mutant: a link that was used or withdrawn is taken.
ConfirmRead_Used(v, l) ==
    /\ visit[v] = Away /\ confirmation[l] # "none"
    /\ Visiting(v, "confirm", l)
    /\ UNCHANGED <<subscription, confirmation>>

ConfirmRead(v, l) ==
    /\ visit[v] = Away /\ confirmation[l] = "open"
    /\ Visiting(v, "confirm", l)
    /\ UNCHANGED <<subscription, confirmation>>

\* The transaction does not look at the link again.
ConfirmWrite(v) ==
    /\ visit[v].at = "confirm"
    /\ confirmation' = [confirmation EXCEPT ![visit[v].with] = "void"]
    /\ subscription' = [state |-> "verified", withdrawn |-> FALSE]
    /\ Leave(v)

VisitFails(v) == visit[v] # Away /\ Leave(v) /\ UNCHANGED <<subscription, confirmation>>

LinkExpires(l) == /\ confirmation[l] = "open"
                  /\ confirmation' = [confirmation EXCEPT ![l] = "void"]
                  /\ UNCHANGED <<subscription, visit>>

\* The links that are open stay open.
Unsubscribe == /\ subscription.state # "none"
               /\ subscription' = [subscription EXCEPT !.withdrawn = TRUE]
               /\ UNCHANGED <<confirmation, visit>>

NewsletterNext ==
    \/ Unsubscribe
    \/ \E l \in Confirmations : LinkExpires(l)
    \/ \E v \in Visits : \/ SubscribeRow(v) \/ ConfirmWrite(v) \/ VisitFails(v)
                         \/ \E l \in Confirmations : SubscribeLink(v, l) \/ ConfirmRead(v, l)

NewsletterSpec == NewsletterInit /\ [][NewsletterNext]_newsletterVars

----------------------------------------------------------------------------
\* At most one mailed link confirms an address, however often and concurrently it
\* was asked for (subscribe).
OneOpenConfirmation ==
    \A k, l \in Confirmations : confirmation[k] = "open" /\ confirmation[l] = "open" => k = l

\* The links are credentials: an address is confirmed only by a request that has
\* found one good, and none is good again (verifyNewsletter).
Confirmed == INSTANCE Credentials WITH
    Creds <- Confirmations, Bearers <- Visits, NoCred <- NoLink,
    Unopened <- FALSE, Opened <- {}, Accounts <- BOOLEAN, Erased <- {},
    standing <- [l \in Confirmations |-> IF confirmation[l] = "none" THEN "unissued"
                                         ELSE IF confirmation[l] = "open" THEN "good" ELSE "void"],
    held <- [v \in Visits |-> visit[v].with],
    account <- subscription.state = "verified"

ConfirmationsAreCredentials == Confirmed!CredSpec /\ []OneOpenConfirmation
=============================================================================
