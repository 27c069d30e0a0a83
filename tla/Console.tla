------------------------------- MODULE Console -------------------------------
(***************************************************************************)
(* The pages of the admin console on which one record is decided on: an    *)
(* order, a return, a review or a customer by its status, stock by an      *)
(* adjustment, a payment by a refund (apps/web admin/orders/[id],          *)
(* returns/[id], reviews/[id], customers/[id] and inventory/[id]).  The    *)
(* select shows what was chosen, or else the status the page has loaded,   *)
(* and the button sends it; a success clears the choice and does not wait  *)
(* for the refetch.  What a status does beyond its row is in OrderFlow,    *)
(* AfterSales, Reviews and Accounts.                                       *)
(***************************************************************************)
EXTENDS Naturals, OrderStates

CONSTANTS Unset,
          MaxTyped  \* bound on the adjustments or refunds typed

ASSUME ConsoleAssumption == MaxTyped \in Nat /\ Unset \notin OrderStatus

VARIABLES kind,      \* which form it is
          status,    \* of the record
          shown,     \* what the page has loaded
          chosen,    \* newStatus
          post,      \* the mutation: at, to, and whether to was chosen
          load,      \* the query's request: "none", "asked", or what it read
          typed,     \* adjustments typed (a note and a quantity), or refunds (an amount)
          note,      \* the form holds one
          adjusted,  \* adjustments of the stock, or refunds, that were made
          unsure,    \* answers that were lost
          old        \* which of shown, load and post are older than a write that took the
                     \* order back

consoleVars == <<kind, status, shown, chosen, post, load, typed, note, adjusted, unsure, old>>
stockVars   == <<typed, note, adjusted, unsure>>

Reviewed  == {"PENDING", "APPROVED", "REJECTED"}
UserState == {"ACTIVE", "SUSPENDED", "BLOCKED", "PENDING_DELETION"}
Counting  == {"stock", "refund"}

StatusOf(k) == CASE k = "order"    -> OrderStatus
                 [] k = "return"   -> ReturnStatus
                 [] k = "review"   -> Reviewed
                 [] k = "customer" -> UserState
                 [] OTHER          -> {Unset}

NoPost == [at |-> "idle", to |-> Unset, chosen |-> FALSE]

ConsoleInit ==
    /\ kind \in {"order", "return", "review", "customer"} \cup Counting
    /\ status \in StatusOf(kind)
    /\ shown = Unset /\ chosen = Unset /\ post = NoPost /\ load = "none"
    /\ typed = 0 /\ note = FALSE /\ adjusted = 0 /\ unsure = 0 /\ old = {}

----------------------------------------------------------------------------
\* Mutant: the order's table is not asked.
Permits_Any(from, to) == to \in StatusOf(kind)

\* What the API lets an administrator do.
Permits(from, to) == CASE kind = "order"  -> to \in ORDER_TRANSITIONS[from]
                       [] kind = "return" -> to \in RETURN_TRANSITIONS[from]
                       [] OTHER           -> to \in StatusOf(kind)

\* Somebody else: another administrator, the customer, a payment or a refund.
Elsewhere(to) ==
    /\ \/ Permits(status, to)
       \/ /\ kind = "order" /\ to \in {"PARTIALLY_REFUNDED", "REFUNDED"}
          /\ status \notin {"PARTIALLY_REFUNDED", "REFUNDED"}
    /\ status' = to
    /\ UNCHANGED <<kind, shown, chosen, post, load, stockVars, old>>

\* The two writes that do not look at what they overwrite: a capture that read the order
\* PENDING confirms it whatever it is by now, and a partial refund that read it before the
\* gateway's answer takes a full one back (OrderFlow's and AfterSales' stragglers).
StaleWrite(to) ==
    /\ kind = "order" /\ status # to
    /\ \/ to = "CONFIRMED" /\ status # "PENDING"
       \/ to = "PARTIALLY_REFUNDED" /\ status = "REFUNDED"
    /\ status' = to /\ old' = {"shown", "load", "post"}
    /\ UNCHANGED <<kind, shown, chosen, post, load, stockVars>>

\* What is taken over from where is as old as that.
Aged(what, from) == old' = IF from \in old THEN old \cup {what} ELSE old \ {what}

----------------------------------------------------------------------------
(* The query: on mounting, on focus, after a success, also of a call from  *)
(* before the page was left, which starts it anew.                         *)

Load == /\ load # "asked" /\ load' = "asked"
        /\ UNCHANGED <<kind, status, shown, chosen, post, stockVars, old>>

ReadRecord == /\ load = "asked" /\ load' = status /\ old' = old \ {"load"}
              /\ UNCHANGED <<kind, status, shown, chosen, post, stockVars>>

ShowRecord == /\ load \notin {"none", "asked"}
              /\ shown' = load /\ load' = "none" /\ Aged("shown", "load")
              /\ UNCHANGED <<kind, status, chosen, post, stockVars>>

\* The page is left and entered again: the choice, what was typed and the mutation are
\* the component's and forgotten, what was loaded is the cache's.  A status under way is
\* written by Elsewhere, an adjustment now or never.
ReenterPage ==
    /\ chosen' = Unset /\ post' = NoPost /\ note' = FALSE
    /\ adjusted' \in {adjusted} \cup
          IF kind \in Counting /\ post.at = "sent" THEN {adjusted + 1} ELSE {}
    /\ UNCHANGED <<kind, status, shown, load, typed, unsure, old>>

----------------------------------------------------------------------------
(* The status pages.                                                       *)

\* The select has no PENDING_DELETION; that is the customer's own doing.
ChooseStatus(s) == /\ shown # Unset /\ s \in StatusOf(kind) /\ s \notin {chosen, "PENDING_DELETION"}
                   /\ chosen' = s
                   /\ UNCHANGED <<kind, status, shown, post, load, stockVars, old>>

ClickUpdate ==
    /\ kind \notin Counting /\ shown # Unset /\ post = NoPost
    /\ post' = IF chosen = Unset THEN [at |-> "sent", to |-> shown, chosen |-> FALSE]
               ELSE [at |-> "sent", to |-> chosen, chosen |-> TRUE]
    /\ Aged("post", "shown")
    /\ UNCHANGED <<kind, status, shown, chosen, load, stockVars>>

WriteStatus == /\ kind \notin Counting /\ post.at = "sent" /\ Permits(status, post.to)
               /\ status' = post.to
               /\ post' = [post EXCEPT !.at = "done"]
               /\ UNCHANGED <<kind, shown, chosen, load, stockVars, old>>

\* An error, of the table or of the way: the choice stays in the form.
UpdateFails == /\ kind \notin Counting /\ post # NoPost
               /\ post' = NoPost
               /\ UNCHANGED <<kind, status, shown, chosen, load, stockVars, old>>

UpdateAnswered == /\ kind \notin Counting /\ post.at = "done"
                  /\ post' = NoPost /\ chosen' = Unset /\ load' = "asked"
                  /\ UNCHANGED <<kind, status, shown, stockVars, old>>

----------------------------------------------------------------------------
(* Stock and refunds: the button needs a note or an amount, and a success  *)
(* clears it.  What a payment allows is in AfterSales.                     *)

TypeAdjustment == /\ kind \in Counting /\ shown = status /\ ~note /\ typed < MaxTyped
                  /\ note' = TRUE /\ typed' = typed + 1
                  /\ UNCHANGED <<kind, status, shown, chosen, post, load, adjusted, unsure, old>>

ClickAdjust == /\ kind \in Counting /\ note /\ post = NoPost
               /\ post' = [NoPost EXCEPT !.at = "sent"]
               /\ UNCHANGED <<kind, status, shown, chosen, load, stockVars, old>>

WriteAdjustment == /\ kind \in Counting /\ post.at = "sent"
                   /\ adjusted' = adjusted + 1
                   /\ post' = [post EXCEPT !.at = "done"]
                   /\ UNCHANGED <<kind, status, shown, chosen, load, typed, note, unsure, old>>

AdjustFails == /\ kind \in Counting /\ post # NoPost /\ unsure < MaxTyped
               /\ post' = NoPost
               /\ unsure' = IF post.at = "done" THEN unsure + 1 ELSE unsure
               /\ UNCHANGED <<kind, status, shown, chosen, load, typed, note, adjusted, old>>

AdjustAnswered == /\ kind \in Counting /\ post.at = "done"
                  /\ post' = NoPost /\ note' = FALSE /\ load' = "asked"
                  /\ UNCHANGED <<kind, status, shown, chosen, typed, adjusted, unsure, old>>

----------------------------------------------------------------------------
ConsoleNext ==
    \/ \E s \in StatusOf(kind) : Elsewhere(s) \/ StaleWrite(s) \/ ChooseStatus(s)
    \/ Load \/ ReadRecord \/ ShowRecord \/ ReenterPage
    \/ ClickUpdate \/ WriteStatus \/ UpdateFails \/ UpdateAnswered
    \/ TypeAdjustment \/ ClickAdjust \/ WriteAdjustment \/ AdjustFails \/ AdjustAnswered

ConsoleSpec == ConsoleInit /\ [][ConsoleNext]_consoleVars

----------------------------------------------------------------------------
\* An administrator who clicks without choosing sends the status the page has
\* loaded, however old: for an order it undoes nothing that has happened since, not
\* even what her own click before it did (AdminOrderDetail, changeStatus).  The exception
\* is an order that a stale capture or refund has taken back since: a page that was
\* loaded before that may send it forward again, as far as to CANCELLED
\* (payments.service.ts:163-168, 231-239).  A click that is carried out after its page
\* was left is a move of somebody else here.
UnchosenIsHarmless ==
    [][kind = "order" /\ WriteStatus /\ ~post.chosen /\ "post" \notin old => UNCHANGED status]_consoleVars

\* Stock is adjusted, and money refunded, once for what was typed once, unless an
\* answer is lost and the administrator tries again: stock has no key, and a refund
\* draws a new one with every click (AdminInventoryDetail, AdminOrderDetail).
AdjustedOncePerNote == adjusted <= typed + unsure

\* What the console does is what the administrator has asked for, once.
ClicksAreMeant == UnchosenIsHarmless /\ []AdjustedOncePerNote
=============================================================================
