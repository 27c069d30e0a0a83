--------------------------------- MODULE Bag ---------------------------------
(***************************************************************************)
(* The bag page of one tab: what it shows, the two mutations of its        *)
(* buttons and the query they invalidate (apps/web cart/page.tsx, the      *)
(* header's query under the same key, add-to-cart.tsx).  A stepper sends   *)
(* an absolute quantity computed from what is shown.  The query cache is   *)
(* TanStack Query as the page uses it: an invalidation cancels the fetch   *)
(* in flight and starts another, and a mutation whose onSuccess returns    *)
(* the invalidation is pending until that fetch is over or cancelled.      *)
(***************************************************************************)
EXTENDS Integers

CONSTANTS Variants,
          MaxUnits  \* bound on the units of a line

ASSUME BagAssumption == MaxUnits \in Nat

VARIABLES served,   \* units per variant in the cart the API answers with, 0: no line
          page,     \* lines: units shown; dead: shown lines whose row is gone, or is
                    \* of the other cart (guest or customer)
          update,   \* the stepper's mutation
          removal,  \* the remove button's mutation
          fetch,    \* the query's request, and the mutations that wait for it
          clean     \* no row has changed unseen by the page since its last fetch

bagVars == <<served, page, update, removal, fetch, clean>>

Stages == {"idle", "sent", "done", "settling"}
Rest == [at |-> "idle", of |-> {}, to |-> 0, clean |-> FALSE, dead |-> FALSE]
Blank == [v \in Variants |-> 0]
NoFetch == [at |-> "none", lines |-> Blank, dead |-> {}, clean |-> FALSE, for |-> {}]

BagInit == /\ served \in [Variants -> 0..MaxUnits]
           /\ page = [lines |-> Blank, dead |-> {}]
           /\ update = Rest /\ removal = Rest
           /\ fetch = NoFetch /\ clean = FALSE

----------------------------------------------------------------------------
(* Rows change: those that are gone are dead wherever they are named.      *)

Killed(m, gone) == IF m.of \cap gone # {} THEN [m EXCEPT !.dead = TRUE] ELSE m

\* Somebody else changes the rows: nothing the tab has read is sure any more.
Disturb(rows, gone) ==
    /\ served' = rows
    /\ page' = [page EXCEPT !.dead = @ \cup gone]
    /\ update' = [Killed(update, gone) EXCEPT !.clean = FALSE]
    /\ removal' = Killed(removal, gone)
    /\ fetch' = [fetch EXCEPT !.dead = @ \cup gone, !.clean = FALSE]
    /\ clean' = FALSE

\* The product page adds one unit and does not invalidate the query.
AddToCart(v) == /\ served[v] < MaxUnits
                /\ Disturb([served EXCEPT ![v] = @ + 1], {})

\* Another tab steps or removes, or a call that this one has made before its page was
\* left reaches the API.
OtherTab(v, q) == /\ served[v] # 0 /\ q # served[v]
                  /\ Disturb([served EXCEPT ![v] = q], IF q = 0 THEN {v} ELSE {})

\* Sign-in, sign-out, a session that expires (the calls answered 401 go to the
\* guest cart) or a checkout: the rows shown are not of this cart.
SwitchCart(rows) == Disturb(rows, Variants)

----------------------------------------------------------------------------
(* The query.                                                              *)

Settled(m, name) == IF name \in fetch.for THEN Rest ELSE m

\* A remount or a focused window asks when what is shown is old.
Refocus == /\ fetch.at = "none"
           /\ fetch' = [NoFetch EXCEPT !.at = "asked"]
           /\ UNCHANGED <<served, page, update, removal, clean>>

\* The page is left and entered again: the mutations are the component's and are
\* forgotten, the lines and the request in flight are the cache's and stay.  A step under
\* way is written by OtherTab; one that was written shows its old quantity until a fetch.
ReenterBag ==
    /\ update' = Rest /\ removal' = Rest
    /\ clean' = (clean /\ update.at \in {"idle", "sent"})
    /\ fetch' = [fetch EXCEPT !.for = {}, !.clean = @ /\ update.at # "done"]
    /\ UNCHANGED <<served, page>>

\* The API reads the cart.
LoadServed == /\ fetch.at = "asked"
              /\ fetch' = [fetch EXCEPT !.at = "read", !.lines = served, !.dead = {}, !.clean = TRUE]
              /\ UNCHANGED <<served, page, update, removal, clean>>

\* The header's query takes any error for a guest, and shows the other cart.
LoadFallback(lines) ==
    /\ fetch.at = "asked"
    /\ fetch' = [fetch EXCEPT !.at = "read", !.lines = lines, !.dead = Variants, !.clean = FALSE]
    /\ UNCHANGED <<served, page, update, removal, clean>>

Show(lines, dead, sure) ==
    /\ page' = [lines |-> lines, dead |-> dead]
    /\ clean' = sure
    /\ update' = Settled(update, "update") /\ removal' = Settled(removal, "removal")
    /\ fetch' = NoFetch
    /\ UNCHANGED served

LoadAnswered == fetch.at = "read" /\ Show(fetch.lines, fetch.dead, fetch.clean)

\* The page shows the error instead of the lines.
LoadFails == fetch.at # "none" /\ Show(Blank, {}, FALSE)

\* Mutant: the invalidation is not returned, so the buttons do not wait for it.
Invalidated_NotAwaited(m) == [NoFetch EXCEPT !.at = "asked"]

\* The fetch that mutation m starts when it invalidates the query.
Invalidated(m) == [NoFetch EXCEPT !.at = "asked", !.for = {m}]

\* Whoever waited for the cancelled fetch settles, on lines that are old.
Cancelled == fetch.for # {}

\* The answer of a call from before the page was left, or the wishlist's, which
\* invalidates the same key.
InvalidatedElsewhere ==
    /\ fetch' = [NoFetch EXCEPT !.at = "asked"]
    /\ update' = Settled(update, "update") /\ removal' = Settled(removal, "removal")
    /\ clean' = (clean /\ ~Cancelled)
    /\ UNCHANGED <<served, page>>

----------------------------------------------------------------------------
(* The steppers.  They are disabled while an update is pending, the minus at 1. *)

ClickStep(v, d) ==
    /\ update = Rest /\ page.lines[v] > 0
    /\ page.lines[v] + d \in 1..MaxUnits
    /\ update' = [at |-> "sent", of |-> {v}, to |-> page.lines[v] + d,
                  clean |-> clean, dead |-> v \in page.dead]
    /\ UNCHANGED <<served, page, removal, fetch, clean>>

\* A line that is gone or of the other cart is not found, and a quantity beyond
\* the stock is refused: the row stays and so does what is shown.
StepRefused == /\ update.at = "sent"
               /\ update' = Rest
               /\ UNCHANGED <<served, page, removal, fetch, clean>>

StepWrite(v) ==
    /\ update.at = "sent" /\ update.of = {v} /\ ~update.dead
    /\ served' = [served EXCEPT ![v] = update.to]
    /\ update' = [update EXCEPT !.at = "done"]
    /\ UNCHANGED <<page, removal, fetch, clean>>

StepAnswered ==
    /\ update.at = "done"
    /\ fetch' = Invalidated("update")
    /\ update' = IF fetch'.for = {} THEN Rest ELSE [update EXCEPT !.at = "settling"]
    /\ removal' = Settled(removal, "removal")
    /\ clean' = (clean /\ ~Cancelled)
    /\ UNCHANGED <<served, page>>

\* The answer is lost: the page still shows the old quantity, and may be right
\* only when a later fetch says so.
StepLost == /\ update.at = "done"
            /\ update' = Rest /\ clean' = FALSE
            /\ fetch' = [fetch EXCEPT !.clean = FALSE]
            /\ UNCHANGED <<served, page, removal>>

----------------------------------------------------------------------------
(* The remove button, which only waits for removals.                       *)

ClickRemove(v) ==
    /\ removal = Rest /\ page.lines[v] > 0
    /\ removal' = [Rest EXCEPT !.at = "sent", !.of = {v}, !.dead = v \in page.dead]
    /\ UNCHANGED <<served, page, update, fetch, clean>>

RemoveRefused == /\ removal.at = "sent"
                 /\ removal' = Rest
                 /\ UNCHANGED <<served, page, update, fetch, clean>>

RemoveWrite(v) ==
    /\ removal.at = "sent" /\ removal.of = {v} /\ ~removal.dead
    /\ served' = [served EXCEPT ![v] = 0]
    /\ removal' = [removal EXCEPT !.at = "done"]
    /\ page' = [page EXCEPT !.dead = @ \cup {v}]
    /\ update' = Killed(update, {v})
    /\ fetch' = [fetch EXCEPT !.dead = @ \cup {v}]
    /\ UNCHANGED clean

RemoveAnswered ==
    /\ removal.at = "done"
    /\ fetch' = Invalidated("removal")
    /\ removal' = IF fetch'.for = {} THEN Rest ELSE [removal EXCEPT !.at = "settling"]
    /\ update' = Settled(update, "update")
    /\ clean' = (clean /\ ~Cancelled)
    /\ UNCHANGED <<served, page>>

RemoveLost == /\ removal.at = "done"
              /\ removal' = Rest
              /\ UNCHANGED <<served, page, update, fetch, clean>>

----------------------------------------------------------------------------
BagNext ==
    \/ Refocus \/ ReenterBag \/ InvalidatedElsewhere \/ LoadServed \/ LoadAnswered \/ LoadFails
    \/ StepRefused \/ StepAnswered \/ StepLost
    \/ RemoveRefused \/ RemoveAnswered \/ RemoveLost
    \/ \E v \in Variants : \/ AddToCart(v) \/ StepWrite(v) \/ ClickRemove(v) \/ RemoveWrite(v)
                           \/ \E q \in 0..MaxUnits : OtherTab(v, q)
                           \/ \E d \in {1, -1} : ClickStep(v, d)
    \/ \E rows \in [Variants -> 0..MaxUnits] : SwitchCart(rows) \/ LoadFallback(rows)

BagSpec == BagInit /\ [][BagNext]_bagVars

----------------------------------------------------------------------------
\* A click on plus or minus changes the units of the line by one, though it sends
\* an absolute quantity and fetches come and go, unless the page could not know
\* better: another tab, the product page or a lost answer has changed the rows, the
\* page was left and entered again with a step under way or not yet shown, or another
\* invalidation has cut the refetch short (updateQuantity, remove).
StepIsExact ==
    [][\A v \in Variants : StepWrite(v) /\ update.clean
          => served'[v] - served[v] \in {1, -1}]_bagVars
=============================================================================
