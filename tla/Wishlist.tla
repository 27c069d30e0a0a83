------------------------------ MODULE Wishlist ------------------------------
(***************************************************************************)
(* The wishlist and its page: an item is moved to the cart by two calls of *)
(* the API, the cart's add and the removal, with nothing around them, and  *)
(* the page disables the buttons of one item at a time (apps/api           *)
(* wishlist.service.ts, apps/web wishlist.tsx, product-card.tsx).          *)
(* An item is a row.  The card's add sends no variant: the unique key does *)
(* not hold for NULL, so a product may have several, and the page offers   *)
(* to move none of them; only a row that names a variant has the button.   *)
(***************************************************************************)
EXTENDS Naturals

CONSTANTS Wishes,    \* rows of WishlistItem
          Calls,    \* calls of the page in flight at the same time
          NoItem

ASSUME WishlistAssumption == NoItem \notin Wishes \cup Calls

VARIABLES saved,    \* "none", "saved", "moved" or "removed", per row
          varied,   \* rows that name a variant
          carted,   \* units of the row in the cart; Many stands for every more
          call,     \* calls in flight; here: made since the page was entered last
          latest,   \* the call each useMutation watches
          active,   \* activeItemId
          listed,   \* rows the page shows: the query's cache, which outlives the page
          crossed   \* rows of which a call died, or overlapped one of another row or one
                    \* from before the page was left

wishlistVars == <<saved, varied, carted, call, latest, active, listed, crossed>>

Many == 2  \* bound on the units that are told apart
NoWish == [kind |-> "none", of |-> NoItem, at |-> "none", here |-> FALSE]

WishlistInit == /\ saved = [i \in Wishes |-> "none"] /\ varied = {}
                /\ carted = [i \in Wishes |-> 0]
                /\ call = [c \in Calls |-> NoWish]
                /\ latest = [k \in {"move", "remove"} |-> NoItem]
                /\ active = NoItem /\ listed = {} /\ crossed = {}

----------------------------------------------------------------------------
\* A product card, whose button waits for its own call, or a client that sends a
\* variant with it.
Save(i) == /\ saved[i] = "none"
           /\ saved' = [saved EXCEPT ![i] = "saved"]
           /\ varied' \in {varied, varied \cup {i}}
           /\ UNCHANGED <<carted, call, latest, active, listed, crossed>>

\* The query, and its refetch after either mutation, which nothing waits for.
List == /\ listed' = {i \in Wishes : saved[i] = "saved"}
        /\ UNCHANGED <<saved, varied, carted, call, latest, active, crossed>>

----------------------------------------------------------------------------
Pending(kind) == latest[kind] # NoItem

InFlight == {call[c].of : c \in Calls} \ {NoItem}

\* A call of another row, or one from before the page was left, is in flight.
OthersCalled(i) ==
    \E c \in Calls : call[c] # NoWish /\ (call[c].of # i \/ ~call[c].here)

\* The page is left and entered again: the state of its component is lost, calls and
\* the cached list are not.
ReenterWishlist ==
    /\ latest' = [k \in {"move", "remove"} |-> NoItem] /\ active' = NoItem
    /\ call' = [c \in Calls |-> [call[c] EXCEPT !.here = FALSE]]
    /\ UNCHANGED <<saved, varied, carted, listed, crossed>>

\* Mutant: the buttons do not wait.
CanClick_Always(kind, i) == i \in listed

\* What the row's buttons know of: the latest call, if activeItemId is this row,
\* and for the move the stock of its variant.
CanClick(kind, i) == /\ i \in listed /\ (kind = "move" => i \in varied)
                     /\ ~(active = i /\ \E k \in {"move", "remove"} : Pending(k))

Click(kind, i, c) ==
    /\ CanClick(kind, i) /\ call[c] = NoWish
    /\ call' = [call EXCEPT ![c] = [kind |-> kind, of |-> i, at |-> "sent", here |-> TRUE]]
    /\ latest' = [latest EXCEPT ![kind] = c]
    /\ active' = i
    /\ crossed' = crossed \cup IF OthersCalled(i) THEN InFlight \cup {i} ELSE {}
    /\ UNCHANGED <<saved, varied, carted, listed>>

----------------------------------------------------------------------------
At(c, kind, at) == call[c].kind = kind /\ call[c].at = at

\* moveToCart finds the row, puts a unit into the cart and removes the row.
MoveToCartFind(c) ==
    /\ At(c, "move", "sent") /\ saved[call[c].of] = "saved"
    /\ call' = [call EXCEPT ![c].at = "found"]
    /\ UNCHANGED <<saved, varied, carted, latest, active, listed, crossed>>

MoveToCartAdd(c) == LET i == call[c].of IN
    /\ At(c, "move", "found")
    /\ carted' = [carted EXCEPT ![i] = IF @ = Many THEN @ ELSE @ + 1]
    /\ call' = [call EXCEPT ![c].at = "added"]
    /\ UNCHANGED <<saved, varied, latest, active, listed, crossed>>

\* The row is gone, or no variant has the units: an error, and nothing changes.
MoveToCartRefused(c) ==
    /\ At(c, "move", "sent") \/ At(c, "move", "found")
    /\ call' = [call EXCEPT ![c].at = "answered"]
    /\ UNCHANGED <<saved, varied, carted, latest, active, listed, crossed>>

\* A row that is gone by then is an error after the fact.
MoveToCartRemove(c) == LET i == call[c].of IN
    /\ At(c, "move", "added")
    /\ saved' = [saved EXCEPT ![i] = IF @ = "saved" THEN "moved" ELSE @]
    /\ call' = [call EXCEPT ![c].at = "answered"]
    /\ UNCHANGED <<varied, carted, latest, active, listed, crossed>>

RemoveItem(c) == LET i == call[c].of IN
    /\ At(c, "remove", "sent")
    /\ saved' = [saved EXCEPT ![i] = IF @ = "saved" THEN "removed" ELSE @]
    /\ call' = [call EXCEPT ![c].at = "answered"]
    /\ UNCHANGED <<varied, carted, latest, active, listed, crossed>>

\* onSuccess and onError: no row is active, whichever call of this visit it was.
WishAnswered(c) ==
    /\ call[c].at = "answered"
    /\ call' = [call EXCEPT ![c] = NoWish]
    /\ latest' = [k \in {"move", "remove"} |-> IF latest[k] = c THEN NoItem ELSE latest[k]]
    /\ active' = IF call[c].here THEN NoItem ELSE active
    /\ UNCHANGED <<saved, varied, carted, listed, crossed>>

\* The process dies between two steps, or the answer is lost.
WishLost(c) ==
    /\ call[c] # NoWish
    /\ call' = [call EXCEPT ![c] = NoWish]
    /\ latest' = [k \in {"move", "remove"} |-> IF latest[k] = c THEN NoItem ELSE latest[k]]
    /\ active' = IF call[c].here THEN NoItem ELSE active
    /\ crossed' = crossed \cup {call[c].of}
    /\ UNCHANGED <<saved, varied, carted, listed>>

WishlistNext ==
    \/ List \/ ReenterWishlist
    \/ \E i \in Wishes : Save(i) \/ \E c \in Calls, k \in {"move", "remove"} : Click(k, i, c)
    \/ \E c \in Calls : \/ MoveToCartFind(c) \/ MoveToCartAdd(c) \/ MoveToCartRefused(c)
                        \/ MoveToCartRemove(c) \/ RemoveItem(c) \/ WishAnswered(c) \/ WishLost(c)

WishlistSpec == WishlistInit /\ [][WishlistNext]_wishlistVars

----------------------------------------------------------------------------
\* An item that has been moved is in the cart, and a customer who deals with one
\* row at a time, on lists that are stale, puts no unit there twice
\* (moveToCart, the buttons of AccountWishlist).  The buttons know nothing of a call made
\* before the page was left: a second click on its row, which the cached list still
\* offers, may add a second unit, and is excepted.
MovedOnce == \A i \in Wishes : /\ saved[i] = "moved" => carted[i] > 0
                               /\ i \notin crossed => carted[i] <= 1
=============================================================================
