---------------------------- MODULE CatalogProofs ----------------------------
(***************************************************************************)
(* Proofs about the catalog, the address book and the price of an order: a *)
(* lone move closes no cycle of categories, the aggregates of reviews      *)
(* count their rows, a product has one featured picture, variants keep     *)
(* their combination, a customer has one default address, and what the     *)
(* lines of an order add up to is its total.                               *)
(***************************************************************************)
EXTENDS AddressBook, Categories, Reviews, Library, ProductEditor, Pricing,
        FiniteSetTheorems, WellFoundedInduction, SequenceTheorems, TLAPS

-----------------------------------------------------------------------------
(* The address book                                                        *)

TabStates == [at : {"list", "form", "cleared"}, on : Entries \cup {NewEntry},
              default : BOOLEAN, cleared : SUBSET Entries]

\* A tab between its two updates sets a default and has cleared all the others;
\* there is one such tab, because the rows are locked.
AddressInv ==
    /\ entry \subseteq Entries /\ defaulted \subseteq entry
    /\ \A d, e \in defaulted : d = e
    /\ tab \in [Tabs -> TabStates]
    /\ \A s, t \in Tabs : tab[s].at = "cleared" /\ tab[t].at = "cleared" => s = t
    /\ \A t \in Tabs : tab[t].at = "cleared" =>
          tab[t].default /\ tab[t].cleared = defaulted \ {tab[t].on}
    /\ \A t \in Tabs : tab[t].at # "cleared" => tab[t].cleared = {}

LEMMA TickedIsATab ==
    ASSUME NEW q \in TabStates
    PROVE  /\ [q EXCEPT !.default = ~@] \in TabStates
           /\ [q EXCEPT !.default = ~@].at = q.at
           /\ [q EXCEPT !.default = ~@].cleared = q.cleared
BY DEF TabStates

Moved(q, at, c) == [q EXCEPT !.at = at, !.cleared = c]

LEMMA MovedIsATab ==
    ASSUME NEW q \in TabStates, NEW c \in SUBSET Entries, NEW at \in {"form", "cleared"}
    PROVE  /\ Moved(q, at, c) \in TabStates
           /\ Moved(q, at, c).at = at /\ Moved(q, at, c).cleared = c
           /\ Moved(q, at, c).on = q.on /\ Moved(q, at, c).default = q.default
BY DEF TabStates, Moved

LEMMA AddressStep ==
    ASSUME AddressInv, [AddressNext]_addressVars
    PROVE  AddressInv'
<1>. USE AddressBookAssumption DEF AddressInv
<1>0. AtList \in TabStates
  BY DEF AtList, TabStates
<1>1. ASSUME NEW t \in Tabs, TickDefault(t) PROVE AddressInv'
  <2>1. tab'[t] \in TabStates /\ tab'[t].at = "form" /\ tab'[t].cleared = {}
    <3>1. tab' = [tab EXCEPT ![t] = [tab[t] EXCEPT !.default = ~@]] /\ tab[t].at = "form"
      BY <1>1 DEF TickDefault
    <3>2. tab'[t] = [tab[t] EXCEPT !.default = ~@] /\ tab[t] \in TabStates
      BY <3>1
    <3> QED
      BY <3>1, <3>2, TickedIsATab
  <2> QED
    BY <1>1, <2>1 DEF TickDefault
<1>2. ASSUME NEW t \in Tabs, Cancel(t) PROVE AddressInv'
  BY <1>0, <1>2 DEF Cancel, AtList
<1>3. ASSUME NEW t \in Tabs, ClearDefaults(t) PROVE AddressInv'
  <2>1. /\ tab'[t] \in TabStates /\ tab'[t].at = "cleared" /\ tab'[t].default
        /\ tab'[t].cleared = defaulted \ {tab'[t].on}
    <3>1. /\ tab' = [tab EXCEPT ![t] = [tab[t] EXCEPT !.at = "cleared", !.cleared = Cleared(t)]]
          /\ tab[t].default /\ Cleared(t) \in SUBSET Entries
      BY <1>3 DEF ClearDefaults, Cleared
    <3>2. tab'[t] = Moved(tab[t], "cleared", Cleared(t)) /\ tab[t] \in TabStates
      BY <3>1 DEF Moved
    <3> QED
      BY <3>1, <3>2, MovedIsATab DEF Cleared
  <2>2. \A s \in Tabs : tab[s].at # "cleared"
    BY <1>3 DEF ClearDefaults, Locked
  <2>3. /\ tab' \in [Tabs -> TabStates] /\ \A s \in Tabs : s # t => tab'[s] = tab[s]
        /\ entry' = entry /\ defaulted' = defaulted
    BY <1>3, <2>1 DEF ClearDefaults
  <2> QED
    BY <2>1, <2>2, <2>3
<1>4. ASSUME NEW t \in Tabs, SaveRollsBack(t) PROVE AddressInv'
  <2>1. tab'[t] \in TabStates /\ tab'[t].at = "form" /\ tab'[t].cleared = {}
    <3>1. tab' = [tab EXCEPT ![t] = [tab[t] EXCEPT !.at = "form", !.cleared = {}]]
      BY <1>4 DEF SaveRollsBack
    <3>2. tab'[t] = Moved(tab[t], "form", {}) /\ tab[t] \in TabStates
      BY <3>1 DEF Moved
    <3> QED
      BY <3>2, MovedIsATab
  <2> QED
    BY <1>4, <2>1 DEF SaveRollsBack
<1>5. ASSUME NEW t \in Tabs, NEW e \in Entries, SaveAddress(t, e) PROVE AddressInv'
  <2>1. /\ tab' \in [Tabs -> TabStates] /\ \A s \in Tabs : s # t => tab'[s] = tab[s]
        /\ tab'[t].at = "list" /\ tab'[t].cleared = {}
    BY <1>0, <1>5 DEF SaveAddress, AtList
  <2>2. \A s \in Tabs : s # t => tab[s].at # "cleared"
    BY <1>5 DEF SaveAddress, Locked
  <2>3. entry' \subseteq Entries /\ defaulted' \subseteq entry'
    BY <1>5 DEF SaveAddress
  <2>4. \A d, f \in defaulted' : d = f
    <3>1. CASE tab[t].at = "cleared"
      <4>1. tab[t].cleared = defaulted \ {tab[t].on} /\ tab[t].default
        BY <3>1
      <4>2. tab[t].on = NewEntry => tab[t].on \notin defaulted
        OBVIOUS
      <4>3. defaulted' \subseteq {e}
        BY <1>5, <4>1, <4>2 DEF SaveAddress
      <4> QED
        BY <4>3
    <3>2. CASE tab[t].at # "cleared"
      BY <1>5, <3>2 DEF SaveAddress
    <3> QED
      BY <3>1, <3>2
  <2> QED
    BY <2>1, <2>2, <2>3, <2>4
<1>6. ASSUME NEW t \in Tabs, NEW e \in Entries, RemoveAddress(t, e) PROVE AddressInv'
  BY <1>6 DEF RemoveAddress, Locked
<1>7. ASSUME NEW t \in Tabs, NEW e \in Entries \cup {NewEntry}, NEW default \in BOOLEAN,
             EditForm(t, e, default)
      PROVE  AddressInv'
  <2>1. /\ [AtList EXCEPT !.at = "form", !.on = e, !.default = default] \in TabStates
        /\ [AtList EXCEPT !.at = "form", !.on = e, !.default = default].at = "form"
        /\ [AtList EXCEPT !.at = "form", !.on = e, !.default = default].cleared = {}
    BY DEF AtList, TabStates
  <2> QED
    BY <1>7, <2>1 DEF EditForm
<1>8. ASSUME UNCHANGED addressVars PROVE AddressInv'
  BY <1>8 DEF addressVars
<1> QED
  BY <1>1, <1>2, <1>3, <1>4, <1>5, <1>6, <1>7, <1>8 DEF AddressNext

\* With any number of tabs that save a default at the same time, from forms opened
\* before, the customer has one default address at most.
THEOREM AddressBookHasOneDefault == AddressSpec => []OneDefaultAddress
<1>1. AddressInit => AddressInv
  <2>1. AtList \in TabStates /\ AtList.at = "list" /\ AtList.cleared = {}
    BY DEF AtList, TabStates
  <2> QED
    BY <2>1 DEF AddressInit, AddressInv
<1>2. AddressInv => OneDefaultAddress
  <2>1. SUFFICES ASSUME AddressInv PROVE Cardinality(defaulted) <= 1
    BY DEF OneDefaultAddress
  <2>2. CASE defaulted = {}
    BY <2>2, FS_EmptySet
  <2>3. CASE defaulted # {}
    <3>1. PICK d \in defaulted : defaulted = {d}
      BY <2>1, <2>3 DEF AddressInv
    <3>2. Cardinality({d}) = 1
      BY FS_Singleton
    <3> QED
      BY <3>1, <3>2
  <2> QED
    BY <2>2, <2>3
<1> QED
  BY <1>1, <1>2, AddressStep, PTL DEF AddressSpec

-----------------------------------------------------------------------------
(* The category tree                                                       *)

Requests == [of : Categories \cup {Root}, to : Categories \cup {Root},
             cursor : Categories \cup {Root}, alone : BOOLEAN]

\* The categories a walk has passed: from the new parent up to the cursor, and
\* the category that moves is not among them.
Passed(q, A) == /\ q.of \notin A
                /\ q.to \in A \cup {q.cursor}
                /\ \A a \in A : parent[a] \in A \cup {q.cursor}

WalksAreSound ==
    \A m \in Movers : move[m].of # Root /\ move[m].alone =>
        \E A \in SUBSET Rows : Passed(move[m], A)

CategoriesInv ==
    /\ Rows \subseteq Categories
    /\ parent \in [Rows -> Rows \cup {Root}]
    /\ move \in [Movers -> Requests]
    /\ \A m \in Movers : /\ {move[m].of, move[m].to, move[m].cursor} \subseteq Rows \cup {Root}
                         /\ move[m].of = Root => move[m] = Still
    /\ WalksAreSound

LEMMA StillIsARequest ==
    Still \in Requests /\ Still.of = Root /\ Still.to = Root /\ Still.cursor = Root
BY DEF Still, Requests

LEMMA CategoriesStep ==
    ASSUME CategoriesInv, [CategoriesNext]_categoryVars
    PROVE  CategoriesInv'
<1>. USE CategoriesAssumption, StillIsARequest DEF CategoriesInv
<1>1. ASSUME NEW c \in Categories, NEW p \in Categories \cup {Root}, CreateCategory(c, p)
      PROVE  CategoriesInv'
  <2>1. /\ Rows' = Rows \cup {c} /\ c \notin Rows /\ move' = move
        /\ parent' \in [Rows' -> Rows' \cup {Root}]
        /\ \A a \in Rows : parent'[a] = parent[a]
    BY <1>1 DEF CreateCategory, Rows
  <2>2. WalksAreSound'
    <3>1. SUFFICES ASSUME NEW m \in Movers, move[m].of # Root, move[m].alone
                   PROVE  \E A \in SUBSET Rows' : Passed(move[m], A)'
      BY <2>1 DEF WalksAreSound
    <3>2. PICK A \in SUBSET Rows : Passed(move[m], A)
      BY <3>1 DEF WalksAreSound
    <3>3. Passed(move[m], A)'
      BY <2>1, <3>2 DEF Passed
    <3> QED
      BY <2>1, <3>3
  <2> QED
    BY <2>1, <2>2
<1>2. ASSUME NEW m \in Movers, NEW c \in Categories, NEW p \in Categories \cup {Root},
             MoveBegin(m, c, p)
      PROVE  CategoriesInv'
  <2>. DEFINE q == [of |-> c, to |-> p, cursor |-> p, alone |-> TRUE]
  <2>1. /\ move' = [move EXCEPT ![m] = q] /\ parent' = parent /\ Rows' = Rows
        /\ c \in Rows /\ p \in Rows \cup {Root} /\ c # Root
    BY <1>2 DEF MoveBegin, Rows
  <2>2. q \in Requests /\ q.of = c /\ q.to = p /\ q.cursor = p
    BY DEF Requests
  <2>3. WalksAreSound'
    <3>1. ASSUME NEW n \in Movers, move'[n].of # Root, move'[n].alone
          PROVE  \E A \in SUBSET Rows' : Passed(move[n], A)'
      <4>1. CASE n = m
        <5>1. Passed(move[n], {})'
          BY <2>1, <2>2, <4>1 DEF Passed
        <5> QED
          BY <5>1
      <4>2. CASE n # m
        <5>1. move'[n] = move[n]
          BY <2>1, <4>2
        <5>2. PICK A \in SUBSET Rows : Passed(move[n], A)
          BY <3>1, <5>1 DEF WalksAreSound
        <5>3. Passed(move[n], A)'
          BY <2>1, <5>1, <5>2 DEF Passed
        <5> QED
          BY <2>1, <5>3
      <4> QED
        BY <4>1, <4>2
    <3> QED
      BY <3>1 DEF WalksAreSound
  <2>. HIDE DEF q
  <2> QED
    BY <2>1, <2>2, <2>3
<1>3. ASSUME NEW m \in Movers, MoveWalk(m) PROVE CategoriesInv'
  <2>. DEFINE q == move[m]
  <2>1. /\ q.cursor # Root /\ q.cursor \in Rows /\ q \in Requests
        /\ parent' = parent /\ Rows' = Rows
        /\ \A n \in Movers : n # m => move'[n] = move[n]
        /\ move'[m] = IF q.cursor = q.of THEN Still ELSE [q EXCEPT !.cursor = parent[q.cursor]]
    BY <1>3 DEF MoveWalk, Rows
  <2>2. CASE q.cursor = q.of
    <3>1. move' \in [Movers -> Requests] /\ move'[m] = Still
      BY <1>3, <2>1, <2>2 DEF MoveWalk
    <3>2. WalksAreSound'
      BY <2>1, <3>1 DEF WalksAreSound, Passed
    <3> QED
      BY <2>1, <3>1, <3>2
  <2>3. CASE q.cursor # q.of
    <3>. DEFINE r == [q EXCEPT !.cursor = parent[q.cursor]]
    <3>1. /\ r \in Requests /\ r.of = q.of /\ r.to = q.to /\ r.alone = q.alone
          /\ r.cursor = parent[q.cursor]
      BY <2>1 DEF Requests
    <3>2. move'[m] = r /\ move' \in [Movers -> Requests] /\ q.of # Root
      BY <1>3, <2>1, <2>3, <3>1 DEF MoveWalk
    <3>. HIDE DEF r
    <3>3. ASSUME NEW n \in Movers, move'[n].of # Root, move'[n].alone
          PROVE  \E A \in SUBSET Rows' : Passed(move[n], A)'
      <4>1. CASE n = m
        <5>1. PICK A \in SUBSET Rows : Passed(q, A)
          BY <3>1, <3>2, <3>3, <4>1 DEF WalksAreSound
        <5>a. PICK B \in SUBSET Rows : B = A \cup {q.cursor}
          BY <2>1
        <5>2. /\ q.of \notin B /\ q.to \in B
              /\ \A a \in B : parent[a] \in B \cup {parent[q.cursor]}
          BY <2>3, <5>1, <5>a DEF Passed
        <5>3. B \in SUBSET Rows'
          BY <2>1
        <5>4. Passed(move[n], B)'
          <6>1. move'[n] = r
            BY <3>2, <4>1
          <6> QED
            BY <2>1, <3>1, <5>2, <6>1 DEF Passed
        <5> QED
          BY <5>3, <5>4
      <4>2. CASE n # m
        <5>1. PICK A \in SUBSET Rows : Passed(move[n], A)
          BY <2>1, <3>3, <4>2 DEF WalksAreSound
        <5>2. Passed(move[n], A)'
          BY <2>1, <4>2, <5>1 DEF Passed
        <5> QED
          BY <2>1, <5>2
      <4> QED
        BY <4>1, <4>2
    <3>4. WalksAreSound'
      BY <3>3 DEF WalksAreSound
    <3> QED
      BY <2>1, <3>1, <3>2, <3>4
  <2> QED
    BY <2>2, <2>3
<1>4. ASSUME NEW m \in Movers, MoveWrite(m) PROVE CategoriesInv'
  <2>1. move[m].of \in Rows /\ move[m].to \in Rows \cup {Root}
    BY <1>4 DEF MoveWrite
  <2>2. Rows' = Rows /\ parent' \in [Rows' -> Rows' \cup {Root}]
    BY <1>4, <2>1 DEF MoveWrite, Rows
  <2>3. ASSUME NEW n \in Movers
        PROVE  /\ move'[n] \in Requests
               /\ move'[n] = Still \/ ~move'[n].alone
               /\ move'[n].of = Root => move'[n] = Still
               /\ {move'[n].of, move'[n].to, move'[n].cursor} \subseteq Rows \cup {Root}
    <3>1. CASE n = m \/ move[n] = Still
      BY <1>4, <3>1 DEF MoveWrite
    <3>2. CASE ~(n = m \/ move[n] = Still)
      <4>1. move[n] \in Requests /\ move'[n] = [move[n] EXCEPT !.alone = FALSE]
        BY <1>4, <3>2 DEF MoveWrite
      <4>2. /\ move'[n] \in Requests /\ ~move'[n].alone
            /\ move'[n].of = move[n].of /\ move'[n].to = move[n].to
            /\ move'[n].cursor = move[n].cursor
        BY <4>1 DEF Requests
      <4> QED
        BY <3>2, <4>2
    <3> QED
      BY <3>1, <3>2
  <2>4. move' \in [Movers -> Requests]
    BY <1>4, <2>3 DEF MoveWrite
  <2>5. WalksAreSound'
    BY <2>3 DEF WalksAreSound
  <2> QED
    BY <2>2, <2>3, <2>4, <2>5
<1>5. ASSUME NEW c \in Categories, ArchiveCategory(c) PROVE CategoriesInv'
  BY <1>5 DEF ArchiveCategory, WalksAreSound, Passed, Rows
<1>6. ASSUME UNCHANGED categoryVars PROVE CategoriesInv'
  BY <1>6 DEF categoryVars, WalksAreSound, Passed, Rows
<1> QED
  BY <1>1, <1>2, <1>3, <1>4, <1>5, <1>6 DEF CategoriesNext

\* A walk that has ended has passed every category above the new parent: what was
\* a tree is a tree after the move.
LEMMA WalkedMoveKeepsTree ==
    ASSUME CategoriesInv, NEW m \in Movers, Tree(parent), move[m].alone, MoveWrite(m)
    PROVE  Tree(parent')
<1>. USE CategoriesAssumption DEF CategoriesInv
<1>. DEFINE q == move[m]
<1>1. q.of \in Rows /\ q.of # Root /\ q.cursor = Root /\ q.to \in Rows \cup {Root}
  BY DEF MoveWrite
<1>2. /\ DOMAIN parent' = Rows /\ parent'[q.of] = q.to
      /\ \A c \in Rows : c # q.of => parent'[c] = parent[c]
  BY <1>1 DEF MoveWrite, Rows
<1>3. PICK A \in SUBSET Rows : Passed(q, A)
  BY <1>1 DEF WalksAreSound
<1>4. SUFFICES ASSUME NEW S \in SUBSET Rows, S # {}
               PROVE  \E c \in S : parent'[c] \notin S
  BY <1>2 DEF Tree
<1>5. CASE q.of \notin S
  <2>1. PICK c \in S : parent[c] \notin S
    BY <1>4 DEF Tree, Rows
  <2> QED
    BY <1>2, <1>5, <2>1
<1>6. CASE q.of \in S /\ q.to \notin S
  BY <1>2, <1>6
<1>7. CASE q.to \in S
  <2>1. q.to \in S \cap A
    BY <1>1, <1>3, <1>7 DEF Passed
  <2>2. PICK c \in S \cap A : parent[c] \notin S \cap A
    BY <2>1 DEF Tree, Rows
  <2>3. c # q.of /\ parent[c] \in A \cup {Root} /\ Root \notin S
    BY <1>1, <1>3, <2>2 DEF Passed
  <2> QED
    BY <1>2, <2>2, <2>3
<1> QED
  BY <1>5, <1>6, <1>7

\* However the walk of a move interleaves with creations, other walks and archiving,
\* a move during which nobody else has moved a category closes no cycle.
THEOREM LoneMovesKeepTheTree == CategoriesSpec => LoneMoveKeepsTree
<1>1. CategoriesInit => CategoriesInv
  <2>1. ASSUME CategoriesInit PROVE CategoriesInv
    <3>1. Rows = {} /\ parent \in [{} -> {Root}] /\ \A m \in Movers : move[m] = Still
      BY <2>1 DEF CategoriesInit, Rows
    <3> QED
      BY <2>1, <3>1, StillIsARequest DEF CategoriesInit, CategoriesInv, WalksAreSound
  <2> QED
    BY <2>1
<1>2. CategoriesInv /\ [CategoriesNext]_categoryVars =>
        [\A m \in Movers : Tree(parent) /\ move[m].alone /\ MoveWrite(m)
            => Tree(parent)']_categoryVars
  BY WalkedMoveKeepsTree DEF Tree
<1> QED
  BY <1>1, <1>2, CategoriesStep, PTL DEF CategoriesSpec, LoneMoveKeepsTree

-----------------------------------------------------------------------------
(* Reviews                                                                 *)

Statuses == {"none"} \cup Decisions
Moderations == [on : {TRUE}, of : Bought, to : Decisions, seen : [Bought -> Statuses],
                alone : BOOLEAN]

ReviewsTypeOK ==
    /\ delivered \subseteq Bought /\ rated \subseteq Bought
    /\ review \in [Bought -> Statuses]
    /\ vote \in [Bought -> [Voters -> {"none", "helpful", "unhelpful"}]]
    /\ helpfulCount \in [Bought -> Int]
    /\ moderation \in [Moderators -> Moderations \cup {Off}]

\* Since the snapshot of a moderation that is alone reviews were only written.
AloneSeesAll ==
    \A m \in Moderators : moderation[m].on /\ moderation[m].alone =>
        /\ \A n \in Moderators : n # m => ~moderation[n].on
        /\ \A i \in Bought : review[i] = moderation[m].seen[i] \/ review[i] = "PENDING"
        /\ \A i \in Bought : review[i] # moderation[m].seen[i] => moderation[m].seen[i] = "none"

ReviewsInv == ReviewsTypeOK /\ HelpfulIsCounted /\ AloneSeesAll

LEMMA OffIsOff == Off.on = FALSE /\ Off \notin Moderations
BY DEF Off, Moderations

LEMMA ReviewsTypeStep ==
    ASSUME ReviewsTypeOK, [ReviewsNext]_reviewVars
    PROVE  ReviewsTypeOK'
<1>. USE DEF ReviewsTypeOK
<1>1. ASSUME NEW i \in Bought, DeliverItem(i) PROVE ReviewsTypeOK'
  BY <1>1 DEF DeliverItem
<1>2. ASSUME NEW i \in Bought, WriteReview(i) PROVE ReviewsTypeOK'
  BY <1>2 DEF WriteReview, Statuses, Decisions
<1>3. ASSUME NEW i \in Bought, NEW c \in Voters, NEW h \in BOOLEAN, Vote(c, i, h)
      PROVE  ReviewsTypeOK'
  <2>1. Delta(vote[i][c], h) \in Int
    BY DEF Delta
  <2>2. vote' \in [Bought -> [Voters -> {"none", "helpful", "unhelpful"}]]
    BY <1>3 DEF Vote
  <2> QED
    BY <1>3, <2>1, <2>2 DEF Vote
<1>4. ASSUME NEW i \in Bought, NEW m \in Moderators, NEW d \in Decisions, ModerateBegin(m, i, d)
      PROVE  ReviewsTypeOK'
  <2>1. \A n \in Moderators : moderation'[n] \in Moderations \cup {Off}
    BY <1>4, OffIsOff DEF ModerateBegin, Moderations
  <2> QED
    BY <1>4, <2>1 DEF ModerateBegin
<1>5. ASSUME NEW m \in Moderators, ModerateCommit(m) PROVE ReviewsTypeOK'
  <2>1. moderation[m] \in Moderations
    BY <1>5, OffIsOff DEF ModerateCommit
  <2>2. moderation[m].of \in Bought /\ moderation[m].to \in Statuses
    BY <2>1 DEF Moderations, Statuses
  <2> QED
    BY <1>5, <2>2 DEF ModerateCommit, Counted, Approved
<1>6. ASSUME NEW m \in Moderators, ModerateFail(m) PROVE ReviewsTypeOK'
  BY <1>6 DEF ModerateFail
<1>7. ASSUME UNCHANGED reviewVars PROVE ReviewsTypeOK'
  BY <1>7 DEF reviewVars
<1> QED
  BY <1>1, <1>2, <1>3, <1>4, <1>5, <1>6, <1>7 DEF ReviewsNext

\* One customer's vote changes the number of helpful votes by Delta.
LEMMA VoteIsCounted ==
    ASSUME IsFiniteSet(Voters), ReviewsTypeOK, HelpfulIsCounted,
           NEW i \in Bought, NEW c \in Voters, NEW h \in BOOLEAN, Vote(c, i, h)
    PROVE  HelpfulIsCounted'
<1>. DEFINE Helpful(v) == {d \in Voters : v[i][d] = "helpful"}
<1>1. /\ vote'[i] = [vote[i] EXCEPT ![c] = IF h THEN "helpful" ELSE "unhelpful"]
      /\ \A j \in Bought : j # i => vote'[j] = vote[j] /\ helpfulCount'[j] = helpfulCount[j]
      /\ helpfulCount'[i] = helpfulCount[i] + Delta(vote[i][c], h)
  BY DEF Vote, ReviewsTypeOK
<1>2. IsFiniteSet(Helpful(vote)) /\ Cardinality(Helpful(vote)) \in Nat
  BY FS_Subset, FS_CardinalityType
<1>3. vote[i] \in [Voters -> {"none", "helpful", "unhelpful"}]
  BY DEF ReviewsTypeOK
<1>4. Cardinality(Helpful(vote)) = helpfulCount[i]
  BY DEF HelpfulIsCounted
<1>5. ASSUME h
      PROVE  Cardinality(Helpful(vote')) = Cardinality(Helpful(vote)) + Delta(vote[i][c], h)
  <2>1. Helpful(vote') = Helpful(vote) \cup {c}
    BY <1>1, <1>3, <1>5
  <2>2. c \in Helpful(vote) <=> vote[i][c] = "helpful"
    OBVIOUS
  <2>. HIDE DEF Helpful
  <2>3. Cardinality(Helpful(vote) \cup {c}) =
          IF c \in Helpful(vote) THEN Cardinality(Helpful(vote)) ELSE Cardinality(Helpful(vote)) + 1
    BY <1>2, FS_AddElement
  <2> QED
    BY <1>2, <1>5, <2>1, <2>2, <2>3 DEF Delta
<1>6. ASSUME ~h
      PROVE  Cardinality(Helpful(vote')) = Cardinality(Helpful(vote)) + Delta(vote[i][c], h)
  <2>1. Helpful(vote') = Helpful(vote) \ {c}
    BY <1>1, <1>3, <1>6
  <2>2. c \in Helpful(vote) <=> vote[i][c] = "helpful"
    OBVIOUS
  <2>. HIDE DEF Helpful
  <2>3. Cardinality(Helpful(vote) \ {c}) =
          IF c \in Helpful(vote) THEN Cardinality(Helpful(vote)) - 1 ELSE Cardinality(Helpful(vote))
    BY <1>2, FS_RemoveElement
  <2> QED
    BY <1>2, <1>6, <2>1, <2>2, <2>3 DEF Delta
<1>7. Cardinality(Helpful(vote')) = helpfulCount'[i]
  BY <1>1, <1>5, <1>6, <1>4
<1>8. ASSUME NEW j \in Bought
      PROVE  helpfulCount'[j] = Cardinality({d \in Voters : vote'[j][d] = "helpful"})
  <2>1. CASE j = i
    BY <1>7, <2>1
  <2>2. CASE j # i
    <3>1. helpfulCount[j] = Cardinality({d \in Voters : vote[j][d] = "helpful"})
      BY DEF HelpfulIsCounted
    <3>2. vote'[j] = vote[j] /\ helpfulCount'[j] = helpfulCount[j]
      BY <1>1, <2>2
    <3> QED
      BY <3>1, <3>2
  <2> QED
    BY <2>1, <2>2
<1> QED
  BY <1>8 DEF HelpfulIsCounted

LEMMA CountStep ==
    ASSUME IsFiniteSet(Voters), ReviewsInv, [ReviewsNext]_reviewVars
    PROVE  HelpfulIsCounted'
<1>1. CASE UNCHANGED <<vote, helpfulCount>>
  BY <1>1 DEF ReviewsInv, HelpfulIsCounted
<1>2. ASSUME NEW i \in Bought, NEW c \in Voters, NEW h \in BOOLEAN, Vote(c, i, h)
      PROVE  HelpfulIsCounted'
  BY <1>2, VoteIsCounted DEF ReviewsInv
<1> QED
  BY <1>1, <1>2 DEF ReviewsNext, reviewVars, DeliverItem, WriteReview, ModerateBegin,
     ModerateCommit, ModerateFail

LEMMA AloneStep ==
    ASSUME ReviewsInv, [ReviewsNext]_reviewVars
    PROVE  AloneSeesAll'
<1>. USE DEF ReviewsInv, AloneSeesAll
<1>1. CASE UNCHANGED <<review, moderation>>
  BY <1>1
<1>2. ASSUME NEW i \in Bought, WriteReview(i) PROVE AloneSeesAll'
  <2>1. /\ review[i] = "none" /\ review'[i] = "PENDING"
        /\ \A j \in Bought : j # i => review'[j] = review[j]
        /\ moderation' = moderation
    BY <1>2 DEF WriteReview, ReviewsTypeOK
  <2> QED
    BY <2>1
<1>3. ASSUME NEW i \in Bought, NEW m \in Moderators, NEW d \in Decisions, ModerateBegin(m, i, d)
      PROVE  AloneSeesAll'
  <2>1. ASSUME NEW n \in Moderators, n # m, moderation'[n].on
        PROVE  ~moderation'[n].alone /\ moderation[n].on
    BY <1>3, <2>1, OffIsOff DEF ModerateBegin, ReviewsTypeOK, Moderations
  <2>2. /\ moderation'[m].seen = review /\ review' = review
        /\ moderation'[m].alone => {n \in Moderators : moderation[n].on} = {}
    BY <1>3 DEF ModerateBegin
  <2> QED
    BY <2>1, <2>2
<1>4. ASSUME NEW m \in Moderators, ModerateCommit(m) PROVE AloneSeesAll'
  <2>1. /\ moderation[m].on /\ ~moderation'[m].on
        /\ \A n \in Moderators : n # m => moderation'[n] = moderation[n]
    BY <1>4, OffIsOff DEF ModerateCommit, ReviewsTypeOK
  <2> QED
    BY <2>1
<1>5. ASSUME NEW m \in Moderators, ModerateFail(m) PROVE AloneSeesAll'
  <2>1. /\ ~moderation'[m].on /\ review' = review
        /\ \A n \in Moderators : n # m => moderation'[n] = moderation[n]
    BY <1>5, OffIsOff DEF ModerateFail, ReviewsTypeOK
  <2> QED
    BY <2>1
<1> QED
  BY <1>1, <1>2, <1>3, <1>4, <1>5 DEF ReviewsNext, reviewVars, DeliverItem, Vote

\* A decision that was alone from its snapshot to its commit counts the reviews that
\* are approved after it.
LEMMA AloneCommitIsExact ==
    ASSUME ReviewsInv, NEW m \in Moderators, ModerateCommit(m), moderation[m].alone,
           moderation[m].seen[moderation[m].of] # moderation[m].to
    PROVE  rated' = Approved(review')
<1>. DEFINE t == moderation[m]
<1>1. t \in Moderations /\ t.on
  BY OffIsOff DEF ModerateCommit, ReviewsInv, ReviewsTypeOK
<1>2. t.of \in Bought /\ t.seen \in [Bought -> Statuses]
  BY <1>1 DEF Moderations
<1>3. /\ rated' = Approved([t.seen EXCEPT ![t.of] = t.to])
      /\ review' = [review EXCEPT ![t.of] = t.to]
  BY DEF ModerateCommit, Counted
<1>4. \A i \in Bought : i # t.of => (review'[i] = "APPROVED" <=> t.seen[i] = "APPROVED")
  BY <1>1, <1>2, <1>3 DEF ReviewsInv, AloneSeesAll, ReviewsTypeOK
<1>5. review'[t.of] = t.to
  BY <1>2, <1>3 DEF ReviewsInv, ReviewsTypeOK
<1> QED
  BY <1>2, <1>3, <1>4, <1>5 DEF Approved

\* With finitely many voters the votes shown are the votes cast, and a decision that no
\* other one overlapped leaves the rating of the approved reviews.
THEOREM ReviewAggregatesAreExact ==
    ASSUME IsFiniteSet(Voters)
    PROVE  ReviewsSpec => AggregatesAreExact
<1>1. ReviewsInit => ReviewsInv
  <2>1. ASSUME ReviewsInit PROVE HelpfulIsCounted
    <3>1. \A i \in Bought : {c \in Voters : vote[i][c] = "helpful"} = {}
      BY <2>1 DEF ReviewsInit
    <3> QED
      BY <2>1, <3>1, FS_EmptySet DEF ReviewsInit, HelpfulIsCounted
  <2>2. ASSUME ReviewsInit PROVE ReviewsTypeOK /\ AloneSeesAll
    BY <2>2, OffIsOff DEF ReviewsInit, ReviewsTypeOK, AloneSeesAll, Statuses
  <2> QED
    BY <2>1, <2>2 DEF ReviewsInv
<1>2. ReviewsInv /\ [ReviewsNext]_reviewVars => ReviewsInv'
  BY ReviewsTypeStep, CountStep, AloneStep DEF ReviewsInv
<1>3. ReviewsInv => HelpfulIsCounted
  BY DEF ReviewsInv
<1>4. ReviewsInv /\ [ReviewsNext]_reviewVars =>
        [\A m \in Moderators :
          ModerateCommit(m) /\ moderation[m].alone
             /\ moderation[m].seen[moderation[m].of] # moderation[m].to
             => rated' = Approved(review')]_reviewVars
  BY AloneCommitIsExact
<1> QED
  BY <1>1, <1>2, <1>3, <1>4, PTL DEF ReviewsSpec, AggregatesAreExact, QuietDecisionIsExact

-----------------------------------------------------------------------------
(* The gallery                                                             *)

Items == [media : Pictures, featured : BOOLEAN]

\* What has a row is in the bucket unless a removal has been tried.
LibraryInv ==
    /\ media \subseteq Pictures /\ uploading \in Pictures \cup {NoPicture}
    /\ pictured \in Seq(Items) /\ inForm \in Seq(Items)
    /\ media \cup ({uploading} \ {NoPicture}) \subseteq object \cup doomed
    /\ \A i \in DOMAIN pictured : pictured[i].media \in object \cup doomed
    /\ pictured # <<>> =>
          \E i \in DOMAIN pictured : \A j \in DOMAIN pictured : pictured[j].featured <=> j = i

LEMMA ItemIsAnItem ==
    ASSUME NEW p \in Pictures, NEW f \in BOOLEAN
    PROVE  Item(p, f) \in Items /\ Item(p, f).media = p /\ Item(p, f).featured = f
BY DEF Item, Items

LEMMA ItemHasAMedia ==
    ASSUME NEW x \in Items PROVE x.media \in Pictures /\ x.featured \in BOOLEAN
BY DEF Items

LEMMA LeastIndex ==
    ASSUME NEW T \in SUBSET Nat, T # {}
    PROVE  \E x \in T : \A y \in T : ~(y < x)
<1>1. IsWellFoundedOn(OpToRel(<, Nat), Nat)
  BY NatLessThanWellFounded
<1>2. PICK x \in T : \A y \in T : <<y, x>> \notin OpToRel(<, Nat)
  BY <1>1, WFMin
<1>3. \A y \in T : <<y, x>> \in OpToRel(<, Nat) <=> y < x
  BY DEF OpToRel
<1> QED
  BY <1>2, <1>3

\* Whatever the form marks, one of its pictures is the featured one.
LEMMA OneIsFeatured ==
    ASSUME inForm \in Seq(Items), inForm # <<>>
    PROVE  \E i \in DOMAIN inForm : \A j \in DOMAIN inForm : Featured(j) <=> j = i
<1>1. DOMAIN inForm = 1..Len(inForm) /\ Len(inForm) \in Nat /\ 1 \in DOMAIN inForm
  BY EmptySeq, LenProperties
<1>2. CASE \E j \in DOMAIN inForm : inForm[j].featured
  <2>. DEFINE T == {j \in DOMAIN inForm : inForm[j].featured}
  <2>1. PICK i \in T : \A y \in T : ~(y < i)
    <3>1. T \in SUBSET Nat /\ T # {}
      BY <1>1, <1>2
    <3>. HIDE DEF T
    <3> QED
      BY <3>1, LeastIndex
  <2>2. ASSUME NEW j \in DOMAIN inForm PROVE Featured(j) <=> j = i
    <3>1. Featured(j) <=> (j \in T /\ \A k \in 1..j-1 : k \notin T)
      BY <1>1, <1>2 DEF Featured
    <3>2. i \in 1..Len(inForm) /\ j \in 1..Len(inForm) /\ T \subseteq 1..Len(inForm)
      BY <1>1
    <3>. HIDE DEF T
    <3> QED
      BY <1>1, <2>1, <3>1, <3>2
  <2> QED
    BY <2>2
<1>3. CASE ~ \E j \in DOMAIN inForm : inForm[j].featured
  BY <1>1, <1>3 DEF Featured
<1> QED
  BY <1>2, <1>3

LEMMA LibraryStep ==
    ASSUME LibraryInv, [LibraryNext]_libraryVars
    PROVE  LibraryInv'
<1>. USE LibraryAssumption DEF LibraryInv
<1>1. ASSUME NEW p \in Pictures, PutObject(p) PROVE LibraryInv'
  BY <1>1 DEF PutObject
<1>2. ASSUME NEW p \in Pictures, DeleteObject(p) PROVE LibraryInv'
  BY <1>2 DEF DeleteObject
<1>3. ASSUME CreateMedia PROVE LibraryInv'
  <2>1. Item(uploading, inForm = <<>>) \in Items
    BY <1>3, ItemIsAnItem DEF CreateMedia
  <2>2. inForm' \in Seq(Items)
    BY <1>3, <2>1, AppendProperties DEF CreateMedia
  <2> QED
    BY <1>3, <2>2 DEF CreateMedia
<1>4. ASSUME UploadStops PROVE LibraryInv'
  BY <1>4 DEF UploadStops
<1>5. ASSUME DeleteMedia PROVE LibraryInv'
  BY <1>5 DEF DeleteMedia
<1>6. ASSUME NEW i \in 1..MaxListed, Feature(i) PROVE LibraryInv'
  <2>1. Len(inForm) \in Nat /\ DOMAIN inForm = 1..Len(inForm)
    BY LenProperties
  <2>2. \A j \in 1..Len(inForm) : Item(inForm[j].media, j = i) \in Items
    BY ElementOfSeq, ItemIsAnItem, ItemHasAMedia
  <2>3. inForm' \in Seq(Items)
    BY <1>6, <2>1, <2>2 DEF Feature
  <2> QED
    BY <1>6, <2>3 DEF Feature
<1>7. ASSUME NEW i \in 1..MaxListed, Unlist(i) PROVE LibraryInv'
  <2>. DEFINE rest == RemoveAt(inForm, i)
  <2>1. Len(inForm) \in Nat /\ DOMAIN inForm = 1..Len(inForm) /\ i \in 1..Len(inForm)
    BY <1>7, LenProperties DEF Unlist
  <2>2. SubSeq(inForm, 1, i - 1) \in Seq(Items) /\ SubSeq(inForm, i + 1, Len(inForm)) \in Seq(Items)
    BY <2>1, ElementOfSeq, SubSeqProperties
  <2>3. rest \in Seq(Items)
    BY <2>2, ConcatProperties DEF RemoveAt
  <2>4. inForm' = [j \in DOMAIN rest |-> Item(rest[j].media, rest[j].featured \/ j = 1)]
    BY <1>7 DEF Unlist
  <2>. HIDE DEF rest
  <2>5. Len(rest) \in Nat /\ DOMAIN rest = 1..Len(rest)
    BY <2>3, LenProperties
  <2>6. \A j \in 1..Len(rest) : Item(rest[j].media, rest[j].featured \/ j = 1) \in Items
    BY <2>3, ElementOfSeq, ItemIsAnItem, ItemHasAMedia
  <2>7. inForm' \in Seq(Items)
    BY <2>4, <2>5, <2>6
  <2> QED
    BY <1>7, <2>7 DEF Unlist
<1>8. ASSUME OpenPictures PROVE LibraryInv'
  BY <1>8 DEF OpenPictures
<1>9. ASSUME SavePictures PROVE LibraryInv'
  <2>1. Len(inForm) \in Nat /\ DOMAIN inForm = 1..Len(inForm)
    BY LenProperties
  <2>2. \A j \in 1..Len(inForm) : inForm[j].media \in Pictures /\ Featured(j) \in BOOLEAN
    <3>1. ASSUME NEW j \in 1..Len(inForm) PROVE inForm[j] \in Items
      BY ElementOfSeq
    <3> QED
      BY <2>1, <3>1, ItemHasAMedia DEF Featured
  <2>3. /\ pictured' = [j \in 1..Len(inForm) |-> Item(inForm[j].media, Featured(j))]
        /\ inForm' = inForm /\ media' = media /\ object' = object /\ doomed' = doomed
        /\ uploading' = uploading
        /\ \A j \in 1..Len(inForm) : inForm[j].media \in media
    BY <1>9, <2>1 DEF SavePictures
  <2>4. \A j \in 1..Len(inForm) : /\ pictured'[j] \in Items
                                  /\ pictured'[j].media = inForm[j].media
                                  /\ pictured'[j].featured = Featured(j)
    BY <2>2, <2>3, ItemIsAnItem
  <2>5. \A j \in 1..Len(inForm) : Item(inForm[j].media, Featured(j)) \in Items
    BY <2>2, ItemIsAnItem
  <2>6. pictured' \in Seq(Items) /\ DOMAIN pictured' = 1..Len(inForm)
    BY <2>1, <2>3, <2>5
  <2>7. pictured' # <<>> => inForm # <<>>
    BY <2>3, <2>6, EmptySeq, LenProperties
  <2>8. pictured' # <<>> =>
          \E i \in DOMAIN pictured' : \A j \in DOMAIN pictured' : pictured'[j].featured <=> j = i
    BY <2>1, <2>4, <2>6, <2>7, OneIsFeatured
  <2> QED
    BY <2>3, <2>4, <2>6, <2>8
<1>10. ASSUME UNCHANGED libraryVars PROVE LibraryInv'
  BY <1>10 DEF libraryVars
<1> QED
  BY <1>1, <1>2, <1>3, <1>4, <1>5, <1>6, <1>7, <1>8, <1>9, <1>10 DEF LibraryNext

\* A product with pictures has exactly one featured picture, and its pictures are in
\* the bucket unless somebody has tried to remove them.
THEOREM GalleriesAreSound == LibrarySpec => []GalleryIsSound
<1>1. LibraryInit => LibraryInv
  BY EmptySeq DEF LibraryInit, LibraryInv
<1>2. LibraryInv => GalleryIsSound
  <2>1. SUFFICES ASSUME LibraryInv PROVE OneFeatured /\ PicturesAreThere
    BY DEF GalleryIsSound
  <2>2. OneFeatured
    <3>1. SUFFICES ASSUME pictured # <<>>
                   PROVE  Cardinality({i \in DOMAIN pictured : pictured[i].featured}) = 1
      BY DEF OneFeatured
    <3>2. PICK i \in DOMAIN pictured : \A j \in DOMAIN pictured : pictured[j].featured <=> j = i
      BY <2>1, <3>1 DEF LibraryInv
    <3>3. {j \in DOMAIN pictured : pictured[j].featured} = {i}
      BY <3>2
    <3> QED
      BY <3>3, FS_Singleton
  <2> QED
    BY <2>1, <2>2 DEF LibraryInv, PicturesAreThere
<1> QED
  BY <1>1, <1>2, LibraryStep, PTL DEF LibrarySpec

-----------------------------------------------------------------------------
(* The product form                                                        *)

Attributes == UNION {[D -> SUBSET Values] : D \in SUBSET Names}
VariantRow == [key : AllKeys, active : BOOLEAN]
VariantTables == UNION {[D -> VariantRow] : D \in SUBSET VariantIds}
FormRow == [id : VariantIds \cup {New}, active : BOOLEAN]
FormTables == UNION {[D -> FormRow] : D \in SUBSET AllKeys}
Products == [exists : BOOLEAN, attrs : Attributes, rows : VariantTables]
Forms == [open : BOOLEAN, attrs : Attributes, blank : BOOLEAN, rows : FormTables]

EditorTypeOK == product \in Products /\ cache \in Products /\ form \in Forms

NoRowsBefore == ~product.exists => DOMAIN product.rows = {}

\* However old the cached product is, its variants are variants still.
CacheAgrees ==
    \A v \in DOMAIN cache.rows : /\ v \in DOMAIN product.rows
                                 /\ product.rows[v].key = cache.rows[v].key

\* A row of the form stands for its combination, not for another one.
FormAgrees ==
    \A k \in DOMAIN form.rows : form.rows[k].id # New =>
        /\ form.rows[k].id \in DOMAIN product.rows
        /\ product.rows[form.rows[k].id].key = k

EditorInv == /\ EditorTypeOK /\ NoRowsBefore /\ CacheAgrees /\ FormAgrees
             /\ ActiveVariantsComparable

\* What VariantKeepsCombination asks of a step.
VariantsStay == \A v \in DOMAIN product.rows :
    v \in DOMAIN product'.rows /\ product'.rows[v].key = product.rows[v].key

LEMMA TablesAreFunctions ==
    /\ \A D \in SUBSET Names : [D -> SUBSET Values] \subseteq Attributes
    /\ \A D \in SUBSET VariantIds : [D -> VariantRow] \subseteq VariantTables
    /\ \A D \in SUBSET AllKeys : [D -> FormRow] \subseteq FormTables
    /\ \A a \in Attributes : DOMAIN a \subseteq Names /\ a \in [DOMAIN a -> SUBSET Values]
    /\ \A t \in VariantTables : DOMAIN t \subseteq VariantIds /\ t \in [DOMAIN t -> VariantRow]
    /\ \A t \in FormTables : DOMAIN t \subseteq AllKeys /\ t \in [DOMAIN t -> FormRow]
BY DEF Attributes, VariantTables, FormTables

LEMMA RowFields ==
    /\ \A r \in VariantRow : r.key \in AllKeys /\ r.active \in BOOLEAN
    /\ \A r \in FormRow : r.id \in VariantIds \cup {New} /\ r.active \in BOOLEAN
    /\ \A k \in AllKeys, a \in BOOLEAN : [key |-> k, active |-> a] \in VariantRow
    /\ \A v \in VariantIds \cup {New}, a \in BOOLEAN : [id |-> v, active |-> a] \in FormRow
    /\ \A r \in VariantRow : /\ [r EXCEPT !.active = FALSE] \in VariantRow
                             /\ [r EXCEPT !.active = FALSE].key = r.key
                             /\ [r EXCEPT !.active = FALSE].active = FALSE
    /\ \A r \in FormRow : /\ [r EXCEPT !.active = ~@] \in FormRow
                          /\ [r EXCEPT !.active = ~@].id = r.id
BY DEF VariantRow, FormRow

LEMMA ProductFields ==
    /\ \A p \in Products : /\ p.exists \in BOOLEAN /\ p.attrs \in Attributes
                           /\ p.rows \in VariantTables
    /\ \A f \in Forms : /\ f.open \in BOOLEAN /\ f.attrs \in Attributes /\ f.blank \in BOOLEAN
                        /\ f.rows \in FormTables
BY DEF Products, Forms

LEMMA EmptyIsEmpty == Empty \in Attributes /\ Empty \in VariantTables /\ Empty \in FormTables
                      /\ Default \in AllKeys /\ DOMAIN Empty = {}
<1>1. Empty \in [{} -> SUBSET Values] /\ Empty \in [{} -> VariantRow] /\ Empty \in [{} -> FormRow]
      /\ Empty \in [{} -> Values] /\ DOMAIN Empty = {}
  BY DEF Empty
<1> QED
  BY <1>1, TablesAreFunctions DEF Default, AllKeys

LEMMA NoProductIsEmpty ==
    /\ NoProduct \in Products /\ NoProduct.rows = Empty /\ ~NoProduct.exists
    /\ [NoProduct EXCEPT !.exists = TRUE] \in Products
    /\ [NoProduct EXCEPT !.exists = TRUE].rows = Empty
BY EmptyIsEmpty DEF NoProduct, Products

LEMMA CombinationsAreKeys ==
    ASSUME NEW a \in Attributes, NEW blank \in BOOLEAN
    PROVE  /\ Combinations(a, blank) \subseteq AllKeys
           /\ \A k \in Combinations(a, blank) : DOMAIN k = DOMAIN a
<1>1. DOMAIN a \subseteq Names
  BY TablesAreFunctions
<1>2. Combinations(a, blank) \subseteq [DOMAIN a -> Values]
  BY DEF Combinations
<1> QED
  BY <1>1, <1>2 DEF AllKeys

\* The form of a product has a row for each of its combinations.
LEMMA LoadedAgrees ==
    ASSUME NEW p \in Products
    PROVE  /\ Loaded(p) \in Forms
           /\ \A k \in DOMAIN Loaded(p).rows : /\ Loaded(p).rows[k].id \in DOMAIN p.rows
                                               /\ p.rows[Loaded(p).rows[k].id].key = k
<1>. DEFINE shown == {v \in DOMAIN p.rows : p.rows[v].key # Default}
            ids == {p.rows[v].key : v \in shown}
            id(k) == CHOOSE w \in shown : p.rows[w].key = k
            rows == [k \in ids |-> [id |-> id(k), active |-> p.rows[id(k)].active]]
<1>1. Loaded(p) = [open |-> TRUE, attrs |-> p.attrs, blank |-> FALSE, rows |-> rows]
  BY DEF Loaded
<1>2. ASSUME NEW k \in ids PROVE id(k) \in shown /\ p.rows[id(k)].key = k
  OBVIOUS
<1>3. /\ DOMAIN p.rows \subseteq VariantIds /\ p.attrs \in Attributes
      /\ \A v \in DOMAIN p.rows : p.rows[v] \in VariantRow
  BY ProductFields, TablesAreFunctions
<1>4. shown \subseteq DOMAIN p.rows
  OBVIOUS
<1>5. ids \subseteq AllKeys
  BY <1>3, <1>4, RowFields
<1>. HIDE DEF shown, ids, id
<1>6. \A k \in ids : [id |-> id(k), active |-> p.rows[id(k)].active] \in FormRow
  BY <1>2, <1>3, <1>4, RowFields
<1>7. rows \in [ids -> FormRow]
  BY <1>6
<1>8. rows \in FormTables
  BY <1>5, <1>7, TablesAreFunctions
<1>9. \A k \in DOMAIN rows : rows[k].id \in DOMAIN p.rows /\ p.rows[rows[k].id].key = k
  BY <1>2, <1>4
<1>. HIDE DEF rows
<1> QED
  BY <1>1, <1>3, <1>8, <1>9 DEF Forms

LEMMA ClosedIsEmpty == Closed \in Forms /\ DOMAIN Closed.rows = {}
<1>1. Loaded(NoProduct) \in Forms
  BY NoProductIsEmpty, LoadedAgrees
<1>2. DOMAIN Loaded(NoProduct).rows = {}
  BY NoProductIsEmpty, EmptyIsEmpty, LoadedAgrees
<1>3. \A f \in Forms : /\ [f EXCEPT !.open = FALSE] \in Forms
                       /\ [f EXCEPT !.open = FALSE].rows = f.rows
  BY DEF Forms
<1> QED
  BY <1>1, <1>2, <1>3 DEF Closed

-----------------------------------------------------------------------------
\* Typing in the form leaves a row with its combination or makes a new one.
LEMMA TypedKeepsRows ==
    ASSUME EditorTypeOK, FormAgrees, NEW a \in Attributes, NEW b \in BOOLEAN, Typed(a, b)
    PROVE  EditorTypeOK' /\ FormAgrees' /\ product' = product /\ cache' = cache
<1>1. product' = product /\ cache' = cache
  BY DEF Typed
<1>2. /\ DOMAIN form.rows \subseteq AllKeys
      /\ \A k \in DOMAIN form.rows : form.rows[k] \in FormRow
  BY ProductFields, TablesAreFunctions DEF EditorTypeOK
<1>3. Rebuilt(a, b) \in [Combinations(a, b) -> FormRow]
  BY <1>2, RowFields DEF Rebuilt
<1>4. Rebuilt(a, b) \in FormTables
  BY <1>3, CombinationsAreKeys, TablesAreFunctions
<1>5. form' \in Forms /\ form'.rows = Rebuilt(a, b)
  BY <1>4 DEF Typed, EditorTypeOK, Forms
<1>6. \A k \in Combinations(a, b) :
        Rebuilt(a, b)[k] = IF k \in DOMAIN form.rows THEN form.rows[k]
                           ELSE [id |-> New, active |-> TRUE]
  BY DEF Rebuilt
<1>7. FormAgrees'
  BY <1>1, <1>3, <1>5, <1>6 DEF FormAgrees
<1> QED
  BY <1>1, <1>5, <1>7 DEF EditorTypeOK

\* A save gives the rows of the form their ids, and no id to two of them.
LEMMA StoredIds ==
    ASSUME EditorTypeOK, FormAgrees,
           NEW created \in Injection({k \in DOMAIN form.rows : form.rows[k].id = New},
                                     VariantIds \ DOMAIN product.rows)
    PROVE  /\ Stored(created) \in [DOMAIN form.rows -> VariantIds]
           /\ \A k \in DOMAIN form.rows : Stored(created)[k] \in DOMAIN product.rows
                  => product.rows[Stored(created)[k]].key = k
<1>. DEFINE fresh == {k \in DOMAIN form.rows : form.rows[k].id = New}
<1>1. created \in [fresh -> VariantIds \ DOMAIN product.rows]
  BY DEF Injection
<1>2. \A k \in DOMAIN form.rows : form.rows[k].id \in VariantIds \cup {New}
  BY ProductFields, TablesAreFunctions, RowFields DEF EditorTypeOK
<1> QED
  BY <1>1, <1>2 DEF Stored, FormAgrees

\* The heart of the matter: a variant that is saved again keeps its combination,
\* and what is active afterwards are combinations of the form's attributes.
LEMMA SyncedKeepsVariants ==
    ASSUME EditorTypeOK, FormAgrees, Normal,
           NEW created \in Injection({k \in DOMAIN form.rows : form.rows[k].id = New},
                                     VariantIds \ DOMAIN product.rows)
    PROVE  LET rows == Synced(created) IN
           /\ rows \in VariantTables
           /\ \A v \in DOMAIN product.rows : v \in DOMAIN rows /\ rows[v].key = product.rows[v].key
           /\ \A v \in DOMAIN rows : rows[v].active => DOMAIN rows[v].key = DOMAIN form.attrs
<1>. DEFINE id == Stored(created)
            old == DOMAIN product.rows
            key(v) == CHOOSE k \in DOMAIN id : id[k] = v
            rows == Synced(created)
<1>1. /\ id \in [DOMAIN form.rows -> VariantIds]
      /\ \A k \in DOMAIN form.rows : id[k] \in old => product.rows[id[k]].key = k
  BY StoredIds
<1>2. /\ old \subseteq VariantIds /\ \A v \in old : product.rows[v] \in VariantRow
      /\ DOMAIN form.rows \subseteq AllKeys /\ \A k \in DOMAIN form.rows : form.rows[k] \in FormRow
      /\ form.attrs \in Attributes
  BY ProductFields, TablesAreFunctions DEF EditorTypeOK
<1>3. \A k \in DOMAIN form.rows : DOMAIN k = DOMAIN form.attrs
  BY <1>2, CombinationsAreKeys DEF Normal
<1>4. rows = [v \in old \cup Range(id) |->
               IF v \in Range(id) THEN [key |-> key(v), active |-> form.rows[key(v)].active]
               ELSE [product.rows[v] EXCEPT !.active = FALSE]]
  BY DEF Synced
<1>. HIDE DEF id, old, rows
<1>5. ASSUME NEW v \in Range(id) PROVE key(v) \in DOMAIN form.rows /\ id[key(v)] = v
  BY <1>1 DEF Range
<1>. HIDE DEF key
<1>6. Range(id) \subseteq VariantIds
  BY <1>1 DEF Range
<1>7. ASSUME NEW v \in old \cup Range(id)
      PROVE  /\ rows[v] \in VariantRow
             /\ v \in old => rows[v].key = product.rows[v].key
             /\ rows[v].active => DOMAIN rows[v].key = DOMAIN form.attrs
  <2>1. CASE v \in Range(id)
    <3>1. rows[v] = [key |-> key(v), active |-> form.rows[key(v)].active]
      BY <1>4, <2>1
    <3>2. rows[v].key = key(v) /\ key(v) \in AllKeys /\ form.rows[key(v)].active \in BOOLEAN
      BY <1>2, <1>5, <2>1, <3>1, RowFields
    <3>3. rows[v] \in VariantRow
      BY <3>1, <3>2, RowFields
    <3> QED
      BY <1>1, <1>3, <1>5, <2>1, <3>2, <3>3
  <2>2. CASE v \notin Range(id)
    <3>1. rows[v] = [product.rows[v] EXCEPT !.active = FALSE] /\ v \in old
      BY <1>4, <2>2
    <3> QED
      BY <1>2, <3>1, RowFields
  <2> QED
    BY <2>1, <2>2
<1>8. rows \in [old \cup Range(id) -> VariantRow]
  BY <1>4, <1>7
<1>9. rows \in VariantTables
  BY <1>2, <1>6, <1>8, TablesAreFunctions
<1>10. /\ \A v \in DOMAIN product.rows : v \in DOMAIN rows /\ rows[v].key = product.rows[v].key
       /\ \A v \in DOMAIN rows : rows[v].active => DOMAIN rows[v].key = DOMAIN form.attrs
  BY <1>7, <1>8 DEF old
<1> QED
  BY <1>9, <1>10 DEF rows

LEMMA UpsertedIsTyped == ASSUME EditorTypeOK PROVE Upserted \in Attributes
<1>1. product.attrs \in Attributes /\ form.attrs \in Attributes
  BY ProductFields DEF EditorTypeOK
<1>2. Upserted \in [DOMAIN product.attrs \cup DOMAIN form.attrs -> SUBSET Values]
  BY <1>1, TablesAreFunctions DEF Upserted
<1>3. DOMAIN product.attrs \cup DOMAIN form.attrs \in SUBSET Names
  BY <1>1, TablesAreFunctions
<1> QED
  BY <1>2, <1>3, TablesAreFunctions

LEMMA SaveVariantsStep ==
    ASSUME EditorInv, SaveVariants
    PROVE  EditorInv' /\ VariantsStay
<1>. USE DEF EditorInv
<1>1. PICK created \in Injection({k \in DOMAIN form.rows : form.rows[k].id = New},
                                 VariantIds \ DOMAIN product.rows) :
        product' = [exists |-> TRUE, attrs |-> Upserted, rows |-> Synced(created)]
  BY DEF SaveVariants
<1>2. Normal /\ form' = Closed /\ cache' = cache
  BY DEF SaveVariants
<1>3. /\ product'.rows \in VariantTables
      /\ \A v \in DOMAIN product.rows : /\ v \in DOMAIN product'.rows
                                        /\ product'.rows[v].key = product.rows[v].key
      /\ \A v \in DOMAIN product'.rows : product'.rows[v].active
            => DOMAIN product'.rows[v].key = DOMAIN form.attrs
  BY <1>1, <1>2, SyncedKeepsVariants
<1>4. product' \in Products /\ product'.exists
  BY <1>1, <1>3, UpsertedIsTyped DEF Products
<1>5. CacheAgrees'
  BY <1>2, <1>3 DEF CacheAgrees
<1>6. FormAgrees'
  BY <1>2, ClosedIsEmpty DEF FormAgrees
<1>7. EditorTypeOK' /\ NoRowsBefore'
  BY <1>2, <1>4, ClosedIsEmpty DEF EditorTypeOK, NoRowsBefore
<1> QED
  BY <1>3, <1>5, <1>6, <1>7 DEF ActiveVariantsComparable, VariantsStay

\* A step that leaves the product and the cache, and the form in order.
LEMMA FormStep ==
    ASSUME EditorInv, product' = product, cache' = cache, EditorTypeOK', FormAgrees'
    PROVE  EditorInv' /\ VariantsStay
BY DEF EditorInv, NoRowsBefore, CacheAgrees, ActiveVariantsComparable, VariantsStay

LEMMA TypingStep ==
    ASSUME EditorInv,
           \/ RemoveBlank
           \/ \E n \in Names :
                 \/ NameAttribute(n) \/ RemoveAttribute(n)
                 \/ \E to \in Names : RenameAttribute(n, to)
                 \/ \E values \in SUBSET Values : ChangeValues(n, values)
    PROVE  EditorInv' /\ VariantsStay
<1>. DEFINE old == DOMAIN form.attrs
<1>1. /\ form.attrs \in Attributes /\ form.blank \in BOOLEAN
      /\ old \subseteq Names /\ form.attrs \in [old -> SUBSET Values]
  BY ProductFields, TablesAreFunctions DEF EditorInv, EditorTypeOK
<1>2. ASSUME NEW a \in Attributes, NEW b \in BOOLEAN, Typed(a, b)
      PROVE  EditorInv' /\ VariantsStay
  BY <1>2, TypedKeepsRows, FormStep DEF EditorInv
<1>3. ASSUME NEW n \in Names, NameAttribute(n)
      PROVE  EditorInv' /\ VariantsStay
  <2>1. [m \in old \cup {n} |-> IF m = n THEN {} ELSE form.attrs[m]]
          \in [old \cup {n} -> SUBSET Values]
    BY <1>1
  <2>2. [m \in old \cup {n} |-> IF m = n THEN {} ELSE form.attrs[m]] \in Attributes
    BY <1>1, <2>1, TablesAreFunctions
  <2> QED
    BY <1>2, <1>3, <2>2 DEF NameAttribute
<1>4. ASSUME NEW n \in Names, RemoveAttribute(n)
      PROVE  EditorInv' /\ VariantsStay
  <2>1. Restrict(form.attrs, old \ {n}) \in [old \ {n} -> SUBSET Values]
    BY <1>1 DEF Restrict
  <2>2. Restrict(form.attrs, old \ {n}) \in Attributes
    BY <1>1, <2>1, TablesAreFunctions
  <2> QED
    BY <1>1, <1>2, <1>4, <2>2 DEF RemoveAttribute
<1>5. ASSUME NEW n \in Names, NEW to \in Names, RenameAttribute(n, to)
      PROVE  EditorInv' /\ VariantsStay
  <2>1. [m \in (old \ {n}) \cup {to} |-> form.attrs[IF m = to THEN n ELSE m]]
          \in [(old \ {n}) \cup {to} -> SUBSET Values]
    BY <1>1, <1>5 DEF RenameAttribute
  <2>2. [m \in (old \ {n}) \cup {to} |-> form.attrs[IF m = to THEN n ELSE m]] \in Attributes
    BY <1>1, <2>1, TablesAreFunctions
  <2> QED
    BY <1>1, <1>2, <1>5, <2>2 DEF RenameAttribute
<1>6. ASSUME NEW n \in Names, NEW values \in SUBSET Values, ChangeValues(n, values)
      PROVE  EditorInv' /\ VariantsStay
  <2>1. [form.attrs EXCEPT ![n] = values] \in [old -> SUBSET Values]
    BY <1>1
  <2>2. [form.attrs EXCEPT ![n] = values] \in Attributes
    BY <1>1, <2>1, TablesAreFunctions
  <2> QED
    BY <1>1, <1>2, <1>6, <2>2 DEF ChangeValues
<1>7. CASE RemoveBlank
  BY <1>1, <1>2, <1>7 DEF RemoveBlank
<1> QED
  BY <1>3, <1>4, <1>5, <1>6, <1>7

LEMMA SavePlainStep ==
    ASSUME EditorInv, SavePlain
    PROVE  EditorInv' /\ VariantsStay
<1>. USE DEF EditorInv
<1>1. form' = Closed /\ cache' = cache /\ FormAgrees'
  BY ClosedIsEmpty DEF SavePlain, FormAgrees
<1>2. CASE product.exists
  <2>1. product' = product /\ EditorTypeOK'
    BY <1>1, <1>2, ClosedIsEmpty DEF SavePlain, EditorTypeOK
  <2> QED
    BY <1>1, <2>1, FormStep
<1>3. CASE ~product.exists
  <2>1. PICK v \in VariantIds :
          product' = [exists |-> TRUE, attrs |-> Empty,
                      rows |-> [w \in {v} |-> [key |-> Default, active |-> TRUE]]]
    BY <1>3 DEF SavePlain
  <2>2. [w \in {v} |-> [key |-> Default, active |-> TRUE]] \in [{v} -> VariantRow]
    BY EmptyIsEmpty, RowFields
  <2>3. [w \in {v} |-> [key |-> Default, active |-> TRUE]] \in VariantTables
    BY <2>2, TablesAreFunctions
  <2>4. product' \in Products /\ product'.exists
    BY <2>1, <2>3, EmptyIsEmpty DEF Products
  <2>5. DOMAIN product.rows = {}
    BY <1>3 DEF NoRowsBefore
  <2>6. EditorTypeOK' /\ NoRowsBefore' /\ CacheAgrees' /\ VariantsStay
    BY <1>1, <2>4, <2>5, ClosedIsEmpty
       DEF EditorTypeOK, NoRowsBefore, CacheAgrees, VariantsStay
  <2>7. ActiveVariantsComparable'
    BY <2>1 DEF ActiveVariantsComparable
  <2> QED
    BY <1>1, <2>6, <2>7
<1> QED
  BY <1>2, <1>3

LEMMA EditorStep ==
    ASSUME EditorInv, [EditorNext]_editorVars
    PROVE  EditorInv' /\ VariantsStay
<1>1. CASE ImportProduct
  <2>1. /\ product' = [NoProduct EXCEPT !.exists = TRUE] /\ cache' = cache /\ form' = form
        /\ DOMAIN product.rows = {}
    BY <1>1 DEF ImportProduct, EditorInv, NoRowsBefore
  <2>2. product' \in Products /\ DOMAIN product'.rows = {}
    BY <2>1, NoProductIsEmpty, EmptyIsEmpty
  <2> QED
    BY <2>1, <2>2 DEF EditorInv, EditorTypeOK, NoRowsBefore, CacheAgrees, FormAgrees,
       ActiveVariantsComparable, VariantsStay
<1>2. CASE OpenForm
  <2>1. form' = Loaded(cache) /\ product' = product /\ cache' = cache
    BY <1>2 DEF OpenForm
  <2>2. EditorTypeOK' /\ FormAgrees'
    BY <2>1, LoadedAgrees DEF EditorInv, EditorTypeOK, CacheAgrees, FormAgrees
  <2> QED
    BY <2>1, <2>2, FormStep
<1>3. CASE Fetch
  BY <1>3 DEF Fetch, EditorInv, EditorTypeOK, NoRowsBefore, CacheAgrees, FormAgrees,
     ActiveVariantsComparable, VariantsStay
<1>4. CASE CloseForm
  <2>1. EditorTypeOK' /\ FormAgrees' /\ product' = product /\ cache' = cache
    BY <1>4, ClosedIsEmpty DEF CloseForm, EditorInv, EditorTypeOK, FormAgrees
  <2> QED
    BY <2>1, FormStep
<1>5. CASE AddAttribute
  <2>1. form' \in Forms /\ form'.rows = form.rows
    BY <1>5 DEF AddAttribute, EditorInv, EditorTypeOK, Forms
  <2>2. EditorTypeOK' /\ FormAgrees' /\ product' = product /\ cache' = cache
    BY <1>5, <2>1 DEF AddAttribute, EditorInv, EditorTypeOK, FormAgrees
  <2> QED
    BY <2>2, FormStep
<1>6. ASSUME NEW k \in AllKeys, ToggleActive(k) PROVE EditorInv' /\ VariantsStay
  <2>1. /\ k \in DOMAIN form.rows /\ product' = product /\ cache' = cache
        /\ form' = [form EXCEPT !.rows =
                      [form.rows EXCEPT ![k] = [form.rows[k] EXCEPT !.active = ~@]]]
    BY <1>6 DEF ToggleActive
  <2>2. /\ form \in Forms /\ form.rows \in [DOMAIN form.rows -> FormRow]
        /\ DOMAIN form.rows \subseteq AllKeys
    BY ProductFields, TablesAreFunctions DEF EditorInv, EditorTypeOK
  <2>. DEFINE rows == [form.rows EXCEPT ![k] = [form.rows[k] EXCEPT !.active = ~@]]
  <2>3. /\ rows \in [DOMAIN form.rows -> FormRow]
        /\ \A j \in DOMAIN form.rows : rows[j].id = form.rows[j].id
    BY <2>1, <2>2, RowFields
  <2>4. rows \in FormTables /\ DOMAIN rows = DOMAIN form.rows
    BY <2>2, <2>3, TablesAreFunctions
  <2>. HIDE DEF rows
  <2>5. form' \in Forms /\ form'.rows = rows
    BY <2>1, <2>2, <2>4 DEF Forms, rows
  <2>6. EditorTypeOK' /\ FormAgrees'
    BY <2>1, <2>3, <2>4, <2>5 DEF EditorInv, EditorTypeOK, FormAgrees
  <2> QED
    BY <2>1, <2>6, FormStep
<1>7. CASE UNCHANGED editorVars
  BY <1>7 DEF editorVars, EditorInv, EditorTypeOK, NoRowsBefore, CacheAgrees, FormAgrees,
     ActiveVariantsComparable, VariantsStay
<1> QED
  BY <1>1, <1>2, <1>3, <1>4, <1>5, <1>6, <1>7, TypingStep, SavePlainStep, SaveVariantsStep
     DEF EditorNext

\* With any number of attributes, values and variants, and forms filled from however
\* old a product, a variant keeps its combination and the active ones are comparable.
THEOREM EditedVariantsAreKept == EditorSpec => VariantsAreKept
<1>1. EditorInit => EditorInv
  BY NoProductIsEmpty, EmptyIsEmpty, ClosedIsEmpty DEF EditorInit, EditorInv, EditorTypeOK,
     NoRowsBefore, CacheAgrees, FormAgrees, ActiveVariantsComparable
<1>2. EditorInv => ActiveVariantsComparable
  BY DEF EditorInv
<1>3. EditorInv /\ [EditorNext]_editorVars =>
        [\A v \in DOMAIN product.rows :
          v \in DOMAIN product'.rows /\ product'.rows[v].key = product.rows[v].key]_editorVars
  BY EditorStep DEF VariantsStay
<1> QED
  BY <1>1, <1>2, <1>3, EditorStep, PTL
     DEF EditorSpec, VariantsAreKept, VariantKeepsCombination

-----------------------------------------------------------------------------
(* What an order costs                                                     *)

\* Induction over a set of numbers: no operator is a parameter.
LEMMA Induction ==
    ASSUME NEW S, 0 \in S, \A n \in Nat : n \in S => n + 1 \in S
    PROVE  \A n \in Nat : n \in S
<1>. SUFFICES ASSUME NEW z \in Nat, z \notin S PROVE FALSE
  OBVIOUS
<1>. DEFINE T == Nat \ S
<1>1. PICK x \in T : \A y \in T : ~(y < x)
  <2>1. T \in SUBSET Nat /\ T # {}
    OBVIOUS
  <2>. HIDE DEF T
  <2> QED
    BY <2>1, LeastIndex
<1>2. x # 0 /\ x - 1 \in Nat /\ x - 1 < x
  OBVIOUS
<1>3. x - 1 \in S
  BY <1>1, <1>2
<1> QED
  BY <1>2, <1>3

Unfolds(f, n, g) == g = [k \in 0..n |-> IF k = 0 THEN 0 ELSE g[k - 1] + f[k]]

\* The recursion of Sum defines a function.
LEMMA SumUnfolds ==
    ASSUME NEW f, NEW m \in Nat
    PROVE  \E g : Unfolds(f, m, g)
<1>. DEFINE S == {n \in Nat : \E g : Unfolds(f, n, g)}
<1>1. 0 \in S
  <2>. DEFINE g == [k \in 0..0 |-> 0]
  <2>1. Unfolds(f, 0, g)
    BY DEF Unfolds
  <2> QED
    BY <2>1
<1>2. ASSUME NEW n \in Nat, n \in S PROVE n + 1 \in S
  <2>1. PICK g : Unfolds(f, n, g)
    BY <1>2
  <2>. DEFINE h == [k \in 0..n+1 |-> IF k = n + 1 THEN g[n] + f[k] ELSE g[k]]
  <2>2. \A k \in 0..n : g[k] = IF k = 0 THEN 0 ELSE g[k - 1] + f[k]
    BY <2>1 DEF Unfolds
  <2>3. \A k \in 0..n+1 : h[k] = IF k = 0 THEN 0 ELSE h[k - 1] + f[k]
    BY <2>2
  <2>4. h = [k \in 0..n+1 |-> h[k]]
    OBVIOUS
  <2>5. Unfolds(f, n + 1, h)
    <3>. HIDE DEF h
    <3> QED
      BY <2>3, <2>4 DEF Unfolds
  <2> QED
    BY <2>5
<1>. HIDE DEF S
<1>3. \A n \in Nat : n \in S
  BY <1>1, <1>2, Induction
<1> QED
  BY <1>3 DEF S

\* What the first k amounts of f add up to, for every k, is g.
Heads(f, g) ==
    /\ DOMAIN g = 0..Len(f)
    /\ g[0] = 0
    /\ \A k \in 0..Len(f) : g[k] \in Int
    /\ \A k \in 1..Len(f) : g[k] = g[k - 1] + f[k]

LEMMA SumHasPrefixes ==
    ASSUME NEW f \in Seq(Int)
    PROVE  \E g : Heads(f, g) /\ Sum(f) = g[Len(f)]
<1>1. Len(f) \in Nat /\ \A k \in 1..Len(f) : f[k] \in Int
  BY LenProperties, ElementOfSeq
<1>. DEFINE g == CHOOSE h : Unfolds(f, Len(f), h)
<1>2. Unfolds(f, Len(f), g)
  <2>1. \E h : Unfolds(f, Len(f), h)
    BY <1>1, SumUnfolds
  <2> QED
    BY <2>1, Zenon
<1>3. Sum(f) = g[Len(f)]
  BY DEF Sum, Unfolds
<1>. HIDE DEF g
<1>4. DOMAIN g = 0..Len(f) /\ \A k \in 0..Len(f) : g[k] = IF k = 0 THEN 0 ELSE g[k - 1] + f[k]
  BY <1>2 DEF Unfolds
<1>5. \A k \in 1..Len(f) : g[k] = g[k - 1] + f[k]
  BY <1>1, <1>4
<1>. DEFINE S == {k \in Nat : k <= Len(f) => g[k] \in Int}
<1>6. 0 \in S
  BY <1>1, <1>4
<1>7. ASSUME NEW n \in Nat, n \in S PROVE n + 1 \in S
  BY <1>1, <1>5, <1>7
<1>. HIDE DEF S
<1>8. \A n \in Nat : n \in S
  BY <1>6, <1>7, Induction
<1>9. \A k \in 0..Len(f) : g[k] \in Int
  BY <1>1, <1>8 DEF S
<1> QED
  BY <1>1, <1>3, <1>4, <1>5, <1>9 DEF Heads

LEMMA SumIsInt ==
    ASSUME NEW f \in Seq(Int)
    PROVE  Sum(f) \in Int
<1>1. PICK g : Heads(f, g) /\ Sum(f) = g[Len(f)]
  BY SumHasPrefixes
<1> QED
  BY <1>1, LenProperties DEF Heads

LEMMA AmountsOf ==
    ASSUME NEW n \in Nat, NEW f, DOMAIN f = 1..n, \A i \in 1..n : f[i] \in Int,
           f = [i \in 1..n |-> f[i]]
    PROVE  f \in Seq(Int) /\ Len(f) = n
<1>1. f \in [1..n -> Int]
  BY Zenon
<1>2. f \in Seq(Int)
  BY <1>1, IsASeq
<1> QED
  BY <1>2, LenProperties

LEMMA SumAdds ==
    ASSUME NEW e \in Seq(Int), NEW f \in Seq(Int), NEW g \in Seq(Int),
           Len(f) = Len(e), Len(g) = Len(e), \A i \in 1..Len(e) : e[i] = f[i] + g[i]
    PROVE  Sum(e) = Sum(f) + Sum(g)
<1>1. PICK p : Heads(e, p) /\ Sum(e) = p[Len(e)]
  BY SumHasPrefixes
<1>2. PICK q : Heads(f, q) /\ Sum(f) = q[Len(f)]
  BY SumHasPrefixes
<1>3. PICK r : Heads(g, r) /\ Sum(g) = r[Len(g)]
  BY SumHasPrefixes
<1>4. Len(e) \in Nat /\ \A i \in 1..Len(e) : f[i] \in Int /\ g[i] \in Int
  BY LenProperties, ElementOfSeq
<1>. DEFINE S == {k \in Nat : k <= Len(e) => p[k] = q[k] + r[k]}
<1>5. 0 \in S
  BY <1>1, <1>2, <1>3 DEF Heads
<1>6. ASSUME NEW n \in Nat, n \in S PROVE n + 1 \in S
  <2>1. CASE n + 1 <= Len(e)
    <3>1. n + 1 \in 1..Len(e) /\ n \in 0..Len(e) /\ (n + 1) - 1 = n
      BY <1>4, <2>1
    <3>2. /\ p[n + 1] = p[n] + e[n + 1] /\ q[n + 1] = q[n] + f[n + 1]
          /\ r[n + 1] = r[n] + g[n + 1]
          /\ p[n] \in Int /\ q[n] \in Int /\ r[n] \in Int
      BY <1>1, <1>2, <1>3, <3>1 DEF Heads
    <3> QED
      BY <1>4, <1>6, <3>1, <3>2
  <2> QED
    BY <1>4, <2>1
<1>. HIDE DEF S
<1>7. Len(e) \in S
  BY <1>4, <1>5, <1>6, Induction
<1> QED
  BY <1>1, <1>2, <1>3, <1>4, <1>7 DEF S

LEMMA SumOfNothing ==
    ASSUME NEW f \in Seq(Int), \A i \in 1..Len(f) : f[i] = 0
    PROVE  Sum(f) = 0
<1>1. \A i \in 1..Len(f) : f[i] = f[i] + f[i]
  OBVIOUS
<1>2. Sum(f) = Sum(f) + Sum(f)
  BY <1>1, SumAdds
<1> QED
  BY <1>2, SumIsInt

LEMMA SumIsMonotone ==
    ASSUME NEW f \in Seq(Int), NEW g \in Seq(Int), Len(g) = Len(f),
           \A i \in 1..Len(f) : f[i] <= g[i]
    PROVE  Sum(f) <= Sum(g)
<1>1. PICK p : Heads(f, p) /\ Sum(f) = p[Len(f)]
  BY SumHasPrefixes
<1>2. PICK q : Heads(g, q) /\ Sum(g) = q[Len(g)]
  BY SumHasPrefixes
<1>3. Len(f) \in Nat /\ \A i \in 1..Len(f) : f[i] \in Int /\ g[i] \in Int
  BY LenProperties, ElementOfSeq
<1>. DEFINE S == {k \in Nat : k <= Len(f) => p[k] <= q[k]}
<1>4. 0 \in S
  BY <1>1, <1>2 DEF Heads
<1>5. ASSUME NEW n \in Nat, n \in S PROVE n + 1 \in S
  <2>1. CASE n + 1 <= Len(f)
    <3>1. n + 1 \in 1..Len(f) /\ n \in 0..Len(f) /\ (n + 1) - 1 = n
      BY <1>3, <2>1
    <3>2. /\ p[n + 1] = p[n] + f[n + 1] /\ q[n + 1] = q[n] + g[n + 1]
          /\ p[n] \in Int /\ q[n] \in Int
      BY <1>1, <1>2, <3>1 DEF Heads
    <3> QED
      BY <1>3, <1>5, <3>1, <3>2
  <2> QED
    BY <1>3, <2>1
<1>. HIDE DEF S
<1>6. Len(f) \in S
  BY <1>3, <1>4, <1>5, Induction
<1> QED
  BY <1>1, <1>2, <1>3, <1>6 DEF S

LEMMA SumIsNat ==
    ASSUME NEW f \in Seq(Int), \A i \in 1..Len(f) : f[i] >= 0
    PROVE  Sum(f) \in Nat
<1>. DEFINE none == [i \in 1..Len(f) |-> 0]
<1>1. none \in Seq(Int) /\ Len(none) = Len(f)
  BY LenProperties, AmountsOf
<1>2. Sum(none) = 0
  <2>1. \A i \in 1..Len(none) : none[i] = 0
    BY <1>1
  <2>. HIDE DEF none
  <2> QED
    BY <1>1, <2>1, SumOfNothing
<1>3. \A i \in 1..Len(none) : none[i] <= f[i]
  BY <1>1
<1>4. Sum(none) <= Sum(f)
  <2>. HIDE DEF none
  <2> QED
    BY <1>1, <1>3, SumIsMonotone
<1> QED
  BY <1>2, <1>4, SumIsInt

LEMMA Division ==
    ASSUME NEW n \in Int, NEW d \in Nat \ {0}
    PROVE  /\ n \div d \in Int
           /\ d * (n \div d) <= n /\ n < d * (n \div d) + d
OBVIOUS

LEMMA HalfUpIsNear ==
    ASSUME NEW n \in Int, NEW d \in Nat \ {0}
    PROVE  /\ HalfUp(n, d) \in Int
           /\ 2 * (d * HalfUp(n, d)) <= 2 * n + d
           /\ 2 * (d * HalfUp(n, d)) >= 2 * n - d
<1>1. CASE n >= 0
  <2>. DEFINE m == 2 * n + d
              b == 2 * d
              q == m \div b
  <2>1. q \in Int /\ b * q <= m /\ m < b * q + b
    <3>1. m \in Int /\ b \in Nat \ {0}
      OBVIOUS
    <3>. HIDE DEF m, b
    <3> QED
      BY <3>1, Division
  <2>2. HalfUp(n, d) = q
    BY <1>1 DEF HalfUp
  <2>. HIDE DEF q
  <2>3. b * q = 2 * (d * q)
    BY <2>1
  <2> QED
    BY <2>1, <2>2, <2>3
<1>2. CASE n < 0
  <2>. DEFINE m == d - 2 * n
              b == 2 * d
              q == m \div b
  <2>1. q \in Int /\ b * q <= m /\ m < b * q + b
    <3>1. m \in Int /\ b \in Nat \ {0}
      OBVIOUS
    <3>. HIDE DEF m, b
    <3> QED
      BY <3>1, Division
  <2>2. HalfUp(n, d) = -q
    BY <1>2 DEF HalfUp
  <2>. HIDE DEF q
  <2>3. b * q = 2 * (d * q)
    BY <2>1
  <2> QED
    BY <2>1, <2>2, <2>3
<1> QED
  BY <1>1, <1>2

LEMMA HalfUpIsBounded ==
    ASSUME NEW n \in Nat, NEW d \in Nat \ {0}, NEW a \in Nat, n <= a * d
    PROVE  HalfUp(n, d) \in 0..a
<1>1. HalfUp(n, d) \in Int /\ 2 * (d * HalfUp(n, d)) <= 2 * (a * d) + d
                         /\ 2 * (d * HalfUp(n, d)) >= -d
  <2>. DEFINE h == HalfUp(n, d)
              w == d * h
              m == a * d
  <2>1. h \in Int /\ 2 * w <= 2 * n + d /\ 2 * w >= 2 * n - d
    BY HalfUpIsNear
  <2>2. w \in Int /\ m \in Int
    BY <2>1
  <2>3. 2 * w <= 2 * m + d /\ 2 * w >= -d
    <3>. HIDE DEF w, m, h
    <3>1. n <= m
      BY DEF m
    <3> QED
      BY <2>1, <2>2, <3>1
  <2> QED
    BY <2>1, <2>3
<1>2. HalfUp(n, d) <= a
  <2>1. \A x, y \in Int : y > 0 /\ 2 * (y * x) <= 2 * (a * y) + y => x <= a
    <3> SUFFICES ASSUME NEW x \in Int, NEW y \in Int, y > 0, x >= a + 1 PROVE 2 * (y * x) > 2 * (a * y) + y
      OBVIOUS
    <3>1. y * x >= y * (a + 1)
      OBVIOUS
    <3> QED
      BY <3>1
  <2> QED
    BY <1>1, <2>1
<1>3. HalfUp(n, d) >= 0
  <2>1. \A x, y \in Int : y > 0 /\ 2 * (y * x) >= -y => x >= 0
    <3> SUFFICES ASSUME NEW x \in Int, NEW y \in Int, y > 0, x <= -1 PROVE 2 * (y * x) < -y
      OBVIOUS
    <3>1. y * x <= y * (-1)
      OBVIOUS
    <3> QED
      BY <3>1
  <2> QED
    BY <1>1, <2>1
<1> QED
  BY <1>1, <1>2, <1>3
LEMMA ProductIsMonotone ==
    ASSUME NEW x \in Int, NEW y \in Int, NEW k \in Nat \ {0}, k * x <= k * y
    PROVE  x <= y
<1>. SUFFICES ASSUME x >= y + 1 PROVE FALSE
  OBVIOUS
<1>1. k * x >= k * (y + 1)
  OBVIOUS
<1>2. k * (y + 1) = k * y + k
  OBVIOUS
<1> QED
  BY <1>1, <1>2

LEMMA SpreadOneMore ==
    ASSUME NEW t \in Int, NEW D \in Int, NEW k \in Int,
           NEW q \in Int, NEW d \in Int, NEW p \in Int, NEW s \in Int
    PROVE  /\ 2 * (t * (q + d)) = 2 * (t * q) + 2 * (t * d)
           /\ 2 * (D * (p + s)) = 2 * (D * p) + 2 * (D * s)
           /\ (k + 1) * t = k * t + t
           /\ t * q \in Int /\ t * d \in Int /\ D * p \in Int /\ D * s \in Int /\ k * t \in Int
<1>1. t * (q + d) = t * q + t * d /\ D * (p + s) = D * p + D * s
  OBVIOUS
<1>2. t * q \in Int /\ t * d \in Int /\ D * p \in Int /\ D * s \in Int
  OBVIOUS
<1>3. \A x, y \in Int : 2 * (x + y) = 2 * x + 2 * y
  OBVIOUS
<1> QED
  BY <1>1, <1>2, <1>3

\* A line's share x of D is near when it is off by half a unit at most.
IsNear(t, D, s, x, n) == /\ 2 * (t * x) <= 2 * (D * s) + n * t
                        /\ 2 * (t * x) >= 2 * (D * s) - n * t

LEMMA NearOneMore ==
    ASSUME NEW t \in Int, NEW D \in Int, NEW k \in Int,
           NEW q \in Int, NEW d \in Int, NEW p \in Int, NEW s \in Int,
           IsNear(t, D, p, q, k), IsNear(t, D, s, d, 1)
    PROVE  IsNear(t, D, p + s, q + d, k + 1)
<1>. DEFINE tq == t * q
            td == t * d
            dp == D * p
            ds == D * s
            kt == k * t
<1>1. tq \in Int /\ td \in Int /\ dp \in Int /\ ds \in Int /\ kt \in Int
  BY SpreadOneMore
<1>2. 2 * (t * (q + d)) = 2 * tq + 2 * td /\ 2 * (D * (p + s)) = 2 * dp + 2 * ds /\ (k + 1) * t = kt + t
  BY SpreadOneMore
<1>3. 2 * tq <= 2 * dp + kt /\ 2 * tq >= 2 * dp - kt /\ 2 * td <= 2 * ds + 1 * t /\ 2 * td >= 2 * ds - 1 * t
  BY DEF IsNear
<1>. HIDE DEF tq, td, dp, ds, kt
<1>4. /\ 2 * tq + 2 * td <= 2 * dp + 2 * ds + (kt + t)
      /\ 2 * tq + 2 * td >= 2 * dp + 2 * ds - (kt + t)
  BY <1>1, <1>3
<1> QED
  BY <1>2, <1>4 DEF IsNear

\* An amount spread over the lines in proportion, each share rounded by half a unit
\* at most, is spread up to half a unit for each line.
LEMMA SpreadAddsUp ==
    ASSUME NEW s \in Seq(Int), NEW d \in Seq(Int), Len(d) = Len(s), NEW D \in Int,
           Sum(s) \in Nat \ {0},
           \A i \in 1..Len(s) : IsNear(Sum(s), D, s[i], d[i], 1)
    PROVE  2 * Sum(d) <= 2 * D + Len(s) /\ 2 * Sum(d) >= 2 * D - Len(s)
<1>. DEFINE n == Len(s)
            t == Sum(s)
<1>1. PICK p : Heads(s, p) /\ t = p[n]
  BY SumHasPrefixes
<1>2. PICK q : Heads(d, q) /\ Sum(d) = q[n]
  BY SumHasPrefixes
<1>3. n \in Nat /\ \A i \in 1..n : s[i] \in Int /\ d[i] \in Int /\ IsNear(t, D, s[i], d[i], 1)
  BY LenProperties, ElementOfSeq
<1>. HIDE DEF t
<1>4. t \in Nat \ {0}
  BY DEF t
<1>. DEFINE S == {k \in Nat : k <= n => IsNear(t, D, p[k], q[k], k)}
<1>5. 0 \in S
  <2>1. p[0] = 0 /\ q[0] = 0
    BY <1>1, <1>2 DEF Heads
  <2>2. IsNear(t, D, 0, 0, 0)
    BY <1>4 DEF IsNear
  <2> QED
    BY <2>1, <2>2
<1>6. ASSUME NEW k \in Nat, k \in S PROVE k + 1 \in S
  <2>1. CASE k + 1 <= n
    <3>1. k + 1 \in 1..n /\ k \in 0..n /\ (k + 1) - 1 = k
      BY <1>3, <2>1
    <3>2. /\ p[k + 1] = p[k] + s[k + 1] /\ q[k + 1] = q[k] + d[k + 1]
          /\ p[k] \in Int /\ q[k] \in Int
      BY <1>1, <1>2, <3>1 DEF Heads
    <3>3. IsNear(t, D, s[k + 1], d[k + 1], 1) /\ s[k + 1] \in Int /\ d[k + 1] \in Int
      BY <1>3, <3>1
    <3>4. IsNear(t, D, p[k], q[k], k)
      BY <1>3, <1>6, <2>1
    <3>5. IsNear(t, D, p[k] + s[k + 1], q[k] + d[k + 1], k + 1)
      <4>. DEFINE pk == p[k]
                  qk == q[k]
                  sk == s[k + 1]
                  dk == d[k + 1]
      <4>1. pk \in Int /\ qk \in Int /\ sk \in Int /\ dk \in Int /\ t \in Int /\ k \in Int
        BY <1>4, <3>2, <3>3
      <4>2. IsNear(t, D, pk, qk, k) /\ IsNear(t, D, sk, dk, 1)
        BY <3>3, <3>4
      <4>. HIDE DEF pk, qk, sk, dk
      <4>3. IsNear(t, D, pk + sk, qk + dk, k + 1)
        BY ONLY <4>1, <4>2, NearOneMore, D \in Int
      <4> QED
        BY <4>3 DEF pk, qk, sk, dk
    <3> QED
      BY <3>2, <3>5
  <2> QED
    BY <1>3, <2>1
<1>. HIDE DEF S
<1>7. n \in S
  BY <1>3, <1>5, <1>6, Induction
<1>8. IsNear(t, D, t, Sum(d), n)
  BY <1>1, <1>2, <1>3, <1>7 DEF S
<1>. DEFINE x == Sum(d)
<1>9. x \in Int
  BY SumIsInt
<1>. HIDE DEF x, n
<1>10. t * (2 * x) <= t * (2 * D + n) /\ t * (2 * D - n) <= t * (2 * x)
  <2>1. 2 * (t * x) = t * (2 * x) /\ 2 * (D * t) + n * t = t * (2 * D + n)
        /\ 2 * (D * t) - n * t = t * (2 * D - n)
    BY <1>3, <1>4, <1>9
  <2> QED
    BY <1>3, <1>4, <1>8, <1>9, <2>1 DEF IsNear, x
<1>11. 2 * x <= 2 * D + n /\ 2 * D - n <= 2 * x
  BY <1>3, <1>4, <1>9, <1>10, ProductIsMonotone
<1> QED
  BY <1>3, <1>9, <1>11 DEF x, n
PricingInv == /\ bag \in Seq(Lines) /\ coupon \in Coupons \cup {NoCoupon} /\ method \in Shippings
              /\ order.placed => MoneyAddsUp

LEMMA LinesOfTheBag ==
    ASSUME bag \in Seq(Lines)
    PROVE  /\ Len(bag) \in Nat /\ DOMAIN bag = 1..Len(bag)
           /\ \A i \in DOMAIN bag : /\ bag[i].rate \in Nat /\ LineSubtotal(bag[i]) \in Nat
<1>1. Len(bag) \in Nat /\ DOMAIN bag = 1..Len(bag)
  BY LenProperties
<1>2. ASSUME NEW i \in DOMAIN bag PROVE bag[i].rate \in Nat /\ LineSubtotal(bag[i]) \in Nat
  <2>1. bag[i] \in Lines
    BY <1>1, <1>2, ElementOfSeq
  <2>2. bag[i].rate \in Rates /\ bag[i].price \in Prices /\ bag[i].quantity \in 1..MaxQuantity
    BY <2>1 DEF Lines
  <2>3. bag[i].rate \in Nat /\ bag[i].price \in Nat /\ bag[i].quantity \in Nat
    <3>1. Rates \subseteq Nat /\ Prices \subseteq Nat /\ MaxQuantity \in Nat
      BY PricingAssumption, Zenon
    <3>2. bag[i].rate \in Nat /\ bag[i].price \in Nat
      BY <2>2, <3>1, Zenon
    <3>3. bag[i].quantity \in Nat
      BY <2>2, <3>1
    <3> QED
      BY <3>2, <3>3
  <2> QED
    BY <2>3 DEF LineSubtotal
<1> QED
  BY <1>1, <1>2

LEMMA Subtotals ==
    ASSUME bag \in Seq(Lines), NEW c
    PROVE  /\ LineSubtotals \in Seq(Int) /\ Len(LineSubtotals) = Len(bag)
           /\ Subtotal \in Nat
           /\ EligibleSubtotal(c) \in 0..Subtotal
<1>1. /\ Len(bag) \in Nat /\ DOMAIN bag = 1..Len(bag)
      /\ \A i \in 1..Len(bag) : LineSubtotal(bag[i]) \in Nat
  BY LinesOfTheBag
<1>2. \A i \in 1..Len(bag) : LineSubtotals[i] \in Nat /\ EligibleLines(c)[i] \in Nat
                            /\ EligibleLines(c)[i] <= LineSubtotals[i]
  BY <1>1 DEF LineSubtotals, EligibleLines
<1>3. LineSubtotals \in Seq(Int) /\ Len(LineSubtotals) = Len(bag)
  <2>1. LineSubtotals = [i \in 1..Len(bag) |-> LineSubtotals[i]] /\ DOMAIN LineSubtotals = 1..Len(bag)
    BY <1>1 DEF LineSubtotals
  <2>2. \A i \in 1..Len(bag) : LineSubtotals[i] \in Int
    BY <1>2
  <2> QED
    BY <1>1, <2>1, <2>2, AmountsOf
<1>4. EligibleLines(c) \in Seq(Int) /\ Len(EligibleLines(c)) = Len(bag)
  <2>. DEFINE e == EligibleLines(c)
  <2>1. e = [i \in 1..Len(bag) |-> e[i]] /\ DOMAIN e = 1..Len(bag)
    BY <1>1 DEF EligibleLines
  <2>2. \A i \in 1..Len(bag) : e[i] \in Int
    BY <1>2
  <2>. HIDE DEF e
  <2>3. e \in Seq(Int) /\ Len(e) = Len(bag)
    BY <1>1, <2>1, <2>2, AmountsOf
  <2> QED
    BY <2>3 DEF e
<1>5. Subtotal \in Nat
  BY <1>2, <1>3, SumIsNat DEF Subtotal
<1>6. EligibleSubtotal(c) \in Nat
  BY <1>2, <1>4, SumIsNat DEF EligibleSubtotal
<1>7. EligibleSubtotal(c) <= Subtotal
  BY <1>2, <1>3, <1>4, SumIsMonotone DEF EligibleSubtotal, Subtotal
<1> QED
  BY <1>3, <1>5, <1>6, <1>7

LEMMA PercentageOf ==
    ASSUME NEW a \in Nat, NEW v \in Nat
    PROVE  /\ Percentage(a, v) \in Nat
           /\ a = 0 => Percentage(a, v) = 0
           /\ v <= Hundred => Percentage(a, v) <= a
<1>. DEFINE n == a * v
<1>0. Hundred \in Nat \ {0}
  BY PricingAssumption
<1>1. n \in Nat
  OBVIOUS
<1>2. n <= n * Hundred
  <2>. HIDE DEF n
  <2>1. \A h \in Nat \ {0} : n <= n * h
    BY <1>1
  <2> QED
    BY <1>0, <2>1
<1>3. HalfUp(n, Hundred) \in 0..n
  <2>. HIDE DEF n
  <2> QED
    BY <1>0, <1>1, <1>2, HalfUpIsBounded
<1>4. Percentage(a, v) = HalfUp(n, Hundred)
  BY DEF Percentage
<1>5. a = 0 => n = 0
  OBVIOUS
<1>6. ASSUME v <= Hundred PROVE HalfUp(n, Hundred) <= a
  <2>1. n <= a * Hundred
    <3>1. \A h \in Nat : v <= h => a * v <= a * h
      OBVIOUS
    <3> QED
      BY <1>0, <1>6, <3>1
  <2>. HIDE DEF n
  <2>2. HalfUp(n, Hundred) \in 0..a
    BY <1>0, <1>1, <2>1, HalfUpIsBounded
  <2> QED
    BY <2>2
<1>. HIDE DEF n
<1> QED
  BY <1>1, <1>3, <1>4, <1>5, <1>6

LEMMA DiscountIsFair ==
    ASSUME bag \in Seq(Lines), NEW c \in Coupons \cup {NoCoupon}
    PROVE  /\ Discount(c) \in Nat
           /\ Subtotal = 0 => Discount(c) = 0
           /\ (c.type = "PERCENTAGE" => c.value <= Hundred) => Discount(c) <= Subtotal
<1>1. Subtotal \in Nat /\ EligibleSubtotal(c) \in 0..Subtotal
  BY Subtotals
<1>2. c.value \in Nat /\ c.maximum \in Nat
  BY PricingAssumption DEF NoCoupon
<1>. DEFINE e == EligibleSubtotal(c)
            s == Subtotal
            p == Percentage(e, c.value)
<1>3. e \in Nat /\ s \in Nat /\ e <= s
  BY <1>1
<1>4. /\ p \in Nat /\ (e = 0 => p = 0)
      /\ c.value <= Hundred => p <= e
  <2>. HIDE DEF e
  <2> QED
    BY <1>2, <1>3, PercentageOf
<1>5. Capped(c, 0) = 0 /\ \A n \in Nat : Capped(c, n) \in Nat /\ Capped(c, n) <= n
  BY <1>2 DEF Capped, Least
<1>. HIDE DEF e, s, p
<1>6. CASE c.type = "PERCENTAGE"
  <2>1. Discount(c) = Capped(c, p)
    BY <1>6 DEF Discount, p, e
  <2>2. (s = 0 => p = 0) /\ (c.value <= Hundred => p <= s)
    BY <1>3, <1>4
  <2>3. Discount(c) \in Nat /\ Discount(c) <= p
    BY <1>4, <1>5, <2>1
  <2>4. c.value <= Hundred => Discount(c) <= s
    BY <1>3, <1>4, <2>2, <2>3
  <2> QED
    BY <1>4, <1>6, <2>2, <2>3, <2>4 DEF s
<1>7. CASE c.type = "FIXED_CART"
  <2>1. Discount(c) = Capped(c, Least(s, c.value))
    BY <1>7 DEF Discount, s
  <2>2. Least(s, c.value) \in Nat /\ Least(s, c.value) <= s
    BY <1>2, <1>3 DEF Least
  <2>3. Discount(c) \in Nat /\ Discount(c) <= s
    BY <1>3, <1>5, <2>1, <2>2
  <2> QED
    BY <1>3, <2>3 DEF s
<1>8. CASE c.type = "FIXED_PRODUCT"
  <2>1. Discount(c) = Capped(c, Least(e, c.value))
    BY <1>8 DEF Discount, e
  <2>2. Least(e, c.value) \in Nat /\ Least(e, c.value) <= s
    BY <1>2, <1>3 DEF Least
  <2>3. Discount(c) \in Nat /\ Discount(c) <= s
    BY <1>3, <1>5, <2>1, <2>2
  <2> QED
    BY <1>3, <2>3 DEF s
<1>9. CASE c.type \notin {"PERCENTAGE", "FIXED_CART", "FIXED_PRODUCT"}
  <2>1. Discount(c) = Capped(c, 0)
    BY <1>9 DEF Discount
  <2> QED
    BY <1>3, <1>5, <2>1 DEF s
<1> QED
  BY <1>6, <1>7, <1>8, <1>9

\* What a line costs, from its share of the discount to its total.
LEMMA LineIsPriced ==
    ASSUME bag \in Seq(Lines), coupon \in Coupons \cup {NoCoupon}, NEW i \in DOMAIN bag
    PROVE  /\ LineDiscount(bag[i]) \in Int
           /\ Subtotal = 0 => LineDiscount(bag[i]) = 0
           /\ Subtotal # 0 =>
                 IsNear(Subtotal, Discount(coupon), LineSubtotal(bag[i]), LineDiscount(bag[i]), 1)
           /\ LineTax(bag[i]) \in Int
           /\ Discount(coupon) <= Subtotal =>
                 /\ LineDiscount(bag[i]) \in 0..LineSubtotal(bag[i])
                 /\ LineTax(bag[i]) >= 0
<1>. DEFINE l == bag[i]
            s == Subtotal
            d == Discount(coupon)
            t == LineSubtotal(l)
            x == LineDiscount(l)
            h == Hundred
<1>1. s \in Nat /\ d \in Nat /\ t \in Nat /\ l.rate \in Nat /\ h \in Nat \ {0}
  BY Subtotals, DiscountIsFair, LinesOfTheBag, PricingAssumption
<1>2. x = IF s = 0 THEN 0 ELSE HalfUp(d * t, s)
  BY DEF LineDiscount
<1>3. LineTax(l) = IF l.inclusive THEN HalfUp((t - x) * l.rate, h + l.rate)
                   ELSE HalfUp((t - x) * l.rate, h)
  BY DEF LineTax, Percentage, Taxable
<1>. HIDE DEF l, s, d, t, x, h
<1>. DEFINE n == d * t
<1>4. n \in Nat
  BY <1>1
<1>5. x \in Int /\ (s = 0 => x = 0) /\ (s # 0 => IsNear(s, d, t, x, 1))
  <2>1. CASE s = 0
    BY <1>2, <2>1
  <2>2. CASE s # 0
    <3>1. x = HalfUp(n, s)
      BY <1>2, <2>2
    <3>2. n \in Int /\ s \in Nat \ {0} /\ 1 * s = s
      BY <1>1, <1>4, <2>2
    <3>3. x \in Int /\ 2 * (s * x) <= 2 * n + 1 * s /\ 2 * (s * x) >= 2 * n - 1 * s
      <4>. HIDE DEF n
      <4> QED
        BY <3>1, <3>2, HalfUpIsNear
    <3> QED
      BY <2>2, <3>3 DEF IsNear
  <2> QED
    BY <2>1, <2>2
<1>6. ASSUME d <= s PROVE x \in 0..t
  <2>1. CASE s = 0
    BY <1>1, <1>2, <2>1
  <2>2. CASE s # 0
    <3>1. n <= t * s
      <4>1. \A a, b, c \in Nat : a <= b => a * c <= c * b
        OBVIOUS
      <4> QED
        BY <1>1, <1>6, <4>1
    <3>2. x = HalfUp(n, s)
      BY <1>2, <2>2
    <3>. HIDE DEF n
    <3> QED
      BY <1>1, <1>4, <2>2, <3>1, <3>2, HalfUpIsBounded
  <2> QED
    BY <2>1, <2>2
<1>. DEFINE m == (t - x) * l.rate
<1>7. m \in Int
  BY <1>1, <1>5
<1>8. LineTax(l) = HalfUp(m, h + l.rate) \/ LineTax(l) = HalfUp(m, h)
  BY <1>3
<1>9. ASSUME d <= s PROVE m \in Nat
  <2>1. \A a, b \in Nat : a * b \in Nat
    OBVIOUS
  <2>2. t - x \in Nat
    BY <1>1, <1>6, <1>9
  <2> QED
    BY <1>1, <2>1, <2>2
<1>. HIDE DEF m, n
<1>10. ASSUME NEW k \in Nat \ {0}
       PROVE  HalfUp(m, k) \in Int /\ (d <= s => HalfUp(m, k) >= 0)
  <2>1. HalfUp(m, k) \in Int
    BY <1>7, HalfUpIsNear
  <2>2. ASSUME d <= s PROVE HalfUp(m, k) >= 0
    <3>1. m <= m * k
      <4>1. \A a \in Nat, b \in Nat \ {0} : a <= a * b
        OBVIOUS
      <4> QED
        BY <1>9, <2>2, <4>1
    <3>2. HalfUp(m, k) \in 0..m
      BY <1>9, <2>2, <3>1, HalfUpIsBounded
    <3> QED
      BY <1>7, <3>2
  <2> QED
    BY <2>1, <2>2
<1>11. h \in Nat \ {0} /\ h + l.rate \in Nat \ {0}
  BY <1>1
<1>12. LineTax(l) \in Int /\ (d <= s => LineTax(l) >= 0)
  BY <1>8, <1>10, <1>11
<1> QED
  BY <1>5, <1>6, <1>12 DEF l, s, d, t, x

\* The order that placeOrder writes: the sums of its lines and of its discounts fit
\* its total.
LEMMA PlacedAddsUp ==
    ASSUME bag \in Seq(Lines), coupon \in Coupons \cup {NoCoupon}, method \in Shippings,
           PriceOrder
    PROVE  MoneyAddsUp'
<1>. DEFINE n == Len(bag)
            s == LineSubtotals
            d == order'.discounts
            x == ExclusiveTaxes
            t == order'.lines
            u == [i \in 1..n |-> s[i] - d[i]]
            D == Discount(coupon)
<1>1. /\ n \in Nat /\ DOMAIN bag = 1..n
      /\ \A i \in 1..n : LineSubtotal(bag[i]) \in Nat
  BY LinesOfTheBag
<1>2. /\ bag' = bag /\ coupon' = coupon /\ method' = method /\ order'.placed
      /\ t = [i \in 1..n |-> LineTotal(bag[i])]
      /\ d = [i \in 1..n |-> LineDiscount(bag[i])]
      /\ order'.total = GrandTotal /\ order'.shipping = ShippingTotal
  BY <1>1 DEF PriceOrder
<1>3. s = [i \in 1..n |-> LineSubtotal(bag[i])]
      /\ x = [i \in 1..n |-> IF bag[i].inclusive THEN 0 ELSE LineTax(bag[i])]
  BY <1>1 DEF LineSubtotals, ExclusiveTaxes
<1>4. D \in Nat /\ Subtotal \in Nat /\ (Subtotal = 0 => D = 0)
      /\ ((coupon.type = "PERCENTAGE" => coupon.value <= Hundred) => D <= Subtotal)
  BY DiscountIsFair, Subtotals
<1>5. ShippingTotal \in Int
  BY PricingAssumption DEF ShippingTotal
<1>. HIDE DEF D, n, s, d, x, t
<1>6. \A i \in 1..n : /\ s[i] \in Nat /\ d[i] \in Int /\ x[i] \in Int
                      /\ t[i] = s[i] - d[i] + x[i]
                      /\ Subtotal = 0 => d[i] = 0
                      /\ Subtotal # 0 => IsNear(Subtotal, D, s[i], d[i], 1)
                      /\ D <= Subtotal => d[i] \in 0..s[i] /\ x[i] >= 0
  <2>. TAKE i \in 1..n
  <2>1. /\ s[i] = LineSubtotal(bag[i]) /\ d[i] = LineDiscount(bag[i]) /\ t[i] = LineTotal(bag[i])
        /\ x[i] = IF bag[i].inclusive THEN 0 ELSE LineTax(bag[i])
    BY <1>2, <1>3
  <2>2. /\ d[i] \in Int /\ LineTax(bag[i]) \in Int
        /\ Subtotal = 0 => d[i] = 0
        /\ Subtotal # 0 => IsNear(Subtotal, D, s[i], d[i], 1)
        /\ D <= Subtotal => d[i] \in 0..s[i] /\ LineTax(bag[i]) >= 0
    BY <1>1, <2>1, LineIsPriced DEF D
  <2>3. s[i] \in Nat /\ x[i] \in Int /\ (D <= Subtotal => x[i] >= 0)
    BY <1>1, <2>1, <2>2
  <2>4. t[i] = s[i] - d[i] + x[i]
    BY <2>1 DEF LineTotal, Taxable
  <2> QED
    BY <2>2, <2>3, <2>4
<1>61. \A i \in 1..n : s[i] \in Nat /\ d[i] \in Int /\ x[i] \in Int
  BY <1>6, Zenon
<1>62. \A i \in 1..n : t[i] = s[i] - d[i] + x[i]
  BY <1>6, Zenon
<1>63. Subtotal = 0 => \A i \in 1..n : d[i] = 0
  BY <1>6, Zenon
<1>64. Subtotal # 0 => \A i \in 1..n : IsNear(Subtotal, D, s[i], d[i], 1)
  BY <1>6, Zenon
<1>65. D <= Subtotal => \A i \in 1..n : d[i] \in 0..s[i] /\ x[i] >= 0
  BY <1>6, Zenon
<1>7. s \in Seq(Int) /\ Len(s) = n
  <2>1. s = [i \in 1..n |-> s[i]] /\ DOMAIN s = 1..n
    BY <1>3
  <2> QED
    BY <1>1, <1>61, <2>1, AmountsOf
<1>8. d \in Seq(Int) /\ Len(d) = n
  <2>1. d = [i \in 1..n |-> d[i]] /\ DOMAIN d = 1..n
    BY <1>2
  <2> QED
    BY <1>1, <1>61, <2>1, AmountsOf
<1>9. x \in Seq(Int) /\ Len(x) = n
  <2>1. x = [i \in 1..n |-> x[i]] /\ DOMAIN x = 1..n
    BY <1>3
  <2> QED
    BY <1>1, <1>61, <2>1, AmountsOf
<1>10. t \in Seq(Int) /\ Len(t) = n
  <2>1. t = [i \in 1..n |-> t[i]] /\ DOMAIN t = 1..n /\ \A i \in 1..n : t[i] \in Int
    BY <1>2, <1>61, <1>62
  <2> QED
    BY <1>1, <2>1, AmountsOf
<1>11. u \in Seq(Int) /\ Len(u) = n /\ \A i \in 1..n : u[i] = s[i] - d[i]
  <2>1. u = [i \in 1..n |-> u[i]] /\ DOMAIN u = 1..n /\ \A i \in 1..n : u[i] \in Int
    BY <1>61
  <2> QED
    BY <1>1, <2>1, AmountsOf
<1>. HIDE DEF u
<1>12. Sum(s) = Sum(u) + Sum(d)
  <2>1. \A i \in 1..n : s[i] = u[i] + d[i]
    BY <1>61, <1>11
  <2>2. /\ Len(u) = Len(s) /\ Len(d) = Len(s)
        /\ \A i \in 1..Len(s) : s[i] = u[i] + d[i]
    BY <1>7, <1>8, <1>11, <2>1, Zenon
  <2> QED
    BY <1>7, <1>8, <1>11, <2>2, SumAdds
<1>13. Sum(t) = Sum(u) + Sum(x)
  <2>1. \A i \in 1..n : t[i] = u[i] + x[i]
    BY <1>61, <1>62, <1>11
  <2> QED
    BY <1>9, <1>10, <1>11, <2>1, SumAdds
<1>14. Sum(s) \in Int /\ Sum(d) \in Int /\ Sum(x) \in Int /\ Sum(t) \in Int /\ Sum(u) \in Int
  BY <1>7, <1>8, <1>9, <1>10, <1>11, SumIsInt
<1>15. Subtotal = Sum(s) /\ ExclusiveTax = Sum(x) /\ GrandTotal = Subtotal - D + ExclusiveTax + ShippingTotal
  BY DEF Subtotal, ExclusiveTax, GrandTotal, s, x, D
<1>16. 2 * Sum(d) <= 2 * D + n /\ 2 * Sum(d) >= 2 * D - n
  <2>1. CASE Subtotal = 0
    <3>1. Sum(d) = 0
      BY <1>63, <1>8, <2>1, SumOfNothing
    <3> QED
      BY <1>1, <1>4, <2>1, <3>1
  <2>2. CASE Subtotal # 0
    <3>1. Sum(s) \in Nat \ {0} /\ \A i \in 1..Len(s) : IsNear(Sum(s), D, s[i], d[i], 1)
      BY <1>4, <1>64, <1>7, <1>15, <2>2
    <3>2. 2 * Sum(d) <= 2 * D + Len(s) /\ 2 * Sum(d) >= 2 * D - Len(s)
      <4>1. D \in Int /\ Len(d) = Len(s)
        BY <1>4, <1>7, <1>8
      <4> QED
        BY <1>7, <1>8, <3>1, <4>1, SpreadAddsUp
    <3> QED
      BY <1>7, <3>2
  <2> QED
    BY <2>1, <2>2
<1>17. 2 * Abs(Sum(t) - (GrandTotal - ShippingTotal)) <= n
  <2>1. GrandTotal - ShippingTotal = Sum(s) - D + Sum(x)
    BY <1>4, <1>5, <1>14, <1>15
  <2>2. Sum(t) - (GrandTotal - ShippingTotal) = D - Sum(d)
    BY <1>4, <1>12, <1>13, <1>14, <2>1
  <2>3. \A y \in Int : 2 * y <= n /\ 2 * y >= -n => 2 * Abs(y) <= n
    BY <1>1 DEF Abs
  <2>4. D - Sum(d) \in Int /\ 2 * (D - Sum(d)) <= n /\ 2 * (D - Sum(d)) >= -n
    BY <1>1, <1>4, <1>14, <1>16
  <2> QED
    BY <2>2, <2>3, <2>4
<1>18. ASSUME D <= Subtotal
       PROVE  /\ GrandTotal >= ShippingTotal
              /\ \A i \in 1..n : t[i] >= 0 /\ d[i] \in 0..LineSubtotal(bag[i])
  <2>1. Sum(x) \in Nat
    BY <1>65, <1>9, <1>18, SumIsNat
  <2>2. GrandTotal >= ShippingTotal
    BY <1>4, <1>5, <1>15, <1>18, <2>1
  <2>3. ASSUME NEW i \in 1..n PROVE t[i] >= 0 /\ d[i] \in 0..LineSubtotal(bag[i])
    <3>1. d[i] \in 0..s[i] /\ x[i] >= 0 /\ t[i] = s[i] - d[i] + x[i] /\ s[i] \in Nat /\ x[i] \in Int
      BY <1>61, <1>62, <1>65, <1>18
    <3>2. s[i] = LineSubtotal(bag[i])
      BY <1>3
    <3> QED
      BY <3>1, <3>2
  <2> QED
    BY <2>2, <2>3
<1>19. LinesAddUp'
  BY <1>2, <1>17 DEF LinesAddUp, t, n
<1>20. NothingNegative'
  BY <1>1, <1>2, <1>4, <1>18 DEF NothingNegative, t, d, n, LineSubtotal
<1> QED
  BY <1>19, <1>20 DEF MoneyAddsUp

LEMMA PricingStep ==
    ASSUME PricingInv, [PricingNext]_pricingVars
    PROVE  PricingInv'
<1>. USE DEF PricingInv
<1>1. ASSUME NEW l \in Lines, AddLine(l) PROVE PricingInv'
  <2>1. bag' \in Seq(Lines)
    BY <1>1, AppendProperties DEF AddLine
  <2> QED
    BY <1>1, <2>1 DEF AddLine
<1>2. ASSUME NEW c \in Coupons, ApplyCoupon(c) PROVE PricingInv'
  BY <1>2 DEF ApplyCoupon
<1>3. CASE PriceOrder
  <2>1. MoneyAddsUp'
    BY <1>3, PlacedAddsUp
  <2> QED
    BY <1>3, <2>1 DEF PriceOrder
<1>4. CASE UNCHANGED pricingVars
  <2>1. MoneyAddsUp' = MoneyAddsUp
    BY <1>4 DEF pricingVars, MoneyAddsUp, LinesAddUp, NothingNegative
  <2> QED
    BY <1>4, <2>1 DEF pricingVars
<1> QED
  BY <1>1, <1>2, <1>3, <1>4 DEF PricingNext

\* Whatever the cart and the coupon, the lines of an order add up to its total
\* without shipping but for half a unit a line, and with a coupon of at most a
\* hundred percent nothing costs less than nothing (placeOrder).
THEOREM OrderMoneyAddsUp == PricingSpec => []MoneyAddsUp
<1>1. PricingInit => PricingInv
  <2>. SUFFICES ASSUME PricingInit PROVE PricingInv
    OBVIOUS
  <2>1. bag \in Seq(Lines)
    BY EmptySeq DEF PricingInit
  <2> QED
    BY <2>1 DEF PricingInit, PricingInv, Unplaced
<1>2. PricingInv /\ [PricingNext]_pricingVars => PricingInv'
  BY PricingStep
<1>3. PricingInv => MoneyAddsUp
  BY DEF PricingInv, MoneyAddsUp, LinesAddUp, NothingNegative
<1> QED
  BY <1>1, <1>2, <1>3, PTL DEF PricingSpec
=============================================================================
