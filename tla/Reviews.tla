------------------------------- MODULE Reviews -------------------------------
(***************************************************************************)
(* The reviews of one product: who may write one, their moderation, the    *)
(* product's rating that moderation recomputes, and the votes              *)
(* (reviews.service.ts, admin.service.ts reviewStatus).  Moderation runs   *)
(* at REPEATABLE READ: its aggregate sees its snapshot and its own write.  *)
(* A vote runs at SERIALIZABLE and is one step.                            *)
(***************************************************************************)
EXTENDS Integers, FiniteSets

CONSTANTS Bought,       \* order items of the product, each of one customer
          Voters,      \* customers who vote
          Moderators   \* moderations in flight

VARIABLES delivered,   \* items whose order is DELIVERED
          review,      \* the review of an item, "none" before it is written
          rated,       \* the reviews counted in averageRating and reviewCount
          vote,        \* rows of ReviewVote
          helpfulCount,
          moderation   \* a transaction in flight: the review, its new status,
                       \* its snapshot, and whether another one has overlapped

reviewVars == <<delivered, review, rated, vote, helpfulCount, moderation>>

Decisions == {"PENDING", "APPROVED", "REJECTED"}
Off == [on |-> FALSE]

ReviewsInit == /\ delivered = {}
               /\ review = [i \in Bought |-> "none"]
               /\ rated = {}
               /\ vote = [i \in Bought |-> [c \in Voters |-> "none"]]
               /\ helpfulCount = [i \in Bought |-> 0]
               /\ moderation = [m \in Moderators |-> Off]

Approved(st) == {i \in Bought : st[i] = "APPROVED"}

DeliverItem(i) == /\ delivered' = delivered \cup {i}
                  /\ UNCHANGED <<review, rated, vote, helpfulCount, moderation>>

\* One review per item: the key (productId, userId, orderItemId) is unique.
WriteReview(i) ==
    /\ i \in delivered /\ review[i] = "none"
    /\ review' = [review EXCEPT ![i] = "PENDING"]
    /\ UNCHANGED <<delivered, rated, vote, helpfulCount, moderation>>

\* The change of votes a vote makes.
Delta(old, helpful) == (IF helpful THEN 1 ELSE 0) - (IF old = "helpful" THEN 1 ELSE 0)

Vote(c, i, helpful) ==
    /\ review[i] = "APPROVED"
    /\ vote' = [vote EXCEPT ![i][c] = IF helpful THEN "helpful" ELSE "unhelpful"]
    /\ helpfulCount' = [helpfulCount EXCEPT ![i] = @ + Delta(vote[i][c], helpful)]
    /\ UNCHANGED <<delivered, review, rated, moderation>>

\* The first read takes the snapshot.
ModerateBegin(m, i, decision) ==
    /\ moderation[m] = Off /\ review[i] # "none"
    /\ LET others == {n \in Moderators : moderation[n].on} IN
         moderation' = [n \in Moderators |->
            IF n = m THEN [on |-> TRUE, of |-> i, to |-> decision, seen |-> review, alone |-> others = {}]
            ELSE IF n \in others THEN [moderation[n] EXCEPT !.alone = FALSE] ELSE Off]
    /\ UNCHANGED <<delivered, review, rated, vote, helpfulCount>>

\* Mutant: the aggregate is read before the review is updated.
Counted_Before(t) == Approved(t.seen)

Counted(t) == Approved([t.seen EXCEPT ![t.of] = t.to])

\* The update, which waits for the row, and the rest of the transaction: the old
\* status and the other reviews are those of the snapshot.
ModerateCommit(m) == LET t == moderation[m] IN
    /\ t.on
    /\ review' = [review EXCEPT ![t.of] = t.to]
    /\ rated' = IF t.seen[t.of] = t.to THEN rated ELSE Counted(t)
    /\ moderation' = [moderation EXCEPT ![m] = Off]
    /\ UNCHANGED <<delivered, vote, helpfulCount>>

ModerateFail(m) == /\ moderation[m].on
                   /\ moderation' = [moderation EXCEPT ![m] = Off]
                   /\ UNCHANGED <<delivered, review, rated, vote, helpfulCount>>

ReviewsNext ==
    \/ \E i \in Bought : \/ DeliverItem(i) \/ WriteReview(i)
                        \/ \E c \in Voters, h \in BOOLEAN : Vote(c, i, h)
                        \/ \E m \in Moderators, d \in Decisions : ModerateBegin(m, i, d)
    \/ \E m \in Moderators : ModerateCommit(m) \/ ModerateFail(m)

ReviewsSpec == ReviewsInit /\ [][ReviewsNext]_reviewVars

----------------------------------------------------------------------------
\* helpfulCount is the number of helpful votes, though a customer changes her
\* mind and a review is taken down and put up again between (vote).
HelpfulIsCounted ==
    \A i \in Bought : helpfulCount[i] = Cardinality({c \in Voters : vote[i][c] = "helpful"})

\* A decision no other moderation overlapped leaves the rating of the approved
\* reviews, whatever earlier races have left there (reviewStatus).
QuietDecisionIsExact ==
    [][\A m \in Moderators :
          ModerateCommit(m) /\ moderation[m].alone /\ moderation[m].seen[moderation[m].of] # moderation[m].to
             => rated' = Approved(review')]_reviewVars

\* The two aggregates a product page shows count the rows they stand for.
AggregatesAreExact == []HelpfulIsCounted /\ QuietDecisionIsExact
=============================================================================
