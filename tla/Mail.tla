--------------------------------- MODULE Mail ---------------------------------
(***************************************************************************)
(* The letters about one order: what the API queues when the order changes *)
(* (checkout.service.ts, orders.service.ts), under which job id, and what  *)
(* the queue and its worker make of it (jobs.service.ts, processors.ts,    *)
(* email-templates.ts).  A letter is queued after the change commits, by   *)
(* the request that made it, and by nobody else: no outbox is kept.        *)
(* What becomes of a delivered order is told by no letter.                 *)
(***************************************************************************)
EXTENDS Naturals, OrderStates

CONSTANTS Requests,   \* API calls about the order
          Attempts,   \* of a job: five in the code
          MaxStalls   \* BullMQ's maxStalledCount

ASSUME MailAssumption == Attempts \in Nat \ {0} /\ MaxStalls \in Nat

Letters == {"placed", "confirmed", "processing", "shipped", "delivered", "cancelled"}
Silent  == "no letter"

\* What has a letter to wait for: the statuses up to delivery.
Statuses == OrderStatus \ (AfterDelivery \ {"DELIVERED"})

VARIABLES orderStatus, \* of the order, None before it is placed
          reached,     \* the statuses in its history
          holds,       \* a request: "idle", "placing", or what it has to queue
          capture,     \* capturePayPal: "none", "read" (the order PENDING), "over"
          overtook,    \* the capture has written over a later status
          due,         \* letters of changes that were committed
          queued,      \* letters added to the queue at some time
          died,        \* letters a request never came to queue
          job          \* by id: the queue's record of the letter

orderVars == <<orderStatus, reached, capture, overtook>>
queueVars == <<queued, job>>
mailVars  == <<orderVars, holds, due, died, queueVars>>

NoJob == [state |-> "none", tries |-> 0, stalls |-> 0, accepted |-> 0, doubts |-> 0]

MailInit ==
    /\ orderStatus = None /\ reached = {} /\ capture = "none" /\ overtook = FALSE
    /\ holds = [r \in Requests |-> "idle"]
    /\ due = {} /\ queued = {} /\ died = {}
    /\ job = [l \in Letters |-> NoJob]

----------------------------------------------------------------------------
(* What a letter says.                                                     *)

\* The letter of a transition; the others are silent.
LetterOf(to) == CASE to = "CONFIRMED"  -> "confirmed"
                  [] to = "PROCESSING" -> "processing"
                  [] to = "DELIVERED"  -> "delivered"
                  [] to = "CANCELLED"  -> "cancelled"
                  [] OTHER             -> Silent

\* What the text of the letter says the order has become.  "placed" uses the text of
\* "confirmed", also for an order that still waits for its payment.
Tells(l) == CASE l \in {"placed", "confirmed"} -> "CONFIRMED"
              [] l = "processing"              -> "PROCESSING"
              [] l = "shipped"                 -> "SHIPPED"
              [] l = "delivered"               -> "DELIVERED"
              [] l = "cancelled"               -> "CANCELLED"

----------------------------------------------------------------------------
(* The changes of the order.  The request that made one holds its letter   *)
(* until it has queued it.                                                 *)

Commits(r, to, letter) ==
    /\ orderStatus' = to /\ reached' = reached \cup {to}
    /\ holds' = [holds EXCEPT ![r] = IF letter = Silent THEN "idle" ELSE letter]
    /\ due' = due \cup ({letter} \ {Silent})

\* placeOrder has looked for an order under its key and found none.
Begin(r) == /\ holds[r] = "idle" /\ orderStatus = None
            /\ holds' = [holds EXCEPT ![r] = "placing"]
            /\ UNCHANGED <<orderVars, due, died, queueVars>>

\* The order is created, CONFIRMED if it is paid on delivery.
Place(r, first) == /\ holds[r] = "placing" /\ orderStatus = None
                   /\ first \in {"PENDING", "CONFIRMED"}
                   /\ Commits(r, first, "placed")
                   /\ UNCHANGED <<capture, overtook, died, queueVars>>

\* P2002: another call with the key came first; this one answers its order, and writes
\* the same letter.  (A call that finds the order at the start writes none.)
PlacedAlready(r) == /\ holds[r] = "placing" /\ orderStatus # None
                    /\ holds' = [holds EXCEPT ![r] = "placed"]
                    /\ UNCHANGED <<orderVars, due, died, queueVars>>

\* transition.
Transition(r, to) == /\ holds[r] = "idle" /\ orderStatus \in Statuses
                     /\ to \in ORDER_TRANSITIONS[orderStatus] \cap Statuses
                     /\ Commits(r, to, LetterOf(to))
                     /\ UNCHANGED <<capture, overtook, died, queueVars>>

Ship(r) == /\ holds[r] = "idle" /\ orderStatus = "PACKED"
           /\ Commits(r, "SHIPPED", "shipped")
           /\ UNCHANGED <<capture, overtook, died, queueVars>>

\* A webhook: the payment confirms the order and writes no letter.
PaidByWebhook == /\ orderStatus = "PENDING"
                 /\ orderStatus' = "CONFIRMED" /\ reached' = reached \cup {"CONFIRMED"}
                 /\ UNCHANGED <<capture, overtook, holds, due, died, queueVars>>

\* capturePayPal reads the order and writes CONFIRMED whatever it has become: its
\* transaction is not serializable.
CaptureReads == /\ capture = "none" /\ orderStatus = "PENDING"
                /\ capture' = "read"
                /\ UNCHANGED <<orderStatus, reached, overtook, holds, due, died, queueVars>>

CaptureWrites == /\ capture = "read"
                 /\ capture' = "over" /\ orderStatus' = "CONFIRMED"
                 /\ reached' = reached \cup {"CONFIRMED"}
                 /\ overtook' = (orderStatus \notin {"PENDING", "CONFIRMED"})
                 /\ UNCHANGED <<holds, due, died, queueVars>>

----------------------------------------------------------------------------
(* Between the commit and the queue.                                       *)

\* Mutant: the id names the order and not what happened to it.
Enqueue_ByOrder(r) == /\ holds[r] \in Letters
                      /\ holds' = [holds EXCEPT ![r] = "idle"]
                      /\ IF queued = {}
                           THEN /\ queued' = {holds[r]}
                                /\ job' = [job EXCEPT ![holds[r]] = [NoJob EXCEPT !.state = "waiting"]]
                           ELSE UNCHANGED queueVars
                      /\ UNCHANGED <<orderVars, due, died>>

\* sendEmail: a job that is there under the id stays as it is.
Enqueue(r) == /\ holds[r] \in Letters
              /\ holds' = [holds EXCEPT ![r] = "idle"]
              /\ queued' = queued \cup {holds[r]}
              /\ job' = IF job[holds[r]].state # "none" THEN job
                        ELSE [job EXCEPT ![holds[r]] = [NoJob EXCEPT !.state = "waiting"]]
              /\ UNCHANGED <<orderVars, due, died>>

\* The process stops, or the queue refuses: the change stays, the letter is lost.
Dies(r) == /\ holds[r] # "idle"
           /\ holds' = [holds EXCEPT ![r] = "idle"]
           /\ died' = died \cup ({holds[r]} \ {"placing"})
           /\ UNCHANGED <<orderVars, due, queueVars>>

----------------------------------------------------------------------------
(* The queue and its worker.  accepted counts the copies the SMTP server   *)
(* took, doubts those of which the worker did not come to know.            *)

Move(l, new) == /\ job' = [job EXCEPT ![l] = new]
                /\ UNCHANGED <<orderVars, holds, due, died, queued>>

Claim(l) == /\ job[l].state = "waiting"
            /\ Move(l, [job[l] EXCEPT !.state = "active"])

Accept(l) == /\ job[l].state = "active"
             /\ Move(l, [job[l] EXCEPT !.state = "taken", !.accepted = @ + 1])

\* process returns.
Finish(l) == /\ job[l].state = "taken"
             /\ Move(l, [job[l] EXCEPT !.state = "done"])

\* The copy of an attempt that ends without its answer.
Doubt(l) == job[l].doubts + (IF job[l].state = "taken" THEN 1 ELSE 0)

\* Mutant: process swallows the error of sendMail.
Throw_Swallowed(l) == /\ job[l].state \in {"active", "taken"}
                      /\ Move(l, [job[l] EXCEPT !.state = "done", !.doubts = Doubt(l)])

\* sendMail throws: refused, or accepted and the answer lost.
Throw(l) == /\ job[l].state \in {"active", "taken"}
            /\ Move(l, [job[l] EXCEPT !.tries = @ + 1, !.doubts = Doubt(l),
                        !.state = IF job[l].tries + 1 < Attempts THEN "waiting" ELSE "failed"])

\* The worker does not renew its lock: it is dead, or busy and sends the copy all the same.
Stall(l, late) ==
    /\ job[l].state \in {"active", "taken"} /\ late \in {0, 1}
    /\ late = 1 => job[l].state = "active"
    /\ Move(l, [job[l] EXCEPT !.stalls = @ + 1,
                !.accepted = @ + late, !.doubts = Doubt(l) + late,
                !.state = IF job[l].stalls < MaxStalls THEN "waiting" ELSE "failed"])

\* removeOnComplete, removeOnFail: the record goes, and with it the memory of the id.
Evict(l) == job[l].state \in {"done", "failed"} /\ Move(l, NoJob)

----------------------------------------------------------------------------
OfRequest(r) ==
    \/ Begin(r) \/ PlacedAlready(r) \/ Ship(r) \/ Enqueue(r) \/ Dies(r)
    \/ \E s \in Statuses : Place(r, s) \/ Transition(r, s)

OfPayment == PaidByWebhook \/ CaptureReads \/ CaptureWrites

OfWorker(l) == Claim(l) \/ Accept(l) \/ Finish(l) \/ Throw(l) \/ Evict(l)
               \/ \E late \in {0, 1} : Stall(l, late)

MailNext ==
    \/ \E r \in Requests : OfRequest(r)
    \/ OfPayment
    \/ \E l \in Letters : OfWorker(l)

MailSpec == MailInit /\ [][MailNext]_mailVars

----------------------------------------------------------------------------
(* Properties.                                                             *)

\* No letter but "placed" tells of what the order did not become, and that one not of an
\* order that is not there; each letter due is queued, about to be, or lost with a request
\* that held it; and as no letter is about to be queued whose id the queue has seen, none
\* but a repeated "placed" is dropped for its id, unless a capture wrote over a later status
\* (orders.service.ts transition and ship, checkout.service.ts placeOrder).
LettersTellTheOrder ==
    /\ \A l \in queued : IF l = "placed" THEN reached # {} ELSE Tells(l) \in reached
    /\ \A l \in due : l \in queued \cup died \/ \E r \in Requests : holds[r] = l
    /\ ~overtook => \A r \in Requests : holds[r] \notin queued \ {"placed"}

\* A letter that is done was accepted; an accepted copy is the one that finished the job, or
\* one of which an attempt that threw or stalled left the worker in doubt, so that nobody
\* gets more than Attempts + MaxStalls of them; and a letter is given up only after
\* as many throws as there are attempts, or one stall too many (processors.ts process,
\* jobs.service.ts sendEmail).
CopiesAreCounted ==
    \A l \in Letters :
        LET j == job[l]
        IN  /\ j.state = "done" => j.accepted >= 1
            /\ j.accepted = j.doubts + (IF j.state \in {"taken", "done"} THEN 1 ELSE 0)
            /\ j.accepted <= Attempts + MaxStalls
            /\ j.state = "failed" => j.tries = Attempts \/ j.stalls = MaxStalls + 1
=============================================================================
