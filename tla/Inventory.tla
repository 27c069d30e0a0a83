------------------------------ MODULE Inventory ------------------------------
(***************************************************************************)
(* The stock of the shop: the Inventory, InventoryReservation and          *)
(* InventoryTransaction tables with every operation that writes them       *)
(* (inventory.service.ts, the release job of jobs/processors.ts, and the   *)
(* stock writes of admin.service.ts).                                      *)
(*                                                                         *)
(* A transaction the code runs at Serializable is one action.  The product *)
(* editor runs at the default isolation (MySQL REPEATABLE READ): it reads  *)
(* its snapshot in one action and writes in a later one.  The release job  *)
(* reads its candidates outside any transaction and then claims them one   *)
(* transaction at a time.                                                  *)
(*                                                                         *)
(* A cart holds at most one line per variant, so a reservation is the pair *)
(* <<order, variant>>.                                                     *)
(***************************************************************************)
EXTENDS Integers, FiniteSets

CONSTANTS
    Variants,       \* product variants, each with one Inventory row
    Orders,         \* ids an order can get
    Workers,        \* processes consuming the maintenance queue
    Editors,        \* open product-editor transactions
    InitialStock,   \* stock every variant starts with
    MaxQty,         \* bound: units of one variant in one order
    BatchSize,      \* rows one run of the release job reads (100 in the code)
    ManualBound     \* bound: manual stock changes in a behaviour

ASSUME StockAssumption ==
    /\ IsFiniteSet(Orders)
    /\ InitialStock \in Nat
    /\ MaxQty \in Nat \ {0}
    /\ BatchSize \in Nat \ {0}
    /\ ManualBound \in Nat

VARIABLES
    available, reserved, sold,  \* the three counters of an Inventory row
    ledger,       \* per variant, the sums of the InventoryTransaction deltas
    quantity,     \* quantity[o][v]: units reserved by o at checkout, 0: no row
    lapsed,       \* orders whose reservations are past expiresAt
    released,     \* reservations with releasedAt set
    converted,    \* reservations with convertedAt set
    returned,     \* returned[o][v]: units of o restocked by received returns
    candidates,   \* rows a release job has read and not yet visited
    editing,      \* editors whose transaction has taken its snapshot
    seen,         \* the available counters in that snapshot
    manual        \* manual stock changes so far

counters == <<available, reserved, sold, ledger>>
rows     == <<quantity, released, converted>>
jobs     == <<candidates, lapsed>>
admins   == <<editing, seen, manual>>
stockVars == <<counters, rows, returned, jobs, admins>>

Reservations == Orders \X Variants
Lines        == [Variants -> 0 .. MaxQty]

IsOpen(o, v) ==
    /\ quantity[o][v] > 0
    /\ <<o, v>> \notin released
    /\ <<o, v>> \notin converted

\* A reservation turned into a sale that was not cancelled afterwards.
IsTaken(o, v) ==
    /\ quantity[o][v] > 0
    /\ <<o, v>> \in converted
    /\ <<o, v>> \notin released

Placed(o) == \E v \in Variants : quantity[o][v] > 0

\* The units a line holds in one of the two states above.
HeldBy(o, v)  == IF IsOpen(o, v) THEN quantity[o][v] ELSE 0
TakenBy(o, v) == IF IsTaken(o, v) THEN quantity[o][v] ELSE 0

(***************************************************************************)
(* One counter update with its ledger row.  The deltas are functions of    *)
(* the variant; a variant whose deltas are all zero is left alone.         *)
(***************************************************************************)
Post(dAvailable, dReserved, dSold) ==
    /\ available' = [v \in Variants |-> available[v] + dAvailable[v]]
    /\ reserved'  = [v \in Variants |-> reserved[v] + dReserved[v]]
    /\ sold'      = [v \in Variants |-> sold[v] + dSold[v]]
    /\ ledger'    = [v \in Variants |->
                        [available |-> ledger[v].available + dAvailable[v],
                         reserved  |-> ledger[v].reserved + dReserved[v],
                         sold      |-> ledger[v].sold + dSold[v]]]

NoUnits == [v \in Variants |-> 0]

StockInit ==
    /\ available = [v \in Variants |-> InitialStock]
    /\ reserved = NoUnits
    /\ sold = NoUnits
    /\ ledger = [v \in Variants |->
                    [available |-> InitialStock, reserved |-> 0, sold |-> 0]]
    /\ quantity = [o \in Orders |-> NoUnits]
    /\ lapsed = {}
    /\ released = {}
    /\ converted = {}
    /\ returned = [o \in Orders |-> NoUnits]
    /\ candidates = [w \in Workers |-> {}]
    /\ editing = {}
    /\ seen = [e \in Editors |-> NoUnits]
    /\ manual = 0

-----------------------------------------------------------------------------
(* The service called by checkout, payments, orders and returns            *)

\* Mutant of CanReserve: the claim does not ask for available >= quantity.
CanReserve_Unchecked(lines) == \A v \in Variants : lines[v] >= 0

\* Every line claims its units or the whole checkout transaction aborts.
CanReserve(lines) == \A v \in Variants : lines[v] <= available[v]

Reserve(o, lines) ==
    /\ ~Placed(o)
    /\ lines # NoUnits
    /\ CanReserve(lines)
    /\ Post([v \in Variants |-> -lines[v]], lines, NoUnits)
    /\ quantity' = [quantity EXCEPT ![o] = lines]
    /\ UNCHANGED <<released, converted, returned, jobs, admins>>

\* Cash on delivery: reserve and commitOrder in the same transaction.
ReserveAndCommit(o, lines) ==
    /\ ~Placed(o)
    /\ lines # NoUnits
    /\ CanReserve(lines)
    /\ Post([v \in Variants |-> -lines[v]], NoUnits, lines)
    /\ quantity' = [quantity EXCEPT ![o] = lines]
    /\ converted' = converted \cup {<<o, v>> : v \in {x \in Variants : lines[x] > 0}}
    /\ UNCHANGED <<released, returned, jobs, admins>>

OpenLines(o)  == {<<o, v>> : v \in {x \in Variants : IsOpen(o, x)}}
TakenLines(o) == {<<o, v>> : v \in {x \in Variants : IsTaken(o, x)}}

\* Converts what is still open; a reservation the job released is skipped.
CommitOrder(o) ==
    /\ Post(NoUnits,
            [v \in Variants |-> -HeldBy(o, v)],
            [v \in Variants |-> HeldBy(o, v)])
    /\ converted' = converted \cup OpenLines(o)
    /\ UNCHANGED <<quantity, released, returned, jobs, admins>>

\* Gives back what is held and what was sold, each reservation once.
CancelOrder(o) ==
    /\ Post([v \in Variants |-> HeldBy(o, v) + TakenBy(o, v)],
            [v \in Variants |-> -HeldBy(o, v)],
            [v \in Variants |-> -TakenBy(o, v)])
    /\ released' = released \cup OpenLines(o) \cup TakenLines(o)
    /\ UNCHANGED <<quantity, converted, returned, jobs, admins>>

\* A return request reaches RECEIVED: its lines go back on the shelf.
Restock(o, lines) ==
    /\ Post(lines, NoUnits, [v \in Variants |-> -lines[v]])
    /\ returned' = [returned EXCEPT ![o] =
                        [v \in Variants |-> returned[o][v] + lines[v]]]
    /\ UNCHANGED <<rows, jobs, admins>>

\* What the caller promises: an order line is returned at most up to its
\* quantity, which is checked when the request is created.
ReceiveReturn(o, lines) ==
    /\ \A v \in Variants : returned[o][v] + lines[v] <= quantity[o][v]
    /\ Restock(o, lines)

-----------------------------------------------------------------------------
(* Time and the repeating release job                                      *)

\* expiresAt, 15 minutes after checkout, passes.
Lapse(o) ==
    /\ Placed(o)
    /\ o \notin lapsed
    /\ lapsed' = lapsed \cup {o}
    /\ UNCHANGED <<counters, rows, returned, candidates, admins>>

\* Mutant of Due: the query does not leave out closed reservations.
Due_WithClosed == {r \in Reservations : r[1] \in lapsed /\ quantity[r[1]][r[2]] > 0}

Due == {r \in Reservations : r[1] \in lapsed /\ IsOpen(r[1], r[2])}

\* One run of the job starts: it reads at most BatchSize rows, unordered.
ReleaseRead(w) ==
    /\ candidates[w] = {}
    /\ \E batch \in SUBSET Due :
          /\ batch # {}
          /\ Cardinality(batch) <= BatchSize
          /\ batch = Due \/ Cardinality(batch) = BatchSize
          /\ candidates' = [candidates EXCEPT ![w] = batch]
    /\ UNCHANGED <<counters, rows, returned, lapsed, admins>>

\* Mutant of ReleaseClaim: released by the candidate row, without a claim.
ReleaseClaim_Unclaimed(w, o, v) ==
    /\ <<o, v>> \in candidates[w]
    /\ Post([NoUnits EXCEPT ![v] = quantity[o][v]],
            [NoUnits EXCEPT ![v] = -quantity[o][v]],
            NoUnits)
    /\ released' = released \cup {<<o, v>>}
    /\ candidates' = [candidates EXCEPT ![w] = @ \ {<<o, v>>}]
    /\ UNCHANGED <<quantity, converted, returned, lapsed, admins>>

ReleaseClaim(w, o, v) ==
    /\ <<o, v>> \in candidates[w]
    /\ IsOpen(o, v)
    /\ Post([NoUnits EXCEPT ![v] = quantity[o][v]],
            [NoUnits EXCEPT ![v] = -quantity[o][v]],
            NoUnits)
    /\ released' = released \cup {<<o, v>>}
    /\ candidates' = [candidates EXCEPT ![w] = @ \ {<<o, v>>}]
    /\ UNCHANGED <<quantity, converted, returned, lapsed, admins>>

\* The claim matched no row: somebody converted or released it meanwhile.
ReleaseSkip(w, o, v) ==
    /\ <<o, v>> \in candidates[w]
    /\ ~IsOpen(o, v)
    /\ candidates' = [candidates EXCEPT ![w] = @ \ {<<o, v>>}]
    /\ UNCHANGED <<counters, rows, returned, lapsed, admins>>

\* A release transaction fails, or the worker dies: the rest of the batch
\* waits for the next run.
ReleaseFail(w) ==
    /\ candidates[w] # {}
    /\ candidates' = [candidates EXCEPT ![w] = {}]
    /\ UNCHANGED <<counters, rows, returned, lapsed, admins>>

-----------------------------------------------------------------------------
(* Manual stock changes by administrators                                  *)

AdjustInventory(v, delta) ==
    /\ manual < ManualBound
    /\ available[v] + delta >= 0
    /\ Post([NoUnits EXCEPT ![v] = delta], NoUnits, NoUnits)
    /\ manual' = manual + 1
    /\ UNCHANGED <<rows, returned, jobs, editing, seen>>

\* The editor's transaction takes its snapshot ...
EditSnapshot(e) ==
    /\ manual < ManualBound
    /\ e \notin editing
    /\ editing' = editing \cup {e}
    /\ seen' = [seen EXCEPT ![e] = available]
    /\ manual' = manual + 1
    /\ UNCHANGED <<counters, rows, returned, jobs>>

\* ... and overwrites the counter with the stock typed into the form, posting
\* the difference to what the snapshot showed.
EditCommit(e, v, stock) ==
    /\ e \in editing
    /\ available' = [available EXCEPT ![v] = stock]
    /\ ledger' = [ledger EXCEPT ![v] =
                    [available |-> ledger[v].available + (stock - seen[e][v]),
                     reserved  |-> ledger[v].reserved,
                     sold      |-> ledger[v].sold]]
    /\ editing' = editing \ {e}
    /\ seen' = [seen EXCEPT ![e] = NoUnits]
    /\ UNCHANGED <<reserved, sold, rows, returned, jobs, manual>>

-----------------------------------------------------------------------------
(* The service with a caller that may use it in any order                  *)

ReleaseJob ==
    \E w \in Workers :
        \/ ReleaseRead(w)
        \/ ReleaseFail(w)
        \/ \E o \in Orders, v \in Variants :
              ReleaseClaim(w, o, v) \/ ReleaseSkip(w, o, v)

ManualChange ==
    \/ \E v \in Variants, delta \in -MaxQty .. MaxQty : AdjustInventory(v, delta)
    \/ \E e \in Editors :
          \/ EditSnapshot(e)
          \/ \E v \in Variants, stock \in 0 .. InitialStock : EditCommit(e, v, stock)

StockNext ==
    \/ \E o \in Orders, lines \in Lines :
          Reserve(o, lines) \/ ReserveAndCommit(o, lines) \/ ReceiveReturn(o, lines)
    \/ \E o \in Orders : CommitOrder(o) \/ CancelOrder(o) \/ Lapse(o)
    \/ ReleaseJob
    \/ ManualChange

StockSpec == StockInit /\ [][StockNext]_stockVars

\* The queue repeats the job every minute and hands it to some worker; a
\* release transaction does not fail for ever.
ReleaseFairness ==
    /\ \A w \in Workers :
          /\ WF_stockVars(ReleaseRead(w))
          /\ WF_stockVars(\E o \in Orders, v \in Variants : ReleaseSkip(w, o, v))
    /\ \A o \in Orders, v \in Variants :
          SF_stockVars(\E w \in Workers : ReleaseClaim(w, o, v))

FairStockSpec == StockSpec /\ ReleaseFairness

-----------------------------------------------------------------------------
(* Properties                                                              *)

StockTypeOK ==
    /\ available \in [Variants -> Int]
    /\ reserved \in [Variants -> Int]
    /\ sold \in [Variants -> Int]
    /\ ledger \in [Variants -> [available : Int, reserved : Int, sold : Int]]
    /\ quantity \in [Orders -> Lines]
    /\ lapsed \subseteq Orders
    /\ released \subseteq Reservations
    /\ converted \subseteq Reservations
    /\ returned \in [Orders -> Lines]
    /\ candidates \in [Workers -> SUBSET Reservations]
    /\ editing \subseteq Editors
    /\ seen \in [Editors -> [Variants -> Int]]
    /\ manual \in 0 .. ManualBound

\* No oversell: whatever checkouts, cancellations, the release job, manual
\* adjustments and the product editor interleave, the available counter of a
\* variant never goes below zero.
NeverOversold == \A v \in Variants : available[v] >= 0

\* Single units <<order, k>>, to count without a sum.
UnitsOf(f) == {u \in Orders \X (1 .. MaxQty) : u[2] <= f[u[1]]}

OpenUnits(v)     == UnitsOf([o \in Orders |-> HeldBy(o, v)])
TakenUnits(v)    == UnitsOf([o \in Orders |-> TakenBy(o, v)])
ReturnedUnits(v) == UnitsOf([o \in Orders |-> returned[o][v]])

\* The reserved counter of a variant is the number of units in reservations
\* that are neither released nor converted: a checkout, commitOrder,
\* cancelOrder and the release job move a reservation once between them.
ReservedMatchesRows == \A v \in Variants : reserved[v] = Cardinality(OpenUnits(v))

\* The sold counter is what was converted and not cancelled, less what came
\* back through received returns.
SoldMatchesRows ==
    \A v \in Variants :
        sold[v] = Cardinality(TakenUnits(v)) - Cardinality(ReturnedUnits(v))

\* Every counter is the sum of the InventoryTransaction rows of its variant.
LedgerMatchesCounters ==
    \A v \in Variants :
        /\ ledger[v].available = available[v]
        /\ ledger[v].reserved = reserved[v]
        /\ ledger[v].sold = sold[v]

\* The three books of the stock, the counters, the reservation rows and the
\* ledger, agree after every operation of every actor.
BooksAgree == ReservedMatchesRows /\ SoldMatchesRows /\ LedgerMatchesCounters

\* README: "Every stock change has an InventoryTransaction".  A step that
\* changes a counter of a variant changes the ledger of that variant.
EveryStockChangeIsLedgered ==
    [][\A v \in Variants :
          available[v] # available'[v]
              \/ reserved[v] # reserved'[v] \/ sold[v] # sold'[v]
          => ledger[v] # ledger'[v]]_stockVars

\* A reservation past its 15 minutes does not hold stock for ever: the job
\* releases it unless a commit or a cancellation closes it first.
LapsedIsClosed ==
    \A o \in Orders, v \in Variants :
        (o \in lapsed /\ IsOpen(o, v)) ~> ~IsOpen(o, v)
=============================================================================
