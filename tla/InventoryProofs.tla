--------------------------- MODULE InventoryProofs ---------------------------
(***************************************************************************)
(* Proofs about Inventory, for every number of variants, orders, workers   *)
(* and editors and for every stock and batch size.                         *)
(***************************************************************************)
EXTENDS Inventory, TLAPS, FiniteSetTheorems

\* Signed changes of one counter, per variant.
Deltas == [Variants -> Int]

LEMMA NoUnitsType == NoUnits \in Deltas /\ NoUnits \in Lines
BY StockAssumption DEF NoUnits, Deltas, Lines

LEMMA LinesAreDeltas ==
    ASSUME NEW lines \in Lines
    PROVE  lines \in Deltas /\ [v \in Variants |-> -lines[v]] \in Deltas
BY StockAssumption DEF Lines, Deltas

LEMMA HeldAndTaken ==
    ASSUME StockTypeOK, NEW o \in Orders, NEW v \in Variants
    PROVE  HeldBy(o, v) \in 0 .. MaxQty /\ TakenBy(o, v) \in 0 .. MaxQty
BY StockAssumption DEF StockTypeOK, Lines, HeldBy, TakenBy

\* Posting integer deltas keeps the counters and the ledger well typed.
LEMMA PostType ==
    ASSUME StockTypeOK,
           NEW a \in Deltas, NEW r \in Deltas, NEW s \in Deltas,
           Post(a, r, s)
    PROVE  /\ available' \in [Variants -> Int]
           /\ reserved' \in [Variants -> Int]
           /\ sold' \in [Variants -> Int]
           /\ ledger' \in [Variants -> [available : Int, reserved : Int, sold : Int]]
BY DEF StockTypeOK, Deltas, Post

LEMMA OpenAndTakenLines ==
    ASSUME NEW o \in Orders
    PROVE  OpenLines(o) \subseteq Reservations /\ TakenLines(o) \subseteq Reservations
BY DEF OpenLines, TakenLines, Reservations

\* One step of any operation keeps every variable of its type.
LEMMA StockTypeStep == StockTypeOK /\ [StockNext]_stockVars => StockTypeOK'
<1> SUFFICES ASSUME StockTypeOK, [StockNext]_stockVars PROVE StockTypeOK'
  OBVIOUS
<1>1. ASSUME NEW o \in Orders, NEW lines \in Lines, Reserve(o, lines)
      PROVE  StockTypeOK'
  <2>1. Post([v \in Variants |-> -lines[v]], lines, NoUnits)
    BY <1>1 DEF Reserve
  <2>2. quantity' \in [Orders -> Lines]
    BY <1>1 DEF Reserve, StockTypeOK
  <2> QED
    BY <1>1, <2>1, <2>2, PostType, NoUnitsType, LinesAreDeltas
    DEF Reserve, StockTypeOK, jobs, admins
<1>2. ASSUME NEW o \in Orders, NEW lines \in Lines, ReserveAndCommit(o, lines)
      PROVE  StockTypeOK'
  <2>1. Post([v \in Variants |-> -lines[v]], NoUnits, lines)
    BY <1>2 DEF ReserveAndCommit
  <2>2. quantity' \in [Orders -> Lines] /\ converted' \subseteq Reservations
    BY <1>2 DEF ReserveAndCommit, StockTypeOK, Reservations
  <2> QED
    BY <1>2, <2>1, <2>2, PostType, NoUnitsType, LinesAreDeltas
    DEF ReserveAndCommit, StockTypeOK, jobs, admins
<1>3. ASSUME NEW o \in Orders, NEW lines \in Lines, ReceiveReturn(o, lines)
      PROVE  StockTypeOK'
  <2>1. Post(lines, NoUnits, [v \in Variants |-> -lines[v]])
    BY <1>3 DEF ReceiveReturn, Restock
  <2>2. returned' \in [Orders -> Lines]
    <3>1. [v \in Variants |-> returned[o][v] + lines[v]] \in Lines
      BY <1>3, StockAssumption DEF ReceiveReturn, Restock, StockTypeOK, Lines
    <3> QED
      BY <1>3, <3>1 DEF ReceiveReturn, Restock, StockTypeOK
  <2> QED
    BY <1>3, <2>1, <2>2, PostType, NoUnitsType, LinesAreDeltas
    DEF ReceiveReturn, Restock, StockTypeOK, rows, jobs, admins
<1>4. ASSUME NEW o \in Orders, CommitOrder(o)
      PROVE  StockTypeOK'
  <2>1. /\ [v \in Variants |-> -HeldBy(o, v)] \in Deltas
        /\ [v \in Variants |-> HeldBy(o, v)] \in Deltas
    BY HeldAndTaken, StockAssumption DEF Deltas
  <2>2. Post(NoUnits, [v \in Variants |-> -HeldBy(o, v)], [v \in Variants |-> HeldBy(o, v)])
    BY <1>4 DEF CommitOrder
  <2> QED
    BY <1>4, <2>1, <2>2, PostType, NoUnitsType, OpenAndTakenLines
    DEF CommitOrder, StockTypeOK, jobs, admins
<1>5. ASSUME NEW o \in Orders, CancelOrder(o)
      PROVE  StockTypeOK'
  <2>1. /\ [v \in Variants |-> HeldBy(o, v) + TakenBy(o, v)] \in Deltas
        /\ [v \in Variants |-> -HeldBy(o, v)] \in Deltas
        /\ [v \in Variants |-> -TakenBy(o, v)] \in Deltas
    BY HeldAndTaken, StockAssumption DEF Deltas
  <2>2. Post([v \in Variants |-> HeldBy(o, v) + TakenBy(o, v)],
             [v \in Variants |-> -HeldBy(o, v)],
             [v \in Variants |-> -TakenBy(o, v)])
    BY <1>5 DEF CancelOrder
  <2> QED
    BY <1>5, <2>1, <2>2, PostType, OpenAndTakenLines
    DEF CancelOrder, StockTypeOK, jobs, admins
<1>6. ASSUME NEW o \in Orders, Lapse(o)
      PROVE  StockTypeOK'
  BY <1>6 DEF Lapse, StockTypeOK, counters, rows, admins
<1>7. ASSUME NEW w \in Workers, ReleaseRead(w)
      PROVE  StockTypeOK'
  BY <1>7 DEF ReleaseRead, StockTypeOK, Due, counters, rows, admins
<1>8. ASSUME NEW w \in Workers, ReleaseFail(w)
      PROVE  StockTypeOK'
  BY <1>8 DEF ReleaseFail, StockTypeOK, counters, rows, admins
<1>9. ASSUME NEW w \in Workers, NEW o \in Orders, NEW v \in Variants, ReleaseClaim(w, o, v)
      PROVE  StockTypeOK'
  <2>1. /\ [NoUnits EXCEPT ![v] = quantity[o][v]] \in Deltas
        /\ [NoUnits EXCEPT ![v] = -quantity[o][v]] \in Deltas
    BY NoUnitsType, StockAssumption DEF StockTypeOK, Deltas, Lines
  <2>2. Post([NoUnits EXCEPT ![v] = quantity[o][v]], [NoUnits EXCEPT ![v] = -quantity[o][v]],
             NoUnits)
    BY <1>9 DEF ReleaseClaim
  <2>3. released' \subseteq Reservations /\ candidates' \in [Workers -> SUBSET Reservations]
    BY <1>9 DEF ReleaseClaim, StockTypeOK, Reservations
  <2> QED
    BY <1>9, <2>1, <2>2, <2>3, PostType, NoUnitsType DEF ReleaseClaim, StockTypeOK, admins
<1>10. ASSUME NEW w \in Workers, NEW o \in Orders, NEW v \in Variants, ReleaseSkip(w, o, v)
       PROVE  StockTypeOK'
  BY <1>10 DEF ReleaseSkip, StockTypeOK, counters, rows, admins
<1>11. ASSUME NEW v \in Variants, NEW delta \in -MaxQty .. MaxQty, AdjustInventory(v, delta)
       PROVE  StockTypeOK'
  <2>1. [NoUnits EXCEPT ![v] = delta] \in Deltas
    BY NoUnitsType, StockAssumption DEF Deltas
  <2>2. Post([NoUnits EXCEPT ![v] = delta], NoUnits, NoUnits)
    BY <1>11 DEF AdjustInventory
  <2>3. manual' \in 0 .. ManualBound
    BY <1>11, StockAssumption DEF AdjustInventory, StockTypeOK
  <2> QED
    BY <1>11, <2>1, <2>2, <2>3, PostType, NoUnitsType DEF AdjustInventory, StockTypeOK, rows, jobs
<1>12. ASSUME NEW e \in Editors, EditSnapshot(e)
       PROVE  StockTypeOK'
  <2>1. manual' \in 0 .. ManualBound
    BY <1>12, StockAssumption DEF EditSnapshot, StockTypeOK
  <2> QED
    BY <1>12, <2>1 DEF EditSnapshot, StockTypeOK, counters, rows, jobs
<1>13. ASSUME NEW e \in Editors, NEW v \in Variants, NEW stock \in 0 .. InitialStock,
              EditCommit(e, v, stock)
       PROVE  StockTypeOK'
  <2>1. available' \in [Variants -> Int]
    BY <1>13, StockAssumption DEF EditCommit, StockTypeOK
  <2>2. ledger' \in [Variants -> [available : Int, reserved : Int, sold : Int]]
    BY <1>13, StockAssumption DEF EditCommit, StockTypeOK
  <2> QED
    BY <1>13, <2>1, <2>2, NoUnitsType DEF EditCommit, StockTypeOK, rows, jobs, Deltas
<1>14. CASE UNCHANGED stockVars
  BY <1>14 DEF stockVars, counters, rows, jobs, admins, StockTypeOK
<1> QED
  BY <1>1, <1>2, <1>3, <1>4, <1>5, <1>6, <1>7, <1>8, <1>9, <1>10, <1>11, <1>12, <1>13, <1>14
  DEF StockNext, ReleaseJob, ManualChange

\* Every variable of Inventory keeps its type under every operation.
THEOREM StockTypeCorrect == StockSpec => []StockTypeOK
<1>1. StockInit => StockTypeOK
  BY StockAssumption, NoUnitsType DEF StockInit, StockTypeOK, Deltas, Reservations, NoUnits
<1> QED
  BY <1>1, StockTypeStep, PTL DEF StockSpec

-----------------------------------------------------------------------------
(* No oversell                                                             *)

\* A checkout takes only what is available, every other operation gives back
\* a non-negative number of units or overwrites the counter with one: the
\* available counter of a variant never goes below zero.
THEOREM StockNeverOversold == StockSpec => []NeverOversold
<1>1. StockInit => NeverOversold
  BY StockAssumption DEF StockInit, NeverOversold
<1>2. StockTypeOK /\ NeverOversold /\ [StockNext]_stockVars => NeverOversold'
  <2> SUFFICES ASSUME StockTypeOK, NeverOversold, [StockNext]_stockVars PROVE NeverOversold'
    OBVIOUS
  <2>1. ASSUME NEW o \in Orders, NEW lines \in Lines,
               Reserve(o, lines) \/ ReserveAndCommit(o, lines)
        PROVE  NeverOversold'
    BY <2>1, StockAssumption
    DEF Reserve, ReserveAndCommit, CanReserve, Post, NeverOversold, StockTypeOK, Lines
  <2>2. ASSUME NEW o \in Orders, NEW lines \in Lines, ReceiveReturn(o, lines)
        PROVE  NeverOversold'
    BY <2>2, StockAssumption DEF ReceiveReturn, Restock, Post, NeverOversold, StockTypeOK, Lines
  <2>3. ASSUME NEW o \in Orders, CommitOrder(o)
        PROVE  NeverOversold'
    BY <2>3 DEF CommitOrder, Post, NoUnits, NeverOversold, StockTypeOK
  <2>4. ASSUME NEW o \in Orders, CancelOrder(o)
        PROVE  NeverOversold'
    <3>1. \A v \in Variants : HeldBy(o, v) + TakenBy(o, v) >= 0
      BY HeldAndTaken, StockAssumption
    <3> QED
      BY <2>4, <3>1, HeldAndTaken, StockAssumption DEF CancelOrder, Post, NeverOversold, StockTypeOK
  <2>5. ASSUME NEW w \in Workers, NEW o \in Orders, NEW v \in Variants, ReleaseClaim(w, o, v)
        PROVE  NeverOversold'
    BY <2>5, StockAssumption DEF ReleaseClaim, Post, NoUnits, NeverOversold, StockTypeOK, Lines
  <2>6. ASSUME NEW v \in Variants, NEW delta \in -MaxQty .. MaxQty, AdjustInventory(v, delta)
        PROVE  NeverOversold'
    BY <2>6, StockAssumption DEF AdjustInventory, Post, NoUnits, NeverOversold, StockTypeOK
  <2>7. ASSUME NEW e \in Editors, NEW v \in Variants, NEW stock \in 0 .. InitialStock,
               EditCommit(e, v, stock)
        PROVE  NeverOversold'
    BY <2>7, StockAssumption DEF EditCommit, NeverOversold, StockTypeOK
  <2>8. ASSUME UNCHANGED available
        PROVE  NeverOversold'
    BY <2>8 DEF NeverOversold
  <2> QED
    BY <2>1, <2>2, <2>3, <2>4, <2>5, <2>6, <2>7, <2>8
    DEF StockNext, ReleaseJob, ManualChange, Lapse, ReleaseRead, ReleaseFail, ReleaseSkip,
        EditSnapshot, stockVars, counters
<1> QED
  BY <1>1, <1>2, StockTypeCorrect, PTL DEF StockSpec

-----------------------------------------------------------------------------
(* The ledger                                                              *)

\* Where nobody saves the product editor, the counters of a variant are the
\* sums of its InventoryTransaction rows.  (With an editor they are not: see
\* EveryStockChangeIsLedgered.)
THEOREM StockLedger ==
    ASSUME Editors = {}
    PROVE  StockSpec => []LedgerMatchesCounters
<1>1. StockInit => LedgerMatchesCounters
  BY DEF StockInit, NoUnits, LedgerMatchesCounters
<1>2. StockTypeOK /\ LedgerMatchesCounters /\ [StockNext]_stockVars => LedgerMatchesCounters'
  <2> SUFFICES ASSUME StockTypeOK, LedgerMatchesCounters, [StockNext]_stockVars
               PROVE  LedgerMatchesCounters'
    OBVIOUS
  <2>1. ASSUME NEW a, NEW r, NEW s, Post(a, r, s)
        PROVE  LedgerMatchesCounters'
    BY <2>1 DEF Post, LedgerMatchesCounters
  <2>2. ASSUME UNCHANGED counters
        PROVE  LedgerMatchesCounters'
    BY <2>2 DEF LedgerMatchesCounters, counters
  <2>3. CASE \E o \in Orders, lines \in Lines :
               Reserve(o, lines) \/ ReserveAndCommit(o, lines) \/ ReceiveReturn(o, lines)
    BY <2>1, <2>3 DEF Reserve, ReserveAndCommit, ReceiveReturn, Restock
  <2>4. CASE \E o \in Orders : CommitOrder(o) \/ CancelOrder(o) \/ Lapse(o)
    BY <2>1, <2>2, <2>4 DEF CommitOrder, CancelOrder, Lapse
  <2>5. CASE ReleaseJob
    BY <2>1, <2>2, <2>5 DEF ReleaseJob, ReleaseRead, ReleaseFail, ReleaseClaim, ReleaseSkip
  <2>6. CASE ManualChange
    BY <2>1, <2>6 DEF ManualChange, AdjustInventory
  <2> QED
    BY <2>2, <2>3, <2>4, <2>5, <2>6 DEF StockNext, stockVars, counters
<1> QED
  BY <1>1, <1>2, StockTypeCorrect, PTL DEF StockSpec

-----------------------------------------------------------------------------
(* Counting units without a sum                                            *)

Quantities == [Orders -> 0 .. MaxQty]

\* The units of every order but o.
UnitsBut(f, o) == {u \in UnitsOf(f) : u[1] # o}

LEMMA UnitsFinite ==
    ASSUME NEW f \in Quantities
    PROVE  IsFiniteSet(UnitsOf(f)) /\ Cardinality(UnitsOf(f)) \in Nat
<1>1. IsFiniteSet(Orders) /\ IsFiniteSet(1 .. MaxQty)
  BY FS_Interval, StockAssumption
<1>2. IsFiniteSet(Orders \X (1 .. MaxQty))
  BY <1>1, FS_Product, Zenon
<1> QED
  BY <1>2, FS_Subset, FS_CardinalityType DEF UnitsOf

LEMMA UnitsOfOneOrder ==
    ASSUME NEW o, NEW n \in Nat
    PROVE  IsFiniteSet({o} \X (1 .. n)) /\ Cardinality({o} \X (1 .. n)) = n
<1>1. IsFiniteSet({o}) /\ Cardinality({o}) = 1
  BY FS_Singleton
<1>2. IsFiniteSet(1 .. n) /\ Cardinality(1 .. n) = n
  BY FS_Interval
<1>3. /\ IsFiniteSet({o} \X (1 .. n))
      /\ Cardinality({o} \X (1 .. n)) = Cardinality({o}) * Cardinality(1 .. n)
  BY <1>1, <1>2, FS_Product, Zenon
<1> QED
  BY <1>1, <1>2, <1>3

\* The units of o can be split off.
LEMMA SplitUnits ==
    ASSUME NEW f \in Quantities, NEW o \in Orders
    PROVE  /\ Cardinality(UnitsBut(f, o)) \in Nat
           /\ Cardinality(UnitsOf(f)) = Cardinality(UnitsBut(f, o)) + f[o]
<1> DEFINE mine == {o} \X (1 .. f[o])
<1>1. f[o] \in 0 .. MaxQty /\ f[o] \in Nat
  BY StockAssumption DEF Quantities
<1>2. UnitsOf(f) = UnitsBut(f, o) \cup mine
  BY <1>1, StockAssumption DEF UnitsOf, UnitsBut
<1>3. UnitsBut(f, o) \cap mine = {}
  BY DEF UnitsBut
<1>4. IsFiniteSet(UnitsBut(f, o)) /\ Cardinality(UnitsBut(f, o)) \in Nat
  BY UnitsFinite, FS_Subset, FS_CardinalityType DEF UnitsBut
<1>5. IsFiniteSet(mine) /\ Cardinality(mine) = f[o]
  BY <1>1, UnitsOfOneOrder
<1>6. Cardinality(UnitsBut(f, o) \cap mine) = 0
  BY <1>3, FS_EmptySet
<1> HIDE DEF mine
<1>7. Cardinality(UnitsBut(f, o) \cup mine)
         = Cardinality(UnitsBut(f, o)) + Cardinality(mine) - Cardinality(UnitsBut(f, o) \cap mine)
  BY <1>4, <1>5, FS_Union, Zenon
<1> QED
  BY <1>1, <1>2, <1>4, <1>5, <1>6, <1>7

\* Changing the quantity of one order changes the count by the difference.
LEMMA CountChange ==
    ASSUME NEW f \in Quantities, NEW g \in Quantities, NEW o \in Orders,
           \A p \in Orders \ {o} : g[p] = f[p]
    PROVE  Cardinality(UnitsOf(g)) = Cardinality(UnitsOf(f)) + g[o] - f[o]
<1>1. UnitsBut(g, o) = UnitsBut(f, o)
  BY DEF UnitsBut, UnitsOf
<1>2. f[o] \in Int /\ g[o] \in Int
  BY StockAssumption DEF Quantities
<1> QED
  BY <1>1, <1>2, SplitUnits

-----------------------------------------------------------------------------
(* Counters against reservation rows                                       *)

\* Only a reservation that exists can have been released or converted.
ClosedRowsExist ==
    \A o \in Orders, v \in Variants :
        <<o, v>> \in released \cup converted => quantity[o][v] > 0

RowsInv == ClosedRowsExist /\ ReservedMatchesRows /\ SoldMatchesRows

Held(v)     == [o \in Orders |-> HeldBy(o, v)]
Taken(v)    == [o \in Orders |-> TakenBy(o, v)]
Returned(v) == [o \in Orders |-> returned[o][v]]

\* The three counts of a variant are what the invariants say of its counters.
LEMMA RowsByQuantities ==
    /\ ReservedMatchesRows <=>
          \A v \in Variants : reserved[v] = Cardinality(UnitsOf(Held(v)))
    /\ SoldMatchesRows <=>
          \A v \in Variants :
              sold[v] = Cardinality(UnitsOf(Taken(v))) - Cardinality(UnitsOf(Returned(v)))
BY DEF ReservedMatchesRows, SoldMatchesRows, OpenUnits, TakenUnits, ReturnedUnits,
       Held, Taken, Returned

LEMMA QuantitiesType ==
    ASSUME StockTypeOK, NEW v \in Variants
    PROVE  Held(v) \in Quantities /\ Taken(v) \in Quantities /\ Returned(v) \in Quantities
BY HeldAndTaken DEF Held, Taken, Returned, Quantities, StockTypeOK, Lines

\* What a step does that touches the rows of one order only, and moves each
\* counter by the change of that order's units.
Moves(o) ==
    /\ \A p \in Orders \ {o}, v \in Variants :
          /\ HeldBy(p, v)' = HeldBy(p, v)
          /\ TakenBy(p, v)' = TakenBy(p, v)
          /\ returned'[p][v] = returned[p][v]
    /\ \A v \in Variants :
          /\ reserved'[v] - reserved[v] = HeldBy(o, v)' - HeldBy(o, v)
          /\ sold'[v] - sold[v] = (TakenBy(o, v)' - TakenBy(o, v))
                                   - (returned'[o][v] - returned[o][v])

\* Such a step keeps the counters in line with the rows.
LEMMA MovesKeep ==
    ASSUME StockTypeOK, StockTypeOK', RowsInv, NEW o \in Orders, Moves(o), ClosedRowsExist'
    PROVE  RowsInv'
<1> SUFFICES ASSUME NEW v \in Variants
             PROVE  /\ reserved'[v] = Cardinality(UnitsOf(Held(v)'))
                    /\ sold'[v] = Cardinality(UnitsOf(Taken(v)'))
                                   - Cardinality(UnitsOf(Returned(v)'))
  BY DEF RowsInv, ReservedMatchesRows, SoldMatchesRows, OpenUnits, TakenUnits, ReturnedUnits,
         Held, Taken, Returned
<1>1. Held(v) \in Quantities /\ Taken(v) \in Quantities /\ Returned(v) \in Quantities
  BY QuantitiesType
<1>2. \A p \in Orders : /\ HeldBy(p, v)' \in 0 .. MaxQty
                        /\ TakenBy(p, v)' \in 0 .. MaxQty
                        /\ returned'[p][v] \in 0 .. MaxQty
  BY StockAssumption DEF StockTypeOK, Lines, HeldBy, TakenBy
<1>3. Held(v)' \in Quantities /\ Taken(v)' \in Quantities /\ Returned(v)' \in Quantities
  BY <1>2 DEF Held, Taken, Returned, Quantities
<1>4. Cardinality(UnitsOf(Held(v)')) = Cardinality(UnitsOf(Held(v))) + HeldBy(o, v)' - HeldBy(o, v)
  <2>1. \A p \in Orders \ {o} : Held(v)'[p] = Held(v)[p]
    BY DEF Held, Moves
  <2>2. Held(v)'[o] = HeldBy(o, v)' /\ Held(v)[o] = HeldBy(o, v)
    BY DEF Held
  <2> QED
    BY <1>1, <1>3, <2>1, <2>2, CountChange
<1>5. Cardinality(UnitsOf(Taken(v)'))
         = Cardinality(UnitsOf(Taken(v))) + TakenBy(o, v)' - TakenBy(o, v)
  <2>1. \A p \in Orders \ {o} : Taken(v)'[p] = Taken(v)[p]
    BY DEF Taken, Moves
  <2>2. Taken(v)'[o] = TakenBy(o, v)' /\ Taken(v)[o] = TakenBy(o, v)
    BY DEF Taken
  <2> QED
    BY <1>1, <1>3, <2>1, <2>2, CountChange
<1>6. Cardinality(UnitsOf(Returned(v)'))
         = Cardinality(UnitsOf(Returned(v))) + returned'[o][v] - returned[o][v]
  <2>1. \A p \in Orders \ {o} : Returned(v)'[p] = Returned(v)[p]
    BY DEF Returned, Moves
  <2>2. Returned(v)'[o] = returned'[o][v] /\ Returned(v)[o] = returned[o][v]
    BY DEF Returned
  <2> QED
    BY <1>1, <1>3, <2>1, <2>2, CountChange
<1>7. /\ Cardinality(UnitsOf(Held(v))) \in Nat
      /\ Cardinality(UnitsOf(Taken(v))) \in Nat
      /\ Cardinality(UnitsOf(Returned(v))) \in Nat
  BY <1>1, UnitsFinite
<1>8. /\ reserved[v] = Cardinality(UnitsOf(Held(v)))
      /\ sold[v] = Cardinality(UnitsOf(Taken(v))) - Cardinality(UnitsOf(Returned(v)))
  BY RowsByQuantities DEF RowsInv
<1>9. /\ reserved'[v] \in Int /\ sold'[v] \in Int
      /\ HeldBy(o, v) \in Int /\ TakenBy(o, v) \in Int /\ returned[o][v] \in Int
      /\ HeldBy(o, v)' \in Int /\ TakenBy(o, v)' \in Int /\ returned'[o][v] \in Int
  BY <1>2, HeldAndTaken, StockAssumption DEF StockTypeOK, Lines
<1>10. /\ reserved'[v] - reserved[v] = HeldBy(o, v)' - HeldBy(o, v)
       /\ sold'[v] - sold[v] = (TakenBy(o, v)' - TakenBy(o, v)) - (returned'[o][v] - returned[o][v])
  BY DEF Moves
<1> QED
  BY <1>4, <1>5, <1>6, <1>7, <1>8, <1>9, <1>10

LEMMA RowsStep == StockTypeOK /\ RowsInv /\ [StockNext]_stockVars => RowsInv'
<1> SUFFICES ASSUME StockTypeOK, RowsInv, [StockNext]_stockVars PROVE RowsInv'
  OBVIOUS
<1> USE StockTypeStep
<1>1. ASSUME NEW o \in Orders, NEW lines \in Lines, Reserve(o, lines)
     PROVE  RowsInv'
  <2>1. ClosedRowsExist'
    BY <1>1, StockAssumption DEF Reserve, Placed, StockTypeOK, Lines, RowsInv, ClosedRowsExist
  <2>2. ASSUME NEW p \in Orders \ {o}, NEW x \in Variants
        PROVE  /\ HeldBy(p, x)' = HeldBy(p, x)
               /\ TakenBy(p, x)' = TakenBy(p, x)
               /\ returned'[p][x] = returned[p][x]
    BY <1>1, <2>2 DEF Reserve, HeldBy, TakenBy, IsOpen, IsTaken, StockTypeOK
  <2>3. ASSUME NEW x \in Variants
        PROVE  /\ reserved'[x] - reserved[x] = HeldBy(o, x)' - HeldBy(o, x)
               /\ sold'[x] - sold[x] = (TakenBy(o, x)' - TakenBy(o, x))
                                        - (returned'[o][x] - returned[o][x])
    BY <1>1, <2>3, StockAssumption
    DEF Reserve, Placed, Post, NoUnits, HeldBy, TakenBy, IsOpen, IsTaken, StockTypeOK, Lines,
        RowsInv, ClosedRowsExist
  <2> QED
    BY <2>1, <2>2, <2>3, MovesKeep DEF Moves
<1>2. ASSUME NEW o \in Orders, NEW lines \in Lines, ReserveAndCommit(o, lines)
     PROVE  RowsInv'
  <2>1. ClosedRowsExist'
    BY <1>2, StockAssumption
    DEF ReserveAndCommit, Placed, StockTypeOK, Lines, RowsInv, ClosedRowsExist
  <2>2. ASSUME NEW p \in Orders \ {o}, NEW x \in Variants
        PROVE  /\ HeldBy(p, x)' = HeldBy(p, x)
               /\ TakenBy(p, x)' = TakenBy(p, x)
               /\ returned'[p][x] = returned[p][x]
    BY <1>2, <2>2 DEF ReserveAndCommit, HeldBy, TakenBy, IsOpen, IsTaken, StockTypeOK
  <2>3. ASSUME NEW x \in Variants
        PROVE  /\ reserved'[x] - reserved[x] = HeldBy(o, x)' - HeldBy(o, x)
               /\ sold'[x] - sold[x] = (TakenBy(o, x)' - TakenBy(o, x))
                                        - (returned'[o][x] - returned[o][x])
    BY <1>2, <2>3, StockAssumption
    DEF ReserveAndCommit, Placed, Post, NoUnits, HeldBy, TakenBy, IsOpen, IsTaken, StockTypeOK,
        Lines, RowsInv, ClosedRowsExist
  <2> QED
    BY <2>1, <2>2, <2>3, MovesKeep DEF Moves
<1>3. ASSUME NEW o \in Orders, NEW lines \in Lines, ReceiveReturn(o, lines)
     PROVE  RowsInv'
  <2>1. ClosedRowsExist'
    BY <1>3 DEF ReceiveReturn, Restock, rows, RowsInv, ClosedRowsExist
  <2>2. ASSUME NEW p \in Orders \ {o}, NEW x \in Variants
        PROVE  /\ HeldBy(p, x)' = HeldBy(p, x)
               /\ TakenBy(p, x)' = TakenBy(p, x)
               /\ returned'[p][x] = returned[p][x]
    BY <1>3, <2>2 DEF ReceiveReturn, Restock, rows, HeldBy, TakenBy, IsOpen, IsTaken, StockTypeOK
  <2>3. ASSUME NEW x \in Variants
        PROVE  /\ reserved'[x] - reserved[x] = HeldBy(o, x)' - HeldBy(o, x)
               /\ sold'[x] - sold[x] = (TakenBy(o, x)' - TakenBy(o, x))
                                        - (returned'[o][x] - returned[o][x])
    BY <1>3, <2>3, HeldAndTaken, StockAssumption
    DEF ReceiveReturn, Restock, rows, Post, NoUnits, HeldBy, TakenBy, IsOpen, IsTaken,
        StockTypeOK, Lines
  <2> QED
    BY <2>1, <2>2, <2>3, MovesKeep DEF Moves
<1>4. ASSUME NEW o \in Orders, CommitOrder(o)
     PROVE  RowsInv'
  <2>1. ClosedRowsExist'
    BY <1>4 DEF CommitOrder, OpenLines, IsOpen, RowsInv, ClosedRowsExist
  <2>2. ASSUME NEW p \in Orders \ {o}, NEW x \in Variants
        PROVE  /\ HeldBy(p, x)' = HeldBy(p, x)
               /\ TakenBy(p, x)' = TakenBy(p, x)
               /\ returned'[p][x] = returned[p][x]
    BY <1>4, <2>2 DEF CommitOrder, OpenLines, HeldBy, TakenBy, IsOpen, IsTaken, StockTypeOK
  <2>3. ASSUME NEW x \in Variants
        PROVE  /\ reserved'[x] - reserved[x] = HeldBy(o, x)' - HeldBy(o, x)
               /\ sold'[x] - sold[x] = (TakenBy(o, x)' - TakenBy(o, x))
                                        - (returned'[o][x] - returned[o][x])
    <3>1. /\ HeldBy(o, x)' = 0
          /\ TakenBy(o, x)' = TakenBy(o, x) + HeldBy(o, x)
      BY <1>4, StockAssumption
      DEF CommitOrder, OpenLines, HeldBy, TakenBy, IsOpen, IsTaken, StockTypeOK, Lines
    <3>2. reserved'[x] = reserved[x] - HeldBy(o, x) /\ sold'[x] = sold[x] + HeldBy(o, x)
      BY <1>4, HeldAndTaken DEF CommitOrder, Post, NoUnits, StockTypeOK
    <3>3. returned' = returned /\ returned[o][x] \in Int
      BY <1>4, StockAssumption DEF CommitOrder, StockTypeOK, Lines
    <3> QED
      BY <3>1, <3>2, <3>3, HeldAndTaken, StockAssumption DEF StockTypeOK
  <2> QED
    BY <2>1, <2>2, <2>3, MovesKeep DEF Moves
<1>5. ASSUME NEW o \in Orders, CancelOrder(o)
     PROVE  RowsInv'
  <2>1. ClosedRowsExist'
    BY <1>5 DEF CancelOrder, OpenLines, TakenLines, IsOpen, IsTaken, RowsInv, ClosedRowsExist
  <2>2. ASSUME NEW p \in Orders \ {o}, NEW x \in Variants
        PROVE  /\ HeldBy(p, x)' = HeldBy(p, x)
               /\ TakenBy(p, x)' = TakenBy(p, x)
               /\ returned'[p][x] = returned[p][x]
    BY <1>5, <2>2
    DEF CancelOrder, OpenLines, TakenLines, HeldBy, TakenBy, IsOpen, IsTaken, StockTypeOK
  <2>3. ASSUME NEW x \in Variants
        PROVE  /\ reserved'[x] - reserved[x] = HeldBy(o, x)' - HeldBy(o, x)
               /\ sold'[x] - sold[x] = (TakenBy(o, x)' - TakenBy(o, x))
                                        - (returned'[o][x] - returned[o][x])
    <3>1. HeldBy(o, x)' = 0 /\ TakenBy(o, x)' = 0
      BY <1>5, StockAssumption
      DEF CancelOrder, OpenLines, TakenLines, HeldBy, TakenBy, IsOpen, IsTaken, StockTypeOK, Lines
    <3>2. reserved'[x] = reserved[x] - HeldBy(o, x) /\ sold'[x] = sold[x] - TakenBy(o, x)
      BY <1>5, HeldAndTaken DEF CancelOrder, Post, StockTypeOK
    <3>3. returned' = returned /\ returned[o][x] \in Int
      BY <1>5, StockAssumption DEF CancelOrder, StockTypeOK, Lines
    <3> QED
      BY <3>1, <3>2, <3>3, HeldAndTaken, StockAssumption DEF StockTypeOK
  <2> QED
    BY <2>1, <2>2, <2>3, MovesKeep DEF Moves
<1>6. ASSUME NEW w \in Workers, NEW o \in Orders, NEW v \in Variants, ReleaseClaim(w, o, v)
     PROVE  RowsInv'
  <2>1. ClosedRowsExist'
    BY <1>6 DEF ReleaseClaim, IsOpen, RowsInv, ClosedRowsExist
  <2>2. ASSUME NEW p \in Orders \ {o}, NEW x \in Variants
        PROVE  /\ HeldBy(p, x)' = HeldBy(p, x)
               /\ TakenBy(p, x)' = TakenBy(p, x)
               /\ returned'[p][x] = returned[p][x]
    BY <1>6, <2>2 DEF ReleaseClaim, HeldBy, TakenBy, IsOpen, IsTaken, StockTypeOK
  <2>3. ASSUME NEW x \in Variants
        PROVE  /\ reserved'[x] - reserved[x] = HeldBy(o, x)' - HeldBy(o, x)
               /\ sold'[x] - sold[x] = (TakenBy(o, x)' - TakenBy(o, x))
                                        - (returned'[o][x] - returned[o][x])
    <3>1. /\ HeldBy(o, x)' = HeldBy(o, x) - (IF x = v THEN quantity[o][v] ELSE 0)
          /\ TakenBy(o, x)' = TakenBy(o, x)
      <4>1. CASE x = v
        BY <1>6, <4>1, StockAssumption
        DEF ReleaseClaim, HeldBy, TakenBy, IsOpen, IsTaken, StockTypeOK, Lines
      <4>2. CASE x # v
        <5>1. quantity'[o][x] = quantity[o][x] /\ (IsOpen(o, x)' <=> IsOpen(o, x))
                                              /\ (IsTaken(o, x)' <=> IsTaken(o, x))
          BY <1>6, <4>2 DEF ReleaseClaim, IsOpen, IsTaken
        <5> QED
          BY <4>2, <5>1, HeldAndTaken, StockAssumption DEF HeldBy, TakenBy
      <4> QED
        BY <4>1, <4>2
    <3>2. /\ reserved'[x] = reserved[x] - (IF x = v THEN quantity[o][v] ELSE 0)
          /\ sold'[x] = sold[x]
      BY <1>6, StockAssumption DEF ReleaseClaim, Post, NoUnits, StockTypeOK, Lines
    <3>3. returned' = returned /\ returned[o][x] \in Int /\ quantity[o][v] \in Int
      BY <1>6, StockAssumption DEF ReleaseClaim, StockTypeOK, Lines
    <3> QED
      BY <3>1, <3>2, <3>3, HeldAndTaken, StockAssumption DEF StockTypeOK
  <2> QED
    BY <2>1, <2>2, <2>3, MovesKeep DEF Moves
<1>7. ASSUME UNCHANGED <<reserved, sold, rows, returned>>
      PROVE  RowsInv'
  BY <1>7 DEF rows, RowsInv, ClosedRowsExist, ReservedMatchesRows, SoldMatchesRows, OpenUnits,
              TakenUnits, ReturnedUnits, HeldBy, TakenBy, IsOpen, IsTaken
<1>8. ASSUME NEW v \in Variants, NEW delta \in -MaxQty .. MaxQty, AdjustInventory(v, delta)
      PROVE  RowsInv'
  <2>1. reserved' = reserved /\ sold' = sold
    BY <1>8 DEF AdjustInventory, Post, NoUnits, StockTypeOK
  <2> QED
    BY <1>7, <1>8, <2>1 DEF AdjustInventory
<1>9. ASSUME NEW w \in Workers,
             \/ ReleaseRead(w) \/ ReleaseFail(w)
             \/ \E o \in Orders, v \in Variants : ReleaseSkip(w, o, v)
      PROVE  RowsInv'
  BY <1>7, <1>9 DEF ReleaseRead, ReleaseFail, ReleaseSkip, counters
<1>10. ASSUME NEW e \in Editors,
              \/ EditSnapshot(e)
              \/ \E v \in Variants, stock \in 0 .. InitialStock : EditCommit(e, v, stock)
       PROVE  RowsInv'
  BY <1>7, <1>10 DEF EditSnapshot, EditCommit, counters
<1>11. ASSUME NEW o \in Orders, Lapse(o)
       PROVE  RowsInv'
  BY <1>7, <1>11 DEF Lapse, counters
<1> QED
  BY <1>1, <1>2, <1>3, <1>4, <1>5, <1>6, <1>7, <1>8, <1>9, <1>10, <1>11
  DEF StockNext, ReleaseJob, ManualChange, stockVars, counters

\* Initially there is no row and nothing is reserved or sold.
LEMMA RowsInit == StockInit => RowsInv
<1> SUFFICES ASSUME StockInit PROVE RowsInv
  OBVIOUS
<1>1. ASSUME NEW f, \A o \in Orders : f[o] = 0
      PROVE  UnitsOf(f) = {}
  BY <1>1, StockAssumption DEF UnitsOf
<1>2. ASSUME NEW v \in Variants
      PROVE  OpenUnits(v) = {} /\ TakenUnits(v) = {} /\ ReturnedUnits(v) = {}
  <2>1. \A o \in Orders : HeldBy(o, v) = 0 /\ TakenBy(o, v) = 0 /\ returned[o][v] = 0
    BY DEF StockInit, NoUnits, HeldBy, TakenBy
  <2> QED
    BY <1>1, <2>1 DEF OpenUnits, TakenUnits, ReturnedUnits
<1>3. ASSUME NEW v \in Variants
      PROVE  /\ Cardinality(OpenUnits(v)) = 0
             /\ Cardinality(TakenUnits(v)) = 0
             /\ Cardinality(ReturnedUnits(v)) = 0
  BY <1>2, FS_EmptySet
<1>4. ReservedMatchesRows /\ SoldMatchesRows
  BY <1>3 DEF StockInit, NoUnits, ReservedMatchesRows, SoldMatchesRows
<1>5. ClosedRowsExist
  BY DEF StockInit, ClosedRowsExist
<1> QED
  BY <1>4, <1>5 DEF RowsInv

\* The reserved and sold counters always agree with the reservation rows and
\* the received returns, whatever the release job, commits, cancellations and
\* the product editor interleave: no reservation is closed twice.
THEOREM StockCountersMatchRows == StockSpec => [](ReservedMatchesRows /\ SoldMatchesRows)
<1>1. RowsInv => ReservedMatchesRows /\ SoldMatchesRows
  BY DEF RowsInv
<1> QED
  BY <1>1, RowsInit, RowsStep, StockTypeCorrect, PTL DEF StockSpec

\* Without a product editor at work the three books of the stock agree: the
\* counters, the reservation rows and the ledger.
THEOREM StockBooksAgree ==
    ASSUME Editors = {}
    PROVE  StockSpec => []BooksAgree
<1>1. ReservedMatchesRows /\ SoldMatchesRows /\ LedgerMatchesCounters => BooksAgree
  BY DEF BooksAgree
<1> QED
  BY <1>1, StockLedger, StockCountersMatchRows, PTL
=============================================================================
