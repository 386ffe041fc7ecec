------------------------- MODULE Connections_proofs -------------------------
(***************************************************************************)
(* Proofs about Connections for every pool, and for every number of actors *)
(* and readers.                                                            *)
(***************************************************************************)
EXTENDS Connections, FiniteSetTheorems, TLAPS

\* TypeOK without the bound, and what a region's statements owe to its event.
Shape ==
  /\ step \in [Actors -> Steps]
  /\ tx \subseteq {a \in Actors : step[a] \in {"open", "gate", "fork"}}
  /\ todo \in [Actors -> [Regions -> 0..2]]
  /\ busy \subseteq Actors \X Regions
  /\ \A a \in Actors, r \in Regions : <<a, r>> \in busy => todo[a][r] > 0
  /\ reading \subseteq Readers
  /\ gone \subseteq Actors

Waits(a) == step[a] \in {"gate", "fork"}

\* Only an event of a nested actor waits for further connections, and one that
\* does not wait has no statements left.
Waiting ==
  \A a \in Actors : /\ Waits(a) => a \in Nested
                    /\ ~Waits(a) => \A r \in Regions : todo[a][r] = 0

Bound == InUse <= MaxOpenConns

-----------------------------------------------------------------------------
(* Counting connections.                                                   *)

\* What a set of holders gains or loses.
LEMMA Counting ==
  ASSUME NEW S, IsFiniteSet(S)
  PROVE  /\ Cardinality(S) \in Nat
         /\ \A x : Cardinality(S \cup {x}) <= Cardinality(S) + 1
         /\ \A T \in SUBSET S : IsFiniteSet(T) /\ Cardinality(T) <= Cardinality(S)
<1>1. Cardinality(S) \in Nat
  BY FS_CardinalityType
<1>2. ASSUME NEW x
      PROVE  Cardinality(S \cup {x}) <= Cardinality(S) + 1
  <2>1. Cardinality(S \cup {x})
          = IF x \in S THEN Cardinality(S) ELSE Cardinality(S) + 1
    BY <1>2, FS_AddElement
  <2> QED BY <1>1, <2>1
<1>3. ASSUME NEW T \in SUBSET S
      PROVE  IsFiniteSet(T) /\ Cardinality(T) <= Cardinality(S)
  BY FS_Subset
<1> QED BY <1>1, <1>2, <1>3

\* The holders of connections are finite in number.
LEMMA HoldersFinite ==
  ASSUME Shape
  PROVE  IsFiniteSet(tx) /\ IsFiniteSet(busy) /\ IsFiniteSet(reading)
<1>1. IsFiniteSet(Actors) /\ IsFiniteSet(Readers) /\ Width \in Nat
  BY ConnectionsAssumption
<1>2. IsFiniteSet(Regions)
  BY <1>1, FS_Interval DEF Regions
<1>3. IsFiniteSet(Actors \X Regions)
  BY <1>1, <1>2, FS_Product
<1>4. tx \in SUBSET Actors /\ busy \in SUBSET (Actors \X Regions)
        /\ reading \in SUBSET Readers
  BY DEF Shape
<1> QED BY <1>1, <1>3, <1>4, FS_Subset

\* A connection is taken only from a pool that has one left.
LEMMA BoundKept ==
  ASSUME Shape, Bound, [Next]_vars
  PROVE  Bound'
<1> DEFINE T == Cardinality(tx) B == Cardinality(busy) R == Cardinality(reading)
<1>1. IsFiniteSet(tx) /\ IsFiniteSet(busy) /\ IsFiniteSet(reading)
  BY HoldersFinite
<1>2. T \in Nat /\ B \in Nat /\ R \in Nat /\ MaxOpenConns \in Nat
  BY <1>1, Counting, ConnectionsAssumption
<1>3. T + B + R <= MaxOpenConns
  BY DEF Bound, InUse
<1>4. /\ \A x : Cardinality(tx \cup {x}) <= T + 1
      /\ \A S \in SUBSET tx : IsFiniteSet(S) /\ Cardinality(S) <= T
  BY <1>1, Counting
<1>5. /\ \A x : Cardinality(busy \cup {x}) <= B + 1
      /\ \A S \in SUBSET busy : IsFiniteSet(S) /\ Cardinality(S) <= B
  BY <1>1, Counting
<1>6. /\ \A x : Cardinality(reading \cup {x}) <= R + 1
      /\ \A S \in SUBSET reading : IsFiniteSet(S) /\ Cardinality(S) <= R
  BY <1>1, Counting
<1>7. /\ \A x : IsFiniteSet(tx \cup {x}) /\ IsFiniteSet(busy \cup {x})
                  /\ IsFiniteSet(reading \cup {x})
  BY <1>1, FS_AddElement
<1>8. Free <=> T + B + R < MaxOpenConns
  BY DEF Free, InUse
<1> DEFINE T2 == Cardinality(tx') B2 == Cardinality(busy') R2 == Cardinality(reading')
<1>9. T2 \in Nat /\ B2 \in Nat /\ R2 \in Nat
  <2>1. IsFiniteSet(tx')
    BY <1>1, <1>4, <1>7 DEF Next, ActorStep, ReaderStep, StatementStep, vars,
       Receive, BeginTx, BeginGivesUp, Gate, Fork, Acquire, StatementEnds,
       Resume, EndTx, Cancel, GateGivesUp, Query, QueryEnds
  <2>2. IsFiniteSet(busy')
    BY <1>1, <1>5, <1>7 DEF Next, ActorStep, ReaderStep, StatementStep, vars,
       Receive, BeginTx, BeginGivesUp, Gate, Fork, Acquire, StatementEnds,
       Resume, EndTx, Cancel, GateGivesUp, Query, QueryEnds
  <2>3. IsFiniteSet(reading')
    BY <1>1, <1>6, <1>7 DEF Next, ActorStep, ReaderStep, StatementStep, vars,
       Receive, BeginTx, BeginGivesUp, Gate, Fork, Acquire, StatementEnds,
       Resume, EndTx, Cancel, GateGivesUp, Query, QueryEnds
  <2> QED BY <2>1, <2>2, <2>3, FS_CardinalityType
<1>10. \/ T2 <= T /\ B2 <= B /\ R2 <= R
       \/ /\ Free
          /\ \/ T2 <= T + 1 /\ B2 = B /\ R2 = R
             \/ T2 = T /\ B2 <= B + 1 /\ R2 = R
             \/ T2 = T /\ B2 = B /\ R2 <= R + 1
  <2> USE <1>2
  <2>1. CASE UNCHANGED vars
    BY <2>1 DEF vars
  <2>2. ASSUME NEW a \in Actors, ActorStep(a)
        PROVE  \/ T2 <= T /\ B2 <= B /\ R2 <= R
               \/ Free /\ T2 <= T + 1 /\ B2 = B /\ R2 = R
               \/ Free /\ T2 = T /\ B2 <= B + 1 /\ R2 = R
    <3>1. CASE Receive(a) \/ BeginGivesUp(a) \/ Gate(a) \/ Resume(a)
               \/ \E k \in Regions : Fork(a, k)
      BY <3>1 DEF Receive, BeginGivesUp, Gate, Resume, Fork
    <3>2. CASE BeginTx(a)
      BY <3>2, <1>4 DEF BeginTx
    <3>3. CASE EndTx(a) \/ Cancel(a)
      <4>1. tx' \in SUBSET tx /\ busy' = busy /\ reading' = reading
        BY <3>3 DEF EndTx, Cancel
      <4> QED BY <4>1, <1>4
    <3>4. CASE GateGivesUp(a)
      <4>1. tx' = tx /\ busy' \in SUBSET busy /\ reading' = reading
        BY <3>4 DEF GateGivesUp
      <4> QED BY <4>1, <1>5
    <3>5. ASSUME NEW r \in Regions, StatementStep(a, r)
          PROVE  \/ T2 <= T /\ B2 <= B /\ R2 <= R
                 \/ Free /\ T2 = T /\ B2 <= B + 1 /\ R2 = R
      <4>1. CASE Acquire(a, r)
        BY <4>1, <1>5 DEF Acquire
      <4>2. ASSUME NEW left \in {0, 1}, StatementEnds(a, r, left)
            PROVE  T2 <= T /\ B2 <= B /\ R2 <= R
        <5>1. tx' = tx /\ busy' \in SUBSET busy /\ reading' = reading
          BY <4>2 DEF StatementEnds
        <5> QED BY <5>1, <1>5
      <4> HIDE DEF T, B, R, T2, B2, R2
      <4> QED BY <3>5, <4>1, <4>2 DEF StatementStep
    <3> HIDE DEF T, B, R, T2, B2, R2
    <3> QED BY <2>2, <3>1, <3>2, <3>3, <3>4, <3>5 DEF ActorStep
  <2>3. ASSUME NEW u \in Readers, ReaderStep(u)
        PROVE  \/ T2 <= T /\ B2 <= B /\ R2 <= R
               \/ Free /\ T2 = T /\ B2 = B /\ R2 <= R + 1
    <3>1. CASE Query(u)
      BY <3>1, <1>6 DEF Query
    <3>2. CASE QueryEnds(u)
      <4>1. tx' = tx /\ busy' = busy /\ reading' \in SUBSET reading
        BY <3>2 DEF QueryEnds
      <4> QED BY <4>1, <1>6
    <3> HIDE DEF T, B, R, T2, B2, R2
    <3> QED BY <2>3, <3>1, <3>2 DEF ReaderStep
  <2> HIDE DEF T, B, R, T2, B2, R2
  <2> QED BY <2>1, <2>2, <2>3 DEF Next
<1>11. T2 + B2 + R2 <= MaxOpenConns
  <2> HIDE DEF T, B, R, T2, B2, R2
  <2> QED BY <1>2, <1>3, <1>8, <1>9, <1>10
<1> QED BY <1>11 DEF Bound, InUse

-----------------------------------------------------------------------------
(* Where events are, and what their regions have left.                     *)

\* The shape and the waiting of events are kept by what an actor does.
LEMMA ActorKeepsShape ==
  ASSUME Shape, Waiting, NEW a \in Actors, ActorStep(a)
  PROVE  Shape' /\ Waiting'
<1>1. 1 \in Regions /\ Width \in Nat
  BY ConnectionsAssumption DEF Regions
<1>2. CASE Receive(a)
  BY <1>2 DEF Receive, Shape, Waiting, Waits, Steps
<1>3. CASE BeginTx(a)
  BY <1>3 DEF BeginTx, Shape, Waiting, Waits, Steps
<1>4. CASE BeginGivesUp(a)
  BY <1>4 DEF BeginGivesUp, Shape, Waiting, Waits, Steps
<1>5. CASE Gate(a)
  BY <1>5, <1>1 DEF Gate, Shape, Waiting, Waits, Steps
<1>6. ASSUME NEW k \in Regions, Fork(a, k)
      PROVE  Shape' /\ Waiting'
  BY <1>6, <1>1 DEF Fork, Shape, Waiting, Waits, Steps
<1>7. CASE Resume(a)
  BY <1>7 DEF Resume, Shape, Waiting, Waits, Steps
<1>8. CASE EndTx(a)
  BY <1>8 DEF EndTx, Shape, Waiting, Waits, Steps
<1>9. CASE Cancel(a)
  BY <1>9, ConnectionsAssumption DEF Cancel, Shape, Waiting, Waits, Steps
<1>10. CASE GateGivesUp(a)
  BY <1>10 DEF GateGivesUp, Shape, Waiting, Waits, Steps
<1>11. ASSUME NEW r \in Regions, Acquire(a, r)
       PROVE  Shape' /\ Waiting'
  BY <1>11 DEF Acquire, Shape, Waiting, Waits, Steps
<1>12. ASSUME NEW r \in Regions, NEW left \in {0, 1}, StatementEnds(a, r, left)
       PROVE  Shape' /\ Waiting'
  BY <1>12 DEF StatementEnds, Shape, Waiting, Waits, Steps
<1> QED BY <1>2, <1>3, <1>4, <1>5, <1>6, <1>7, <1>8, <1>9, <1>10, <1>11, <1>12
        DEF ActorStep, StatementStep

\* Readers do not touch it.
LEMMA ShapeKept ==
  ASSUME Shape, Waiting, [Next]_vars
  PROVE  Shape' /\ Waiting'
<1>1. CASE UNCHANGED vars
  BY <1>1 DEF vars, Shape, Waiting, Waits
<1>2. ASSUME NEW u \in Readers, ReaderStep(u)
      PROVE  Shape' /\ Waiting'
  BY <1>2 DEF ReaderStep, Query, QueryEnds, Shape, Waiting, Waits
<1> QED BY <1>1, <1>2, ActorKeepsShape DEF Next

\* Nothing is held or owed at first.
LEMMA InitHolds ==
  ASSUME Init
  PROVE  Shape /\ Waiting /\ Bound
<1>1. Shape /\ Waiting
  BY DEF Init, Shape, Waiting, Waits, Steps
<1>2. tx = {} /\ busy = {} /\ reading = {}
  BY DEF Init
<1>3. InUse = 0
  BY <1>2, FS_EmptySet DEF InUse
<1> QED BY <1>1, <1>3, ConnectionsAssumption DEF Bound

IInv == Shape /\ Waiting /\ Bound

\* The invariant, from the three lemmas.
THEOREM Inductive == Spec => []IInv
<1>1. Init => IInv
  BY InitHolds DEF IInv
<1>2. IInv /\ [Next]_vars => IInv'
  BY BoundKept, ShapeKept DEF IInv
<1> QED BY <1>1, <1>2, PTL DEF Spec

-----------------------------------------------------------------------------
\* The pool of the host is never exceeded, and every connection is held by an
\* open transaction, by a statement that its region still has to do, or by a
\* query.
THEOREM TypeCorrect == Spec => []TypeOK
<1>1. IInv => TypeOK
  BY DEF IInv, Shape, Bound, TypeOK
<1> QED BY <1>1, Inductive, PTL

\* children.go:107: no statement, and no transaction, outlives its event.
THEOREM NothingOutlives == Spec => []NothingOutlivesEvent
<1>1. IInv => NothingOutlivesEvent
  BY DEF IInv, Shape, Waiting, Waits, NothingOutlivesEvent
<1> QED BY <1>1, Inductive, PTL

\* Events cannot use up the pool by waiting for one another, if it has more
\* connections than there are actors that need several: were all connections
\* held by waiting transactions, each would be a different one of those actors.
THEOREM PoolNeverStuck == Spec => []NeverStuck
<1>1. IInv => NeverStuck
  <2> SUFFICES ASSUME IInv, Cardinality(Nested) < MaxOpenConns, ~Free,
                      busy = {}, reading = {}, \A a \in tx : step[a] # "open"
               PROVE  FALSE
    BY DEF NeverStuck
  <2>1. Shape /\ Waiting
    BY DEF IInv
  <2>2. tx \subseteq Nested
    BY <2>1 DEF Shape, Waiting, Waits
  <2>3. IsFiniteSet(Nested)
    BY ConnectionsAssumption, FS_Subset
  <2>4. Cardinality(tx) <= Cardinality(Nested)
    BY <2>2, <2>3, FS_Subset
  <2>5. IsFiniteSet(tx)
    BY <2>1, HoldersFinite
  <2>6. Cardinality(tx) \in Nat /\ Cardinality(Nested) \in Nat
    BY <2>3, <2>5, FS_CardinalityType
  <2>7. InUse = Cardinality(tx)
    BY <2>6, FS_EmptySet DEF InUse
  <2> QED BY <2>4, <2>6, <2>7, ConnectionsAssumption DEF Free
<1> QED BY <1>1, Inductive, PTL
=============================================================================
