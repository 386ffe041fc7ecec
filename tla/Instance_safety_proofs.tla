----------------------- MODULE Instance_safety_proofs -----------------------
(***************************************************************************)
(* Proofs of the safety properties of Instance, over the typing invariant  *)
(* of Instance_proofs.                                                     *)
(***************************************************************************)
EXTENDS Instance_proofs, FiniteSetTheorems, WellFoundedInduction

-----------------------------------------------------------------------------
(* What the steps do to the row and to its copy.                           *)

\* Children and attempts move, the event does not.
Beside == /\ UNCHANGED <<row, eventVars, pc, gens, published, crashes>>
          /\ ChildStep \/ UNCHANGED kids

\* An event, or the creation, is given up: an error or a crash.
Drop == /\ pc' \in {"idle", "failed"}
        /\ Return
        /\ UNCHANGED <<row, gens>>
        /\ Crash \/ UNCHANGED kids
        /\ published' \in {published, None}

\* An event, of a client or of an attempt, is taken up.
Take == \E event \in Events \cup {None} : Match(event)

\* An event moves on.
Forward ==
  \/ \E t \in tran : Transit(t) \/ \E n \in DOMAIN t.forks : SpawnFails(n)
  \/ Gate \/ ForkCompletes \/ ChainHop \/ ChainEnds
  \/ InsertRow \/ CommitRow \/ Publish

\* Every step is one of these.
LEMMA StepKinds ==
  ASSUME TypeOK, [Next]_vars
  PROVE  Beside \/ Drop \/ Take \/ Forward
<1>1. Fail => Drop
  BY DEF Fail, Drop
<1>2. CASE UNCHANGED vars
  BY <1>2 DEF vars, Beside, eventVars
<1>3. ASSUME NEW event \in Events, ReceiveClientEvent(event) PROVE Take
  BY <1>3 DEF ReceiveClientEvent, Take
<1>4. CASE Advance
  BY <1>1, <1>4
     DEF Advance, Break, GateCloses, ForkFails, ChainTooLong, ApplyFails,
         EnterFails, Forward
<1>5. CASE DatabaseFails
  BY <1>1, <1>5 DEF DatabaseFails
<1>6. ASSUME NEW k \in 1 .. MaxAttempts, AttemptStep(k) PROVE Beside \/ Take
  <2>1. CASE AttemptReads(k) \/ AttemptCounts(k) \/ JoinEventMatchesNothing(k)
    BY <2>1
       DEF AttemptReads, AttemptCounts, JoinEventMatchesNothing, Beside
  <2>2. CASE ReceiveJoinEvent(k)
    <3>1. Match(attempts[k].event)
      BY <2>2 DEF ReceiveJoinEvent
    <3>2. attempts[k].event \in Events \cup {None}
      BY DEF TypeOK, Attempts
    <3> QED  BY <3>1, <3>2 DEF Take
  <2> QED  BY <1>6, <2>1, <2>2 DEF AttemptStep
<1>7. CASE ChildStep
  BY <1>7 DEF ChildStep, KidCommits, WithdrawKid, AdHocChild, Beside
<1>8. CASE Crash
  BY <1>8 DEF Crash, Drop
<1> QED  BY <1>2, <1>3, <1>4, <1>5, <1>6, <1>7, <1>8 DEF Next, QuietNext

\* What the steps that change wf make of it.
LEMMA InternalEffect ==
  ASSUME TypeOK, NEW t, ApplyInternal(t)
  PROVE  /\ wf'.pos = wf.pos /\ wf'.gen = wf.gen /\ wf'.version = wf.version
         /\ wf'.history = wf.history
         /\ wf'.journey = Append(wf.journey, Entry(wf.pos, wf.pos))
  BY DEF TypeOK, ApplyInternal, Rows

\* A substate is left.
LEMMA SubstateEffect ==
  ASSUME TypeOK, NEW t, LeaveSubstate(t)
  PROVE  /\ wf'.gen = wf.gen /\ wf'.version = wf.version
         /\ wf'.journey = wf.journey /\ wf'.history = wf.history
         /\ wf'.pos.state = wf.pos.state
  BY DEF TypeOK, LeaveSubstate, Rows, Positions

\* A state is left.
LEMMA StateEffect ==
  ASSUME TypeOK, NEW t, LeaveState(t)
  PROVE  /\ wf'.gen = IF t.kind # "FORK" /\ IsJoin(t) THEN 0 ELSE wf.gen
         /\ wf'.version = wf.version /\ wf'.journey = wf.journey
         /\ wf'.history = Remember(wf.pos, wf.history)
         /\ wf'.pos.state = t.target
<1>1. wf \in Rows
  BY DEF TypeOK, LeaveState
<1> DEFINE h == Remember(wf.pos, wf.history)
           g == IF t.kind # "FORK" /\ IsJoin(t) THEN 0 ELSE wf.gen
<1>2. PICK ctx \in After({wf.pos.state, wf.pos.sub} \cap Scripted # {},
                         wf.ctx),
           p \in resolveTarget(t, h) :
        wf' = [wf EXCEPT !.ctx = ctx, !.pos = p, !.history = h, !.gen = g]
  BY StateLeft
<1>3. p.state = t.target
  BY <1>2 DEF resolveTarget, Enter
<1> HIDE DEF h, g
<1>4. /\ wf'.gen = g /\ wf'.version = wf.version /\ wf'.journey = wf.journey
      /\ wf'.history = h /\ wf'.pos = p
  BY <1>1, <1>2 DEF Rows
<1> QED  BY <1>3, <1>4 DEF h, g

\* A position is entered.
LEMMA EnterEffect ==
  ASSUME TypeOK, NEW t, EnterState(t)
  PROVE  /\ wf'.pos = wf.pos /\ wf'.gen = wf.gen /\ wf'.version = wf.version
         /\ wf'.history = wf.history
         /\ wf'.journey = Append(wf.journey, Entry(from, wf.pos))
  BY DEF TypeOK, EnterState, Rows

\* A fork has all its children.
LEMMA ForkEffect ==
  ASSUME TypeOK, ForkCompletes
  PROVE  /\ wf'.pos = wf.pos /\ wf'.gen = forking.gen
         /\ wf'.version = wf.version /\ wf'.journey = wf.journey
         /\ wf'.history = wf.history
  BY DEF TypeOK, ForkCompletes, Rows

\* An event is committed.
LEMMA CommitEffect ==
  ASSUME TypeOK, CommitRow
  PROVE  /\ row' = wf' /\ row' # None
         /\ row'.pos = wf.pos /\ row'.ctx = wf.ctx /\ row'.gen = wf.gen
         /\ row'.version = wf.version + 1 /\ row'.journey = wf.journey
         /\ row'.complete = isEndState(wf.pos) /\ row'.history = wf.history
<1>1. wf \in Rows
  BY DEF TypeOK, CommitRow
<1>2. row' # None
  BY <1>1, RowUpdates, NoneAssumption DEF CommitRow
<1> QED  BY <1>1, <1>2 DEF CommitRow, Rows

\* An instance is inserted.
LEMMA InsertEffect ==
  ASSUME TypeOK, InsertRow
  PROVE  /\ row' # None
         /\ row'.pos = wf.pos /\ row'.ctx = wf.ctx /\ row'.gen = wf.gen
         /\ row'.version = wf.version /\ row'.journey = wf.journey
         /\ row'.complete = isEndState(wf.pos) /\ row'.history = wf.history
<1>1. wf \in Rows
  BY DEF TypeOK, InsertRow
<1>2. row' # None
  BY <1>1, RowUpdates, NoneAssumption DEF InsertRow
<1> QED  BY <1>1, <1>2 DEF InsertRow, Rows

-----------------------------------------------------------------------------
(* A root instance never rests where an automatic transition is enabled.   *)

\* What is about to be saved has been through the chain.
Resting == pc = "save" => findAutomaticTransition(wf.pos, wf.ctx) = {}

\* Every step keeps the row settled and what is to be saved resting.
LEMMA SettledStep ==
  ASSUME TypeOK, Settled, Resting, [Next]_vars
  PROVE  Settled' /\ Resting'
<1>1. CASE Beside
  BY <1>1 DEF Beside, Settled, Resting, eventVars
<1>2. CASE Drop
  BY <1>2 DEF Drop, Settled, Resting
<1>3. CASE Take
  BY <1>3 DEF Take, Match, Settled, Resting
<1>4. CASE Forward
  <2>1. CASE InsertRow
    BY <2>1, InsertEffect DEF InsertRow, Settled, Resting
  <2>2. CASE CommitRow
    BY <2>2, CommitEffect DEF CommitRow, Settled, Resting
  <2>3. CASE ChainEnds
    BY <2>3 DEF ChainEnds, Settled, Resting, eventVars
  <2>4. ASSUME NEW t \in tran,
               Transit(t) \/ \E n \in DOMAIN t.forks : SpawnFails(n)
        PROVE  row' = row /\ pc' # "save"
    BY <2>4 DEF Transit, ApplyInternal, LeaveSubstate, LeaveState,
                EnterState, SpawnChild, SpawnFails
  <2>5. CASE Gate \/ ForkCompletes \/ ChainHop \/ Publish
    BY <2>5 DEF Gate, ForkCompletes, ChainHop, Publish, Settled, Resting
  <2> QED  BY <1>4, <2>1, <2>2, <2>3, <2>4, <2>5
           DEF Forward, Settled, Resting
<1> QED  BY <1>1, <1>2, <1>3, <1>4, StepKinds

\* A persisted instance that was not created as a child never rests where an
\* AUTOMATIC transition is enabled, and its complete flag is right, whatever
\* the definition: NewWorkflowInstance and processEvent run the chain first.
THEOREM SettledCorrect ==
  ASSUME ~IsChild
  PROVE  SafeSpec => []Settled
<1>1. Init => Settled /\ Resting
  BY DEF Init, Settled, Resting
<1>2. IInv /\ Settled /\ Resting /\ [Next]_vars => Settled' /\ Resting'
  BY SettledStep DEF IInv
<1> QED  BY <1>1, <1>2, Inductive, PTL DEF SafeSpec

-----------------------------------------------------------------------------
(* The journey is a path.                                                  *)

Journeys == Seq([from : Positions \cup {None}, to : Positions])

\* A path that ends in a position.
Path(journey, pos) ==
  /\ Len(journey) > 0
  /\ journey[Len(journey)].to = pos
  /\ \A n \in 2 .. Len(journey) : journey[n].from = journey[n - 1].to

\* The row's journey leads to its position, and so does the copy's, but for
\* the time between leaving one position and entering the next.
Travelled ==
  /\ row # None => Path(row.journey, row.pos)
  /\ pc \in {"gate", "apply", "chain", "save"} => Path(wf.journey, wf.pos)
  /\ pc \in {"fork", "enter"} => Path(wf.journey, from)

\* A step from where a path ends makes a longer path.
LEMMA PathExtends ==
  ASSUME NEW journey \in Journeys, NEW p \in Positions, NEW q \in Positions,
         Path(journey, p)
  PROVE  Path(Append(journey, Entry(p, q)), q)
<1>1. Entry(p, q) \in [from : Positions \cup {None}, to : Positions]
  BY DEF Entry
<1> DEFINE longer == Append(journey, Entry(p, q))
<1>2. /\ Len(longer) = Len(journey) + 1
      /\ longer[Len(journey) + 1] = Entry(p, q)
      /\ \A n \in 1 .. Len(journey) : longer[n] = journey[n]
  BY <1>1, AppendProperties DEF Journeys
<1>3. Len(journey) \in Nat
  BY DEF Journeys
<1> QED  BY <1>2, <1>3 DEF Path, Entry

\* Every step keeps the journeys paths.
LEMMA TravelledStep ==
  ASSUME TypeOK, Travelled, [Next]_vars
  PROVE  Travelled'
<1>1. CASE Beside
  BY <1>1 DEF Beside, Travelled, eventVars
<1>2. CASE Drop
  BY <1>2 DEF Drop, Travelled
<1>3. CASE Take
  BY <1>3 DEF Take, Match, Travelled
<1>4. ASSUME NEW t \in tran, ApplyInternal(t) PROVE Travelled'
  <2>1. wf.pos \in Positions /\ wf.journey \in Journeys
    BY <1>4, RowUpdates DEF ApplyInternal, TypeOK, Journeys
  <2>2. Path(wf.journey, wf.pos)
    BY <1>4 DEF ApplyInternal, Travelled
  <2>3. Path(Append(wf.journey, Entry(wf.pos, wf.pos)), wf.pos)
    BY <2>1, <2>2, PathExtends
  <2>4. Path(wf'.journey, wf'.pos)
    BY <1>4, <2>3, InternalEffect
  <2> QED  BY <1>4, <2>4 DEF ApplyInternal, Travelled
<1>5. ASSUME NEW t \in tran, LeaveSubstate(t) PROVE Travelled'
  BY <1>5, SubstateEffect DEF LeaveSubstate, Travelled
<1>6. ASSUME NEW t \in tran, LeaveState(t) PROVE Travelled'
  <2>1. wf'.journey = wf.journey /\ from' = wf.pos
        /\ pc' \in {"fork", "enter"} /\ row' = row /\ pc = "apply"
    BY <1>6, StateEffect DEF LeaveState
  <2> QED  BY <2>1 DEF Travelled
<1>7. ASSUME NEW t \in tran, EnterState(t) PROVE Travelled'
  <2>1. /\ wf.pos \in Positions /\ wf.journey \in Journeys
        /\ from \in Positions
    BY <1>7, RowUpdates DEF EnterState, TypeOK, Journeys
  <2>2. Path(wf.journey, from)
    BY <1>7 DEF EnterState, Travelled
  <2>3. Path(Append(wf.journey, Entry(from, wf.pos)), wf.pos)
    BY <2>1, <2>2, PathExtends
  <2>4. Path(wf'.journey, wf'.pos)
    BY <1>7, <2>3, EnterEffect
  <2> QED  BY <1>7, <2>4 DEF EnterState, Travelled
<1>8. ASSUME NEW t \in tran, NEW n \in DOMAIN t.forks,
             SpawnChild(t, n) \/ SpawnFails(n)
      PROVE  Travelled'
  BY <1>8 DEF SpawnChild, SpawnFails, Travelled
<1>9. CASE ForkCompletes
  BY <1>9, ForkEffect DEF ForkCompletes, Travelled
<1>10. CASE Gate \/ ChainHop \/ ChainEnds
  BY <1>10 DEF Gate, ChainHop, ChainEnds, Travelled, eventVars
<1>11. CASE InsertRow
  BY <1>11, InsertEffect DEF InsertRow, Travelled
<1>12. CASE CommitRow
  BY <1>12, CommitEffect DEF CommitRow, Travelled
<1>13. CASE Publish
  BY <1>13 DEF Publish, Travelled
<1> QED  BY <1>1, <1>2, <1>3, <1>4, <1>5, <1>6, <1>7, <1>8, <1>9, <1>10,
            <1>11, <1>12, <1>13, StepKinds DEF Forward, Transit

\* The specification keeps the journeys paths.
LEMMA AlwaysTravelled == SafeSpec => []Travelled
<1>1. Init => Travelled
  BY DEF Init, Travelled, Path, Entry
<1>2. IInv /\ Travelled /\ [Next]_vars => Travelled'
  BY TravelledStep DEF IInv
<1> QED  BY <1>1, <1>2, Inductive, PTL DEF SafeSpec

\* The persisted journey is a path that ends in the current position: no
\* transition of a chain is left out of it or recorded against the wrong
\* position, in any definition.
THEOREM JourneyIsPath == SafeSpec => []JourneyConnected
<1>1. Travelled => JourneyConnected
  BY DEF Travelled, Path, JourneyConnected
<1> QED  BY <1>1, AlwaysTravelled, PTL

-----------------------------------------------------------------------------
(* What is published is what was committed.                                *)

\* The copy has the row's version until it is committed, and is the row from
\* then on; the last event published is of the row or of an earlier one.
InStep ==
  /\ pc = "publish" => row # None /\ wf = row
  /\ pc \notin {"idle", "failed"} /\ row # None =>
       wf.version = row.version
  /\ published # None =>
       /\ row # None
       /\ published.version \in Nat
       /\ published.version <= row.version
       /\ published.version = row.version => published.pos = row.pos

\* Every step keeps them in step.
LEMMA InStepStep ==
  ASSUME TypeOK, InStep, [Next]_vars
  PROVE  InStep'
<1> USE DEF InStep
<1>1. CASE Beside
  BY <1>1 DEF Beside, eventVars
<1>2. CASE Drop
  BY <1>2 DEF Drop
<1>3. CASE Take
  BY <1>3 DEF Take, Match
<1>4. ASSUME NEW t \in tran, ApplyInternal(t) PROVE InStep'
  BY <1>4, InternalEffect DEF ApplyInternal
<1>5. ASSUME NEW t \in tran, LeaveSubstate(t) PROVE InStep'
  BY <1>5, SubstateEffect DEF LeaveSubstate
<1>6. ASSUME NEW t \in tran, LeaveState(t) PROVE InStep'
  <2>1. /\ wf'.version = wf.version /\ row' = row /\ published' = published
        /\ pc = "apply" /\ pc' \in {"fork", "enter"}
    BY <1>6, StateEffect DEF LeaveState
  <2> QED  BY <2>1
<1>7. ASSUME NEW t \in tran, EnterState(t) PROVE InStep'
  BY <1>7, EnterEffect DEF EnterState
<1>8. ASSUME NEW t \in tran, NEW n \in DOMAIN t.forks,
             SpawnChild(t, n) \/ SpawnFails(n)
      PROVE  InStep'
  BY <1>8 DEF SpawnChild, SpawnFails
<1>9. CASE ForkCompletes
  BY <1>9, ForkEffect DEF ForkCompletes
<1>10. CASE Gate \/ ChainHop \/ ChainEnds
  BY <1>10 DEF Gate, ChainHop, ChainEnds, eventVars
<1>11. CASE InsertRow
  BY <1>11, InsertEffect DEF InsertRow
<1>12. CASE CommitRow
  <2>1. row.version \in Nat
    BY <1>12, RowUpdates DEF CommitRow, TypeOK
  <2> QED  BY <1>12, <2>1, CommitEffect DEF CommitRow
<1>13. CASE Publish
  <2>1. wf.version \in Nat
    BY <1>13, RowUpdates DEF Publish, TypeOK
  <2> QED  BY <1>13, <2>1, NoneAssumption DEF Publish
<1> QED  BY <1>1, <1>2, <1>3, <1>4, <1>5, <1>6, <1>7, <1>8, <1>9, <1>10,
            <1>11, <1>12, <1>13, StepKinds DEF Forward, Transit

\* The specification keeps them in step.
LEMMA AlwaysInStep == SafeSpec => []InStep
<1>1. Init => InStep
  BY DEF Init, InStep
<1>2. IInv /\ InStep /\ [Next]_vars => InStep'
  BY InStepStep DEF IInv
<1> QED  BY <1>1, <1>2, Inductive, PTL DEF SafeSpec

\* Subscribers are told of commits only and of the position committed, with
\* errors, refused commits and crashes at every point of processEvent.
THEOREM OnlyCommitsPublished == SafeSpec => []NoPhantomEvent
<1>1. InStep => NoPhantomEvent
  BY DEF InStep, NoPhantomEvent
<1> QED  BY <1>1, AlwaysInStep, PTL

-----------------------------------------------------------------------------
(* The journey only grows.                                                 *)

\* One journey begins with the other.
Begins(longer, journey) ==
  /\ Len(journey) <= Len(longer)
  /\ \A n \in 1 .. Len(journey) : longer[n] = journey[n]

\* The copy's journey begins with the row's, and has more before it is saved.
Grown ==
  row # None /\ pc \notin {"idle", "failed", "publish"} =>
    /\ Begins(wf.journey, row.journey)
    /\ pc \in {"chain", "save"} => Len(row.journey) < Len(wf.journey)

\* An entry makes a journey longer and keeps its beginning.
LEMMA BeginsExtends ==
  ASSUME NEW journey \in Journeys, NEW longer \in Journeys,
         NEW p \in Positions, NEW q \in Positions, Begins(longer, journey)
  PROVE  /\ Begins(Append(longer, Entry(p, q)), journey)
         /\ Len(journey) < Len(Append(longer, Entry(p, q)))
<1>1. Entry(p, q) \in [from : Positions \cup {None}, to : Positions]
  BY DEF Entry
<1>2. /\ Len(Append(longer, Entry(p, q))) = Len(longer) + 1
      /\ \A n \in 1 .. Len(longer) :
           Append(longer, Entry(p, q))[n] = longer[n]
  BY <1>1, AppendProperties DEF Journeys
<1>3. Len(journey) \in Nat /\ Len(longer) \in Nat
  BY DEF Journeys
<1> QED  BY <1>2, <1>3 DEF Begins

\* A journey that begins another one is a subsequence of it.
LEMMA BeginsIsPrefix ==
  ASSUME NEW journey \in Journeys, NEW longer \in Journeys,
         Begins(longer, journey)
  PROVE  SubSeq(longer, 1, Len(journey)) = journey
<1> DEFINE S == [from : Positions \cup {None}, to : Positions]
           n == Len(journey)
           prefix == SubSeq(longer, 1, n)
<1>1. n \in Nat /\ Len(longer) \in Nat /\ n <= Len(longer)
  BY DEF Journeys, Begins
<1>2. longer \in Seq(S) /\ journey \in Seq(S)
  BY DEF Journeys
<1>3. \A i \in 1 .. n : longer[i] \in S
  <2> HIDE DEF S, n
  <2>1. \A i \in 1 .. Len(longer) : longer[i] \in S
    BY <1>2, ElementOfSeq
  <2> QED  BY <1>1, <2>1
<1>4. /\ prefix \in Seq(S)
      /\ Len(prefix) = IF 1 <= n THEN n - 1 + 1 ELSE 0
      /\ \A i \in 1 .. n - 1 + 1 : prefix[i] = longer[1 + i - 1]
  <2> HIDE DEF S, n
  <2> QED  BY <1>1, <1>3, SubSeqProperties
<1>5. Len(prefix) = Len(journey)
  BY <1>1, <1>4
<1>6. \A i \in 1 .. Len(prefix) : prefix[i] = journey[i]
  BY <1>1, <1>4, <1>5 DEF Begins
<1> HIDE DEF S, n, prefix
<1>7. prefix = journey
  BY <1>2, <1>4, <1>5, <1>6, SeqEqual
<1> QED  BY <1>7 DEF prefix, n

\* Every step keeps the copy's journey ahead.
LEMMA GrownStep ==
  ASSUME TypeOK, InStep, Grown, [Next]_vars
  PROVE  Grown'
<1>1. CASE Beside
  BY <1>1 DEF Beside, Grown, eventVars
<1>2. CASE Drop
  BY <1>2 DEF Drop, Grown
<1>3. CASE Take
  <2>1. row.journey \in Journeys
    BY <1>3, RowUpdates DEF Take, Match, TypeOK, Journeys
  <2>2. Begins(row.journey, row.journey)
    BY <2>1 DEF Begins, Journeys
  <2> QED  BY <1>3, <2>2 DEF Take, Match, Grown
<1>4. ASSUME NEW t \in tran, ApplyInternal(t) PROVE Grown'
  <2>1. wf.pos \in Positions /\ wf.journey \in Journeys
    BY <1>4, RowUpdates DEF ApplyInternal, TypeOK, Journeys
  <2>2. CASE row # None
    <3>1. row.journey \in Journeys
      BY <2>2, RowUpdates DEF TypeOK, Journeys
    <3>2. Begins(wf.journey, row.journey)
      BY <1>4, <2>2 DEF ApplyInternal, Grown
    <3>3. /\ Begins(wf'.journey, row.journey)
          /\ Len(row.journey) < Len(wf'.journey)
      BY <1>4, <2>1, <3>1, <3>2, BeginsExtends, InternalEffect
    <3> QED  BY <1>4, <3>3 DEF ApplyInternal, Grown
  <2> QED  BY <1>4, <2>2 DEF ApplyInternal, Grown
<1>5. ASSUME NEW t \in tran, LeaveSubstate(t) PROVE Grown'
  BY <1>5, SubstateEffect DEF LeaveSubstate, Grown
<1>6. ASSUME NEW t \in tran, LeaveState(t) PROVE Grown'
  <2>1. /\ wf'.journey = wf.journey /\ row' = row
        /\ pc = "apply" /\ pc' \in {"fork", "enter"}
    BY <1>6, StateEffect DEF LeaveState
  <2> QED  BY <2>1 DEF Grown
<1>7. ASSUME NEW t \in tran, EnterState(t) PROVE Grown'
  <2>1. /\ wf.pos \in Positions /\ wf.journey \in Journeys
        /\ from \in Positions
    BY <1>7, RowUpdates DEF EnterState, TypeOK, Journeys
  <2>2. CASE row # None
    <3>1. row.journey \in Journeys
      BY <2>2, RowUpdates DEF TypeOK, Journeys
    <3>2. Begins(wf.journey, row.journey)
      BY <1>7, <2>2 DEF EnterState, Grown
    <3>3. /\ Begins(wf'.journey, row.journey)
          /\ Len(row.journey) < Len(wf'.journey)
      BY <1>7, <2>1, <3>1, <3>2, BeginsExtends, EnterEffect
    <3> QED  BY <1>7, <3>3 DEF EnterState, Grown
  <2> QED  BY <1>7, <2>2 DEF EnterState, Grown
<1>8. ASSUME NEW t \in tran, NEW n \in DOMAIN t.forks,
             SpawnChild(t, n) \/ SpawnFails(n)
      PROVE  Grown'
  BY <1>8 DEF SpawnChild, SpawnFails, Grown
<1>9. CASE ForkCompletes
  BY <1>9, ForkEffect DEF ForkCompletes, Grown
<1>10. CASE Gate \/ ChainHop \/ ChainEnds
  BY <1>10 DEF Gate, ChainHop, ChainEnds, Grown, eventVars
<1>11. CASE InsertRow \/ CommitRow \/ Publish
  BY <1>11 DEF InsertRow, CommitRow, Publish, Grown
<1> QED  BY <1>1, <1>2, <1>3, <1>4, <1>5, <1>6, <1>7, <1>8, <1>9, <1>10,
            <1>11, StepKinds DEF Forward, Transit

\* The row only changes when it is inserted or committed.
LEMMA RowWritten ==
  ASSUME TypeOK, [Next]_vars, row' # row
  PROVE  CommitRow \/ InsertRow
<1>1. ASSUME NEW t \in tran,
             Transit(t) \/ \E n \in DOMAIN t.forks : SpawnFails(n)
      PROVE  row' = row
  BY <1>1 DEF Transit, ApplyInternal, LeaveSubstate, LeaveState, EnterState,
              SpawnChild, SpawnFails
<1> QED  BY <1>1, StepKinds
         DEF Beside, Drop, Take, Match, Forward, Gate, ForkCompletes,
             ChainHop, ChainEnds, Publish, eventVars

\* ... and it is inserted once.
LEMMA RowChanges ==
  ASSUME TypeOK, [Next]_vars, row # None, row' # row
  PROVE  CommitRow
  BY RowWritten DEF InsertRow

\* Every commit raises the version by one and extends the journey: no event
\* that was processed is lost or overwritten by a later one.
THEOREM NoEventLost == SafeSpec => JourneyOnlyGrows
<1> DEFINE Longer ==
             row # None =>
               /\ row'.version = row.version + 1
               /\ Len(row'.journey) > Len(row.journey)
               /\ SubSeq(row'.journey, 1, Len(row.journey)) = row.journey
<1>1. Init => Grown
  BY DEF Init, Grown
<1>2. IInv /\ InStep /\ Grown /\ [Next]_vars => Grown'
  BY GrownStep DEF IInv
<1>3. SafeSpec => []Grown
  BY <1>1, <1>2, Inductive, AlwaysInStep, PTL DEF SafeSpec
<1>4. IInv /\ InStep /\ Grown /\ [Next]_vars => [Longer]_row
  <2> SUFFICES ASSUME TypeOK, InStep, Grown, [Next]_vars,
                      row # None, row' # row
               PROVE  Longer
    BY DEF IInv
  <2>1. CommitRow
    BY RowChanges
  <2>2. row.journey \in Journeys /\ wf.journey \in Journeys
    BY <2>1, RowUpdates DEF CommitRow, TypeOK, Journeys
  <2>3. /\ Begins(wf.journey, row.journey)
        /\ Len(row.journey) < Len(wf.journey)
        /\ wf.version = row.version
    BY <2>1 DEF CommitRow, Grown, InStep
  <2>4. SubSeq(wf.journey, 1, Len(row.journey)) = row.journey
    BY <2>2, <2>3, BeginsIsPrefix
  <2>5. row'.version = wf.version + 1 /\ row'.journey = wf.journey
    BY <2>1, CommitEffect
  <2>6. Len(row.journey) \in Nat /\ Len(wf.journey) \in Nat
    BY <2>2 DEF Journeys
  <2> QED  BY <2>3, <2>4, <2>5, <2>6
<1> QED  BY <1>3, <1>4, Inductive, AlwaysInStep, PTL
         DEF SafeSpec, JourneyOnlyGrows

-----------------------------------------------------------------------------
(* Children and the generations that count them.                           *)

\* No generation on record is newer than the last one drawn, and a fork's is
\* newer than any that the row or its copy waits for.
Counted ==
  /\ row # None => row.gen <= gens
  /\ pc \notin {"idle", "failed"} => wf.gen <= gens
  /\ pc = "fork" => /\ wf.gen < forking.gen
                    /\ row # None => row.gen < forking.gen
  /\ \A k \in DOMAIN kids : kids[k].gen <= gens

\* Generations are numbers.
LEMMA Generations ==
  ASSUME TypeOK
  PROVE  /\ gens \in Nat /\ forking.gen \in Nat /\ forking.gen <= gens
         /\ row # None => row.gen \in Nat
         /\ pc \notin {"idle", "failed"} => wf.gen \in Nat
         /\ \A k \in DOMAIN kids : kids[k].gen \in Nat
<1>1. gens \in Nat /\ forking.gen \in 0 .. gens
  BY DEF TypeOK
<1>2. /\ row # None => row.gen \in Nat
      /\ pc \notin {"idle", "failed"} => wf.gen \in Nat
  BY DEF TypeOK, Rows
<1>3. \A k \in DOMAIN kids : kids[k] \in Kids
  BY DEF TypeOK
<1>4. \A k \in DOMAIN kids : kids[k].gen \in Nat
  BY <1>3 DEF Kids
<1> QED  BY <1>1, <1>2, <1>4

\* A step keeps the children there are, with their generations, and a new one
\* belongs to no fork or to the one in progress.
LEMMA KidsStay ==
  ASSUME TypeOK, [Next]_vars
  PROVE  /\ \A k \in DOMAIN kids :
              k \in DOMAIN kids' /\ kids'[k].gen = kids[k].gen
         /\ \A k \in DOMAIN kids' \ DOMAIN kids :
              \/ kids'[k].gen = 0
              \/ /\ pc = "fork" /\ kids'[k].gen = forking.gen
                 /\ forking' # forking
<1>1. kids \in Seq(Kids)
  BY DEF TypeOK
<1>2. CASE UNCHANGED kids
  BY <1>2
<1>3. ASSUME NEW gen, NEW def, kids' = NewKid(gen, def)
      PROVE  /\ \A k \in DOMAIN kids :
                  k \in DOMAIN kids' /\ kids'[k] = kids[k]
             /\ \A k \in DOMAIN kids' \ DOMAIN kids : kids'[k].gen = gen
  <2> DEFINE kid == [gen |-> gen, complete |-> def \in BornComplete,
                     withdrawn |-> FALSE, overtaken |-> FALSE]
  <2>1. kid.gen = gen
    OBVIOUS
  <2>2. kids' = Append(kids, kid)
    BY <1>3 DEF NewKid
  <2>3. kids \in Seq(Kids \cup {kid}) /\ kid \in Kids \cup {kid}
    BY <1>1, SeqMonotonic
  <2> HIDE DEF kid
  <2>4. /\ Len(kids') = Len(kids) + 1
        /\ kids' \in Seq(Kids \cup {kid})
        /\ \A k \in 1 .. Len(kids) : kids'[k] = kids[k]
        /\ kids'[Len(kids) + 1] = kid
    BY <2>2, <2>3, AppendProperties
  <2>5. DOMAIN kids = 1 .. Len(kids) /\ DOMAIN kids' = 1 .. Len(kids')
        /\ Len(kids) \in Nat
    BY <2>3, <2>4, LenProperties
  <2> QED  BY <2>1, <2>4, <2>5
<1>4. ASSUME NEW k \in DOMAIN kids, NEW flag \in BOOLEAN,
             KidCommits(k, flag) \/ WithdrawKid(k, flag)
      PROVE  /\ DOMAIN kids' = DOMAIN kids
             /\ \A j \in DOMAIN kids : kids'[j].gen = kids[j].gen
  BY <1>1, <1>4, KidsChange, KidChanges
<1>5. CASE ChildStep
  BY <1>3, <1>4, <1>5 DEF ChildStep, AdHocChild
<1>6. ASSUME NEW t \in tran, NEW n \in DOMAIN t.forks, SpawnChild(t, n)
      PROVE  /\ pc = "fork" /\ kids' = NewKid(forking.gen, t.forks[n])
             /\ forking' # forking
  <2>1. n \in forking.todo /\ n \notin forking'.todo
    BY <1>6 DEF SpawnChild, TypeOK
  <2> QED  BY <1>6, <2>1 DEF SpawnChild
<1>7. ASSUME NEW t \in tran,
             Transit(t) \/ \E n \in DOMAIN t.forks : SpawnFails(n)
      PROVE  \/ UNCHANGED kids
             \/ \E n \in DOMAIN t.forks : SpawnChild(t, n)
  BY <1>7 DEF Transit, ApplyInternal, LeaveSubstate, LeaveState, EnterState,
              SpawnFails
<1>8. UNCHANGED kids \/ ChildStep \/ Crash
        \/ \E t \in tran : \E n \in DOMAIN t.forks : SpawnChild(t, n)
  BY <1>7, StepKinds
     DEF Beside, Drop, Take, Match, Forward, Gate, ForkCompletes, ChainHop,
         ChainEnds, InsertRow, CommitRow, Publish, eventVars
<1>9. ASSUME NEW t \in tran, NEW n \in DOMAIN t.forks, SpawnChild(t, n)
      PROVE  /\ \A k \in DOMAIN kids :
                  k \in DOMAIN kids' /\ kids'[k] = kids[k]
             /\ \A k \in DOMAIN kids' \ DOMAIN kids :
                  kids'[k].gen = forking.gen
             /\ pc = "fork" /\ forking' # forking
  BY <1>3, <1>6, <1>9
<1>10. CASE Crash
  BY <1>1, <1>10, CrashedKids
<1> QED  BY <1>2, <1>5, <1>8, <1>9, <1>10

\* Every step keeps the generations ordered.
LEMMA CountedStep ==
  ASSUME TypeOK, Counted, [Next]_vars
  PROVE  Counted'
<1> DEFINE Kidz == \A k \in DOMAIN kids' : kids'[k].gen <= gens'
<1>1. gens \in Nat /\ forking.gen \in Nat /\ forking.gen <= gens
  BY Generations
<1>2. gens' = gens \/ gens' = gens + 1
  <2>1. ASSUME NEW t \in tran,
               Transit(t) \/ \E n \in DOMAIN t.forks : SpawnFails(n)
        PROVE  gens' = gens \/ gens' = gens + 1
    BY <2>1 DEF Transit, ApplyInternal, LeaveSubstate, LeaveState,
                EnterState, SpawnChild, SpawnFails
  <2> QED  BY <2>1, StepKinds
           DEF Beside, Drop, Take, Match, Forward, Gate, ForkCompletes,
               ChainHop, ChainEnds, InsertRow, CommitRow, Publish, eventVars
<1>3. \A k \in DOMAIN kids : kids[k].gen \in Nat /\ kids[k].gen <= gens
  BY Generations DEF Counted
<1>4. Kidz
  BY <1>1, <1>2, <1>3, KidsStay
<1> HIDE DEF Kidz
<1>5. CASE Beside
  BY <1>4, <1>5 DEF Beside, Counted, Kidz, eventVars
<1>6. CASE Drop
  BY <1>4, <1>6 DEF Drop, Counted, Kidz
<1>7. CASE Take
  BY <1>4, <1>7 DEF Take, Match, Counted, Kidz
<1>8. ASSUME NEW t \in tran, ApplyInternal(t) PROVE Counted'
  BY <1>4, <1>8, InternalEffect DEF ApplyInternal, Counted, Kidz
<1>9. ASSUME NEW t \in tran, LeaveSubstate(t) PROVE Counted'
  BY <1>4, <1>9, SubstateEffect DEF LeaveSubstate, Counted, Kidz
<1>10. ASSUME NEW t \in tran, LeaveState(t) PROVE Counted'
  <2>1. /\ row' = row /\ pc = "apply" /\ pc' \in {"fork", "enter"}
        /\ pc' = "fork" => gens' = gens + 1 /\ forking'.gen = gens'
    BY <1>10 DEF LeaveState
  <2>2. wf.gen \in Nat /\ (row # None => row.gen \in Nat)
    BY <2>1, Generations
  <2>3. wf'.gen = wf.gen \/ wf'.gen = 0
    BY <1>10, StateEffect
  <2> QED  BY <1>1, <1>2, <1>4, <2>1, <2>2, <2>3 DEF Counted, Kidz
<1>11. ASSUME NEW t \in tran, EnterState(t) PROVE Counted'
  BY <1>4, <1>11, EnterEffect DEF EnterState, Counted, Kidz
<1>12. ASSUME NEW t \in tran, NEW n \in DOMAIN t.forks,
              SpawnChild(t, n) \/ SpawnFails(n)
       PROVE  Counted'
  <2>1. /\ row' = row /\ wf' = wf /\ gens' = gens /\ pc' = pc
        /\ forking'.gen = forking.gen
    BY <1>12 DEF SpawnChild, SpawnFails, TypeOK
  <2> QED  BY <1>4, <2>1 DEF Counted, Kidz
<1>13. CASE ForkCompletes
  BY <1>1, <1>4, <1>13, ForkEffect DEF ForkCompletes, Counted, Kidz
<1>14. CASE Gate \/ ChainHop \/ ChainEnds
  BY <1>4, <1>14 DEF Gate, ChainHop, ChainEnds, Counted, Kidz, eventVars
<1>15. CASE InsertRow
  BY <1>4, <1>15, InsertEffect DEF InsertRow, Counted, Kidz
<1>16. CASE CommitRow
  BY <1>4, <1>16, CommitEffect DEF CommitRow, Counted, Kidz
<1>17. CASE Publish
  BY <1>4, <1>17 DEF Publish, Counted, Kidz
<1> QED  BY <1>5, <1>6, <1>7, <1>8, <1>9, <1>10, <1>11, <1>12, <1>13, <1>14,
            <1>15, <1>16, <1>17, StepKinds DEF Forward, Transit

\* The specification keeps the generations ordered.
LEMMA AlwaysCounted == SafeSpec => []Counted
<1>1. Init => Counted
  BY DEF Init, Counted
<1>2. IInv /\ Counted /\ [Next]_vars => Counted'
  BY CountedStep DEF IInv
<1> QED  BY <1>1, <1>2, Inductive, PTL DEF SafeSpec

-----------------------------------------------------------------------------
(* Chains of completion transitions are bounded.                           *)

Busy == pc \notin {"idle", "failed"}

JourneyBefore == IF row = None THEN 0 ELSE Len(row.journey)

\* The journey is at most as long as the hops counted allow.
Bounded ==
  /\ pc \in {"gate", "apply", "fork", "enter"} =>
       Len(wf.journey) <= JourneyBefore + hops
  /\ pc = "chain" => Len(wf.journey) <= JourneyBefore + hops + 1
  /\ pc = "save" => Len(wf.journey) <= JourneyBefore + MaxHops

\* An entry is one entry more.
LEMMA LongerByOne ==
  ASSUME NEW journey \in Journeys, NEW p \in Positions \cup {None},
         NEW q \in Positions
  PROVE  Len(Append(journey, Entry(p, q))) = Len(journey) + 1
<1>1. Entry(p, q) \in [from : Positions \cup {None}, to : Positions]
  BY DEF Entry
<1> QED  BY <1>1, AppendProperties DEF Journeys

LEMMA BoundedStep ==
  ASSUME TypeOK, Bounded, [Next]_vars
  PROVE  Bounded'
<1>1. MaxHops \in Nat /\ MaxHops # 0 /\ hops \in Nat
  BY InstanceAssumption DEF TypeOK
<1>2. Busy => wf.pos \in Positions /\ wf.journey \in Journeys
  BY RowUpdates DEF Busy, TypeOK, Journeys
<1>3. Busy => Len(wf.journey) \in Nat
  BY <1>2, LenProperties DEF Journeys
<1>4. row # None => row.journey \in Journeys /\ Len(row.journey) \in Nat
  BY RowUpdates, LenProperties DEF TypeOK, Journeys
<1>5. JourneyBefore \in Nat
  BY <1>4 DEF JourneyBefore
<1>6. row' = row => JourneyBefore' = JourneyBefore
  BY DEF JourneyBefore
<1>7. CASE Beside
  BY <1>6, <1>7 DEF Beside, Bounded, eventVars
<1>8. CASE Drop
  BY <1>8 DEF Drop, Bounded
<1>9. CASE Take
  <2>1. /\ row # None /\ row' = row /\ wf' = row /\ hops' = hops
        /\ pc' \in {"gate", "apply"}
    BY <1>9 DEF Take, Match
  <2> QED  BY <1>1, <1>4, <1>6, <2>1 DEF Bounded, JourneyBefore
<1>10. ASSUME NEW t \in tran, ApplyInternal(t) PROVE Bounded'
  <2>1. pc = "apply" /\ pc' = "chain" /\ row' = row /\ hops' = hops
    BY <1>10 DEF ApplyInternal
  <2>2. wf'.journey = Append(wf.journey, Entry(wf.pos, wf.pos))
    BY <1>10, InternalEffect
  <2>3. Len(wf'.journey) = Len(wf.journey) + 1
    BY <1>2, <2>1, <2>2, LongerByOne DEF Busy
  <2> QED  BY <1>1, <1>3, <1>5, <1>6, <2>1, <2>3 DEF Bounded, Busy
<1>11. ASSUME NEW t \in tran, LeaveSubstate(t) PROVE Bounded'
  BY <1>6, <1>11, SubstateEffect DEF LeaveSubstate, Bounded
<1>12. ASSUME NEW t \in tran, LeaveState(t) PROVE Bounded'
  <2>1. /\ pc = "apply" /\ pc' \in {"fork", "enter"} /\ row' = row
        /\ hops' = hops
    BY <1>12 DEF LeaveState
  <2>2. wf'.journey = wf.journey
    BY <1>12, StateEffect
  <2> QED  BY <1>6, <2>1, <2>2 DEF Bounded
<1>13. ASSUME NEW t \in tran, EnterState(t) PROVE Bounded'
  <2>1. /\ pc = "enter" /\ pc' = "chain" /\ row' = row /\ hops' = hops
        /\ from \in Positions
    BY <1>13 DEF EnterState, TypeOK
  <2>2. Len(wf'.journey) = Len(wf.journey) + 1
    BY <1>2, <1>13, <2>1, EnterEffect, LongerByOne DEF Busy
  <2> QED  BY <1>1, <1>3, <1>5, <1>6, <2>1, <2>2 DEF Bounded, Busy
<1>14. ASSUME NEW t \in tran, NEW n \in DOMAIN t.forks,
              SpawnChild(t, n) \/ SpawnFails(n)
       PROVE  Bounded'
  BY <1>6, <1>14 DEF SpawnChild, SpawnFails, Bounded
<1>15. CASE ForkCompletes
  BY <1>6, <1>15, ForkEffect DEF ForkCompletes, Bounded
<1>16. CASE Gate
  BY <1>6, <1>16 DEF Gate, Bounded, eventVars
<1>17. CASE ChainHop
  BY <1>1, <1>3, <1>5, <1>6, <1>17 DEF ChainHop, Bounded, Busy
<1>18. CASE ChainEnds
  BY <1>1, <1>3, <1>5, <1>6, <1>18 DEF ChainEnds, Bounded, Busy, eventVars
<1>19. CASE InsertRow \/ CommitRow \/ Publish
  BY <1>19 DEF InsertRow, CommitRow, Publish, Bounded
<1> QED  BY <1>7, <1>8, <1>9, <1>10, <1>11, <1>12, <1>13, <1>14, <1>15,
            <1>16, <1>17, <1>18, <1>19, StepKinds DEF Forward, Transit

\* No event, and no creation, adds more than MaxHops entries to the persisted
\* journey, whatever cycles of completion transitions the definition has and
\* whatever its actions do to the guards.
THEOREM ChainsAreBounded == SafeSpec => ChainBounded
<1> DEFINE Within ==
             row' # None =>
               Len(row'.journey) <= MaxHops + (IF row = None THEN 0
                                               ELSE Len(row.journey))
<1>1. Init => Bounded
  <2> SUFFICES ASSUME Init PROVE Bounded
    OBVIOUS
  <2>1. row = None /\ hops = 0 /\ pc \in {"save", "chain"}
    BY DEF Init
  <2>2. \E p \in resolveInitialPosition(InitialState) :
          wf.journey = <<Entry(None, p)>>
    BY DEF Init
  <2>3. Len(wf.journey) = 1
    BY <2>2
  <2> QED  BY <2>1, <2>3, InstanceAssumption DEF Bounded, JourneyBefore
<1>2. IInv /\ Bounded /\ [Next]_vars => Bounded'
  BY BoundedStep DEF IInv
<1>3. SafeSpec => []Bounded
  BY <1>1, <1>2, Inductive, PTL DEF SafeSpec
<1>4. IInv /\ Bounded /\ [Next]_vars => [Within]_row
  <2> SUFFICES ASSUME TypeOK, Bounded, [Next]_vars, row' # row, row' # None
               PROVE  Within
    BY DEF IInv
  <2>1. CommitRow \/ InsertRow
    BY RowWritten
  <2>2. row'.journey = wf.journey /\ pc = "save"
    BY <2>1, CommitEffect, InsertEffect DEF CommitRow, InsertRow
  <2>3. /\ Len(wf.journey) <= JourneyBefore + MaxHops
        /\ MaxHops \in Nat
    BY <2>2, InstanceAssumption DEF Bounded
  <2>4. JourneyBefore \in Nat
    BY RowUpdates, LenProperties DEF JourneyBefore, TypeOK
  <2> QED  BY <2>2, <2>3, <2>4 DEF JourneyBefore
<1> QED  BY <1>3, <1>4, Inductive, PTL DEF SafeSpec, ChainBounded

-----------------------------------------------------------------------------
(* A recorded generation has all its children.                             *)

Members(g) == {k \in DOMAIN kids : kids[k].gen = g}

\* Some fork of the definition has as many targets as g has children.
Intact(g) == \E t \in Authored : t.kind = "FORK" /\ Cohort(g) = Len(t.forks)

\* The fork in progress has a child for every target it is done with, unless
\* one has failed.
Spawning(t) ==
  /\ t \in Authored /\ t.kind = "FORK"
  /\ forking.todo \subseteq DOMAIN t.forks
  /\ ~forking.failed =>
       Cohort(forking.gen) + Cardinality(forking.todo) = Len(t.forks)

\* The row and its copy only wait for intact generations; only transitions
\* of the definition have fork targets.
Gathered ==
  /\ row # None /\ row.gen # 0 => Intact(row.gen)
  /\ pc \notin {"idle", "failed"} /\ wf.gen # 0 => Intact(wf.gen)
  /\ pc = "fork" => \E t \in tran : Spawning(t)
  /\ \A t \in tran : t \in Authored \/ t.forks = <<>>

\* Finitely many children.
LEMMA MembersFinite ==
  ASSUME TypeOK, NEW g
  PROVE  IsFiniteSet(Members(g)) /\ Cohort(g) = Cardinality(Members(g))
<1>1. DOMAIN kids = 1 .. Len(kids) /\ Len(kids) \in Nat
  BY DEF TypeOK
<1>2. IsFiniteSet(DOMAIN kids)
  BY <1>1, FS_Interval
<1>3. Members(g) \in SUBSET DOMAIN kids
  BY DEF Members
<1> QED  BY <1>2, <1>3, FS_Subset DEF Members, Cohort

\* Only the fork in progress gives a generation more children.
LEMMA CohortStays ==
  ASSUME TypeOK, [Next]_vars
  PROVE  \A g \in Nat :
           g # 0 /\ (pc = "fork" /\ forking' # forking => g # forking.gen) =>
             {k \in DOMAIN kids' : kids'[k].gen = g}
               = {k \in DOMAIN kids : kids[k].gen = g}
  BY KidsStay

\* Intact(g) in the next state, for the g of this one.
IntactNext(g) ==
  \E t \in Authored :
    /\ t.kind = "FORK"
    /\ Cardinality({k \in DOMAIN kids' : kids'[k].gen = g}) = Len(t.forks)

\* What the row or its copy waits for stays intact.
LEMMA IntactStays ==
  ASSUME TypeOK, Counted, Gathered, [Next]_vars
  PROVE  /\ row # None /\ row.gen # 0 => IntactNext(row.gen)
         /\ pc \notin {"idle", "failed"} /\ wf.gen # 0 => IntactNext(wf.gen)
<1>1. /\ row # None => row.gen \in Nat
      /\ pc \notin {"idle", "failed"} => wf.gen \in Nat
      /\ pc = "fork" => /\ row # None => row.gen # forking.gen
                        /\ wf.gen # forking.gen
      /\ forking.gen \in Nat
  BY Generations DEF Counted
<1>2. ASSUME NEW g \in Nat, g # 0, Intact(g),
             pc = "fork" => g # forking.gen
      PROVE  IntactNext(g)
  <2>1. {k \in DOMAIN kids' : kids'[k].gen = g}
               = {k \in DOMAIN kids : kids[k].gen = g}
    BY <1>2, CohortStays
  <2> QED  BY <1>2, <2>1 DEF Intact, IntactNext, Cohort
<1> QED  BY <1>1, <1>2 DEF Gathered

\* A fork starts with no child and all its targets to do.
LEMMA ForkStarts ==
  ASSUME TypeOK, Counted, NEW t \in tran, LeaveState(t), t.kind = "FORK",
         t \in Authored \/ t.forks = <<>>
  PROVE  Spawning(t)'
<1>1. /\ t \in Authored /\ kids' = kids /\ gens' = gens + 1
      /\ forking' = [gen |-> gens', todo |-> DOMAIN t.forks,
                     failed |-> FALSE]
  BY DEF LeaveState
<1>2. \A k \in DOMAIN kids : kids[k].gen \in Nat /\ kids[k].gen <= gens
  BY Generations DEF Counted
<1>3. gens \in Nat
  BY Generations
<1>4. {k \in DOMAIN kids : kids[k].gen = gens'} = {}
  BY <1>1, <1>2, <1>3
<1>5. Cohort(forking.gen)' = 0
  BY <1>1, <1>4, FS_EmptySet DEF Cohort
<1>6. DOMAIN t.forks = 1 .. Len(t.forks) /\ Len(t.forks) \in Nat
  BY <1>1, TransitionsAssumption, LenProperties DEF IsTransition
<1>7. Cardinality(DOMAIN t.forks) = Len(t.forks)
  BY <1>6, FS_Interval
<1> QED  BY <1>1, <1>5, <1>6, <1>7 DEF Spawning

\* A child is one target less and one member more.
LEMMA ForkSpawns ==
  ASSUME TypeOK, NEW t, Spawning(t), NEW u, NEW n, SpawnChild(u, n)
  PROVE  Spawning(t)'
<1>1. PICK g \in Nat : g = forking.gen
  BY Generations
<1>2. /\ n \in forking.todo /\ kids' = NewKid(g, u.forks[n])
      /\ forking'.gen = g /\ forking'.todo = forking.todo \ {n}
      /\ forking'.failed = forking.failed
  BY <1>1 DEF SpawnChild, TypeOK
<1>3. kids \in Seq(Kids) /\ kids' \in Seq(Kids)
  BY <1>2, NewKidTyped DEF TypeOK
<1>4. /\ DOMAIN kids = 1 .. Len(kids) /\ Len(kids) \in Nat
      /\ DOMAIN kids' = 1 .. Len(kids) + 1
      /\ \A k \in 1 .. Len(kids) : kids'[k] = kids[k]
      /\ kids'[Len(kids) + 1].gen = g
  <2> DEFINE kid == [gen |-> g, complete |-> u.forks[n] \in BornComplete,
                     withdrawn |-> FALSE, overtaken |-> FALSE]
  <2>1. kid.gen = g
    OBVIOUS
  <2>2. kids' = Append(kids, kid)
    BY <1>2 DEF NewKid
  <2>3. kids \in Seq(Kids \cup {kid}) /\ kid \in Kids \cup {kid}
    BY <1>3, SeqMonotonic
  <2> HIDE DEF kid
  <2>4. /\ Len(kids') = Len(kids) + 1
        /\ \A k \in 1 .. Len(kids) : kids'[k] = kids[k]
        /\ kids'[Len(kids) + 1] = kid
    BY <2>2, <2>3, AppendProperties
  <2> QED  BY <1>3, <2>1, <2>4, LenProperties
<1>5. {k \in DOMAIN kids' : kids'[k].gen = g}
        = Members(g) \cup {Len(kids) + 1}
  BY <1>4 DEF Members
<1>6. Len(kids) + 1 \notin Members(g)
  BY <1>4 DEF Members
<1>7. Cardinality(Members(g) \cup {Len(kids) + 1})
        = Cardinality(Members(g)) + 1
  BY <1>6, MembersFinite, FS_AddElement
<1>8. Cohort(forking.gen)' = Cohort(forking.gen) + 1
  BY <1>1, <1>2, <1>5, <1>7, MembersFinite DEF Cohort
<1>9. IsFiniteSet(forking.todo) /\ Cardinality(forking.todo) \in Nat
  <2>1. DOMAIN t.forks = 1 .. Len(t.forks) /\ Len(t.forks) \in Nat
    BY TransitionsAssumption, LenProperties DEF Spawning, IsTransition
  <2>2. IsFiniteSet(DOMAIN t.forks)
    BY <2>1, FS_Interval
  <2> QED  BY <2>2, FS_Subset, FS_CardinalityType DEF Spawning
<1>10. Cardinality(forking.todo \ {n}) = Cardinality(forking.todo) - 1
  BY <1>2, <1>9, FS_RemoveElement
<1>11. Cohort(forking.gen) \in Nat
  BY MembersFinite, FS_CardinalityType
<1>12. ~forking'.failed =>
         Cohort(forking.gen)' + Cardinality(forking'.todo) = Len(t.forks)
  BY <1>2, <1>8, <1>9, <1>10, <1>11 DEF Spawning
<1> QED  BY <1>2, <1>12 DEF Spawning

\* Every step keeps the generations on record intact.
LEMMA GatheredStep ==
  ASSUME TypeOK, Counted, Gathered, [Next]_vars
  PROVE  Gathered'
<1>1. /\ row # None /\ row.gen # 0 => IntactNext(row.gen)
      /\ pc \notin {"idle", "failed"} /\ wf.gen # 0 => IntactNext(wf.gen)
  BY IntactStays
<1>2. /\ IntactNext(row'.gen) => Intact(row.gen)'
      /\ IntactNext(wf'.gen) => Intact(wf.gen)'
  BY DEF IntactNext, Intact, Cohort
<1>3. CASE Beside
  <2>1. pc = "fork" => \E t \in tran : Spawning(t)'
    <3> SUFFICES ASSUME pc = "fork" PROVE \E t \in tran : Spawning(t)'
      OBVIOUS
    <3>1. PICK t \in tran : Spawning(t)
      BY DEF Gathered
    <3>2. forking' = forking
      BY <1>3 DEF Beside, eventVars
    <3>3. forking.gen \in Nat /\ forking.gen # 0
      BY Generations DEF Counted
    <3>4. Cohort(forking.gen)' = Cohort(forking.gen)
      BY <3>2, <3>3, CohortStays DEF Cohort
    <3> QED  BY <3>1, <3>2, <3>4 DEF Spawning
  <2> QED  BY <1>1, <1>2, <1>3, <2>1 DEF Beside, Gathered, eventVars
<1>4. CASE Drop
  BY <1>1, <1>2, <1>4 DEF Drop, Return, Gathered
<1>5. CASE Take
  <2>1. row # None /\ row \in Rows /\ row' = row /\ wf' = row
        /\ pc' \in {"gate", "apply"}
    BY <1>5 DEF Take, Match, TypeOK
  <2>2. \A t \in tran' : t \in Authored \/ t.forks = <<>>
    BY <1>5, <2>1, RowUpdates, CandidateIsTransition DEF Take, Match
  <2> QED  BY <1>1, <1>2, <2>1, <2>2 DEF Gathered
<1>6. ASSUME NEW t \in tran, ApplyInternal(t) PROVE Gathered'
  BY <1>1, <1>2, <1>6, InternalEffect DEF ApplyInternal, Gathered
<1>7. ASSUME NEW t \in tran, LeaveSubstate(t) PROVE Gathered'
  BY <1>1, <1>2, <1>7, SubstateEffect DEF LeaveSubstate, Gathered
<1>8. ASSUME NEW t \in tran, LeaveState(t) PROVE Gathered'
  <2>1. /\ row' = row /\ tran' = tran
        /\ pc = "apply" /\ pc' \in {"fork", "enter"}
        /\ pc' = "fork" => t.kind = "FORK"
    BY <1>8 DEF LeaveState
  <2>2. wf'.gen = wf.gen \/ wf'.gen = 0
    BY <1>8, StateEffect
  <2>3. pc' = "fork" => Spawning(t)'
    BY <1>8, <2>1, ForkStarts DEF Gathered
  <2> QED  BY <1>1, <1>2, <2>1, <2>2, <2>3 DEF Gathered
<1>9. ASSUME NEW t \in tran, EnterState(t) PROVE Gathered'
  BY <1>1, <1>2, <1>9, EnterEffect DEF EnterState, Gathered
<1>10. ASSUME NEW t \in tran, NEW n \in DOMAIN t.forks, SpawnChild(t, n)
       PROVE  Gathered'
  <2>1. pc = "fork" /\ UNCHANGED <<row, wf, pc, tran>>
    BY <1>10 DEF SpawnChild
  <2>2. PICK u \in tran : Spawning(u)
    BY <2>1 DEF Gathered
  <2>3. Spawning(u)'
    BY <1>10, <2>2, ForkSpawns
  <2> QED  BY <1>1, <1>2, <2>1, <2>3 DEF Gathered
<1>11. ASSUME NEW n, SpawnFails(n)
       PROVE  Gathered'
  <2>1. /\ pc = "fork" /\ UNCHANGED <<row, wf, pc, tran, kids>>
        /\ forking'.failed /\ forking'.todo \subseteq forking.todo
    BY <1>11 DEF SpawnFails, TypeOK
  <2>2. PICK u \in tran : Spawning(u)
    BY <2>1 DEF Gathered
  <2>3. Spawning(u)'
    BY <2>1, <2>2 DEF Spawning
  <2> QED  BY <1>1, <1>2, <2>1, <2>3 DEF Gathered
<1>12. CASE ForkCompletes
  <2>1. /\ pc = "fork" /\ UNCHANGED <<row, tran, kids>> /\ pc' = "enter"
        /\ forking.todo = {} /\ ~forking.failed
    BY <1>12 DEF ForkCompletes
  <2>2. PICK u \in tran : Spawning(u)
    BY <2>1 DEF Gathered
  <2>3. Cohort(forking.gen) = Len(u.forks)
    BY <2>1, <2>2, FS_EmptySet, MembersFinite, FS_CardinalityType
       DEF Spawning
  <2>4. Intact(wf.gen)'
    BY <1>12, <2>1, <2>2, <2>3, ForkEffect DEF Intact, Cohort, Spawning
  <2> QED  BY <1>1, <1>2, <2>1, <2>4 DEF Gathered
<1>13. CASE ChainHop
  <2>1. wf.pos \in Positions
    BY <1>13, WorkingRow DEF ChainHop
  <2>2. \A t \in tran' : t \in Authored
    BY <1>13, <2>1, AutomaticIsAuthored DEF ChainHop
  <2> QED  BY <1>1, <1>2, <1>13, <2>2 DEF ChainHop, Gathered
<1>14. CASE Gate \/ ChainEnds
  BY <1>1, <1>2, <1>14 DEF Gate, ChainEnds, Gathered, eventVars
<1>15. CASE InsertRow
  BY <1>1, <1>2, <1>15, InsertEffect DEF InsertRow, Return, Gathered
<1>16. CASE CommitRow
  BY <1>1, <1>2, <1>16, CommitEffect DEF CommitRow, Gathered
<1>17. CASE Publish
  BY <1>1, <1>2, <1>17 DEF Publish, Return, Gathered
<1> QED  BY <1>3, <1>4, <1>5, <1>6, <1>7, <1>8, <1>9, <1>10, <1>11, <1>12,
            <1>13, <1>14, <1>15, <1>16, <1>17, StepKinds DEF Forward, Transit

LEMMA AlwaysGathered == SafeSpec => []Gathered
<1>1. Init => Gathered
  BY DEF Init, Gathered
<1>2. IInv /\ Counted /\ Gathered /\ [Next]_vars => Gathered'
  BY GatheredStep DEF IInv
<1> QED  BY <1>1, <1>2, Inductive, AlwaysCounted, PTL DEF SafeSpec

\* A generation that a row records has as many children as the fork that drew
\* it has targets, whatever children are created, completed or withdrawn
\* meanwhile and however many forks have failed half-way or been rolled back.
THEOREM CohortsAreIntact == SafeSpec => []CohortIntact
<1>1. Gathered => CohortIntact
  BY DEF Gathered, Intact, CohortIntact
<1> QED  BY <1>1, AlwaysGathered, PTL

-----------------------------------------------------------------------------
(* Forks and joins are those of ForkJoin.                                   *)

\* No completion transition of the definition is a join: the automatic chain,
\* unlike an event, does not go through the join gate.
NoAutomaticJoin ==
  \A t \in Authored : t.trigger = "AUTOMATIC" /\ ~t.after => ~IsJoin(t)

\* The copy waits for the event's last fork, or for what the row waits for, or
\* for nothing; a creation cannot fork, as its children would find no parent;
\* an event that joins has not forked.
Forked ==
  /\ ~Busy => forking.gen = 0
  /\ Busy /\ row = None =>
       /\ wf.gen = 0
       /\ pc = "fork" => forking.failed \/ forking.todo # {}
  /\ Busy /\ row # None /\ forking.gen = 0 => wf.gen \in {0, row.gen}
  /\ Busy /\ pc # "fork" /\ forking.gen # 0 => wf.gen = forking.gen
  /\ pc = "gate" => forking.gen = 0
  /\ pc = "apply" /\ (\E t \in tran : IsJoin(t)) => forking.gen = 0

LEMMA ForkedStep ==
  ASSUME NoAutomaticJoin, TypeOK, Counted, Forked, [Next]_vars
  PROVE  Forked'
<1>1. gens \in Nat /\ forking.gen \in Nat
  BY Generations
<1>2. CASE Beside
  BY <1>2 DEF Beside, Forked, Busy, eventVars
<1>3. CASE Drop
  BY <1>3 DEF Drop, Return, NoFork, Forked, Busy
<1>4. CASE Take
  BY <1>4 DEF Take, Match, Forked, Busy
<1>5. ASSUME NEW t \in tran, ApplyInternal(t) PROVE Forked'
  BY <1>5, InternalEffect DEF ApplyInternal, Forked, Busy
<1>6. ASSUME NEW t \in tran, LeaveSubstate(t) PROVE Forked'
  BY <1>6, SubstateEffect DEF LeaveSubstate, Forked, Busy
<1>7. ASSUME NEW t \in tran, LeaveState(t), t.kind = "FORK" PROVE Forked'
  <2>1. /\ row' = row /\ tran' = tran /\ pc = "apply" /\ pc' = "fork"
        /\ forking' = [gen |-> gens + 1, todo |-> DOMAIN t.forks,
                       failed |-> FALSE]
        /\ t.forks # <<>>
    BY <1>7 DEF LeaveState
  <2>2. wf'.gen = wf.gen
    BY <1>7, StateEffect
  <2>3. row = None => wf.gen = 0
    BY <2>1 DEF Forked, Busy
  <2>4. forking'.gen # 0
    BY <1>1, <2>1
  <2>5. DOMAIN t.forks # {}
    <3>1. t.forks \in Seq(Range(t.forks))
      BY DEF TypeOK, IsTransition
    <3>2. DOMAIN t.forks = 1 .. Len(t.forks) /\ Len(t.forks) \in Nat
      BY <3>1, LenProperties
    <3>3. Len(t.forks) # 0
      BY <2>1, <3>1, EmptySeq
    <3> QED  BY <3>2, <3>3
  <2> QED  BY <2>1, <2>2, <2>3, <2>4, <2>5 DEF Forked, Busy
<1>8. ASSUME NEW t \in tran, LeaveState(t), t.kind # "FORK" PROVE Forked'
  <2>1. /\ row' = row /\ tran' = tran /\ pc = "apply" /\ pc' = "enter"
        /\ forking' = forking
    BY <1>8 DEF LeaveState
  <2>2. wf'.gen = IF IsJoin(t) THEN 0 ELSE wf.gen
    BY <1>8, StateEffect
  <2>3. IsJoin(t) => forking.gen = 0
    BY <2>1 DEF Forked
  <2> QED  BY <2>1, <2>2, <2>3 DEF Forked, Busy
<1>9. ASSUME NEW t \in tran, EnterState(t) PROVE Forked'
  BY <1>9, EnterEffect DEF EnterState, Forked, Busy
<1>10. ASSUME NEW t \in tran, NEW n \in DOMAIN t.forks, SpawnChild(t, n)
       PROVE  Forked'
  BY <1>10 DEF SpawnChild, TypeOK, Forked, Busy
<1>11. ASSUME NEW n, SpawnFails(n) PROVE Forked'
  BY <1>11 DEF SpawnFails, TypeOK, Forked, Busy
<1>12. CASE ForkCompletes
  BY <1>12, ForkEffect DEF ForkCompletes, Forked, Busy
<1>13. CASE Gate \/ ChainEnds
  BY <1>13 DEF Gate, ChainEnds, Forked, Busy, eventVars
<1>14. CASE ChainHop
  <2>1. wf.pos \in Positions
    BY <1>14, WorkingRow DEF ChainHop
  <2>2. \A t \in tran' : ~IsJoin(t)
    BY <1>14, <2>1, AutomaticIsAuthored DEF ChainHop, NoAutomaticJoin
  <2> QED  BY <1>14, <2>2 DEF ChainHop, Forked, Busy
<1>15. CASE InsertRow \/ Publish
  BY <1>15 DEF InsertRow, Publish, Return, NoFork, Forked, Busy
<1>16. CASE CommitRow
  BY <1>16, CommitEffect DEF CommitRow, Forked, Busy
<1> QED  BY <1>2, <1>3, <1>4, <1>5, <1>6, <1>7, <1>8, <1>9, <1>10, <1>11,
            <1>12, <1>13, <1>14, <1>15, <1>16, StepKinds DEF Forward, Transit

\* Where no completion transition is a join.
LEMMA AlwaysForked ==
  ASSUME NoAutomaticJoin
  PROVE  SafeSpec => []Forked
<1>1. Init => Forked
  BY DEF Init, Forked, Busy, NoFork
<1>2. IInv /\ Counted /\ Forked /\ [Next]_vars => Forked'
  BY ForkedStep DEF IInv
<1> QED  BY <1>1, <1>2, Inductive, AlwaysCounted, PTL DEF SafeSpec

\* Nothing that others can tell begins.
Quiet == /\ WaitingFor' = WaitingFor /\ Children' = Children
         /\ Gathering' \in {0, Gathering}
         /\ Seen' => Seen

LEMMA QuietMaps ==
  ASSUME Quiet
  PROVE  Forks!Next
<1>1. Seen \in BOOLEAN /\ Seen' \in BOOLEAN
  BY DEF Seen
<1>2. Seen' \in {FALSE, Seen}
  BY <1>1 DEF Quiet
<1> QED  BY <1>2 DEF Quiet, Forks!Next, Forks!GiveUp

\* A generation has the same children in both.
LEMMA SameCohort ==
  ASSUME NEW g
  PROVE  Forks!Cohort(g) = Members(g)
<1>1. DOMAIN Children = DOMAIN kids
  BY DEF Children
<1>2. \A k \in DOMAIN kids : Children[k].gen = kids[k].gen
  BY DEF Children
<1> QED  BY <1>1, <1>2 DEF Forks!Cohort, Members

\* The insert of a child.
LEMMA ChildCreated ==
  ASSUME TypeOK, NEW gen \in Nat, NEW def, kids' = NewKid(gen, def),
         WaitingFor' = WaitingFor, Gathering' = Gathering, Seen' = Seen
  PROVE  Forks!Create(gen)
<1> DEFINE complete == def \in BornComplete
           kid == [gen |-> gen, complete |-> complete, withdrawn |-> FALSE,
                   overtaken |-> FALSE]
           last == Len(kids) + 1
           child == [gen |-> gen, open |-> ~complete]
<1>1. kids \in Seq(Kids) /\ kids' \in Seq(Kids) /\ Len(kids) \in Nat
  BY NewKidTyped DEF TypeOK
<1>2. /\ kids' = Append(kids, kid) /\ kid.gen = gen
      /\ kid.complete = complete /\ kid.withdrawn = FALSE
  BY DEF NewKid
<1>3. kids \in Seq(Kids \cup {kid}) /\ kid \in Kids \cup {kid}
  BY <1>1, SeqMonotonic
<1> HIDE DEF kid
<1>4. /\ Len(kids') = last
      /\ \A k \in 1 .. Len(kids) : kids'[k] = kids[k]
      /\ kids'[last] = kid
  BY <1>2, <1>3, AppendProperties
<1>5. DOMAIN kids = 1 .. Len(kids) /\ DOMAIN kids' = 1 .. last
  BY <1>1, <1>4, LenProperties
<1>6. \E b \in BOOLEAN : child = [gen |-> gen, open |-> b]
  OBVIOUS
<1>7. Children = [k \in 1 .. Len(kids) |->
                    [gen |-> kids[k].gen, open |-> Open(k)]]
  BY <1>5 DEF Children
<1>8. Children' = [k \in 1 .. last |->
                     [gen |-> kids'[k].gen,
                      open |-> ~kids'[k].complete /\ ~kids'[k].withdrawn]]
  BY <1>5 DEF Children, Open
<1>9. \A k \in 1 .. Len(kids) : Children'[k] = Children[k]
  BY <1>1, <1>4, <1>7, <1>8 DEF Open
<1>10. Children'[last] = child
  <2>1. last \in 1 .. last
    BY <1>1
  <2>2. /\ kids'[last].gen = gen /\ kids'[last].complete = complete
        /\ kids'[last].withdrawn = FALSE
    BY <1>2, <1>4, Zenon
  <2>3. Children'[last] = [gen |-> kids'[last].gen,
                           open |-> ~kids'[last].complete
                                      /\ ~kids'[last].withdrawn]
    <3> HIDE DEF last
    <3> QED  BY <1>8, <2>1, Zenon
  <2>4. (~kids'[last].complete /\ ~kids'[last].withdrawn) = ~complete
    <3> HIDE DEF complete, last
    <3> QED  BY <2>2, Zenon
  <2> HIDE DEF last, complete
  <2> QED  BY <2>2, <2>3, <2>4, Zenon
<1> DEFINE Both == [gen : Nat, open : BOOLEAN]
<1>11. child \in Both
  <2>1. \A b \in BOOLEAN : [gen |-> gen, open |-> b] \in Both
    OBVIOUS
  <2> HIDE DEF child, complete, Both
  <2> QED  BY <1>6, <2>1, Zenon
<1>12. Children \in Seq(Both) /\ Len(Children) = Len(kids)
  <2>1. \A k \in 1 .. Len(kids) : kids[k].gen \in Nat /\ Open(k) \in BOOLEAN
    BY <1>5, Generations DEF Open
  <2>2. \A k \in 1 .. Len(kids) :
          [gen |-> kids[k].gen, open |-> Open(k)] \in Both
    BY <2>1
  <2>3. Children \in Seq(Both) /\ Children \in [1 .. Len(kids) -> Both]
    <3> HIDE DEF Both
    <3> QED  BY <1>1, <1>7, <2>2
  <2>4. Len(Children) \in Nat /\ 1 .. Len(Children) = 1 .. Len(kids)
    BY <2>3, LenProperties
  <2>5. \A m, n \in Nat : 1 .. m = 1 .. n => m = n
    <3>1. \A m, n \in Nat : 1 .. m = 1 .. n => m <= n /\ n <= m
      OBVIOUS
    <3> QED  BY <3>1
  <2> QED  BY <1>1, <2>3, <2>4, <2>5
<1> HIDE DEF child, complete, Both
<1>13. /\ Append(Children, child) \in Seq(Both)
       /\ Len(Append(Children, child)) = last
       /\ \A k \in 1 .. Len(kids) : Append(Children, child)[k] = Children[k]
       /\ Append(Children, child)[last] = child
  BY <1>11, <1>12, AppendProperties
<1>14. Append(Children, child)
         = [k \in 1 .. last |-> Append(Children, child)[k]]
  <2>1. Append(Children, child) \in [1 .. last -> Both]
    BY <1>13, LenProperties
  <2> QED  BY <2>1
<1>15. \A k \in 1 .. last : Children'[k] = Append(Children, child)[k]
  BY <1>1, <1>9, <1>10, <1>13
<1>16. Children' = Append(Children, child)
  BY <1>8, <1>14, <1>15
<1> QED  BY <1>6, <1>16 DEF Forks!Create

\* A child's own event, or its withdrawal, turns it, or nobody can tell.
LEMMA ChildTurns ==
  ASSUME TypeOK, NEW k \in DOMAIN kids, NEW flag \in BOOLEAN,
         KidCommits(k, flag) \/ WithdrawKid(k, flag)
  PROVE  Children' \in {Children, [Children EXCEPT ![k].open = ~@]}
<1>1. PICK kid \in Kids : /\ kid.gen = kids[k].gen
                         /\ kids' = [kids EXCEPT ![k] = kid]
  BY KidsChange DEF TypeOK
<1>2. DOMAIN kids' = DOMAIN kids
  BY <1>1
<1>3. \A j \in DOMAIN kids :
        j # k => kids'[j] = kids[j] /\ Open(j)' = Open(j)
  BY <1>1 DEF Open
<1>4. kids'[k].gen = kids[k].gen
  BY <1>1
<1>5. Open(k) \in BOOLEAN /\ Open(k)' \in BOOLEAN
  BY DEF Open
<1>6. Children' = [j \in DOMAIN kids |->
                     [gen |-> kids'[j].gen, open |-> Open(j)']]
  BY <1>2 DEF Children
<1>7. CASE Open(k)' = Open(k)
  <2>1. Children' = Children
    BY <1>3, <1>4, <1>6, <1>7 DEF Children
  <2> QED  BY <2>1
<1>8. CASE Open(k)' = ~Open(k)
  <2>1. Children' = [Children EXCEPT ![k].open = ~@]
    BY <1>3, <1>4, <1>6, <1>8 DEF Children
  <2> QED  BY <2>1
<1> QED  BY <1>5, <1>7, <1>8

\* What children do beside the event.
LEMMA BesideMaps ==
  ASSUME TypeOK, Beside
  PROVE  Forks!Next
<1>1. WaitingFor' = WaitingFor /\ Gathering' = Gathering /\ Seen' = Seen
  BY DEF Beside, eventVars, WaitingFor, Gathering, Seen
<1>2. Children' = Children => Quiet
  BY <1>1 DEF Quiet
<1>3. CASE UNCHANGED kids
  <2>1. Children' = Children
    BY <1>3 DEF Children, Open
  <2> QED  BY <1>2, <2>1, QuietMaps
<1>4. ASSUME NEW def \in ChildDefs, AdHocChild(def) PROVE Forks!Next
  <2>1. Forks!Create(0)
    BY <1>1, <1>4, ChildCreated DEF AdHocChild
  <2> QED  BY <2>1 DEF Forks!Next
<1>5. ASSUME NEW k \in DOMAIN kids, NEW flag \in BOOLEAN,
             KidCommits(k, flag) \/ WithdrawKid(k, flag)
      PROVE  Forks!Next
  <2>1. Children' = Children \/ Children' = [Children EXCEPT ![k].open = ~@]
    BY <1>5, ChildTurns
  <2>2. CASE Children' = [Children EXCEPT ![k].open = ~@]
    <3>1. k \in DOMAIN Children
      BY DEF Children
    <3>2. Forks!Turn(k)
      BY <1>1, <2>2 DEF Forks!Turn
    <3> QED  BY <3>1, <3>2 DEF Forks!Next
  <2> QED  BY <1>2, <2>1, <2>2, QuietMaps
<1> QED  BY <1>3, <1>4, <1>5 DEF Beside, ChildStep

\* A fork draws a generation that no child and no wait has had.
LEMMA ForkMaps ==
  ASSUME TypeOK, Counted, NEW t \in tran, LeaveState(t), t.kind = "FORK"
  PROVE  Forks!Fork
<1>1. /\ row' = row /\ kids' = kids /\ pc' = "fork"
      /\ gens' = gens + 1 /\ forking'.gen = gens'
  BY DEF LeaveState
<1>2. /\ gens \in Nat
      /\ \A k \in DOMAIN kids : kids[k].gen \in Nat /\ kids[k].gen <= gens
      /\ row # None => row.gen \in Nat /\ row.gen <= gens
  BY Generations DEF Counted
<1>3. /\ Gathering' = gens + 1 /\ WaitingFor' = WaitingFor
      /\ Children' = Children
  BY <1>1 DEF Gathering, WaitingFor, Children, Open
<1>4. gens + 1 # WaitingFor
  BY <1>2 DEF WaitingFor
<1>5. Members(gens + 1) = {}
  BY <1>2 DEF Members
<1>6. Seen' \in {FALSE, Seen}
  <2>1. Seen \in BOOLEAN /\ Seen' \in BOOLEAN
    BY DEF Seen
  <2>2. wf # None
    BY NoneAssumption DEF LeaveState, TypeOK
  <2>3. wf'.gen = wf.gen
    BY StateEffect
  <2>4. Seen' => wf'.gen = 0 /\ WaitingFor' # 0
    BY <1>1 DEF Seen
  <2>5. wf.gen = 0 /\ WaitingFor # 0 => Seen
    BY <2>2 DEF Seen
  <2> QED  BY <1>3, <2>1, <2>3, <2>4, <2>5
<1>7. Forks!Cohort(gens + 1) = {}
  BY <1>5, SameCohort
<1>8. Forks!Fresh(gens + 1)
  BY <1>2, <1>4, <1>7 DEF Forks!Fresh
<1> QED  BY <1>3, <1>6, <1>8 DEF Forks!Fork

LEMMA SameCardinality ==
  \A S : Forks!Cardinality(S) = Cardinality(S)
  BY DEF Forks!Cardinality, Cardinality

\* A commit starts to wait, joins, or does neither.
LEMMA CommitMaps ==
  ASSUME TypeOK, Counted, Gathered, Forked, CommitRow
  PROVE  Forks!Next
<1>1. /\ pc = "save" /\ pc' = "publish" /\ row # None /\ row' # None
      /\ row' = wf' /\ row'.gen = wf.gen /\ forking' = forking
      /\ kids' = kids /\ wf # None
  BY CommitEffect, NoneAssumption DEF CommitRow, TypeOK
<1>2. /\ WaitingFor = row.gen /\ WaitingFor' = wf.gen
      /\ Gathering = forking.gen /\ Gathering' = 0
      /\ Children' = Children
  BY <1>1 DEF WaitingFor, Gathering, Children, Open
<1>3. Seen' = FALSE
  BY <1>1, <1>2 DEF Seen
<1>4. CASE forking.gen # 0
  <2>1. wf.gen = forking.gen
    BY <1>1, <1>4 DEF Forked, Busy
  <2>2. Intact(wf.gen)
    BY <1>1, <1>4, <2>1 DEF Gathered
  <2>3. Cohort(forking.gen) \in ForkSizes
    BY <2>1, <2>2 DEF Intact, ForkSizes
  <2>4. Cardinality(Forks!Cohort(forking.gen)) \in ForkSizes
    BY <2>3, SameCohort DEF Cohort, Members
  <2>5. /\ Gathering # 0 /\ WaitingFor' = Gathering
        /\ Cardinality(Forks!Cohort(Gathering)) \in ForkSizes
    BY <1>2, <1>4, <2>1, <2>4
  <2>6. Forks!Wait
    BY <1>2, <1>3, <2>5, SameCardinality DEF Forks!Wait
  <2> QED  BY <2>6 DEF Forks!Next
<1>5. CASE forking.gen = 0 /\ row.gen # 0 /\ wf.gen = 0
  <2>1. Seen
    BY <1>1, <1>2, <1>5 DEF Seen
  <2>2. Forks!Join
    BY <1>2, <1>3, <1>5, <2>1 DEF Forks!Join
  <2> QED  BY <2>2 DEF Forks!Next
<1>6. CASE forking.gen = 0 /\ wf.gen = row.gen
  <2>1. Quiet
    BY <1>2, <1>3, <1>6 DEF Quiet
  <2> QED  BY <2>1, QuietMaps
<1>7. forking.gen = 0 => wf.gen \in {0, row.gen}
  BY <1>1 DEF Forked, Busy
<1> QED  BY <1>4, <1>5, <1>6, <1>7

\* Past the gate all the children that are waited for have been seen done.
LEMMA GateMaps ==
  ASSUME TypeOK, Forked, Gate
  PROVE  Forks!Next
<1>1. /\ pc = "gate" /\ pc' = "apply" /\ ChildrenComplete(wf.gen)
      /\ UNCHANGED <<row, wf, tran, forking, kids>>
  BY DEF Gate, eventVars
<1>2. /\ WaitingFor' = WaitingFor /\ Gathering' = Gathering
      /\ Children' = Children
  BY <1>1 DEF WaitingFor, Gathering, Children, Open
<1>3. Seen \in BOOLEAN /\ Seen' \in BOOLEAN
  BY DEF Seen
<1>4. CASE Seen' = FALSE
  <2>1. Quiet
    BY <1>2, <1>4 DEF Quiet
  <2> QED  BY <2>1, QuietMaps
<1>5. CASE Seen' = TRUE
  <2>1. row # None /\ row.gen # 0 /\ WaitingFor = row.gen
    BY <1>2, <1>5 DEF Seen, WaitingFor
  <2>2. wf.gen \in {0, row.gen}
    BY <1>1, <2>1 DEF Forked, Busy
  <2>3. \A k \in Members(row.gen) : ~Open(k)
    BY <1>1, <2>2 DEF ChildrenComplete, InCohort, Members
  <2>4. \A k \in Forks!Cohort(WaitingFor) : ~Children[k].open
    BY <2>1, <2>3, SameCohort DEF Children, Members
  <2>5. Forks!See
    BY <1>2, <1>5, <2>1, <2>4 DEF Forks!See
  <2> QED  BY <2>5 DEF Forks!Next
<1> QED  BY <1>3, <1>4, <1>5

\* Every step is one of ForkJoin, or none.
LEMMA ForksStep ==
  ASSUME NoAutomaticJoin, TypeOK, Counted, Gathered, Forked, [Next]_vars
  PROVE  Forks!Next
<1> USE NoneAssumption
<1>1. Quiet => Forks!Next
  BY QuietMaps
<1>2. UNCHANGED kids => Children' = Children
  BY DEF Children, Open
<1>3. CASE Beside
  BY <1>3, BesideMaps
<1>4. CASE Drop
  <2>1. Children' = Children
    <3>1. CASE Crash
      BY <3>1, CrashedKids DEF TypeOK, Children, Open
    <3> QED  BY <1>2, <1>4, <3>1 DEF Drop
  <2>2. Quiet
    BY <1>4, <2>1
       DEF Drop, Return, NoFork, WaitingFor, Gathering, Seen, Quiet
  <2> QED  BY <1>1, <2>2
<1>5. CASE Take
  <2>1. /\ pc = "idle" /\ row # None /\ wf' = row
        /\ pc' = IF \E t \in tran' : IsJoin(t) THEN "gate" ELSE "apply"
        /\ UNCHANGED <<row, forking, kids>>
    BY <1>5 DEF Take, Match
  <2>2. Seen' = FALSE
    BY <2>1 DEF Seen, WaitingFor
  <2>3. Quiet
    BY <1>2, <2>1, <2>2 DEF WaitingFor, Gathering, Quiet
  <2> QED  BY <1>1, <2>3
<1>6. ASSUME NEW t \in tran,
             ApplyInternal(t) \/ LeaveSubstate(t) \/ EnterState(t)
      PROVE  Quiet
  <2>1. /\ wf # None /\ wf'.gen = wf.gen
        /\ pc \in {"apply", "enter"} /\ pc' \in {"chain", "enter"}
        /\ UNCHANGED <<row, forking, kids>>
    BY <1>6, InternalEffect, SubstateEffect, EnterEffect
       DEF ApplyInternal, LeaveSubstate, EnterState, TypeOK
  <2> QED  BY <1>2, <2>1 DEF WaitingFor, Gathering, Seen, Quiet
<1>7. ASSUME NEW t \in tran, LeaveState(t), t.kind # "FORK" PROVE Quiet
  <2>1. /\ wf # None /\ wf'.gen = IF IsJoin(t) THEN 0 ELSE wf.gen
        /\ pc = "apply" /\ pc' = "enter"
        /\ UNCHANGED <<row, forking, kids>>
    BY <1>7, StateEffect DEF LeaveState, TypeOK
  <2> QED  BY <1>2, <2>1 DEF WaitingFor, Gathering, Seen, Quiet
<1>8. ASSUME NEW t \in tran, LeaveState(t), t.kind = "FORK" PROVE Forks!Next
  BY <1>8, ForkMaps DEF Forks!Next
<1>9. ASSUME NEW t \in tran, NEW n \in DOMAIN t.forks, SpawnChild(t, n)
      PROVE  Forks!Next
  <2>1. /\ pc = "fork" /\ pc' = pc /\ UNCHANGED <<row, wf, tran>>
        /\ forking'.gen = forking.gen
        /\ kids' = NewKid(forking.gen, t.forks[n])
    BY <1>9 DEF SpawnChild, TypeOK
  <2>2. /\ Gathering = forking.gen /\ Gathering' = Gathering
        /\ WaitingFor' = WaitingFor /\ Seen' = Seen
    BY <2>1 DEF Gathering, WaitingFor, Seen
  <2>3. Gathering \in Nat
    BY <2>2, Generations
  <2>4. Forks!Create(Gathering)
    BY <2>1, <2>2, <2>3, ChildCreated
  <2> QED  BY <2>4 DEF Forks!Next
<1>10. ASSUME NEW n, SpawnFails(n) PROVE Quiet
  <2>1. /\ pc = "fork" /\ pc' = pc /\ UNCHANGED <<row, wf, tran, kids>>
        /\ forking'.gen = forking.gen
    BY <1>10 DEF SpawnFails, TypeOK
  <2> QED  BY <1>2, <2>1 DEF WaitingFor, Gathering, Seen, Quiet
<1>11. CASE Gate
  BY <1>11, GateMaps
<1>12. CASE ForkCompletes
  <2>1. wf.gen \in Nat /\ forking.gen \in Nat /\ wf.gen < forking.gen
    BY <1>12, Generations DEF ForkCompletes, Counted
  <2>2. /\ wf'.gen # 0 /\ pc = "fork" /\ pc' = "enter"
        /\ UNCHANGED <<row, forking, kids>>
    BY <1>12, <2>1, ForkEffect DEF ForkCompletes
  <2>3. Quiet
    BY <1>2, <2>2 DEF WaitingFor, Gathering, Seen, Quiet
  <2> QED  BY <1>1, <2>3
<1>13. CASE ChainHop
  <2>1. wf.pos \in Positions
    BY <1>13, WorkingRow DEF ChainHop
  <2>2. \A t \in tran' : ~IsJoin(t)
    BY <1>13, <2>1, AutomaticIsAuthored DEF ChainHop, NoAutomaticJoin
  <2>3. Quiet
    BY <1>2, <1>13, <2>2 DEF ChainHop, WaitingFor, Gathering, Seen, Quiet
  <2> QED  BY <1>1, <2>3
<1>14. CASE ChainEnds
  <2>1. Quiet
    BY <1>2, <1>14
       DEF ChainEnds, eventVars, WaitingFor, Gathering, Seen, Quiet
  <2> QED  BY <1>1, <2>1
<1>15. CASE InsertRow \/ Publish
  <2>1. kids' = kids /\ WaitingFor' = WaitingFor
    BY <1>15, InsertEffect
       DEF InsertRow, Publish, WaitingFor, Forked, Busy
  <2>2. Gathering' = 0 /\ Seen' = FALSE
    BY <1>15 DEF InsertRow, Publish, Return, NoFork, Gathering, Seen
  <2>3. Quiet
    BY <1>2, <2>1, <2>2 DEF Quiet
  <2> QED  BY <1>1, <2>3
<1>16. CASE CommitRow
  BY <1>16, CommitMaps
<1> QED  BY <1>1, <1>3, <1>4, <1>5, <1>6, <1>7, <1>8, <1>9, <1>10, <1>11,
            <1>12, <1>13, <1>14, <1>15, <1>16, StepKinds DEF Forward, Transit

\* Where no completion transition is a join, an instance forks and joins as
\* ForkJoin does, for every definition: each generation waited for is new and
\* has its fork's children, nobody else ever becomes one of them, and the wait
\* ends with a join only after all of them have been seen done while it
\* lasted, whatever errors, rollbacks, crashes, chains and other children come
\* between the steps.
THEOREM ForksAndJoins ==
  ASSUME NoAutomaticJoin
  PROVE  SafeSpec => ImplementsForkJoin
<1>1. Init => Forks!Init
  <2> SUFFICES ASSUME Init PROVE Forks!Init
    OBVIOUS
  <2>1. WaitingFor = 0 /\ Gathering = 0 /\ kids = <<>>
    BY DEF Init, WaitingFor, Gathering, NoFork
  <2>2. Seen = FALSE
    BY <2>1 DEF Seen
  <2>3. Children = <<>>
    BY <2>1 DEF Children
  <2> QED  BY <2>1, <2>2, <2>3 DEF Forks!Init
<1>2. IInv /\ Counted /\ Gathered /\ Forked /\ [Next]_vars
        => [Forks!Next]_(Forks!vars)
  BY ForksStep DEF IInv
<1> QED  BY <1>1, <1>2, Inductive, AlwaysCounted, AlwaysGathered,
            AlwaysForked, PTL
         DEF SafeSpec, ImplementsForkJoin, Forks!Spec

-----------------------------------------------------------------------------
(* The events offered are those that would fire.                           *)

\* A set of numbers has a least one.
LEMMA LeastNumber ==
  ASSUME NEW T, T \subseteq Nat, T # {}
  PROVE  \E x \in T : \A y \in T : x <= y
<1>1. \E x \in T : \A y \in T : ~ (<<y, x>> \in OpToRel(<, Nat))
  BY NatLessThanWellFounded, WFMin
<1>2. \A x, y \in Nat : <<y, x>> \in OpToRel(<, Nat) <=> y < x
  BY DEF OpToRel
<1>3. PICK x \in T : \A y \in T : ~ (<<y, x>> \in OpToRel(<, Nat))
  BY <1>1
<1>4. \A y \in T : ~(y < x)
  BY <1>2, <1>3
<1>5. \A y \in T : x <= y
  BY <1>4
<1> QED  BY <1>5

\* Where something matches there is a first match.
LEMMA FirstExists ==
  ASSUME NEW list, NEW matching, matching \subseteq DOMAIN list,
         DOMAIN list \subseteq Nat, matching # {}
  PROVE  FirstOf(list, matching) # {}
  BY LeastNumber DEF FirstOf

\* The lists that are searched are indexed by numbers.
LEMMA ListsNumbered ==
  ASSUME NEW pos \in Positions
  PROVE  /\ DOMAIN TopTransitions \subseteq Nat
         /\ DOMAIN SubScope(pos) \subseteq Nat
         /\ DOMAIN CommonTransitions \subseteq Nat
<1>1. /\ DOMAIN TopTransitions \subseteq Nat
      /\ DOMAIN CommonTransitions \subseteq Nat
  BY TransitionsAssumption, LenProperties
<1>2. CASE pos.sub = None
  BY <1>1, <1>2 DEF SubScope
<1>3. CASE pos.sub # None
  <2>1. pos.state \in Composites
    BY <1>3 DEF Positions
  <2>2. SubScope(pos) = SubTransitions[pos.state]
    BY <1>3 DEF SubScope
  <2>3. SubTransitions[pos.state] \in Seq(Authored)
    BY <2>1, TransitionsAssumption
  <2> QED  BY <1>1, <2>2, <2>3, LenProperties
<1> QED  BY <1>2, <1>3

\* Within one list, an event is offered if and only if it has a match that is
\* not AUTOMATIC; then it has a first match.
LEMMA OfferedInList ==
  ASSUME NEW list, DOMAIN list \subseteq Nat, NEW source, NEW event, NEW ctx
  PROVE  /\ event \in Offered(list, InScope(list, source, ctx)) =>
              matchIn(list, source, event, ctx) # {}
         /\ \A t \in matchIn(list, source, event, ctx) :
              t.trigger # "AUTOMATIC" =>
                event \in Offered(list, InScope(list, source, ctx))
<1> DEFINE matching == {k \in InScope(list, source, ctx) :
                          list[k].event = event}
<1>1. matching \subseteq DOMAIN list
  BY DEF InScope
<1>2. event \in Offered(list, InScope(list, source, ctx)) => matching # {}
  BY DEF Offered
<1>3. matchIn(list, source, event, ctx) = FirstOf(list, matching)
  BY DEF matchIn
<1>4. \A t \in FirstOf(list, matching) : \E k \in matching : t = list[k]
  BY <1>1, FirstOfList
<1>5. matching # {} => FirstOf(list, matching) # {}
  <2> HIDE DEF matching
  <2> QED  BY <1>1, FirstExists
<1> QED  BY <1>2, <1>3, <1>4, <1>5 DEF Offered

\* Likewise among the common transitions.
LEMMA OfferedInCommon ==
  ASSUME DOMAIN CommonTransitions \subseteq Nat,
         NEW source, NEW event, NEW ctx
  PROVE  /\ event \in Offered(CommonTransitions, CommonInScope(source, ctx))
              => matchCommonTransition(source, event, ctx) # {}
         /\ \A t \in matchCommonTransition(source, event, ctx) :
              t.trigger # "AUTOMATIC" =>
                event \in Offered(CommonTransitions,
                                  CommonInScope(source, ctx))
<1> DEFINE matching == {k \in CommonInScope(source, ctx) :
                          CommonTransitions[k].event = event}
<1>1. matching \subseteq DOMAIN CommonTransitions
  BY DEF CommonInScope
<1>2. event \in Offered(CommonTransitions, CommonInScope(source, ctx))
        => matching # {}
  BY DEF Offered
<1>3. matchCommonTransition(source, event, ctx)
        = {AsTransition(ct, source) : ct \in FirstOf(CommonTransitions,
                                                     matching)}
  BY DEF matchCommonTransition
<1>4. \A ct \in FirstOf(CommonTransitions, matching) :
        \E k \in matching : ct = CommonTransitions[k]
  BY <1>1, FirstOfList
<1>5. matching # {} => FirstOf(CommonTransitions, matching) # {}
  <2> HIDE DEF matching
  <2> QED  BY <1>1, FirstExists
<1>6. \A ct : AsTransition(ct, source).trigger = ct.trigger
  BY DEF AsTransition
<1>7. ASSUME NEW t \in matchCommonTransition(source, event, ctx),
             t.trigger # "AUTOMATIC"
      PROVE  event \in Offered(CommonTransitions, CommonInScope(source, ctx))
  <2>1. PICK ct \in FirstOf(CommonTransitions, matching) :
          t = AsTransition(ct, source)
    BY <1>3
  <2>2. PICK k \in matching : ct = CommonTransitions[k]
    BY <1>4
  <2>3. CommonTransitions[k].trigger # "AUTOMATIC"
    BY <1>6, <1>7, <2>1, <2>2
  <2> QED  BY <2>2, <2>3 DEF Offered
<1> HIDE DEF matching
<1> QED  BY <1>2, <1>3, <1>5, <1>7

\* The search for the events to offer and the search for the transition to
\* fire agree, for every definition, position and context.
LEMMA OffersMatch ==
  ASSUME NEW pos \in Positions, NEW event, NEW ctx
  PROVE  /\ event \in possibleEventsFor(pos, ctx) =>
              findCandidateTransition(pos, event, ctx) # {}
         /\ (\E t \in findCandidateTransition(pos, event, ctx) :
               t.trigger # "AUTOMATIC") =>
              event \in possibleEventsFor(pos, ctx)
<1> DEFINE inner == matchIn(SubScope(pos), pos.sub, event, ctx)
           outer == matchIn(TopTransitions, pos.state, event, ctx)
           common == matchCommonTransition(pos.state, event, ctx)
           offeredInner ==
             event \in Offered(SubScope(pos),
                               InScope(SubScope(pos), pos.sub, ctx))
           offeredOuter ==
             event \in Offered(TopTransitions,
                               InScope(TopTransitions, pos.state, ctx))
           offeredCommon ==
             event \in Offered(CommonTransitions,
                               CommonInScope(pos.state, ctx))
<1>1. /\ offeredInner => inner # {}
      /\ \A t \in inner : t.trigger # "AUTOMATIC" => offeredInner
  BY ListsNumbered, OfferedInList
<1>2. /\ offeredOuter => outer # {}
      /\ \A t \in outer : t.trigger # "AUTOMATIC" => offeredOuter
  BY ListsNumbered, OfferedInList
<1>3. /\ offeredCommon => common # {}
      /\ \A t \in common : t.trigger # "AUTOMATIC" => offeredCommon
  BY ListsNumbered, OfferedInCommon
<1>4. findCandidateTransition(pos, event, ctx)
        = IF inner # {} THEN inner ELSE IF outer # {} THEN outer ELSE common
  BY DEF findCandidateTransition, OrElse
<1>5. event \in possibleEventsFor(pos, ctx)
        <=> offeredInner \/ offeredOuter \/ offeredCommon
  BY DEF possibleEventsFor
<1> HIDE DEF inner, outer, common, offeredInner, offeredOuter, offeredCommon
<1> QED  BY <1>1, <1>2, <1>3, <1>4, <1>5

\* An event offered to a client would fire a transition and every event that a
\* client may send with effect is offered, at every committed state.
THEOREM OffersAreRight == SafeSpec => []OffersWhatMatches
<1>1. IInv => OffersWhatMatches
  <2> SUFFICES ASSUME TypeOK, row # None PROVE OffersWhatMatches
    BY DEF IInv, OffersWhatMatches
  <2>1. row.pos \in Positions
    BY RowUpdates DEF TypeOK
  <2>2. ASSUME NEW event \in Events
        PROVE  /\ event \in possibleEventsFor(row.pos, row.ctx) =>
                    findCandidateTransition(row.pos, event, row.ctx) # {}
               /\ (\E t \in findCandidateTransition(row.pos, event, row.ctx) :
                     t.trigger # "AUTOMATIC") =>
                    event \in possibleEventsFor(row.pos, row.ctx)
    BY <2>1, OffersMatch
  <2> QED  BY <2>2 DEF OffersWhatMatches
<1> QED  BY <1>1, Inductive, PTL

-----------------------------------------------------------------------------
(* A composite remembers the substate it was last left in.                 *)

\* No transition that fires inside a composite leads to that composite: the
\* journey would not tell it from a move inside.
NoSelfEntry ==
  \A pos \in Positions, ctx \in Contexts, event \in Events \cup {None} :
    \A t \in findCandidateTransition(pos, event, ctx)
               \cup findAutomaticTransition(pos, ctx) :
      pos.sub # None => t.target # pos.state

Exits(journey, c) ==
  {n \in 2 .. Len(journey) : /\ journey[n].from.state = c
                             /\ journey[n].to.state # c}

\* A history that recalls the last exit of a journey from each composite.
Recalls(journey, history) ==
  \A c \in Composites :
    \/ Exits(journey, c) = {} /\ history[c] = None
    \/ \E last \in Exits(journey, c) :
         /\ \A m \in Exits(journey, c) : m <= last
         /\ history[c] = journey[last].from.sub

\* The history of the row recalls its journey, and so does the copy's; between
\* leaving and entering, the copy's is ahead by the composite left.
Recalled ==
  /\ row # None => Recalls(row.journey, row.history)
  /\ pc \in {"gate", "apply", "chain", "save"} =>
       Recalls(wf.journey, wf.history)
  /\ pc \in {"fork", "enter"} =>
       \E h \in Histories :
         /\ Recalls(wf.journey, h)
         /\ wf.history = IF wf.pos.state = from.state THEN h
                                                      ELSE Remember(from, h)
  /\ pc \in {"gate", "apply"} =>
       \A t \in tran : wf.pos.sub # None => t.target # wf.pos.state

\* An entry of the journey, and what the composite left then remembers.
LEMMA RecallsExtends ==
  ASSUME NEW journey \in Journeys, Len(journey) > 0,
         NEW p \in Positions, NEW q \in Positions, NEW h \in Histories,
         Recalls(journey, h)
  PROVE  Recalls(Append(journey, Entry(p, q)),
                 IF q.state = p.state THEN h ELSE Remember(p, h))
<1> DEFINE longer == Append(journey, Entry(p, q))
           later == IF q.state = p.state THEN h ELSE Remember(p, h)
           last == Len(journey) + 1
<1>1. Entry(p, q) \in [from : Positions \cup {None}, to : Positions]
      /\ Entry(p, q).from = p /\ Entry(p, q).to = q
  BY DEF Entry
<1>2. /\ Len(longer) = last /\ longer[last] = Entry(p, q)
      /\ \A n \in 1 .. Len(journey) : longer[n] = journey[n]
  BY <1>1, AppendProperties DEF Journeys
<1>3. Len(journey) \in Nat
  BY DEF Journeys
<1> SUFFICES ASSUME NEW c \in Composites
             PROVE  \/ Exits(longer, c) = {} /\ later[c] = None
                    \/ \E n \in Exits(longer, c) :
                         /\ \A m \in Exits(longer, c) : m <= n
                         /\ later[c] = longer[n].from.sub
  BY DEF Recalls
<1> HIDE DEF longer
<1>4. CASE p.state = c /\ q.state # c
  <2>1. Exits(longer, c) = Exits(journey, c) \cup {last}
    BY <1>1, <1>2, <1>3, <1>4 DEF Exits
  <2>2. \A m \in Exits(longer, c) : m <= last
    BY <1>3, <2>1 DEF Exits
  <2>3. p.sub # None
    BY <1>4, StatesAssumption DEF Positions, SubstateIds
  <2>4. later[c] = p.sub
    BY <1>4, <2>3 DEF Remember, Histories
  <2> QED  BY <1>1, <1>2, <2>1, <2>2, <2>4
<1>5. CASE ~(p.state = c /\ q.state # c)
  <2>1. Exits(longer, c) = Exits(journey, c)
    BY <1>1, <1>2, <1>3, <1>5 DEF Exits
  <2>2. later[c] = h[c]
    BY <1>5 DEF Remember, Histories
  <2>3. \A n \in Exits(journey, c) : longer[n] = journey[n]
    BY <1>2, <1>3 DEF Exits
  <2> QED  BY <2>1, <2>2, <2>3 DEF Recalls
<1> QED  BY <1>4, <1>5

\* Every step keeps the histories.
LEMMA RecalledStep ==
  ASSUME NoSelfEntry, TypeOK, Travelled, Recalled, [Next]_vars
  PROVE  Recalled'
<1>1. CASE Beside
  BY <1>1 DEF Beside, Recalled, eventVars
<1>2. CASE Drop
  BY <1>2 DEF Drop, Recalled
<1>3. CASE Take
  <2>1. /\ row # None /\ row \in Rows /\ row' = row /\ wf' = row
        /\ pc' \in {"gate", "apply"}
    BY <1>3 DEF Take, Match, TypeOK
  <2>2. \A t \in tran' : row.pos.sub # None => t.target # row.pos.state
    BY <1>3, <2>1, RowUpdates DEF Take, Match, NoSelfEntry
  <2> QED  BY <2>1, <2>2 DEF Recalled
<1>4. ASSUME NEW t \in tran, ApplyInternal(t) PROVE Recalled'
  <2>1. /\ wf.pos \in Positions /\ wf.journey \in Journeys
        /\ wf.history \in Histories
    BY <1>4, RowUpdates DEF ApplyInternal, TypeOK, Journeys
  <2>2. Len(wf.journey) > 0 /\ Recalls(wf.journey, wf.history)
    BY <1>4 DEF ApplyInternal, Travelled, Path, Recalled
  <2>3. Recalls(wf'.journey, wf'.history)
    BY <1>4, <2>1, <2>2, RecallsExtends, InternalEffect
  <2> QED  BY <1>4, <2>3 DEF ApplyInternal, Recalled
<1>5. ASSUME NEW t \in tran, LeaveSubstate(t) PROVE Recalled'
  <2>1. /\ row' = row /\ pc' = "enter" /\ from' = wf.pos
        /\ wf.history \in Histories /\ Recalls(wf.journey, wf.history)
    BY <1>5, RowUpdates DEF LeaveSubstate, TypeOK, Recalled
  <2>2. Recalls(wf'.journey, wf.history) /\ wf'.history = wf.history
        /\ wf'.pos.state = from'.state
    BY <1>5, <2>1, SubstateEffect
  <2> QED  BY <2>1, <2>2 DEF Recalled
<1>6. ASSUME NEW t \in tran, LeaveState(t) PROVE Recalled'
  <2>1. /\ row' = row /\ pc' \in {"fork", "enter"} /\ from' = wf.pos
        /\ pc = "apply"
    BY <1>6 DEF LeaveState
  <2>2. wf.history \in Histories /\ Recalls(wf.journey, wf.history)
    BY <2>1, RowUpdates DEF TypeOK, Recalled
  <2>3. /\ wf'.journey = wf.journey
        /\ wf'.history = Remember(wf.pos, wf.history)
        /\ wf'.pos.state = t.target
    BY <1>6, StateEffect
  <2>4. wf.pos.sub # None => wf'.pos.state # wf.pos.state
    BY <2>1, <2>3 DEF Recalled
  <2>5. wf'.history = IF wf'.pos.state = from'.state
                      THEN wf.history ELSE Remember(from', wf.history)
    BY <2>1, <2>3, <2>4 DEF Remember
  <2> QED  BY <2>1, <2>2, <2>3, <2>5 DEF Recalled
<1>7. ASSUME NEW t \in tran, EnterState(t) PROVE Recalled'
  <2>1. /\ wf.pos \in Positions /\ wf.journey \in Journeys
        /\ from \in Positions
    BY <1>7, RowUpdates DEF EnterState, TypeOK, Journeys
  <2>2. PICK h \in Histories :
          /\ Recalls(wf.journey, h)
          /\ wf.history = IF wf.pos.state = from.state THEN h
                                                       ELSE Remember(from, h)
    BY <1>7 DEF EnterState, Recalled
  <2>3. Len(wf.journey) > 0
    BY <1>7 DEF EnterState, Travelled, Path
  <2>4. Recalls(wf'.journey, wf'.history)
    BY <1>7, <2>1, <2>2, <2>3, RecallsExtends, EnterEffect
  <2> QED  BY <1>7, <2>4 DEF EnterState, Recalled
<1>8. ASSUME NEW t \in tran, NEW n \in DOMAIN t.forks,
             SpawnChild(t, n) \/ SpawnFails(n)
      PROVE  Recalled'
  BY <1>8 DEF SpawnChild, SpawnFails, Recalled
<1>9. CASE ForkCompletes
  BY <1>9, ForkEffect DEF ForkCompletes, Recalled
<1>10. CASE ChainHop
  <2>1. wf.pos \in Positions /\ wf.ctx \in Contexts
    BY <1>10, WorkingRow DEF ChainHop
  <2>2. \A t \in tran' : wf.pos.sub # None => t.target # wf.pos.state
    BY <1>10, <2>1 DEF ChainHop, NoSelfEntry
  <2> QED  BY <1>10, <2>2 DEF ChainHop, Recalled
<1>11. CASE Gate \/ ChainEnds
  BY <1>11 DEF Gate, ChainEnds, Recalled, eventVars
<1>12. CASE InsertRow
  BY <1>12, InsertEffect DEF InsertRow, Recalled
<1>13. CASE CommitRow
  BY <1>13, CommitEffect DEF CommitRow, Recalled
<1>14. CASE Publish
  BY <1>14 DEF Publish, Recalled
<1> QED  BY <1>1, <1>2, <1>3, <1>4, <1>5, <1>6, <1>7, <1>8, <1>9, <1>10,
            <1>11, <1>12, <1>13, <1>14, StepKinds DEF Forward, Transit

\* Where no transition leads from inside a composite to the composite itself,
\* what a composite remembers is the substate that was active when the
\* instance last left it, by whatever transition and however far the chain
\* went afterwards.
THEOREM HistoryIsRight ==
  ASSUME NoSelfEntry
  PROVE  SafeSpec => []HistoryIsLastLeft
<1>1. Init => Recalled
  <2> SUFFICES ASSUME Init PROVE Recalled
    OBVIOUS
  <2>1. PICK p \in resolveInitialPosition(InitialState) :
          wf = [pos |-> p, ctx |-> InitialContext,
                history |-> [c \in Composites |-> None], gen |-> 0,
                complete |-> FALSE, version |-> 0,
                journey |-> <<Entry(None, p)>>]
    BY DEF Init
  <2>2. \A c \in Composites :
          Exits(wf.journey, c) = {} /\ wf.history[c] = None
    BY <2>1 DEF Exits
  <2>3. Recalls(wf.journey, wf.history)
    BY <2>2 DEF Recalls
  <2> QED  BY <2>3 DEF Init, Recalled
<1>2. IInv /\ Travelled /\ Recalled /\ [Next]_vars => Recalled'
  BY RecalledStep DEF IInv
<1>3. IInv /\ Recalled => HistoryIsLastLeft
  <2> SUFFICES ASSUME TypeOK, Recalled, row # None, NEW c \in Composites
               PROVE  LET exits == Exits(row.journey, c)
                      IN IF exits = {} THEN row.history[c] = None
                         ELSE LET last == CHOOSE n \in exits :
                                            \A m \in exits : m <= n
                              IN row.history[c] = row.journey[last].from.sub
    BY DEF IInv, HistoryIsLastLeft, Exits
  <2> DEFINE exits == Exits(row.journey, c)
             last == CHOOSE n \in exits : \A m \in exits : m <= n
  <2>1. exits \subseteq Int
    BY DEF Exits
  <2>2. CASE exits = {}
    BY <2>2 DEF Recalled, Recalls
  <2>3. CASE exits # {}
    <3>1. PICK n \in exits : /\ \A m \in exits : m <= n
                             /\ row.history[c] = row.journey[n].from.sub
      BY <2>3 DEF Recalled, Recalls
    <3>2. last \in exits /\ \A m \in exits : m <= last
      <4> HIDE DEF exits
      <4> QED  BY <3>1
    <3> HIDE DEF exits, last
    <3>3. last = n
      BY <2>1, <3>1, <3>2
    <3> QED  BY <2>3, <3>1, <3>3 DEF exits, last
  <2> QED  BY <2>2, <2>3
<1> QED  BY <1>1, <1>2, <1>3, Inductive, AlwaysTravelled, PTL DEF SafeSpec

-----------------------------------------------------------------------------
(* A join that leaves its state clears the generation.                     *)

\* No join ends in a substate: only then can it leave the composite's state.
NoLocalJoin ==
  \A t \in Authored \cup Range(CommonTransitions) :
    t.kind = "JOIN" => t.target \notin SubstateIds

\* The transition being applied is one, and a join has cleared the copy's
\* generation by the time it enters its target.
Cleared ==
  /\ \A t, u \in tran : t = u
  /\ \A t \in tran : t.kind = "JOIN" => t.target \notin SubstateIds
  /\ pc = "fork" => \E t \in tran : t.kind = "FORK"
  /\ pc = "enter" /\ (\E t \in tran : t.kind = "JOIN") => wf.gen = 0

\* A list has at most one first match.
LEMMA OneFirst ==
  ASSUME NEW list, DOMAIN list \subseteq Nat,
         NEW matching, matching \subseteq DOMAIN list
  PROVE  \A t, u \in FirstOf(list, matching) : t = u
<1> DEFINE least == {m \in matching : \A n \in matching : m <= n}
<1>1. \A k, m \in least : k = m
  OBVIOUS
<1> QED  BY <1>1 DEF FirstOf

\* An event fires at most one transition.
LEMMA OneCandidate ==
  ASSUME NEW pos \in Positions, NEW event, NEW ctx
  PROVE  \A t, u \in findCandidateTransition(pos, event, ctx) : t = u
<1>1. \A t, u \in matchIn(SubScope(pos), pos.sub, event, ctx) : t = u
  BY ListsNumbered, OneFirst DEF matchIn, InScope
<1>2. \A t, u \in matchIn(TopTransitions, pos.state, event, ctx) : t = u
  BY ListsNumbered, OneFirst DEF matchIn, InScope
<1>3. \A t, u \in matchCommonTransition(pos.state, event, ctx) : t = u
  BY ListsNumbered, OneFirst DEF matchCommonTransition, CommonInScope
<1> QED  BY <1>1, <1>2, <1>3 DEF findCandidateTransition, OrElse

\* So does the automatic chain.
LEMMA OneAutomatic ==
  ASSUME NEW pos \in Positions, NEW ctx
  PROVE  \A t, u \in findAutomaticTransition(pos, ctx) : t = u
<1>1. \A t, u \in matchAutomaticIn(SubScope(pos), pos.sub, ctx) : t = u
  BY ListsNumbered, OneFirst DEF matchAutomaticIn, Immediate, InScope
<1>2. \A t, u \in matchAutomaticIn(TopTransitions, pos.state, ctx) : t = u
  BY ListsNumbered, OneFirst DEF matchAutomaticIn, Immediate, InScope
<1> QED  BY <1>1, <1>2 DEF findAutomaticTransition, OrElse

\* A common transition keeps its kind and its target.
LEMMA CandidateJoins ==
  ASSUME NoLocalJoin, NEW pos \in Positions, NEW event, NEW ctx
  PROVE  \A t \in findCandidateTransition(pos, event, ctx) :
           t.kind = "JOIN" => t.target \notin SubstateIds
<1>1. \A t \in matchIn(SubScope(pos), pos.sub, event, ctx) : t \in Authored
  BY ScopesAuthored, FirstOfList DEF matchIn, InScope
<1>2. \A t \in matchIn(TopTransitions, pos.state, event, ctx) : t \in Authored
  BY ScopesAuthored, FirstOfList DEF matchIn, InScope
<1>3. \A t \in matchCommonTransition(pos.state, event, ctx) :
        t.kind = "JOIN" => t.target \notin SubstateIds
  <2> SUFFICES ASSUME NEW t \in matchCommonTransition(pos.state, event, ctx)
               PROVE  t.kind = "JOIN" => t.target \notin SubstateIds
    OBVIOUS
  <2>1. PICK ct \in FirstOf(CommonTransitions,
                 {k \in CommonInScope(pos.state, ctx) :
                    CommonTransitions[k].event = event}) :
          t = AsTransition(ct, pos.state)
    BY DEF matchCommonTransition
  <2>2. ct \in Range(CommonTransitions)
    BY <2>1, FirstOfList DEF CommonInScope, Range
  <2>3. t.kind = ct.kind /\ t.target = ct.target
    BY <2>1 DEF AsTransition
  <2> QED  BY <2>2, <2>3 DEF NoLocalJoin
<1> QED  BY <1>1, <1>2, <1>3 DEF findCandidateTransition, OrElse, NoLocalJoin

\* A transition whose target is no substate leaves its state.
LEMMA JoinsLeave ==
  ASSUME TypeOK, Cleared, pc = "apply", NEW t \in tran, t.kind = "JOIN"
  PROVE  ~StaysInside(t, wf.pos)
<1>1. wf.pos \in Positions
  BY WorkingRow
<1>2. wf.pos.sub # None => wf.pos.state \in Composites
  BY <1>1 DEF Positions
<1>3. t.target \notin SubstateIds
  BY DEF Cleared
<1> QED  BY <1>2, <1>3 DEF StaysInside, SubstateIds

\* Every step keeps it that way.
LEMMA ClearedStep ==
  ASSUME NoLocalJoin, TypeOK, Cleared, [Next]_vars
  PROVE  Cleared'
<1>1. CASE Beside
  BY <1>1 DEF Beside, Cleared, eventVars
<1>2. CASE Drop
  BY <1>2 DEF Drop, Return, Cleared
<1>3. ASSUME NEW event \in Events \cup {None}, Match(event) PROVE Cleared'
  <2>1. row.pos \in Positions
    BY <1>3, RowUpdates DEF Match, TypeOK
  <2>2. /\ tran' = findCandidateTransition(row.pos, event, row.ctx)
        /\ pc' \in {"gate", "apply"}
    BY <1>3 DEF Match
  <2> QED  BY <2>1, <2>2, OneCandidate, CandidateJoins DEF Cleared
<1>4. ASSUME NEW t \in tran, LeaveSubstate(t) PROVE Cleared'
  <2>1. pc = "apply" /\ pc' = "enter" /\ tran' = tran /\ StaysInside(t, wf.pos)
    BY <1>4 DEF LeaveSubstate
  <2>2. t.kind # "JOIN"
    BY <2>1, JoinsLeave
  <2> QED  BY <2>1, <2>2 DEF Cleared
<1>5. ASSUME NEW t \in tran, LeaveState(t) PROVE Cleared'
  <2>1. /\ tran' = tran
        /\ pc' = IF t.kind = "FORK" THEN "fork" ELSE "enter"
        /\ wf'.gen = IF t.kind # "FORK" /\ IsJoin(t) THEN 0 ELSE wf.gen
    BY <1>5, StateEffect DEF LeaveState
  <2>2. t.kind = "JOIN" => pc' = "enter" /\ wf'.gen = 0
    BY <2>1 DEF IsJoin
  <2> QED  BY <2>1, <2>2 DEF Cleared
<1>6. ASSUME NEW t \in tran, ApplyInternal(t) \/ EnterState(t) PROVE Cleared'
  BY <1>6 DEF ApplyInternal, EnterState, Cleared
<1>7. ASSUME NEW t \in tran, NEW n \in DOMAIN t.forks,
             SpawnChild(t, n) \/ SpawnFails(n)
      PROVE  Cleared'
  BY <1>7 DEF SpawnChild, SpawnFails, Cleared
<1>8. CASE ForkCompletes
  <2>1. pc = "fork" /\ pc' = "enter" /\ tran' = tran
    BY <1>8 DEF ForkCompletes
  <2>2. \A t \in tran : t.kind # "JOIN"
    BY <2>1 DEF Cleared
  <2> QED  BY <2>1, <2>2 DEF Cleared
<1>9. CASE ChainHop
  <2>1. wf.pos \in Positions
    BY <1>9, WorkingRow DEF ChainHop
  <2>2. /\ tran' = findAutomaticTransition(wf.pos, wf.ctx)
        /\ pc' \notin {"enter", "fork"}
    BY <1>9 DEF ChainHop
  <2>3. \A t \in tran' : t \in Authored
    BY <2>1, <2>2, AutomaticIsAuthored
  <2> QED  BY <2>1, <2>2, <2>3, OneAutomatic DEF Cleared, NoLocalJoin
<1>10. CASE Gate \/ ChainEnds
  BY <1>10 DEF Gate, ChainEnds, Cleared, eventVars
<1>11. CASE InsertRow \/ CommitRow \/ Publish
  BY <1>11 DEF InsertRow, CommitRow, Publish, Return, Cleared
<1> QED  BY <1>1, <1>2, <1>3, <1>4, <1>5, <1>6, <1>7, <1>8, <1>9, <1>10,
            <1>11, StepKinds DEF Take, Forward, Transit

\* persistence/others.go:62: the pending generation is "cleared when the
\* matching Join transition fires", in every definition none of whose joins
\* ends in a substate, however the join is reached (an event, an attempt, a
\* common transition, the chain).
THEOREM JoinsClear ==
  ASSUME NoLocalJoin
  PROVE  SafeSpec => []JoinClearsGeneration
<1>1. Init => Cleared
  BY DEF Init, Cleared
<1>2. IInv /\ Cleared /\ [Next]_vars => Cleared'
  BY ClearedStep DEF IInv
<1>3. Cleared => JoinClearsGeneration
  BY DEF Cleared, JoinClearsGeneration
<1> QED  BY <1>1, <1>2, <1>3, Inductive, PTL DEF SafeSpec
=============================================================================
