------------------------------ MODULE Instance ------------------------------
(***************************************************************************)
(* One workflow instance: its row in the database, the actor that runs     *)
(* processEvent on it (one event at a time: Dispatcher!SerialPerInstance), *)
(* its child instances and the attemptAutoJoin goroutines their completion *)
(* starts (engine/workflow_ops.go, transitions.go, children.go,            *)
(* autojoin.go).  An event is split where another goroutine, or a crash,   *)
(* can come between two of its effects; wf is processEvent's local copy,   *)
(* so an error is a return to "idle" with the row as it was.               *)
(* Timers and do-activities, which only read the position, are apart.      *)
(***************************************************************************)
EXTENDS Transitions, FiniteSets

CONSTANTS
  Scripted,        \* ids of the states that have exit or entry actions
  InitialContext,  \* the empty context map
  ChildDefs,       \* child workflow definitions
  BornComplete,    \* those whose States[0] is one of their end states
  IsChild,         \* this instance is itself created as a child
  MaxHops,         \* maxAutomaticHops (100 in the code)
  MaxVersion,      \* bound: client events stop at this version
  MaxForks,        \* bound: the forks that client events try
  MaxKids,         \* bound: children this instance ever gets
  MaxAttempts,     \* bound: attemptAutoJoin goroutines at a time
  MaxCrashes       \* bound: crashes of the process

ASSUME InstanceAssumption ==
  /\ MaxHops \in Nat \ {0} /\ MaxVersion \in Nat /\ MaxForks \in Nat
  /\ MaxKids \in Nat /\ MaxAttempts \in Nat /\ MaxCrashes \in Nat
  /\ IsChild \in BOOLEAN
  /\ InitialContext \in Contexts /\ BornComplete \subseteq ChildDefs
  /\ resolveInitialPosition(InitialState) # {}

\* What the row of an instance holds.
Rows ==
  [pos : Positions, ctx : Contexts, gen : Nat, complete : BOOLEAN,
   history : [Composites -> SubstateIds \cup {None}], version : Nat,
   journey : Seq([from : Positions \cup {None}, to : Positions])]

ASSUME NoneAssumption == None \notin Rows \cup Positions

VARIABLES
  row,        \* the committed row, None before the insert
  wf,         \* processEvent's, or the creation's, copy of it, or None
  pc,         \* where processEvent, or the creation, is
  tran,       \* {the transition being applied}
  from,       \* the position it leaves
  hops,       \* automatic transitions chained so far
  forking,    \* the fork's generation, regions left to insert, and outcome
  kids,       \* Seq of child rows
  gens,       \* fork generations ever drawn (uuid.New never repeats)
  attempts,   \* [1 .. MaxAttempts -> an attemptAutoJoin goroutine]
  published,  \* the last event on this instance's bus topic, if any
  crashes

eventVars == <<wf, tran, from, hops, forking>>
vars == <<row, wf, pc, tran, from, hops, forking, kids, gens, attempts,
          published, crashes>>

Stages == {"idle", "gate", "apply", "fork", "enter", "chain", "save",
           "publish", "failed"}
NoFork == [gen |-> 0, todo |-> {}, failed |-> FALSE]
NoAttempt == [stage |-> "none", gen |-> 0, event |-> None]

\* A goroutine that starts at a child's completion, before it reads anything.
NewAttempt == [NoAttempt EXCEPT !.stage = "read"]

Entry(p, q) == [from |-> p, to |-> q]

Init ==
  /\ row = None
  /\ \E p \in resolveInitialPosition(InitialState) :
       wf = [pos |-> p, ctx |-> InitialContext,
             history |-> [c \in Composites |-> None], gen |-> 0,
             complete |-> FALSE, version |-> 0,
             journey |-> <<Entry(None, p)>>]
  /\ pc = IF IsChild THEN "save" ELSE "chain"
  /\ tran = {}
  /\ from = None
  /\ hops = 0
  /\ forking = NoFork
  /\ kids = <<>>
  /\ gens = 0
  /\ attempts = [a \in 1 .. MaxAttempts |-> NoAttempt]
  /\ published = None
  /\ crashes = 0

-----------------------------------------------------------------------------
(* Children, as their own actors and the API change them.                  *)

Open(k) == ~kids[k].complete /\ ~kids[k].withdrawn

InCohort(k, gen) == gen = 0 \/ kids[k].gen = gen

\* allChildrenComplete; generation 0 (the empty string) counts every child.
ChildrenComplete(gen) == \A k \in DOMAIN kids : InCohort(k, gen) => ~Open(k)

NewKid(gen, def) ==
  Append(kids, [gen |-> gen, complete |-> def \in BornComplete,
                withdrawn |-> FALSE, overtaken |-> FALSE])

\* Mutant: an ad hoc child is stamped with the parent's pending generation.
AdHocChildStamped(def) ==
  /\ row # None
  /\ Len(kids) < MaxKids
  /\ kids' = NewKid(row.gen, def)
  /\ UNCHANGED <<row, eventVars, pc, gens, attempts, published, crashes>>

\* createChildWorkflowInstance for a client or a CreateChildWorkflowAction:
\* the row is read and the child inserted outside any transaction.
AdHocChild(def) ==
  /\ row # None
  /\ Len(kids) < MaxKids
  /\ kids' = NewKid(0, def)
  /\ UNCHANGED <<row, eventVars, pc, gens, attempts, published, crashes>>

\* A child's own processEvent commits: every event decides anew whether the
\* child is complete, an event in an end state included, and a child that
\* becomes complete starts an attempt.  An event that has loaded the row of a
\* child before it was withdrawn saves it whole: the child is back.
KidCommits(k, complete) ==
  /\ kids[k].withdrawn => kids[k].overtaken
  /\ kids' = [kids EXCEPT ![k].complete = complete, ![k].withdrawn = FALSE,
                          ![k].overtaken = FALSE]
  /\ IF complete /\ ~kids[k].complete
     THEN \E a \in DOMAIN attempts :
            /\ attempts[a].stage = "none"
            /\ \A b \in 1 .. a - 1 : attempts[b].stage # "none"
            /\ attempts' = [attempts EXCEPT ![a] = NewAttempt]
     ELSE UNCHANGED attempts
  /\ UNCHANGED <<row, eventVars, pc, gens, published, crashes>>

\* WithdrawChildWorkflowInstance, which an event of the child may overtake; no
\* attempt is started.
WithdrawKid(k, overtaken) ==
  /\ ~kids[k].withdrawn
  /\ kids' = [kids EXCEPT ![k].withdrawn = TRUE, ![k].overtaken = overtaken]
  /\ UNCHANGED <<row, eventVars, pc, gens, attempts, published, crashes>>

-----------------------------------------------------------------------------
(* attemptAutoJoin: read the row, count the children, send the event.      *)

AttemptReads(a) ==
  /\ attempts[a].stage = "read"
  /\ LET ready == {t \in findPendingJoinTransition(row.pos) :
                     row.ctx \in t.guard}
     IN attempts' = [attempts EXCEPT ![a] =
          IF ready = {} THEN NoAttempt
          ELSE [stage |-> "count", gen |-> row.gen,
                event |-> (CHOOSE t \in ready : TRUE).event]]
  /\ UNCHANGED <<row, eventVars, pc, kids, gens, published, crashes>>

AttemptCounts(a) ==
  /\ attempts[a].stage = "count"
  /\ attempts' = [attempts EXCEPT ![a] =
       IF ChildrenComplete(@.gen) THEN [@ EXCEPT !.stage = "sent"]
                                  ELSE NoAttempt]
  /\ UNCHANGED <<row, eventVars, pc, kids, gens, published, crashes>>

-----------------------------------------------------------------------------
(* processEvent, and NewWorkflowInstance which shares its chain.           *)

\* The local variables of processEvent go out of scope.
Return == /\ wf' = None
          /\ tran' = {}
          /\ from' = None
          /\ hops' = 0
          /\ forking' = NoFork

\* An error: the transaction rolls back, or the creation gives up.
Fail == /\ pc' = IF row = None THEN "failed" ELSE "idle"
        /\ Return
        /\ UNCHANGED <<row, kids, gens, attempts, published, crashes>>

\* Load the row and match the event; a join has to pass the gate.
Match(event) ==
  /\ pc = "idle"
  /\ row # None
  /\ findCandidateTransition(row.pos, event, row.ctx) # {}
  /\ tran' = findCandidateTransition(row.pos, event, row.ctx)
  /\ wf' = row
  /\ pc' = IF \E t \in tran' : IsJoin(t) THEN "gate" ELSE "apply"
  /\ UNCHANGED <<row, from, hops, forking, kids, gens, published, crashes>>

\* An event that matches no transition is an error and changes nothing.
ReceiveClientEvent(event) ==
  /\ Match(event)
  /\ row.version < MaxVersion
  /\ (\E t \in tran' : t.kind = "FORK") => gens < MaxForks
  /\ UNCHANGED attempts

\* The event that an attempt sent reaches the head of the mailbox.
ReceiveJoinEvent(a) ==
  /\ attempts[a].stage = "sent"
  /\ Match(attempts[a].event)
  /\ attempts' = [attempts EXCEPT ![a] = NoAttempt]

JoinEventMatchesNothing(a) ==
  /\ attempts[a].stage = "sent"
  /\ pc = "idle"
  /\ findCandidateTransition(row.pos, attempts[a].event, row.ctx) = {}
  /\ attempts' = [attempts EXCEPT ![a] = NoAttempt]
  /\ UNCHANGED <<row, eventVars, pc, kids, gens, published, crashes>>

\* Mutant: the join is let through unchecked.
GateUnchecked ==
  /\ pc = "gate"
  /\ pc' = "apply"
  /\ UNCHANGED <<row, eventVars, kids, gens, attempts, published, crashes>>

\* The join gate, read on a connection of its own.
Gate ==
  /\ pc = "gate"
  /\ ChildrenComplete(wf.gen)
  /\ pc' = "apply"
  /\ UNCHANGED <<row, eventVars, kids, gens, attempts, published, crashes>>

\* Mutant: the gate waits for the children, and the actor with it.
GateWaits ==
  /\ pc = "gate"
  /\ ~ChildrenComplete(wf.gen)
  /\ UNCHANGED vars

GateCloses ==
  /\ pc = "gate"
  /\ ~ChildrenComplete(wf.gen)
  /\ Fail

\* What a context map may be once the actions of some states, or a
\* transition, have run on it.
After(hasActions, ctx) == IF hasActions THEN Contexts ELSE {ctx}

\* An INTERNAL transition neither leaves nor enters anything.
ApplyInternal(t) ==
  /\ pc = "apply"
  /\ t.kind = "INTERNAL"
  /\ \E ctx \in After(t.scripted, wf.ctx) :
       wf' = [wf EXCEPT !.ctx = ctx,
                        !.journey = Append(@, Entry(wf.pos, wf.pos))]
  /\ pc' = "chain"
  /\ UNCHANGED <<row, tran, from, hops, forking, kids, gens, attempts,
                 published, crashes>>

\* Mutant: a composite keeps what it remembered first.
RememberFirst(pos, history) ==
  IF pos.sub = None \/ history[pos.state] # None THEN history
  ELSE [history EXCEPT ![pos.state] = pos.sub]

\* The substate a composite remembers once the instance leaves it.
Remember(pos, history) ==
  IF pos.sub = None THEN history ELSE [history EXCEPT ![pos.state] = pos.sub]

\* A local transition: only the substate is left, and neither a fork nor a
\* join has any further effect.
LeaveSubstate(t) ==
  /\ pc = "apply"
  /\ t.kind # "INTERNAL"
  /\ StaysInside(t, wf.pos)
  /\ \E ctx \in After(wf.pos.sub \in Scripted, wf.ctx) :
       wf' = [wf EXCEPT !.ctx = ctx, !.pos.sub = t.target]
  /\ from' = wf.pos
  /\ pc' = "enter"
  /\ UNCHANGED <<row, tran, hops, forking, kids, gens, attempts, published,
                 crashes>>

\* Any other transition leaves the state; a join then clears the generation,
\* a fork draws a new one.
LeaveState(t) ==
  /\ pc = "apply"
  /\ t.kind # "INTERNAL"
  /\ ~StaysInside(t, wf.pos)
  /\ \E history \in {Remember(wf.pos, wf.history)} :
     \E ctx \in After({wf.pos.state, wf.pos.sub} \cap Scripted # {}, wf.ctx),
        p \in resolveTarget(t, history) :
       wf' = [wf EXCEPT !.ctx = ctx, !.pos = p, !.history = history,
                        !.gen = IF t.kind # "FORK" /\ IsJoin(t) THEN 0 ELSE @]
  /\ from' = wf.pos
  /\ IF t.kind = "FORK"
     THEN /\ t.forks # <<>>
          /\ gens' = gens + 1
          /\ forking' = [gen |-> gens', todo |-> DOMAIN t.forks,
                         failed |-> FALSE]
          /\ pc' = "fork"
     ELSE /\ pc' = "enter"
          /\ UNCHANGED <<forking, gens>>
  /\ UNCHANGED <<row, tran, hops, kids, attempts, published, crashes>>

\* applyTransition returns an error before it has had an effect of its own.
ApplyFails(t) ==
  /\ pc = "apply"
  /\ \/ t.kind = "INTERNAL" /\ t.scripted
     \/ /\ t.kind # "INTERNAL"
        /\ \/ wf.pos.sub \in Scripted
           \/ /\ ~StaysInside(t, wf.pos)
              /\ \/ wf.pos.state \in Scripted
                 \/ resolveTarget(t, Remember(wf.pos, wf.history)) = {}
                 \/ t.kind = "FORK" /\ t.forks = <<>>
  /\ Fail

\* The fork's children are inserted one by one, each in a transaction of its
\* own and visible at once, in any order; an insert may fail, and has to when
\* the parent has no row yet.
SpawnChild(t, n) ==
  /\ pc = "fork"
  /\ n \in forking.todo
  /\ row # None
  /\ Len(kids) < MaxKids
  /\ kids' = NewKid(forking.gen, t.forks[n])
  /\ forking' = [forking EXCEPT !.todo = @ \ {n}]
  /\ UNCHANGED <<row, wf, pc, tran, from, hops, gens, attempts, published,
                 crashes>>

SpawnFails(n) ==
  /\ pc = "fork"
  /\ n \in forking.todo
  /\ forking' = [forking EXCEPT !.todo = @ \ {n}, !.failed = TRUE]
  /\ UNCHANGED <<row, wf, pc, tran, from, hops, kids, gens, attempts,
                 published, crashes>>

\* Mutant: the batch's error is not looked at.
ForkCompletesAnyway ==
  /\ pc = "fork"
  /\ forking.todo = {}
  /\ wf' = [wf EXCEPT !.gen = forking.gen]
  /\ pc' = "enter"
  /\ UNCHANGED <<row, tran, from, hops, forking, kids, gens, attempts,
                 published, crashes>>

ForkCompletes ==
  /\ pc = "fork"
  /\ forking.todo = {} /\ ~forking.failed
  /\ wf' = [wf EXCEPT !.gen = forking.gen]
  /\ pc' = "enter"
  /\ UNCHANGED <<row, tran, from, hops, forking, kids, gens, attempts,
                 published, crashes>>

ForkFails ==
  /\ pc = "fork"
  /\ forking.todo = {} /\ forking.failed
  /\ Fail

\* The actions an entry runs: the new state's unless the transition was
\* local, the new substate's, the transition's own.
EntryScripted(t) ==
  \/ t.scripted \/ wf.pos.sub \in Scripted
  \/ ~StaysInside(t, from) /\ wf.pos.state \in Scripted

\* Mutant: the journey entry names the position the row was loaded in.
EnterStateFromRow(t) ==
  /\ pc = "enter"
  /\ \E ctx \in After(EntryScripted(t), wf.ctx) :
       wf' = [wf EXCEPT !.ctx = ctx,
                        !.journey = Append(@, Entry(row.pos, wf.pos))]
  /\ pc' = "chain"
  /\ UNCHANGED <<row, tran, from, hops, forking, kids, gens, attempts,
                 published, crashes>>

EnterState(t) ==
  /\ pc = "enter"
  /\ \E ctx \in After(EntryScripted(t), wf.ctx) :
       wf' = [wf EXCEPT !.ctx = ctx,
                        !.journey = Append(@, Entry(from, wf.pos))]
  /\ pc' = "chain"
  /\ UNCHANGED <<row, tran, from, hops, forking, kids, gens, attempts,
                 published, crashes>>

EnterFails(t) ==
  /\ pc = "enter"
  /\ EntryScripted(t)
  /\ Fail

\* Mutant: one automatic transition more than the limit.
ChainHopOnceMore ==
  /\ pc = "chain"
  /\ hops <= MaxHops
  /\ findAutomaticTransition(wf.pos, wf.ctx) # {}
  /\ tran' = findAutomaticTransition(wf.pos, wf.ctx)
  /\ hops' = hops + 1
  /\ pc' = "apply"
  /\ UNCHANGED <<row, wf, from, forking, kids, gens, attempts, published,
                 crashes>>

\* Mutant: the hops are not counted.
ChainHopUncounted ==
  /\ pc = "chain"
  /\ hops < MaxHops
  /\ findAutomaticTransition(wf.pos, wf.ctx) # {}
  /\ tran' = findAutomaticTransition(wf.pos, wf.ctx)
  /\ pc' = "apply"
  /\ UNCHANGED <<row, wf, from, hops, forking, kids, gens, attempts, published,
                 crashes>>

\* runAutomaticChain: the hop limit is checked before the next match.
ChainHop ==
  /\ pc = "chain"
  /\ hops < MaxHops
  /\ findAutomaticTransition(wf.pos, wf.ctx) # {}
  /\ tran' = findAutomaticTransition(wf.pos, wf.ctx)
  /\ hops' = hops + 1
  /\ pc' = "apply"
  /\ UNCHANGED <<row, wf, from, forking, kids, gens, attempts, published,
                 crashes>>

\* Mutant: automatic transitions do not chain.
ChainEndsAfterOne ==
  /\ pc = "chain"
  /\ hops < MaxHops
  /\ hops > 0 \/ findAutomaticTransition(wf.pos, wf.ctx) = {}
  /\ pc' = "save"
  /\ UNCHANGED <<row, eventVars, kids, gens, attempts, published, crashes>>

ChainEnds ==
  /\ pc = "chain"
  /\ hops < MaxHops
  /\ findAutomaticTransition(wf.pos, wf.ctx) = {}
  /\ pc' = "save"
  /\ UNCHANGED <<row, eventVars, kids, gens, attempts, published, crashes>>

ChainTooLong ==
  /\ pc = "chain"
  /\ hops >= MaxHops
  /\ Fail

\* The insert of a new instance, which publishes nothing ...
InsertRow ==
  /\ pc = "save"
  /\ row = None
  /\ row' = [wf EXCEPT !.complete = isEndState(wf.pos)]
  /\ pc' = "idle"
  /\ Return
  /\ UNCHANGED <<kids, gens, attempts, published, crashes>>

\* Mutant: the version is not bumped.
CommitRowSameVersion ==
  /\ pc = "save"
  /\ row # None
  /\ wf' = [wf EXCEPT !.complete = isEndState(wf.pos)]
  /\ row' = wf'
  /\ pc' = "publish"
  /\ UNCHANGED <<tran, from, hops, forking, kids, gens, attempts, published,
                 crashes>>

\* ... and the commit of a processed event.
CommitRow ==
  /\ pc = "save"
  /\ row # None
  /\ wf' = [wf EXCEPT !.complete = isEndState(wf.pos), !.version = @ + 1]
  /\ row' = wf'
  /\ pc' = "publish"
  /\ UNCHANGED <<tran, from, hops, forking, kids, gens, attempts, published,
                 crashes>>

\* Mutant: the new state is published even if the commit failed.
DatabaseFailsPublished ==
  /\ pc = "save"
  /\ row # None
  /\ published' = [pos |-> wf.pos, version |-> wf.version + 1]
  /\ pc' = "idle"
  /\ Return
  /\ UNCHANGED <<row, kids, gens, attempts, crashes>>

\* The database refuses a read of the gate, the insert or the commit.
DatabaseFails ==
  /\ pc \in {"gate", "save"}
  /\ Fail

\* The deferred function: publishTransition of the committed row.
Publish ==
  /\ pc = "publish"
  /\ published' = [pos |-> wf.pos, version |-> wf.version]
  /\ pc' = "idle"
  /\ Return
  /\ UNCHANGED <<row, kids, gens, attempts, crashes>>

\* The process dies: goroutines, the children's too, and subscriptions are
\* gone, rows are not.
Crash ==
  /\ crashes < MaxCrashes
  /\ row # None
  /\ crashes' = crashes + 1
  /\ pc' = "idle"
  /\ Return
  /\ attempts' = [a \in 1 .. MaxAttempts |-> NoAttempt]
  /\ kids' = [k \in DOMAIN kids |-> [kids[k] EXCEPT !.overtaken = FALSE]]
  /\ published' = None
  /\ UNCHANGED <<row, gens>>

-----------------------------------------------------------------------------
\* What moves an event, or the creation, forward; what breaks it off.
Transit(t) ==
  \/ ApplyInternal(t) \/ LeaveSubstate(t) \/ LeaveState(t) \/ EnterState(t)
  \/ \E n \in DOMAIN t.forks : SpawnChild(t, n)

Break(t) ==
  \/ ApplyFails(t) \/ EnterFails(t)
  \/ \E n \in DOMAIN t.forks : SpawnFails(n)

\* An event comes to its end by itself, be it an error; what the database
\* refuses is apart.
Advance ==
  \/ \E t \in tran : Transit(t) \/ Break(t)
  \/ Gate \/ GateCloses \/ ForkCompletes \/ ForkFails
  \/ ChainHop \/ ChainEnds \/ ChainTooLong
  \/ InsertRow \/ CommitRow \/ Publish

AttemptStep(a) ==
  \/ AttemptReads(a) \/ AttemptCounts(a)
  \/ ReceiveJoinEvent(a) \/ JoinEventMatchesNothing(a)

ChildStep ==
  \/ \E k \in DOMAIN kids, flag \in BOOLEAN :
       KidCommits(k, flag) \/ WithdrawKid(k, flag)
  \/ \E def \in ChildDefs : AdHocChild(def)

\* All that happens while the database and the process hold.
QuietNext == \/ \E event \in Events : ReceiveClientEvent(event)
             \/ Advance
             \/ \E a \in 1 .. MaxAttempts : AttemptStep(a)
             \/ ChildStep

Next == QuietNext \/ DatabaseFails \/ Crash

SafeSpec == Init /\ [][Next]_vars

\* The actor and the attempts run; the mailbox is FIFO, so that clients never
\* starve a join event (Dispatcher!AcceptedIsProcessed).
Fairness == /\ WF_vars(Advance)
            /\ \A a \in 1 .. MaxAttempts : SF_vars(AttemptStep(a))

Spec == SafeSpec /\ Fairness

QuietSpec == Init /\ [][QuietNext]_vars /\ Fairness

-----------------------------------------------------------------------------
(* Properties.                                                             *)

Kids == [gen : Nat, complete : BOOLEAN, withdrawn : BOOLEAN,
         overtaken : BOOLEAN]

Attempts == [stage : {"none", "read", "count", "sent"}, gen : Nat,
             event : Events \cup {None}]

\* Every variable stays within its declared set; in particular the instance
\* is always in a state of its definition, with an active substate exactly in
\* a composite, whatever the targets and the remembered substates.
TypeOK ==
  /\ row \in Rows \cup {None}
  /\ wf \in Rows \cup {None}
  /\ pc \in Stages
  /\ pc \in {"idle", "publish"} => row \in Rows
  /\ pc \notin {"idle", "failed"} => wf \in Rows
  /\ from \in Positions \cup {None}
  /\ pc \in {"fork", "enter"} => from \in Positions
  /\ \A t \in tran : IsTransition(t)
  /\ hops \in 0 .. MaxHops
  /\ gens \in Nat
  /\ forking \in [gen : 0 .. gens, todo : SUBSET Nat, failed : BOOLEAN]
  /\ kids \in Seq(Kids)
  /\ attempts \in [1 .. MaxAttempts -> Attempts]
  /\ published = None \/ published.pos \in Positions
  /\ crashes \in 0 .. MaxCrashes

\* A persisted instance never rests where an AUTOMATIC transition is enabled,
\* and its complete flag says whether it rests in an end state.
Settled ==
  row # None => /\ findAutomaticTransition(row.pos, row.ctx) = {}
                /\ row.complete = isEndState(row.pos)

\* The persisted journey is a path: each entry leaves the position that the
\* one before it entered, and the last one enters the current position.
JourneyConnected ==
  row # None =>
    /\ row.journey[Len(row.journey)].to = row.pos
    /\ \A n \in 2 .. Len(row.journey) :
         row.journey[n].from = row.journey[n - 1].to

\* What a composite remembers is the substate that was active when the
\* instance last left it, by the persisted journey (no transition of the
\* definition leads from inside a composite to the composite itself).
HistoryIsLastLeft ==
  row # None =>
    \A c \in Composites :
      LET exits == {n \in 2 .. Len(row.journey) :
                      /\ row.journey[n].from.state = c
                      /\ row.journey[n].to.state # c}
      IN IF exits = {} THEN row.history[c] = None
         ELSE LET last == CHOOSE n \in exits : \A m \in exits : m <= n
              IN row.history[c] = row.journey[last].from.sub

\* How many children of a generation there are, withdrawn ones included.
Cohort(gen) == Cardinality({k \in DOMAIN kids : kids[k].gen = gen})

\* A generation that a row records has all its children: a fork whose batch
\* failed half-way, or that was rolled back, is never waited for.
CohortIntact ==
  row # None /\ row.gen # 0 =>
    \E t \in Authored : t.kind = "FORK" /\ Cohort(row.gen) = Len(t.forks)

\* What the parent waits for, and the fork in progress, as others can tell: a
\* fork counts from the commit on.
WaitingFor == IF row = None THEN 0 ELSE row.gen
Gathering == IF pc = "publish" THEN 0 ELSE forking.gen
ForkSizes == {Len(t.forks) : t \in {u \in Authored : u.kind = "FORK"}}
Children == [k \in DOMAIN kids |-> [gen |-> kids[k].gen, open |-> Open(k)]]

\* The event in progress has passed the gate for a join, and has not turned
\* out to leave the generation as it is.
Seen == /\ wf # None
        /\ WaitingFor # 0
        /\ wf.gen = 0 \/ (pc = "apply" /\ \E t \in tran : IsJoin(t))

Forks == INSTANCE ForkJoin WITH waiting <- WaitingFor, gathering <- Gathering,
                                seen <- Seen, kids <- Children,
                                Sizes <- ForkSizes

\* Through errors between any two steps, rollbacks that leave children behind,
\* crashes, chains, and children that complete, reopen, are withdrawn, come
\* back or are created by anyone at any time, forks and joins are those of
\* ForkJoin: a generation that is waited for is new, has a child for each
\* target, never gets another one, and is waited for until the event that
\* joins it has seen all of them done (no join of the definition is
\* AUTOMATIC).
ImplementsForkJoin == Forks!Spec

\* Subscribers are told of commits only, in order, and of the position that
\* was committed.
NoPhantomEvent ==
  published # None =>
    /\ published.version <= row.version
    /\ published.version = row.version => published.pos = row.pos

\* The events processed extend the journey: none is lost or overwritten.
JourneyOnlyGrows ==
  [][row # None =>
       /\ row'.version = row.version + 1
       /\ Len(row'.journey) > Len(row.journey)
       /\ SubSeq(row'.journey, 1, Len(row.journey)) = row.journey]_row

\* The events offered to a client are those that would fire a transition, but
\* for the events that only AUTOMATIC transitions answer to: the two searches
\* of workflow_ops.go and transitions.go agree on scopes and guards.
OffersWhatMatches ==
  row # None =>
    \A event \in Events :
      LET fired == findCandidateTransition(row.pos, event, row.ctx)
          offered == event \in possibleEventsFor(row.pos, row.ctx)
      IN /\ offered => fired # {}
         /\ (\E t \in fired : t.trigger # "AUTOMATIC") => offered

\* No cycle of completion transitions gets past the limit: an event that is
\* committed, and the creation, add at most MaxHops entries to the journey.
ChainBounded ==
  [][row' # None =>
       Len(row'.journey) <= MaxHops + (IF row = None THEN 0
                                       ELSE Len(row.journey))]_row

\* Every event, and the creation, comes to an end although the database never
\* has to fail: no cycle of completion transitions runs for ever, no fork
\* waits for its batch, and no join waits for its children.
EventsReturn == pc \notin {"idle", "failed"} ~> pc \in {"idle", "failed"}

\* The instance waits for generation g, every child of it is done, and a
\* client that sent the right event would make the join fire.
JoinReady(g) ==
  /\ row # None
  /\ row.gen = g
  /\ \E event \in Events :
       \E t \in findCandidateTransition(row.pos, event, row.ctx) : IsJoin(t)
  /\ ChildrenComplete(g)

\* A child that completes while the join is ready makes it fire with no client
\* asking for it, be the join a transition of a substate or of a state (no
\* state has two of them, and none is common to several states: attempts do not
\* look there), whatever clients, other attempts and children do meanwhile,
\* unless one of them makes it not ready.  A join that becomes ready later than
\* the last completion, because the parent was elsewhere or its fork not
\* committed, or because a child was withdrawn, waits for a client: an attempt
\* that reads no ready join ends.
AutoJoinFires ==
  \A g \in 1 .. MaxForks :
    (JoinReady(g) /\ \E a \in DOMAIN attempts : attempts[a].stage = "read")
      ~> ~JoinReady(g)

-----------------------------------------------------------------------------
(* What the documentation says of the program and the code does not do.    *)

\* persistence/others.go: the pending generation is "cleared when the matching
\* Join transition fires" (not by a join inside a composite).
JoinClearsGeneration ==
  pc = "enter" /\ (\E t \in tran : t.kind = "JOIN") => wf.gen = 0
=============================================================================
