-------------------------- MODULE Instance_proofs --------------------------
(***************************************************************************)
(* Proofs about Instance for every workflow definition that satisfies the  *)
(* assumptions of Transitions.                                             *)
(***************************************************************************)
EXTENDS Instance, SequenceTheorems, TLAPS

-----------------------------------------------------------------------------
(* The searches over a definition.                                         *)

\* A first match is one of the list.
LEMMA FirstOfList ==
  ASSUME NEW list, NEW matching, matching \subseteq DOMAIN list
  PROVE  \A t \in FirstOf(list, matching) :
           \E k \in matching : t = list[k]
  BY DEF FirstOf

\* The transitions in scope of a position are transitions of the definition.
LEMMA ScopesAuthored ==
  ASSUME NEW pos \in Positions
  PROVE  /\ \A k \in DOMAIN TopTransitions : TopTransitions[k] \in Authored
         /\ \A k \in DOMAIN SubScope(pos) : SubScope(pos)[k] \in Authored
<1>1. \A k \in DOMAIN TopTransitions : TopTransitions[k] \in Authored
  BY DEF Authored, Range
<1>2. CASE pos.sub = None
  <2>1. DOMAIN SubScope(pos) = {}
    BY <1>2 DEF SubScope
  <2> QED  BY <1>1, <2>1
<1>3. CASE pos.sub # None
  <2>1. pos.state \in Composites
    BY <1>3 DEF Positions
  <2>2. SubScope(pos) = SubTransitions[pos.state]
    BY <1>3 DEF SubScope
  <2> QED  BY <1>1, <2>1, <2>2 DEF Authored, Range
<1> QED  BY <1>2, <1>3

\* What an event fires is a transition of the definition, or a common one,
\* which has no fork targets.
LEMMA CandidateIsTransition ==
  ASSUME NEW pos \in Positions, NEW event, NEW ctx
  PROVE  \A t \in findCandidateTransition(pos, event, ctx) :
           IsTransition(t) /\ (t \in Authored \/ t.forks = <<>>)
<1>1. \A t \in matchIn(SubScope(pos), pos.sub, event, ctx) : t \in Authored
  BY ScopesAuthored, FirstOfList DEF matchIn, InScope
<1>2. \A t \in matchIn(TopTransitions, pos.state, event, ctx) : t \in Authored
  BY ScopesAuthored, FirstOfList DEF matchIn, InScope
<1>3. \A t \in matchCommonTransition(pos.state, event, ctx) :
        IsTransition(t) /\ t.forks = <<>>
  <2> SUFFICES ASSUME NEW t \in matchCommonTransition(pos.state, event, ctx)
               PROVE  IsTransition(t) /\ t.forks = <<>>
    OBVIOUS
  <2>1. PICK ct \in FirstOf(CommonTransitions,
                 {k \in CommonInScope(pos.state, ctx) :
                    CommonTransitions[k].event = event}) :
          t = AsTransition(ct, pos.state)
    BY DEF matchCommonTransition
  <2>2. ct \in Range(CommonTransitions)
    BY <2>1, FirstOfList DEF CommonInScope, Range
  <2>3. pos.state \in States
    BY DEF Positions
  <2>4. t.forks = <<>>
    BY <2>1 DEF AsTransition
  <2> QED  BY <2>1, <2>2, <2>3, <2>4, TransitionsAssumption
<1> QED  BY <1>1, <1>2, <1>3, TransitionsAssumption
         DEF findCandidateTransition, OrElse

\* An automatic transition is one of the definition's own that is AUTOMATIC
\* and not deferred.
LEMMA AutomaticIsAuthored ==
  ASSUME NEW pos \in Positions, NEW ctx
  PROVE  \A t \in findAutomaticTransition(pos, ctx) :
           /\ t \in Authored /\ IsTransition(t)
           /\ t.trigger = "AUTOMATIC" /\ ~t.after
<1>1. \A t \in matchAutomaticIn(SubScope(pos), pos.sub, ctx) :
        t \in Authored /\ t.trigger = "AUTOMATIC" /\ ~t.after
  BY ScopesAuthored, FirstOfList DEF matchAutomaticIn, Immediate, InScope
<1>2. \A t \in matchAutomaticIn(TopTransitions, pos.state, ctx) :
        t \in Authored /\ t.trigger = "AUTOMATIC" /\ ~t.after
  BY ScopesAuthored, FirstOfList DEF matchAutomaticIn, Immediate, InScope
<1> QED  BY <1>1, <1>2, TransitionsAssumption
         DEF findAutomaticTransition, OrElse

\* The pending join of a position is a transition.
LEMMA PendingJoinIsTransition ==
  ASSUME NEW pos \in Positions
  PROVE  \A t \in findPendingJoinTransition(pos) : IsTransition(t)
<1>1. \A t \in JoinIn(SubScope(pos), pos.sub) : t \in Authored
  BY ScopesAuthored, FirstOfList DEF JoinIn
<1>2. \A t \in JoinIn(TopTransitions, pos.state) : t \in Authored
  BY ScopesAuthored, FirstOfList DEF JoinIn
<1> QED  BY <1>1, <1>2, TransitionsAssumption
         DEF findPendingJoinTransition, OrElse

\* A state is entered in a position, whatever the substate asked for.
LEMMA EnterPosition ==
  ASSUME NEW state \in States, NEW sub
  PROVE  Enter(state, sub) \subseteq Positions
<1>1. CASE state \notin Composites
  BY <1>1 DEF Enter, Positions
<1>2. CASE state \in Composites
  <2>1. Substates[state] \subseteq SubstateIds
    BY <1>2 DEF SubstateIds
  <2> QED  BY <1>2, <2>1 DEF Enter, Positions
<1> QED  BY <1>1, <1>2

\* A resolved target is a position, however broken the definition.
LEMMA TargetPosition ==
  ASSUME NEW t, NEW history
  PROVE  resolveTarget(t, history) \subseteq Positions
  BY EnterPosition DEF resolveTarget

\* A local transition ends in a position.
LEMMA LocalPosition ==
  ASSUME NEW pos \in Positions, NEW t, StaysInside(t, pos)
  PROVE  [pos EXCEPT !.sub = t.target] \in Positions
<1>1. pos.state \in Composites
  BY DEF StaysInside, Positions
<1>2. t.target \in Substates[pos.state] /\ t.target \in SubstateIds
  BY <1>1 DEF StaysInside, SubstateIds
<1> QED  BY <1>1, <1>2 DEF Positions

\* What is remembered is a substate of its composite.
LEMMA RememberedSubstates ==
  ASSUME NEW pos \in Positions,
         NEW history \in [Composites -> SubstateIds \cup {None}]
  PROVE  Remember(pos, history) \in [Composites -> SubstateIds \cup {None}]
<1>1. pos.sub # None => pos.state \in Composites
  BY DEF Positions
<1>2. pos.sub \in SubstateIds \cup {None}
  BY DEF Positions
<1> QED  BY <1>1, <1>2 DEF Remember
-----------------------------------------------------------------------------
(* Type correctness.                                                       *)

Histories == [Composites -> SubstateIds \cup {None}]

\* The updates of a row that processEvent makes keep it a row.
LEMMA RowUpdates ==
  ASSUME NEW w \in Rows
  PROVE  /\ w.pos \in Positions /\ w.ctx \in Contexts /\ w.gen \in Nat
         /\ w.history \in Histories /\ w.version \in Nat
         /\ w.journey \in Seq([from : Positions \cup {None}, to : Positions])
         /\ \A g \in Nat : [w EXCEPT !.gen = g] \in Rows
         /\ [w EXCEPT !.complete = isEndState(w.pos)] \in Rows
         /\ [w EXCEPT !.complete = isEndState(w.pos), !.version = @ + 1]
              \in Rows
         /\ \A ctx \in Contexts, p \in Positions, g \in Nat, h \in Histories :
              [w EXCEPT !.ctx = ctx, !.pos = p, !.history = h, !.gen = g]
                \in Rows
         /\ \A ctx \in Contexts, p \in Positions :
              [w EXCEPT !.ctx = ctx, !.pos = p] \in Rows
<1>1. isEndState(w.pos) \in BOOLEAN
  BY DEF isEndState
<1>2. /\ w.pos \in Positions /\ w.ctx \in Contexts /\ w.gen \in Nat
      /\ w.history \in Histories /\ w.version \in Nat
      /\ w.journey \in Seq([from : Positions \cup {None}, to : Positions])
  BY DEF Rows, Histories
<1>3. \A g \in Nat : [w EXCEPT !.gen = g] \in Rows
  BY DEF Rows
<1>4. [w EXCEPT !.complete = isEndState(w.pos)] \in Rows
  <2>1. \A b \in BOOLEAN : [w EXCEPT !.complete = b] \in Rows
    BY DEF Rows
  <2> QED  BY <1>1, <2>1, Zenon
<1>5. [w EXCEPT !.complete = isEndState(w.pos), !.version = @ + 1] \in Rows
  <2>1. [w EXCEPT !.version = @ + 1] \in Rows
    BY DEF Rows
  <2>2. \A v \in Rows, b \in BOOLEAN : [v EXCEPT !.complete = b] \in Rows
    BY DEF Rows
  <2>3. [w EXCEPT !.complete = isEndState(w.pos), !.version = @ + 1]
          = [[w EXCEPT !.version = @ + 1] EXCEPT
               !.complete = isEndState(w.pos)]
    BY DEF Rows
  <2> QED  BY <1>1, <2>1, <2>2, <2>3, Zenon
<1>6. \A ctx \in Contexts, p \in Positions, g \in Nat, h \in Histories :
        [w EXCEPT !.ctx = ctx, !.pos = p, !.history = h, !.gen = g] \in Rows
  BY DEF Rows, Histories
<1>7. \A ctx \in Contexts, p \in Positions :
        [w EXCEPT !.ctx = ctx, !.pos = p] \in Rows
  BY DEF Rows
<1> QED  BY <1>2, <1>3, <1>4, <1>5, <1>6, <1>7

\* So does an entry of the journey.
LEMMA JourneyUpdate ==
  ASSUME NEW w \in Rows, NEW ctx \in Contexts,
         NEW p \in Positions \cup {None}, NEW q \in Positions
  PROVE  [w EXCEPT !.ctx = ctx, !.journey = Append(@, Entry(p, q))] \in Rows
<1>1. Entry(p, q) \in [from : Positions \cup {None}, to : Positions]
  BY DEF Entry
<1>2. Append(w.journey, Entry(p, q))
        \in Seq([from : Positions \cup {None}, to : Positions])
  BY <1>1, RowUpdates, AppendProperties
<1> QED  BY <1>2 DEF Rows

\* Actions turn a context into a context.
LEMMA ContextsRun ==
  ASSUME NEW ctx \in Contexts, NEW hasActions
  PROVE  After(hasActions, ctx) \subseteq Contexts
  BY DEF After

\* A new instance is typed.
LEMMA InitTyped == Init => TypeOK
<1> SUFFICES ASSUME Init PROVE TypeOK
  OBVIOUS
<1>1. PICK p \in resolveInitialPosition(InitialState) :
        wf = [pos |-> p, ctx |-> InitialContext,
              history |-> [c \in Composites |-> None], gen |-> 0,
              complete |-> FALSE, version |-> 0,
              journey |-> <<Entry(None, p)>>]
  BY DEF Init
<1>2. p \in Positions
  BY EnterPosition, StatesAssumption DEF resolveInitialPosition
<1>3. Entry(None, p) \in [from : Positions \cup {None}, to : Positions]
  BY <1>2 DEF Entry
<1>4. wf \in Rows
  BY <1>1, <1>2, <1>3, InstanceAssumption DEF Rows
<1>5. <<>> \in Seq(Kids) /\ NoAttempt \in Attempts
  BY DEF Kids, NoAttempt, Attempts
<1>6. NoFork \in [gen : 0 .. 0, todo : SUBSET Nat, failed : BOOLEAN]
  BY DEF NoFork
<1> QED  BY <1>4, <1>5, <1>6, InstanceAssumption DEF Init, TypeOK, Stages

\* Before its row is inserted an instance has neither children nor attempts.
Unborn ==
  row = None => /\ kids = <<>>
                /\ \A a \in 1 .. MaxAttempts : attempts[a].stage = "none"

IInv == TypeOK /\ Unborn

\* A new child is a child.
LEMMA NewKidTyped ==
  ASSUME TypeOK, NEW gen \in Nat, NEW def
  PROVE  NewKid(gen, def) \in Seq(Kids)
<1>1. (def \in BornComplete) \in BOOLEAN
  OBVIOUS
<1>2. \A b \in BOOLEAN : [gen |-> gen, complete |-> b, withdrawn |-> FALSE,
                           overtaken |-> FALSE] \in Kids
  BY DEF Kids
<1>3. [gen |-> gen, complete |-> def \in BornComplete, withdrawn |-> FALSE,
       overtaken |-> FALSE] \in Kids
  BY <1>1, <1>2, Zenon
<1> QED  BY <1>3, AppendProperties DEF NewKid, TypeOK

\* A child that changes is a child, of the same generation.
LEMMA KidChanges ==
  ASSUME kids \in Seq(Kids), NEW k \in DOMAIN kids, NEW kid \in Kids,
         kid.gen = kids[k].gen, kids' = [kids EXCEPT ![k] = kid]
  PROVE  /\ kids' \in Seq(Kids)
         /\ Len(kids') = Len(kids) /\ DOMAIN kids' = DOMAIN kids
         /\ \A n \in DOMAIN kids : kids'[n].gen = kids[n].gen
<1>1. k \in 1 .. Len(kids)
  OBVIOUS
<1>2. [kids EXCEPT ![k] = kid] \in Seq(Kids)
  BY <1>1, ExceptSeq
<1> QED  BY <1>1, <1>2

\* What a child's own event, or its withdrawal, makes of it.
LEMMA KidsChange ==
  ASSUME kids \in Seq(Kids), NEW k \in DOMAIN kids, NEW flag \in BOOLEAN,
         KidCommits(k, flag) \/ WithdrawKid(k, flag)
  PROVE  \E kid \in Kids : /\ kid.gen = kids[k].gen
                           /\ kids' = [kids EXCEPT ![k] = kid]
<1>1. kids[k] \in Kids
  OBVIOUS
<1>2. CASE KidCommits(k, flag)
  <2> DEFINE kid == [kids[k] EXCEPT !.complete = flag, !.withdrawn = FALSE,
                                    !.overtaken = FALSE]
  <2>1. kid \in Kids /\ kid.gen = kids[k].gen
    BY <1>1 DEF Kids
  <2>2. kids' = [kids EXCEPT ![k] = kid]
    BY <1>1, <1>2 DEF KidCommits, Kids
  <2> QED  BY <2>1, <2>2
<1>3. CASE WithdrawKid(k, flag)
  <2> DEFINE kid == [kids[k] EXCEPT !.withdrawn = TRUE, !.overtaken = flag]
  <2>1. kid \in Kids /\ kid.gen = kids[k].gen
    BY <1>1 DEF Kids
  <2>2. kids' = [kids EXCEPT ![k] = kid]
    BY <1>1, <1>3 DEF WithdrawKid, Kids
  <2> QED  BY <2>1, <2>2
<1> QED  BY <1>2, <1>3

\* What children and clients do to the list of children.
LEMMA ChildStepTyped == TypeOK /\ Unborn /\ ChildStep => TypeOK' /\ Unborn'
<1> SUFFICES ASSUME TypeOK, Unborn, ChildStep PROVE TypeOK' /\ Unborn'
  OBVIOUS
<1>1. ASSUME NEW k \in DOMAIN kids, NEW flag \in BOOLEAN, KidCommits(k, flag)
      PROVE  TypeOK' /\ Unborn'
  <2>1. kids' \in Seq(Kids)
    BY <1>1, KidsChange, KidChanges DEF TypeOK
  <2>2. attempts' \in [1 .. MaxAttempts -> Attempts]
    <3>1. NewAttempt \in Attempts
      BY DEF Attempts, NewAttempt, NoAttempt
    <3> QED  BY <1>1, <3>1 DEF KidCommits, TypeOK
  <2>3. row # None
    BY <1>1 DEF Unborn
  <2> QED  BY <1>1, <2>1, <2>2, <2>3
           DEF KidCommits, TypeOK, Unborn, eventVars
<1>2. ASSUME NEW k \in DOMAIN kids, NEW flag \in BOOLEAN, WithdrawKid(k, flag)
      PROVE  TypeOK' /\ Unborn'
  <2>1. kids' \in Seq(Kids)
    BY <1>2, KidsChange, KidChanges DEF TypeOK
  <2>2. row # None
    BY <1>2 DEF Unborn
  <2> QED  BY <1>2, <2>1, <2>2 DEF WithdrawKid, TypeOK, Unborn, eventVars
<1>3. ASSUME NEW def \in ChildDefs, AdHocChild(def)
      PROVE  TypeOK' /\ Unborn'
  <2>1. kids' \in Seq(Kids)
    BY <1>3, NewKidTyped DEF AdHocChild
  <2> QED  BY <1>3, <2>1 DEF AdHocChild, TypeOK, Unborn, eventVars
<1> QED  BY <1>1, <1>2, <1>3 DEF ChildStep

\* An event is matched against the row.
LEMMA MatchTyped ==
  ASSUME TypeOK, NEW event, Match(event)
  PROVE  /\ row' = row /\ row \in Rows /\ wf' = row
         /\ pc' \in {"gate", "apply"}
         /\ \A t \in tran' : IsTransition(t)
         /\ UNCHANGED <<from, hops, forking, kids, gens, published, crashes>>
<1>1. row \in Rows
  BY DEF Match, TypeOK
<1>2. \A t \in tran' : IsTransition(t)
  BY <1>1, CandidateIsTransition, RowUpdates DEF Match
<1> QED  BY <1>1, <1>2 DEF Match

\* What the attemptAutoJoin goroutines do.
LEMMA AttemptStepTyped ==
  ASSUME TypeOK, Unborn, NEW k \in 1 .. MaxAttempts, AttemptStep(k)
  PROVE  TypeOK' /\ Unborn'
<1>1. attempts[k].stage # "none"
  BY DEF AttemptStep, AttemptReads, AttemptCounts, ReceiveJoinEvent,
         JoinEventMatchesNothing
<1>2. row \in Rows
  BY <1>1 DEF Unborn, TypeOK
<1>3. NoAttempt \in Attempts
  BY DEF NoAttempt, Attempts
<1>4. CASE AttemptReads(k)
  <2> DEFINE ready == {t \in findPendingJoinTransition(row.pos) :
                         row.ctx \in t.guard}
  <2>1. ASSUME NEW t \in ready PROVE t.event \in Events
    BY <1>2, PendingJoinIsTransition, RowUpdates DEF IsTransition
  <2>2. ready # {} => (CHOOSE t \in ready : TRUE).event \in Events
    BY <2>1
  <2>3. ready # {} => [stage |-> "count", gen |-> row.gen,
                       event |-> (CHOOSE t \in ready : TRUE).event]
                        \in Attempts
    BY <1>2, <2>2, RowUpdates DEF Attempts
  <2>4. attempts' \in [1 .. MaxAttempts -> Attempts]
    BY <1>3, <1>4, <2>3 DEF AttemptReads, TypeOK
  <2> QED  BY <1>2, <1>4, <2>4 DEF AttemptReads, TypeOK, Unborn, eventVars
<1>5. CASE AttemptCounts(k)
  <2>1. attempts' \in [1 .. MaxAttempts -> Attempts]
    BY <1>3, <1>5 DEF AttemptCounts, TypeOK, Attempts
  <2> QED  BY <1>2, <1>5, <2>1 DEF AttemptCounts, TypeOK, Unborn, eventVars
<1>6. CASE ReceiveJoinEvent(k)
  <2>1. attempts' \in [1 .. MaxAttempts -> Attempts]
    BY <1>3, <1>6 DEF ReceiveJoinEvent, TypeOK
  <2> QED  BY <1>2, <1>6, <2>1, MatchTyped
           DEF ReceiveJoinEvent, TypeOK, Unborn, Stages
<1>7. CASE JoinEventMatchesNothing(k)
  <2>1. attempts' \in [1 .. MaxAttempts -> Attempts]
    BY <1>3, <1>7 DEF JoinEventMatchesNothing, TypeOK
  <2> QED  BY <1>2, <1>7, <2>1
           DEF JoinEventMatchesNothing, TypeOK, Unborn, eventVars
<1> QED  BY <1>4, <1>5, <1>6, <1>7 DEF AttemptStep

\* Every action of an event has a row in wf, and the row it was loaded from.
LEMMA WorkingRow ==
  ASSUME TypeOK, pc \notin {"idle", "failed"}
  PROVE  wf \in Rows /\ wf.pos \in Positions /\ wf.ctx \in Contexts
         /\ wf.history \in Histories /\ wf.gen \in Nat
  BY RowUpdates DEF TypeOK

\* An event that is dropped leaves no trace but its children.
LEMMA FailTyped ==
  ASSUME TypeOK, Unborn, Fail
  PROVE  TypeOK' /\ Unborn'
<1>1. forking' = NoFork /\ gens' = gens /\ gens \in Nat
  BY DEF Fail, Return, TypeOK
<1>2. forking' \in [gen : 0 .. gens', todo : SUBSET Nat, failed : BOOLEAN]
  BY <1>1 DEF NoFork
<1>3. pc' \in Stages /\ (pc' = "idle" => row' \in Rows)
      /\ pc' \notin {"publish", "fork", "enter"}
      /\ (pc' \in {"idle", "failed"})
  BY DEF Fail, TypeOK, Stages
<1> QED  BY <1>1, <1>2, <1>3, InstanceAssumption
         DEF Fail, Return, TypeOK, Unborn

\* Leaving a state is one change of the copy, by the history it leaves behind.
LEMMA StateLeft ==
  ASSUME NEW t, LeaveState(t)
  PROVE  LET h == Remember(wf.pos, wf.history)
             g == IF t.kind # "FORK" /\ IsJoin(t) THEN 0 ELSE wf.gen
         IN \E ctx \in After({wf.pos.state, wf.pos.sub} \cap Scripted # {},
                            wf.ctx),
               p \in resolveTarget(t, h) :
              wf' = [wf EXCEPT !.ctx = ctx, !.pos = p, !.history = h, !.gen = g]
<1> DEFINE Left(h) ==
      \E ctx \in After({wf.pos.state, wf.pos.sub} \cap Scripted # {}, wf.ctx),
         p \in resolveTarget(t, h) :
        wf' = [wf EXCEPT !.ctx = ctx, !.pos = p, !.history = h,
                         !.gen = IF t.kind # "FORK" /\ IsJoin(t)
                                 THEN 0 ELSE wf.gen]
<1>1. \E h \in {Remember(wf.pos, wf.history)} : Left(h)
  BY DEF LeaveState
<1>2. Left(Remember(wf.pos, wf.history))
  <2> HIDE DEF Left
  <2> QED  BY <1>1
<1> QED  BY <1>2

\* The transition of an event, one step at a time.
LEMMA TransitTyped ==
  ASSUME TypeOK, Unborn, NEW t \in tran, Transit(t)
  PROVE  TypeOK' /\ Unborn'
<1>1. pc \in {"apply", "enter", "fork"}
  BY DEF Transit, ApplyInternal, LeaveSubstate, LeaveState, EnterState,
         SpawnChild
<1>2. /\ wf \in Rows /\ wf.pos \in Positions /\ wf.ctx \in Contexts
      /\ wf.history \in Histories /\ wf.gen \in Nat
  BY <1>1, WorkingRow
<1>3. IsTransition(t)
  BY DEF TypeOK
<1>4. CASE ApplyInternal(t)
  <2>1. PICK ctx \in After(t.scripted, wf.ctx) :
          wf' = [wf EXCEPT !.ctx = ctx,
                           !.journey = Append(@, Entry(wf.pos, wf.pos))]
    BY <1>4 DEF ApplyInternal
  <2>2. ctx \in Contexts
    BY <1>2, <2>1, ContextsRun
  <2>3. wf' \in Rows
    BY <1>2, <2>1, <2>2, JourneyUpdate
  <2> QED  BY <1>4, <2>3 DEF ApplyInternal, TypeOK, Unborn, Stages
<1>5. CASE LeaveSubstate(t)
  <2>1. PICK ctx \in After(wf.pos.sub \in Scripted, wf.ctx) :
          wf' = [wf EXCEPT !.ctx = ctx, !.pos.sub = t.target]
    BY <1>5 DEF LeaveSubstate
  <2>2. ctx \in Contexts
    BY <1>2, <2>1, ContextsRun
  <2>3. [wf.pos EXCEPT !.sub = t.target] \in Positions
    BY <1>2, <1>5, LocalPosition DEF LeaveSubstate
  <2>4. wf' = [wf EXCEPT !.ctx = ctx, !.pos = [wf.pos EXCEPT !.sub = t.target]]
    BY <1>2, <2>1 DEF Rows
  <2>5. wf' \in Rows
    BY <1>2, <2>2, <2>3, <2>4, RowUpdates
  <2> QED  BY <1>2, <1>5, <2>5 DEF LeaveSubstate, TypeOK, Unborn, Stages
<1>6. CASE LeaveState(t)
  <2> DEFINE h == Remember(wf.pos, wf.history)
             g == IF t.kind # "FORK" /\ IsJoin(t) THEN 0 ELSE wf.gen
  <2>1. PICK ctx \in After({wf.pos.state, wf.pos.sub} \cap Scripted # {},
                           wf.ctx),
             p \in resolveTarget(t, h) :
          wf' = [wf EXCEPT !.ctx = ctx, !.pos = p, !.history = h, !.gen = g]
    BY <1>6, StateLeft
  <2>2. ctx \in Contexts
    BY <1>2, <2>1, ContextsRun
  <2>3. p \in Positions
    BY <2>1, TargetPosition
  <2>4. h \in Histories
    BY <1>2, RememberedSubstates DEF Histories
  <2>5. g \in Nat
    BY <1>2
  <2>6. wf' \in Rows
    <3> HIDE DEF h, g
    <3> QED  BY <1>2, <2>1, <2>2, <2>3, <2>4, <2>5, RowUpdates
  <2>7. DOMAIN t.forks \subseteq Nat
    BY <1>3 DEF IsTransition
  <2>8. gens' \in Nat /\ gens <= gens'
    BY <1>6 DEF LeaveState, TypeOK
  <2>9. forking' \in [gen : 0 .. gens', todo : SUBSET Nat, failed : BOOLEAN]
    <3>1. CASE t.kind = "FORK"
      <4>1. forking' = [gen |-> gens', todo |-> DOMAIN t.forks,
                        failed |-> FALSE]
        BY <1>6, <3>1 DEF LeaveState
      <4>2. gens' \in 0 .. gens'
        BY <2>8
      <4> QED  BY <2>7, <4>1, <4>2
    <3>2. CASE t.kind # "FORK"
      BY <1>6, <3>2 DEF LeaveState, TypeOK
    <3> QED  BY <3>1, <3>2
  <2>10. pc' \in {"fork", "enter"}
    BY <1>6 DEF LeaveState
  <2>11. from' = wf.pos
    BY <1>6 DEF LeaveState
  <2> QED  BY <1>2, <1>6, <2>6, <2>8, <2>9, <2>10, <2>11
           DEF LeaveState, TypeOK, Unborn, Stages
<1>7. CASE EnterState(t)
  <2>1. from \in Positions
    BY <1>7 DEF EnterState, TypeOK
  <2>2. PICK ctx \in After(EntryScripted(t), wf.ctx) :
          wf' = [wf EXCEPT !.ctx = ctx,
                           !.journey = Append(@, Entry(from, wf.pos))]
    BY <1>7 DEF EnterState
  <2>3. ctx \in Contexts
    BY <1>2, <2>2, ContextsRun
  <2>4. wf' \in Rows
    BY <1>2, <2>1, <2>2, <2>3, JourneyUpdate
  <2> QED  BY <1>7, <2>4 DEF EnterState, TypeOK, Unborn, Stages
<1>8. ASSUME NEW n \in DOMAIN t.forks, SpawnChild(t, n)
      PROVE  TypeOK' /\ Unborn'
  <2>1. forking.gen \in Nat
    BY DEF TypeOK
  <2>2. kids' \in Seq(Kids)
    BY <1>8, <2>1, NewKidTyped DEF SpawnChild
  <2>3. forking' \in [gen : 0 .. gens, todo : SUBSET Nat, failed : BOOLEAN]
    BY <1>8 DEF SpawnChild, TypeOK
  <2> QED  BY <1>8, <2>2, <2>3 DEF SpawnChild, TypeOK, Unborn, Stages
<1> QED  BY <1>4, <1>5, <1>6, <1>7, <1>8 DEF Transit

\* What breaks it off.
LEMMA BreakTyped ==
  ASSUME TypeOK, Unborn, NEW t \in tran, Break(t)
  PROVE  TypeOK' /\ Unborn'
<1>1. ASSUME NEW n \in DOMAIN t.forks, SpawnFails(n)
      PROVE  TypeOK' /\ Unborn'
  <2>1. forking' \in [gen : 0 .. gens, todo : SUBSET Nat, failed : BOOLEAN]
    BY <1>1 DEF SpawnFails, TypeOK
  <2> QED  BY <1>1, <2>1 DEF SpawnFails, TypeOK, Unborn, Stages
<1>2. CASE Fail
  BY <1>2, FailTyped
<1> QED  BY <1>1, <1>2 DEF Break, ApplyFails, EnterFails

\* What moves an event to its end.
LEMMA AdvanceTyped ==
  ASSUME TypeOK, Unborn, Advance
  PROVE  TypeOK' /\ Unborn'
<1>1. ASSUME NEW t \in tran, Transit(t) \/ Break(t) PROVE TypeOK' /\ Unborn'
  BY <1>1, TransitTyped, BreakTyped
<1>2. CASE Gate
  BY <1>2 DEF Gate, TypeOK, Unborn, Stages, eventVars
<1>3. CASE GateCloses
  BY <1>3, FailTyped DEF GateCloses
<1>4. CASE ForkCompletes
  <2>1. wf \in Rows /\ forking.gen \in Nat
    BY <1>4 DEF ForkCompletes, TypeOK
  <2>2. wf' \in Rows
    BY <1>4, <2>1, RowUpdates DEF ForkCompletes
  <2> QED  BY <1>4, <2>2 DEF ForkCompletes, TypeOK, Unborn, Stages
<1>5. CASE ChainHop
  <2>1. wf.pos \in Positions
    BY <1>5, WorkingRow DEF ChainHop
  <2>2. \A t \in tran' : IsTransition(t)
    BY <1>5, <2>1, AutomaticIsAuthored DEF ChainHop
  <2>3. hops' \in 0 .. MaxHops
    BY <1>5, InstanceAssumption DEF ChainHop, TypeOK
  <2> QED  BY <1>5, <2>2, <2>3 DEF ChainHop, TypeOK, Unborn, Stages
<1>6. CASE ChainEnds
  BY <1>6 DEF ChainEnds, TypeOK, Unborn, Stages, eventVars
<1>7. CASE ChainTooLong
  BY <1>7, FailTyped DEF ChainTooLong
<1>8. CASE InsertRow
  <2>1. row' \in Rows
    BY <1>8, WorkingRow, RowUpdates DEF InsertRow
  <2>2. forking' \in [gen : 0 .. gens', todo : SUBSET Nat, failed : BOOLEAN]
    BY <1>8 DEF InsertRow, Return, NoFork, TypeOK
  <2>3. kids = <<>> /\ \A a \in 1 .. MaxAttempts : attempts[a].stage = "none"
    BY <1>8 DEF InsertRow, Unborn
  <2> QED  BY <1>8, <2>1, <2>2, <2>3, InstanceAssumption
           DEF InsertRow, Return, TypeOK, Unborn, Stages
<1>9. CASE CommitRow
  <2>1. wf' \in Rows /\ row' = wf'
    BY <1>9, WorkingRow, RowUpdates DEF CommitRow
  <2>2. row' # None
    BY <2>1, NoneAssumption
  <2> QED  BY <1>9, <2>1, <2>2 DEF CommitRow, TypeOK, Unborn, Stages
<1>10. CASE Publish
  <2>1. wf.pos \in Positions
    BY <1>10, WorkingRow DEF Publish
  <2>2. forking' \in [gen : 0 .. gens', todo : SUBSET Nat, failed : BOOLEAN]
    BY <1>10 DEF Publish, Return, NoFork, TypeOK
  <2> QED  BY <1>10, <2>1, <2>2, InstanceAssumption
           DEF Publish, Return, TypeOK, Unborn, Stages
<1>11. CASE ForkFails
  BY <1>11, FailTyped DEF ForkFails
<1> QED  BY <1>1, <1>2, <1>3, <1>4, <1>5, <1>6, <1>7, <1>8, <1>9, <1>10,
            <1>11
         DEF Advance

\* A crash keeps the children, of their generations.
LEMMA CrashedKids ==
  ASSUME kids \in Seq(Kids), Crash
  PROVE  /\ kids' \in Seq(Kids)
         /\ Len(kids') = Len(kids) /\ DOMAIN kids' = DOMAIN kids
         /\ \A n \in DOMAIN kids : /\ kids'[n].gen = kids[n].gen
                                  /\ kids'[n].complete = kids[n].complete
                                  /\ kids'[n].withdrawn = kids[n].withdrawn
<1>1. kids' = [k \in 1 .. Len(kids) |-> [kids[k] EXCEPT !.overtaken = FALSE]]
  BY DEF Crash
<1>2. ASSUME NEW k \in 1 .. Len(kids)
      PROVE  /\ [kids[k] EXCEPT !.overtaken = FALSE] \in Kids
             /\ kids'[k].gen = kids[k].gen
             /\ kids'[k].complete = kids[k].complete
             /\ kids'[k].withdrawn = kids[k].withdrawn
  <2>1. kids[k] \in Kids
    OBVIOUS
  <2>2. kids'[k] = [kids[k] EXCEPT !.overtaken = FALSE]
    BY <1>1
  <2> QED  BY <2>1, <2>2 DEF Kids
<1>3. kids' \in Seq(Kids) /\ Len(kids') = Len(kids)
  BY <1>1, <1>2
<1> QED  BY <1>1, <1>2, <1>3

\* A crash keeps the rows.
LEMMA CrashTyped ==
  ASSUME TypeOK, Unborn, Crash
  PROVE  TypeOK' /\ Unborn'
<1>1. row \in Rows /\ row # None
  BY DEF Crash, TypeOK
<1>2. forking' \in [gen : 0 .. gens', todo : SUBSET Nat, failed : BOOLEAN]
  BY DEF Crash, Return, NoFork, TypeOK
<1>3. attempts' \in [1 .. MaxAttempts -> Attempts]
  BY DEF Crash, NoAttempt, Attempts
<1>4. crashes' \in 0 .. MaxCrashes
  BY InstanceAssumption DEF Crash, TypeOK
<1>5. Unborn'
  BY <1>1 DEF Crash, Unborn
<1>6. /\ row' = row /\ wf' = None /\ pc' = "idle" /\ tran' = {}
      /\ from' = None /\ hops' = 0 /\ gens' = gens /\ published' = None
  BY DEF Crash, Return
<1>7. hops' \in 0 .. MaxHops
  BY <1>6, InstanceAssumption
<1>8. gens \in Nat /\ kids' \in Seq(Kids)
  BY CrashedKids DEF TypeOK
<1>9. TypeOK'
  BY <1>1, <1>2, <1>3, <1>4, <1>6, <1>7, <1>8 DEF TypeOK, Stages
<1> QED  BY <1>5, <1>9

\* The inductive invariant is preserved.
LEMMA StepTyped == IInv /\ [Next]_vars => IInv'
<1> SUFFICES ASSUME TypeOK, Unborn, [Next]_vars PROVE TypeOK' /\ Unborn'
  BY DEF IInv
<1>1. ASSUME NEW event \in Events, ReceiveClientEvent(event)
      PROVE  TypeOK' /\ Unborn'
  BY <1>1, MatchTyped
     DEF ReceiveClientEvent, TypeOK, Unborn, Stages
<1>2. CASE UNCHANGED vars
  BY <1>2 DEF vars, TypeOK, Unborn
<1>3. CASE DatabaseFails
  BY <1>3, FailTyped DEF DatabaseFails
<1> QED  BY <1>1, <1>2, <1>3, AdvanceTyped, AttemptStepTyped,
            ChildStepTyped, CrashTyped DEF Next, QuietNext

\* The invariant holds throughout.
LEMMA Inductive == SafeSpec => []IInv
<1>1. Init => IInv
  <2>1. Init => Unborn
    BY DEF Init, Unborn, NoAttempt
  <2> QED  BY <2>1, InitTyped DEF IInv
<1> QED  BY <1>1, StepTyped, PTL DEF SafeSpec

\* An instance is always in a state of its definition, with an active
\* substate exactly in a composite, and its rows are rows, whatever the
\* definition, the contexts, the actions and the children.
THEOREM TypeCorrect == SafeSpec => []TypeOK
<1>1. IInv => TypeOK
  BY DEF IInv
<1> QED  BY <1>1, Inductive, PTL
=============================================================================
