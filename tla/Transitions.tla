----------------------------- MODULE Transitions -----------------------------
(***************************************************************************)
(* engine/transitions.go, autojoin.go and workflow_ops.go: the pure        *)
(* functions that read a workflow definition and an instance's position    *)
(* and say which transition an event fires, where it leads, which one      *)
(* fires by itself and which events are offered.  A "first authored match" *)
(* is the set of that one transition, or {} (ok = false in the code).      *)
(***************************************************************************)
EXTENDS Naturals, Sequences, Functions

CONSTANTS
  States,            \* ids of the workflow's top-level states
  InitialState,      \* States[0], where the code starts an instance
  EndStates,         \* ids of the end states
  Composites,        \* the top-level states that are composite
  Substates,         \* [Composites -> SUBSET ids]
  InitialSubstate,   \* [Composites -> ids]
  History,           \* the composites with shallow or deep history
  TopTransitions,    \* Seq of transitions, Workflow.Transitions
  SubTransitions,    \* [Composites -> Seq of transitions]
  Events,            \* event names
  CommonTransitions, \* Seq of common transitions (a set of sources each)
  Contexts,          \* context maps, as far as the guards tell them apart
  None               \* no substate, no remembered substate

SubstateIds == UNION {Substates[c] : c \in Composites}
Kinds == {"EXTERNAL", "INTERNAL", "FORK", "JOIN"}
Triggers == {"USER", "SYSTEM", "AUTOMATIC"}

\* What every transition list may hold.  The guard is the set of contexts it
\* passes on; forks lists the child definitions of the fork targets; scripted
\* says that the transition has actions.
IsTransition(t) ==
  /\ DOMAIN t = {"source", "target", "event", "trigger", "kind", "guard",
                 "join", "after", "entersHistory", "forks", "scripted"}
  /\ t.event \in Events /\ t.guard \subseteq Contexts
  /\ t.kind \in Kinds /\ t.trigger \in Triggers
  /\ {t.join, t.after, t.entersHistory, t.scripted} \subseteq BOOLEAN
  /\ t.forks \in Seq(Range(t.forks))

ASSUME StatesAssumption ==
  /\ InitialState \in States /\ EndStates \subseteq States
  /\ Composites \subseteq States /\ History \subseteq Composites
  /\ None \notin States \cup SubstateIds
\* The transitions of the definition, common ones apart.
Authored == Range(TopTransitions)
              \cup UNION {Range(SubTransitions[c]) : c \in Composites}

\* A CommonTransition is synthesised into a Transition: neither the join flag,
\* nor the deferral, nor the history entry, nor fork targets survive.
AsTransition(ct, source) ==
  [source |-> source, target |-> ct.target, event |-> ct.event,
   trigger |-> ct.trigger, kind |-> ct.kind, guard |-> ct.guard,
   join |-> FALSE, after |-> FALSE, entersHistory |-> FALSE,
   forks |-> <<>>, scripted |-> ct.scripted]

ASSUME TransitionsAssumption ==
  /\ TopTransitions \in Seq(Authored)
  /\ \A c \in Composites : SubTransitions[c] \in Seq(Authored)
  /\ CommonTransitions \in Seq(Range(CommonTransitions))
  /\ \A t \in Authored : IsTransition(t)
  /\ \A ct \in Range(CommonTransitions), source \in States :
       IsTransition(AsTransition(ct, source))

\* A position is a StateContainer: a top-level state and an active substate.
Positions ==
  {p \in [state : States, sub : SubstateIds \cup {None}] :
     IF p.state \in Composites THEN p.sub \in Substates[p.state]
                               ELSE p.sub = None}

EffectiveId(pos) == IF pos.sub # None THEN pos.sub ELSE pos.state

-----------------------------------------------------------------------------
\* The first transition of a list among the indices that match.
FirstOf(list, matching) ==
  {list[k] : k \in {m \in matching : \A n \in matching : m <= n}}

\* The first non-empty of two searches, in scope order.
OrElse(inner, outer) == IF inner # {} THEN inner ELSE outer

InScope(list, source, ctx) ==
  {k \in DOMAIN list : list[k].source = source /\ ctx \in list[k].guard}

matchIn(list, source, event, ctx) ==
  FirstOf(list, {k \in InScope(list, source, ctx) : list[k].event = event})

CommonInScope(source, ctx) ==
  {k \in DOMAIN CommonTransitions : /\ source \in CommonTransitions[k].sources
                                    /\ ctx \in CommonTransitions[k].guard}

matchCommonTransition(source, event, ctx) ==
  {AsTransition(ct, source) :
     ct \in FirstOf(CommonTransitions,
                    {k \in CommonInScope(source, ctx) :
                       CommonTransitions[k].event = event})}

\* transitionScopes: the substate's list, innermost first, if there is one.
SubScope(pos) == IF pos.sub # None THEN SubTransitions[pos.state] ELSE <<>>

findCandidateTransition(pos, event, ctx) ==
  OrElse(matchIn(SubScope(pos), pos.sub, event, ctx),
  OrElse(matchIn(TopTransitions, pos.state, event, ctx),
         matchCommonTransition(pos.state, event, ctx)))

\* AUTOMATIC and without an "after".
Immediate(list, matching) ==
  {k \in matching : list[k].trigger = "AUTOMATIC" /\ ~list[k].after}

matchAutomaticIn(list, source, ctx) ==
  FirstOf(list, Immediate(list, InScope(list, source, ctx)))

\* The common transitions are not searched.
findAutomaticTransition(pos, ctx) ==
  OrElse(matchAutomaticIn(SubScope(pos), pos.sub, ctx),
         matchAutomaticIn(TopTransitions, pos.state, ctx))

matchDeferredIn(list, source, ctx) ==
  {list[k] : k \in {m \in InScope(list, source, ctx) :
                      list[m].trigger = "AUTOMATIC" /\ list[m].after}}

findDeferredTransitions(pos, ctx) ==
  matchDeferredIn(SubScope(pos), pos.sub, ctx)
    \cup matchDeferredIn(TopTransitions, pos.state, ctx)

IsJoin(t) == t.kind = "JOIN" \/ t.join

\* The guard is not consulted here: the caller evaluates it.
JoinIn(list, source) ==
  FirstOf(list, {k \in DOMAIN list : /\ list[k].source = source
                                     /\ IsJoin(list[k])})

\* Mutant: the joins authored inside a composite are not looked for.
PendingAtTopOnly(pos) == JoinIn(TopTransitions, pos.state)

findPendingJoinTransition(pos) ==
  OrElse(JoinIn(SubScope(pos), pos.sub), JoinIn(TopTransitions, pos.state))

-----------------------------------------------------------------------------
\* resolveInitialPosition and resolveTarget: the position as a set, {} for an
\* error (an unknown target, a composite whose substate is unknown).
Enter(state, sub) ==
  IF state \notin Composites THEN {[state |-> state, sub |-> None]}
  ELSE {[state |-> state, sub |-> s] : s \in Substates[state] \cap {sub}}

EnteredSubstate(t, history) ==
  IF t.entersHistory /\ t.target \in History /\ history[t.target] # None
  THEN history[t.target] ELSE InitialSubstate[t.target]

resolveTarget(t, history) ==
  IF t.target \in States THEN Enter(t.target, EnteredSubstate(t, history))
                         ELSE {}

resolveInitialPosition(state) == Enter(state, InitialSubstate[state])

isEndState(pos) == pos.state \in EndStates

\* A target that is a substate of the composite the instance is in.
StaysInside(t, pos) == pos.sub # None /\ t.target \in Substates[pos.state]

Offered(list, matching) ==
  {list[k].event : k \in {m \in matching : list[m].trigger # "AUTOMATIC"}}

\* Mutant: the substate's own transitions are forgotten.
possibleEventsForOuter(pos, ctx) ==
  Offered(TopTransitions, InScope(TopTransitions, pos.state, ctx))
    \cup Offered(CommonTransitions, CommonInScope(pos.state, ctx))

possibleEventsFor(pos, ctx) ==
  Offered(SubScope(pos), InScope(SubScope(pos), pos.sub, ctx))
    \cup Offered(TopTransitions, InScope(TopTransitions, pos.state, ctx))
    \cup Offered(CommonTransitions, CommonInScope(pos.state, ctx))
=============================================================================
