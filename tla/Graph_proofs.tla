----------------------------- MODULE Graph_proofs -----------------------------
(***************************************************************************)
(* The drawing of BuildGraph explains every journey that applyTransition   *)
(* records and every event that possibleEventsFor offers, for every        *)
(* definition.                                                             *)
(***************************************************************************)
EXTENDS Graph, Instance_safety_proofs

\* An edge is drawn for what a search found at a position.
Drawn(t, p) ==
  \E e \in BuildGraph.edges :
    /\ LeavesFrom(e, p)
    /\ e.event = t.event /\ e.kind = t.kind /\ e.target = t.target
    /\ e.entersHistory = t.entersHistory

Explained(p, q) == \E e \in BuildGraph.edges : Follows(e, p, q)

Shown(journey) ==
  \A n \in 2 .. Len(journey) : Explained(journey[n].from, journey[n].to)

-----------------------------------------------------------------------------
(* The scopes that are searched are the scopes that are drawn.             *)

\* What an edge keeps of its transition.
LEMMA EdgeFields ==
  ASSUME NEW index, NEW scope, NEW t
  PROVE  /\ edgeFor(index, scope, t).scope = scope
         /\ edgeFor(index, scope, t).source = t.source
         /\ edgeFor(index, scope, t).target = t.target
         /\ edgeFor(index, scope, t).event = t.event
         /\ edgeFor(index, scope, t).kind = t.kind
         /\ edgeFor(index, scope, t).entersHistory = t.entersHistory
BY DEF edgeFor

\* The edges, scope by scope.
LEMMA EdgesByScope ==
  /\ \A k \in DOMAIN TopTransitions :
       edgeFor(k, <<"top">>, TopTransitions[k]) \in BuildGraph.edges
  /\ \A c \in Composites : \A k \in DOMAIN SubTransitions[c] :
       edgeFor(k, <<"sub", c>>, SubTransitions[c][k]) \in BuildGraph.edges
  /\ \A k \in DOMAIN CommonTransitions :
       \A s \in CommonTransitions[k].sources :
         edgeFor(k, <<"common">>, AsTransition(CommonTransitions[k], s))
           \in BuildGraph.edges
<1>1. BuildGraph.edges
        = EdgesOf(<<"top">>, TopTransitions) \cup CommonEdges
            \cup UNION {EdgesOf(<<"sub", c>>, SubTransitions[c]) :
                          c \in Composites}
  BY DEF BuildGraph
<1>2. \A k \in DOMAIN TopTransitions :
        edgeFor(k, <<"top">>, TopTransitions[k])
          \in EdgesOf(<<"top">>, TopTransitions)
  BY DEF EdgesOf
<1>3. ASSUME NEW c \in Composites, NEW k \in DOMAIN SubTransitions[c]
      PROVE  edgeFor(k, <<"sub", c>>, SubTransitions[c][k])
               \in EdgesOf(<<"sub", c>>, SubTransitions[c])
  BY DEF EdgesOf
<1>4. ASSUME NEW k \in DOMAIN CommonTransitions,
             NEW s \in CommonTransitions[k].sources
      PROVE  edgeFor(k, <<"common">>, AsTransition(CommonTransitions[k], s))
               \in CommonEdges
  BY DEF CommonEdges
<1> QED  BY <1>1, <1>2, <1>3, <1>4

\* A substate's own transitions are drawn inside its composite.
LEMMA SubScopeDrawn ==
  ASSUME NEW pos \in Positions, NEW k \in DOMAIN SubScope(pos),
         SubScope(pos)[k].source = pos.sub
  PROVE  Drawn(SubScope(pos)[k], pos)
<1>1. pos.sub # None /\ pos.state \in Composites
  BY DEF SubScope, Positions
<1> DEFINE t == SubScope(pos)[k]
           e == edgeFor(k, <<"sub", pos.state>>, t)
<1>2. e \in BuildGraph.edges
  BY <1>1, EdgesByScope DEF SubScope
<1>3. e.scope = <<"sub", pos.state>> /\ e.source = t.source
  BY EdgeFields
<1>4. LeavesFrom(e, pos)
  BY <1>3 DEF LeavesFrom
<1> QED  BY <1>2, <1>4, EdgeFields DEF Drawn

\* A state's transitions are drawn at the top.
LEMMA TopDrawn ==
  ASSUME NEW pos \in Positions, NEW k \in DOMAIN TopTransitions,
         TopTransitions[k].source = pos.state
  PROVE  Drawn(TopTransitions[k], pos)
<1> DEFINE t == TopTransitions[k]
           e == edgeFor(k, <<"top">>, t)
<1>1. e \in BuildGraph.edges
  BY EdgesByScope
<1>2. e.scope = <<"top">> /\ e.source = t.source
  BY EdgeFields
<1>3. LeavesFrom(e, pos)
  BY <1>2 DEF LeavesFrom
<1> QED  BY <1>1, <1>3, EdgeFields DEF Drawn

\* A common transition is drawn from each of its sources.
LEMMA CommonDrawn ==
  ASSUME NEW pos \in Positions, NEW k \in DOMAIN CommonTransitions,
         pos.state \in CommonTransitions[k].sources
  PROVE  Drawn(AsTransition(CommonTransitions[k], pos.state), pos)
<1> DEFINE t == AsTransition(CommonTransitions[k], pos.state)
           e == edgeFor(k, <<"common">>, t)
<1>1. e \in BuildGraph.edges
  BY EdgesByScope
<1>2. e.scope = <<"common">> /\ e.source = pos.state
  BY EdgeFields DEF AsTransition
<1>3. LeavesFrom(e, pos)
  BY <1>2 DEF LeavesFrom
<1> QED  BY <1>1, <1>3, EdgeFields DEF Drawn

\* Whatever an event fires is drawn.
LEMMA CandidateDrawn ==
  ASSUME NEW pos \in Positions, NEW event, NEW ctx
  PROVE  \A t \in findCandidateTransition(pos, event, ctx) : Drawn(t, pos)
<1>1. \A t \in matchIn(SubScope(pos), pos.sub, event, ctx) : Drawn(t, pos)
  BY SubScopeDrawn, FirstOfList DEF matchIn, InScope
<1>2. \A t \in matchIn(TopTransitions, pos.state, event, ctx) : Drawn(t, pos)
  BY TopDrawn, FirstOfList DEF matchIn, InScope
<1>3. \A t \in matchCommonTransition(pos.state, event, ctx) : Drawn(t, pos)
  <2> SUFFICES ASSUME NEW t \in matchCommonTransition(pos.state, event, ctx)
               PROVE  Drawn(t, pos)
    OBVIOUS
  <2> DEFINE matching == {k \in CommonInScope(pos.state, ctx) :
                            CommonTransitions[k].event = event}
  <2>1. PICK ct \in FirstOf(CommonTransitions, matching) :
          t = AsTransition(ct, pos.state)
    BY DEF matchCommonTransition
  <2>2. PICK k \in matching : ct = CommonTransitions[k]
    BY <2>1, FirstOfList DEF CommonInScope
  <2> QED  BY <2>1, <2>2, CommonDrawn DEF CommonInScope
<1> QED  BY <1>1, <1>2, <1>3 DEF findCandidateTransition, OrElse

\* Whatever the chain fires is drawn.
LEMMA AutomaticDrawn ==
  ASSUME NEW pos \in Positions, NEW ctx
  PROVE  \A t \in findAutomaticTransition(pos, ctx) : Drawn(t, pos)
<1>1. \A t \in matchAutomaticIn(SubScope(pos), pos.sub, ctx) : Drawn(t, pos)
  BY SubScopeDrawn, FirstOfList DEF matchAutomaticIn, Immediate, InScope
<1>2. \A t \in matchAutomaticIn(TopTransitions, pos.state, ctx) : Drawn(t, pos)
  BY TopDrawn, FirstOfList DEF matchAutomaticIn, Immediate, InScope
<1> QED  BY <1>1, <1>2 DEF findAutomaticTransition, OrElse

\* Whatever is on offer labels an edge.
LEMMA OfferDrawn ==
  ASSUME NEW pos \in Positions, NEW ctx, NEW event \in possibleEventsFor(pos, ctx)
  PROVE  \E e \in BuildGraph.edges : e.event = event /\ LeavesFrom(e, pos)
<1>1. CASE event \in Offered(SubScope(pos), InScope(SubScope(pos), pos.sub, ctx))
  BY <1>1, SubScopeDrawn DEF Offered, InScope, Drawn
<1>2. CASE event \in Offered(TopTransitions,
                             InScope(TopTransitions, pos.state, ctx))
  BY <1>2, TopDrawn DEF Offered, InScope, Drawn
<1>3. CASE event \in Offered(CommonTransitions, CommonInScope(pos.state, ctx))
  <2>1. PICK k \in CommonInScope(pos.state, ctx) :
          event = CommonTransitions[k].event
    BY <1>3 DEF Offered
  <2>2. Drawn(AsTransition(CommonTransitions[k], pos.state), pos)
    BY <2>1, CommonDrawn DEF CommonInScope
  <2> QED  BY <2>1, <2>2 DEF Drawn, AsTransition
<1> QED  BY <1>1, <1>2, <1>3 DEF possibleEventsFor

-----------------------------------------------------------------------------
(* Journeys follow edges.                                                  *)

\* The journeys of the row and of its copy are explained, and so is what the
\* event in progress is about to add.
Traced ==
  /\ row # None => Shown(row.journey)
  /\ pc \notin {"idle", "failed"} => Shown(wf.journey)
  /\ pc \in {"gate", "apply"} => \A t \in tran : Drawn(t, wf.pos)
  /\ pc \in {"fork", "enter"} => Explained(from, wf.pos)

\* One more step along an edge.
LEMMA ShownExtends ==
  ASSUME NEW journey \in Journeys, NEW p \in Positions, NEW q \in Positions,
         Shown(journey), Explained(p, q)
  PROVE  Shown(Append(journey, Entry(p, q)))
<1>1. Entry(p, q) \in [from : Positions \cup {None}, to : Positions]
  BY DEF Entry
<1> DEFINE longer == Append(journey, Entry(p, q))
<1>2. /\ Len(longer) = Len(journey) + 1
      /\ longer[Len(journey) + 1] = Entry(p, q)
      /\ \A n \in 1 .. Len(journey) : longer[n] = journey[n]
  BY <1>1, AppendProperties DEF Journeys
<1>3. Len(journey) \in Nat
  BY DEF Journeys
<1>4. Entry(p, q).from = p /\ Entry(p, q).to = q
  BY DEF Entry
<1> QED  BY <1>2, <1>3, <1>4 DEF Shown

\* A transition that stays where it is.
LEMMA InternalExplained ==
  ASSUME NEW p \in Positions, NEW t, Drawn(t, p), t.kind = "INTERNAL"
  PROVE  Explained(p, p)
BY DEF Drawn, Explained, Follows

\* A local one.
LEMMA LocalExplained ==
  ASSUME NEW p \in Positions, NEW t, Drawn(t, p), t.kind # "INTERNAL",
         StaysInside(t, p)
  PROVE  Explained(p, [p EXCEPT !.sub = t.target])
BY DEF Drawn, Explained, Follows, StaysInside

\* Any other one, by history or not.
LEMMA LeavingExplained ==
  ASSUME NEW p \in Positions, NEW t, Drawn(t, p), t.kind # "INTERNAL",
         ~StaysInside(t, p), NEW history, NEW q \in resolveTarget(t, history)
  PROVE  Explained(p, q)
<1>1. q.state = t.target
  BY DEF resolveTarget, Enter
<1>2. q.state \in Composites => q.sub = EnteredSubstate(t, history)
  BY DEF resolveTarget, Enter
<1>3. q.state \in Composites =>
        t.entersHistory \/ q.sub = InitialSubstate[q.state]
  BY <1>1, <1>2 DEF EnteredSubstate
<1> QED  BY <1>1, <1>3 DEF Drawn, Explained, Follows, StaysInside

\* Every step.
LEMMA TracedStep ==
  ASSUME TypeOK, Traced, [Next]_vars
  PROVE  Traced'
<1>1. CASE Beside
  BY <1>1 DEF Beside, Traced, eventVars
<1>2. CASE Drop
  BY <1>2 DEF Drop, Traced
<1>3. CASE Take
  <2>1. PICK event : Match(event)
    BY <1>3 DEF Take
  <2>2. row.pos \in Positions
    BY <2>1 DEF Match, TypeOK, Rows
  <2>3. \A t \in tran' : Drawn(t, row.pos)
    BY <2>1, <2>2, CandidateDrawn DEF Match
  <2> QED  BY <2>1, <2>3 DEF Match, Traced
<1>4. ASSUME NEW t \in tran, ApplyInternal(t) PROVE Traced'
  <2>1. wf.pos \in Positions /\ wf.journey \in Journeys
    BY <1>4, RowUpdates DEF ApplyInternal, TypeOK, Journeys
  <2>2. Shown(wf.journey) /\ Explained(wf.pos, wf.pos)
    BY <1>4, <2>1, InternalExplained DEF ApplyInternal, Traced
  <2>3. Shown(wf'.journey)
    BY <1>4, <2>1, <2>2, ShownExtends, InternalEffect
  <2> QED  BY <1>4, <2>3 DEF ApplyInternal, Traced
<1>5. ASSUME NEW t \in tran, LeaveSubstate(t) PROVE Traced'
  <2>1. wf \in Rows /\ wf.pos \in Positions
    BY <1>5 DEF LeaveSubstate, TypeOK, Rows
  <2>2. wf'.pos = [wf.pos EXCEPT !.sub = t.target]
    BY <1>5, <2>1 DEF LeaveSubstate, Rows
  <2>3. Explained(wf.pos, wf'.pos)
    BY <1>5, <2>1, <2>2, LocalExplained DEF LeaveSubstate, Traced
  <2>4. wf'.journey = wf.journey
    BY <1>5, SubstateEffect
  <2> QED  BY <1>5, <2>3, <2>4 DEF LeaveSubstate, Traced
<1>6. ASSUME NEW t \in tran, LeaveState(t) PROVE Traced'
  <2> DEFINE h == Remember(wf.pos, wf.history)
             g == IF t.kind # "FORK" /\ IsJoin(t) THEN 0 ELSE wf.gen
  <2>1. wf \in Rows /\ wf.pos \in Positions
    BY <1>6 DEF LeaveState, TypeOK, Rows
  <2>2. PICK ctx \in After({wf.pos.state, wf.pos.sub} \cap Scripted # {},
                           wf.ctx),
             p \in resolveTarget(t, h) :
          wf' = [wf EXCEPT !.ctx = ctx, !.pos = p, !.history = h, !.gen = g]
    BY <1>6, StateLeft
  <2>3. Explained(wf.pos, p)
    BY <1>6, <2>1, LeavingExplained DEF LeaveState, Traced
  <2>4. wf'.pos = p
    <3> HIDE DEF h, g
    <3> QED  BY <2>1, <2>2 DEF Rows
  <2>5. /\ wf'.journey = wf.journey /\ from' = wf.pos
        /\ pc' \in {"fork", "enter"} /\ row' = row /\ pc = "apply"
    BY <1>6, StateEffect DEF LeaveState
  <2> QED  BY <2>3, <2>4, <2>5 DEF Traced
<1>7. ASSUME NEW t \in tran, EnterState(t) PROVE Traced'
  <2>1. /\ wf.pos \in Positions /\ wf.journey \in Journeys
        /\ from \in Positions
    BY <1>7, RowUpdates DEF EnterState, TypeOK, Journeys
  <2>2. Shown(wf.journey) /\ Explained(from, wf.pos)
    BY <1>7 DEF EnterState, Traced
  <2>3. Shown(wf'.journey)
    BY <1>7, <2>1, <2>2, ShownExtends, EnterEffect
  <2> QED  BY <1>7, <2>3 DEF EnterState, Traced
<1>8. ASSUME NEW t \in tran, NEW n \in DOMAIN t.forks,
             SpawnChild(t, n) \/ SpawnFails(n)
      PROVE  Traced'
  BY <1>8 DEF SpawnChild, SpawnFails, Traced
<1>9. CASE ForkCompletes
  BY <1>9, ForkEffect DEF ForkCompletes, Traced
<1>10. CASE ChainHop
  <2>1. wf.pos \in Positions
    BY <1>10 DEF ChainHop, TypeOK, Rows
  <2>2. \A t \in tran' : Drawn(t, wf.pos)
    BY <1>10, <2>1, AutomaticDrawn DEF ChainHop
  <2> QED  BY <1>10, <2>2 DEF ChainHop, Traced
<1>11. CASE Gate \/ ChainEnds
  BY <1>11 DEF Gate, ChainEnds, Traced, eventVars
<1>12. CASE InsertRow
  BY <1>12, InsertEffect DEF InsertRow, Traced
<1>13. CASE CommitRow
  BY <1>13, CommitEffect DEF CommitRow, Traced
<1>14. CASE Publish
  BY <1>14 DEF Publish, Traced
<1> QED  BY <1>1, <1>2, <1>3, <1>4, <1>5, <1>6, <1>7, <1>8, <1>9, <1>10,
            <1>11, <1>12, <1>13, <1>14, StepKinds DEF Forward, Transit

\* BuildGraph against applyTransition and possibleEventsFor: an instance's
\* position is drawn, its journey follows edges and its events label edges.
THEOREM GraphExplains == SafeSpec => []GraphShowsEveryMove
<1>1. Init => Traced
  BY DEF Init, Traced, Shown
<1>2. IInv /\ Traced /\ [Next]_vars => Traced'
  BY TracedStep DEF IInv
<1>3. IInv /\ Traced => GraphShowsEveryMove
  <2> SUFFICES ASSUME TypeOK, Traced, row # None PROVE GraphShowsEveryMove
    BY DEF IInv, GraphShowsEveryMove
  <2> DEFINE data == buildVisualizationData(row)
             here == [state |-> data.currentState, sub |-> data.currentSubstate]
  <2>1. row.pos \in Positions
    BY DEF TypeOK, Rows
  <2>2. /\ here = row.pos /\ data.graph = BuildGraph
        /\ data.journey = row.journey
        /\ data.possibleEvents = possibleEventsFor(row.pos, row.ctx)
    BY <2>1 DEF buildVisualizationData, Positions
  <2>3. IsDrawn(BuildGraph, row.pos)
    <3> DEFINE p == row.pos
    <3>1. BuildGraph.nodes = GraphNodes
      BY DEF BuildGraph
    <3>2. p.state \in States
          /\ (p.sub # None => p.state \in Composites
                              /\ p.sub \in Substates[p.state])
      BY <2>1 DEF Positions
    <3>3. GraphNode(p.state, None) \in GraphNodes
      BY <3>2 DEF GraphNodes
    <3>4. p.sub # None => GraphNode(p.sub, p.state) \in GraphNodes
      BY <3>2 DEF GraphNodes
    <3>5. \A id, parent : /\ GraphNode(id, parent).id = id
                          /\ GraphNode(id, parent).parentId = parent
      BY DEF GraphNode
    <3> QED  BY <3>1, <3>3, <3>4, <3>5 DEF IsDrawn
  <2>4. Shown(row.journey)
    BY DEF Traced
  <2> HIDE DEF data
  <2> QED  BY <2>1, <2>2, <2>3, <2>4, OfferDrawn
           DEF GraphShowsEveryMove, Shown, Explained, data
<1> QED  BY <1>1, <1>2, <1>3, Inductive, PTL DEF SafeSpec
=============================================================================
