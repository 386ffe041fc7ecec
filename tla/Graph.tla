-------------------------------- MODULE Graph --------------------------------
(***************************************************************************)
(* dto/graph.go and engine/visualizer.go: the nodes and edges that the     *)
(* visualizer draws of a definition, and the data it gets of an instance.  *)
(* A node and an edge keep the fields that say where an instance can be    *)
(* and go; texts, and the declared initial state, are display only.        *)
(***************************************************************************)
EXTENDS Instance

GraphNode(id, parent) ==
  [id |-> id, parentId |-> parent, isEnd |-> id \in EndStates,
   substates |-> IF id \in Composites THEN Substates[id] ELSE {},
   history |-> id \in History]

GraphNodes ==
  {GraphNode(s, None) : s \in States}
    \cup UNION {{GraphNode(s, c) : s \in Substates[c]} : c \in Composites}

\* The scope is "top", "common" or a composite's: its own edges are told apart
\* by the scope only, since their sources are the ids of its substates.
edgeFor(index, scope, t) ==
  [id |-> <<scope, t.source, t.target, t.event, index>>, scope |-> scope,
   source |-> t.source, target |-> t.target, event |-> t.event,
   trigger |-> t.trigger, kind |-> t.kind, join |-> IsJoin(t),
   after |-> t.after, entersHistory |-> t.entersHistory, forks |-> t.forks]

EdgesOf(scope, list) == {edgeFor(k, scope, list[k]) : k \in DOMAIN list}

\* Mutant: a common transition is drawn from one of its sources.
CommonEdgesOnce ==
  {edgeFor(k, <<"common">>,
           LET ct == CommonTransitions[k]
           IN AsTransition(ct, CHOOSE s \in ct.sources : TRUE)) :
     k \in DOMAIN CommonTransitions}

\* One edge per source; the same fields survive as when it fires.
CommonEdges ==
  UNION {{edgeFor(k, <<"common">>, AsTransition(CommonTransitions[k], s)) :
            s \in CommonTransitions[k].sources} :
           k \in DOMAIN CommonTransitions}

BuildGraph ==
  [endStates |-> EndStates,
   nodes |-> GraphNodes,
   edges |-> EdgesOf(<<"top">>, TopTransitions) \cup CommonEdges
               \cup UNION {EdgesOf(<<"sub", c>>, SubTransitions[c]) :
                             c \in Composites}]

\* GetVisualizationData: the row, the events it could accept, its children,
\* the graph.
buildVisualizationData(wi) ==
  [currentState |-> wi.pos.state, currentSubstate |-> wi.pos.sub,
   complete |-> wi.complete, graph |-> BuildGraph, journey |-> wi.journey,
   possibleEvents |-> possibleEventsFor(wi.pos, wi.ctx),
   children |-> {[id |-> k, complete |-> kids[k].complete] :
                   k \in {n \in DOMAIN kids : ~kids[n].withdrawn}}]

-----------------------------------------------------------------------------
(* What a reader of the drawing takes it to mean.                          *)

IsDrawn(graph, p) ==
  /\ \E n \in graph.nodes : n.id = p.state /\ n.parentId = None
  /\ p.sub # None =>
       \E n \in graph.nodes : n.id = p.sub /\ n.parentId = p.state

LeavesFrom(e, p) ==
  IF e.scope[1] = "sub" THEN e.scope[2] = p.state /\ e.source = p.sub
                        ELSE e.source = p.state

\* A local edge changes the substate, any other one enters its target at the
\* initial substate or, by history, at any; an INTERNAL edge stays.
Follows(e, p, q) ==
  /\ LeavesFrom(e, p)
  /\ IF e.kind = "INTERNAL" THEN q = p
     ELSE IF p.sub # None /\ e.target \in Substates[p.state]
     THEN q = [p EXCEPT !.sub = e.target]
     ELSE /\ q.state = e.target
          /\ q.state \in Composites =>
               e.entersHistory \/ q.sub = InitialSubstate[q.state]

\* The drawing explains the instance: every step of its journey follows an
\* edge between drawn nodes, its position is a drawn node, and every event on
\* offer labels an edge that leaves it (BuildGraph flattens the same scopes
\* that applyTransition and possibleEventsFor search, without sharing code).
GraphShowsEveryMove ==
  row # None =>
    LET data == buildVisualizationData(row)
        here == [state |-> data.currentState, sub |-> data.currentSubstate]
    IN /\ IsDrawn(data.graph, here)
       /\ \A n \in 2 .. Len(data.journey) :
            \E e \in data.graph.edges :
              Follows(e, data.journey[n].from, data.journey[n].to)
       /\ \A event \in data.possibleEvents :
            \E e \in data.graph.edges : e.event = event /\ LeavesFrom(e, here)
=============================================================================
