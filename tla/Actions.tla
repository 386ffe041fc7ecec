------------------------------- MODULE Actions -------------------------------
(* What guards and actions do with a context map (model/guard.go,            *)
(* model/executions.go, ExecuteActions of model/statemachine.go).            *)
(*   - A string is a literal or one placeholder, "${k}".                     *)
(*   - Go ranges over a map in any order, another one each time: an action   *)
(*     has a set of outcomes.                                                *)
EXTENDS Integers, Sequences, FiniteSets, Functions

CONSTANTS
  Keys,      \* of the context map; ChildKeys are among them
  Literals,  \* strings without a placeholder
  Rank,      \* [those that are numbers -> their order]; NaN is not one
  NoGuard,
  ChildId    \* what stands for the ids of new children, a literal

ChildKeys == {"childWorkflowId", "childWorkflowIds"}

Ref(k) == <<k>>

ASSUME ActionsAssumption ==
  /\ ChildKeys \subseteq Keys
  /\ DOMAIN Rank \subseteq Literals /\ \A v \in DOMAIN Rank : Rank[v] \in Int
  /\ ChildId \in Literals
  /\ \A k \in Keys : Ref(k) \notin Literals

Strings == Literals \cup {Ref(k) : k \in Keys}
KeySets == {K \in SUBSET Keys : IsFiniteSet(K)}
ContextMaps == UNION {[K -> Strings] : K \in KeySets}
Empty == [k \in {} |-> k]

Put(ctx, k, v) == [l \in DOMAIN ctx \cup {k} |-> IF l = k THEN v ELSE ctx[l]]
Merge(ctx, more) ==
  [l \in DOMAIN ctx \cup DOMAIN more |->
     IF l \in DOMAIN more THEN more[l] ELSE ctx[l]]

-----------------------------------------------------------------------------
(* Guards.                                                                 *)

Tests == [key : Keys, value : Literals,
          op : {"NONE", "EQ", "NEQ", "GT", "GTE", "LT", "LTE", "EXISTS",
                "NOT_EXISTS"}]
Guards == {NoGuard} \cup Tests

ASSUME NoGuardAssumption == NoGuard \notin Tests

\* A number that does not parse blocks, whatever the comparison.
Compare(op, v, w) ==
  /\ {v, w} \subseteq DOMAIN Rank
  /\ \/ op = "GT" /\ Rank[v] > Rank[w]
     \/ op = "GTE" /\ Rank[v] >= Rank[w]
     \/ op = "LT" /\ Rank[v] < Rank[w]
     \/ op = "LTE" /\ Rank[v] <= Rank[w]

Evaluate(g, ctx) ==
  g # NoGuard =>
    IF g.key \in DOMAIN ctx
    THEN \/ g.op = "EXISTS"
         \/ g.op = "EQ" /\ ctx[g.key] = g.value
         \/ g.op = "NEQ" /\ ctx[g.key] # g.value
         \/ Compare(g.op, ctx[g.key], g.value)
    ELSE g.op \in {"NOT_EXISTS", "NEQ"}

-----------------------------------------------------------------------------
(* Interpolation.                                                          *)

\* The orders in which Go may go through the keys of a map.
Orders(S) == Bijection(1 .. Cardinality(S), S)

Replace(s, k, v) == IF s = Ref(k) THEN v ELSE s

\* What s has become after each key of an order.
Replaced(s, order, ctx) ==
  LET t[n \in 0 .. Cardinality(DOMAIN ctx)] ==
        IF n = 0 THEN s ELSE Replace(t[n - 1], order[n], ctx[order[n]])
  IN t

interpolate(s, ctx) ==
  {Replaced(s, order, ctx)[Cardinality(DOMAIN ctx)] :
     order \in Orders(DOMAIN ctx)}

\* The variables of an HTTP action: each is interpolated by itself.
Bodies(vars, ctx) ==
  {b \in [DOMAIN vars -> Strings] :
     \A k \in DOMAIN vars : b[k] \in interpolate(vars[k], ctx)}

\* The maps that ctx may have become after each variable of an order, which is
\* interpolated in the map that the earlier ones have changed.
MapsAfter(vars, order, ctx) ==
  LET maps[n \in 0 .. Cardinality(DOMAIN vars)] ==
        IF n = 0 THEN {ctx}
        ELSE UNION {{Put(m, order[n], v) : v \in interpolate(vars[order[n]], m)} :
                      m \in maps[n - 1]}
  IN maps

executeSetContextMapAction(vars, ctx) ==
  UNION {MapsAfter(vars, order, ctx)[Cardinality(DOMAIN vars)] :
           order \in Orders(DOMAIN vars)}

-----------------------------------------------------------------------------
(* What an author expects of them.                                         *)

\* A guard is about the value of its key, if there is one; only numbers compare.
Holds(g, ctx) ==
  LET found == {ctx[k] : k \in {g.key} \cap DOMAIN ctx}
      more == \E v \in found \cap DOMAIN Rank :
                g.value \in DOMAIN Rank /\ Rank[v] > Rank[g.value]
      less == \E v \in found \cap DOMAIN Rank :
                g.value \in DOMAIN Rank /\ Rank[v] < Rank[g.value]
      same == \E v \in found \cap DOMAIN Rank :
                g.value \in DOMAIN Rank /\ Rank[v] = Rank[g.value]
  IN \/ g = NoGuard
     \/ g.op = "EXISTS" /\ found # {}
     \/ g.op = "NOT_EXISTS" /\ found = {}
     \/ g.op = "EQ" /\ found = {g.value}
     \/ g.op = "NEQ" /\ found # {g.value}
     \/ g.op \in {"GT", "GTE"} /\ more
     \/ g.op \in {"LT", "LTE"} /\ less
     \/ g.op \in {"GTE", "LTE"} /\ same

\* A map whose values are literals is read the same in every order.
Flat(ctx) == \A k \in DOMAIN ctx : ctx[k] \in Literals

Lookup(s, ctx) ==
  IF \E k \in DOMAIN ctx : s = Ref(k)
  THEN ctx[CHOOSE k \in DOMAIN ctx : s = Ref(k)] ELSE s

\* ...and a set of placeholders all at once.
Filled(vars, ctx) == [k \in DOMAIN vars |-> Lookup(vars[k], ctx)]

\* No variable is the placeholder of one that the same action sets.
Independent(vars) ==
  \A k, l \in DOMAIN vars : k # l => vars[k] # Ref(l)
=============================================================================
