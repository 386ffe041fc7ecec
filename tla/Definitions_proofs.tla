------------------------- MODULE Definitions_proofs -------------------------
(***************************************************************************)
(* Proofs about Definitions: registered definitions are complete, seeding  *)
(* writes all or nothing of a bad directory, and events do what their      *)
(* definition says although Go goes through maps in any order.             *)
(***************************************************************************)
EXTENDS Definitions, FiniteSetTheorems, TLAPS

-----------------------------------------------------------------------------
(* Induction on numbers, as a fact about sets; what is defined by recursion  *)
(* up to a number.                                                         *)

\* A set of numbers has a least one.
LEMMA LeastNumber ==
  ASSUME NEW T, T \subseteq Nat, T # {}
  PROVE  \E x \in T : \A y \in T : x <= y
<1>1. PICK x \in T : \A y \in T : ~ (<<y, x>> \in OpToRel(<, Nat))
  BY NatLessThanWellFounded, WFMin
<1>2. \A y \in T : ~(y < x)
  BY <1>1 DEF OpToRel
<1> QED  BY <1>2

\* A set with 0 and the successor of each of its members below N has all to N.
LEMMA AllUpTo ==
  ASSUME NEW N \in Nat, NEW T, T \subseteq 0 .. N, 0 \in T,
         \A n \in T : n < N => n + 1 \in T
  PROVE  T = 0 .. N
<1> DEFINE Missing == (0 .. N) \ T
<1> SUFFICES ASSUME Missing # {} PROVE FALSE
  OBVIOUS
<1>1. Missing \subseteq Nat
  OBVIOUS
<1> HIDE DEF Missing
<1>2. PICK x \in Missing : \A y \in Missing : x <= y
  BY <1>1, LeastNumber
<1> USE DEF Missing
<1>3. x \in 0 .. N /\ x # 0 /\ x - 1 \in 0 .. N /\ x - 1 \notin Missing
  BY <1>2
<1> QED  BY <1>2, <1>3

\* A function is what is defined by iterating a step that is another function.
IsStep(step, N, S) == step \in [(1 .. N) \X S -> S]
Iterates(g, step, a, N, S) ==
  g \in [0 .. N -> S] /\ g[0] = a /\ \A n \in 1 .. N : g[n] = step[<<n, g[n - 1]>>]

LEMMA Iteration ==
  ASSUME NEW N \in Nat, NEW S, NEW a \in S, NEW step, IsStep(step, N, S)
  PROVE  \E g : Iterates(g, step, a, N, S)
<1> USE DEF IsStep
<1> DEFINE Upto(m) == {g \in [0 .. m -> S] :
              g[0] = a /\ \A n \in 1 .. m : g[n] = step[<<n, g[n - 1]>>]}
           T == {m \in 0 .. N : Upto(m) # {}}
<1>1. 0 \in T
  <2>1. [n \in 0 .. 0 |-> a] \in Upto(0)
    OBVIOUS
  <2> QED  BY <2>1
<1>2. ASSUME NEW m \in T, m < N PROVE m + 1 \in T
  <2>1. PICK g \in Upto(m) : TRUE
    BY <1>2
  <2>2. m + 1 \in 1 .. N /\ g[m] \in S
    BY <1>2, <2>1
  <2> DEFINE h == [n \in 0 .. (m + 1) |->
                     IF n = m + 1 THEN step[<<m + 1, g[m]>>] ELSE g[n]]
  <2>3. h \in [0 .. (m + 1) -> S]
    BY <2>1, <2>2
  <2>4. h[0] = a
    BY <2>1, <1>2
  <2>5. ASSUME NEW n \in 1 .. (m + 1) PROVE h[n] = step[<<n, h[n - 1]>>]
    <3>1. CASE n = m + 1
      <4>1. h[m + 1] = step[<<m + 1, g[m]>>] /\ h[m] = g[m]
        BY <1>2
      <4>2. n - 1 = m
        BY <3>1, <1>2
      <4> QED  BY <3>1, <4>1, <4>2
    <3>2. CASE n # m + 1
      <4>1. n \in 1 .. m /\ n - 1 \in 0 .. m
        BY <3>2, <1>2
      <4> QED  BY <4>1, <2>1
    <3> QED  BY <3>1, <3>2
  <2>6. h \in Upto(m + 1)
    BY <2>3, <2>4, <2>5
  <2> HIDE DEF Upto
  <2> QED  BY <2>2, <2>6
<1> HIDE DEF Upto
<1>3. T = 0 .. N
  BY <1>1, <1>2, AllUpTo
<1>4. Upto(N) # {}
  BY <1>3
<1> QED  BY <1>4 DEF Upto, Iterates

-----------------------------------------------------------------------------
(* ApplyDefaults reaches every element and changes fields only.             *)

\* ApplyDefaults goes through every list of every type.
LEMMA VisitsMembers ==
  ASSUME NEW kind \in DOMAIN Members
  PROVE  Members[kind] \subseteq Visited(kind)
  BY DEF Members, Visited, ActionKinds

LEMMA ReachesAll ==
  ASSUME NEW def, IsDefinition(def), NEW p \in DOMAIN def
  PROVE  Reached(def, p)
<1> SUFFICES ASSUME NEW n \in 1 .. Len(p)
             PROVE  p[n][1] \in Visited(Owner(def, p, n).kind)
  BY DEF Reached
<1>1. /\ IsElement(Owner(def, p, n))
      /\ p[n][1] \in Members[Owner(def, p, n).kind]
  BY DEF IsDefinition, Owner
<1> QED  BY <1>1, VisitsMembers DEF IsElement

\* What ApplyDefaults makes of an element.
NewFields(def, p, now) ==
  [f \in Fields(def[p].kind) |-> Field(def, p, f, now)]

LEMMA Applied ==
  ASSUME NEW def, IsDefinition(def), NEW now, NEW p \in DOMAIN def
  PROVE  LET new == ApplyDefaults(def, now)
         IN /\ DOMAIN new = DOMAIN def
            /\ DOMAIN new[p] = DOMAIN def[p]
            /\ new[p].kind = def[p].kind
            /\ new[p].field = NewFields(def, p, now)
            /\ def[p].kind = "transition" => new[p].guard = def[p].guard
            /\ def[p].kind \in {"HTTP", "SET"} =>
                 new[p].vars = def[p].vars /\ new[p].expect = def[p].expect
<1> DEFINE new == ApplyDefaults(def, now)
<1>1. /\ DOMAIN new = DOMAIN def
      /\ new[p] = [def[p] EXCEPT !.field =
                     [f \in DOMAIN def[p].field |-> Field(def, p, f, now)]]
  BY ReachesAll DEF ApplyDefaults, Completed
<1>2. IsElement(def[p])
  BY DEF IsDefinition
<1> HIDE DEF new
<1>3. new[p].field = NewFields(def, p, now)
  BY <1>1, <1>2 DEF IsElement, NewFields
<1>4. /\ DOMAIN new[p] = DOMAIN def[p]
      /\ \A f \in DOMAIN def[p] \ {"field"} : new[p][f] = def[p][f]
  BY <1>1
<1>5. new[p].kind = def[p].kind
  BY <1>2, <1>4 DEF IsElement
<1>6. def[p].kind = "transition" => new[p].guard = def[p].guard
  BY <1>2, <1>4 DEF IsElement
<1>7. def[p].kind \in {"HTTP", "SET"} =>
                 new[p].vars = def[p].vars /\ new[p].expect = def[p].expect
  BY <1>2, <1>4 DEF IsElement
<1> QED  BY <1>1, <1>3, <1>4, <1>5, <1>6, <1>7 DEF new

\* A definition remains one, with its name.
LEMMA AppliedIsDefinition ==
  ASSUME NEW def, IsDefinition(def), NEW now
  PROVE  /\ IsDefinition(ApplyDefaults(def, now))
         /\ Name(ApplyDefaults(def, now)) = Name(def)
<1> DEFINE new == ApplyDefaults(def, now)
<1>1. /\ DOMAIN new = DOMAIN def
      /\ \A p \in DOMAIN def : new[p].kind = def[p].kind
  BY Applied DEF ApplyDefaults
<1>2. <<>> \in DOMAIN def /\ def[<<>>].kind = "workflow"
  BY DEF IsDefinition
<1>3. new[<<>>].field.id = def[<<>>].field.id
  <2>1. new[<<>>].field = NewFields(def, <<>>, now)
    BY <1>2, Applied
  <2>2. Field(def, <<>>, "id", now) = def[<<>>].field.id
    BY <1>2 DEF Field, Defaults
  <2>3. "id" \in Fields("workflow")
    BY DEF Fields, StateKinds
  <2>4. NewFields(def, <<>>, now).id = Field(def, <<>>, "id", now)
    BY <1>2, <2>3 DEF NewFields
  <2> HIDE DEF new
  <2> QED  BY <2>1, <2>2, <2>4
<1>4. ASSUME NEW p \in DOMAIN def PROVE IsElement(new[p])
  <2>1. IsElement(def[p])
    BY DEF IsDefinition
  <2>2. /\ DOMAIN new[p] = DOMAIN def[p] /\ new[p].kind = def[p].kind
        /\ DOMAIN new[p].field = Fields(def[p].kind)
        /\ def[p].kind = "transition" => new[p].guard = def[p].guard
        /\ def[p].kind \in {"HTTP", "SET"} =>
             new[p].vars = def[p].vars /\ new[p].expect = def[p].expect
    <3>1. DOMAIN NewFields(def, p, now) = Fields(def[p].kind)
      BY DEF NewFields
    <3> QED  BY <3>1, Applied
  <2> HIDE DEF new
  <2> QED  BY <2>1, <2>2 DEF IsElement
<1> HIDE DEF new
<1>5. /\ Indices(new) = Indices(def) /\ Alternatives(new) = Alternatives(def)
      /\ \A k : ActionIndices(new, k) = ActionIndices(def, k)
  BY <1>1 DEF Indices, Alternatives, ActionIndices
<1>6. ASSUME NEW p \in DOMAIN new, NEW n \in 1 .. Len(p)
      PROVE  /\ SubSeq(p, 1, n - 1) \in DOMAIN new
             /\ p[n][1] \in Members[Owner(new, p, n).kind]
  BY <1>1 DEF IsDefinition, Owner
<1>7. IsDefinition(new)
  <2>1. /\ DOMAIN new \subseteq Paths /\ IsFiniteSet(DOMAIN new)
        /\ {<<>>, << <<"states", 1>> >>} \subseteq DOMAIN new
    BY <1>1 DEF IsDefinition
  <2>2. new[<<>>].kind = "workflow" /\ new[<<>>].field.id \in Names
    BY <1>1, <1>2, <1>3 DEF IsDefinition
  <2>3. \A p \in DOMAIN new : p # <<>> => new[p].kind \in ElementKinds[p[Len(p)][1]]
    BY <1>1 DEF IsDefinition
  <2>4. \A k \in Alternatives(new) :
          \E n \in {0} \cup Indices(new) : ActionIndices(new, k) = 1 .. n
    BY <1>5 DEF IsDefinition
  <2> QED  BY <1>1, <1>4, <1>6, <2>1, <2>2, <2>3, <2>4 DEF IsDefinition
<1> QED  BY <1>3, <1>7 DEF new, Name

-----------------------------------------------------------------------------
(* What ApplyDefaults leaves is complete, and left as it is the next time.  *)

LEMMA UnsetIsNothing ==
  Unset \notin {"1.0.0", "USER", "EXTERNAL", "NEW", "IN_PROGRESS", "GET"}
             \cup StateKinds
  BY Zenon DEF Unset, StateKinds

LEMMA FirstMember ==
  ASSUME NEW def, IsDefinition(def), NEW p \in DOMAIN def,
         NEW list \in {"states", "substates"},
         Append(p, <<list, 1>>) \in DOMAIN def
  PROVE  def[Append(p, <<list, 1>>)].kind \in StateKinds
<1> DEFINE first == Append(p, <<list, 1>>)
<1>1. p \in Paths /\ list \in DOMAIN ElementKinds
  BY DEF IsDefinition, ElementKinds
<1>2. /\ Len(first) = Len(p) + 1 /\ first[Len(p) + 1] = <<list, 1>>
      /\ Len(p) \in Nat
  BY <1>1 DEF Paths
<1>3. first # <<>>
  BY <1>2
<1>4. def[first].kind \in ElementKinds[first[Len(first)][1]]
  BY <1>3 DEF IsDefinition
<1>5. first[Len(first)][1] = list
  BY <1>2
<1>6. def[first].kind \in ElementKinds[list]
  BY <1>4, <1>5
<1> HIDE DEF first
<1>7. ElementKinds[list] = StateKinds
  BY DEF ElementKinds
<1> QED  BY <1>6, <1>7 DEF first

LEMMA NewField ==
  ASSUME NEW def, IsDefinition(def), NEW now, NEW p \in DOMAIN def,
         NEW f \in Fields(def[p].kind)
  PROVE  ApplyDefaults(def, now)[p].field[f] = Field(def, p, f, now)
<1>1. NewFields(def, p, now)[f] = Field(def, p, f, now)
  BY DEF NewFields
<1> QED  BY <1>1, Applied

\* The fields of each kind, and those that have a default.
LEMMA FieldsOfKinds ==
  /\ Fields("workflow") = {"id", "kind", "version", "creationDate",
                           "updateDate", "initialState"}
  /\ \A kind \in StateKinds : Fields(kind) = StateFields
  /\ \A kind \in {"transition", "common"} : Fields(kind) = {"trigger", "kind"}
  /\ \A kind \in ActionKinds : Fields(kind) = {"method"}
  BY DEF Fields, StateKinds, ActionKinds

LEMMA DefaultsOfKinds ==
  ASSUME NEW def, NEW p, NEW now
  PROVE  LET d == Defaults(def, p, now)
         IN /\ def[p].kind = "workflow" =>
                 /\ DOMAIN d = {"version", "creationDate", "updateDate",
                               "initialState"}
                 /\ d.version = "1.0.0"
                 /\ d.creationDate = now /\ d.updateDate = now
                 /\ d.initialState = FirstId(def, p, "states")
            /\ def[p].kind \in StateKinds =>
                 /\ DOMAIN d = StateFields \ {"id"}
                 /\ d.type = def[p].kind /\ d.status = "NEW"
                 /\ d.productStatus = "IN_PROGRESS"
                 /\ d.bulletName = def[p].field.id
                 /\ d.initialSubstate = IF def[p].kind = "CompositeState"
                                        THEN FirstId(def, p, "substates") ELSE Unset
            /\ def[p].kind \in {"transition", "common"} =>
                 /\ DOMAIN d = {"trigger", "kind"}
                 /\ d.trigger = "USER" /\ d.kind = "EXTERNAL"
            /\ def[p].kind = "HTTP" => DOMAIN d = {"method"} /\ d.method = "GET"
            /\ def[p].kind \in {"SET", "CHILD"} => DOMAIN d = {}
<1>1. CASE def[p].kind = "workflow"
  BY <1>1 DEF Defaults, StateKinds
<1>2. CASE def[p].kind \in StateKinds
  BY <1>2 DEF Defaults, StateKinds, StateFields
<1>3. CASE def[p].kind \in {"transition", "common"}
  BY <1>3 DEF Defaults, StateKinds
<1>4. CASE def[p].kind \in ActionKinds
  BY <1>4 DEF Defaults, StateKinds, ActionKinds, Empty
<1>5. CASE def[p].kind \notin {"workflow", "transition", "common"} \cup StateKinds
                                \cup ActionKinds
  BY <1>5 DEF ActionKinds
<1> QED  BY <1>1, <1>2, <1>3, <1>4, <1>5

LEMMA KindsOfElements ==
  DOMAIN Members = {"workflow", "transition", "common"} \cup StateKinds
                     \cup ActionKinds
  BY DEF Members, StateKinds, ActionKinds

LEMMA IdKept ==
  ASSUME NEW def, IsDefinition(def), NEW now, NEW p \in DOMAIN def,
         def[p].kind \in StateKinds \cup {"workflow"}
  PROVE  ApplyDefaults(def, now)[p].field.id = def[p].field.id
<1>1. "id" \in Fields(def[p].kind)
  BY FieldsOfKinds DEF StateFields
<1>2. Field(def, p, "id", now) = def[p].field.id
  BY DEF Field, Defaults, StateKinds
<1> QED  BY <1>1, <1>2, NewField

\* The first member of a list keeps its id too.
LEMMA FirstIdKept ==
  ASSUME NEW def, IsDefinition(def), NEW now, NEW p \in DOMAIN def,
         NEW list \in {"states", "substates"}
  PROVE  FirstId(ApplyDefaults(def, now), p, list) = FirstId(def, p, list)
<1>1. DOMAIN ApplyDefaults(def, now) = DOMAIN def
  BY DEF ApplyDefaults
<1>2. ASSUME Append(p, <<list, 1>>) \in DOMAIN def
      PROVE  ApplyDefaults(def, now)[Append(p, <<list, 1>>)].field.id
               = def[Append(p, <<list, 1>>)].field.id
  BY <1>2, FirstMember, IdKept
<1> QED  BY <1>1, <1>2 DEF FirstId

\* A named list has an id to offer.
LEMMA FirstIdNamed ==
  ASSUME NEW def, IsDefinition(def), NEW now, NEW p \in DOMAIN def,
         NEW list \in {"states", "substates"},
         Named(ApplyDefaults(def, now)), Append(p, <<list, 1>>) \in DOMAIN def
  PROVE  FirstId(def, p, list) # Unset
<1> DEFINE first == Append(p, <<list, 1>>)
           new == ApplyDefaults(def, now)
<1>1. def[first].kind \in StateKinds
  BY FirstMember
<1>2. first \in DOMAIN new /\ new[first].kind = def[first].kind
  BY Applied
<1>3. new[first].field.id # Unset
  BY <1>1, <1>2 DEF Named
<1>4. def[first].field.id # Unset
  BY <1>1, <1>3, IdKept
<1> QED  BY <1>4 DEF FirstId

\* No required field of what has been named is empty afterwards.
LEMMA AppliedIsComplete ==
  ASSUME NEW def, IsDefinition(def), NEW now, now # Unset,
         Named(ApplyDefaults(def, now))
  PROVE  Complete(ApplyDefaults(def, now))
<1> DEFINE new == ApplyDefaults(def, now)
<1>1. DOMAIN new = DOMAIN def
  BY DEF ApplyDefaults
<1> SUFFICES ASSUME NEW p \in DOMAIN def
             PROVE  /\ \A f \in Required(new[p].kind) : new[p].field[f] # Unset
                    /\ new[p].kind = "workflow" => new[p].field.kind = "USER"
  BY <1>1 DEF Complete
<1>2. new[p].kind = def[p].kind
  BY Applied
<1>3. def[p].kind \in DOMAIN Members
  BY DEF IsDefinition, IsElement
<1>4. ASSUME NEW f \in Fields(def[p].kind)
      PROVE  new[p].field[f] = Field(def, p, f, now)
  BY NewField
<1>5. def[p].kind \in StateKinds \cup {"workflow"} => new[p].field.id # Unset
  BY <1>1, <1>2 DEF Named
<1>6. def[p].kind \in StateKinds \cup {"workflow"} => def[p].field.id # Unset
  BY <1>5, IdKept
<1>7. CASE def[p].kind = "workflow"
  <2>1. Append(p, <<"states", 1>>) \in DOMAIN def
    BY <1>1, <1>2, <1>7 DEF Named
  <2>2. FirstId(def, p, "states") # Unset
    BY <2>1, FirstIdNamed
  <2>3. Field(def, p, "kind", now) = "USER" /\ "USER" # Unset
    BY <1>7, UnsetIsNothing DEF Field
  <2>4. /\ Field(def, p, "version", now) # Unset
        /\ Field(def, p, "creationDate", now) # Unset
        /\ Field(def, p, "updateDate", now) # Unset
        /\ Field(def, p, "initialState", now) # Unset
    BY <1>7, <2>2, DefaultsOfKinds, UnsetIsNothing DEF Field
  <2> HIDE DEF new
  <2>5. \A f \in Fields("workflow") : new[p].field[f] # Unset
    BY <1>4, <1>5, <1>7, <2>3, <2>4, FieldsOfKinds
  <2>6. Required("workflow") = Fields("workflow")
    BY DEF Required
  <2>7. new[p].field.kind = "USER"
    BY <1>4, <1>7, <2>3, FieldsOfKinds
  <2> QED  BY <1>2, <1>7, <2>5, <2>6, <2>7
<1>8. CASE def[p].kind \in StateKinds
  <2>1. /\ Field(def, p, "type", now) # Unset
        /\ Field(def, p, "status", now) # Unset
        /\ Field(def, p, "productStatus", now) # Unset
        /\ Field(def, p, "bulletName", now) # Unset
    BY <1>6, <1>8, DefaultsOfKinds, UnsetIsNothing DEF Field, StateKinds, StateFields
  <2>2. ASSUME def[p].kind = "CompositeState"
        PROVE  Field(def, p, "initialSubstate", now) # Unset
    <3>1. Append(p, <<"substates", 1>>) \in DOMAIN def
      BY <1>1, <1>2, <2>2 DEF Named
    <3>2. FirstId(def, p, "substates") # Unset
      BY <3>1, FirstIdNamed
    <3> QED  BY <1>8, <2>2, <3>2, DefaultsOfKinds DEF Field, StateFields
  <2>3. /\ def[p].kind = "CompositeState" => Required(def[p].kind) = StateFields
        /\ def[p].kind # "CompositeState" =>
             Required(def[p].kind) = StateFields \ {"initialSubstate"}
    BY <1>8, FieldsOfKinds DEF Required, StateKinds
  <2>4. Fields(def[p].kind) = StateFields
    BY <1>8, FieldsOfKinds
  <2> HIDE DEF new
  <2>5. \A f \in Required(def[p].kind) : new[p].field[f] # Unset
    BY <1>4, <1>5, <1>8, <2>1, <2>2, <2>3, <2>4 DEF StateFields
  <2> QED  BY <1>2, <1>8, <2>5 DEF StateKinds
<1>9. CASE def[p].kind \in {"transition", "common"}
  <2>1. Required(def[p].kind) = Fields(def[p].kind)
    BY <1>9 DEF Required
  <2>2. Field(def, p, "trigger", now) # Unset /\ Field(def, p, "kind", now) # Unset
    BY <1>9, DefaultsOfKinds, UnsetIsNothing DEF Field
  <2> HIDE DEF new
  <2>3. Fields(def[p].kind) = {"trigger", "kind"}
    BY <1>9, FieldsOfKinds
  <2> QED  BY <1>2, <1>4, <1>9, <2>1, <2>2, <2>3
<1>10. CASE def[p].kind \in ActionKinds
  <2>1. CASE def[p].kind = "HTTP"
    <3>1. Required("HTTP") = {"method"}
      BY FieldsOfKinds DEF Required, ActionKinds
    <3>2. Field(def, p, "method", now) # Unset
      BY <2>1, DefaultsOfKinds, UnsetIsNothing DEF Field
    <3> HIDE DEF new
    <3> QED  BY <1>2, <1>4, <2>1, <3>1, <3>2, FieldsOfKinds DEF ActionKinds
  <2>2. CASE def[p].kind # "HTTP"
    <3>1. Required(def[p].kind) = {}
      BY <1>10, <2>2 DEF Required, ActionKinds
    <3> QED  BY <1>2, <1>10, <3>1 DEF ActionKinds
  <2> QED  BY <2>1, <2>2
<1> HIDE DEF new
<1> QED  BY <1>3, <1>7, <1>8, <1>9, <1>10, KindsOfElements

\* A field that is left empty has nothing to be filled in with, at any time.
LEMMA FieldSettled ==
  ASSUME NEW def, IsDefinition(def), NEW now, now # Unset, NEW later,
         NEW p \in DOMAIN def, NEW f \in Fields(def[p].kind)
  PROVE  Field(ApplyDefaults(def, now), p, f, later) = Field(def, p, f, now)
<1> DEFINE new == ApplyDefaults(def, now)
<1>1. new[p].kind = def[p].kind /\ new[p].field[f] = Field(def, p, f, now)
  BY Applied, NewField
<1>2. /\ FirstId(new, p, "states") = FirstId(def, p, "states")
      /\ FirstId(new, p, "substates") = FirstId(def, p, "substates")
  BY FirstIdKept
<1>3. def[p].kind \in StateKinds => new[p].field.id = def[p].field.id
  BY IdKept
<1> HIDE DEF new
<1>4. DOMAIN Defaults(new, p, later) = DOMAIN Defaults(def, p, now)
  <2>1. def[p].kind \in DOMAIN Members
    BY DEF IsDefinition, IsElement
  <2> QED  BY <1>1, <2>1, KindsOfElements, DefaultsOfKinds DEF ActionKinds
<1>5. ASSUME f \in DOMAIN Defaults(def, p, now), Defaults(def, p, now)[f] = Unset
      PROVE  Defaults(new, p, later)[f] = Unset
  <2>1. CASE def[p].kind = "workflow"
    BY <1>1, <1>2, <1>5, <2>1, DefaultsOfKinds
  <2>2. CASE def[p].kind \in StateKinds
    BY <1>1, <1>2, <1>3, <1>5, <2>2, DefaultsOfKinds DEF StateKinds, StateFields
  <2>3. CASE def[p].kind \in {"transition", "common"} \cup ActionKinds
    BY <1>5, <2>3, DefaultsOfKinds, UnsetIsNothing DEF ActionKinds
  <2>4. def[p].kind \in DOMAIN Members
    BY DEF IsDefinition, IsElement
  <2> QED  BY <2>1, <2>2, <2>3, <2>4, KindsOfElements
<1>6. CASE def[p].kind = "workflow" /\ f = "kind"
  BY <1>1, <1>6 DEF Field, new
<1>7. CASE ~(def[p].kind = "workflow" /\ f = "kind")
  <2>1. CASE Field(def, p, f, now) # Unset
    <3>1. new[p].field[f] # Unset
      BY <1>1, <2>1
    <3>2. Field(new, p, f, later) = new[p].field[f]
      BY <1>1, <1>7, <3>1 DEF Field
    <3> QED  BY <1>1, <3>2 DEF new
  <2>2. CASE Field(def, p, f, now) = Unset
    <3>1. new[p].field[f] = Unset
      BY <1>1, <2>2
    <3>2. f \in DOMAIN Defaults(def, p, now) => Defaults(def, p, now)[f] = Unset
      BY <1>7, <2>2 DEF Field
    <3>3. f \in DOMAIN Defaults(new, p, later) => Defaults(new, p, later)[f] = Unset
      BY <1>4, <1>5, <3>2
    <3>4. Field(new, p, f, later) = Unset
      BY <1>1, <1>7, <3>1, <3>3 DEF Field
    <3> QED  BY <2>2, <3>4 DEF new
  <2> QED  BY <2>1, <2>2
<1> QED  BY <1>6, <1>7 DEF new

LEMMA AppliedOnce ==
  ASSUME NEW def, IsDefinition(def), NEW now, now # Unset, NEW later
  PROVE  ApplyDefaults(ApplyDefaults(def, now), later) = ApplyDefaults(def, now)
<1> DEFINE new == ApplyDefaults(def, now)
<1>1. DOMAIN new = DOMAIN def /\ IsDefinition(new)
  BY AppliedIsDefinition DEF ApplyDefaults
<1>2. ASSUME NEW p \in DOMAIN def PROVE Completed(new, p, later) = new[p]
  <2>1. new[p].kind = def[p].kind /\ new[p].field = NewFields(def, p, now)
    BY Applied
  <2>2. IsElement(new[p])
    BY <1>1 DEF IsDefinition
  <2>3. \A f \in Fields(def[p].kind) : Field(new, p, f, later) = Field(def, p, f, now)
    BY FieldSettled
  <2> HIDE DEF new
  <2>4. DOMAIN new[p].field = Fields(def[p].kind)
    BY <2>1 DEF NewFields
  <2>5. [f \in Fields(def[p].kind) |-> Field(new, p, f, later)]
          = [f \in Fields(def[p].kind) |-> Field(def, p, f, now)]
    BY <2>3
  <2>6. [f \in DOMAIN new[p].field |-> Field(new, p, f, later)] = new[p].field
    BY <2>1, <2>4, <2>5 DEF NewFields
  <2>7. new[p] = [x \in DOMAIN new[p] |-> new[p][x]]
    <3>1. new[p] = Completed(def, p, now)
      BY ReachesAll DEF ApplyDefaults, new
    <3> QED  BY <3>1 DEF Completed
  <2>8. [new[p] EXCEPT !.field = new[p].field] = new[p]
    BY <2>7
  <2> QED  BY <2>6, <2>8 DEF Completed
<1>3. \A p \in DOMAIN new : Reached(new, p)
  BY <1>1, ReachesAll
<1>4. new = [p \in DOMAIN def |-> new[p]]
  BY <1>1 DEF ApplyDefaults
<1> HIDE DEF new
<1>5. ApplyDefaults(new, later) = new
  BY <1>1, <1>2, <1>3, <1>4 DEF ApplyDefaults
<1> QED  BY <1>5 DEF new

-----------------------------------------------------------------------------
(* Interpolation: in whatever order a map is read.                          *)

LEMMA RefsAreNotLiterals ==
  /\ \A k, l : Ref(k) = Ref(l) => k = l
  /\ \A k \in Keys : Ref(k) \in Strings /\ Ref(k) \notin Literals
  /\ Literals \subseteq Strings
<1>1. \A k, l : Ref(k) = Ref(l) => k = l
  BY DEF Ref
<1> QED  BY <1>1, ActionsAssumption DEF Strings

LEMMA ContextMapType ==
  ASSUME NEW ctx
  PROVE  ctx \in ContextMaps <=>
           /\ DOMAIN ctx \subseteq Keys /\ IsFiniteSet(DOMAIN ctx)
           /\ ctx = [k \in DOMAIN ctx |-> ctx[k]]
           /\ \A k \in DOMAIN ctx : ctx[k] \in Strings
<1>1. ASSUME ctx \in ContextMaps
      PROVE  /\ DOMAIN ctx \subseteq Keys /\ IsFiniteSet(DOMAIN ctx)
             /\ ctx = [k \in DOMAIN ctx |-> ctx[k]]
             /\ \A k \in DOMAIN ctx : ctx[k] \in Strings
  <2>1. PICK K \in KeySets : ctx \in [K -> Strings]
    BY <1>1 DEF ContextMaps
  <2> QED  BY <2>1 DEF KeySets
<1>2. ASSUME DOMAIN ctx \subseteq Keys, IsFiniteSet(DOMAIN ctx),
             ctx = [k \in DOMAIN ctx |-> ctx[k]],
             \A k \in DOMAIN ctx : ctx[k] \in Strings
      PROVE  ctx \in ContextMaps
  <2>1. DOMAIN ctx \in KeySets
    BY <1>2 DEF KeySets
  <2>2. ctx \in [DOMAIN ctx -> Strings]
    BY <1>2
  <2> QED  BY <2>1, <2>2 DEF ContextMaps
<1> QED  BY <1>1, <1>2

LEMMA EmptyIsMap == Empty \in ContextMaps /\ DOMAIN Empty = {}
<1>1. DOMAIN Empty = {} /\ Empty = [k \in DOMAIN Empty |-> Empty[k]]
  BY DEF Empty
<1>2. IsFiniteSet({})
  BY FS_EmptySet
<1> QED  BY <1>1, <1>2, ContextMapType

LEMMA PutIsMap ==
  ASSUME NEW ctx \in ContextMaps, NEW k \in Keys, NEW v \in Strings
  PROVE  Put(ctx, k, v) \in ContextMaps
<1> DEFINE new == Put(ctx, k, v)
<1>1. /\ DOMAIN ctx \subseteq Keys /\ IsFiniteSet(DOMAIN ctx)
      /\ \A l \in DOMAIN ctx : ctx[l] \in Strings
  BY ContextMapType
<1>2. IsFiniteSet(DOMAIN ctx \cup {k})
  BY <1>1, FS_AddElement
<1>3. /\ DOMAIN new = DOMAIN ctx \cup {k}
      /\ new = [l \in DOMAIN new |-> new[l]]
      /\ \A l \in DOMAIN new : new[l] \in Strings
  BY <1>1 DEF Put
<1> HIDE DEF new
<1>4. new \in ContextMaps
  BY <1>1, <1>2, <1>3, ContextMapType
<1> QED  BY <1>4 DEF new

LEMMA MergeIsMap ==
  ASSUME NEW ctx \in ContextMaps, NEW more \in ContextMaps
  PROVE  Merge(ctx, more) \in ContextMaps
<1> DEFINE new == Merge(ctx, more)
<1>1. /\ DOMAIN ctx \subseteq Keys /\ IsFiniteSet(DOMAIN ctx)
      /\ \A l \in DOMAIN ctx : ctx[l] \in Strings
      /\ DOMAIN more \subseteq Keys /\ IsFiniteSet(DOMAIN more)
      /\ \A l \in DOMAIN more : more[l] \in Strings
  BY ContextMapType
<1>2. IsFiniteSet(DOMAIN ctx \cup DOMAIN more)
  BY <1>1, FS_Union
<1>3. /\ DOMAIN new = DOMAIN ctx \cup DOMAIN more
      /\ new = [l \in DOMAIN new |-> new[l]]
      /\ \A l \in DOMAIN new : new[l] \in Strings
  BY <1>1 DEF Merge
<1> HIDE DEF new
<1>4. new \in ContextMaps
  BY <1>1, <1>2, <1>3, ContextMapType
<1> QED  BY <1>4 DEF new

\* There is an order, and an order has every key at one place.
LEMMA OrdersOf ==
  ASSUME NEW S, IsFiniteSet(S)
  PROVE  /\ Cardinality(S) \in Nat
         /\ Orders(S) # {}
         /\ \A order \in Orders(S) :
              /\ \A n \in 1 .. Cardinality(S) : order[n] \in S
              /\ \A k \in S : \E n \in 1 .. Cardinality(S) : order[n] = k
              /\ \A m, n \in 1 .. Cardinality(S) : order[m] = order[n] => m = n
<1>1. Cardinality(S) \in Nat
  BY FS_CardinalityType
<1>2. Orders(S) # {}
  BY FS_CardinalityType DEF Orders, ExistsBijection
<1>3. ASSUME NEW order \in Orders(S)
      PROVE  /\ \A n \in 1 .. Cardinality(S) : order[n] \in S
             /\ \A k \in S : \E n \in 1 .. Cardinality(S) : order[n] = k
             /\ \A m, n \in 1 .. Cardinality(S) : order[m] = order[n] => m = n
  BY <1>3 DEF Orders, Bijection, Injection, Surjection, IsInjective
<1> QED  BY <1>1, <1>2, <1>3

\* Replaced goes through the keys of an order one by one.
LEMMA ReplacedSteps ==
  ASSUME NEW ctx \in ContextMaps, NEW s \in Strings,
         NEW order \in Orders(DOMAIN ctx)
  PROVE  LET N == Cardinality(DOMAIN ctx)
             t == Replaced(s, order, ctx)
         IN /\ N \in Nat /\ t[0] = s
            /\ \A n \in 1 .. N :
                 t[n] = Replace(t[n - 1], order[n], ctx[order[n]])
            /\ \A n \in 0 .. N : t[n] \in Strings
<1> DEFINE N == Cardinality(DOMAIN ctx)
           t == Replaced(s, order, ctx)
           IsIt(g) == g = [n \in 0 .. N |->
             IF n = 0 THEN s ELSE Replace(g[n - 1], order[n], ctx[order[n]])]
<1>1. /\ N \in Nat
      /\ \A n \in 1 .. N : order[n] \in DOMAIN ctx
      /\ \A k \in DOMAIN ctx : ctx[k] \in Strings
  BY ContextMapType, OrdersOf
<1> DEFINE step == [x \in (1 .. N) \X Strings |->
                      Replace(x[2], order[x[1]], ctx[order[x[1]]])]
<1>2. IsStep(step, N, Strings)
  BY <1>1 DEF Replace, IsStep
<1>3. PICK g : Iterates(g, step, s, N, Strings)
  <2> HIDE DEF N, step
  <2> QED  BY <1>1, <1>2, Iteration
<1>4. \A n \in 1 .. N : g[n] = Replace(g[n - 1], order[n], ctx[order[n]])
  <2>1. ASSUME NEW n \in 1 .. N PROVE <<n, g[n - 1]>> \in (1 .. N) \X Strings
    BY <1>1, <1>3 DEF Iterates
  <2> QED  BY <1>3, <2>1 DEF Iterates
<1>5. IsIt(g)
  BY <1>1, <1>3, <1>4 DEF Iterates
<1>6. t = CHOOSE h : IsIt(h)
  BY DEF Replaced
<1>7. IsIt(t)
  <2> HIDE DEF IsIt, t
  <2> QED  BY <1>5, <1>6
<1> HIDE DEF t
<1>8. t[0] = s
  BY <1>1, <1>7
<1>9. \A n \in 1 .. N : t[n] = Replace(t[n - 1], order[n], ctx[order[n]])
  BY <1>1, <1>7
<1> HIDE DEF N, IsIt, step
<1> DEFINE T == {n \in 0 .. N : t[n] \in Strings}
<1>10. 0 \in T
  BY <1>1, <1>8
<1>11. \A n \in T : n < N => n + 1 \in T
  <2> SUFFICES ASSUME NEW n \in T, n < N PROVE n + 1 \in T
    OBVIOUS
  <2>1. n + 1 \in 1 .. N /\ (n + 1) - 1 = n
    BY <1>1
  <2>2. t[n + 1] = Replace(t[n], order[n + 1], ctx[order[n + 1]])
    BY <1>9, <2>1
  <2> QED  BY <1>1, <2>1, <2>2 DEF Replace
<1>12. T = 0 .. N
  <2> T \subseteq 0 .. N
    OBVIOUS
  <2> HIDE DEF T
  <2> QED  BY <1>1, <1>10, <1>11, AllUpTo
<1> QED  BY <1>1, <1>8, <1>9, <1>12 DEF N, t

LEMMA InterpolateType ==
  ASSUME NEW ctx \in ContextMaps, NEW s \in Strings
  PROVE  interpolate(s, ctx) \subseteq Strings /\ interpolate(s, ctx) # {}
<1>1. \A order \in Orders(DOMAIN ctx) :
        Replaced(s, order, ctx)[Cardinality(DOMAIN ctx)] \in Strings
  BY ReplacedSteps
<1>2. Orders(DOMAIN ctx) # {}
  BY ContextMapType, OrdersOf
<1> QED  BY <1>1, <1>2 DEF interpolate

\* A string whose placeholder stands for a literal, or for nothing, becomes
\* the same in every order.
LEMMA InterpolateOne ==
  ASSUME NEW ctx \in ContextMaps, NEW s \in Strings,
         \A k \in DOMAIN ctx : s = Ref(k) => ctx[k] \in Literals
  PROVE  interpolate(s, ctx) = {Lookup(s, ctx)}
<1>1. /\ DOMAIN ctx \subseteq Keys
      /\ Orders(DOMAIN ctx) # {}
      /\ \A order \in Orders(DOMAIN ctx) :
           /\ \A n \in 1 .. Cardinality(DOMAIN ctx) : order[n] \in DOMAIN ctx
           /\ \A k \in DOMAIN ctx :
                \E n \in 1 .. Cardinality(DOMAIN ctx) : order[n] = k
  BY ContextMapType, OrdersOf
<1>2. \A k \in DOMAIN ctx : s = Ref(k) => Lookup(s, ctx) = ctx[k]
  BY RefsAreNotLiterals DEF Lookup
<1>3. ~(\E k \in DOMAIN ctx : s = Ref(k)) => Lookup(s, ctx) = s
  BY DEF Lookup
<1>4. ASSUME NEW order \in Orders(DOMAIN ctx)
      PROVE  Replaced(s, order, ctx)[Cardinality(DOMAIN ctx)] = Lookup(s, ctx)
  <2> DEFINE N == Cardinality(DOMAIN ctx)
             t == Replaced(s, order, ctx)
             T == {n \in 0 .. N :
                     t[n] = IF \E m \in 1 .. n : s = Ref(order[m])
                            THEN Lookup(s, ctx) ELSE s}
  <2>1. /\ N \in Nat /\ t[0] = s
        /\ \A n \in 1 .. N : t[n] = Replace(t[n - 1], order[n], ctx[order[n]])
    BY ReplacedSteps
  <2> HIDE DEF N, t
  <2>2. 0 \in T
    BY <2>1
  <2>3. \A n \in T : n < N => n + 1 \in T
    <3> SUFFICES ASSUME NEW n \in T, n < N PROVE n + 1 \in T
      OBVIOUS
    <3>1. n \in Nat /\ n + 1 \in 1 .. N /\ (n + 1) - 1 = n
      BY <2>1
    <3>2. t[n + 1] = Replace(t[n], order[n + 1], ctx[order[n + 1]])
      BY <2>1, <3>1
    <3>3. order[n + 1] \in DOMAIN ctx /\ order[n + 1] \in Keys
      BY <1>1, <3>1 DEF N
    <3>4. CASE \E m \in 1 .. n : s = Ref(order[m])
      <4>1. PICK m \in 1 .. n : s = Ref(order[m])
        BY <3>4
      <4>2. order[m] \in DOMAIN ctx
        <5>1. m \in 1 .. N
          BY <2>1, <3>1
        <5> QED  BY <1>1, <5>1 DEF N
      <4>3. t[n] \in Literals
        BY <1>2, <3>4, <4>1, <4>2
      <4>4. t[n + 1] = t[n]
        BY <3>2, <3>3, <4>3, RefsAreNotLiterals DEF Replace
      <4>5. m \in 1 .. n + 1
        BY <3>1, <4>1
      <4>6. \E l \in 1 .. n + 1 : s = Ref(order[l])
        BY <4>1, <4>5
      <4>7. t[n + 1] = Lookup(s, ctx)
        BY <3>4, <4>4
      <4>8. n + 1 \in 0 .. N
        BY <3>1
      <4> QED  BY <4>6, <4>7, <4>8
    <3>5. CASE s = Ref(order[n + 1]) /\ ~\E m \in 1 .. n : s = Ref(order[m])
      <4>1. t[n] = s
        BY <3>5
      <4>2. t[n + 1] = ctx[order[n + 1]]
        BY <3>2, <3>5, <4>1 DEF Replace
      <4>3. t[n + 1] = Lookup(s, ctx)
        BY <1>2, <3>3, <3>5, <4>2
      <4>4. n + 1 \in 1 .. n + 1
        BY <3>1
      <4>5. \E l \in 1 .. n + 1 : s = Ref(order[l])
        BY <3>5, <4>4
      <4> QED  BY <3>1, <4>3, <4>5
    <3>6. CASE ~\E m \in 1 .. n + 1 : s = Ref(order[m])
      <4>1. ~\E m \in 1 .. n : s = Ref(order[m])
        BY <3>1, <3>6
      <4>2. t[n] = s /\ s # Ref(order[n + 1])
        BY <3>1, <3>6, <4>1
      <4>3. t[n + 1] = s
        BY <3>2, <4>2 DEF Replace
      <4> QED  BY <3>1, <3>6, <4>3
    <3>7. \A m \in 1 .. n + 1 : m \in 1 .. n \/ m = n + 1
      BY <3>1
    <3> QED  BY <3>4, <3>5, <3>6, <3>7
  <2>4. N \in T
    <3>1. T \subseteq 0 .. N
      OBVIOUS
    <3> HIDE DEF T
    <3>2. T = 0 .. N
      BY <2>1, <2>2, <2>3, <3>1, AllUpTo
    <3> QED  BY <2>1, <3>2
  <2>5. (\E m \in 1 .. N : s = Ref(order[m])) <=> \E k \in DOMAIN ctx : s = Ref(k)
    BY <1>1 DEF N
  <2>6. t[N] = Lookup(s, ctx)
    BY <1>3, <2>4, <2>5
  <2> QED  BY <2>6 DEF N, t
<1> QED  BY <1>1, <1>4 DEF interpolate

\* Maps of literals: the requests made of them, in one way only.
LEMMA BodiesOfFlat ==
  ASSUME NEW ctx \in ContextMaps, Flat(ctx), NEW v \in ContextMaps,
         NEW body \in Bodies(v, ctx)
  PROVE  body = Filled(v, ctx)
<1>1. body \in [DOMAIN v -> Strings]
  BY DEF Bodies
<1>2. ASSUME NEW k \in DOMAIN v PROVE body[k] = Lookup(v[k], ctx)
  <2>1. v[k] \in Strings
    BY ContextMapType
  <2>2. interpolate(v[k], ctx) = {Lookup(v[k], ctx)}
    BY <2>1, InterpolateOne DEF Flat
  <2> QED  BY <2>2 DEF Bodies
<1> QED  BY <1>1, <1>2 DEF Filled

-----------------------------------------------------------------------------
(* An action that sets variables, in whatever order they are set.           *)

\* MapsAfter goes through the variables of an order one by one.
LEMMA MapsAfterSteps ==
  ASSUME NEW v \in ContextMaps, NEW ctx \in ContextMaps,
         NEW order \in Orders(DOMAIN v)
  PROVE  LET N == Cardinality(DOMAIN v)
             t == MapsAfter(v, order, ctx)
         IN /\ N \in Nat /\ t[0] = {ctx}
            /\ \A n \in 1 .. N :
                 t[n] = UNION {{Put(m, order[n], w) :
                                  w \in interpolate(v[order[n]], m)} : m \in t[n - 1]}
            /\ \A n \in 0 .. N : t[n] \subseteq ContextMaps
<1> DEFINE N == Cardinality(DOMAIN v)
           t == MapsAfter(v, order, ctx)
           After(n, maps) == UNION {{Put(m, order[n], w) :
                               w \in interpolate(v[order[n]], m)} : m \in maps}
           IsIt(g) == g = [n \in 0 .. N |-> IF n = 0 THEN {ctx} ELSE After(n, g[n - 1])]
           S == SUBSET ContextMaps
<1>1. /\ N \in Nat
      /\ \A n \in 1 .. N : order[n] \in DOMAIN v /\ order[n] \in Keys
      /\ \A k \in DOMAIN v : v[k] \in Strings
  BY ContextMapType, OrdersOf
<1>2. ASSUME NEW n \in 1 .. N, NEW maps \in S PROVE After(n, maps) \in S
  <2> SUFFICES ASSUME NEW m \in maps, NEW w \in interpolate(v[order[n]], m)
               PROVE  Put(m, order[n], w) \in ContextMaps
    OBVIOUS
  <2>1. m \in ContextMaps /\ w \in Strings
    BY <1>1, InterpolateType
  <2> QED  BY <1>1, <2>1, PutIsMap
<1> HIDE DEF After
<1> DEFINE step == [x \in (1 .. N) \X S |-> After(x[1], x[2])]
<1>3. IsStep(step, N, S)
  <2> HIDE DEF S, N
  <2> QED  BY <1>2 DEF IsStep
<1>4. {ctx} \in S
  OBVIOUS
<1>5. PICK g : Iterates(g, step, {ctx}, N, S)
  <2> HIDE DEF N, step, S
  <2> QED  BY <1>1, <1>3, <1>4, Iteration
<1>6. \A n \in 1 .. N : g[n] = After(n, g[n - 1])
  <2> SUFFICES ASSUME NEW n \in 1 .. N PROVE g[n] = After(n, g[n - 1])
    OBVIOUS
  <2> HIDE DEF S
  <2>1. <<n, g[n - 1]>> \in (1 .. N) \X S
    BY <1>1, <1>5 DEF Iterates
  <2> QED  BY <1>5, <2>1 DEF Iterates
<1>7. IsIt(g)
  <2> HIDE DEF S
  <2> QED  BY <1>1, <1>5, <1>6 DEF Iterates
<1>8. t = CHOOSE h : IsIt(h)
  BY DEF MapsAfter, After
<1>9. IsIt(t)
  <2> HIDE DEF IsIt, t
  <2> QED  BY <1>7, <1>8
<1> HIDE DEF t
<1>10. t[0] = {ctx}
  BY <1>1, <1>9
<1>11. \A n \in 1 .. N : t[n] = After(n, t[n - 1])
  BY <1>1, <1>9
<1> HIDE DEF N, IsIt, step, S
<1> DEFINE T == {n \in 0 .. N : t[n] \in S}
<1>12. 0 \in T
  BY <1>1, <1>4, <1>10
<1>13. \A n \in T : n < N => n + 1 \in T
  <2> SUFFICES ASSUME NEW n \in T, n < N PROVE n + 1 \in T
    OBVIOUS
  <2>1. n + 1 \in 1 .. N /\ (n + 1) - 1 = n
    BY <1>1
  <2>2. t[n + 1] = After(n + 1, t[n])
    BY <1>11, <2>1
  <2> QED  BY <1>1, <1>2, <2>1, <2>2
<1>14. T = 0 .. N
  <2> T \subseteq 0 .. N
    OBVIOUS
  <2> HIDE DEF T
  <2> QED  BY <1>1, <1>12, <1>13, AllUpTo
<1>15. \A n \in 0 .. N : t[n] \subseteq ContextMaps
  BY <1>14 DEF S
<1> QED  BY <1>1, <1>10, <1>11, <1>15 DEF N, t, After

LEMMA SetContextType ==
  ASSUME NEW v \in ContextMaps, NEW ctx \in ContextMaps
  PROVE  executeSetContextMapAction(v, ctx) \subseteq ContextMaps
<1>1. ASSUME NEW order \in Orders(DOMAIN v)
      PROVE  MapsAfter(v, order, ctx)[Cardinality(DOMAIN v)] \subseteq ContextMaps
  BY MapsAfterSteps
<1> QED  BY <1>1 DEF executeSetContextMapAction

LEMMA LookupIs ==
  ASSUME NEW ctx, NEW s
  PROVE  /\ \A k \in DOMAIN ctx : s = Ref(k) => Lookup(s, ctx) = ctx[k]
         /\ (\A k \in DOMAIN ctx : s # Ref(k)) => Lookup(s, ctx) = s
  BY RefsAreNotLiterals DEF Lookup

\* Variables that do not depend on each other are set as if all at once.
LEMMA SetContextOne ==
  ASSUME NEW v \in ContextMaps, NEW ctx \in ContextMaps,
         Flat(ctx), Independent(v)
  PROVE  executeSetContextMapAction(v, ctx) = {Merge(ctx, Filled(v, ctx))}
<1> DEFINE N == Cardinality(DOMAIN v)
<1>1. /\ DOMAIN v \subseteq Keys /\ \A k \in DOMAIN v : v[k] \in Strings
      /\ N \in Nat /\ Orders(DOMAIN v) # {}
  BY ContextMapType, OrdersOf
<1>2. ASSUME NEW order \in Orders(DOMAIN v)
      PROVE  MapsAfter(v, order, ctx)[N] = {Merge(ctx, Filled(v, ctx))}
  <2>1. /\ \A n \in 1 .. N : order[n] \in DOMAIN v
        /\ \A k \in DOMAIN v : \E n \in 1 .. N : order[n] = k
        /\ \A m, n \in 1 .. N : order[m] = order[n] => m = n
    BY ContextMapType, OrdersOf
  <2> DEFINE t == MapsAfter(v, order, ctx)
             Done(n) == {order[m] : m \in 1 .. n}
             Midway(n) == [l \in DOMAIN ctx \cup Done(n) |->
                             IF l \in Done(n) THEN Lookup(v[l], ctx) ELSE ctx[l]]
             T == {n \in 0 .. N : t[n] = {Midway(n)}}
  <2>2. /\ t[0] = {ctx}
        /\ \A n \in 1 .. N :
             t[n] = UNION {{Put(m, order[n], w) :
                              w \in interpolate(v[order[n]], m)} : m \in t[n - 1]}
        /\ \A n \in 0 .. N : t[n] \subseteq ContextMaps
    BY MapsAfterSteps
  <2> HIDE DEF N, t
  <2>3. 0 \in T
    <3>1. Done(0) = {}
      OBVIOUS
    <3>2. ctx = [k \in DOMAIN ctx |-> ctx[k]]
      BY ContextMapType
    <3> HIDE DEF Done
    <3>3. Midway(0) = ctx
      BY <3>1, <3>2
    <3> HIDE DEF Midway
    <3> QED  BY <1>1, <2>2, <3>3
  <2>4. ASSUME NEW n \in T, n < N PROVE n + 1 \in T
    <3> DEFINE k == order[n + 1]
    <3>1. n \in Nat /\ n + 1 \in 1 .. N /\ (n + 1) - 1 = n /\ n + 1 \in 0 .. N
      BY <1>1, <2>4
    <3>2. k \in DOMAIN v /\ v[k] \in Strings
      BY <1>1, <2>1, <3>1
    <3>3. \A l \in Done(n) : l \in DOMAIN v /\ l # k
      <4> SUFFICES ASSUME NEW m \in 1 .. n PROVE order[m] \in DOMAIN v /\ order[m] # k
        OBVIOUS
      <4>1. m \in 1 .. N /\ m # n + 1
        BY <1>1, <3>1
      <4> QED  BY <2>1, <3>1, <4>1
    <3>4. Done(n + 1) = Done(n) \cup {k}
      <4>1. 1 .. n + 1 = (1 .. n) \cup {n + 1}
        BY <3>1
      <4> QED  BY <4>1
    <3>5. t[n] = {Midway(n)} /\ Midway(n) \in ContextMaps
      BY <2>2
    <3>6. DOMAIN Midway(n) = DOMAIN ctx \cup Done(n)
      OBVIOUS
    <3>7. \A l \in DOMAIN ctx \ Done(n) : Midway(n)[l] = ctx[l]
      OBVIOUS
    <3>8. Midway(n + 1) = Put(Midway(n), k, Lookup(v[k], ctx))
      <4> HIDE DEF Done
      <4> QED  BY <3>3, <3>4 DEF Put
    <3> HIDE DEF k, Done, Midway
    <3>9. \A l \in DOMAIN Midway(n) : v[k] = Ref(l) => l \in DOMAIN ctx \ Done(n)
      BY <3>2, <3>3, <3>6 DEF Independent
    <3>10. interpolate(v[k], Midway(n)) = {Lookup(v[k], Midway(n))}
      <4>1. \A l \in DOMAIN Midway(n) : v[k] = Ref(l) => Midway(n)[l] \in Literals
        BY <3>7, <3>9 DEF Flat
      <4> QED  BY <3>2, <3>5, <4>1, InterpolateOne
    <3>11. Lookup(v[k], Midway(n)) = Lookup(v[k], ctx)
      <4>1. CASE \E l \in DOMAIN Midway(n) : v[k] = Ref(l)
        <5>1. PICK l \in DOMAIN Midway(n) : v[k] = Ref(l)
          BY <4>1
        <5>2. l \in DOMAIN ctx /\ Midway(n)[l] = ctx[l]
          BY <3>7, <3>9, <5>1
        <5> QED  BY <5>1, <5>2, LookupIs
      <4>2. CASE \A l \in DOMAIN Midway(n) : v[k] # Ref(l)
        <5>1. \A l \in DOMAIN ctx : v[k] # Ref(l)
          BY <3>6, <4>2
        <5> QED  BY <4>2, <5>1, LookupIs
      <4> QED  BY <4>1, <4>2
    <3>12. t[n + 1] = UNION {{Put(m, k, w) : w \in interpolate(v[k], m)} : m \in t[n]}
      BY <2>2, <3>1 DEF k
    <3>13. t[n + 1] = {Midway(n + 1)}
      BY <3>5, <3>8, <3>10, <3>11, <3>12
    <3> QED  BY <3>1, <3>13
  <2>5. N \in T
    <3>1. T \subseteq 0 .. N
      OBVIOUS
    <3> HIDE DEF T
    <3>2. T = 0 .. N
      BY <1>1, <2>3, <2>4, <3>1, AllUpTo
    <3> QED  BY <1>1, <3>2
  <2>6. Done(N) = DOMAIN v
    BY <2>1
  <2>7. Midway(N) = Merge(ctx, Filled(v, ctx))
    <3> HIDE DEF Done
    <3> QED  BY <2>6 DEF Merge, Filled
  <2> QED  BY <2>5, <2>7 DEF t
<1> QED  BY <1>1, <1>2 DEF executeSetContextMapAction

-----------------------------------------------------------------------------
(* Guards; the elements of a definition; a list of actions.                 *)

\* Evaluate decides what a guard says.
LEMMA EvaluateIsHolds ==
  ASSUME NEW g \in Guards, NEW ctx
  PROVE  Evaluate(g, ctx) <=> Holds(g, ctx)
<1>1. CASE g = NoGuard
  BY <1>1 DEF Evaluate, Holds
<1>2. CASE g # NoGuard /\ g.key \notin DOMAIN ctx
  <2>1. {ctx[k] : k \in {g.key} \cap DOMAIN ctx} = {}
    BY <1>2
  <2>2. Evaluate(g, ctx) <=> g.op \in {"NOT_EXISTS", "NEQ"}
    BY <1>2 DEF Evaluate
  <2>3. Holds(g, ctx) <=> g.op \in {"NOT_EXISTS", "NEQ"}
    BY <1>2, <2>1 DEF Holds
  <2> QED  BY <2>2, <2>3
<1>3. CASE g # NoGuard /\ g.key \in DOMAIN ctx
  <2> DEFINE v == ctx[g.key]
  <2>1. {ctx[k] : k \in {g.key} \cap DOMAIN ctx} = {v}
    BY <1>3
  <2>2. g \in Tests
    BY <1>3 DEF Guards
  <2>3. Evaluate(g, ctx) <=> \/ g.op = "EXISTS"
                             \/ g.op = "EQ" /\ v = g.value
                             \/ g.op = "NEQ" /\ v # g.value
                             \/ Compare(g.op, v, g.value)
    BY <1>3 DEF Evaluate
  <2> HIDE DEF v
  <2> DEFINE both == v \in DOMAIN Rank /\ g.value \in DOMAIN Rank
  <2>4. Holds(g, ctx) <=>
          \/ g.op = "EXISTS"
          \/ g.op = "EQ" /\ v = g.value
          \/ g.op = "NEQ" /\ v # g.value
          \/ g.op \in {"GT", "GTE"} /\ both /\ Rank[v] > Rank[g.value]
          \/ g.op \in {"LT", "LTE"} /\ both /\ Rank[v] < Rank[g.value]
          \/ g.op \in {"GTE", "LTE"} /\ both /\ Rank[v] = Rank[g.value]
    BY <1>3, <2>1 DEF Holds
  <2>5. both => Rank[v] \in Int /\ Rank[g.value] \in Int
    BY ActionsAssumption
  <2>6. Compare(g.op, v, g.value) <=>
          \/ g.op \in {"GT", "GTE"} /\ both /\ Rank[v] > Rank[g.value]
          \/ g.op \in {"LT", "LTE"} /\ both /\ Rank[v] < Rank[g.value]
          \/ g.op \in {"GTE", "LTE"} /\ both /\ Rank[v] = Rank[g.value]
    BY <2>5 DEF Compare
  <2> QED  BY <2>3, <2>4, <2>6
<1> QED  BY <1>1, <1>2, <1>3

IsAction(a) ==
  /\ a.kind \in ActionKinds
  /\ a.kind \in {"HTTP", "SET"} => a.vars \in ContextMaps /\ a.expect \in BOOLEAN

IsActionList(actions, N) ==
  /\ N \in Nat /\ DOMAIN actions = 1 .. N /\ Len(actions) = N
  /\ \A n \in 1 .. N : IsAction(actions[n])

LEMMA AlternativeHasGuard ==
  ASSUME NEW def, IsDefinition(def), NEW k \in Alternatives(def)
  PROVE  def[Alternative(k)].guard \in Guards
<1>1. Alternative(k) \in DOMAIN def
  BY DEF Alternatives
<1>2. /\ Alternative(k) # <<>> /\ Len(Alternative(k)) = 1
      /\ Alternative(k)[1][1] = "transitions"
  BY DEF Alternative
<1>3. def[Alternative(k)].kind \in ElementKinds["transitions"]
  BY <1>1, <1>2 DEF IsDefinition
<1>4. IsElement(def[Alternative(k)])
  BY <1>1 DEF IsDefinition
<1> QED  BY <1>3, <1>4 DEF ElementKinds, IsElement

LEMMA ActionsAreList ==
  ASSUME NEW def, IsDefinition(def), NEW k \in Alternatives(def)
  PROVE  \E N \in Nat : IsActionList(ActionsOf(def, k), N)
<1>1. PICK N \in {0} \cup Indices(def) : ActionIndices(def, k) = 1 .. N
  BY DEF IsDefinition
<1>2. N \in Nat
  BY <1>1, FS_CardinalityType DEF Indices, IsDefinition
<1>3. ASSUME NEW n \in 1 .. N PROVE IsAction(def[ActionAt(k, n)])
  <2>1. ActionAt(k, n) \in DOMAIN def
    BY <1>1 DEF ActionIndices
  <2>2. /\ ActionAt(k, n) # <<>> /\ Len(ActionAt(k, n)) = 2
        /\ ActionAt(k, n)[2][1] = "entryActions"
    BY DEF ActionAt
  <2>3. def[ActionAt(k, n)].kind \in ElementKinds["entryActions"]
    BY <2>1, <2>2 DEF IsDefinition
  <2>4. IsElement(def[ActionAt(k, n)])
    BY <2>1 DEF IsDefinition
  <2> QED  BY <2>3, <2>4 DEF ElementKinds, IsElement, IsAction
<1>4. ActionsOf(def, k) = [n \in 1 .. N |-> def[ActionAt(k, n)]]
  BY <1>1 DEF ActionsOf
<1>5. Len(ActionsOf(def, k)) = N
  BY <1>2, <1>4
<1> QED  BY <1>2, <1>3, <1>4, <1>5 DEF IsActionList

LEMMA FilledIsMap ==
  ASSUME NEW v \in ContextMaps, NEW ctx \in ContextMaps
  PROVE  Filled(v, ctx) \in ContextMaps
<1> DEFINE new == Filled(v, ctx)
<1>1. /\ DOMAIN v \subseteq Keys /\ IsFiniteSet(DOMAIN v)
      /\ \A k \in DOMAIN v : v[k] \in Strings
      /\ \A k \in DOMAIN ctx : ctx[k] \in Strings
  BY ContextMapType
<1>2. \A k \in DOMAIN v : Lookup(v[k], ctx) \in Strings
  <2> SUFFICES ASSUME NEW k \in DOMAIN v PROVE Lookup(v[k], ctx) \in Strings
    OBVIOUS
  <2>1. CASE \E l \in DOMAIN ctx : v[k] = Ref(l)
    BY <1>1, <2>1, LookupIs
  <2>2. CASE \A l \in DOMAIN ctx : v[k] # Ref(l)
    BY <1>1, <2>2, LookupIs
  <2> QED  BY <2>1, <2>2
<1>3. /\ DOMAIN new = DOMAIN v /\ new = [k \in DOMAIN new |-> new[k]]
      /\ \A k \in DOMAIN new : new[k] \in Strings
  BY <1>2 DEF Filled
<1> HIDE DEF new
<1>4. new \in ContextMaps
  BY <1>1, <1>3, ContextMapType
<1> QED  BY <1>4 DEF new

\* The map that stands for new children.
Children == [k \in ChildKeys |-> ChildId]

LEMMA ChildrenIsMap == Children \in ContextMaps
<1>1. /\ DOMAIN Children = ChildKeys
      /\ Children = [k \in DOMAIN Children |-> Children[k]]
      /\ \A k \in DOMAIN Children : Children[k] \in Strings
  BY ActionsAssumption DEF Children, Strings
<1>2. IsFiniteSet({"childWorkflowId", "childWorkflowIds"})
  <2>1. IsFiniteSet({"childWorkflowId"})
    BY FS_Singleton
  <2>2. IsFiniteSet({"childWorkflowId"} \cup {"childWorkflowIds"})
    BY <2>1, FS_AddElement
  <2>3. {"childWorkflowId"} \cup {"childWorkflowIds"}
          = {"childWorkflowId", "childWorkflowIds"}
    OBVIOUS
  <2> QED  BY <2>2, <2>3
<1>3. ChildKeys \subseteq Keys /\ IsFiniteSet(ChildKeys)
  BY <1>2, ActionsAssumption DEF ChildKeys
<1> QED  BY <1>1, <1>3, ContextMapType

LEMMA EffectIs ==
  ASSUME NEW a, IsAction(a), NEW ctx \in ContextMaps, NEW answer \in ContextMaps
  PROVE  /\ a.kind = "SET" => Effect(a, ctx, answer) = Merge(ctx, Filled(a.vars, ctx))
         /\ a.kind = "HTTP" /\ a.expect => Effect(a, ctx, answer) = Merge(ctx, answer)
         /\ a.kind = "HTTP" /\ ~a.expect => Effect(a, ctx, answer) = ctx
         /\ a.kind = "CHILD" => Effect(a, ctx, answer) = Merge(ctx, Children)
         /\ Effect(a, ctx, answer) \in ContextMaps
<1>1. a.kind \in {"SET", "HTTP", "CHILD"}
  BY DEF IsAction, ActionKinds
<1>2. CASE a.kind = "SET"
  <2>1. Effect(a, ctx, answer) = Merge(ctx, Filled(a.vars, ctx))
    BY <1>2 DEF Effect
  <2>2. a.vars \in ContextMaps
    BY <1>2 DEF IsAction
  <2> QED  BY <1>2, <2>1, <2>2, FilledIsMap, MergeIsMap
<1>3. CASE a.kind = "HTTP"
  <2>1. /\ a.expect => Effect(a, ctx, answer) = Merge(ctx, answer)
        /\ ~a.expect => Effect(a, ctx, answer) = ctx
    BY <1>3 DEF Effect
  <2>2. Effect(a, ctx, answer) \in ContextMaps
    BY <2>1, MergeIsMap
  <2> QED  BY <1>3, <2>1, <2>2
<1>4. CASE a.kind = "CHILD"
  <2>1. Effect(a, ctx, answer) = [k \in DOMAIN ctx \cup ChildKeys |->
                                    IF k \in ChildKeys THEN ChildId ELSE ctx[k]]
    BY <1>4 DEF Effect
  <2>2. Effect(a, ctx, answer) = Merge(ctx, Children)
    BY <2>1 DEF Merge, Children
  <2> QED  BY <1>4, <2>2, ChildrenIsMap, MergeIsMap
<1> QED  BY <1>1, <1>2, <1>3, <1>4

\* Steps goes through the actions one by one.
LEMMA StepsSteps ==
  ASSUME NEW actions, NEW N, IsActionList(actions, N), NEW ctx \in ContextMaps,
         NEW answers \in Seq(ContextMaps), Len(answers) <= N
  PROVE  LET t == Steps(actions, ctx, answers)
         IN /\ DOMAIN t = 0 .. Len(answers) /\ t[0] = ctx
            /\ \A n \in 1 .. Len(answers) :
                 t[n] = Effect(actions[n], t[n - 1], answers[n])
            /\ \A n \in 0 .. Len(answers) : t[n] \in ContextMaps
<1> DEFINE L == Len(answers)
           t == Steps(actions, ctx, answers)
           IsIt(g) == g = [n \in 0 .. L |->
             IF n = 0 THEN ctx ELSE Effect(actions[n], g[n - 1], answers[n])]
           step == [x \in (1 .. L) \X ContextMaps |->
                      Effect(actions[x[1]], x[2], answers[x[1]])]
<1>1. /\ L \in Nat
      /\ \A n \in 1 .. L : answers[n] \in ContextMaps /\ IsAction(actions[n])
  BY DEF IsActionList
<1>2. \A n \in 1 .. L, m \in ContextMaps :
        Effect(actions[n], m, answers[n]) \in ContextMaps
  BY <1>1, EffectIs
<1>3. IsStep(step, L, ContextMaps)
  <2> HIDE DEF L
  <2> QED  BY <1>2 DEF IsStep
<1>4. PICK g : Iterates(g, step, ctx, L, ContextMaps)
  <2> HIDE DEF L, step
  <2> QED  BY <1>1, <1>3, Iteration
<1>5. \A n \in 1 .. L : g[n] = Effect(actions[n], g[n - 1], answers[n])
  <2> SUFFICES ASSUME NEW n \in 1 .. L
               PROVE  g[n] = Effect(actions[n], g[n - 1], answers[n])
    OBVIOUS
  <2>1. n - 1 \in 0 .. L
    BY <1>1
  <2>2. g[n - 1] \in ContextMaps
    <3> HIDE DEF L, step
    <3> QED  BY <1>4, <2>1 DEF Iterates
  <2>3. g[n] = step[<<n, g[n - 1]>>]
    <3> HIDE DEF L, step
    <3> QED  BY <1>4 DEF Iterates
  <2>4. <<n, g[n - 1]>> \in (1 .. L) \X ContextMaps
    BY <2>2
  <2> QED  BY <2>3, <2>4
<1>6. IsIt(g)
  BY <1>1, <1>4, <1>5 DEF Iterates
<1>7. t = CHOOSE h : IsIt(h)
  BY DEF Steps
<1>8. IsIt(t)
  <2> HIDE DEF IsIt, t
  <2> QED  BY <1>6, <1>7
<1> HIDE DEF t
<1>9. DOMAIN t = 0 .. L /\ t[0] = ctx
  BY <1>1, <1>8
<1>10. \A n \in 1 .. L : t[n] = Effect(actions[n], t[n - 1], answers[n])
  BY <1>1, <1>8
<1> HIDE DEF L, IsIt, step
<1> DEFINE T == {n \in 0 .. L : t[n] \in ContextMaps}
<1>11. 0 \in T
  BY <1>1, <1>9
<1>12. \A n \in T : n < L => n + 1 \in T
  <2> SUFFICES ASSUME NEW n \in T, n < L PROVE n + 1 \in T
    OBVIOUS
  <2>1. n + 1 \in 1 .. L /\ (n + 1) - 1 = n
    BY <1>1
  <2>2. t[n + 1] = Effect(actions[n + 1], t[n], answers[n + 1])
    BY <1>10, <2>1
  <2>3. t[n] \in ContextMaps /\ n + 1 \in 0 .. L
    BY <1>1
  <2>4. t[n + 1] \in ContextMaps
    BY <1>2, <2>1, <2>2, <2>3
  <2> QED  BY <2>3, <2>4
<1>13. T = 0 .. L
  <2> T \subseteq 0 .. L
    OBVIOUS
  <2> HIDE DEF T
  <2> QED  BY <1>1, <1>11, <1>12, AllUpTo
<1> QED  BY <1>1, <1>9, <1>10, <1>13 DEF L, t

\* No answers, no steps.
LEMMA NoSteps ==
  ASSUME NEW actions, NEW ctx
  PROVE  Steps(actions, ctx, <<>>)[0] = ctx
<1> DEFINE IsIt(g) == g = [n \in 0 .. Len(<<>>) |->
             IF n = 0 THEN ctx ELSE Effect(actions[n], g[n - 1], <<>>[n])]
<1>1. 0 .. Len(<<>>) = {0}
  OBVIOUS
<1>2. IsIt([n \in {0} |-> ctx])
  BY <1>1
<1>3. Steps(actions, ctx, <<>>) = CHOOSE h : IsIt(h)
  BY DEF Steps
<1>4. \A h : IsIt(h) => h[0] = ctx
  BY <1>1
<1> HIDE DEF IsIt
<1>5. IsIt(CHOOSE h : IsIt(h))
  BY <1>2
<1> QED  BY <1>3, <1>4, <1>5

\* More answers do not change the steps of those before them.
LEMMA StepsPrefix ==
  ASSUME NEW actions, NEW N, IsActionList(actions, N), NEW ctx \in ContextMaps,
         NEW answers \in Seq(ContextMaps), NEW longer \in Seq(ContextMaps),
         Len(answers) <= Len(longer), Len(longer) <= N,
         \A n \in 1 .. Len(answers) : longer[n] = answers[n]
  PROVE  \A n \in 0 .. Len(answers) :
           Steps(actions, ctx, longer)[n] = Steps(actions, ctx, answers)[n]
<1> DEFINE L == Len(answers)
           t == Steps(actions, ctx, answers)
           u == Steps(actions, ctx, longer)
           T == {n \in 0 .. L : u[n] = t[n]}
<1>1. L \in Nat /\ Len(longer) \in Nat /\ L <= Len(longer) /\ N \in Nat /\ L <= N
  BY DEF IsActionList
<1>2. /\ t[0] = ctx
      /\ \A n \in 1 .. L : t[n] = Effect(actions[n], t[n - 1], answers[n])
  BY <1>1, StepsSteps
<1>3. /\ u[0] = ctx
      /\ \A n \in 1 .. Len(longer) : u[n] = Effect(actions[n], u[n - 1], longer[n])
  BY StepsSteps
<1> HIDE DEF t, u
<1>4. 0 \in T
  BY <1>1, <1>2, <1>3
<1>5. ASSUME NEW n \in T, n < L PROVE n + 1 \in T
  <2>1. n + 1 \in 1 .. L /\ n + 1 \in 1 .. Len(longer) /\ (n + 1) - 1 = n
    BY <1>1, <1>5
  <2>2. t[n + 1] = Effect(actions[n + 1], t[n], answers[n + 1])
    BY <1>2, <2>1
  <2>3. u[n + 1] = Effect(actions[n + 1], u[n], longer[n + 1])
    BY <1>3, <2>1
  <2>4. longer[n + 1] = answers[n + 1]
    BY <2>1
  <2> QED  BY <1>1, <2>1, <2>2, <2>3, <2>4
<1>6. T = 0 .. L
  <2> T \subseteq 0 .. L
    OBVIOUS
  <2> HIDE DEF T, L
  <2> QED  BY <1>1, <1>4, <1>5, AllUpTo
<1> QED  BY <1>6 DEF t, u

-----------------------------------------------------------------------------
(* The inductive invariant, in four parts.                                  *)

\* What a seeding may register.
Applications(s) == {ApplyDefaults(Files[s][i], s) :
                      i \in {k \in DOMAIN Files[s] : Files[s][k] # Bad}}
Registrable == UNION {Applications(s) : s \in Seeders}

Runs == {Idle} \cup [stage : {"insert"}, def : Registrable]
               \cup [stage : {"actions"}, taken : Nat, ctx : ContextMaps,
                     answers : Seq(ContextMaps)]

\* The type of the state: definitions are what seedings may register.
Typing ==
  /\ table \in [Names -> Registrable \cup {None}]
  /\ seeder \in [Seeders -> [stage : {"start", "write", "failed", "done"},
                             defs : Seq(Registrable)]]
  /\ inst \in [Instances -> {None} \cup [def : Registrable, ctx : ContextMaps]]
  /\ run \in [Instances -> Runs]
  /\ jobs \subseteq [by : Instances, req : [vars : ContextMaps, ctx : ContextMaps]]
  /\ \A i \in Instances : run[i].stage = "actions" =>
       inst[i] # None /\ run[i].taken \in Alternatives(inst[i].def)

\* A seeding that writes has no bad file, has the files after those it has
\* written still to write, and has left the last file of each name it has
\* written in the table, unless another seeding has come after it.
Written(s) == Len(Files[s]) - Len(seeder[s].defs)
IsLast(s, k) == \A l \in 1 .. Written(s) :
                  Name(Files[s][l]) = Name(Files[s][k]) => l <= k
InTable(s, k) ==
  \/ table[Name(Files[s][k])] = ApplyDefaults(Files[s][k], s)
  \/ \E o \in Seeders \ {s} : table[Name(Files[s][k])] \in Applications(o)
SeedingOf(s) ==
  /\ \A i \in DOMAIN Files[s] : Files[s][i] # Bad
  /\ Len(seeder[s].defs) <= Len(Files[s])
  /\ \A j \in 1 .. Len(seeder[s].defs) :
       seeder[s].defs[j] = ApplyDefaults(Files[s][Written(s) + j], s)
  /\ \A k \in 1 .. Written(s) : IsLast(s, k) => InTable(s, k)
Seeding == \A s \in Seeders : seeder[s].stage = "write" => SeedingOf(s)

\* An event has taken the first alternative that its map allows, and its map
\* has gone through what the definition spells out.
Follows(actions, from, answers, ctx) ==
  Predictable(actions, Steps(actions, from, answers)) =>
    ctx = Steps(actions, from, answers)[Len(answers)]
EventOf(i) ==
  /\ run[i].taken \in Passing(inst[i].def, inst[i].ctx)
  /\ \A l \in Passing(inst[i].def, inst[i].ctx) : run[i].taken <= l
  /\ Len(run[i].answers) <= Len(ActionList(i))
  /\ Follows(ActionList(i), inst[i].ctx, run[i].answers, run[i].ctx)
Events == \A i \in Instances : run[i].stage = "actions" => EventOf(i)

\* The last request has been the one that was due.
LastRequest == SentAsDue(sent)

\* What seedings may register is complete, and theirs to register.
LEMMA RegistrableIs ==
  ASSUME NEW def \in Registrable
  PROVE  /\ IsDefinition(def) /\ Name(def) \in Names
         /\ Named(def) => Complete(def)
         /\ ApplyDefaults(def, "later") = def
<1>1. PICK s \in Seeders : \E i \in DOMAIN Files[s] :
        Files[s][i] # Bad /\ def = ApplyDefaults(Files[s][i], s)
  BY DEF Registrable, Applications
<1>2. PICK i \in DOMAIN Files[s] :
        Files[s][i] # Bad /\ def = ApplyDefaults(Files[s][i], s)
  BY <1>1
<1>3. IsDefinition(Files[s][i]) /\ s # Unset
  BY <1>2, DefinitionsAssumption
<1>4. IsDefinition(def)
  BY <1>2, <1>3, AppliedIsDefinition
<1>5. Name(def) \in Names
  BY <1>4 DEF IsDefinition, Name
<1>6. Named(def) => Complete(def)
  BY <1>2, <1>3, AppliedIsComplete
<1>7. ApplyDefaults(def, "later") = def
  BY <1>2, <1>3, AppliedOnce
<1> QED  BY <1>4, <1>5, <1>6, <1>7

-----------------------------------------------------------------------------
(* Every step keeps the types.                                              *)

LEMMA Appended ==
  ASSUME NEW S, NEW s \in Seq(S), NEW a \in S, NEW c \in Nat
  PROVE  LET t == s \o [k \in 1 .. c |-> a]
         IN /\ t \in Seq(S) /\ Len(t) = Len(s) + c
            /\ \A n \in 1 .. Len(s) : t[n] = s[n]
            /\ \A n \in Len(s) + 1 .. Len(s) + c : t[n] = a
<1>1. [k \in 1 .. c |-> a] \in Seq(S) /\ Len([k \in 1 .. c |-> a]) = c
  OBVIOUS
<1> QED  BY <1>1

LEMMA RunsAre ==
  ASSUME NEW r \in Runs
  PROVE  /\ r.stage = "insert" => r \in [stage : {"insert"}, def : Registrable]
         /\ r.stage = "actions" =>
              r \in [stage : {"actions"}, taken : Nat, ctx : ContextMaps,
                     answers : Seq(ContextMaps)]
  BY DEF Runs, Idle

\* What Goes makes of an event under way.
Gone(r, ctx, answer, n) ==
  [stage |-> "actions", taken |-> r.taken, ctx |-> ctx,
   answers |-> r.answers \o [k \in 1 .. n |-> answer]]

LEMMA GoesIs ==
  ASSUME Typing, NEW i \in Instances, run[i].stage = "actions",
         NEW ctx \in ContextMaps, NEW answer \in ContextMaps, NEW c \in Nat,
         Goes(i, ctx, answer, c)
  PROVE  /\ run' \in [Instances -> Runs]
         /\ run'[i] = Gone(run[i], ctx, answer, c)
         /\ \A j \in Instances \ {i} : run'[j] = run[j]
<1>1. run \in [Instances -> Runs]
  BY DEF Typing
<1>2. run[i] \in [stage : {"actions"}, taken : Nat, ctx : ContextMaps,
                  answers : Seq(ContextMaps)]
  BY <1>1, RunsAre
<1> DEFINE more == [k \in 1 .. c |-> answer]
<1>3. run[i].answers \o more \in Seq(ContextMaps)
  BY <1>2, Appended
<1>4. run' = [run EXCEPT ![i].ctx = ctx, ![i].answers = @ \o more]
  BY DEF Goes
<1> HIDE DEF more
<1>5. /\ run'[i] = [stage |-> "actions", taken |-> run[i].taken, ctx |-> ctx,
                    answers |-> run[i].answers \o more]
      /\ \A j \in Instances \ {i} : run'[j] = run[j]
      /\ run' = [j \in Instances |-> run'[j]]
  BY <1>1, <1>2, <1>4
<1>6. run'[i] \in Runs
  BY <1>2, <1>3, <1>5 DEF Runs
<1> QED  BY <1>1, <1>5, <1>6 DEF Gone, more

\* The action that is due, and what it is made with.
LEMMA DueAction ==
  ASSUME Typing, NEW i \in Instances, run[i].stage = "actions"
  PROVE  /\ run[i] \in [stage : {"actions"}, taken : Nat, ctx : ContextMaps,
                        answers : Seq(ContextMaps)]
         /\ inst[i] \in [def : Registrable, ctx : ContextMaps]
         /\ IsDefinition(inst[i].def)
         /\ \E N \in Nat : IsActionList(ActionList(i), N)
         /\ \A n \in DOMAIN ActionList(i) : IsAction(ActionList(i)[n])
<1>1. run[i] \in [stage : {"actions"}, taken : Nat, ctx : ContextMaps,
                  answers : Seq(ContextMaps)]
  BY RunsAre DEF Typing
<1>2. inst[i] \in [def : Registrable, ctx : ContextMaps]
  BY DEF Typing
<1>3. IsDefinition(inst[i].def)
  BY <1>2, RegistrableIs
<1>4. run[i].taken \in Alternatives(inst[i].def)
  BY DEF Typing
<1>5. PICK N \in Nat : IsActionList(ActionList(i), N)
  BY <1>3, <1>4, ActionsAreList DEF ActionList
<1>6. \A n \in DOMAIN ActionList(i) : IsAction(ActionList(i)[n])
  BY <1>5 DEF IsActionList
<1> QED  BY <1>1, <1>2, <1>3, <1>5, <1>6

LEMMA DueOfKind ==
  ASSUME Typing, NEW i \in Instances, NEW kind, Due(i, kind)
  PROVE  /\ run[i].stage = "actions" /\ run[i].ctx \in ContextMaps
         /\ IsAction(CurrentAction(i)) /\ CurrentAction(i).kind = kind
         /\ kind \in {"HTTP", "SET"} => /\ CurrentAction(i).vars \in ContextMaps
                                        /\ CurrentAction(i).expect \in BOOLEAN
<1>1. run[i].stage = "actions" /\ Current(i) \in DOMAIN ActionList(i)
  BY DEF Due
<1>2. IsAction(CurrentAction(i)) /\ run[i].ctx \in ContextMaps
  BY <1>1, DueAction DEF CurrentAction
<1> QED  BY <1>1, <1>2 DEF Due, IsAction

\* The common part of the actions of an event.
LEMMA GoesTyping ==
  ASSUME Typing, NEW i \in Instances, run[i].stage = "actions",
         NEW ctx \in ContextMaps, NEW answer \in ContextMaps, NEW c \in Nat,
         Goes(i, ctx, answer, c), UNCHANGED <<table, seeder, inst>>,
         jobs' \subseteq [by : Instances,
                          req : [vars : ContextMaps, ctx : ContextMaps]]
  PROVE  Typing'
<1>1. run' \in [Instances -> Runs] /\ \A j \in Instances \ {i} : run'[j] = run[j]
  BY GoesIs
<1>2. run'[i].taken = run[i].taken
  <2>1. run'[i] = Gone(run[i], ctx, answer, c)
    BY GoesIs
  <2> QED  BY <2>1 DEF Gone
<1>3. \A j \in Instances : run'[j].stage = "actions" =>
        inst[j] # None /\ run'[j].taken \in Alternatives(inst[j].def)
  BY <1>1, <1>2 DEF Typing
<1> QED  BY <1>1, <1>3 DEF Typing

\* One that leaves no event under way that was not.
LEMMA KeepsTyping ==
  ASSUME Typing,
         table' \in [Names -> Registrable \cup {None}],
         seeder' \in [Seeders -> [stage : {"start", "write", "failed", "done"},
                                  defs : Seq(Registrable)]],
         inst' \in [Instances -> {None} \cup [def : Registrable, ctx : ContextMaps]],
         run' \in [Instances -> Runs],
         jobs' \subseteq jobs,
         \A j \in Instances : run'[j].stage = "actions" =>
                                run'[j] = run[j] /\ inst'[j] = inst[j]
  PROVE  Typing'
  BY DEF Typing

LEMMA TypingInit == Init => Typing
<1> SUFFICES ASSUME Init PROVE Typing
  OBVIOUS
<1>1. Idle \in Runs /\ Idle.stage # "actions"
  BY DEF Runs, Idle
<1>2. \A s \in Seeders : seeder[s] \in [stage : {"start", "write", "failed", "done"},
                                        defs : Seq(Registrable)]
  <2>1. <<>> \in Seq(Registrable)
    OBVIOUS
  <2> QED  BY <2>1 DEF Init
<1> QED  BY <1>1, <1>2 DEF Init, Typing

LEMMA LoadTyping ==
  ASSUME Typing, NEW s \in Seeders, Load(s)
  PROVE  Typing'
<1> DEFINE loaded == [i \in DOMAIN Files[s] |-> ApplyDefaults(Files[s][i], s)]
           Stages == {"start", "write", "failed", "done"}
<1>1. ASSUME \A i \in DOMAIN Files[s] : Files[s][i] # Bad
      PROVE  loaded \in Seq(Registrable)
  <2>1. \A i \in DOMAIN Files[s] : ApplyDefaults(Files[s][i], s) \in Registrable
    BY <1>1 DEF Registrable, Applications
  <2>2. Len(Files[s]) \in Nat /\ DOMAIN Files[s] = 1 .. Len(Files[s])
    BY DefinitionsAssumption
  <2> QED  BY <2>1, <2>2
<1>2. <<>> \in Seq(Registrable)
  OBVIOUS
<1>3. PICK new \in [stage : Stages, defs : Seq(Registrable)] :
        seeder' = [seeder EXCEPT ![s] = new]
  <2>1. CASE \E i \in DOMAIN Files[s] : Files[s][i] = Bad
    <3>1. seeder' = [seeder EXCEPT ![s] = [stage |-> "failed", defs |-> <<>>]]
      BY <2>1 DEF Load
    <3> QED  BY <1>2, <3>1
  <2>2. CASE \A i \in DOMAIN Files[s] : Files[s][i] # Bad
    <3>1. seeder' = [seeder EXCEPT ![s] = [stage |-> "write", defs |-> loaded]]
      BY <2>2 DEF Load
    <3> HIDE DEF loaded
    <3> QED  BY <1>1, <2>2, <3>1
  <2> QED  BY <2>1, <2>2
<1>4. seeder' \in [Seeders -> [stage : Stages, defs : Seq(Registrable)]]
  BY <1>3 DEF Typing
<1> QED  BY <1>4, KeepsTyping DEF Load, Typing

LEMMA SeedTyping ==
  ASSUME Typing, NEW s \in Seeders, SeedStep(s)
  PROVE  Typing'
<1> DEFINE Stages == {"start", "write", "failed", "done"}
<1>1. seeder[s] \in [stage : Stages, defs : Seq(Registrable)]
  BY DEF Typing
<1>2. CASE Upsert(s)
  <2>1. seeder[s].defs # <<>>
    BY <1>2 DEF Upsert
  <2>2. Head(seeder[s].defs) \in Registrable /\ Tail(seeder[s].defs) \in Seq(Registrable)
    BY <1>1, <2>1
  <2>3. table' \in [Names -> Registrable \cup {None}]
    BY <1>2, <2>2 DEF Upsert, Typing
  <2>4. seeder' = [seeder EXCEPT ![s].defs = Tail(seeder[s].defs)]
    BY <1>2 DEF Upsert
  <2>5. seeder' \in [Seeders -> [stage : Stages, defs : Seq(Registrable)]]
    BY <1>1, <2>2, <2>4 DEF Typing
  <2> QED  BY <1>2, <2>3, <2>5, KeepsTyping DEF Upsert, Typing
<1>3. CASE UpsertFails(s)
  <2>1. seeder' \in [Seeders -> [stage : Stages, defs : Seq(Registrable)]]
    BY <1>1, <1>3 DEF UpsertFails, Typing
  <2> QED  BY <1>3, <2>1, KeepsTyping DEF UpsertFails, Typing
<1>4. CASE SeedReturns(s)
  <2>1. seeder' \in [Seeders -> [stage : Stages, defs : Seq(Registrable)]]
    BY <1>1, <1>4 DEF SeedReturns, Typing
  <2> QED  BY <1>4, <2>1, KeepsTyping DEF SeedReturns, Typing
<1> QED  BY <1>2, <1>3, <1>4, LoadTyping DEF SeedStep

LEMMA CreateTyping ==
  ASSUME Typing, NEW i \in Instances, CreateStep(i)
  PROVE  Typing'
<1>1. CASE InsertInstance(i)
  <2>1. run[i].def \in Registrable
    BY <1>1, RunsAre DEF InsertInstance, Typing
  <2>2. Empty \in ContextMaps
    BY EmptyIsMap
  <2>3. inst' \in [Instances -> {None} \cup [def : Registrable, ctx : ContextMaps]]
    BY <1>1, <2>1, <2>2 DEF InsertInstance, Typing
  <2>4. Idle \in Runs /\ Idle.stage # "actions"
    BY DEF Runs, Idle
  <2>5. run' \in [Instances -> Runs] /\ run'[i] = Idle
    BY <1>1, <2>4 DEF InsertInstance, Typing
  <2>6. \A j \in Instances \ {i} : run'[j] = run[j] /\ inst'[j] = inst[j]
    BY <1>1 DEF InsertInstance, Typing
  <2> QED  BY <1>1, <2>3, <2>4, <2>5, <2>6, KeepsTyping DEF InsertInstance, Typing
<1>2. ASSUME NEW n \in Names, FindDefinition(i, n)
      PROVE  Typing'
  <2> DEFINE r == [stage |-> "insert", def |-> table[n]]
  <2>1. table[n] \in Registrable
    BY <1>2 DEF FindDefinition, Typing
  <2>2. r \in Runs /\ r.stage # "actions"
    BY <2>1 DEF Runs
  <2>3. run' = [run EXCEPT ![i] = r]
    BY <1>2 DEF FindDefinition
  <2> HIDE DEF r
  <2>4. run' \in [Instances -> Runs] /\ run'[i] = r
    BY <2>2, <2>3 DEF Typing
  <2>5. \A j \in Instances \ {i} : run'[j] = run[j]
    BY <2>3 DEF Typing
  <2> QED  BY <1>2, <2>2, <2>4, <2>5, KeepsTyping DEF FindDefinition, Typing
<1> QED  BY <1>1, <1>2 DEF CreateStep

LEMMA EventTyping ==
  ASSUME Typing, NEW i \in Instances, EventStep(i)
  PROVE  Typing'
<1> DEFINE Jobs == [by : Instances, req : [vars : ContextMaps, ctx : ContextMaps]]
<1>0. jobs \subseteq Jobs
  BY DEF Typing
<1>1. Empty \in ContextMaps
  BY EmptyIsMap
<1>2. CASE Begin(i)
  <2>1. PICK k \in Passing(inst[i].def, inst[i].ctx) :
          run' = [run EXCEPT ![i] =
                    [stage |-> "actions", taken |-> k, ctx |-> inst[i].ctx,
                     answers |-> <<>>]]
    BY <1>2 DEF Begin
  <2> DEFINE r == [stage |-> "actions", taken |-> k, ctx |-> inst[i].ctx,
                   answers |-> <<>>]
  <2>2. inst[i] \in [def : Registrable, ctx : ContextMaps]
    BY <1>2 DEF Begin, Typing
  <2>3. IsDefinition(inst[i].def)
    BY <2>2, RegistrableIs
  <2>4. k \in Alternatives(inst[i].def) /\ k \in Nat
    BY <2>3, FS_CardinalityType DEF Passing, Alternatives, Indices, IsDefinition
  <2>5. <<>> \in Seq(ContextMaps)
    OBVIOUS
  <2>6. r \in Runs /\ r.taken = k
    BY <2>2, <2>4, <2>5 DEF Runs
  <2> HIDE DEF r
  <2>7. run' \in [Instances -> Runs] /\ run'[i] = r
    BY <2>1, <2>6 DEF Typing, r
  <2>8. \A j \in Instances \ {i} : run'[j] = run[j]
    BY <2>1 DEF Typing
  <2>9. UNCHANGED <<table, seeder, inst, jobs>> /\ inst[i] # None
    BY <1>2 DEF Begin
  <2>10. \A j \in Instances : run'[j].stage = "actions" =>
           inst'[j] # None /\ run'[j].taken \in Alternatives(inst'[j].def)
    BY <2>4, <2>6, <2>7, <2>8, <2>9 DEF Typing
  <2> QED  BY <2>7, <2>9, <2>10 DEF Typing
<1>3. CASE SetContext(i)
  <2>1. /\ run[i].stage = "actions" /\ run[i].ctx \in ContextMaps
        /\ CurrentAction(i).vars \in ContextMaps
    BY <1>3, DueOfKind DEF SetContext
  <2>2. PICK ctx \in executeSetContextMapAction(CurrentAction(i).vars, run[i].ctx) :
          Goes(i, ctx, Empty, 1)
    BY <1>3 DEF SetContext
  <2>3. ctx \in ContextMaps
    BY <2>1, <2>2, SetContextType
  <2> QED  BY <1>0, <1>1, <1>3, <2>1, <2>2, <2>3, GoesTyping DEF SetContext
<1>4. CASE Send(i)
  <2>1. run[i].stage = "actions" /\ run[i].ctx \in ContextMaps
    BY <1>4, DueOfKind DEF Send
  <2>2. PICK answer \in Answers \cup {Empty} :
          Goes(i, Merge(run[i].ctx, answer), answer, 1)
    BY <1>4 DEF Send
  <2>3. answer \in ContextMaps
    BY <1>1, <2>2, DefinitionsAssumption
  <2>4. Merge(run[i].ctx, answer) \in ContextMaps
    BY <2>1, <2>3, MergeIsMap
  <2>5. UNCHANGED <<table, seeder, inst>> /\ jobs' \subseteq Jobs
    BY <1>0, <1>4 DEF Send
  <2> HIDE DEF Jobs
  <2> QED  BY <2>1, <2>2, <2>3, <2>4, <2>5, GoesTyping DEF Jobs
<1>5. CASE Submit(i)
  <2>1. /\ run[i].stage = "actions" /\ run[i].ctx \in ContextMaps
        /\ CurrentAction(i).vars \in ContextMaps
    BY <1>5, DueOfKind DEF Submit
  <2>2. Goes(i, run[i].ctx, Empty, 1) /\ UNCHANGED <<table, seeder, inst>>
    BY <1>5 DEF Submit
  <2>3. jobs' \subseteq Jobs
    BY <1>0, <1>5, <2>1 DEF Submit, Request
  <2> HIDE DEF Jobs
  <2> QED  BY <1>1, <2>1, <2>2, <2>3, GoesTyping DEF Jobs
<1>6. CASE CreateChildren(i)
  <2>1. run[i].stage = "actions" /\ run[i].ctx \in ContextMaps
    BY <1>6, DueOfKind DEF CreateChildren
  <2>2. PICK n \in DOMAIN ActionList(i) :
          /\ n >= Current(i)
          /\ Goes(i, Merge(run[i].ctx, Children), Empty, n + 1 - Current(i))
    BY <1>6 DEF CreateChildren, Children
  <2>3. n + 1 - Current(i) \in Nat
    <3>1. n \in Nat
      BY <2>1, DueAction DEF IsActionList
    <3>2. Len(run[i].answers) \in Nat
      BY <2>1, DueAction
    <3> QED  BY <2>2, <3>1, <3>2 DEF Current
  <2>4. Merge(run[i].ctx, Children) \in ContextMaps
    BY <2>1, ChildrenIsMap, MergeIsMap
  <2>5. UNCHANGED <<table, seeder, inst>> /\ jobs' \subseteq Jobs
    BY <1>0, <1>6 DEF CreateChildren
  <2> HIDE DEF Jobs
  <2> QED  BY <1>1, <2>1, <2>2, <2>3, <2>4, <2>5, GoesTyping DEF Jobs
<1>7. Idle \in Runs /\ Idle.stage # "actions"
  BY DEF Runs, Idle
<1>8. CASE Commit(i)
  <2>1. /\ run[i].ctx \in ContextMaps
        /\ inst[i] \in [def : Registrable, ctx : ContextMaps]
    BY <1>8, DueAction DEF Commit
  <2>2. inst' \in [Instances -> {None} \cup [def : Registrable, ctx : ContextMaps]]
    BY <1>8, <2>1 DEF Commit, Typing
  <2>3. run' \in [Instances -> Runs] /\ run'[i] = Idle
    BY <1>7, <1>8 DEF Commit, Typing
  <2>4. \A j \in Instances \ {i} : run'[j] = run[j] /\ inst'[j] = inst[j]
    BY <1>8 DEF Commit, Typing
  <2> QED  BY <1>7, <1>8, <2>2, <2>3, <2>4, KeepsTyping DEF Commit, Typing
<1>9. CASE Fail(i)
  <2>1. run' \in [Instances -> Runs] /\ run'[i] = Idle
    BY <1>7, <1>9 DEF Fail, Typing
  <2>2. \A j \in Instances \ {i} : run'[j] = run[j]
    BY <1>9 DEF Fail, Typing
  <2> QED  BY <1>7, <1>9, <2>1, <2>2, KeepsTyping DEF Fail, Typing
<1> QED  BY <1>2, <1>3, <1>4, <1>5, <1>6, <1>8, <1>9 DEF EventStep

LEMMA TypingStep == Typing /\ [Next]_vars => Typing'
<1> SUFFICES ASSUME Typing, [Next]_vars PROVE Typing'
  OBVIOUS
<1>1. ASSUME NEW j \in jobs, RunJob(j) PROVE Typing'
  BY <1>1, KeepsTyping DEF RunJob, Typing
<1>2. CASE UNCHANGED vars
  BY <1>2, KeepsTyping DEF vars, Typing
<1> QED  BY <1>1, <1>2, SeedTyping, CreateTyping, EventTyping DEF Next

-----------------------------------------------------------------------------
(* Every step keeps what seedings rely on.                                  *)

LEMMA SeedingInit == Init => Seeding
  BY DEF Init, Seeding

\* A step that writes no definition.
LEMMA KeepsSeeding ==
  ASSUME Seeding, table' = table,
         \A s \in Seeders : seeder'[s].stage = "write" => seeder'[s] = seeder[s]
  PROVE  Seeding'
<1> SUFFICES ASSUME NEW s \in Seeders, seeder'[s].stage = "write"
             PROVE  SeedingOf(s)'
  BY DEF Seeding
<1>1. seeder'[s] = seeder[s] /\ SeedingOf(s)
  BY DEF Seeding
<1>2. Written(s)' = Written(s)
  BY <1>1 DEF Written
<1>3. \A k : IsLast(s, k)' = IsLast(s, k) /\ InTable(s, k)' = InTable(s, k)
  BY <1>2 DEF IsLast, InTable
<1> QED  BY <1>1, <1>2, <1>3 DEF SeedingOf

LEMMA LoadSeeding ==
  ASSUME Typing, Seeding, NEW s \in Seeders, Load(s)
  PROVE  Seeding'
<1> DEFINE loaded == [i \in DOMAIN Files[s] |-> ApplyDefaults(Files[s][i], s)]
<1>1. DOMAIN seeder = Seeders
  BY DEF Typing
<1>2. Len(Files[s]) \in Nat /\ DOMAIN Files[s] = 1 .. Len(Files[s])
  BY DefinitionsAssumption
<1>3. Len(loaded) = Len(Files[s]) /\ DOMAIN loaded = 1 .. Len(Files[s])
  BY <1>2
<1>4. CASE \E i \in DOMAIN Files[s] : Files[s][i] = Bad
  <2>1. seeder' = [seeder EXCEPT ![s] = [stage |-> "failed", defs |-> <<>>]]
    BY <1>4 DEF Load
  <2>2. \A o \in Seeders : seeder'[o].stage = "write" => seeder'[o] = seeder[o]
    BY <1>1, <2>1
  <2> QED  BY <2>2, KeepsSeeding DEF Load
<1>5. CASE \A i \in DOMAIN Files[s] : Files[s][i] # Bad
  <2>1. seeder' = [seeder EXCEPT ![s] = [stage |-> "write", defs |-> loaded]]
    BY <1>5 DEF Load
  <2> HIDE DEF loaded
  <2>2. seeder'[s].defs = loaded /\ \A o \in Seeders \ {s} : seeder'[o] = seeder[o]
    BY <1>1, <2>1
  <2>3. Written(s)' = 0
    BY <1>2, <1>3, <2>2 DEF Written
  <2>4. SeedingOf(s)'
    <3>1. Len(loaded) <= Len(Files[s])
      BY <1>2, <1>3
    <3>2. \A j \in 1 .. Len(loaded) : loaded[j] = ApplyDefaults(Files[s][0 + j], s)
      BY <1>2, <1>3 DEF loaded
    <3> QED  BY <1>5, <2>2, <2>3, <3>1, <3>2 DEF SeedingOf
  <2>5. ASSUME NEW o \in Seeders \ {s}, seeder'[o].stage = "write"
        PROVE  SeedingOf(o)'
    <3>1. seeder'[o] = seeder[o] /\ SeedingOf(o)
      BY <2>2, <2>5 DEF Seeding
    <3>2. Written(o)' = Written(o) /\ table' = table
      BY <3>1 DEF Written, Load
    <3>3. \A k : IsLast(o, k)' = IsLast(o, k) /\ InTable(o, k)' = InTable(o, k)
      BY <3>2 DEF IsLast, InTable
    <3> QED  BY <3>1, <3>2, <3>3 DEF SeedingOf
  <2> QED  BY <2>4, <2>5 DEF Seeding
<1> QED  BY <1>4, <1>5

\* What a seeding writes next is the definition of its next file.
LEMMA NextToWrite ==
  ASSUME Typing, Seeding, NEW s \in Seeders, seeder[s].stage = "write",
         seeder[s].defs # <<>>
  PROVE  LET w == Written(s)
             def == Head(seeder[s].defs)
         IN /\ w \in Nat /\ w + 1 \in DOMAIN Files[s]
            /\ def = ApplyDefaults(Files[s][w + 1], s)
            /\ def \in Applications(s)
            /\ Name(def) = Name(Files[s][w + 1]) /\ Name(def) \in Names
            /\ Tail(seeder[s].defs) \in Seq(Registrable)
            /\ Len(Tail(seeder[s].defs)) = Len(seeder[s].defs) - 1
            /\ \A j \in 1 .. Len(seeder[s].defs) - 1 :
                 Tail(seeder[s].defs)[j] = seeder[s].defs[j + 1]
<1> DEFINE D == seeder[s].defs
<1>1. D \in Seq(Registrable)
  BY DEF Typing
<1>2. Len(Files[s]) \in Nat /\ DOMAIN Files[s] = 1 .. Len(Files[s])
  BY DefinitionsAssumption
<1>3. /\ \A i \in DOMAIN Files[s] : Files[s][i] # Bad
      /\ Len(D) <= Len(Files[s])
      /\ \A j \in 1 .. Len(D) : D[j] = ApplyDefaults(Files[s][Written(s) + j], s)
  BY DEF Seeding, SeedingOf
<1>4. Written(s) = Len(Files[s]) - Len(D)
  BY DEF Written
<1> HIDE DEF D
<1>5. Len(D) \in Nat \ {0} /\ Head(D) = D[1] /\ 1 \in 1 .. Len(D)
  BY <1>1 DEF D
<1>6. Written(s) \in Nat /\ Written(s) + 1 \in DOMAIN Files[s]
  BY <1>2, <1>3, <1>4, <1>5
<1>7. Head(D) = ApplyDefaults(Files[s][Written(s) + 1], s)
  BY <1>3, <1>5
<1>8. Files[s][Written(s) + 1] # Bad /\ IsDefinition(Files[s][Written(s) + 1])
  BY <1>3, <1>6, DefinitionsAssumption
<1>9. Head(D) \in Applications(s) /\ Head(D) \in Registrable
  BY <1>6, <1>7, <1>8 DEF Applications, Registrable
<1>10. Name(Head(D)) = Name(Files[s][Written(s) + 1]) /\ Name(Head(D)) \in Names
  BY <1>7, <1>8, <1>9, AppliedIsDefinition, RegistrableIs
<1>11. /\ Tail(D) \in Seq(Registrable) /\ Len(Tail(D)) = Len(D) - 1
       /\ \A j \in 1 .. Len(D) - 1 : Tail(D)[j] = D[j + 1]
  BY <1>1, <1>5
<1> QED  BY <1>6, <1>7, <1>9, <1>10, <1>11 DEF D

LEMMA UpsertSeeding ==
  ASSUME Typing, Seeding, NEW s \in Seeders, Upsert(s)
  PROVE  Seeding'
<1> DEFINE D == seeder[s].defs
           w == Written(s)
<1>0. seeder[s].stage = "write" /\ D # <<>>
  BY DEF Upsert
<1>1. /\ w \in Nat /\ w + 1 \in DOMAIN Files[s]
      /\ Head(D) = ApplyDefaults(Files[s][w + 1], s)
      /\ Head(D) \in Applications(s)
      /\ Name(Head(D)) = Name(Files[s][w + 1]) /\ Name(Head(D)) \in Names
      /\ Len(Tail(D)) = Len(D) - 1
      /\ \A j \in 1 .. Len(D) - 1 : Tail(D)[j] = D[j + 1]
  BY <1>0, NextToWrite
<1>2. /\ Len(D) \in Nat /\ Len(Files[s]) \in Nat
      /\ DOMAIN Files[s] = 1 .. Len(Files[s])
      /\ w = Len(Files[s]) - Len(D)
  BY DefinitionsAssumption DEF Typing, Written
<1>3. /\ table'[Name(Head(D))] = Head(D)
      /\ \A n \in Names \ {Name(Head(D))} : table'[n] = table[n]
  <2>1. table' = [table EXCEPT ![Name(Head(D))] = Head(D)]
    BY DEF Upsert
  <2> QED  BY <1>1, <2>1 DEF Typing
<1>4. /\ seeder'[s].defs = Tail(D)
      /\ \A o \in Seeders \ {s} : seeder'[o] = seeder[o]
  BY DEF Upsert, Typing
<1>5. /\ \A i \in DOMAIN Files[s] : Files[s][i] # Bad
      /\ Len(D) <= Len(Files[s])
      /\ \A j \in 1 .. Len(D) : D[j] = ApplyDefaults(Files[s][w + j], s)
      /\ \A k \in 1 .. w : IsLast(s, k) => InTable(s, k)
  BY <1>0 DEF Seeding, SeedingOf
<1> HIDE DEF D, w
<1>6. Written(s)' = w + 1
  <2>1. Written(s)' = Len(Files[s]) - Len(Tail(D))
    BY <1>4 DEF Written
  <2>2. Len(Tail(D)) = Len(D) - 1
    BY <1>1
  <2>3. \A f, d \in Nat : f - (d - 1) = (f - d) + 1
    OBVIOUS
  <2> QED  BY ONLY <1>2, <2>1, <2>2, <2>3
<1>7. \A o \in Seeders : \A i \in DOMAIN Files[o] : Files[o][i] # Bad =>
        Name(Files[o][i]) \in Names
  BY DefinitionsAssumption DEF IsDefinition, Name
<1>8. SeedingOf(s)'
  <2>1. ASSUME NEW j \in 1 .. Len(D) - 1
        PROVE  Tail(D)[j] = ApplyDefaults(Files[s][(w + 1) + j], s)
    <3>0. Tail(D)[j] = D[j + 1]
      BY <1>1
    <3>1. j + 1 \in 1 .. Len(D) /\ w + (j + 1) = (w + 1) + j
      <4>1. \A a, d \in Nat : \A x \in 1 .. d - 1 :
              x + 1 \in 1 .. d /\ a + (x + 1) = (a + 1) + x
        OBVIOUS
      <4> QED  BY <1>1, <1>2, <4>1
    <3> QED  BY <1>5, <3>0, <3>1
  <2>2. ASSUME NEW k \in 1 .. w + 1, IsLast(s, k)'
        PROVE  InTable(s, k)'
    <3>1. \A l \in 1 .. w + 1 : Name(Files[s][l]) = Name(Files[s][k]) => l <= k
      BY <1>6, <2>2 DEF IsLast
    <3>2. CASE k = w + 1
      BY <1>1, <1>3, <3>2 DEF InTable
    <3>3. CASE k \in 1 .. w
      <4>1. w + 1 \in 1 .. w + 1 /\ ~(w + 1 <= k)
        BY <1>1, <3>3
      <4>2. Name(Files[s][k]) # Name(Head(D))
        BY <1>1, <3>1, <4>1
      <4>3. \A l \in 1 .. w : l \in 1 .. w + 1
        BY <1>1
      <4>4. IsLast(s, k)
        BY <3>1, <4>3 DEF IsLast, w
      <4>5. k \in DOMAIN Files[s]
        BY <1>1, <1>2, <3>3
      <4>6. table'[Name(Files[s][k])] = table[Name(Files[s][k])]
        BY <1>3, <1>5, <1>7, <4>2, <4>5
      <4>7. InTable(s, k)
        BY <1>5, <3>3, <4>4
      <4> QED  BY <4>6, <4>7 DEF InTable
    <3>4. k = w + 1 \/ k \in 1 .. w
      BY <1>1
    <3> QED  BY <3>2, <3>3, <3>4
  <2>3. Len(D) - 1 <= Len(Files[s])
    BY <1>2, <1>5
  <2> QED  BY <1>1, <1>4, <1>5, <1>6, <2>1, <2>2, <2>3 DEF SeedingOf
<1>9. ASSUME NEW o \in Seeders \ {s}, seeder'[o].stage = "write"
      PROVE  SeedingOf(o)'
  <2>1. seeder'[o] = seeder[o] /\ SeedingOf(o)
    BY <1>4, <1>9 DEF Seeding
  <2>2. Written(o)' = Written(o)
    BY <2>1 DEF Written
  <2>3. /\ Written(o) \in Int /\ Written(o) <= Len(Files[o])
        /\ DOMAIN Files[o] = 1 .. Len(Files[o])
    <3>1. Len(seeder[o].defs) \in Nat
      BY DEF Typing
    <3>2. Len(Files[o]) \in Nat /\ DOMAIN Files[o] = 1 .. Len(Files[o])
      BY DefinitionsAssumption
    <3>3. \A f, d \in Nat : f - d \in Int /\ f - d <= f
      OBVIOUS
    <3> QED  BY <3>1, <3>2, <3>3 DEF Written
  <2>4. ASSUME NEW k \in 1 .. Written(o), IsLast(o, k)'
        PROVE  InTable(o, k)'
    <3>1. InTable(o, k)
      BY <2>1, <2>2, <2>4 DEF SeedingOf, IsLast
    <3>2. k \in DOMAIN Files[o]
      BY <2>3, DefinitionsAssumption
    <3>3. Name(Files[o][k]) \in Names
      BY <1>7, <2>1, <3>2 DEF SeedingOf
    <3>4. CASE Name(Files[o][k]) = Name(Head(D))
      BY <1>1, <1>3, <3>4 DEF InTable
    <3>5. CASE Name(Files[o][k]) # Name(Head(D))
      BY <1>3, <3>1, <3>3, <3>5 DEF InTable
    <3> QED  BY <3>4, <3>5
  <2> QED  BY <2>1, <2>2, <2>4 DEF SeedingOf
<1> QED  BY <1>8, <1>9 DEF Seeding

LEMMA SeedingStep == Typing /\ Seeding /\ [Next]_vars => Seeding'
<1> SUFFICES ASSUME Typing, Seeding, [Next]_vars PROVE Seeding'
  OBVIOUS
<1>1. ASSUME NEW s \in Seeders, UpsertFails(s) \/ SeedReturns(s)
      PROVE  Seeding'
  <2>1. PICK stage \in {"failed", "done"} :
          seeder' = [seeder EXCEPT ![s].stage = stage]
    BY <1>1 DEF UpsertFails, SeedReturns
  <2>2. \A o \in Seeders : seeder'[o].stage = "write" => seeder'[o] = seeder[o]
    BY <2>1 DEF Typing
  <2> QED  BY <1>1, <2>2, KeepsSeeding DEF UpsertFails, SeedReturns
<1>2. ASSUME NEW i \in Instances, CreateStep(i) \/ EventStep(i)
      PROVE  Seeding'
  <2>1. UNCHANGED <<table, seeder>>
    BY <1>2 DEF CreateStep, EventStep, InsertInstance, FindDefinition, Begin,
       SetContext, Send, Submit, CreateChildren, Commit, Fail
  <2> QED  BY <2>1, KeepsSeeding
<1>3. ASSUME NEW j \in jobs, RunJob(j) PROVE Seeding'
  BY <1>3, KeepsSeeding DEF RunJob
<1>4. CASE UNCHANGED vars
  BY <1>4, KeepsSeeding DEF vars
<1> QED  BY <1>1, <1>2, <1>3, <1>4, LoadSeeding, UpsertSeeding DEF Next, SeedStep

-----------------------------------------------------------------------------
(* Every step of an event follows its definition.                           *)

\* What can be predicted of a list could be of its beginning.
LEMMA PredictableBefore ==
  ASSUME NEW actions, NEW N, IsActionList(actions, N), NEW from \in ContextMaps,
         NEW answers \in Seq(ContextMaps), NEW answer \in ContextMaps,
         NEW c \in Nat, Len(answers) + c <= N,
         Predictable(actions,
                     Steps(actions, from, answers \o [k \in 1 .. c |-> answer]))
  PROVE  LET t == Steps(actions, from, answers)
             u == Steps(actions, from, answers \o [k \in 1 .. c |-> answer])
             L == Len(answers)
         IN /\ Predictable(actions, t)
            /\ u[L] = t[L] /\ Flat(u[L])
            /\ \A n \in L + 1 .. L + c :
                 u[n] = Effect(actions[n], u[n - 1], answer) /\ Flat(u[n])
<1> DEFINE longer == answers \o [k \in 1 .. c |-> answer]
           t == Steps(actions, from, answers)
           u == Steps(actions, from, longer)
           L == Len(answers)
<1>1. /\ longer \in Seq(ContextMaps) /\ Len(longer) = L + c
      /\ \A n \in 1 .. L : longer[n] = answers[n]
      /\ \A n \in L + 1 .. L + c : longer[n] = answer
  BY Appended
<1> HIDE DEF longer
<1>2. L \in Nat /\ L <= N /\ L <= Len(longer) /\ Len(longer) <= N /\ N \in Nat
  BY <1>1 DEF IsActionList
<1>3. \A n \in 0 .. L : u[n] = t[n]
  <2>1. /\ longer \in Seq(ContextMaps)
        /\ Len(answers) <= Len(longer) /\ Len(longer) <= N
        /\ \A n \in 1 .. Len(answers) : longer[n] = answers[n]
    BY <1>1, <1>2
  <2>2. \A n \in 0 .. Len(answers) :
          Steps(actions, from, longer)[n] = Steps(actions, from, answers)[n]
    <3> HIDE DEF t, u, L
    <3> QED  BY <2>1, StepsPrefix, Zenon
  <2> QED  BY <2>2
<1>4. /\ DOMAIN u = 0 .. L + c
      /\ \A n \in 1 .. L + c : u[n] = Effect(actions[n], u[n - 1], longer[n])
  BY <1>1, <1>2, StepsSteps
<1>5. DOMAIN t = 0 .. L
  BY <1>2, StepsSteps
<1>6. /\ \A k \in DOMAIN actions :
           actions[k].kind = "SET" => Independent(actions[k].vars)
      /\ \A k \in DOMAIN u : Flat(u[k])
  BY DEF Predictable, longer
<1> HIDE DEF t, u, L
<1>7. \A n \in 0 .. L : n \in 0 .. L + c
  BY <1>2
<1>8. Predictable(actions, t)
  BY <1>3, <1>4, <1>5, <1>6, <1>7 DEF Predictable
<1>9. u[L] = t[L] /\ Flat(u[L])
  <2>1. L \in 0 .. L
    BY <1>2
  <2>2. L \in DOMAIN u
    BY <1>4, <1>7, <2>1
  <2> QED  BY <1>3, <1>6, <2>1, <2>2
<1>10. ASSUME NEW n \in L + 1 .. L + c
       PROVE  u[n] = Effect(actions[n], u[n - 1], answer) /\ Flat(u[n])
  <2>1. n \in 1 .. L + c /\ n \in 0 .. L + c
    BY <1>2
  <2> QED  BY <1>1, <1>4, <1>6, <2>1
<1> QED  BY <1>8, <1>9, <1>10 DEF t, u, L, longer

\* One more action, which has the effect that is meant where it can be told.
LEMMA FollowsOne ==
  ASSUME NEW actions, NEW N, IsActionList(actions, N), NEW from \in ContextMaps,
         NEW answers \in Seq(ContextMaps), NEW answer \in ContextMaps,
         Len(answers) + 1 <= N, NEW ctx, NEW new,
         Follows(actions, from, answers, ctx),
         LET a == actions[Len(answers) + 1]
         IN Flat(ctx) /\ (a.kind = "SET" => Independent(a.vars)) =>
              new = Effect(a, ctx, answer)
  PROVE  Follows(actions, from, answers \o [k \in 1 .. 1 |-> answer], new)
<1>0. PICK c \in Nat : c = 1
  OBVIOUS
<1> DEFINE longer == answers \o [k \in 1 .. c |-> answer]
           t == Steps(actions, from, answers)
           u == Steps(actions, from, longer)
           L == Len(answers)
<1> SUFFICES ASSUME Predictable(actions, u) PROVE new = u[Len(longer)]
  BY <1>0 DEF Follows
<1>1. Len(longer) = L + 1 /\ L \in Nat
  BY <1>0, Appended
<1>2. /\ Predictable(actions, t)
      /\ u[L] = t[L] /\ Flat(u[L])
      /\ \A n \in L + 1 .. L + c : u[n] = Effect(actions[n], u[n - 1], answer)
  <2>1. Len(answers) + c <= N
    BY <1>0
  <2> QED  BY <2>1, PredictableBefore
<1> HIDE DEF longer
<1>3. ctx = u[L]
  BY <1>2 DEF Follows
<1>4. L + 1 \in L + 1 .. L + c /\ (L + 1) - 1 = L
  BY <1>0, <1>1
<1>5. u[L + 1] = Effect(actions[L + 1], ctx, answer)
  BY <1>2, <1>3, <1>4
<1>6. L + 1 \in DOMAIN actions
  BY <1>1 DEF IsActionList
<1>7. actions[L + 1].kind = "SET" => Independent(actions[L + 1].vars)
  BY <1>6 DEF Predictable
<1> HIDE DEF L, u
<1> QED  BY <1>1, <1>2, <1>3, <1>5, <1>7 DEF L

LEMMA MergeTwice ==
  ASSUME NEW ctx, NEW more
  PROVE  Merge(Merge(ctx, more), more) = Merge(ctx, more)
  BY DEF Merge

\* Children that are created as a batch leave what they would have one by one.
LEMMA FollowsChildren ==
  ASSUME NEW actions, NEW N, IsActionList(actions, N), NEW from \in ContextMaps,
         NEW answers \in Seq(ContextMaps), NEW answer \in ContextMaps,
         NEW c \in Nat \ {0}, Len(answers) + c <= N, NEW ctx \in ContextMaps,
         Follows(actions, from, answers, ctx),
         \A n \in Len(answers) + 1 .. Len(answers) + c : actions[n].kind = "CHILD"
  PROVE  Follows(actions, from, answers \o [k \in 1 .. c |-> answer],
                 Merge(ctx, Children))
<1> DEFINE longer == answers \o [k \in 1 .. c |-> answer]
           t == Steps(actions, from, answers)
           u == Steps(actions, from, longer)
           L == Len(answers)
           new == Merge(ctx, Children)
<1> SUFFICES ASSUME Predictable(actions, u) PROVE new = u[Len(longer)]
  BY DEF Follows
<1>1. Len(longer) = L + c /\ L \in Nat
  BY Appended
<1>2. /\ Predictable(actions, t)
      /\ u[L] = t[L]
      /\ \A n \in L + 1 .. L + c : u[n] = Effect(actions[n], u[n - 1], answer)
  BY PredictableBefore
<1> HIDE DEF longer
<1>3. ctx = u[L]
  BY <1>2 DEF Follows
<1>4. \A n \in L + 1 .. L + c, m \in ContextMaps :
        Effect(actions[n], m, answer) = Merge(m, Children)
  <2> SUFFICES ASSUME NEW n \in L + 1 .. L + c, NEW m \in ContextMaps
               PROVE  Effect(actions[n], m, answer) = Merge(m, Children)
    OBVIOUS
  <2>1. IsAction(actions[n]) /\ actions[n].kind = "CHILD"
    BY <1>1 DEF IsActionList
  <2> QED  BY <2>1, EffectIs
<1>5. new \in ContextMaps /\ Merge(new, Children) = new
  BY ChildrenIsMap, MergeIsMap, MergeTwice
<1>6. new = Merge(ctx, Children)
  OBVIOUS
<1> HIDE DEF L, u, new
<1> DEFINE T == {x \in 0 .. c - 1 : u[L + (x + 1)] = new}
<1>7. 0 \in T
  <2>1. L + 1 \in L + 1 .. L + c /\ (L + 1) - 1 = L /\ L + (0 + 1) = L + 1
        /\ 0 \in 0 .. c - 1
    BY <1>1
  <2>2. u[L + 1] = new
    BY <1>2, <1>3, <1>4, <1>6, <2>1
  <2> QED  BY <2>1, <2>2
<1>8. ASSUME NEW x \in T, x < c - 1 PROVE x + 1 \in T
  <2> DEFINE n == L + ((x + 1) + 1)
  <2>1. n \in L + 1 .. L + c /\ n - 1 = L + (x + 1) /\ x + 1 \in 0 .. c - 1
    BY <1>1, <1>8
  <2>2. u[L + (x + 1)] = new
    BY <1>8
  <2> HIDE DEF n
  <2>3. u[n] = Effect(actions[n], u[n - 1], answer)
    BY <1>2, <2>1
  <2>4. u[n] = new
    BY <1>4, <1>5, <2>1, <2>2, <2>3
  <2> QED  BY <2>1, <2>4 DEF n
<1>9. T = 0 .. c - 1
  <2>1. T \subseteq 0 .. c - 1 /\ c - 1 \in Nat
    OBVIOUS
  <2> HIDE DEF T
  <2> QED  BY <1>7, <1>8, <2>1, AllUpTo
<1>10. L + ((c - 1) + 1) = L + c /\ c - 1 \in 0 .. c - 1
  BY <1>1
<1>11. u[L + ((c - 1) + 1)] = new
  BY <1>9, <1>10
<1> QED  BY <1>1, <1>10, <1>11 DEF L

LEMMA EventsInit == Init => Events
  BY DEF Init, Events, Idle

\* A step that begins no event and goes on with none.
LEMMA KeepsEvents ==
  ASSUME Events,
         \A j \in Instances : run'[j].stage = "actions" =>
                                run'[j] = run[j] /\ inst'[j] = inst[j]
  PROVE  Events'
  BY DEF Events, EventOf, ActionList

LEMMA GoesEvents ==
  ASSUME Typing, Events, NEW i \in Instances, run[i].stage = "actions",
         NEW ctx \in ContextMaps, NEW answer \in ContextMaps, NEW c \in Nat,
         Goes(i, ctx, answer, c), UNCHANGED inst,
         Len(run[i].answers) + c <= Len(ActionList(i)),
         Follows(ActionList(i), inst[i].ctx,
                 run[i].answers \o [k \in 1 .. c |-> answer], ctx)
  PROVE  Events'
<1> DEFINE longer == run[i].answers \o [k \in 1 .. c |-> answer]
<1>1. /\ run'[i] = Gone(run[i], ctx, answer, c)
      /\ \A j \in Instances \ {i} : run'[j] = run[j]
  BY GoesIs
<1>2. Len(longer) = Len(run[i].answers) + c
  <2>1. run[i].answers \in Seq(ContextMaps)
    BY DueAction
  <2> QED  BY <2>1, Appended
<1> HIDE DEF longer
<1>3. run'[i].taken = run[i].taken /\ run'[i].ctx = ctx /\ run'[i].answers = longer
  BY <1>1 DEF Gone, longer
<1>4. EventOf(i)
  BY DEF Events
<1>5. ActionList(i)' = ActionList(i)
  BY <1>3 DEF ActionList
<1>6. EventOf(i)'
  BY <1>2, <1>3, <1>4, <1>5 DEF EventOf, longer
<1>7. ASSUME NEW j \in Instances \ {i}, run'[j].stage = "actions"
      PROVE  EventOf(j)'
  BY <1>1, <1>7 DEF Events, EventOf, ActionList
<1> QED  BY <1>6, <1>7 DEF Events

\* The event before its next action.
LEMMA BeforeAction ==
  ASSUME Typing, Events, NEW i \in Instances, NEW kind, Due(i, kind)
  PROVE  \E N \in Nat :
           /\ IsActionList(ActionList(i), N) /\ Len(ActionList(i)) = N
           /\ run[i].stage = "actions"
           /\ inst[i].ctx \in ContextMaps /\ run[i].ctx \in ContextMaps
           /\ run[i].answers \in Seq(ContextMaps)
           /\ Len(run[i].answers) + 1 <= N
           /\ Current(i) = Len(run[i].answers) + 1
           /\ CurrentAction(i) = ActionList(i)[Len(run[i].answers) + 1]
           /\ IsAction(CurrentAction(i)) /\ CurrentAction(i).kind = kind
           /\ Follows(ActionList(i), inst[i].ctx, run[i].answers, run[i].ctx)
<1>1. run[i].stage = "actions" /\ Current(i) \in DOMAIN ActionList(i)
  BY DEF Due
<1>2. PICK N \in Nat : IsActionList(ActionList(i), N)
  BY <1>1, DueAction
<1>3. /\ inst[i].ctx \in ContextMaps /\ run[i].ctx \in ContextMaps
      /\ run[i].answers \in Seq(ContextMaps)
  BY <1>1, DueAction
<1>4. IsAction(CurrentAction(i)) /\ CurrentAction(i).kind = kind
  BY DueOfKind
<1>5. Follows(ActionList(i), inst[i].ctx, run[i].answers, run[i].ctx)
  BY <1>1 DEF Events, EventOf
<1>6. DOMAIN ActionList(i) = 1 .. N /\ Len(ActionList(i)) = N
  BY <1>2 DEF IsActionList
<1>7. Len(run[i].answers) + 1 \in 1 .. N
  BY <1>1, <1>6 DEF Current
<1>8. Len(run[i].answers) + 1 <= N
  BY <1>3, <1>7
<1> QED  BY <1>1, <1>2, <1>3, <1>4, <1>5, <1>6, <1>8 DEF Current, CurrentAction

\* An action of its own.
LEMMA OneEvents ==
  ASSUME Typing, Events, NEW i \in Instances, NEW kind, Due(i, kind),
         NEW new \in ContextMaps, NEW answer \in ContextMaps,
         Goes(i, new, answer, 1), UNCHANGED inst,
         LET a == CurrentAction(i)
         IN Flat(run[i].ctx) /\ (a.kind = "SET" => Independent(a.vars)) =>
              new = Effect(a, run[i].ctx, answer)
  PROVE  Events'
<1>1. PICK N \in Nat :
           /\ IsActionList(ActionList(i), N) /\ Len(ActionList(i)) = N
           /\ run[i].stage = "actions"
           /\ inst[i].ctx \in ContextMaps /\ run[i].ctx \in ContextMaps
           /\ run[i].answers \in Seq(ContextMaps)
           /\ Len(run[i].answers) + 1 <= N
           /\ CurrentAction(i) = ActionList(i)[Len(run[i].answers) + 1]
           /\ Follows(ActionList(i), inst[i].ctx, run[i].answers, run[i].ctx)
  BY BeforeAction
<1>2. Follows(ActionList(i), inst[i].ctx,
              run[i].answers \o [k \in 1 .. 1 |-> answer], new)
  BY <1>1, FollowsOne
<1>3. Len(run[i].answers) + 1 <= Len(ActionList(i)) /\ 1 \in Nat
  BY <1>1
<1> QED  BY <1>1, <1>2, <1>3, GoesEvents

LEMMA BeginEvents ==
  ASSUME Typing, Events, NEW i \in Instances, Begin(i)
  PROVE  Events'
<1> DEFINE Alts == Passing(inst[i].def, inst[i].ctx)
<1>1. PICK k \in Alts :
        /\ \A l \in Alts : k <= l
        /\ run' = [run EXCEPT ![i] = [stage |-> "actions", taken |-> k,
                                      ctx |-> inst[i].ctx, answers |-> <<>>]]
  BY DEF Begin
<1>2. inst' = inst /\ inst[i] \in [def : Registrable, ctx : ContextMaps]
  BY DEF Begin, Typing
<1>3. /\ run'[i].taken = k /\ run'[i].ctx = inst[i].ctx /\ run'[i].answers = <<>>
      /\ \A j \in Instances \ {i} : run'[j] = run[j]
  BY <1>1 DEF Typing
<1> DEFINE actions == ActionsOf(inst[i].def, k)
<1>4. PICK N \in Nat : IsActionList(actions, N)
  <2>1. IsDefinition(inst[i].def) /\ k \in Alternatives(inst[i].def)
    BY <1>2, RegistrableIs DEF Passing
  <2> QED  BY <2>1, ActionsAreList
<1>5. ActionList(i)' = actions
  BY <1>2, <1>3 DEF ActionList
<1>6. <<>> \in Seq(ContextMaps) /\ Len(<<>>) = 0
  OBVIOUS
<1>7. 0 <= Len(actions)
  BY <1>4 DEF IsActionList
<1>8. Follows(actions, inst[i].ctx, <<>>, inst[i].ctx)
  BY <1>6, NoSteps DEF Follows
<1> HIDE DEF actions
<1>9. EventOf(i)'
  BY <1>1, <1>2, <1>3, <1>5, <1>6, <1>7, <1>8 DEF EventOf
<1>10. ASSUME NEW j \in Instances \ {i}, run'[j].stage = "actions"
       PROVE  EventOf(j)'
  BY <1>2, <1>3, <1>10 DEF Events, EventOf, ActionList
<1> QED  BY <1>9, <1>10 DEF Events

LEMMA SetContextEvents ==
  ASSUME Typing, Events, NEW i \in Instances, SetContext(i)
  PROVE  Events'
<1> DEFINE a == CurrentAction(i)
<1>1. Due(i, "SET") /\ UNCHANGED inst
  BY DEF SetContext
<1>2. PICK new \in executeSetContextMapAction(a.vars, run[i].ctx) :
        Goes(i, new, Empty, 1)
  BY DEF SetContext
<1>3. /\ run[i].ctx \in ContextMaps /\ a.vars \in ContextMaps
      /\ IsAction(a) /\ a.kind = "SET"
  BY <1>1, DueOfKind
<1>4. new \in ContextMaps /\ Empty \in ContextMaps
  BY <1>2, <1>3, SetContextType, EmptyIsMap
<1>5. ASSUME Flat(run[i].ctx), Independent(a.vars)
      PROVE  new = Effect(a, run[i].ctx, Empty)
  <2>1. new = Merge(run[i].ctx, Filled(a.vars, run[i].ctx))
    BY <1>2, <1>3, <1>5, SetContextOne
  <2> QED  BY <1>3, <1>4, <2>1, EffectIs
<1> QED  BY <1>1, <1>2, <1>3, <1>4, <1>5, OneEvents

LEMMA SendEvents ==
  ASSUME Typing, Events, NEW i \in Instances, Send(i)
  PROVE  Events'
<1> DEFINE a == CurrentAction(i)
<1>1. Due(i, "HTTP") /\ a.expect /\ UNCHANGED inst
  BY DEF Send
<1>2. PICK answer \in Answers \cup {Empty} :
        Goes(i, Merge(run[i].ctx, answer), answer, 1)
  BY DEF Send
<1>3. run[i].ctx \in ContextMaps /\ IsAction(a) /\ a.kind = "HTTP"
  BY <1>1, DueOfKind
<1>4. answer \in ContextMaps
  BY <1>2, EmptyIsMap, DefinitionsAssumption
<1> DEFINE new == Merge(run[i].ctx, answer)
<1>5. new \in ContextMaps
  BY <1>3, <1>4, MergeIsMap
<1>6. new = Effect(a, run[i].ctx, answer)
  BY <1>1, <1>3, <1>4, EffectIs
<1>7. Goes(i, new, answer, 1)
  BY <1>2
<1> HIDE DEF new
<1> QED  BY <1>1, <1>4, <1>5, <1>6, <1>7, OneEvents

LEMMA SubmitEvents ==
  ASSUME Typing, Events, NEW i \in Instances, Submit(i)
  PROVE  Events'
<1> DEFINE a == CurrentAction(i)
<1>1. Due(i, "HTTP") /\ ~a.expect /\ UNCHANGED inst /\ Goes(i, run[i].ctx, Empty, 1)
  BY DEF Submit
<1>2. run[i].ctx \in ContextMaps /\ IsAction(a) /\ a.kind = "HTTP"
  BY <1>1, DueOfKind
<1>3. Empty \in ContextMaps
  BY EmptyIsMap
<1>4. run[i].ctx = Effect(a, run[i].ctx, Empty)
  BY <1>1, <1>2, <1>3, EffectIs
<1> QED  BY <1>1, <1>2, <1>3, <1>4, OneEvents

LEMMA CreateChildrenEvents ==
  ASSUME Typing, Events, NEW i \in Instances, CreateChildren(i)
  PROVE  Events'
<1> DEFINE L == Len(run[i].answers)
<1>1. Due(i, "CHILD") /\ UNCHANGED inst
  BY DEF CreateChildren
<1>2. PICK n \in DOMAIN ActionList(i) :
        /\ n >= Current(i) /\ IsBatch(ActionList(i), Current(i), n)
        /\ Goes(i, Merge(run[i].ctx, Children), Empty, n + 1 - Current(i))
  BY DEF CreateChildren, Children
<1>3. PICK N \in Nat :
           /\ IsActionList(ActionList(i), N) /\ Len(ActionList(i)) = N
           /\ run[i].stage = "actions"
           /\ inst[i].ctx \in ContextMaps /\ run[i].ctx \in ContextMaps
           /\ run[i].answers \in Seq(ContextMaps)
           /\ L + 1 <= N /\ Current(i) = L + 1
           /\ Follows(ActionList(i), inst[i].ctx, run[i].answers, run[i].ctx)
  BY <1>1, BeforeAction
<1>4. n \in 1 .. N
  BY <1>2, <1>3 DEF IsActionList
<1>5. L \in Nat
  BY <1>3
<1>6. \A k \in L + 1 .. n : ActionList(i)[k].kind = "CHILD"
  BY <1>2, <1>3 DEF IsBatch
<1> HIDE DEF L
<1> DEFINE c == n - L
<1>7. c \in Nat \ {0} /\ L + c = n /\ n + 1 - (L + 1) = c /\ L + c <= N
  BY <1>2, <1>3, <1>4, <1>5
<1> HIDE DEF c
<1>8. Merge(run[i].ctx, Children) \in ContextMaps /\ Empty \in ContextMaps
  BY <1>3, ChildrenIsMap, MergeIsMap, EmptyIsMap
<1>9. Goes(i, Merge(run[i].ctx, Children), Empty, c)
  BY <1>2, <1>3, <1>7
<1>10. \A k \in L + 1 .. L + c : ActionList(i)[k].kind = "CHILD"
  BY <1>6, <1>7
<1>11. Follows(ActionList(i), inst[i].ctx,
               run[i].answers \o [k \in 1 .. c |-> Empty],
               Merge(run[i].ctx, Children))
  <2> DEFINE list == ActionList(i)
             from == inst[i].ctx
             answers == run[i].answers
             ctx == run[i].ctx
  <2>1. /\ Len(answers) + c <= N
        /\ \A k \in Len(answers) + 1 .. Len(answers) + c : list[k].kind = "CHILD"
    BY <1>7, <1>10 DEF L
  <2>2. /\ IsActionList(list, N) /\ from \in ContextMaps /\ ctx \in ContextMaps
        /\ answers \in Seq(ContextMaps) /\ Follows(list, from, answers, ctx)
    BY <1>3
  <2> HIDE DEF list, from, answers, ctx
  <2>3. Follows(list, from, answers \o [k \in 1 .. c |-> Empty], Merge(ctx, Children))
    BY <1>7, <1>8, <2>1, <2>2, FollowsChildren
  <2> QED  BY <2>3 DEF list, from, answers, ctx
<1>12. Len(run[i].answers) + c <= Len(ActionList(i)) /\ c \in Nat
  BY <1>3, <1>7 DEF L
<1> QED  BY <1>1, <1>3, <1>8, <1>9, <1>11, <1>12, GoesEvents

LEMMA EventsStep == Typing /\ Events /\ [Next]_vars => Events'
<1> SUFFICES ASSUME Typing, Events, [Next]_vars PROVE Events'
  OBVIOUS
<1>1. ASSUME NEW s \in Seeders, SeedStep(s) PROVE Events'
  <2>1. UNCHANGED <<inst, run>>
    BY <1>1 DEF SeedStep, Load, Upsert, UpsertFails, SeedReturns
  <2> QED  BY <2>1, KeepsEvents
<1>2. ASSUME NEW i \in Instances, InsertInstance(i) \/ Commit(i) \/ Fail(i)
      PROVE  Events'
  <2>1. run'[i].stage # "actions"
    BY <1>2 DEF InsertInstance, Commit, Fail, Typing, Idle
  <2>2. \A j \in Instances \ {i} : run'[j] = run[j] /\ inst'[j] = inst[j]
    BY <1>2 DEF InsertInstance, Commit, Fail, Typing
  <2> QED  BY <2>1, <2>2, KeepsEvents
<1>3. ASSUME NEW i \in Instances, NEW n \in Names, FindDefinition(i, n)
      PROVE  Events'
  <2>1. run'[i].stage # "actions"
    BY <1>3 DEF FindDefinition, Typing
  <2>2. \A j \in Instances \ {i} : run'[j] = run[j] /\ inst'[j] = inst[j]
    BY <1>3 DEF FindDefinition, Typing
  <2> QED  BY <2>1, <2>2, KeepsEvents
<1>4. ASSUME NEW j \in jobs, RunJob(j) PROVE Events'
  <2>1. UNCHANGED <<inst, run>>
    BY <1>4 DEF RunJob
  <2> QED  BY <2>1, KeepsEvents
<1>5. CASE UNCHANGED vars
  BY <1>5, KeepsEvents DEF vars
<1> QED  BY <1>1, <1>2, <1>3, <1>4, <1>5, BeginEvents, SetContextEvents,
     SendEvents, SubmitEvents, CreateChildrenEvents DEF Next, CreateStep, EventStep

-----------------------------------------------------------------------------
(* Every request is the one that was due.                                   *)

LEMMA LastRequestInit == Init => LastRequest
  BY DEF Init, LastRequest, SentAsDue

LEMMA LastRequestStep == Typing /\ LastRequest /\ [Next]_vars => LastRequest'
<1> SUFFICES ASSUME Typing, LastRequest, [Next]_vars PROVE LastRequest'
  OBVIOUS
<1>1. ASSUME NEW v \in ContextMaps, NEW ctx \in ContextMaps,
             NEW body \in Bodies(v, ctx),
             sent' = [due |-> Request(v, ctx), body |-> body]
      PROVE  LastRequest'
  <2>1. Flat(ctx) => body = Filled(v, ctx)
    BY BodiesOfFlat
  <2>2. sent'.due.ctx = ctx /\ sent'.due.vars = v /\ sent'.body = body
    BY <1>1 DEF Request
  <2> QED  BY <2>1, <2>2 DEF LastRequest, SentAsDue
<1>2. ASSUME NEW i \in Instances, Send(i) PROVE LastRequest'
  <2> DEFINE v == CurrentAction(i).vars
             ctx == run[i].ctx
  <2>1. v \in ContextMaps /\ ctx \in ContextMaps
    BY <1>2, DueOfKind DEF Send
  <2>2. PICK body \in Bodies(v, ctx) :
          sent' = [due |-> Request(v, ctx), body |-> body]
    BY <1>2 DEF Send
  <2> HIDE DEF v, ctx
  <2> QED  BY <1>1, <2>1, <2>2
<1>3. ASSUME NEW j \in jobs, RunJob(j) PROVE LastRequest'
  <2>1. /\ j.req.vars \in ContextMaps /\ j.req.ctx \in ContextMaps
        /\ j.req = Request(j.req.vars, j.req.ctx)
    BY DEF Typing, Request
  <2>2. PICK body \in Bodies(j.req.vars, j.req.ctx) :
          sent' = [due |-> j.req, body |-> body]
    BY <1>3 DEF RunJob
  <2> QED  BY <1>1, <2>1, <2>2
<1>4. ASSUME sent' = sent PROVE LastRequest'
  BY <1>4 DEF LastRequest, SentAsDue
<1>5. ASSUME NEW s \in Seeders, SeedStep(s) PROVE sent' = sent
  BY <1>5 DEF SeedStep, Load, Upsert, UpsertFails, SeedReturns
<1>6. ASSUME NEW i \in Instances, CreateStep(i) \/ EventStep(i), ~Send(i)
      PROVE  sent' = sent
  BY <1>6 DEF CreateStep, EventStep, InsertInstance, FindDefinition, Begin,
     SetContext, Submit, CreateChildren, Commit, Fail
<1>7. UNCHANGED vars => sent' = sent
  BY DEF vars
<1> QED  BY <1>2, <1>3, <1>4, <1>5, <1>6, <1>7 DEF Next

-----------------------------------------------------------------------------
(* The invariant of every run, and what follows from it.                    *)

IInv == Typing /\ Seeding /\ Events /\ LastRequest

\* In every run: what is registered, pinned to an instance or still to be
\* written has been through ApplyDefaults, a seeding that writes has loaded
\* all its files, and an event under way is where its definition puts it.
THEOREM Invariance == Spec => []IInv
<1>1. Init => IInv
  BY TypingInit, SeedingInit, EventsInit, LastRequestInit DEF IInv
<1>2. IInv /\ [Next]_vars => IInv'
  BY TypingStep, SeedingStep, EventsStep, LastRequestStep DEF IInv
<1> QED  BY <1>1, <1>2, PTL DEF Spec

\* model/defaults.go: for every directory and every nesting of definitions,
\* whatever is registered, or pinned to an instance that is created by name,
\* lacks no required field once its author has named it, and ApplyDefaults
\* would leave it as it is.
THEOREM Completeness == Spec => []DefinitionsComplete
<1>1. IInv => DefinitionsComplete
  <2> SUFFICES ASSUME Typing PROVE DefinitionsComplete
    BY DEF IInv
  <2>1. \A n \in Names : table[n] # None => table[n] \in Registrable
    BY DEF Typing
  <2>2. \A i \in Instances : inst[i] # None => inst[i].def \in Registrable
    BY DEF Typing
  <2> QED  BY <2>1, <2>2, RegistrableIs DEF DefinitionsComplete
<1> QED  BY <1>1, Invariance, PTL

LEMMA GreatestNumber ==
  ASSUME NEW N \in Nat, NEW T, T \subseteq 1 .. N, T # {}
  PROVE  \E x \in T : \A y \in T : y <= x
<1> DEFINE Below == {N - x : x \in T}
<1>1. Below \subseteq Nat /\ Below # {}
  <2>1. \A x \in T : N - x \in Nat
    OBVIOUS
  <2> QED  BY <2>1
<1> HIDE DEF Below
<1>2. PICK z \in Below : \A y \in Below : z <= y
  BY <1>1, LeastNumber
<1>3. PICK x \in T : z = N - x
  BY <1>2 DEF Below
<1>4. \A y \in T : N - x <= N - y
  BY <1>2, <1>3 DEF Below
<1>5. \A y \in T : y <= x
  BY <1>4
<1> QED  BY <1>5

\* seed.go: for every directory, a seeding with a bad file writes nothing; one
\* that returns has registered the last file of each of its names, or has been
\* overtaken by another one that wrote that name later.
THEOREM SeedingCorrect == Spec => SeedingIsAllOrNothing
<1>1. ASSUME IInv, NEW s \in Seeders, Upsert(s)
      PROVE  \A i \in DOMAIN Files[s] : Files[s][i] # Bad
  BY <1>1 DEF IInv, Seeding, SeedingOf, Upsert
<1>2. ASSUME IInv, NEW s \in Seeders, SeedReturns(s), NEW i \in DOMAIN Files[s],
             NEW n, n = Name(Files[s][i])
      PROVE  \/ table[n] = LastOf(s, n)
             \/ \E o \in Seeders \ {s} : \E k \in DOMAIN Files[o] :
                  Files[o][k] # Bad /\ table[n] = ApplyDefaults(Files[o][k], o)
  <2> DEFINE Same == {k \in DOMAIN Files[s] : Name(Files[s][k]) = n}
             k == CHOOSE k \in DOMAIN Files[s] :
                    /\ Name(Files[s][k]) = n
                    /\ \A l \in DOMAIN Files[s] : Name(Files[s][l]) = n => l <= k
  <2>1. Len(Files[s]) \in Nat /\ DOMAIN Files[s] = 1 .. Len(Files[s])
    BY DefinitionsAssumption
  <2>2. Same \subseteq 1 .. Len(Files[s]) /\ Same # {}
    BY <1>2, <2>1
  <2>3. \E x \in Same : \A y \in Same : y <= x
    <3> HIDE DEF Same
    <3> QED  BY <2>1, <2>2, GreatestNumber
  <2>4. \E x \in DOMAIN Files[s] :
          /\ Name(Files[s][x]) = n
          /\ \A l \in DOMAIN Files[s] : Name(Files[s][l]) = n => l <= x
    BY <2>3
  <2>5. /\ k \in DOMAIN Files[s] /\ Name(Files[s][k]) = n
        /\ \A l \in DOMAIN Files[s] : Name(Files[s][l]) = n => l <= k
    BY <2>4
  <2>6. LastOf(s, n) = ApplyDefaults(Files[s][k], s)
    BY DEF LastOf
  <2> HIDE DEF k
  <2>7. Written(s) = Len(Files[s])
    <3>1. Len(seeder[s].defs) = 0
      BY <1>2 DEF SeedReturns
    <3>2. \A x \in Nat : x - 0 = x
      OBVIOUS
    <3> QED  BY <2>1, <3>1, <3>2 DEF Written
  <2>8. InTable(s, k)
    <3>1. SeedingOf(s)
      BY <1>2 DEF IInv, Seeding, SeedReturns
    <3>2. k \in 1 .. Written(s) /\ IsLast(s, k)
      BY <2>1, <2>5, <2>7 DEF IsLast
    <3> QED  BY <3>1, <3>2 DEF SeedingOf
  <2>9. ASSUME NEW o \in Seeders, table[n] \in Applications(o)
        PROVE  \E l \in DOMAIN Files[o] :
                 Files[o][l] # Bad /\ table[n] = ApplyDefaults(Files[o][l], o)
    BY <2>9 DEF Applications
  <2>10. \/ table[n] = LastOf(s, n)
         \/ \E o \in Seeders \ {s} : table[n] \in Applications(o)
    BY <2>5, <2>6, <2>8 DEF InTable
  <2> QED  BY <2>9, <2>10
<1>3. IInv => \A s \in Seeders : SeedsAllOrNothing(s)
  BY <1>1, <1>2 DEF SeedsAllOrNothing
<1> QED  BY <1>3, Invariance, PTL DEF SeedingIsAllOrNothing

\* ExecuteActions, copyContext: for every list of actions, every map and every
\* order in which Go reads it, a committed event has taken the first
\* alternative whose guard holds and has had exactly the effect that its
\* actions spell out, and every request is the one that was due.
THEOREM EventsAsWritten == Spec => RunsAsWritten
<1>1. ASSUME IInv, NEW i \in Instances
      PROVE  CommitsAsWritten(i)
  <2> SUFFICES ASSUME Commit(i) PROVE CommitsAsWritten(i)
    BY DEF CommitsAsWritten
  <2> DEFINE k == run[i].taken
             Guard(l) == inst[i].def[Alternative(l)].guard
             list == ActionsOf(inst[i].def, k)
             maps == Steps(list, inst[i].ctx, run[i].answers)
  <2>1. run[i].stage = "actions" /\ Typing /\ EventOf(i)
    BY <1>1 DEF Commit, IInv, Events
  <2>2. /\ inst[i] \in [def : Registrable, ctx : ContextMaps]
        /\ run[i].answers \in Seq(ContextMaps) /\ IsDefinition(inst[i].def)
    BY <2>1, DueAction
  <2>3. \A l \in Alternatives(inst[i].def) :
          Evaluate(Guard(l), inst[i].ctx) <=> Holds(Guard(l), inst[i].ctx)
    BY <2>2, AlternativeHasGuard, EvaluateIsHolds
  <2>4. /\ k \in Alternatives(inst[i].def) /\ Evaluate(Guard(k), inst[i].ctx)
        /\ \A l \in Alternatives(inst[i].def) :
             Evaluate(Guard(l), inst[i].ctx) => k <= l
    BY <2>1 DEF EventOf, Passing
  <2>5. \A l \in Alternatives(inst[i].def) : l \in Nat
    BY <2>2, FS_CardinalityType DEF Alternatives, Indices, IsDefinition
  <2>6. \A l \in Alternatives(inst[i].def) : l < k => ~(k <= l)
    BY <2>4, <2>5
  <2>7. ActionList(i) = list
    BY DEF ActionList
  <2>8. PICK N \in Nat : IsActionList(list, N)
    BY <2>1, <2>7, DueAction
  <2>9. Len(run[i].answers) = N /\ Len(list) = N
    <3>1. Len(run[i].answers) <= N /\ Len(list) = N
      BY <2>1, <2>7, <2>8 DEF EventOf, IsActionList
    <3>2. Len(run[i].answers) + 1 \notin 1 .. N
      BY <2>7, <2>8 DEF Commit, Current, IsActionList
    <3> QED  BY <2>2, <2>8, <3>1, <3>2
  <2>10. inst'[i] = [inst[i] EXCEPT !.ctx = run[i].ctx]
    BY <2>1 DEF Commit, Typing
  <2>11. Predictable(list, maps) => run[i].ctx = maps[Len(list)]
    BY <2>1, <2>7, <2>9 DEF EventOf, Follows
  <2>12. /\ Holds(Guard(k), inst[i].ctx)
         /\ \A l \in Alternatives(inst[i].def) : l < k => ~Holds(Guard(l), inst[i].ctx)
    BY <2>3, <2>4, <2>6
  <2>13. Predictable(list, maps) =>
           inst'[i] = [inst[i] EXCEPT !.ctx = maps[Len(list)]]
    BY <2>10, <2>11
  <2> HIDE DEF k
  <2> QED  BY <2>4, <2>9, <2>12, <2>13 DEF CommitsAsWritten
<1>2. IInv' => SentAsDue(sent')
  BY DEF IInv, LastRequest
<1>3. IInv /\ IInv' => (\A i \in Instances : CommitsAsWritten(i)) /\ SentAsDue(sent')
  BY <1>1, <1>2
<1> QED  BY <1>3, Invariance, PTL DEF RunsAsWritten
=============================================================================
