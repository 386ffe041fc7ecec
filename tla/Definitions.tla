----------------------------- MODULE Definitions -----------------------------
(* From a directory of JSON files to what an instance does: ApplyDefaults    *)
(* (model/defaults.go), SeedDefinitions (seed.go), the table of definitions, *)
(* instances created by name and the action lists of their events            *)
(* (ExecuteActions), with the jobs that outlive them.                        *)
(*   - A definition has an element at each of its paths, <<>> being its own; *)
(*     a step of a path names a list of the element before it, and an index. *)
(*     An element has a kind and fields, a transition a guard, an action its *)
(*     variables; a childWorkflow is a list of one.                          *)
(*   - An instance has one event: its transitions are alternatives for it.   *)
(*     Where they lead is the matter of Transitions and Instance.            *)
EXTENDS Actions

CONSTANTS
  Names,     \* ids that definitions may have
  Seeders,   \* runs of SeedDefinitions; each has a time of its own
  Files,     \* [Seeders -> Seq of files in the order of the directory]
  Bad,       \* a file that does not parse, or has no id or no states
  Instances,
  Answers,   \* context maps that external services answer with
  None

VARIABLES
  table,     \* [Names -> registered definition, or None]
  seeder,    \* [Seeders -> [stage, defs: those still to be written]]
  inst,      \* [Instances -> its row: definition and context map, or None]
  run,       \* [Instances -> the event, or the creation, under way]
  jobs,      \* requests handed to the pool
  sent       \* the last request, and what it was due to be

vars == <<table, seeder, inst, run, jobs, sent>>

-----------------------------------------------------------------------------
(* The Go types of a definition, and what a file that parses may hold.       *)

StateKinds == {"SimpleState", "ActionState", "CompositeState"}
ActionKinds == {"HTTP", "SET", "CHILD"}

\* The lists of an element of each type ...
Members ==
  [workflow       |-> {"states", "transitions", "commonTransitions"},
   SimpleState    |-> {},
   ActionState    |-> {"entryActions", "exitActions", "doActions"},
   CompositeState |-> {"entryActions", "exitActions", "substates",
                       "subTransitions"},
   transition     |-> {"entryActions", "forkTargets"},
   common         |-> {"entryActions"},
   HTTP           |-> {"childWorkflow"},
   SET            |-> {"childWorkflow"},
   CHILD          |-> {"childWorkflow"}]

\* ... and what each list holds.
ElementKinds ==
  [states |-> StateKinds, substates |-> StateKinds,
   transitions |-> {"transition"}, subTransitions |-> {"transition"},
   commonTransitions |-> {"common"}, forkTargets |-> {"workflow"},
   childWorkflow |-> {"workflow"}, entryActions |-> ActionKinds,
   exitActions |-> ActionKinds, doActions |-> ActionKinds]

StateFields == {"id", "type", "status", "productStatus", "bulletName",
                "initialSubstate"}
Fields(kind) ==
  CASE kind = "workflow" -> {"id", "kind", "version", "creationDate",
                             "updateDate", "initialState"}
    [] kind \in StateKinds -> StateFields
    [] kind \in {"transition", "common"} -> {"trigger", "kind"}
    [] OTHER -> {"method"}

IsElement(e) ==
  /\ {"kind", "field"} \subseteq DOMAIN e
  /\ e.kind \in DOMAIN Members /\ DOMAIN e.field = Fields(e.kind)
  /\ e.kind = "transition" => "guard" \in DOMAIN e /\ e.guard \in Guards
  /\ e.kind \in {"HTTP", "SET"} =>
       /\ {"vars", "expect"} \subseteq DOMAIN e
       /\ e.vars \in ContextMaps /\ e.expect \in BOOLEAN

\* The element whose list the n-th step of a path names.
Owner(def, p, n) == def[SubSeq(p, 1, n - 1)]

Alternative(k) == << <<"transitions", k>> >>
ActionAt(k, n) == << <<"transitions", k>>, <<"entryActions", n>> >>

\* No list has more members than the definition has elements.
Indices(def) == 1 .. Cardinality(DOMAIN def)
Alternatives(def) == {k \in Indices(def) : Alternative(k) \in DOMAIN def}
ActionIndices(def, k) == {n \in Indices(def) : ActionAt(k, n) \in DOMAIN def}

Paths == Seq((DOMAIN ElementKinds) \X Nat)

\* A field that the file omits.
Unset == ""

\* A file that parses and that loadDefinitions lets through.
IsDefinition(def) ==
  /\ DOMAIN def \subseteq Paths /\ IsFiniteSet(DOMAIN def)
  /\ {<<>>, << <<"states", 1>> >>} \subseteq DOMAIN def
  /\ def[<<>>].kind = "workflow" /\ def[<<>>].field.id \in Names
  /\ \A p \in DOMAIN def :
       /\ IsElement(def[p])
       /\ \A n \in 1 .. Len(p) :
            /\ SubSeq(p, 1, n - 1) \in DOMAIN def
            /\ p[n][1] \in Members[Owner(def, p, n).kind]
       /\ p # <<>> => def[p].kind \in ElementKinds[p[Len(p)][1]]
  /\ \A k \in Alternatives(def) :
       \E n \in {0} \cup Indices(def) : ActionIndices(def, k) = 1 .. n

ASSUME DefinitionsAssumption ==
  /\ Unset \notin Names \cup Seeders
  /\ \A s \in Seeders :
       /\ Len(Files[s]) \in Nat /\ DOMAIN Files[s] = 1 .. Len(Files[s])
       /\ \A i \in DOMAIN Files[s] :
            Files[s][i] # Bad => IsDefinition(Files[s][i])
  /\ Answers \subseteq ContextMaps

-----------------------------------------------------------------------------
(* ApplyDefaults.                                                          *)

\* Mutant: the actions that run while a state is active are forgotten.
VisitedButDo(kind) ==
  CASE kind = "workflow"       -> {"states", "transitions", "commonTransitions"}
    [] kind = "ActionState"    -> {"entryActions", "exitActions"}
    [] kind = "CompositeState" -> {"entryActions", "exitActions", "substates",
                                   "subTransitions"}
    [] kind = "transition"     -> {"entryActions", "forkTargets"}
    [] kind = "common"         -> {"entryActions"}
    [] kind \in ActionKinds    -> {"childWorkflow"}
    [] OTHER                   -> {}

\* The lists that ApplyDefaults and its helpers go through.
Visited(kind) ==
  CASE kind = "workflow"       -> {"states", "transitions", "commonTransitions"}
    [] kind = "ActionState"    -> {"entryActions", "exitActions", "doActions"}
    [] kind = "CompositeState" -> {"entryActions", "exitActions", "substates",
                                   "subTransitions"}
    [] kind = "transition"     -> {"entryActions", "forkTargets"}
    [] kind = "common"         -> {"entryActions"}
    [] kind \in ActionKinds    -> {"childWorkflow"}
    [] OTHER                   -> {}

\* The recursion reaches an element through lists it goes through only.
Reached(def, p) ==
  \A n \in 1 .. Len(p) : p[n][1] \in Visited(Owner(def, p, n).kind)

\* The id of the first member of a list, Unset if there is none.
FirstId(def, p, list) ==
  LET first == Append(p, <<list, 1>>)
  IN IF first \in DOMAIN def THEN def[first].field.id ELSE Unset

Defaults(def, p, now) ==
  CASE def[p].kind = "workflow" ->
         [version |-> "1.0.0", creationDate |-> now, updateDate |-> now,
          initialState |-> FirstId(def, p, "states")]
    [] def[p].kind \in StateKinds ->
         [type |-> def[p].kind, status |-> "NEW",
          productStatus |-> "IN_PROGRESS", bulletName |-> def[p].field.id,
          initialSubstate |-> IF def[p].kind = "CompositeState"
                              THEN FirstId(def, p, "substates") ELSE Unset]
    [] def[p].kind \in {"transition", "common"} ->
         [trigger |-> "USER", kind |-> "EXTERNAL"]
    [] def[p].kind = "HTTP" -> [method |-> "GET"]
    [] OTHER -> Empty

\* Only the kind of a workflow is not the author's to choose.
Field(def, p, f, now) ==
  IF def[p].kind = "workflow" /\ f = "kind" THEN "USER"
  ELSE IF def[p].field[f] = Unset /\ f \in DOMAIN Defaults(def, p, now)
       THEN Defaults(def, p, now)[f] ELSE def[p].field[f]

Completed(def, p, now) ==
  [def[p] EXCEPT !.field = [f \in DOMAIN @ |-> Field(def, p, f, now)]]

ApplyDefaults(def, now) ==
  [p \in DOMAIN def |->
     IF Reached(def, p) THEN Completed(def, p, now) ELSE def[p]]

-----------------------------------------------------------------------------
Idle == [stage |-> "idle"]

Init ==
  /\ table = [n \in Names |-> None]
  /\ seeder = [s \in Seeders |-> [stage |-> "start", defs |-> <<>>]]
  /\ inst = [i \in Instances |-> None]
  /\ run = [i \in Instances |-> Idle]
  /\ jobs = {}
  /\ sent = None

(* SeedDefinitions.                                                        *)

Name(def) == def[<<>>].field.id

\* Mutant: the files before the bad one are written.
LoadUntilBad(s) ==
  /\ seeder[s].stage = "start"
  /\ seeder' = [seeder EXCEPT ![s] =
       [stage |-> "write",
        defs |-> [i \in 1 .. Cardinality({k \in DOMAIN Files[s] :
                     \A j \in 1..k : Files[s][j] # Bad}) |->
                   ApplyDefaults(Files[s][i], s)]]]
  /\ UNCHANGED <<table, inst, run, jobs, sent>>

\* loadDefinitions reads every file, or fails at the first bad one.
Load(s) ==
  /\ seeder[s].stage = "start"
  /\ seeder' = [seeder EXCEPT ![s] =
       IF \E i \in DOMAIN Files[s] : Files[s][i] = Bad
       THEN [stage |-> "failed", defs |-> <<>>]
       ELSE [stage |-> "write",
             defs |-> [i \in DOMAIN Files[s] |-> ApplyDefaults(Files[s][i], s)]]]
  /\ UNCHANGED <<table, inst, run, jobs, sent>>

\* One statement for each definition, of no common transaction.
Upsert(s) ==
  /\ seeder[s].stage = "write" /\ seeder[s].defs # <<>>
  /\ LET def == Head(seeder[s].defs)
     IN table' = [table EXCEPT ![Name(def)] = def]
  /\ seeder' = [seeder EXCEPT ![s].defs = Tail(@)]
  /\ UNCHANGED <<inst, run, jobs, sent>>

UpsertFails(s) ==
  /\ seeder[s].stage = "write" /\ seeder[s].defs # <<>>
  /\ seeder' = [seeder EXCEPT ![s].stage = "failed"]
  /\ UNCHANGED <<table, inst, run, jobs, sent>>

SeedReturns(s) ==
  /\ seeder[s].stage = "write" /\ seeder[s].defs = <<>>
  /\ seeder' = [seeder EXCEPT ![s].stage = "done"]
  /\ UNCHANGED <<table, inst, run, jobs, sent>>

-----------------------------------------------------------------------------
(* NewWorkflowInstanceByName: a lookup, then an insert of what was found.   *)

FindDefinition(i, n) ==
  /\ inst[i] = None /\ run[i] = Idle
  /\ table[n] # None
  /\ run' = [run EXCEPT ![i] = [stage |-> "insert", def |-> table[n]]]
  /\ UNCHANGED <<table, seeder, inst, jobs, sent>>

InsertInstance(i) ==
  /\ run[i].stage = "insert"
  /\ inst' = [inst EXCEPT ![i] = [def |-> run[i].def, ctx |-> Empty]]
  /\ run' = [run EXCEPT ![i] = Idle]
  /\ UNCHANGED <<table, seeder, jobs, sent>>

-----------------------------------------------------------------------------
(* An event: the guard, then ExecuteActions on a copy of the row's map.     *)

\* The transitions whose guard passes; the event takes the first.
Passing(def, ctx) ==
  {k \in Alternatives(def) : Evaluate(def[Alternative(k)].guard, ctx)}

ActionsOf(def, k) == [n \in ActionIndices(def, k) |-> def[ActionAt(k, n)]]

\* An event for which no guard passes is an error and changes nothing.
Begin(i) ==
  /\ inst[i] # None /\ run[i] = Idle
  /\ \E k \in Passing(inst[i].def, inst[i].ctx) :
       /\ \A l \in Passing(inst[i].def, inst[i].ctx) : k <= l
       /\ run' = [run EXCEPT ![i] =
            [stage |-> "actions", taken |-> k, ctx |-> inst[i].ctx,
             answers |-> <<>>]]
  /\ UNCHANGED <<table, seeder, inst, jobs, sent>>

\* The list that is being executed, and the next action of it.
ActionList(i) == ActionsOf(inst[i].def, run[i].taken)
Current(i) == Len(run[i].answers) + 1
CurrentAction(i) == ActionList(i)[Current(i)]

Due(i, kind) ==
  /\ run[i].stage = "actions"
  /\ Current(i) \in DOMAIN ActionList(i)
  /\ CurrentAction(i).kind = kind

\* n actions are done; answers has a map for each, empty but for requests.
Goes(i, ctx, answer, n) ==
  run' = [run EXCEPT ![i].ctx = ctx,
                     ![i].answers = @ \o [k \in 1..n |-> answer]]

SetContext(i) ==
  /\ Due(i, "SET")
  /\ \E ctx \in executeSetContextMapAction(CurrentAction(i).vars, run[i].ctx) :
       Goes(i, ctx, Empty, 1)
  /\ UNCHANGED <<table, seeder, inst, jobs, sent>>

Request(v, ctx) == [vars |-> v, ctx |-> ctx]

\* A request whose answer is waited for: what decodes to a map of strings is
\* merged, what does not leaves the map alone.
Send(i) ==
  /\ Due(i, "HTTP") /\ CurrentAction(i).expect
  /\ \E body \in Bodies(CurrentAction(i).vars, run[i].ctx),
        answer \in Answers \cup {Empty} :
       /\ sent' = [due |-> Request(CurrentAction(i).vars, run[i].ctx),
                   body |-> body]
       /\ Goes(i, Merge(run[i].ctx, answer), answer, 1)
  /\ UNCHANGED <<table, seeder, inst, jobs>>

\* One that is not waited for takes a copy of the map along (copyContext).
Submit(i) ==
  /\ Due(i, "HTTP") /\ ~CurrentAction(i).expect
  /\ jobs' = jobs \cup {[by |-> i,
                         req |-> Request(CurrentAction(i).vars, run[i].ctx)]}
  /\ Goes(i, run[i].ctx, Empty, 1)
  /\ UNCHANGED <<table, seeder, inst, sent>>

\* Mutant: the job reads the map of the event that submitted it.
RunJobShared(j) ==
  /\ \E body \in Bodies(j.req.vars, IF run[j.by].stage = "actions"
                                    THEN run[j.by].ctx ELSE j.req.ctx) :
       sent' = [due |-> j.req, body |-> body]
  /\ jobs' = jobs \ {j}
  /\ UNCHANGED <<table, seeder, inst, run>>

\* Interpolated when the job runs; its event may be over, and have failed.
RunJob(j) ==
  /\ \E body \in Bodies(j.req.vars, j.req.ctx) :
       sent' = [due |-> j.req, body |-> body]
  /\ jobs' = jobs \ {j}
  /\ UNCHANGED <<table, seeder, inst, run>>

\* The create-child actions that follow each other, m to n, as one batch.
IsBatch(list, m, n) ==
  /\ \A k \in m..n : list[k].kind = "CHILD"
  /\ n + 1 \in DOMAIN list => list[n + 1].kind # "CHILD"

CreateChildren(i) ==
  /\ Due(i, "CHILD")
  /\ \E n \in DOMAIN ActionList(i) :
       /\ n >= Current(i) /\ IsBatch(ActionList(i), Current(i), n)
       /\ \A k \in Current(i) .. n :
            Append(ActionAt(run[i].taken, k), <<"childWorkflow", 1>>)
              \in DOMAIN inst[i].def
       /\ Goes(i, Merge(run[i].ctx, [k \in ChildKeys |-> ChildId]), Empty,
               n + 1 - Current(i))
  /\ UNCHANGED <<table, seeder, inst, jobs, sent>>

Commit(i) ==
  /\ run[i].stage = "actions" /\ Current(i) \notin DOMAIN ActionList(i)
  /\ inst' = [inst EXCEPT ![i].ctx = run[i].ctx]
  /\ run' = [run EXCEPT ![i] = Idle]
  /\ UNCHANGED <<table, seeder, jobs, sent>>

\* A statement, a request or a child fails, or the process dies: the row keeps
\* its map, and requests that were sent or submitted remain so.
Fail(i) ==
  /\ run[i] # Idle
  /\ run' = [run EXCEPT ![i] = Idle]
  /\ UNCHANGED <<table, seeder, inst, jobs, sent>>

-----------------------------------------------------------------------------
SeedStep(s) == Load(s) \/ Upsert(s) \/ UpsertFails(s) \/ SeedReturns(s)

EventStep(i) == \/ Begin(i) \/ SetContext(i) \/ Send(i) \/ Submit(i)
                \/ CreateChildren(i) \/ Commit(i) \/ Fail(i)

CreateStep(i) == InsertInstance(i) \/ \E n \in Names : FindDefinition(i, n)

Next == \/ \E s \in Seeders : SeedStep(s)
        \/ \E i \in Instances : CreateStep(i) \/ EventStep(i)
        \/ \E j \in jobs : RunJob(j)

Spec == Init /\ [][Next]_vars

-----------------------------------------------------------------------------
(* Properties.                                                             *)

\* What every element has to have before the engine uses it.
Required(kind) ==
  CASE kind = "SET" \/ kind = "CHILD" -> {}
    [] kind \in {"SimpleState", "ActionState"} ->
         StateFields \ {"initialSubstate"}
    [] OTHER -> Fields(kind)

\* What no default can be taken from unless the author gives it.
Named(def) ==
  \A p \in DOMAIN def :
    /\ def[p].kind \in StateKinds \cup {"workflow"} => def[p].field.id # Unset
    /\ def[p].kind = "workflow" => Append(p, <<"states", 1>>) \in DOMAIN def
    /\ def[p].kind = "CompositeState" =>
         Append(p, <<"substates", 1>>) \in DOMAIN def

Complete(def) ==
  \A p \in DOMAIN def :
    /\ \A f \in Required(def[p].kind) : def[p].field[f] # Unset
    /\ def[p].kind = "workflow" => def[p].field.kind = "USER"

\* README, Registering workflow definitions: every omitted field is filled in
\* by the time a definition is registered, at every level of nesting (children
\* of forks, of composites' actions, of children's own states), so that no
\* instance that is created by name, however its creation interleaves with
\* seeding, lacks one (a client that creates a child sends its definition along,
\* which is taken as it is); to register what is registered again changes
\* nothing.
DefinitionsComplete ==
  \A def \in {table[n] : n \in Names} \cup {inst[i].def : i \in
                {k \in Instances : inst[k] # None}} :
    def # None => /\ Named(def) => Complete(def)
                  /\ ApplyDefaults(def, "later") = def

\* What the last file with an id makes of it.
LastOf(s, n) ==
  LET last == CHOOSE k \in DOMAIN Files[s] :
        /\ Name(Files[s][k]) = n
        /\ \A l \in DOMAIN Files[s] : Name(Files[s][l]) = n => l <= k
  IN ApplyDefaults(Files[s][last], s)

SeedsAllOrNothing(s) ==
  /\ (\E i \in DOMAIN Files[s] : Files[s][i] = Bad) => ~Upsert(s)
  /\ SeedReturns(s) => \A n \in {Name(Files[s][i]) : i \in DOMAIN Files[s]} :
       \/ table[n] = LastOf(s, n)
       \/ \E o \in Seeders \ {s} : \E k \in DOMAIN Files[o] :
            Files[o][k] # Bad /\ table[n] = ApplyDefaults(Files[o][k], o)

\* seed.go: "Nothing is written if any file fails to parse or validate, so a
\* bad file cannot leave a half-seeded database"; and when SeedDefinitions
\* returns without an error, each of its names has the definition of the last
\* file with that id, or one that another seeding has written since.
SeedingIsAllOrNothing == [][\A s \in Seeders : SeedsAllOrNothing(s)]_vars

\* What an action is meant to do, and the maps that a list of them goes
\* through, given the answers of the services.
Effect(a, ctx, answer) ==
  CASE a.kind = "SET" -> Merge(ctx, Filled(a.vars, ctx))
    [] a.kind = "HTTP" /\ a.expect -> Merge(ctx, answer)
    [] a.kind = "CHILD" -> [k \in DOMAIN ctx \cup ChildKeys |->
                              IF k \in ChildKeys THEN ChildId ELSE ctx[k]]
    [] OTHER -> ctx

Steps(actions, ctx, answers) ==
  LET maps[n \in 0 .. Len(answers)] ==
        IF n = 0 THEN ctx ELSE Effect(actions[n], maps[n - 1], answers[n])
  IN maps

\* Actions whose variables do not depend on each other, on maps of literals.
Predictable(actions, maps) ==
  /\ \A k \in DOMAIN actions :
       actions[k].kind = "SET" => Independent(actions[k].vars)
  /\ \A k \in DOMAIN maps : Flat(maps[k])

\* A commit has had the effect of the actions of the first alternative that
\* holds, one after the other.
CommitsAsWritten(i) ==
  Commit(i) =>
    \E k \in Alternatives(inst[i].def) :
      LET guard(l) == inst[i].def[Alternative(l)].guard
          actions == ActionsOf(inst[i].def, k)
          maps == Steps(actions, inst[i].ctx, run[i].answers)
      IN /\ Holds(guard(k), inst[i].ctx)
         /\ \A l \in Alternatives(inst[i].def) :
              l < k => ~Holds(guard(l), inst[i].ctx)
         /\ Len(run[i].answers) = Len(actions)
         /\ Predictable(actions, maps) =>
              inst'[i] = [inst[i] EXCEPT !.ctx = maps[Len(actions)]]

SentAsDue(request) ==
  request # None /\ Flat(request.due.ctx) =>
    request.body = Filled(request.due.vars, request.due.ctx)

\* executions.go, ExecuteActions, copyContext: although Go ranges over maps in
\* any order, jobs run at any time and definitions are registered anew
\* meanwhile, a committed event has had exactly the effect that the definition
\* the instance was created from spells out for its map: the actions of the
\* first alternative whose guard holds, one after the other; and every request
\* is the one that was due when its action was executed.
RunsAsWritten ==
  [][(\A i \in Instances : CommitsAsWritten(i)) /\ SentAsDue(sent')]_vars
=============================================================================
