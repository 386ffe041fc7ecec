# brokr in TLA+

brokr is a workflow engine written in Go. A workflow definition is a state
machine (states, composite states with substates, guarded transitions, forks
and joins, automatic and deferred transitions); an instance of one is a row of
a Postgres table that HTTP clients, timers and completing children move by
events. This directory models the engine's own logic, checks it with TLC, and
proves the safety of all of it with TLAPS, for every size.

## Inventory

| component | state | operations | reached from |
|---|---|---|---|
| dispatcher (`engine/dispatcher.go`) | shard maps of actors, mailboxes, `pending`, the `inflight` WaitGroup | `Dispatch`, `DispatchAsync`, `run`, eviction, `Drain` | controllers, timers, auto-joins, Shutdown |
| transition matching (`engine/transitions.go`, `possibleEventsFor`) | none (pure) | scoped first match, common transitions, automatic and deferred matches, target resolution | `processEvent`, creation, auto-join, arming |
| event processing (`engine/workflow_ops.go`, `applyTransition`, `runAutomaticChain`) | the instance row: position, context, history, journey, generation, version, complete | creation, `processEvent`, commit, rollback, publish | the instance's actor |
| children (`engine/children.go`, `engine/autojoin.go`) | child rows: parent, generation, complete, deleted | create, batch create (fork), withdraw, join gate, `attemptAutoJoin` | actions, clients, a child's own commit |
| background work (`engine/timers.go`, `engine/doactivity.go`) | two registries of cancel functions, the goroutines they cancel | start, stop, stop all | creation, `processEvent`, the reaper of idle actors, Shutdown |
| lifecycle (`brokr.go`, `internal/store`) | the live engine, the global handle, the goroutine that drains | `Boot`, `Shutdown` with its deadline | the host program |
| async pool (`model/asyncpool.go`) | a bounded job queue, workers, a WaitGroup | submit, run, drain | requests that are not waited for, `Shutdown` |
| database connections (`database/sql`, as used) | a bounded pool | a transaction an event, further ones for gate and inserts | `processEvent`, `children.go`, every query |
| guards, actions, interpolation (`model/guard.go`, `executions.go`) | the working context map, jobs in flight | evaluation, `ExecuteActions`, `interpolate`, `copyContext` | matching, `applyTransition`, do-activities |
| defaults, seeding (`model/defaults.go`, `seed.go`) | the table of definitions | `ApplyDefaults`, `loadDefinitions`, upserts, creation by name | `cmd/seed-workflows`, the host, clients |
| visualisation (`dto/graph.go`, `engine/visualizer.go`) | none | `BuildGraph`, `buildVisualizationData` | clients |
| event bus, SSE, controllers, serialisation | topics of an external library, jsonb rows | publish, render, Value and Scan | `processEvent`, clients, gorm |

Hard behaviours, by component; `PROJECT.json` lists each with its line under
"hazards".

* Dispatcher: an idle actor evicts itself while a sender holds a pointer to it;
  mailboxes fill up; callers' contexts end between any two steps; auto-join
  goroutines, and timers that fire late, are added to a WaitGroup that Drain
  waits on.  Correct when events of an instance are processed one at a time and
  in order, none is lost, both counters are exact, and Drain is let go exactly
  when nothing is left but timers yet to fire.
* Instance: an event is a transaction with side effects outside it (children,
  activities, actions).  Correct when the row is always one that a sequence of
  complete events produced, automatic transitions are exhausted, the journey is
  a path, history is what was last left, and subscribers hear of commits only.
* Children: completions, children that reopen, withdrawals, ad hoc children and
  two generations race with the gate and with the attempts that fire a join.
  Correct when a join waits until it has seen all of its cohort done, and fires
  by itself when the last completion finds it ready.
* Background work: stops happen before a commit, starts after it, and the
  reaper's stops whenever it gets to them.  Correct when what runs belongs to
  the state the row holds, once, and can be cancelled.
* Lifecycle and pool: events submit jobs while Shutdown drains, the queue may be
  full, and a Shutdown that times out leaves a goroutine behind.  Correct when
  work keeps its handle, a clean Shutdown has waited for it, the counter is
  exact, and everything ends.
* Connections: an event holds one and asks for others; its caller may give up at
  any point.  Correct when nobody waits for ever and nothing is left behind.
* Definitions and actions: Go's maps come in any order, jobs run at any time,
  definitions are registered anew while instances run.  Correct when an
  instance has a complete definition and its events do what that one says.
* Visualisation: code of its own flattens the scopes that matching searches.
  Correct when every move and every offered event has an edge.

## Modules

| module | content |
|---|---|
| `InstanceQueues` | what the dispatcher promises: a FIFO queue an instance, at most one command running |
| `Dispatcher` | `dispatcher.go` step by step: one action a critical section, channel or WaitGroup operation |
| `Dispatcher_proofs` | inductive invariant of `Dispatcher`, safety theorems, and that it implements `InstanceQueues` |
| `Transitions` | the pure searches over a definition, as operators |
| `Instance` | one parent instance: creation, `processEvent`, its children and auto-joins, crashes |
| `ForkJoin` | what fork and join promise: cohorts of children, waited for and joined |
| `Instance_proofs` | what the searches return; every variable of `Instance` stays in its set |
| `Instance_safety_proofs` | the safety theorems about an instance, one inductive invariant each, and that it implements `ForkJoin` |
| `Graph` | `BuildGraph` and the visualizer's data, over `Instance` |
| `Graph_proofs` | the drawing explains every journey and every offered event |
| `Activities` | timers and do-activities of one instance, the reaper, Shutdown |
| `Activities_proofs` | types; what runs is registered, of the current state, and unique |
| `AsyncPool` | `asyncpool.go`: counting, the bounded queue, workers, the drain |
| `Lifecycle` | Boot and Shutdown of several engines, their events and jobs; composes `AsyncPool` |
| `Lifecycle_proofs` | the pool's counter, the handle, the clean shutdown |
| `Connections` | which steps of which events hold a connection and wait for another |
| `Connections_proofs` | the bound, leftovers and the absence of a deadlock, for any pool |
| `Actions` | guards, interpolation and context maps, as operators |
| `Definitions` | defaults, seeding, creation by name, action lists and their jobs; over `Actions` |
| `Definitions_proofs` | registered definitions are complete, seedings all or nothing, events run as written |
| `MCDispatcher`, `MCInstance`, `MCActivities`, `MCDefinitions` | definitions for TLC |

The layers meet at few places. `Dispatcher` treats `processFn` as one step of
unknown outcome that may start an auto-join; what it does is `Instance`.
`Instance` processes one event at a time because `Dispatcher` proves
`SerialPerInstance`, and assumes that a join event in the mailbox is processed
because `Dispatcher` shows `AcceptedIsProcessed`, a part of `CallsAreServed`.
`Activities` keeps only the position of `Instance` and the points where
`processEvent` stops and starts background work. A mailbox in `Dispatcher` is the `inbox` of `Activities`.
`Lifecycle` counts an event from its acceptance to its end because `Dispatcher`
proves `InflightIsExact` and `DrainedMeansQuiet`; `Definitions` keeps the action
list of a transition, of which `Instance` only knows that it may change the
context or fail.

### Dispatcher

`actors` is the union of the 256 shard maps (a shard only partitions the
locks); `status[a]` is where actor `a`'s `run` is, `pc[r]` where a sender's
goroutine is. `enqueue`'s critical section is `FindActor` or `SpawnActor`
(three assignments under one lock), its select is `Send` or `GiveUp`, and the
branch of an ended context takes two steps, `BackOut` and `Uncount`, because
the code releases the lock between them. `run` is `Receive`, `Process`,
`Reply`, `Settle`, `Done`, then `Evict` and `Exit`. The 30 s timer is
abstracted: an idle actor may try to evict itself at any time, and does
nothing when `pending` is not 0. Actor incarnations are drawn from `Actors`;
`SpawnActor` waits when they run out, a bound of TLC runs only.
An attempt of `autojoin.go` is a sender that is counted twice, once by
`processEvent` and once by its own `enqueue`.

Senders are of four kinds. Those of clients (`SyncCalls`, `AsyncCalls`) are over
when the server is closed, which waits for its handlers. A timer's
(`TimerCalls`) calls `DispatchAsync` at any moment, during and after the drain
too: `StopAllTimers` comes too late for a delay that is over, and events that
are drained arm timers again. `Drain` is `inflight.Wait`, in three steps as in
`sync.WaitGroup`: it finds 0 or sleeps (`Drain`), the `Done` that reaches 0
wakes it (`InflightDone`), and it returns (`WaitReturns`), or panics if a
timer's command was counted in between (`WaitPanics`), which ends the process.

### Transitions and Instance

A definition is given by constants. A guard is the set of contexts it passes
on, a transition a record, a "first authored match" the set of that one
transition or `{}`. `Instance` holds the committed `row` and `wf`, the copy
`processEvent` works on; `pc` is at the points where something else can get in
between: `gate`, `apply`, `fork`, `enter`, `chain`, `save`, `publish`. An error
drops `wf`, so the row is what it was, but children that a fork inserted stay.
Generations are numbers, 0 standing for the empty string; `gens` counts the
drawn ones, as a UUID never repeats. Actions of a state or transition may turn
the context into any context, or fail. The creation of an instance is the same
machine with no row yet: `NewWorkflowInstance` starts at `chain`,
`createChildWorkflowInstance` (`IsChild`) at `save`.

A child's own events are seen from its parent by what they commit
(`KidCommits`): every commit decides anew whether the child is complete, as
`processEvent` does, so that a complete child may leave its end state again, and
one that becomes complete starts an attempt. An event of a child that has loaded
its row before a withdrawal (`overtaken`) saves the whole row, which takes the
withdrawal back.

`ForkJoin` says the same of forks without any of this. Its `waiting` is the
generation in the row, its `gathering` the one of the fork in progress, up to the
commit, and its `seen` that the event in progress has passed the gate: the gate
is its `See`, a commit its `Wait` or `Join`, drawing a generation its `Fork`, a
child's commit or withdrawal its `Turn`, and an error, a crash or the end of an
event its `GiveUp`, which leaves children behind. A join promises that its event
has seen every child of the generation done, and not that they still are when
it commits: nothing in the code holds them.

A crash forgets everything but rows. Events of the model stop at `MaxVersion`
commits and `MaxForks` forks; `MaxAttempts` attempts are under way at a time, and
a child completes when there is room for its attempt.

### Activities

Tasks are numbered as they start; `doReg` and `timerReg` are the two registry
entries of the instance. `stopTimers` and `stopDoActivity` are atomic where the
actor calls them and split (take out of the registry, then cancel) where the
reaper or Shutdown competes with it. The body of the loop of `startTimers` is
one timer: a state has at most one here. A cancelled timer whose delay has
already elapsed may still send its event, as Go's select picks any ready
branch.

### AsyncPool and Lifecycle

`Count` and `Enqueue` are the two halves of `submit`: `wg.Add(1)`, then the send
on the channel, which waits while the queue is full. A worker takes, runs and
finishes (`wg.Done`). `Lifecycle` drives it: an event is accepted, runs, may
submit a job (`Submit`, `Submitted`: it waits for the queue as the code does) and
ends, arming any timers and do-activities; whatever is armed may act later.
`BootInstalls`, `BootFails` and `BootSucceeds` are the points of Boot where
others can see the handle; `ShutdownBegins` clears the live engine,
`StopsBackground` stops what is armed (a timer past its delay still acts) and
starts the goroutine that drains events and then jobs, and the select is
`ShutdownReturns`, which clears the handle, or `ShutdownTimesOut`, which does
not. The context of `Drain` is not modelled apart: after the deadline the
goroutine stays, as it does in the code.

### Connections

`tx` holds the actors whose transaction has a connection, `busy` the regions of a
gate or fork whose statement has one (`errgroup`'s goroutines: read the parent,
insert the child), `reading` the queries of others. `Nested` instances are those
whose definitions fork, join or create children. `Cancel` is the end of a
request's context: `database/sql` frees the transaction's connection at once,
whatever `processEvent` is waiting for; the gate's count has that context and
the inserts have none.

### Actions and Definitions

A string is a literal or one placeholder; a range over a Go map is any order of
its keys, so an action has a set of outcomes. A definition is a finite tree: a
function from paths (a list of an element and an index in it, again and again)
to elements. The recursion of `ApplyDefaults` is the set of paths that it
reaches by the lists it walks (`Visited`, `Reached`); what it makes of an
element is `Completed`, field by field (`Field`, `Defaults`). `Required`, what
every element needs, is written from the types and says nothing of lists. `Load` is `loadDefinitions` with all its
files, `Upsert` one statement. An event takes the first alternative whose guard
passes and executes its actions one by one on a copy of the map; a request that
is not waited for takes a copy along (`Submit`) and is interpolated when the job
runs. `Fail` is any error or the end of the process.

### Graph

A node and an edge keep what says where an instance can be and go. `Follows`
states what a reader takes an edge to mean (local, INTERNAL, by history), and
`GraphShowsEveryMove` compares it with what `Instance` really did.

## Runs

| run | configuration | what it shows |
|---|---|---|
| `dispatcher_safety` | 1 instance, 4 senders of different kinds, 3 incarnations, mailbox of 1 | every interleaving of eviction, respawn, full mailbox, cancellation, late timers and Drain; also `ImplementsQueues` |
| `dispatcher_queues` | a client, a timer and an auto-join on 1 instance, fairness | liveness and `ImplementsFairQueues` |
| `instance_fork` | fork of two, join, ad hoc children, one attempt, one crash, two forks, three versions | cohorts, phantom events, the journey of versions; also `ImplementsForkJoin` |
| `instance_composite` | composite with history, a fork of one and its join, 3 hops, 4 versions, one crash | settling, path, history, types, offered events, the drawing, bounded chains; every event ends, though the database never has to fail |
| `instance_autojoin` | a fork of two, a join inside a composite that clients leave and come back to, two attempts, 4 versions | a join that is ready when a child completes fires |
| `activities_root` | 3 places, 2 client events, 6 tasks | registries, activities of the current state |
| `lifecycle` | 2 engines one after the other, a client event, a timer, a do-activity, 1 worker, a queue of 1 | the handle, the clean shutdown, the pool's counter; work and shutdowns end |
| `connections` | 3 instances (1 that forks and joins), a reader, 2 connections, forks of 2; deadlock checked | nobody waits for ever, nothing outlives its event |
| `definitions` | 2 names, 3 seedings, 1 instance, 2 answers of services | complete definitions, all-or-nothing loading, events run as written |
| `instance_localjoin`, `activities_idle`, `lifecycle_overlap` | | one disagreement each, below |

Bounds. The dispatcher runs have one instance: instances share only a shard's
lock, which is held for one step each, and `inflight`, which the commands of one
instance count up as well; the theorems are for any number of them. One sender
of each kind is enough because kinds differ only in what they wait for (in
the queues run a timer stands for the asynchronous client too: it calls the same
function, at more moments), and three incarnations let an actor be evicted and
replaced while the first one still exists. A mailbox of one is full
after one command, and 64 differs only in when. Two regions make a batch fail
half-way; three children mix a generation with an ad hoc child, and a second
fork gives two generations. Two or three hops reach the hop limit, which is 100
in the code, with and without the chain being at its end there. Four versions
leave, re-enter and leave a composite once more. The composite run has no
attempts (`MaxAttempts` is 0), so that its one child is done only by being
withdrawn: enough to open and to close the gate. In `instance_autojoin` four
versions are the fork, a move away from the join, the move back and the join;
two attempts are those of the two children, which may also be of one child that
reopens. Six tasks allow three
places' worth of both kinds. In `lifecycle` three jobs meet one worker and a
queue of one, so that a submitter waits for a full queue; two engines are needed
for a handle to be replaced. In `connections` two connections are just more than
the one instance that nests: with as many nesting instances as connections the
pool deadlocks, each event holding one connection and waiting for another, and
nothing in the engine limits how many do so at once. The repository's README
suggests `SetMaxOpenConns(40)` (lines 70 and 264); the properties say what such a
number has to exceed, the theorem for any number. In `definitions` two files of
one id, a bad second file and two concurrent seedings are the smallest that mix;
one instance is enough as instances share nothing but the table; the view
leaves out `sent`, which records the last request and which no action reads.
`CHECK_DEADLOCK` is off, but for `connections`, because everything may
legitimately stop: the bounds run out, an instance ends.

Fairness. Goroutines that can run do run: weak fairness of each sender's own
steps and of each actor's loop (Go's scheduler is fair, channels serve waiting
senders in FIFO order). It is not assumed that contexts end, that clients call,
or that the server is closed. The progress
properties of the dispatcher are of executions in which the WaitGroup does not
panic, and timers are finitely many, as `TimerCalls` is a finite set. In
`Instance`, weak fairness of the event in progress (`Advance`: its steps, its
errors among them, for `processEvent` runs until it returns) and strong fairness
of each auto-join attempt, since client events may be processed between any two
of its steps; a FIFO mailbox and `AcceptedIsProcessed` justify it. What the
database refuses (`DatabaseFails`) is outside `Advance`: nothing forces a commit
to fail, so that an event that is stuck does not count as one that could still
end by a failure. Children, withdrawals and clients are not fair: nobody has to
complete or send anything. In `Lifecycle`, actions end (the
HTTP client has a timeout), workers run, the goroutine that drains goes on, and
senders on a full channel are served in turn, hence the strong fairness of
`Submitted` and `End`. Nothing makes a client call, a timer fire, a deadline
pass or a host boot. `ShutdownEnds` excepts the executions in which timers keep
firing for ever, as each may arm another. In `Connections`, `database/sql` hands
a freed connection to one of those that wait, at random: strong fairness of
each request for one; and an event forks finitely often, since its chain is
limited: strong fairness of its end.

### What the automatic join needs

`AutoJoinFires` says that a join which is ready at the moment a completed
child's attempt is about to read the parent does not wait for a client: it
fires, or one of the parties makes it not ready (a client moves the parent away,
a child reopens or comes back from a withdrawal). It says no more because the code does
no more. Nothing repeats an attempt that reads a parent where no join is ready,
so that a join which becomes ready later than the last completion is left for a
client to send:

* the parent is moved away from the waiting state, the last child completes, its
  attempt finds no join (`autojoin.go:54`), and a client moves the parent back;
* the last child completes before the fork that created it has committed;
* the last incomplete child is withdrawn (`WithdrawChildWorkflowInstance` starts
  no attempt), or is complete at birth;
* the join is a common transition, which `findPendingJoinTransition` does not
  look at;
* a state has two joins, and the guard of the first does not hold
  (`autojoin.go:58`).

`QuietSpec`, the specification of the run, has no refusals of the database and
no crash: a failed join event is logged and dropped, and a goroutine dies with
its process. Clients, children, withdrawals and failing actions are in it.

`ImplementsForkJoin` is stated for definitions whose joins are not AUTOMATIC,
which the repository's README asks for (its section on fork and join).

## Disagreements found

Each is a run with `expect: violation`, a property quoted from the repository
and a counterexample.

| run | the code does | said at |
|---|---|---|
| `instance_localjoin` | a join between substates keeps the pending generation | `persistence/others.go:62`, `transitions.go:319` |
| `activities_idle` | reaping an idle actor disarms its timers | `README.md:718` |
| `lifecycle_overlap` | an engine that boots while another one drains loses its handle when that Shutdown returns | `brokr.go:57`, `README.md:144` |

Others were met while modelling and have no run of their own:

* a fork between substates spawns nothing (`transitions.go:287`; `README.md:799`
  says it "atomically spawns one or more child workflow instances");
* AUTOMATIC common transitions never fire by themselves (`transitions.go:392`;
  `README.md:477` says they "accept type/kind/guard, exactly like a regular
  Transition");
* a join is offered while its gate is closed (`workflow_ops.go:243`; line 238
  says "every event that would actually succeed if sent right now");
* a commit publishes one event for all the transitions it chained
  (`workflow_ops.go:162`; `README.md:1118` says "Every completed transition is
  published");
* after a rollback only a moving event re-arms the state's timers
  (`workflow_ops.go:159`; `transitions.go:210` says "worst case it is re-armed
  on the next event");
* children that are complete at birth never wake the join (`children.go:63`;
  `README.md:799` says the join fires "the instant every child in that generation
  reaches one of its own `endStates`");
* a child's first state is not chained out of (`children.go:48`;
  `model/statemachine.go:117` and `README.md:555` say an AUTOMATIC transition
  fires the instant its source state is entered);
* a join that becomes ready after the last child's completion waits for a client,
  in the ways listed above (`autojoin.go:54`; `README.md:799` as before), and a
  join among the common transitions is never attempted (`autojoin.go:22`;
  `README.md:477` as before);
* a child that the gate has counted can leave its end state before the parent's
  commit, so that a generation is joined while a child of it is open
  (`workflow_ops.go:198`, `221`);
* the event of a child that has loaded its row before it is withdrawn saves the
  row whole and takes the withdrawal back (`workflow_ops.go:225`;
  `children.go:134` says it severs the child "from any future join check");
* a timer that fires while `Drain` is being let go raises the WaitGroup before
  `Wait` has returned, which `sync.WaitGroup` answers with a panic
  (`dispatcher.go:107`; the comment at `brokr.go:125` is that timers are
  cancelled first because one that fired would keep the drain going);
* a child can be moved, by clients that list its parent's children, before it is
  armed, and the activity of the state it has left then starts
  (`children.go:69`; `README.md:727` says do-activities run "for as long as the
  instance remains in that state");
* transitions that are drained arm timers that outlive Shutdown, and
  do-activities are cancelled but not waited for (`brokr.go:137`; line 121 says
  Shutdown "stops accepting new background work and waits for what is in
  flight");
* a transition waits for a place in the queue when that is full
  (`asyncpool.go:57`; `README.md:219` says such an action "never blocks the
  transition", line 261 that "backpressure applies");
* a value is interpolated in the working map of the event, and in a do-activity
  in an empty one (`doactivity.go:19`; `README.md:217` says in the "persisted
  context map");
* a Boot that fails clears the handle even while work that an earlier Shutdown
  did not wait for is using it (`brokr.go:110`);
* instances start in `States[0]`, whatever `initialState` says
  (`workflow_ops.go:34`; `README.md:169`);
* an upsert that fails leaves the definitions before it written (`seed.go`; its
  comment promises otherwise only for files that do not parse or validate);
* a definition without states that is nested in a fork or an action passes the
  loader, which looks at the outermost states only (`seed.go:42`), and the
  creation of that child indexes an empty list (`children.go:48`).

Three limitations the repository documents itself are modelled and not counted
as disagreements: fork children orphaned by a rollback, AUTOMATIC joins that
pass no gate, and timers lost on restart.

## Proofs

`Dispatcher_proofs` proves the dispatcher's safety for any sets of instances,
senders and actors and any mailbox size. The inductive invariant `IInv` says
for every actor how its mailbox, its hand and the senders pointing at it fit
together: an actor in the map is live and owned by that instance; a live actor
is in the map; a command is in exactly one place; `pending` is the cardinality
of the set of commands outstanding. The safety properties are not inductive on
their own: that an evicted actor has an empty mailbox follows from `pending =
0` only if `pending` counts senders between their unlock and their send, and
that is what `Counts` adds. `InflightCounts` and `DrainInv` are proved on top:
the WaitGroup counts commands and attempts, no client sends once the server is
closed, and no client's command is left once the drain has been let go; that it
is let go at rest (`DrainIsComplete`) is then what its count being 0 means.
After that timers may raise it again. `Refinement` shows with the same invariant that each step
maps to a step of `InstanceQueues` or to none, where a queue is the mailbox of
the registered actor and a command runs while its actor's status is
`processing`. Assumptions: the named ones of `Dispatcher` and finiteness of
the sets of actors and requests where cardinalities need it.

`Instance_proofs` and `Instance_safety_proofs` prove every safety property
that the runs check of `Instance`, for every workflow definition that satisfies
the assumptions of `Transitions` (lists of well-formed transitions; targets may
be unknown, composites may lack their initial substate), any contexts, scripted
states, children, bounds and crashes. `IInv` is type correctness and `Unborn`:
before its row is inserted an instance has no children and no attempts, without
which an attempt could read a row that does not exist. `StepKinds` sorts the
steps once: those beside the event, those that drop it, those that take one up,
and those that move it forward; the later proofs split on it. On top of `IInv`:

| theorem | invariant added, and why it is needed |
|---|---|
| `SettledCorrect` (not a child) | `Resting`: what is about to be saved has been through the chain |
| `JourneyIsPath` | `Travelled`: the copy's journey ends in its position, but between leaving and entering in the position left |
| `OnlyCommitsPublished` | `InStep`: the copy has the row's version until its commit and is the row afterwards |
| `NoEventLost` | `Grown`: the copy's journey begins with the row's, and is longer before it is saved |
| `ChainsAreBounded` | `Bounded`: the copy's journey has at most as many entries more than the row's as transitions were taken up, the one in progress not yet counted |
| `CohortsAreIntact` | `Gathered`: a fork in progress has as many children as targets it is done with, unless one failed |
| `ForksAndJoins` (no immediate AUTOMATIC join) | `Counted`: a fork's generation is newer than any the row or its copy waits for; `Gathered`; `Forked`: the copy waits for the last fork of its event, or for what the row waits for, or for nothing, and an event that joins has not forked; without it a commit could not be told to be a `Wait`, a `Join` or neither |
| `OffersAreRight` | none: `OffersMatch` holds of all positions and contexts, as both searches visit the same lists with the same guards |
| `JoinsClear` (no join ends in a substate) | `Cleared`: one transition is applied at a time, and if it is a join the copy waits for nothing when it enters; the claim that `instance_localjoin` refutes holds of all other definitions |
| `HistoryIsRight` (no composite leads to itself) | `Recalled`: between leaving and entering, the copy's history is ahead of its journey by the composite left |

The conditions in brackets are hypotheses of the theorems. A child is inserted
without a chain, the chain passes no gate, and a journey does not tell a
transition from a composite to itself from a move inside it.

`Graph_proofs` adds `Traced` to the same base: what an event fires has an edge
that leaves the copy's position (the searches and `BuildGraph` go through the
same lists), and the move in progress, and every move of both journeys, follows
one. `GraphExplains` is for every definition.

`Activities_proofs`: `Typed` holds of every instance. `Guarded` says that a task
at work is registered under its kind and belongs to the position, that between
its stops and its starts a move has no task of the kind it will start (without
which `startDoActivity`, which overwrites the registration, would lose one),
that nobody else acts before the creator is done, and that a late stopper has
taken out only what it will cancel. Its theorems have the hypothesis
`~IsChild`: of a child that clients move before it is armed they are false.

`Lifecycle_proofs`: `PoolInv` says that what is in the queue waits there and is
there once, so that a worker takes a job that nobody else has, and that the
counter is the cardinality of the unfinished jobs; it and the types hold for any
host. `Served` (one engine at a time, its handle installed while it is not
down; no event once its drain is past the events, no job once it is past the
jobs) holds under `Orderly`: the host boots an engine when every earlier Shutdown
has returned without error; from it follow `HandleIsKept`, `CleanShutdown` and
`HandleOfTheBooted`. Without that schedule the handle is not kept, as
`lifecycle_overlap` shows; the documentation asks for one booted engine only.

`Connections_proofs`: an event that waits for further connections belongs to
`Nested`, one that does not wait has no statement left, and no more connections
are taken than there are. If none is free and nobody who holds one can go on,
all holders are nested actors, of which there are fewer than connections.

`Definitions_proofs` is about any directory, any finite nesting of definitions,
any maps, guards and answers of services, and any number of concurrent seedings
and events. Its invariant has four parts. `Typing`: whatever is registered,
pinned to an instance, found by name or still to be written is a file of some
seeding after `ApplyDefaults`; with two lemmas about `ApplyDefaults`
(`AppliedIsComplete`, `AppliedOnce`) that gives `Completeness`. `Seeding`: a
seeding that writes has had no bad file, still has the files after those it has
written, and the last file of each name written so far is in the table unless
another seeding came later; without the middle part the step that overwrites a
name could not be told from one that loses it. `Events`: an event under way took
the first alternative that its map allows, and its map is what the actions done
so far spell out, provided their variables do not read each other.
`LastRequest` speaks of the last request. The lemmas that carry `Events` are
`InterpolateOne` and `SetContextOne`: in whatever order Go goes through a map, a
text without placeholders in the values it is filled with comes out as one text,
and variables that do not read each other as one map; and `EvaluateIsHolds`: the
guard's cases agree with what its operator says. The library's induction rules
take operators and cannot be used here; `LeastNumber`, `AllUpTo` and `Iteration`
state induction and recursion on numbers as facts about sets and functions,
from the well-foundedness of `<`.

Only model-checked: liveness and fair refinement, as TLAPS does not do ENABLED and
fairness. These are `CallsAreServed`, `DrainReturns`,
`ImplementsFairQueues`, `EventsReturn`, `AutoJoinFires`, `WorkEnds`,
`ShutdownEnds` and `EventsEnd`. Every safety property that a passing run checks
is also a theorem.

## Not modelled

The controllers, error values and static files have no state of their own and no
logic that states could go wrong in. The event bus and gorm are libraries; a
publish is the last event of a topic, a transaction is atomic and may fail.
What a slow subscriber misses is decided inside that library. Whether Value and
Scan lose a field is a matter of struct tags and `encoding/json`, character by
character, not of states. JSON parsing is a file that is good or bad; requests
to other services are answers from a set. Wording, timestamps and ids are left
out. Deletion of the instance itself, and definitions whose forks miss a child
workflow, are left out of `Instance`; a definition without states, which makes
the creation panic, of `Definitions`.

## What could follow

1. `Activities` over the positions of `Instance`: a state and its composite with
   several timers each, so that the deadline of a composite that local moves
   restart (`transitions.go:257`) can be stated.
2. That a join whose cohort is done has an attempt under way, as an invariant
   over the conditions of `QuietSpec`: the safety half of `AutoJoinFires`.
