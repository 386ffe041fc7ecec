----------------------------- MODULE Dispatcher -----------------------------
(***************************************************************************)
(* engine/dispatcher.go: one actor goroutine per live workflow instance,   *)
(* spawned by the first command sent to it and evicted when idle.  Every   *)
(* goroutine has a program counter and every atomic step (a critical       *)
(* section of the shard mutex, a channel operation, a WaitGroup operation) *)
(* is an action of its own.  The 256 shards only partition the mutexes, so *)
(* the shard maps are one function here.  processFn is a step of unknown   *)
(* outcome that may start an auto-join goroutine (workflow_ops.go).        *)
(***************************************************************************)
EXTENDS Integers, Sequences, FiniteSets

CONSTANTS Instances,     \* workflow instance ids
          SyncCalls,     \* goroutines that call Dispatch once
          AsyncCalls,    \* handlers that call DispatchAsync once
          TimerCalls,    \* goroutines of timers, which call DispatchAsync once
          AutoJoins,     \* attemptAutoJoin goroutines
          Actors,        \* supply of actor incarnations (bound of a TLC run)
          MailboxBuffer, \* capacity of a mailbox (64 in the code)
          None           \* no actor, no instance, no command

Clients == SyncCalls \cup AsyncCalls
Requests == Clients \cup TimerCalls \cup AutoJoins

ASSUME BufferAssumption == MailboxBuffer \in Nat \ {0}
ASSUME KindsAssumption == /\ SyncCalls \cap AsyncCalls = {}
                          /\ Clients \cap AutoJoins = {}
                          /\ TimerCalls \cap (Clients \cup AutoJoins) = {}
ASSUME NoneAssumption == None \notin Instances \cup Actors \cup Requests

VARIABLES
  actors,     \* [Instances -> Actors \cup {None}], the shards' maps
  status,     \* [Actors -> ...], where each actor's run loop is
  owner,      \* [Actors -> Instances \cup {None}], instanceActor.id
  mailbox,    \* [Actors -> Seq(Requests)]
  pending,    \* [Actors -> Nat]
  serving,    \* [Actors -> Requests \cup {None}], cmd of the run loop
  pc,         \* [Requests -> ...], where each sender is
  dest,       \* [Requests -> Instances \cup {None}], the id it sends to
  target,     \* [Requests -> Actors \cup {None}], the actor enqueue found
  cancelled,  \* the requests whose caller's context is done
  outcome,    \* [Requests -> ...], what processFn made of the command
  reply,      \* [Requests -> ...], the one-slot reply channel
  answer,     \* [Requests -> ...], what the caller was told
  inflight,   \* the WaitGroup counter
  drain       \* [Drains], where the shutdown is

actorVars == <<actors, status, owner, pending>>
callVars  == <<dest, cancelled>>
vars == <<actors, status, owner, mailbox, pending, serving, pc, dest, target,
          cancelled, outcome, reply, answer, inflight, drain>>

Outcomes == {"ok", "err"}
Statuses == {"unborn", "idle", "processing", "processed", "replied",
             "settled", "evicted", "gone"}
Stages == {"idle", "spawned", "called", "sending", "backout", "uncount",
           "waiting", "finishing", "done"}

\* The handlers run; the server has stopped; Wait sleeps; the counter has
\* reached zero and wakes it; Drain has returned; or the WaitGroup panicked.
Drains == {"serving", "closed", "waiting", "released", "drained", "panicked"}

Init ==
  /\ actors = [i \in Instances |-> None]
  /\ status = [a \in Actors |-> "unborn"]
  /\ owner = [a \in Actors |-> None]
  /\ mailbox = [a \in Actors |-> <<>>]
  /\ pending = [a \in Actors |-> 0]
  /\ serving = [a \in Actors |-> None]
  /\ pc = [r \in Requests |-> "idle"]
  /\ dest = [r \in Requests |-> None]
  /\ target = [r \in Requests |-> None]
  /\ cancelled = {}
  /\ outcome = [r \in Requests |-> "none"]
  /\ reply = [r \in Requests |-> "none"]
  /\ answer = [r \in Requests |-> "none"]
  /\ inflight = 0
  /\ drain = "serving"

\* inflight.Done: the last one wakes the Wait of Drain, if that sleeps.
InflightDone ==
  /\ inflight' = inflight - 1
  /\ drain' = IF drain = "waiting" /\ inflight = 1 THEN "released" ELSE drain

-----------------------------------------------------------------------------
(* Senders: Dispatch, DispatchAsync and attemptAutoJoin, all by enqueue.   *)

\* A client calls Dispatch or DispatchAsync for i while its server runs.  A
\* timer fires at any moment: StopAllTimers comes too late for a delay that is
\* over, and the events Drain waits for arm new timers.
Call(r, i) ==
  /\ r \notin AutoJoins
  /\ drain = "serving" \/ r \in TimerCalls
  /\ pc[r] = "idle"
  /\ pc' = [pc EXCEPT ![r] = "called"]
  /\ dest' = [dest EXCEPT ![r] = i]
  /\ UNCHANGED <<actorVars, mailbox, serving, target, cancelled, outcome,
                 reply, answer, inflight, drain>>

\* attemptAutoJoin finds a ready Join transition of the parent i.
JoinReady(r, i) ==
  /\ pc[r] = "spawned"
  /\ pc' = [pc EXCEPT ![r] = "called"]
  /\ dest' = [dest EXCEPT ![r] = i]
  /\ UNCHANGED <<actorVars, mailbox, serving, target, cancelled, outcome,
                 reply, answer, inflight, drain>>

\* attemptAutoJoin finds nothing to join and returns.
JoinNotReady(r) ==
  /\ pc[r] = "spawned"
  /\ pc' = [pc EXCEPT ![r] = "finishing"]
  /\ UNCHANGED <<actorVars, callVars, mailbox, serving, target, outcome,
                 reply, answer, inflight, drain>>

\* The request ends before its answer.  DispatchAsync's context never does.
CancelContext(r) ==
  /\ r \in SyncCalls \ cancelled
  /\ pc[r] \in {"called", "sending", "waiting"}
  /\ cancelled' = cancelled \cup {r}
  /\ UNCHANGED <<actorVars, mailbox, serving, pc, dest, target, outcome,
                 reply, answer, inflight, drain>>

\* enqueue's critical section when the instance has a live actor.
FindActor(r) ==
  /\ pc[r] = "called"
  /\ actors[dest[r]] # None
  /\ target' = [target EXCEPT ![r] = actors[dest[r]]]
  /\ pending' = [pending EXCEPT ![actors[dest[r]]] = @ + 1]
  /\ inflight' = inflight + 1
  /\ pc' = [pc EXCEPT ![r] = "sending"]
  /\ UNCHANGED <<actors, status, owner, mailbox, serving, callVars, outcome,
                 reply, answer, drain>>

\* The incarnation that the next actor of any instance gets.
NewActor == CHOOSE a \in Actors : status[a] = "unborn"

\* Mutant: spawns without looking the instance up first.
SpawnActorAnyway(r) ==
  /\ pc[r] = "called"
  /\ \E a \in Actors : status[a] = "unborn"
  /\ actors' = [actors EXCEPT ![dest[r]] = NewActor]
  /\ status' = [status EXCEPT ![NewActor] = "idle"]
  /\ owner' = [owner EXCEPT ![NewActor] = dest[r]]
  /\ target' = [target EXCEPT ![r] = NewActor]
  /\ pending' = [pending EXCEPT ![NewActor] = @ + 1]
  /\ inflight' = inflight + 1
  /\ pc' = [pc EXCEPT ![r] = "sending"]
  /\ UNCHANGED <<mailbox, serving, callVars, outcome, reply, answer, drain>>

\* enqueue's critical section when it has to spawn the actor.
SpawnActor(r) ==
  /\ pc[r] = "called"
  /\ actors[dest[r]] = None
  /\ \E a \in Actors : status[a] = "unborn"
  /\ actors' = [actors EXCEPT ![dest[r]] = NewActor]
  /\ status' = [status EXCEPT ![NewActor] = "idle"]
  /\ owner' = [owner EXCEPT ![NewActor] = dest[r]]
  /\ target' = [target EXCEPT ![r] = NewActor]
  /\ pending' = [pending EXCEPT ![NewActor] = @ + 1]
  /\ inflight' = inflight + 1
  /\ pc' = [pc EXCEPT ![r] = "sending"]
  /\ UNCHANGED <<mailbox, serving, callVars, outcome, reply, answer, drain>>

\* The blocking send; DispatchAsync's caller is told "accepted" at once.
Send(r) ==
  /\ pc[r] = "sending"
  /\ Len(mailbox[target[r]]) < MailboxBuffer
  /\ mailbox' = [mailbox EXCEPT ![target[r]] = Append(@, r)]
  /\ pc' = [pc EXCEPT ![r] = CASE r \in SyncCalls -> "waiting"
                               [] r \in AsyncCalls \cup TimerCalls -> "done"
                               [] r \in AutoJoins -> "finishing"]
  /\ answer' = IF r \in SyncCalls THEN answer
               ELSE [answer EXCEPT ![r] = "accepted"]
  /\ UNCHANGED <<actorVars, serving, callVars, target, outcome, reply,
                 inflight, drain>>

\* The other branch of the select: the context is done first.
GiveUp(r) ==
  /\ pc[r] = "sending"
  /\ r \in cancelled
  /\ pc' = [pc EXCEPT ![r] = "backout"]
  /\ UNCHANGED <<actorVars, mailbox, serving, callVars, target, outcome,
                 reply, answer, inflight, drain>>

\* Mutant: a sender that gives up leaves pending raised.
BackOutRaised(r) ==
  /\ pc[r] = "backout"
  /\ pc' = [pc EXCEPT ![r] = "uncount"]
  /\ UNCHANGED <<actorVars, mailbox, serving, callVars, target, outcome,
                 reply, answer, inflight, drain>>

BackOut(r) ==
  /\ pc[r] = "backout"
  /\ pending' = [pending EXCEPT ![target[r]] = @ - 1]
  /\ pc' = [pc EXCEPT ![r] = "uncount"]
  /\ UNCHANGED <<actors, status, owner, mailbox, serving, callVars, target,
                 outcome, reply, answer, inflight, drain>>

\* Mutant: a sender that gives up stays counted in flight.
UncountForgotten(r) ==
  /\ pc[r] = "uncount"
  /\ answer' = [answer EXCEPT ![r] = "cancelled"]
  /\ pc' = [pc EXCEPT ![r] = "done"]
  /\ UNCHANGED <<actorVars, mailbox, serving, callVars, target, outcome,
                 reply, inflight, drain>>

Uncount(r) ==
  /\ pc[r] = "uncount"
  /\ InflightDone
  /\ answer' = [answer EXCEPT ![r] = "cancelled"]
  /\ pc' = [pc EXCEPT ![r] = "done"]
  /\ UNCHANGED <<actorVars, mailbox, serving, callVars, target, outcome,
                 reply>>

\* Dispatch's final select: the reply ...
TakeReply(r) ==
  /\ pc[r] = "waiting"
  /\ reply[r] # "none"
  /\ answer' = [answer EXCEPT ![r] = reply[r]]
  /\ reply' = [reply EXCEPT ![r] = "none"]
  /\ pc' = [pc EXCEPT ![r] = "done"]
  /\ UNCHANGED <<actorVars, mailbox, serving, callVars, target, outcome,
                 inflight, drain>>

\* ... or the context, after which nobody reads the reply.
AbandonReply(r) ==
  /\ pc[r] = "waiting"
  /\ r \in cancelled
  /\ answer' = [answer EXCEPT ![r] = "cancelled"]
  /\ pc' = [pc EXCEPT ![r] = "done"]
  /\ UNCHANGED <<actorVars, mailbox, serving, callVars, target, outcome,
                 reply, inflight, drain>>

\* attemptAutoJoin's deferred inflight.Done.
FinishJoin(r) ==
  /\ pc[r] = "finishing"
  /\ InflightDone
  /\ pc' = [pc EXCEPT ![r] = "done"]
  /\ UNCHANGED <<actorVars, mailbox, serving, callVars, target, outcome,
                 reply, answer>>

-----------------------------------------------------------------------------
(* The actor's run loop.                                                   *)

Receive(a) ==
  /\ status[a] = "idle"
  /\ mailbox[a] # <<>>
  /\ serving' = [serving EXCEPT ![a] = Head(mailbox[a])]
  /\ mailbox' = [mailbox EXCEPT ![a] = Tail(@)]
  /\ status' = [status EXCEPT ![a] = "processing"]
  /\ UNCHANGED <<actors, owner, pending, pc, callVars, target, outcome,
                 reply, answer, inflight, drain>>

\* The auto-join goroutines one committed command may start: none or one.
NewJoins == {{}} \cup {{j} : j \in {k \in AutoJoins : pc[k] = "idle"}}

\* Mutant: the auto-join goroutine is started without inflight.Add.
ProcessUncounted(a, o, joins) ==
  /\ status[a] = "processing"
  /\ joins # {} => o = "ok"
  /\ outcome' = [outcome EXCEPT ![serving[a]] = o]
  /\ status' = [status EXCEPT ![a] = "processed"]
  /\ pc' = [r \in Requests |-> IF r \in joins THEN "spawned" ELSE pc[r]]
  /\ UNCHANGED <<actors, owner, mailbox, pending, serving, callVars, target,
                 reply, answer, inflight, drain>>

\* processFn returns, a cancelled command with either outcome (the context may
\* be done before or after the commit).  A committed completion of a child
\* starts an auto-join goroutine, counted before the command is settled.
Process(a, o, joins) ==
  /\ status[a] = "processing"
  /\ joins # {} => o = "ok"
  /\ outcome' = [outcome EXCEPT ![serving[a]] = o]
  /\ status' = [status EXCEPT ![a] = "processed"]
  /\ inflight' = inflight + Cardinality(joins)
  /\ pc' = [r \in Requests |-> IF r \in joins THEN "spawned" ELSE pc[r]]
  /\ UNCHANGED <<actors, owner, mailbox, pending, serving, callVars, target,
                 reply, answer, drain>>

\* Mutant: an unbuffered reply channel, which waits for its reader.
ReplyUnbuffered(a) ==
  /\ status[a] = "processed"
  /\ serving[a] \in SyncCalls => pc[serving[a]] = "waiting"
  /\ status' = [status EXCEPT ![a] = "replied"]
  /\ reply' = IF serving[a] \in SyncCalls
              THEN [reply EXCEPT ![serving[a]] = outcome[serving[a]]]
              ELSE reply
  /\ UNCHANGED <<actors, owner, mailbox, pending, serving, pc, callVars,
                 target, outcome, answer, inflight, drain>>

Reply(a) ==
  /\ status[a] = "processed"
  /\ status' = [status EXCEPT ![a] = "replied"]
  /\ reply' = IF serving[a] \in SyncCalls
              THEN [reply EXCEPT ![serving[a]] = outcome[serving[a]]]
              ELSE reply
  /\ UNCHANGED <<actors, owner, mailbox, pending, serving, pc, callVars,
                 target, outcome, answer, inflight, drain>>

Settle(a) ==
  /\ status[a] = "replied"
  /\ status' = [status EXCEPT ![a] = "settled"]
  /\ pending' = [pending EXCEPT ![a] = @ - 1]
  /\ UNCHANGED <<actors, owner, mailbox, serving, pc, callVars, target,
                 outcome, reply, answer, inflight, drain>>

Done(a) ==
  /\ status[a] = "settled"
  /\ status' = [status EXCEPT ![a] = "idle"]
  /\ serving' = [serving EXCEPT ![a] = None]
  /\ InflightDone
  /\ UNCHANGED <<actors, owner, mailbox, pending, pc, callVars, target,
                 outcome, reply, answer>>

\* Mutant: evicts without looking at pending.
EvictBusy(a) ==
  /\ status[a] = "idle"
  /\ actors' = [actors EXCEPT ![owner[a]] = None]
  /\ status' = [status EXCEPT ![a] = "evicted"]
  /\ UNCHANGED <<owner, mailbox, pending, serving, pc, callVars, target,
                 outcome, reply, answer, inflight, drain>>

\* The idle timer fires (at any moment, against a ready mailbox too) and the
\* critical section finds no sender mid-flight; otherwise it changes nothing.
Evict(a) ==
  /\ status[a] = "idle"
  /\ pending[a] = 0
  /\ actors' = [actors EXCEPT ![owner[a]] = None]
  /\ status' = [status EXCEPT ![a] = "evicted"]
  /\ UNCHANGED <<owner, mailbox, pending, serving, pc, callVars, target,
                 outcome, reply, answer, inflight, drain>>

\* After the unlock: stopDoActivity, stopTimers (see Activities), return.
Exit(a) ==
  /\ status[a] = "evicted"
  /\ status' = [status EXCEPT ![a] = "gone"]
  /\ UNCHANGED <<actors, owner, mailbox, pending, serving, pc, callVars,
                 target, outcome, reply, answer, inflight, drain>>

-----------------------------------------------------------------------------
(* Graceful shutdown, from the caller's side.                              *)

\* The HTTP server has stopped: it waited for its handlers to return.
CloseServer ==
  /\ drain = "serving"
  /\ \A r \in Clients : pc[r] \in {"idle", "done"}
  /\ drain' = "closed"
  /\ UNCHANGED <<actorVars, mailbox, serving, pc, callVars, target, outcome,
                 reply, answer, inflight>>

\* Drain calls inflight.Wait, which returns at once or sleeps.
Drain ==
  /\ drain = "closed"
  /\ drain' = IF inflight = 0 THEN "drained" ELSE "waiting"
  /\ UNCHANGED <<actorVars, mailbox, serving, pc, callVars, target, outcome,
                 reply, answer, inflight>>

\* Wait runs again and returns, ...
WaitReturns ==
  /\ drain = "released"
  /\ inflight = 0
  /\ drain' = "drained"
  /\ UNCHANGED <<actorVars, mailbox, serving, pc, callVars, target, outcome,
                 reply, answer, inflight>>

\* ... or finds that a timer's command was counted since it was released:
\* "WaitGroup is reused before previous Wait has returned".
WaitPanics ==
  /\ drain = "released"
  /\ inflight # 0
  /\ drain' = "panicked"
  /\ UNCHANGED <<actorVars, mailbox, serving, pc, callVars, target, outcome,
                 reply, answer, inflight>>

-----------------------------------------------------------------------------
SenderStep(r) ==
  \/ \E i \in Instances : Call(r, i) \/ JoinReady(r, i)
  \/ JoinNotReady(r) \/ CancelContext(r) \/ FindActor(r) \/ SpawnActor(r)
  \/ Send(r) \/ GiveUp(r) \/ BackOut(r) \/ Uncount(r)
  \/ TakeReply(r) \/ AbandonReply(r) \/ FinishJoin(r)

ActorStep(a) ==
  \/ Receive(a) \/ Reply(a) \/ Settle(a) \/ Done(a) \/ Evict(a) \/ Exit(a)
  \/ \E o \in Outcomes, joins \in NewJoins : Process(a, o, joins)

ShutdownStep == CloseServer \/ Drain \/ WaitReturns \/ WaitPanics

\* A panic ends the process.
Next == /\ drain # "panicked"
        /\ \/ \E r \in Requests : SenderStep(r)
           \/ \E a \in Actors : ActorStep(a)
           \/ ShutdownStep

SafeSpec == Init /\ [][Next]_vars

\* Goroutines run until they block; senders blocked on a full channel are
\* queued by the runtime; processFn is bounded by its database calls.  No
\* fairness for clients, contexts and the idle timer.
SenderProgress(r) ==
  \/ \E i \in Instances : JoinReady(r, i)
  \/ JoinNotReady(r) \/ FindActor(r) \/ SpawnActor(r) \/ Send(r) \/ BackOut(r)
  \/ Uncount(r) \/ TakeReply(r) \/ AbandonReply(r) \/ FinishJoin(r)

ActorProgress(a) ==
  \/ Receive(a) \/ Reply(a) \/ Settle(a) \/ Done(a) \/ Exit(a)
  \/ \E o \in Outcomes, joins \in NewJoins : Process(a, o, joins)

Fairness == /\ \A r \in Requests : WF_vars(SenderProgress(r))
            /\ \A a \in Actors : WF_vars(ActorProgress(a))
            /\ WF_vars(Drain \/ WaitReturns)

\* The progress properties leave the runs out in which the WaitGroup panics.
Spec == Init /\ [][Next /\ ~WaitPanics]_vars /\ Fairness

-----------------------------------------------------------------------------
(* Properties.                                                             *)

Queued(a) == {mailbox[a][k] : k \in DOMAIN mailbox[a]}

InHand(a) == IF status[a] \in {"processing", "processed", "replied"}
             THEN {serving[a]} ELSE {}

\* The commands pending counts: between the two critical sections.
Outstanding(a) ==
  {r \in Requests : /\ target[r] = a
                    /\ \/ pc[r] \in {"sending", "backout"}
                       \/ r \in Queued(a) \cup InHand(a)}

\* The commands, and the auto-join goroutines, inflight counts.
Counted == {r \in Requests : \/ pc[r] \in {"sending", "backout", "uncount"}
                             \/ \E a \in Actors : \/ r \in Queued(a)
                                                  \/ serving[a] = r}
Joining == {j \in AutoJoins : pc[j] \in {"spawned", "called", "sending",
                                         "finishing"}}

Live(a) == status[a] \notin {"unborn", "evicted", "gone"}

\* Every variable stays within its declared set; the two counters never go
\* below zero (a negative WaitGroup counter panics).
TypeOK ==
  /\ actors \in [Instances -> Actors \cup {None}]
  /\ status \in [Actors -> Statuses]
  /\ owner \in [Actors -> Instances \cup {None}]
  /\ mailbox \in [Actors -> Seq(Requests)]
  /\ pending \in [Actors -> Nat]
  /\ serving \in [Actors -> Requests \cup {None}]
  /\ pc \in [Requests -> Stages]
  /\ dest \in [Requests -> Instances \cup {None}]
  /\ target \in [Requests -> Actors \cup {None}]
  /\ cancelled \subseteq SyncCalls
  /\ outcome \in [Requests -> Outcomes \cup {"none"}]
  /\ reply \in [Requests -> Outcomes \cup {"none"}]
  /\ answer \in [Requests -> Outcomes \cup {"none", "cancelled", "accepted"}]
  /\ inflight \in Nat
  /\ drain \in Drains

\* The events of one instance never overlap: two actors of the same instance
\* are never both inside processFn (dispatcher.go: "one event at a time").
SerialPerInstance ==
  \A a, b \in Actors :
    /\ status[a] = "processing"
    /\ status[b] = "processing"
    /\ owner[a] = owner[b]
    => a = b

\* The enqueue/evict race is closed: an actor that a sender is blocked on, or
\* whose mailbox holds a command, is the one its instance's map entry names.
NoCommandStranded ==
  \A a \in Actors : Outstanding(a) # {} => Live(a) /\ actors[owner[a]] = a

\* pending is exactly the number of commands between their sender's critical
\* section and the critical section that settles them.
PendingIsExact == \A a \in Actors : pending[a] = Cardinality(Outstanding(a))

\* inflight is exactly the number of commands accepted and not settled plus
\* the auto-join goroutines still at work.
InflightIsExact == inflight = Cardinality(Counted) + Cardinality(Joining)

\* The WaitGroup has let Drain go.
LetGo == drain \in {"released", "drained", "panicked"}

\* What the WaitGroup waits for: everything but timers about to dispatch.
AtRest == /\ \A a \in Actors : mailbox[a] = <<>> /\ serving[a] = None
          /\ \A r \in Requests \ TimerCalls : pc[r] \in {"idle", "done"}
          /\ \A r \in TimerCalls : pc[r] \in {"idle", "called", "done"}

\* Drain is let go only at a moment at which no actor and no auto-join is at
\* work and nothing is queued, whoever sent it; from then on timers alone may
\* start work again, and no client's command is ever left behind.
DrainedMeansQuiet ==
  [][/\ ~LetGo /\ LetGo' => AtRest'
     /\ LetGo' => /\ Clients \cap Counted' = {}
                  /\ \A r \in Clients : pc'[r] \in {"idle", "done"}]_vars

Sent(r) == \/ outcome[r] # "none"
           \/ \E a \in Actors : r \in Queued(a) \cup InHand(a)

\* A command that reached a mailbox is eventually run, evictions and
\* cancelled callers notwithstanding.
AcceptedIsProcessed == \A r \in Requests : Sent(r) ~> outcome[r] # "none"

\* Every call of Dispatch or DispatchAsync returns to its caller.
CallsReturn ==
  \A r \in Clients \cup TimerCalls : pc[r] = "called" ~> pc[r] = "done"

\* With full mailboxes, evictions and callers that give up: nobody who calls
\* waits for ever, and nothing accepted is forgotten.
CallsAreServed == AcceptedIsProcessed /\ CallsReturn

\* Drain returns: no counted command or auto-join keeps it waiting for ever,
\* nor do timers that fire meanwhile, as long as they are finitely many.
DrainReturns == drain = "closed" ~> drain = "drained"

\* What a caller sees of instance i: the mailbox of its registered actor and
\* the command that actor has in processFn.
QueueOf(i) == IF actors[i] = None THEN <<>> ELSE mailbox[actors[i]]
RunningOf(i) == IF actors[i] # None /\ status[actors[i]] = "processing"
                THEN serving[actors[i]] ELSE None

Queues == INSTANCE InstanceQueues
            WITH queue <- [i \in Instances |-> QueueOf(i)],
                 running <- [i \in Instances |-> RunningOf(i)]

\* Actors, buffers, counters and evictions implement one FIFO queue per
\* instance whose commands run one at a time and at most once.
ImplementsQueues == Queues!SafeSpec

\* ... and they do so without ever stalling a queue or a caller's answer.
ImplementsFairQueues == Queues!Spec
=============================================================================
