----------------------------- MODULE Activities -----------------------------
(***************************************************************************)
(* engine/timers.go and doactivity.go: the background work of one workflow *)
(* instance (the do-activity and the deferred-transition timer of the      *)
(* state it is in), the two registries that can cancel it, and all who     *)
(* start and stop it: the creation, processEvent, the reaping of an idle   *)
(* actor (dispatcher.go) and Shutdown (brokr.go).  A state has at most one *)
(* timer here; an event's transition is any move, or none: which one is    *)
(* the subject of Instance.  Cancelling is cooperative: a task is          *)
(* "cancelled" once its context is, whenever its goroutine notices.        *)
(***************************************************************************)
EXTENDS Integers, Sequences, FiniteSets

CONSTANTS
  Places,     \* positions of the instance
  Initial,    \* the one it is created in
  Busy,       \* those with doActions
  Timed,      \* those with a deferred transition
  Moves,      \* pairs of positions, the transitions of the definition
  IsChild,    \* created by createChildWorkflowInstance, whose row is
              \* known to clients (GET .../children) before it is armed
  MaxEvents,  \* bound: client events
  MaxTasks,   \* bound: background tasks ever started
  None        \* no registered do-activity

ASSUME PlacesAssumption ==
  /\ Initial \in Places /\ Busy \cup Timed \subseteq Places
  /\ Moves \subseteq Places \X Places /\ IsChild \in BOOLEAN
  /\ MaxEvents \in Nat /\ MaxTasks \in Nat /\ None \notin Nat

VARIABLES
  pos,        \* the committed position
  tasks,      \* Seq of tasks: what they are, for which position, their stage
  doReg,      \* doActivityStops[id]: a task or None
  timerReg,   \* timerStops[id]: a set of tasks
  dying,      \* what the reaper, and Shutdown, took out and will cancel next
  actor,      \* the run loop and processEvent
  goal,       \* the position being moved to
  creator,    \* the goroutine that created the instance
  reaper,     \* an evicted actor, between its unlock and its return
  inbox,      \* events in the mailbox
  sent,       \* client events so far
  shutdown,   \* the steps of Shutdown
  rollback    \* the last move was rolled back, its timers stay stopped

vars == <<pos, tasks, doReg, timerReg, dying, actor, goal, creator, reaper,
          inbox, sent, shutdown, rollback>>

Stoppers == {"reaper", "shutdown"}
ActorStages == {"none", "idle", "matched", "stopDo", "stopTimers", "commit",
                "armDo", "armTimers"}

Init ==
  /\ pos = Initial
  /\ tasks = <<>>
  /\ doReg = None
  /\ timerReg = {}
  /\ dying = [who \in Stoppers |-> {}]
  /\ actor = "none"
  /\ goal = Initial
  /\ creator = "armDo"
  /\ reaper = "none"
  /\ inbox = 0
  /\ sent = 0
  /\ shutdown = "no"
  /\ rollback = FALSE

-----------------------------------------------------------------------------
(* The registries.                                                         *)

Started(what, p) == Append(tasks, [what |-> what, place |-> p,
                                   stage |-> "running"])

\* startDoActivity registers without looking at what is registered already.
startDoActivity(p) ==
  IF p \notin Busy THEN UNCHANGED <<tasks, doReg>>
  ELSE /\ Len(tasks) < MaxTasks
       /\ tasks' = Started("do", p)
       /\ doReg' = Len(tasks) + 1

startTimers(p) ==
  IF p \notin Timed THEN UNCHANGED <<tasks, timerReg>>
  ELSE /\ Len(tasks) < MaxTasks
       /\ tasks' = Started("timer", p)
       /\ timerReg' = timerReg \cup {Len(tasks) + 1}

\* Cancelling a timer whose delay has elapsed leaves its select two ready
\* branches: it may still send its event.
Cancelled(stage) ==
  CASE stage = "running" -> "cancelled"
    [] stage = "elapsed" -> "raced"
    [] OTHER -> stage

CancelTasks(ids) ==
  tasks' = [k \in DOMAIN tasks |->
              IF k \in ids THEN [tasks[k] EXCEPT !.stage = Cancelled(@)]
                           ELSE tasks[k]]

\* Mutant: the registration is dropped, the context is not cancelled.
stopDoActivityForgets ==
  /\ doReg' = None
  /\ UNCHANGED tasks

\* stopDoActivity and stopTimers in processEvent, where nothing depends on
\* what comes between taking a task out of its registry and cancelling it.
stopDoActivity ==
  /\ CancelTasks({doReg})
  /\ doReg' = None

stopTimers ==
  /\ CancelTasks(timerReg)
  /\ timerReg' = {}

\* The same by a goroutine that competes with the actor: the tasks are taken
\* out under the registry's lock and cancelled after it.
TakeDoActivity(who) ==
  /\ dying' = [dying EXCEPT ![who] = {doReg} \ {None}]
  /\ doReg' = None

TakeTimers(who) ==
  /\ dying' = [dying EXCEPT ![who] = timerReg]
  /\ timerReg' = {}

CancelTaken(who) ==
  /\ dying[who] # {}
  /\ CancelTasks(dying[who])
  /\ dying' = [dying EXCEPT ![who] = {}]
  /\ UNCHANGED <<pos, doReg, timerReg, actor, goal, creator, reaper, inbox,
                 sent, shutdown, rollback>>

-----------------------------------------------------------------------------
(* The background tasks.                                                   *)

DoActivityEnds(k) ==
  /\ tasks[k].what = "do"
  /\ tasks[k].stage = "running"
  /\ tasks' = [tasks EXCEPT ![k].stage = "over"]
  /\ UNCHANGED <<pos, doReg, timerReg, dying, actor, goal, creator, reaper,
                 inbox, sent, shutdown, rollback>>

DelayElapses(k) ==
  /\ tasks[k].what = "timer"
  /\ tasks[k].stage = "running"
  /\ tasks' = [tasks EXCEPT ![k].stage = "elapsed"]
  /\ UNCHANGED <<pos, doReg, timerReg, dying, actor, goal, creator, reaper,
                 inbox, sent, shutdown, rollback>>

TimerFires(k) ==
  /\ tasks[k].stage \in {"elapsed", "raced"}
  /\ tasks' = [tasks EXCEPT ![k].stage = "over"]
  /\ inbox' = inbox + 1
  /\ UNCHANGED <<pos, doReg, timerReg, dying, actor, goal, creator, reaper,
                 sent, shutdown, rollback>>

TimerYields(k) ==
  /\ tasks[k].stage = "raced"
  /\ tasks' = [tasks EXCEPT ![k].stage = "cancelled"]
  /\ UNCHANGED <<pos, doReg, timerReg, dying, actor, goal, creator, reaper,
                 inbox, sent, shutdown, rollback>>

-----------------------------------------------------------------------------
(* Creation: the row is inserted, then armStateActivities.                 *)

CreatorArmsDo ==
  /\ creator = "armDo"
  /\ startDoActivity(Initial)
  /\ creator' = "armTimers"
  /\ UNCHANGED <<pos, timerReg, dying, actor, goal, reaper, inbox, sent,
                 shutdown, rollback>>

CreatorArmsTimers ==
  /\ creator = "armTimers"
  /\ startTimers(Initial)
  /\ creator' = "done"
  /\ UNCHANGED <<pos, doReg, dying, actor, goal, reaper, inbox, sent, shutdown,
                 rollback>>

\* A client needs the id: returned when the creation is over, or listed among
\* the children of its parent before that.
ClientEvent ==
  /\ IsChild \/ creator = "done"
  /\ shutdown = "no"
  /\ sent < MaxEvents
  /\ sent' = sent + 1
  /\ inbox' = inbox + 1
  /\ UNCHANGED <<pos, tasks, doReg, timerReg, dying, actor, goal, creator,
                 reaper, shutdown, rollback>>

-----------------------------------------------------------------------------
(* The actor.                                                              *)

\* Mutant: the run loop wakes up without a command.
ReceiveNothing ==
  /\ actor \in {"none", "idle"}
  /\ inbox' = inbox - 1
  /\ actor' = "matched"
  /\ UNCHANGED <<pos, tasks, doReg, timerReg, dying, goal, creator, reaper,
                 sent, shutdown, rollback>>

Receive ==
  /\ actor \in {"none", "idle"}
  /\ inbox > 0
  /\ inbox' = inbox - 1
  /\ actor' = "matched"
  /\ UNCHANGED <<pos, tasks, doReg, timerReg, dying, goal, creator, reaper,
                 sent, shutdown, rollback>>

\* No transition, an error before applyTransition stops anything, or an
\* INTERNAL transition, which commits without having moved: nothing is armed.
Stay ==
  /\ actor = "matched"
  /\ actor' = "idle"
  /\ UNCHANGED <<pos, tasks, doReg, timerReg, dying, goal, creator, reaper,
                 inbox, sent, shutdown, rollback>>

BeginMove(p) ==
  /\ actor = "matched"
  /\ <<pos, p>> \in Moves
  /\ goal' = p
  /\ actor' = "stopDo"
  /\ UNCHANGED <<pos, tasks, doReg, timerReg, dying, creator, reaper, inbox,
                 sent, shutdown, rollback>>

MoveStopsDo ==
  /\ actor = "stopDo"
  /\ stopDoActivity
  /\ actor' = "stopTimers"
  /\ UNCHANGED <<pos, timerReg, dying, goal, creator, reaper, inbox, sent,
                 shutdown, rollback>>

\* Mutant: the timers of the state that is left run on.
MoveKeepsTimers ==
  /\ actor = "stopTimers"
  /\ actor' = "commit"
  /\ UNCHANGED <<pos, tasks, doReg, timerReg, dying, goal, creator, reaper,
                 inbox, sent, shutdown, rollback>>

\* Mutant: the new state's timer is started before the commit.
MoveArmsEarly ==
  /\ actor = "stopTimers"
  /\ startTimers(goal)
  /\ actor' = "commit"
  /\ UNCHANGED <<pos, doReg, dying, goal, creator, reaper, inbox, sent,
                 shutdown, rollback>>

MoveStopsTimers ==
  /\ actor = "stopTimers"
  /\ stopTimers
  /\ actor' = "commit"
  /\ UNCHANGED <<pos, doReg, dying, goal, creator, reaper, inbox, sent,
                 shutdown, rollback>>

Commit ==
  /\ actor = "commit"
  /\ pos' = goal
  /\ rollback' = FALSE
  /\ actor' = "armDo"
  /\ UNCHANGED <<tasks, doReg, timerReg, dying, goal, creator, reaper, inbox,
                 sent, shutdown>>

\* Any later error rolls the row back; what was stopped stays stopped.
Rollback ==
  /\ actor = "commit"
  /\ rollback' = TRUE
  /\ actor' = "idle"
  /\ UNCHANGED <<pos, tasks, doReg, timerReg, dying, goal, creator, reaper,
                 inbox, sent, shutdown>>

MoveArmsDo ==
  /\ actor = "armDo"
  /\ startDoActivity(pos)
  /\ actor' = "armTimers"
  /\ UNCHANGED <<pos, timerReg, dying, goal, creator, reaper, inbox, sent,
                 shutdown, rollback>>

MoveArmsTimers ==
  /\ actor = "armTimers"
  /\ startTimers(pos)
  /\ actor' = "idle"
  /\ UNCHANGED <<pos, doReg, dying, goal, creator, reaper, inbox, sent,
                 shutdown, rollback>>

\* The idle actor leaves its shard's map, and from then on competes with the
\* next actor of the instance.
Evict ==
  /\ actor = "idle"
  /\ inbox = 0
  /\ reaper = "none"
  /\ actor' = "none"
  /\ reaper' = "stopDo"
  /\ UNCHANGED <<pos, tasks, doReg, timerReg, dying, goal, creator, inbox,
                 sent, shutdown, rollback>>

ReaperStopsDo ==
  /\ reaper = "stopDo"
  /\ TakeDoActivity("reaper")
  /\ reaper' = "stopTimers"
  /\ UNCHANGED <<pos, tasks, timerReg, actor, goal, creator, inbox, sent,
                 shutdown, rollback>>

ReaperStopsTimers ==
  /\ reaper = "stopTimers"
  /\ dying["reaper"] = {}
  /\ TakeTimers("reaper")
  /\ reaper' = "return"
  /\ UNCHANGED <<pos, tasks, doReg, actor, goal, creator, inbox, sent,
                 shutdown, rollback>>

ReaperReturns ==
  /\ reaper = "return"
  /\ dying["reaper"] = {}
  /\ reaper' = "none"
  /\ UNCHANGED <<pos, tasks, doReg, timerReg, dying, actor, goal, creator,
                 inbox, sent, shutdown, rollback>>

-----------------------------------------------------------------------------
(* Shutdown, once the HTTP server has stopped.                             *)

ShutdownStopsTimers ==
  /\ shutdown = "no"
  /\ creator = "done"
  /\ TakeTimers("shutdown")
  /\ shutdown' = "timersStopped"
  /\ UNCHANGED <<pos, tasks, doReg, actor, goal, creator, reaper, inbox, sent,
                 rollback>>

ShutdownStopsDo ==
  /\ shutdown = "timersStopped"
  /\ dying["shutdown"] = {}
  /\ TakeDoActivity("shutdown")
  /\ shutdown' = "draining"
  /\ UNCHANGED <<pos, tasks, timerReg, actor, goal, creator, reaper, inbox,
                 sent, rollback>>

\* Drain returns and the database handle is removed.
ShutdownEnds ==
  /\ shutdown = "draining"
  /\ dying["shutdown"] = {}
  /\ actor \in {"none", "idle"}
  /\ inbox = 0
  /\ shutdown' = "done"
  /\ UNCHANGED <<pos, tasks, doReg, timerReg, dying, actor, goal, creator,
                 reaper, inbox, sent, rollback>>

-----------------------------------------------------------------------------
TaskStep(k) == \/ DoActivityEnds(k) \/ DelayElapses(k)
               \/ TimerFires(k) \/ TimerYields(k)

ActorStep ==
  \/ Receive \/ Stay \/ MoveStopsDo \/ MoveStopsTimers \/ Commit
  \/ Rollback \/ MoveArmsDo \/ MoveArmsTimers
  \/ \E p \in Places : BeginMove(p)

CreatorStep == CreatorArmsDo \/ CreatorArmsTimers
ReaperStep == ReaperStopsDo \/ ReaperStopsTimers \/ ReaperReturns

Next == \/ ClientEvent \/ ActorStep \/ CreatorStep \/ Evict \/ ReaperStep
        \/ \E who \in Stoppers : CancelTaken(who)
        \/ ShutdownStopsTimers \/ ShutdownStopsDo \/ ShutdownEnds
        \/ \E k \in DOMAIN tasks : TaskStep(k)

Spec == Init /\ [][Next]_vars

\* Without evictions (events arrive within the idle timeout) and shutdown.
AttendedSpec ==
  Init /\ [][Next /\ ~Evict /\ shutdown' = "no"]_vars

-----------------------------------------------------------------------------
(* Properties.                                                             *)

\* A task whose context is not cancelled, other than one about to be.
Alive(k) == /\ tasks[k].stage = "running"
            /\ \A who \in Stoppers : k \notin dying[who]

\* Nobody is between a stop and a start, or between the two starts.
AtRest == actor \in {"none", "idle", "matched"} /\ creator = "done"

\* Tasks, registries and stages stay within their declared sets.
TypeOK ==
  /\ pos \in Places /\ goal \in Places
  /\ \A k \in DOMAIN tasks :
       /\ tasks[k].what \in {"do", "timer"} /\ tasks[k].place \in Places
       /\ tasks[k].stage \in {"running", "elapsed", "raced", "cancelled",
                              "over"}
  /\ doReg \in DOMAIN tasks \cup {None}
  /\ timerReg \subseteq DOMAIN tasks
  /\ \A who \in Stoppers : dying[who] \subseteq DOMAIN tasks
  /\ actor \in ActorStages /\ inbox \in Nat

\* Whatever runs can be cancelled: the registries lose no running task.
NothingLeaks ==
  \A k \in DOMAIN tasks : Alive(k) => doReg = k \/ k \in timerReg

\* At rest, what runs belongs to the state the database holds, evictions,
\* rollbacks and the reaper's late stops notwithstanding.
RunsForCurrentState ==
  AtRest => \A k \in DOMAIN tasks : Alive(k) => tasks[k].place = pos

\* A state never has two do-activities, or two timers, at work.
OneOfEach ==
  \A k, m \in DOMAIN tasks :
    Alive(k) /\ Alive(m) /\ tasks[k].what = tasks[m].what => k = m

-----------------------------------------------------------------------------
(* What the documentation says of the program and the code does not do.    *)

\* A timer that belongs to the instance's position and that can still fire, or
\* has fired.
TimerServes(k) == /\ tasks[k].what = "timer" /\ tasks[k].place = pos
                  /\ tasks[k].stage # "cancelled"

\* README, deferred transitions: "After 15 minutes the engine itself dispatches
\* timeout" (unless the idle actor was reaped before that).
TimerOutlivesIdleness ==
  AtRest /\ pos \in Timed /\ ~rollback /\ shutdown = "no" =>
    \E k \in DOMAIN tasks : TimerServes(k)
=============================================================================
