-------------------------- MODULE Activities_proofs --------------------------
(***************************************************************************)
(* Safety of the background work of an instance, for any definition and    *)
(* any number of events and tasks.                                         *)
(*   - Typed is inductive by itself.                                       *)
(*   - Guarded is inductive over it for instances that clients cannot      *)
(*     reach before they are armed (~IsChild).                             *)
(***************************************************************************)
EXTENDS Activities, SequenceTheorems, TLAPS

Stages == {"running", "elapsed", "raced", "cancelled", "over"}
Task == [what : {"do", "timer"}, place : Places, stage : Stages]

Typed ==
  /\ pos \in Places /\ goal \in Places
  /\ tasks \in Seq(Task)
  /\ doReg \in DOMAIN tasks \cup {None}
  /\ timerReg \subseteq DOMAIN tasks
  /\ dying \in [Stoppers -> SUBSET DOMAIN tasks]
  /\ actor \in ActorStages /\ inbox \in Nat

-----------------------------------------------------------------------------
(* What may happen to the tasks in a step.                                 *)

\* Every task is what it was, and none runs again.
Keeps ==
  /\ tasks' \in Seq(Task)
  /\ DOMAIN tasks' = DOMAIN tasks
  /\ \A k \in DOMAIN tasks :
       /\ tasks'[k].what = tasks[k].what /\ tasks'[k].place = tasks[k].place
       /\ tasks'[k].stage = "running" => tasks[k].stage = "running"

\* One task more, which runs.
Adds(what, p) ==
  /\ tasks' \in Seq(Task)
  /\ DOMAIN tasks' = DOMAIN tasks \cup {Len(tasks) + 1}
  /\ Len(tasks) + 1 \notin DOMAIN tasks
  /\ \A k \in DOMAIN tasks : tasks'[k] = tasks[k]
  /\ tasks'[Len(tasks) + 1] = [what |-> what, place |-> p, stage |-> "running"]

\* A function on an initial segment of the numbers is a sequence.
LEMMA FunctionIsSequence ==
  ASSUME tasks \in Seq(Task), NEW f, DOMAIN f = DOMAIN tasks,
         f = [k \in DOMAIN tasks |-> f[k]],
         \A k \in DOMAIN tasks : f[k] \in Task
  PROVE  f \in Seq(Task)
<1>1. DOMAIN tasks = 1 .. Len(tasks) /\ Len(tasks) \in Nat
  BY LenProperties
<1>2. f \in [1 .. Len(tasks) -> Task]
  BY <1>1
<1> QED
  BY <1>1, <1>2, SeqDef

\* A task is started.
LEMMA Starting ==
  ASSUME tasks \in Seq(Task), NEW what \in {"do", "timer"}, NEW p \in Places,
         tasks' = Started(what, p)
  PROVE  Adds(what, p)
<1> DEFINE t == [what |-> what, place |-> p, stage |-> "running"]
<1>1. t \in Task
  BY DEF Task, Stages
<1>2. tasks' = Append(tasks, t)
  BY DEF Started
<1>3. DOMAIN tasks = 1 .. Len(tasks) /\ Len(tasks) \in Nat
  BY LenProperties
<1>4. /\ tasks' \in Seq(Task) /\ Len(tasks') = Len(tasks) + 1
      /\ \A k \in 1 .. Len(tasks) : tasks'[k] = tasks[k]
      /\ tasks'[Len(tasks) + 1] = t
  BY <1>1, <1>2, AppendProperties
<1>5. DOMAIN tasks' = 1 .. Len(tasks')
  BY <1>4, LenProperties
<1> QED
  BY <1>3, <1>4, <1>5 DEF Adds

\* Tasks are cancelled.
LEMMA Cancelling ==
  ASSUME tasks \in Seq(Task), NEW ids, CancelTasks(ids)
  PROVE  /\ Keeps
         /\ \A k \in DOMAIN tasks : k \in ids => tasks'[k].stage # "running"
         /\ \A k \in DOMAIN tasks : k \notin ids => tasks'[k] = tasks[k]
<1>1. \A k \in DOMAIN tasks : tasks[k] \in Task
  BY ElementOfSeq, LenProperties
<1>2. \A st \in Stages : Cancelled(st) \in Stages /\ Cancelled(st) # "running"
  BY DEF Cancelled, Stages
<1>3. \A k \in DOMAIN tasks : k \notin ids => tasks'[k] = tasks[k]
  BY DEF CancelTasks
<1>5. ASSUME NEW k \in DOMAIN tasks
      PROVE  /\ tasks'[k] \in Task
             /\ tasks'[k].what = tasks[k].what
             /\ tasks'[k].place = tasks[k].place
             /\ k \in ids => tasks'[k].stage # "running"
             /\ tasks'[k].stage = "running" => tasks[k].stage = "running"
  <2>1. CASE k \notin ids
    BY <1>1, <1>3, <2>1
  <2>2. CASE k \in ids
    <3>1. PICK c \in Stages : c = Cancelled(tasks[k].stage) /\ c # "running"
      BY <1>1, <1>2 DEF Task
    <3>2. tasks'[k] = [tasks[k] EXCEPT !.stage = c]
      BY <2>2, <3>1 DEF CancelTasks
    <3> QED
      BY <1>1, <3>1, <3>2 DEF Task
  <2> QED BY <2>1, <2>2
<1>6. DOMAIN tasks' = DOMAIN tasks /\ tasks' = [k \in DOMAIN tasks |-> tasks'[k]]
  BY DEF CancelTasks
<1>7. tasks' \in Seq(Task)
  BY <1>5, <1>6, FunctionIsSequence
<1> QED
  BY <1>3, <1>5, <1>6, <1>7 DEF Keeps

\* A task takes a step of its own.
LEMMA Stepping ==
  ASSUME tasks \in Seq(Task), NEW k \in DOMAIN tasks, TaskStep(k)
  PROVE  Keeps
<1>1. \A m \in DOMAIN tasks : tasks[m] \in Task
  BY ElementOfSeq, LenProperties
<1>2. PICK s \in {"over", "elapsed", "cancelled"} :
        tasks' = [tasks EXCEPT ![k].stage = s]
  BY DEF TaskStep, DoActivityEnds, DelayElapses, TimerFires, TimerYields
<1>3. \A m \in DOMAIN tasks :
        /\ tasks'[m] \in Task
        /\ tasks'[m].what = tasks[m].what /\ tasks'[m].place = tasks[m].place
        /\ tasks'[m].stage = "running" => tasks[m].stage = "running"
  BY <1>1, <1>2 DEF Task, Stages
<1>4. DOMAIN tasks' = DOMAIN tasks /\ tasks' = [m \in DOMAIN tasks |-> tasks'[m]]
  BY <1>2
<1>5. tasks' \in Seq(Task)
  BY <1>3, <1>4, FunctionIsSequence
<1> QED
  BY <1>3, <1>4, <1>5 DEF Keeps

-----------------------------------------------------------------------------
(* Types.                                                                  *)

\* Nothing runs before the creation.
LEMMA TypedAtFirst == Init => Typed
<1> SUFFICES ASSUME Init PROVE Typed
  OBVIOUS
<1>1. tasks \in Seq(Task) /\ dying \in [Stoppers -> SUBSET DOMAIN tasks]
  BY DEF Init
<1> QED
  BY <1>1, PlacesAssumption DEF Init, Typed, ActorStages

\* A task more does not disturb what refers to the earlier ones.
LEMMA TypedStart ==
  ASSUME Typed, NEW p \in Places, dying' = dying, pos' = pos, goal' = goal,
         inbox' = inbox, actor' \in ActorStages,
         \/ startDoActivity(p) /\ timerReg' = timerReg
         \/ startTimers(p) /\ doReg' = doReg
  PROVE  Typed'
<1>1. CASE tasks' = tasks
  BY <1>1 DEF Typed, startDoActivity, startTimers, Started
<1>2. CASE tasks' # tasks
  <2>1. PICK what \in {"do", "timer"} : tasks' = Started(what, p)
    BY <1>2 DEF startDoActivity, startTimers
  <2>2. Adds(what, p)
    BY <2>1, Starting DEF Typed
  <2>3. /\ doReg' \in DOMAIN tasks' \cup {None}
        /\ timerReg' \subseteq DOMAIN tasks'
    BY <1>2, <2>2 DEF startDoActivity, startTimers, Typed, Adds
  <2>4. dying' \in [Stoppers -> SUBSET DOMAIN tasks']
    BY <2>2 DEF Typed, Adds
  <2> QED
    BY <2>2, <2>3, <2>4 DEF Typed, Adds
<1> QED BY <1>1, <1>2

\* Nor does a change of the tasks' stages.
LEMMA TypedKeeps ==
  ASSUME Typed, Keeps, pos' = pos, goal' = goal, inbox' \in Nat,
         actor' \in ActorStages, doReg' \in {doReg, None},
         timerReg' \subseteq timerReg,
         dying' \in [Stoppers -> SUBSET DOMAIN tasks]
  PROVE  Typed'
BY DEF Typed, Keeps

\* Every step.
LEMMA TypedStep == Typed /\ [Next]_vars => Typed'
<1> SUFFICES ASSUME Typed, [Next]_vars PROVE Typed'
  OBVIOUS
<1> USE DEF ActorStages
<1>1. CASE UNCHANGED vars
  BY <1>1 DEF Typed, vars
<1>2. CASE ClientEvent
  BY <1>2 DEF Typed, ClientEvent
<1>3. CASE Receive \/ Stay \/ Commit \/ Rollback \/ Evict
  BY <1>3 DEF Typed, Receive, Stay, Commit, Rollback, Evict
<1>4. ASSUME NEW p \in Places, BeginMove(p) PROVE Typed'
  BY <1>4 DEF Typed, BeginMove
<1>5. CASE MoveStopsDo
  BY <1>5, Cancelling, TypedKeeps DEF Typed, MoveStopsDo, stopDoActivity
<1>6. CASE MoveStopsTimers
  BY <1>6, Cancelling, TypedKeeps DEF Typed, MoveStopsTimers, stopTimers
<1>7. CASE MoveArmsDo
  BY <1>7, TypedStart DEF Typed, MoveArmsDo
<1>8. CASE MoveArmsTimers
  BY <1>8, TypedStart DEF Typed, MoveArmsTimers
<1>9. CASE CreatorArmsDo
  BY <1>9, TypedStart, PlacesAssumption DEF Typed, CreatorArmsDo
<1>10. CASE CreatorArmsTimers
  BY <1>10, TypedStart, PlacesAssumption DEF Typed, CreatorArmsTimers
<1>11. CASE ReaperStopsDo \/ ShutdownStopsDo
  BY <1>11 DEF Typed, ReaperStopsDo, ShutdownStopsDo, TakeDoActivity, Stoppers
<1>12. CASE ReaperStopsTimers \/ ShutdownStopsTimers
  BY <1>12 DEF Typed, ReaperStopsTimers, ShutdownStopsTimers, TakeTimers,
               Stoppers
<1>13. CASE ReaperReturns \/ ShutdownEnds
  BY <1>13 DEF Typed, ReaperReturns, ShutdownEnds
<1>14. ASSUME NEW who \in Stoppers, CancelTaken(who) PROVE Typed'
  <2>1. dying' \in [Stoppers -> SUBSET DOMAIN tasks]
    BY <1>14 DEF Typed, CancelTaken
  <2> QED
    BY <1>14, <2>1, Cancelling, TypedKeeps DEF Typed, CancelTaken
<1>15. ASSUME NEW k \in DOMAIN tasks, TaskStep(k) PROVE Typed'
  <2>1. Keeps
    BY <1>15, Stepping DEF Typed
  <2>2. /\ inbox' \in Nat
        /\ UNCHANGED <<pos, goal, actor, doReg, timerReg, dying>>
    BY <1>15 DEF Typed, TaskStep, DoActivityEnds, DelayElapses, TimerFires,
                 TimerYields
  <2> QED
    BY <2>1, <2>2, TypedKeeps DEF Typed
<1> QED
  BY <1>1, <1>2, <1>3, <1>4, <1>5, <1>6, <1>7, <1>8, <1>9, <1>10, <1>11,
     <1>12, <1>13, <1>14, <1>15
     DEF Next, ActorStep, CreatorStep, ReaperStep

\* timers.go, doactivity.go: tasks, registries and stages stay within their
\* sets, for child instances too.
THEOREM TypeCorrect == Spec => []TypeOK
<1>1. Typed => TypeOK
  <2> SUFFICES ASSUME Typed PROVE TypeOK
    OBVIOUS
  <2>1. \A k \in DOMAIN tasks : tasks[k] \in Task
    BY ElementOfSeq, LenProperties DEF Typed
  <2> QED
    BY <2>1 DEF Typed, TypeOK, Task, Stages
<1> QED
  BY <1>1, TypedAtFirst, TypedStep, PTL DEF Spec

-----------------------------------------------------------------------------
(* What runs, for instances that are armed before clients know of them.    *)

\* Whatever runs is registered and belongs to the position, and there is only
\* one timer.
Ours ==
  /\ \A k \in DOMAIN tasks : Alive(k) =>
       /\ tasks[k].what = "do" => doReg = k
       /\ tasks[k].what = "timer" => k \in timerReg
       /\ tasks[k].place = pos
  /\ \A k, m \in DOMAIN tasks :
       Alive(k) /\ Alive(m) /\ tasks[k].what = "timer"
         /\ tasks[m].what = "timer" => k = m

NoneAlive(what) == \A k \in DOMAIN tasks : Alive(k) => tasks[k].what # what

\* Between its stops and its starts a move has neither kind of task.
Stopped ==
  /\ actor \in {"stopTimers", "commit", "armDo"} => NoneAlive("do")
  /\ actor \in {"commit", "armDo", "armTimers"} => NoneAlive("timer")

\* Until the creator is done there is nobody else, as nobody has the id.
Young ==
  /\ creator \in {"armDo", "armTimers", "done"}
  /\ creator # "done" =>
       /\ actor = "none" /\ inbox = 0 /\ reaper = "none" /\ shutdown = "no"
       /\ pos = Initial
       /\ \A k \in DOMAIN tasks : /\ tasks[k].what = "do"
                                  /\ tasks[k].stage \in {"running", "over"}
  /\ creator = "armDo" => DOMAIN tasks = {}

\* Who has not begun to stop tasks has none to cancel.
Clean ==
  /\ reaper \in {"none", "stopDo"} => dying["reaper"] = {}
  /\ shutdown = "no" => dying["shutdown"] = {}

Guarded == Ours /\ Stopped /\ Young /\ Clean

\* Tasks are cancelled, or on their way to it, and their registrations with them.
LEMMA FewerRun ==
  ASSUME Ours, Keeps, pos' = pos,
         \A k \in DOMAIN tasks : Alive(k)' =>
           /\ Alive(k)
           /\ tasks[k].what = "do" => doReg' = doReg
           /\ tasks[k].what = "timer" => timerReg' = timerReg
  PROVE  Ours' /\ \A what : NoneAlive(what) => NoneAlive(what)'
BY DEF Ours, Keeps, NoneAlive

\* A task is started and registered where none of its kind is at work.
LEMMA OneMoreRuns ==
  ASSUME Typed, Ours, NEW what \in {"do", "timer"}, NoneAlive(what),
         Adds(what, pos), dying' = dying, pos' = pos,
         IF what = "do"
         THEN doReg' = Len(tasks) + 1 /\ timerReg' = timerReg
         ELSE doReg' = doReg /\ timerReg' = timerReg \cup {Len(tasks) + 1}
  PROVE  Ours' /\ \A w : w # what /\ NoneAlive(w) => NoneAlive(w)'
<1> DEFINE new == Len(tasks) + 1
<1>1. \A k \in DOMAIN tasks : Alive(k)' => Alive(k)
  BY DEF Alive, Adds
<1>2. \A k \in DOMAIN tasks' : k # new => k \in DOMAIN tasks /\ tasks'[k] = tasks[k]
  BY DEF Adds
<1>3. tasks'[new].what = what /\ tasks'[new].place = pos
  BY DEF Adds
<1>4. \A k \in DOMAIN tasks' : Alive(k)' =>
        k = new \/ (k \in DOMAIN tasks /\ Alive(k) /\ tasks[k].what # what
                      /\ tasks'[k] = tasks[k])
  BY <1>1, <1>2 DEF NoneAlive
<1>5. \A w : w # what /\ NoneAlive(w) => NoneAlive(w)'
  BY <1>3, <1>4 DEF NoneAlive
<1>6. Ours'
  BY <1>3, <1>4 DEF Ours
<1> QED BY <1>5, <1>6

\* startDoActivity, where no do-activity is at work.
LEMMA StartDo ==
  ASSUME Typed, Ours, NoneAlive("do"), startDoActivity(pos), dying' = dying,
         pos' = pos, timerReg' = timerReg
  PROVE  Ours' /\ (NoneAlive("timer") => NoneAlive("timer")')
<1>1. CASE pos \notin Busy
  BY <1>1 DEF startDoActivity, Ours, NoneAlive, Alive
<1>2. CASE pos \in Busy
  BY <1>2, Starting, OneMoreRuns DEF startDoActivity, Typed
<1> QED BY <1>1, <1>2

\* startTimers, where no timer is at work.
LEMMA StartTimer ==
  ASSUME Typed, Ours, NoneAlive("timer"), startTimers(pos), dying' = dying,
         pos' = pos, doReg' = doReg
  PROVE  Ours'
<1>1. CASE pos \notin Timed
  BY <1>1 DEF startTimers, Ours, Alive
<1>2. CASE pos \in Timed
  BY <1>2, Starting, OneMoreRuns DEF startTimers, Typed
<1> QED BY <1>1, <1>2

\* A goroutine takes a registry's tasks out, and will cancel them.
LEMMA TakingOut ==
  ASSUME Typed, Ours, NEW who \in Stoppers, dying[who] = {}, tasks' = tasks,
         pos' = pos,
         \/ TakeDoActivity(who) /\ timerReg' = timerReg
         \/ TakeTimers(who) /\ doReg' = doReg
  PROVE  Ours' /\ \A what : NoneAlive(what) => NoneAlive(what)'
<1>1. Keeps
  BY DEF Typed, Keeps
<1>2. dying \in [Stoppers -> SUBSET DOMAIN tasks]
  BY DEF Typed
<1>3. \A k \in DOMAIN tasks : Alive(k)' =>
        Alive(k) /\ k \notin dying'[who]
  BY <1>2 DEF Alive, TakeDoActivity, TakeTimers
<1>4. ASSUME NEW k \in DOMAIN tasks, Alive(k)'
      PROVE  /\ Alive(k)
             /\ tasks[k].what = "do" => doReg' = doReg
             /\ tasks[k].what = "timer" => timerReg' = timerReg
  <2>1. Alive(k) /\ k \notin dying'[who]
    BY <1>3, <1>4
  <2>2. CASE TakeDoActivity(who) /\ timerReg' = timerReg
    <3>1. dying'[who] = {doReg} \ {None}
      BY <1>2, <2>2 DEF TakeDoActivity
    <3>2. k # None
      BY LenProperties, PlacesAssumption DEF Typed
    <3> QED
      BY <2>1, <2>2, <3>1, <3>2 DEF Ours
  <2>3. CASE TakeTimers(who) /\ doReg' = doReg
    <3>1. dying'[who] = timerReg
      BY <1>2, <2>3 DEF TakeTimers
    <3> QED
      BY <2>1, <2>3, <3>1 DEF Ours
  <2> QED BY <2>1, <2>2, <2>3
<1> QED BY <1>1, <1>4, FewerRun

\* Nothing runs before the creation.
LEMMA GuardedAtFirst == Init => Guarded
BY DEF Init, Guarded, Ours, Stopped, Young, Clean, NoneAlive, Stoppers

\* Tasks, registries and the position are left alone.
LEMMA Undisturbed ==
  ASSUME Ours, UNCHANGED <<pos, tasks, doReg, timerReg, dying>>
  PROVE  Ours' /\ \A what : NoneAlive(what) <=> NoneAlive(what)'
BY DEF Ours, NoneAlive, Alive

\* The event of an actor.
LEMMA ActorKeepsGuarded ==
  ASSUME ~IsChild, Typed, Guarded, ActorStep \/ Evict
  PROVE  Guarded'
<1> USE DEF Guarded
<1>1. CASE Receive \/ Stay \/ (\E p \in Places : BeginMove(p)) \/ Rollback
             \/ Evict
  <2>1. UNCHANGED <<pos, tasks, doReg, timerReg, dying, creator, shutdown>>
    BY <1>1 DEF Receive, Stay, BeginMove, Rollback, Evict
  <2>2. actor' \in {"none", "idle", "matched", "stopDo"} /\ creator = "done"
    <3>1. actor' \in {"none", "idle", "matched", "stopDo"}
      BY <1>1 DEF Receive, Stay, BeginMove, Rollback, Evict
    <3>2. actor # "none" \/ inbox > 0
      BY <1>1 DEF Receive, Stay, BeginMove, Rollback, Evict
    <3> QED
      BY <3>1, <3>2 DEF Young
  <2>3. Ours' /\ Stopped'
    BY <2>1, <2>2, Undisturbed DEF Stopped
  <2>4. Young'
    BY <2>1, <2>2 DEF Young
  <2>5. Clean'
    BY <1>1, <2>1 DEF Clean, Receive, Stay, BeginMove, Rollback, Evict
  <2> QED BY <2>3, <2>4, <2>5
<1>2. CASE MoveStopsDo
  <2>1. /\ Keeps
        /\ \A k \in DOMAIN tasks : k = doReg => tasks'[k].stage # "running"
    BY <1>2, Cancelling DEF Typed, MoveStopsDo, stopDoActivity
  <2>2. \A k \in DOMAIN tasks :
          Alive(k)' => Alive(k) /\ tasks[k].what # "do"
    BY <1>2, <2>1 DEF Alive, Keeps, Ours, MoveStopsDo
  <2>3. Ours' /\ NoneAlive("do")'
    BY <1>2, <2>1, <2>2, FewerRun DEF MoveStopsDo, NoneAlive, Keeps
  <2>4. creator = "done"
    BY <1>2 DEF MoveStopsDo, Young
  <2> QED
    BY <1>2, <2>3, <2>4 DEF MoveStopsDo, Stopped, Young, Clean
<1>3. CASE MoveStopsTimers
  <2>1. /\ Keeps
        /\ \A k \in DOMAIN tasks :
             k \in timerReg => tasks'[k].stage # "running"
    BY <1>3, Cancelling DEF Typed, MoveStopsTimers, stopTimers
  <2>2. \A k \in DOMAIN tasks :
          Alive(k)' => Alive(k) /\ tasks[k].what # "timer"
    BY <1>3, <2>1 DEF Alive, Keeps, Ours, MoveStopsTimers
  <2>3. Ours' /\ NoneAlive("timer")' /\ (NoneAlive("do") => NoneAlive("do")')
    BY <1>3, <2>1, <2>2, FewerRun DEF MoveStopsTimers, NoneAlive, Keeps
  <2>4. creator = "done"
    BY <1>3 DEF MoveStopsTimers, Young
  <2> QED
    BY <1>3, <2>3, <2>4 DEF MoveStopsTimers, Stopped, Young, Clean
<1>4. CASE Commit
  <2>1. \A k \in DOMAIN tasks : ~Alive(k)
    <3>1. \A k \in DOMAIN tasks : tasks[k] \in Task
      BY ElementOfSeq, LenProperties DEF Typed
    <3> QED
      BY <1>4, <3>1 DEF Commit, Stopped, NoneAlive, Task
  <2>2. \A k \in DOMAIN tasks' : ~Alive(k)'
    BY <1>4, <2>1 DEF Commit, Alive
  <2>3. Ours' /\ Stopped'
    BY <2>2 DEF Ours, Stopped, NoneAlive
  <2>4. creator = "done"
    BY <1>4 DEF Commit, Young
  <2> QED
    BY <1>4, <2>3, <2>4 DEF Commit, Young, Clean
<1>5. CASE MoveArmsDo
  <2>1. NoneAlive("do") /\ NoneAlive("timer") /\ creator = "done"
    BY <1>5 DEF MoveArmsDo, Stopped, Young
  <2>2. Ours' /\ NoneAlive("timer")'
    BY <1>5, <2>1, StartDo DEF MoveArmsDo
  <2> QED
    BY <1>5, <2>1, <2>2 DEF MoveArmsDo, Stopped, Young, Clean
<1>6. CASE MoveArmsTimers
  <2>1. NoneAlive("timer") /\ creator = "done"
    BY <1>6 DEF MoveArmsTimers, Stopped, Young
  <2>2. Ours'
    BY <1>6, <2>1, StartTimer DEF MoveArmsTimers
  <2> QED
    BY <1>6, <2>1, <2>2 DEF MoveArmsTimers, Stopped, Young, Clean
<1> QED
  BY <1>1, <1>2, <1>3, <1>4, <1>5, <1>6 DEF ActorStep

\* Its creator, and its clients.
LEMMA CreatorKeepsGuarded ==
  ASSUME ~IsChild, Typed, Guarded, CreatorStep \/ ClientEvent
  PROVE  Guarded'
<1> USE DEF Guarded
<1>1. CASE CreatorArmsDo
  <2>1. DOMAIN tasks = {} /\ pos = Initial
    BY <1>1 DEF CreatorArmsDo, Young
  <2>2. NoneAlive("do") /\ NoneAlive("timer")
    BY <2>1 DEF NoneAlive
  <2>3. Ours' /\ NoneAlive("timer")'
    BY <1>1, <2>1, <2>2, StartDo DEF CreatorArmsDo
  <2>4. \A k \in DOMAIN tasks' : /\ tasks'[k].what = "do"
                                 /\ tasks'[k].stage = "running"
    <3>1. CASE Initial \notin Busy
      BY <1>1, <2>1, <3>1 DEF CreatorArmsDo, startDoActivity
    <3>2. CASE Initial \in Busy
      <4>1. tasks' = Started("do", Initial)
        BY <1>1, <3>2 DEF CreatorArmsDo, startDoActivity
      <4>2. Adds("do", Initial)
        BY <4>1, Starting, PlacesAssumption DEF Typed
      <4> QED
        BY <2>1, <4>2 DEF Adds
    <3> QED BY <3>1, <3>2
  <2> QED
    BY <1>1, <2>3, <2>4 DEF CreatorArmsDo, Stopped, Young, Clean
<1>2. CASE CreatorArmsTimers
  <2>1. NoneAlive("timer") /\ pos = Initial
    BY <1>2 DEF CreatorArmsTimers, Young, NoneAlive
  <2>2. Ours'
    BY <1>2, <2>1, StartTimer DEF CreatorArmsTimers
  <2> QED
    BY <1>2, <2>2 DEF CreatorArmsTimers, Stopped, Young, Clean
<1>3. CASE ClientEvent
  <2>1. creator = "done" /\ UNCHANGED <<pos, tasks, doReg, timerReg, dying>>
    BY <1>3 DEF ClientEvent
  <2> QED
    BY <1>3, <2>1, Undisturbed DEF ClientEvent, Stopped, Young, Clean
<1> QED BY <1>1, <1>2, <1>3 DEF CreatorStep

\* Those who stop it late, or for good.
LEMMA StoppersKeepGuarded ==
  ASSUME Typed, Guarded,
         \/ ReaperStep
         \/ ShutdownStopsTimers \/ ShutdownStopsDo \/ ShutdownEnds
  PROVE  Guarded'
<1> USE DEF Guarded
<1>1. CASE ReaperReturns \/ ShutdownEnds
  <2>1. UNCHANGED <<pos, tasks, doReg, timerReg, dying, actor, creator, inbox>>
    BY <1>1 DEF ReaperReturns, ShutdownEnds
  <2>2. Ours' /\ Stopped'
    BY <2>1, Undisturbed DEF Stopped
  <2> QED
    BY <1>1, <2>1, <2>2 DEF ReaperReturns, ShutdownEnds, Young, Clean
<1>2. CASE ReaperStopsDo \/ ReaperStopsTimers
  <2>1. /\ "reaper" \in Stoppers /\ dying["reaper"] = {}
        /\ creator = "done" /\ UNCHANGED <<tasks, pos, actor, creator, shutdown>>
    BY <1>2 DEF ReaperStopsDo, ReaperStopsTimers, Clean, Young, Stoppers
  <2>2. Ours' /\ \A what : NoneAlive(what) => NoneAlive(what)'
    BY <1>2, <2>1, TakingOut DEF ReaperStopsDo, ReaperStopsTimers
  <2>3. dying'["shutdown"] = dying["shutdown"]
    BY <1>2 DEF Typed, ReaperStopsDo, ReaperStopsTimers, TakeDoActivity,
                TakeTimers, Stoppers
  <2> QED
    BY <1>2, <2>1, <2>2, <2>3
       DEF ReaperStopsDo, ReaperStopsTimers, Stopped, Young, Clean
<1>3. CASE ShutdownStopsTimers \/ ShutdownStopsDo
  <2>1. /\ "shutdown" \in Stoppers /\ dying["shutdown"] = {}
        /\ creator = "done" /\ UNCHANGED <<tasks, pos, actor, creator, reaper>>
    BY <1>3 DEF ShutdownStopsTimers, ShutdownStopsDo, Clean, Young, Stoppers
  <2>2. Ours' /\ \A what : NoneAlive(what) => NoneAlive(what)'
    BY <1>3, <2>1, TakingOut DEF ShutdownStopsTimers, ShutdownStopsDo
  <2>3. dying'["reaper"] = dying["reaper"]
    BY <1>3 DEF Typed, ShutdownStopsTimers, ShutdownStopsDo, TakeDoActivity,
                TakeTimers, Stoppers
  <2> QED
    BY <1>3, <2>1, <2>2, <2>3
       DEF ShutdownStopsTimers, ShutdownStopsDo, Stopped, Young, Clean
<1> QED BY <1>1, <1>2, <1>3 DEF ReaperStep

\* What they took out is cancelled.
LEMMA CancelKeepsGuarded ==
  ASSUME Typed, Guarded, NEW who \in Stoppers, CancelTaken(who)
  PROVE  Guarded'
<1> USE DEF Guarded
<1>1. /\ Keeps
      /\ \A k \in DOMAIN tasks : k \in dying[who] => tasks'[k].stage # "running"
  BY Cancelling DEF Typed, CancelTaken
<1>2. \A o \in Stoppers : o # who => dying'[o] = dying[o]
  BY DEF Typed, CancelTaken
<1>3. \A k \in DOMAIN tasks : Alive(k)' => Alive(k)
  BY <1>1, <1>2 DEF Alive, Keeps
<1>4. Ours' /\ \A what : NoneAlive(what) => NoneAlive(what)'
  BY <1>1, <1>3, FewerRun DEF CancelTaken
<1>5. creator = "done"
  BY DEF CancelTaken, Young, Clean, Stoppers
<1>6. Clean'
  <2>1. dying'[who] = {}
    BY DEF Typed, CancelTaken
  <2> QED
    BY <1>2, <2>1 DEF Clean, CancelTaken, Stoppers
<1> QED
  BY <1>4, <1>5, <1>6 DEF CancelTaken, Stopped, Young

\* The tasks themselves.
LEMMA TaskKeepsGuarded ==
  ASSUME Typed, Guarded, NEW k \in DOMAIN tasks, TaskStep(k)
  PROVE  Guarded'
<1> USE DEF Guarded
<1>1. Keeps
  BY Stepping DEF Typed
<1>2. UNCHANGED <<pos, doReg, timerReg, dying, actor, creator, reaper, shutdown>>
  BY DEF TaskStep, DoActivityEnds, DelayElapses, TimerFires, TimerYields
<1>3. \A m \in DOMAIN tasks : Alive(m)' => Alive(m)
  BY <1>1, <1>2 DEF Alive, Keeps
<1>4. Ours' /\ Stopped'
  BY <1>1, <1>2, <1>3, FewerRun DEF Stopped
<1>5. Young'
  <2>1. CASE creator = "done"
    BY <1>2, <2>1 DEF Young
  <2>2. CASE creator # "done"
    <3>1. DoActivityEnds(k)
      BY <2>2 DEF Young, TaskStep, DelayElapses, TimerFires, TimerYields
    <3>2. \A m \in DOMAIN tasks : tasks'[m].stage \in {tasks[m].stage, "over"}
      BY <3>1 DEF DoActivityEnds
    <3> QED
      BY <1>1, <1>2, <2>2, <3>1, <3>2 DEF Young, Keeps, DoActivityEnds
  <2> QED BY <2>1, <2>2
<1> QED
  BY <1>2, <1>4, <1>5 DEF Clean

\* Every step.
LEMMA GuardedStep ==
  ASSUME ~IsChild, Typed, Guarded, [Next]_vars
  PROVE  Guarded'
<1>1. CASE UNCHANGED vars
  BY <1>1, Undisturbed DEF vars, Guarded, Stopped, Young, Clean
<1> QED
  BY <1>1, ActorKeepsGuarded, CreatorKeepsGuarded, StoppersKeepGuarded,
     CancelKeepsGuarded, TaskKeepsGuarded DEF Next

LEMMA GuardedAlways ==
  ASSUME ~IsChild
  PROVE  Spec => [](Typed /\ Guarded)
<1>1. Typed /\ Guarded /\ [Next]_vars => Typed' /\ Guarded'
  BY TypedStep, GuardedStep
<1> QED
  BY <1>1, TypedAtFirst, GuardedAtFirst, PTL DEF Spec

\* timers.go, doactivity.go: whatever runs for an instance can be cancelled, as
\* the registries lose no running task to the reaper's and Shutdown's stops.
THEOREM NothingLost ==
  ASSUME ~IsChild
  PROVE  Spec => []NothingLeaks
<1>1. Typed /\ Guarded => NothingLeaks
  <2> SUFFICES ASSUME Typed, Guarded PROVE NothingLeaks
    OBVIOUS
  <2>1. \A k \in DOMAIN tasks : tasks[k] \in Task
    BY ElementOfSeq, LenProperties DEF Typed
  <2> QED
    BY <2>1 DEF Guarded, Ours, NothingLeaks, Task
<1> QED
  BY <1>1, GuardedAlways, PTL

\* armStateActivities: what runs, runs for the state that the database holds.
THEOREM RunsHere ==
  ASSUME ~IsChild
  PROVE  Spec => []RunsForCurrentState
<1>1. Guarded => RunsForCurrentState
  BY DEF Guarded, Ours, RunsForCurrentState
<1> QED
  BY <1>1, GuardedAlways, PTL

\* ...and once: a state has neither two do-activities at work nor two timers.
THEOREM RunsOnce ==
  ASSUME ~IsChild
  PROVE  Spec => []OneOfEach
<1>1. Typed /\ Guarded => OneOfEach
  <2> SUFFICES ASSUME Typed, Guarded PROVE OneOfEach
    OBVIOUS
  <2>1. \A k \in DOMAIN tasks : tasks[k] \in Task
    BY ElementOfSeq, LenProperties DEF Typed
  <2> QED
    BY <2>1 DEF Guarded, Ours, OneOfEach, Task
<1> QED
  BY <1>1, GuardedAlways, PTL
=============================================================================
