------------------------------ MODULE Lifecycle ------------------------------
(* Boot and Shutdown of brokr.go with the work they start and wait for: the *)
(* events that the dispatcher counts (inflight), the jobs of the async pool *)
(* and the goroutines that nobody counts.                                  *)
(*   - An event is one step from its acceptance to its processing and one   *)
(*     to its end: Dispatcher shows that inflight counts it meanwhile.      *)
(*   - An event submits at most one job; the job bears the event's name.    *)
(*   - The handle of an engine is the engine.                               *)
EXTENDS AsyncPool

CONSTANTS
  Engines,     \* values of type *Brokr in the process
  Calls,       \* events sent by clients
  TimerEvents, \* events sent by deferred transitions
  DoActs,      \* do-activities
  None         \* no engine, no handle

\* Dispatched work is counted in inflight, a do-activity is not.
Events == Calls \cup TimerEvents

ASSUME LifecycleAssumption ==
  /\ None \notin Engines
  /\ Jobs = Calls \cup TimerEvents \cup DoActs
  /\ Calls \cap (TimerEvents \cup DoActs) = {}

VARIABLES
  live,        \* the booted engine
  handle,      \* store.db
  booting,     \* the engine whose Boot holds bootMu
  phase,       \* [Engines -> where its host is with it]
  drain,       \* [Engines -> the goroutine that its Shutdown waits for]
  owner,       \* [Calls -> the engine that last served it]
  work,        \* [Jobs -> how far it has come]
  armed        \* timers and do-activities that may still act

mainVars == <<live, handle, booting, phase, drain>>
workVars == <<owner, work, armed>>
vars == <<mainVars, workVars, poolVars>>

Phases == {"down", "booting", "up", "stopping", "draining", "late"}
WorkStages == {"none", "accepted", "running", "submitting"}
DrainStages == {"none", "events", "jobs", "done"}

Init ==
  /\ live = None
  /\ handle = None
  /\ booting = None
  /\ phase = [b \in Engines |-> "down"]
  /\ drain = [b \in Engines |-> "none"]
  /\ owner = [w \in Calls |-> None]
  /\ work = [w \in Jobs |-> "none"]
  /\ armed = {}
  /\ PoolInit

-----------------------------------------------------------------------------
(* Boot, under bootMu.                                                     *)

\* Boot of a booted engine, or next to one, is an error and changes nothing.
BootInstalls(b) ==
  /\ phase[b] \in {"down", "late"}
  /\ booting = None
  /\ live = None
  /\ booting' = b
  /\ handle' = b
  /\ phase' = [phase EXCEPT ![b] = "booting"]
  /\ UNCHANGED <<live, drain, workVars, poolVars>>

BootFails(b) ==
  /\ phase[b] = "booting"
  /\ handle' = None
  /\ booting' = None
  /\ phase' = [phase EXCEPT ![b] = "down"]
  /\ UNCHANGED <<live, drain, workVars, poolVars>>

BootSucceeds(b) ==
  /\ phase[b] = "booting"
  /\ live' = b
  /\ booting' = None
  /\ phase' = [phase EXCEPT ![b] = "up"]
  /\ UNCHANGED <<handle, drain, workVars, poolVars>>

-----------------------------------------------------------------------------
(* Work.                                                                   *)

\* A client's request; the host closes its server before it calls Shutdown.
Accept(w, b) ==
  /\ w \in Calls
  /\ phase[b] = "up"
  /\ work[w] = "none" /\ stage[w] = "none"
  /\ work' = [work EXCEPT ![w] = "accepted"]
  /\ owner' = [owner EXCEPT ![w] = b]
  /\ UNCHANGED <<armed, mainVars, poolVars>>

\* A timer fires, or a do-activity runs: whatever was armed and not stopped,
\* and by whichever engine.
Stir(w) ==
  /\ w \in armed
  /\ work[w] = "none" /\ stage[w] = "none"
  /\ armed' = armed \ {w}
  /\ work' = [work EXCEPT ![w] = IF w \in Events THEN "accepted"
                                                 ELSE "running"]
  /\ UNCHANGED <<owner, mainVars, poolVars>>

Begin(w) ==
  /\ work[w] = "accepted"
  /\ work' = [work EXCEPT ![w] = "running"]
  /\ UNCHANGED <<owner, armed, mainVars, poolVars>>

\* One of its actions is not waited for.
Submit(w) ==
  /\ work[w] = "running"
  /\ work' = [work EXCEPT ![w] = "submitting"]
  /\ Count(w)
  /\ UNCHANGED <<owner, armed, mainVars>>

Submitted(w) ==
  /\ work[w] = "submitting"
  /\ work' = [work EXCEPT ![w] = "running"]
  /\ Enqueue(w)
  /\ UNCHANGED <<owner, armed, mainVars>>

\* The end of an event may arm the timers and do-activities of a new state.
End(w, arms) ==
  /\ work[w] = "running"
  /\ arms \subseteq TimerEvents \cup DoActs
  /\ w \in DoActs => arms = {}
  /\ armed' = armed \cup arms
  /\ work' = [work EXCEPT ![w] = "none"]
  /\ UNCHANGED <<owner, mainVars, poolVars>>

PoolStep(w) ==
  /\ WorkerStep(w)
  /\ UNCHANGED <<mainVars, workVars>>

-----------------------------------------------------------------------------
(* Shutdown.                                                               *)

\* Mutant: the engine stays the booted one until it has been drained.
ShutdownBeginsLive(b) ==
  /\ phase[b] = "up"
  /\ live = b
  /\ booting = None
  /\ phase' = [phase EXCEPT ![b] = "stopping"]
  /\ UNCHANGED <<live, handle, booting, drain, workVars, poolVars>>

ShutdownBegins(b) ==
  /\ phase[b] = "up"
  /\ live = b
  /\ booting = None
  /\ live' = None
  /\ phase' = [phase EXCEPT ![b] = "stopping"]
  /\ UNCHANGED <<handle, booting, drain, workVars, poolVars>>

\* StopAllTimers, StopAllDoActivities, and the goroutine that drains (a second
\* one, if an earlier Shutdown of b left one behind, which nobody reads).  A
\* timer whose delay is over, or a do-activity under way, may still act.
StopsBackground(b) ==
  /\ phase[b] = "stopping"
  /\ armed' \in SUBSET armed
  /\ phase' = [phase EXCEPT ![b] = "draining"]
  /\ drain' = [drain EXCEPT ![b] = "events"]
  /\ UNCHANGED <<live, handle, booting, owner, work, poolVars>>

\* Mutant: the pool is drained first.
EventsDrainedUnseen(b) ==
  /\ drain[b] = "events"
  /\ drain' = [drain EXCEPT ![b] = "jobs"]
  /\ UNCHANGED <<live, handle, booting, phase, workVars, poolVars>>

\* engine.Drain returns.
EventsDrained(b) ==
  /\ drain[b] = "events"
  /\ \A w \in Events : work[w] = "none"
  /\ drain' = [drain EXCEPT ![b] = "jobs"]
  /\ UNCHANGED <<live, handle, booting, phase, workVars, poolVars>>

\* model.DrainAsyncPool returns.
JobsDrained(b) ==
  /\ drain[b] = "jobs"
  /\ Drained
  /\ drain' = [drain EXCEPT ![b] = "done"]
  /\ UNCHANGED <<live, handle, booting, phase, workVars, poolVars>>

ShutdownReturns(b) ==
  /\ phase[b] = "draining"
  /\ drain[b] = "done"
  /\ handle' = None
  /\ phase' = [phase EXCEPT ![b] = "down"]
  /\ drain' = [drain EXCEPT ![b] = "none"]
  /\ UNCHANGED <<live, booting, workVars, poolVars>>

\* Mutant: the handle is removed under the work that still runs.
ShutdownTimesOutCleared(b) ==
  /\ phase[b] = "draining"
  /\ handle' = None
  /\ phase' = [phase EXCEPT ![b] = "late"]
  /\ UNCHANGED <<live, booting, drain, workVars, poolVars>>

\* The deadline: the handle stays, and so does the goroutine that drains.
ShutdownTimesOut(b) ==
  /\ phase[b] = "draining"
  /\ phase' = [phase EXCEPT ![b] = "late"]
  /\ UNCHANGED <<live, handle, booting, drain, workVars, poolVars>>

-----------------------------------------------------------------------------
WorkStep(w) == \/ Stir(w) \/ Begin(w) \/ Submit(w) \/ Submitted(w)
               \/ \E b \in Engines : Accept(w, b)
               \/ \E arms \in SUBSET (TimerEvents \cup DoActs) : End(w, arms)

BootStep(b) == BootInstalls(b) \/ BootFails(b) \/ BootSucceeds(b)

DrainStep(b) == EventsDrained(b) \/ JobsDrained(b)

ShutdownStep(b) == \/ ShutdownBegins(b) \/ StopsBackground(b)
                   \/ ShutdownReturns(b) \/ ShutdownTimesOut(b)

Next == \/ \E b \in Engines : BootStep(b) \/ ShutdownStep(b) \/ DrainStep(b)
        \/ \E w \in Jobs : WorkStep(w)
        \/ \E w \in Workers : PoolStep(w)

Spec == Init /\ [][Next]_vars

\* A host that boots an engine only when every earlier Shutdown has returned
\* without an error.
Orderly == \A b \in Engines :
             BootInstalls(b) => \A c \in Engines : phase[c] = "down"

\* Goroutines that can run do; lists of actions end, jobs too (the client has
\* a timeout), and senders waiting for a place in the queue get it in turn.
\* Nothing makes a client call, a timer fire or a deadline pass.
Fairness ==
  /\ \A w \in Jobs :
       /\ WF_vars(Begin(w)) /\ SF_vars(Submitted(w))
       /\ SF_vars(\E arms \in SUBSET (TimerEvents \cup DoActs) : End(w, arms))
  /\ \A w \in Workers : WF_vars(PoolStep(w))
  /\ \A b \in Engines : /\ WF_vars(StopsBackground(b)) /\ WF_vars(DrainStep(b))
                         /\ WF_vars(ShutdownReturns(b))

OrderlySpec == Init /\ [][Next /\ Orderly]_vars /\ Fairness

-----------------------------------------------------------------------------
(* Properties.                                                             *)

\* The life of the engines, of the handle and of work stays within its sets;
\* the booted engine is the one that is up.
TypeOK ==
  /\ live \in Engines \cup {None} /\ handle \in Engines \cup {None}
  /\ booting \in Engines \cup {None}
  /\ phase \in [Engines -> Phases] /\ drain \in [Engines -> DrainStages]
  /\ owner \in [Calls -> Engines \cup {None}]
  /\ work \in [Jobs -> WorkStages] /\ armed \subseteq TimerEvents \cup DoActs
  /\ PoolTypeOK
  /\ \A b \in Engines : phase[b] = "up" <=> live = b

\* Shutdown removes the handle, and times out without removing it, so that a
\* client's event finds the database it was accepted for until it has ended.
CallsKeepHandle ==
  \A w \in Calls : work[w] # "none" => handle = owner[w]

\* A Shutdown that returns nil has waited for every event a client had sent
\* and for every job such an event had submitted, although events go on
\* submitting jobs while they are drained.
CleanShutdownIsQuiet ==
  [][\A b \in Engines : ShutdownReturns(b) =>
       \A w \in Calls : owner[w] = b => work[w] = "none" /\ stage[w] = "none"
    ]_vars

\* A full queue holds up submitters, not for ever: every event ends, and every
\* job that was submitted is run.
WorkEnds == \A w \in Jobs :
              /\ (work[w] = "accepted" ~> work[w] = "none")
              /\ (stage[w] = "counted" ~> stage[w] = "none")

\* Without a deadline Shutdown returns, unless timers and do-activities that
\* were armed during the drain keep it going for ever.
ShutdownEnds ==
  \/ []<><<\E w \in Jobs : Stir(w)>>_vars
  \/ \A b \in Engines : phase[b] = "draining" ~> phase[b] # "draining"

-----------------------------------------------------------------------------
\* brokr.go: "The guard turns that constraint into an error instead of one
\* engine silently replacing another's database handle" (Shutdown lets another
\* engine boot before it has drained, and then removes that one's handle).
BootedEngineKeepsItsHandle == live # None => handle = live
=============================================================================
