--------------------------- MODULE Lifecycle_proofs ---------------------------
(***************************************************************************)
(* Safety of Boot, Shutdown and the async pool, for any number of engines, *)
(* events, do-activities and workers and any size of the queue.            *)
(*   - PoolInv and Booted are inductive for every host (Spec).             *)
(*   - Served is so for hosts that boot an engine only when the earlier    *)
(*     ones have been shut down (Orderly).                                 *)
(***************************************************************************)
EXTENDS Lifecycle, FiniteSetTheorems, TLAPS

-----------------------------------------------------------------------------
(* The pool.                                                               *)

\* Who is in the queue waits there, and is there once.
Waiting ==
  /\ \A i \in 1 .. Len(jobs) : stage[jobs[i]] = "queued"
  /\ \A i, k \in 1 .. Len(jobs) : jobs[i] = jobs[k] => i = k

PoolInv ==
  /\ PoolTypeOK
  /\ Waiting
  /\ IsFiniteSet(Unfinished)
  /\ PoolCounterIsExact

\* The pool starts empty.
LEMMA PoolStarts == PoolInit => PoolInv
<1> SUFFICES ASSUME PoolInit PROVE PoolInv
  OBVIOUS
<1>1. Unfinished = {}
  BY DEF PoolInit, Unfinished
<1>2. IsFiniteSet(Unfinished) /\ Cardinality(Unfinished) = 0
  BY <1>1, FS_EmptySet
<1> QED
  BY <1>2 DEF PoolInit, PoolInv, PoolTypeOK, Waiting, PoolCounterIsExact,
              JobStages

\* A submitter counts its job.
LEMMA CountKeepsPool ==
  ASSUME PoolInv, NEW j \in Jobs, Count(j)
  PROVE  PoolInv'
<1>1. Unfinished' = Unfinished \cup {j} /\ j \notin Unfinished
  BY DEF PoolInv, PoolTypeOK, Count, Unfinished
<1>2. /\ IsFiniteSet(Unfinished')
      /\ Cardinality(Unfinished') = Cardinality(Unfinished) + 1
  BY <1>1, FS_AddElement DEF PoolInv
<1>3. PoolTypeOK'
  BY DEF PoolInv, PoolTypeOK, Count, JobStages
<1>4. Waiting'
  BY DEF PoolInv, PoolTypeOK, Waiting, Count
<1> QED
  BY <1>2, <1>3, <1>4 DEF PoolInv, PoolCounterIsExact, Count

\* A job gets a place in the queue.
LEMMA EnqueueKeepsPool ==
  ASSUME PoolInv, NEW j \in Jobs, Enqueue(j)
  PROVE  PoolInv'
<1> USE DEF PoolInv, PoolTypeOK, Enqueue
<1>1. Unfinished' = Unfinished
  BY DEF Unfinished
<1>2. PoolTypeOK'
  BY DEF JobStages
<1>3. /\ Len(jobs') = Len(jobs) + 1 /\ jobs'[Len(jobs) + 1] = j
      /\ \A i \in 1 .. Len(jobs) : jobs'[i] = jobs[i] /\ jobs[i] \in Jobs
  OBVIOUS
<1>4. \A i \in 1 .. Len(jobs) : jobs[i] # j
  BY DEF Waiting
<1>5. \A i \in 1 .. Len(jobs') : i = Len(jobs) + 1 \/ i \in 1 .. Len(jobs)
  BY <1>3
<1>6. Waiting'
  BY <1>3, <1>4, <1>5 DEF Waiting
<1> QED
  BY <1>1, <1>2, <1>6 DEF PoolCounterIsExact

\* A worker takes, runs and finishes a job.
LEMMA WorkerKeepsPool ==
  ASSUME PoolInv, NEW w \in Workers, WorkerStep(w)
  PROVE  PoolInv'
<1>1. CASE Take(w)
  <2> USE <1>1 DEF PoolInv, PoolTypeOK, Take
  <2>1. /\ Len(jobs) > 0 /\ Head(jobs) = jobs[1] /\ jobs[1] \in Jobs
        /\ jobs' \in Seq(Jobs) /\ Len(jobs') = Len(jobs) - 1
        /\ \A i \in 1 .. Len(jobs') : /\ jobs'[i] = jobs[i + 1]
                                      /\ jobs[i + 1] \in Jobs
    OBVIOUS
  <2>2. stage[jobs[1]] = "queued"
    BY <2>1 DEF Waiting
  <2>3. Unfinished' = Unfinished
    BY <2>1, <2>2 DEF Unfinished
  <2>4. PoolTypeOK'
    BY <2>1 DEF JobStages
  <2>5. \A i \in 1 .. Len(jobs') : jobs[i + 1] # jobs[1]
    BY <2>1 DEF Waiting
  <2>6. Waiting'
    BY <2>1, <2>5 DEF Waiting
  <2> QED
    BY <2>3, <2>4, <2>6 DEF PoolCounterIsExact
<1>2. CASE RunJob(w)
  <2> USE <1>2 DEF PoolInv, PoolTypeOK, RunJob
  <2>1. hand[w] \in Jobs
    OBVIOUS
  <2>2. Unfinished' = Unfinished
    BY <2>1 DEF Unfinished
  <2>3. PoolTypeOK'
    BY DEF JobStages
  <2>4. Waiting'
    BY <2>1 DEF Waiting
  <2> QED
    BY <2>2, <2>3, <2>4 DEF PoolCounterIsExact
<1>3. CASE Finish(w)
  <2> USE <1>3 DEF PoolInv, PoolTypeOK, Finish
  <2>1. hand[w] \in Jobs /\ hand[w] \in Unfinished
    BY DEF Unfinished
  <2>2. Unfinished' = Unfinished \ {hand[w]}
    BY <2>1 DEF Unfinished
  <2>3. /\ IsFiniteSet(Unfinished')
        /\ Cardinality(Unfinished') = Cardinality(Unfinished) - 1
    BY <2>1, <2>2, FS_RemoveElement
  <2>4. Cardinality(Unfinished') \in Nat
    BY <2>3, FS_CardinalityType
  <2>5. PoolCounterIsExact'
    BY <2>3 DEF PoolCounterIsExact
  <2>6. PoolTypeOK'
    BY <2>4, <2>5 DEF JobStages, PoolCounterIsExact
  <2>7. Waiting'
    BY <2>1 DEF Waiting
  <2> QED
    BY <2>3, <2>5, <2>6, <2>7
<1> QED
  BY <1>1, <1>2, <1>3 DEF WorkerStep

\* Whatever else happens leaves the pool alone.
LEMMA OthersKeepPool ==
  ASSUME PoolInv, UNCHANGED poolVars
  PROVE  PoolInv'
BY DEF PoolInv, PoolTypeOK, Waiting, Unfinished, PoolCounterIsExact, poolVars

\* Every step of the process keeps the pool in order.
LEMMA PoolIsKept ==
  ASSUME PoolInv, [Next]_vars
  PROVE  PoolInv'
<1>1. ASSUME NEW b \in Engines, BootStep(b) \/ ShutdownStep(b) \/ DrainStep(b)
      PROVE  UNCHANGED poolVars
  BY <1>1 DEF BootStep, BootInstalls, BootFails, BootSucceeds, ShutdownStep,
              ShutdownBegins, StopsBackground, ShutdownReturns,
              ShutdownTimesOut, DrainStep, EventsDrained, JobsDrained
<1>2. ASSUME NEW w \in Jobs, WorkStep(w)
      PROVE  Count(w) \/ Enqueue(w) \/ UNCHANGED poolVars
  BY <1>2 DEF WorkStep, Stir, Begin, Submit, Submitted, Accept, End
<1>3. UNCHANGED vars => UNCHANGED poolVars
  BY DEF vars
<1> QED
  BY <1>1, <1>2, <1>3, CountKeepsPool, EnqueueKeepsPool, WorkerKeepsPool,
     OthersKeepPool DEF Next, PoolStep

\* asyncpool.go: under any interleaving of submitters, workers, boots and
\* shutdowns the WaitGroup counts exactly the unfinished jobs.
THEOREM PoolCounts == Spec => []PoolCounterIsExact
<1>1. Init => PoolInv
  BY PoolStarts DEF Init
<1>2. PoolInv /\ [Next]_vars => PoolInv'
  BY PoolIsKept
<1>3. PoolInv => PoolCounterIsExact
  BY DEF PoolInv
<1> QED
  BY <1>1, <1>2, <1>3, PTL DEF Spec

-----------------------------------------------------------------------------
(* The engines, whatever the host does.                                    *)

\* The type invariant without the pool's.
EnginesTyped ==
  /\ live \in Engines \cup {None} /\ handle \in Engines \cup {None}
  /\ booting \in Engines \cup {None}
  /\ phase \in [Engines -> Phases] /\ drain \in [Engines -> DrainStages]
  /\ owner \in [Calls -> Engines \cup {None}]
  /\ work \in [Jobs -> WorkStages] /\ armed \subseteq TimerEvents \cup DoActs

\* The engine that is up is the booted one; while an engine boots no other one
\* does, and none is up (bootMu).
Booted ==
  /\ EnginesTyped
  /\ \A b \in Engines : phase[b] = "up" <=> live = b
  /\ \A b \in Engines : phase[b] = "booting" <=> booting = b
  /\ booting # None => live = None

\* Nothing is booted at first.
LEMMA BootedAtFirst == Init => Booted
BY LifecycleAssumption
   DEF Init, Booted, EnginesTyped, Phases, WorkStages, DrainStages

\* Steps of work and of the pool do not concern the engines.
LEMMA WorkKeepsBooted ==
  ASSUME Booted, NEW w \in Jobs, WorkStep(w)
  PROVE  Booted'
<1>1. UNCHANGED mainVars
  BY DEF WorkStep, Stir, Begin, Submit, Submitted, Accept, End
<1>2. /\ work' \in [Jobs -> WorkStages] /\ armed' \subseteq TimerEvents \cup DoActs
      /\ owner' \in [Calls -> Engines \cup {None}]
  BY DEF Booted, EnginesTyped, WorkStages, WorkStep, Stir, Begin, Submit,
         Submitted, Accept, End
<1> QED
  BY <1>1, <1>2 DEF Booted, EnginesTyped, mainVars

\* Boot, Shutdown and the drain keep the engines in order.
LEMMA HostKeepsBooted ==
  ASSUME Booted, NEW b \in Engines,
         BootStep(b) \/ ShutdownStep(b) \/ DrainStep(b)
  PROVE  Booted'
<1> USE LifecycleAssumption DEF Booted, EnginesTyped
<1>1. CASE BootInstalls(b)
  BY <1>1 DEF BootInstalls, Phases, workVars
<1>2. CASE BootFails(b)
  BY <1>2 DEF BootFails, Phases, workVars
<1>3. CASE BootSucceeds(b)
  BY <1>3 DEF BootSucceeds, Phases, workVars
<1>4. CASE ShutdownBegins(b)
  BY <1>4 DEF ShutdownBegins, Phases, workVars
<1>5. CASE StopsBackground(b)
  BY <1>5 DEF StopsBackground, Phases, DrainStages
<1>6. CASE ShutdownReturns(b)
  BY <1>6 DEF ShutdownReturns, Phases, DrainStages, workVars
<1>7. CASE ShutdownTimesOut(b)
  BY <1>7 DEF ShutdownTimesOut, Phases, workVars
<1>8. CASE DrainStep(b)
  BY <1>8 DEF DrainStep, EventsDrained, JobsDrained, DrainStages, workVars
<1> QED
  BY <1>1, <1>2, <1>3, <1>4, <1>5, <1>6, <1>7, <1>8
     DEF BootStep, ShutdownStep

\* Every step keeps the engines in order.
LEMMA BootedIsKept ==
  ASSUME Booted, [Next]_vars
  PROVE  Booted'
<1>1. CASE UNCHANGED <<mainVars, workVars>>
  BY <1>1 DEF Booted, EnginesTyped, mainVars, workVars
<1> QED
  BY <1>1, WorkKeepsBooted, HostKeepsBooted DEF Next, PoolStep, vars

\* brokr.go: the state of engines and of work stays in its sets, and the
\* booted engine is the one that is up, however hosts boot and shut down.
THEOREM TypeCorrect == Spec => []TypeOK
<1>1. Init => PoolInv /\ Booted
  BY PoolStarts, BootedAtFirst DEF Init
<1>2. PoolInv /\ Booted /\ [Next]_vars => PoolInv' /\ Booted'
  BY PoolIsKept, BootedIsKept
<1>3. PoolInv /\ Booted => TypeOK
  BY DEF PoolInv, Booted, EnginesTyped, TypeOK
<1> QED
  BY <1>1, <1>2, <1>3, PTL DEF Spec

-----------------------------------------------------------------------------
(* Hosts that shut an engine down before they boot another one.            *)

\* One engine at a time, whose handle is installed from its boot to its clean
\* end; a client's event belongs to it, and is over once its drain has seen
\* that, with its job once the drain has seen that too.
Served ==
  /\ \A b, c \in Engines : phase[b] # "down" /\ phase[c] # "down" => b = c
  /\ \A b \in Engines : phase[b] # "down" => handle = b
  /\ \A b \in Engines : drain[b] # "none" => phase[b] \in {"draining", "late"}
  /\ \A w \in Calls : work[w] # "none" =>
       owner[w] \in Engines /\ phase[owner[w]] \notin {"down", "booting"}
  /\ \A b \in Engines : drain[b] \in {"jobs", "done"} =>
       \A w \in Calls : work[w] = "none"
  /\ \A b \in Engines : drain[b] = "done" =>
       \A w \in Calls : stage[w] = "none"

\* A host's first engine is the only one.
LEMMA ServedAtFirst == Init => Served
BY LifecycleAssumption DEF Init, Served, PoolInit

\* No goroutine of a client's event runs when the drain has seen them all end:
\* whatever is done for a call, it is not after that.
LEMMA WorkKeepsServed ==
  ASSUME PoolInv, Booted, Served, NEW w \in Jobs, WorkStep(w)
  PROVE  Served'
<1> USE LifecycleAssumption DEF Booted, EnginesTyped, PoolInv, PoolTypeOK
<1>1. ASSUME NEW b \in Engines, Accept(w, b) PROVE Served'
  <2>1. \A c \in Engines : phase[c] # "down" => c = b
    BY <1>1 DEF Accept, Served
  <2>2. \A c \in Engines : drain[c] = "none"
    BY <1>1, <2>1 DEF Accept, Served
  <2> QED
    BY <1>1, <2>2 DEF Accept, Served, mainVars, poolVars
<1>2. CASE Stir(w)
  <2>1. w \notin Calls
    BY <1>2 DEF Stir
  <2> QED
    BY <1>2, <2>1 DEF Stir, Served, mainVars, poolVars
<1>3. CASE Begin(w)
  BY <1>3 DEF Begin, Served, mainVars, poolVars
<1>4. CASE Submit(w)
  BY <1>4 DEF Submit, Count, Served, mainVars
<1>5. CASE Submitted(w)
  BY <1>5 DEF Submitted, Enqueue, Served, mainVars
<1>6. ASSUME NEW arms \in SUBSET (TimerEvents \cup DoActs), End(w, arms)
      PROVE  Served'
  BY <1>6 DEF End, Served, mainVars, poolVars
<1> QED
  BY <1>1, <1>2, <1>3, <1>4, <1>5, <1>6 DEF WorkStep

\* Workers run no job of a call that was seen to have none.
LEMMA PoolKeepsServed ==
  ASSUME PoolInv, Booted, Served, NEW w \in Workers, PoolStep(w)
  PROVE  Served'
<1>1. UNCHANGED <<mainVars, workVars>>
  BY DEF PoolStep
<1>2. ASSUME NEW j \in Calls, stage[j] = "none" PROVE stage'[j] = "none"
  <2>1. jobs # <<>> => Head(jobs) = jobs[1] /\ stage[Head(jobs)] = "queued"
    BY DEF PoolInv, PoolTypeOK, Waiting
  <2>2. stage' = stage \/ (\E k : stage[k] # "none" /\
                             \E v : stage' = [stage EXCEPT ![k] = v])
    BY <2>1 DEF PoolStep, WorkerStep, Take, RunJob, Finish
  <2> QED
    BY <1>2, <2>2, LifecycleAssumption DEF PoolInv, PoolTypeOK
<1> QED
  BY <1>1, <1>2 DEF Served, mainVars, workVars

\* What a host that is orderly may do to its engines.
LEMMA HostKeepsServed ==
  ASSUME PoolInv, Booted, Served, Orderly, NEW b \in Engines,
         BootStep(b) \/ ShutdownStep(b) \/ DrainStep(b)
  PROVE  Served'
<1> USE LifecycleAssumption DEF Booted, EnginesTyped, Served
<1>1. CASE BootInstalls(b)
  <2>1. \A c \in Engines : phase[c] = "down"
    BY <1>1 DEF Orderly
  <2> QED
    BY <1>1, <2>1 DEF BootInstalls, workVars, poolVars
<1>2. CASE BootFails(b)
  <2>1. \A w \in Calls : work[w] = "none"
    BY <1>2 DEF BootFails
  <2> QED
    BY <1>2, <2>1 DEF BootFails, workVars, poolVars
<1>3. CASE BootSucceeds(b)
  BY <1>3 DEF BootSucceeds, workVars, poolVars
<1>4. CASE ShutdownBegins(b)
  BY <1>4 DEF ShutdownBegins, workVars, poolVars
<1>5. CASE StopsBackground(b)
  BY <1>5 DEF StopsBackground, poolVars
<1>6. CASE ShutdownReturns(b)
  BY <1>6 DEF ShutdownReturns, workVars, poolVars
<1>7. CASE ShutdownTimesOut(b)
  BY <1>7 DEF ShutdownTimesOut, workVars, poolVars
<1>8. CASE EventsDrained(b)
  BY <1>8 DEF EventsDrained, Events, workVars, poolVars
<1>9. CASE JobsDrained(b)
  <2>1. Unfinished = {}
    BY <1>9, FS_EmptySet
       DEF JobsDrained, Drained, PoolInv, PoolCounterIsExact
  <2>2. \A w \in Calls : stage[w] = "none"
    BY <2>1 DEF Unfinished
  <2> QED
    BY <1>9, <2>2 DEF JobsDrained, workVars, poolVars
<1> QED
  BY <1>1, <1>2, <1>3, <1>4, <1>5, <1>6, <1>7, <1>8, <1>9
     DEF BootStep, ShutdownStep, DrainStep

\* Every orderly step.
LEMMA ServedIsKept ==
  ASSUME PoolInv, Booted, Served, [Next /\ Orderly]_vars
  PROVE  Served'
<1>1. CASE UNCHANGED vars
  BY <1>1 DEF Served, vars, mainVars, workVars, poolVars
<1> QED
  BY <1>1, WorkKeepsServed, PoolKeepsServed, HostKeepsServed DEF Next

\* Under the orderly schedule of the host program the pool counts exactly, a
\* handle is set only by a boot that succeeded, and a served engine is live.
THEOREM OrderlyInvariance == OrderlySpec => [](PoolInv /\ Booted /\ Served)
<1>1. Init => PoolInv /\ Booted /\ Served
  BY PoolStarts, BootedAtFirst, ServedAtFirst DEF Init
<1>2. PoolInv /\ Booted /\ Served /\ [Next /\ Orderly]_vars
        => PoolInv' /\ Booted' /\ Served'
  BY PoolIsKept, BootedIsKept, ServedIsKept
<1> QED
  BY <1>1, <1>2, PTL DEF OrderlySpec

\* brokr.go:152: "Work is still running against the handle, so it stays
\* installed": a client's event has the handle it was accepted with, during its
\* engine's shutdown and after one that timed out.
THEOREM HandleIsKept == OrderlySpec => []CallsKeepHandle
<1>1. Served => CallsKeepHandle
  BY DEF Served, CallsKeepHandle
<1> QED
  BY <1>1, OrderlyInvariance, PTL

\* brokr.go:121: a Shutdown without an error "waits for what is in flight": the
\* events of clients and the jobs they submitted, late ones included.
THEOREM CleanShutdown == OrderlySpec => CleanShutdownIsQuiet
<1> DEFINE Quiet == \A b \in Engines : ShutdownReturns(b) =>
                      \A w \in Calls : owner[w] = b =>
                        work[w] = "none" /\ stage[w] = "none"
<1>1. Served => Quiet
  BY DEF Served, ShutdownReturns
<1> QED
  BY <1>1, OrderlyInvariance, PTL DEF CleanShutdownIsQuiet

\* brokr.go:58: "an error instead of one engine silently replacing another's
\* database handle": a host that boots an engine only after every Shutdown has
\* returned without an error never loses the handle of the booted one (others
\* may: run lifecycle_overlap).
THEOREM HandleOfTheBooted == OrderlySpec => []BootedEngineKeepsItsHandle
<1>1. Booted /\ Served => BootedEngineKeepsItsHandle
  BY LifecycleAssumption
     DEF Booted, EnginesTyped, Served, BootedEngineKeepsItsHandle
<1> QED
  BY <1>1, OrderlyInvariance, PTL
=============================================================================
