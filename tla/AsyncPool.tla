------------------------------ MODULE AsyncPool ------------------------------
(* The bounded worker pool of model/asyncpool.go, which runs the actions   *)
(* that are not waited for.  A job is submitted at most once at a time; it *)
(* may be submitted again when it is over.  How a job ends does not matter *)
(* to the pool: an error is logged, and the client's timeout ends it.      *)
EXTENDS Integers, Sequences, FiniteSets

CONSTANTS
  Jobs,       \* what is submitted
  Workers,    \* BROKR_ASYNC_WORKERS, at least one
  QueueSize,  \* BROKR_ASYNC_QUEUE, at least one
  Idle        \* the hand of a worker that waits for a job

ASSUME PoolAssumption ==
  /\ QueueSize \in Nat \ {0}
  /\ Workers # {}
  /\ Idle \notin Jobs

VARIABLES
  stage,      \* [Jobs -> how far submit and the job have come]
  jobs,       \* the channel
  hand,       \* [Workers -> Jobs \cup {Idle}]
  wg          \* the WaitGroup of the pool

poolVars == <<stage, jobs, hand, wg>>

JobStages == {"none", "counted", "queued", "running", "ended"}

PoolInit ==
  /\ stage = [j \in Jobs |-> "none"]
  /\ jobs = <<>>
  /\ hand = [w \in Workers |-> Idle]
  /\ wg = 0

\* Mutant: the job counts itself once it is in the queue.
CountLate(j) ==
  /\ stage[j] = "none"
  /\ stage' = [stage EXCEPT ![j] = "counted"]
  /\ UNCHANGED <<jobs, hand, wg>>

\* submit counts the job before it has a place in the queue.
Count(j) ==
  /\ stage[j] = "none"
  /\ stage' = [stage EXCEPT ![j] = "counted"]
  /\ wg' = wg + 1
  /\ UNCHANGED <<jobs, hand>>

\* The submitter, and the event it works for, wait while the queue is full.
Enqueue(j) ==
  /\ stage[j] = "counted"
  /\ Len(jobs) < QueueSize
  /\ stage' = [stage EXCEPT ![j] = "queued"]
  /\ jobs' = Append(jobs, j)
  /\ UNCHANGED <<hand, wg>>

Take(w) ==
  /\ hand[w] = Idle
  /\ jobs # <<>>
  /\ hand' = [hand EXCEPT ![w] = Head(jobs)]
  /\ stage' = [stage EXCEPT ![Head(jobs)] = "running"]
  /\ jobs' = Tail(jobs)
  /\ UNCHANGED wg

RunJob(w) ==
  /\ hand[w] # Idle
  /\ stage[hand[w]] = "running"
  /\ stage' = [stage EXCEPT ![hand[w]] = "ended"]
  /\ UNCHANGED <<jobs, hand, wg>>

\* Mutant: the worker does not report a job that has ended.
FinishUncounted(w) ==
  /\ hand[w] # Idle
  /\ stage[hand[w]] = "ended"
  /\ stage' = [stage EXCEPT ![hand[w]] = "none"]
  /\ hand' = [hand EXCEPT ![w] = Idle]
  /\ UNCHANGED <<jobs, wg>>

\* Mutant: the goroutine of the worker ends with its first job.
FinishOnce(w) ==
  /\ hand[w] # Idle
  /\ stage[hand[w]] = "ended"
  /\ stage' = [stage EXCEPT ![hand[w]] = "none"]
  /\ wg' = wg - 1
  /\ UNCHANGED <<jobs, hand>>

\* wg.Done, and the worker is free.
Finish(w) ==
  /\ hand[w] # Idle
  /\ stage[hand[w]] = "ended"
  /\ stage' = [stage EXCEPT ![hand[w]] = "none"]
  /\ hand' = [hand EXCEPT ![w] = Idle]
  /\ wg' = wg - 1
  /\ UNCHANGED jobs

WorkerStep(w) == Take(w) \/ RunJob(w) \/ Finish(w)

\* What DrainAsyncPool waits for.
Drained == wg = 0

-----------------------------------------------------------------------------
Unfinished == {j \in Jobs : stage[j] # "none"}

PoolTypeOK ==
  /\ stage \in [Jobs -> JobStages]
  /\ jobs \in Seq(Jobs)
  /\ hand \in [Workers -> Jobs \cup {Idle}]
  /\ wg \in Nat

\* asyncpool.go: the WaitGroup counts the submitted jobs that have not ended,
\* those that still wait for a place in the queue included: it never goes
\* negative, and is 0 only if there is no such job.
PoolCounterIsExact == wg = Cardinality(Unfinished)
=============================================================================
