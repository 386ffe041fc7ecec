--------------------------- MODULE InstanceQueues ---------------------------
(***************************************************************************)
(* What the dispatcher promises its callers, with no actor, mailbox buffer *)
(* or counter in sight: every workflow instance owns one FIFO queue of     *)
(* accepted commands and runs them one at a time; a command runs at most   *)
(* once; a synchronous caller is told the outcome of its own command, or   *)
(* that its context was cancelled; a caller cancelled before its command   *)
(* was accepted is certain that the command never runs.                    *)
(***************************************************************************)
EXTENDS Sequences

CONSTANTS Instances,     \* workflow instance ids
          Requests,      \* commands ever sent, one per call
          SyncCalls,     \* the commands sent with Dispatch
          None           \* no command

VARIABLES queue,         \* [Instances -> Seq(Requests)], accepted commands
          running,       \* [Instances -> Requests \cup {None}]
          outcome,       \* [Requests -> {"none", "ok", "err"}]
          answer         \* [Requests -> what the caller was told]

vars == <<queue, running, outcome, answer>>

Outcomes == {"ok", "err"}

Queued(i) == {queue[i][k] : k \in DOMAIN queue[i]}

Known(r) == \/ \E i \in Instances : r \in Queued(i) \/ running[i] = r
            \/ outcome[r] # "none"

Init == /\ queue = [i \in Instances |-> <<>>]
        /\ running = [i \in Instances |-> None]
        /\ outcome = [r \in Requests |-> "none"]
        /\ answer = [r \in Requests |-> "none"]

Accept(r, i) ==
  /\ ~Known(r)
  /\ answer[r] = "none"
  /\ queue' = [queue EXCEPT ![i] = Append(@, r)]
  /\ answer' = IF r \in SyncCalls THEN answer
               ELSE [answer EXCEPT ![r] = "accepted"]
  /\ UNCHANGED <<running, outcome>>

Begin(i) ==
  /\ queue[i] # <<>>
  /\ running[i] = None
  /\ running' = [running EXCEPT ![i] = Head(queue[i])]
  /\ queue' = [queue EXCEPT ![i] = Tail(@)]
  /\ UNCHANGED <<outcome, answer>>

Finish(i) ==
  /\ running[i] # None
  /\ \E o \in Outcomes : outcome' = [outcome EXCEPT ![running[i]] = o]
  /\ running' = [running EXCEPT ![i] = None]
  /\ UNCHANGED <<queue, answer>>

Answer(r) ==
  /\ r \in SyncCalls
  /\ answer[r] = "none"
  /\ outcome[r] # "none"
  /\ answer' = [answer EXCEPT ![r] = outcome[r]]
  /\ UNCHANGED <<queue, running, outcome>>

Cancel(r) ==
  /\ r \in SyncCalls
  /\ answer[r] = "none"
  /\ answer' = [answer EXCEPT ![r] = "cancelled"]
  /\ UNCHANGED <<queue, running, outcome>>

Next == \/ \E r \in Requests : Answer(r) \/ Cancel(r)
        \/ \E r \in Requests, i \in Instances : Accept(r, i)
        \/ \E i \in Instances : Begin(i) \/ Finish(i)

SafeSpec == Init /\ [][Next]_vars

Fairness == /\ \A i \in Instances : WF_vars(Begin(i)) /\ WF_vars(Finish(i))
            /\ \A r \in Requests : WF_vars(Answer(r))

Spec == SafeSpec /\ Fairness
=============================================================================
