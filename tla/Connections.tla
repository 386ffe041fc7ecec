----------------------------- MODULE Connections -----------------------------
(* Who holds a connection of the host's database pool, and who waits for one *)
(* while holding one: processEvent's transaction takes a connection, the     *)
(* join gate (children.go:157) and the inserts of a fork or of a create-     *)
(* child action (children.go:35, :90) take others on store.DB() until the    *)
(* transaction goes on.  Every other query takes one and holds none.         *)
(*   - database/sql gives a freed connection to any of those that wait.      *)
(*   - It rolls a transaction back, and frees its connection, as soon as the *)
(*     context it was begun with is cancelled.                               *)
EXTENDS Integers, FiniteSets

CONSTANTS
  Actors,     \* instances whose events are processed at once
  Nested,     \* those with forks, joins or create-child actions
  Sync,       \* those whose caller can give up: Dispatch with a request's context
  Readers,    \* goroutines with queries outside of any transaction
  MaxOpenConns, \* SetMaxOpenConns of the host's pool
  Width       \* the largest number of children inserted by one transition

ASSUME ConnectionsAssumption ==
  /\ IsFiniteSet(Actors) /\ IsFiniteSet(Readers)
  /\ Nested \subseteq Actors /\ Sync \subseteq Actors
  /\ MaxOpenConns \in Nat \ {0} /\ Width \in Nat \ {0}

Regions == 1..Width
Steps == {"idle", "begin", "open", "gate", "fork"}

VARIABLES
  step,     \* [Actors -> where processEvent is]
  tx,       \* the actors whose transaction holds a connection
  todo,     \* [Actors -> [Regions -> statements that a region has left]]
  busy,     \* the regions <<a, r>> whose statement holds a connection
  reading,  \* the readers whose query holds a connection
  gone      \* the actors whose caller has given up

vars == <<step, tx, todo, busy, reading, gone>>

InUse == Cardinality(tx) + Cardinality(busy) + Cardinality(reading)
Free == InUse < MaxOpenConns

Init ==
  /\ step = [a \in Actors |-> "idle"]
  /\ tx = {} /\ busy = {} /\ reading = {} /\ gone = {}
  /\ todo = [a \in Actors |-> [r \in Regions |-> 0]]

-----------------------------------------------------------------------------
Receive(a) ==
  /\ step[a] = "idle"
  /\ step' = [step EXCEPT ![a] = "begin"]
  /\ gone' = gone \ {a}
  /\ UNCHANGED <<tx, todo, busy, reading>>

BeginTx(a) ==
  /\ step[a] = "begin" /\ a \notin gone
  /\ Free
  /\ step' = [step EXCEPT ![a] = "open"]
  /\ tx' = tx \cup {a}
  /\ UNCHANGED <<todo, busy, reading, gone>>

BeginGivesUp(a) ==
  /\ step[a] = "begin" /\ a \in gone
  /\ step' = [step EXCEPT ![a] = "idle"]
  /\ UNCHANGED <<tx, todo, busy, reading, gone>>

\* Mutant: any event may ask for a second connection.
GateAny(a) ==
  /\ step[a] = "open"
  /\ step' = [step EXCEPT ![a] = "gate"]
  /\ todo' = [todo EXCEPT ![a][1] = 1]
  /\ UNCHANGED <<tx, busy, reading, gone>>

\* allChildrenComplete counts outside of the transaction.
Gate(a) ==
  /\ a \in Nested /\ step[a] = "open"
  /\ step' = [step EXCEPT ![a] = "gate"]
  /\ todo' = [todo EXCEPT ![a][1] = 1]
  /\ UNCHANGED <<tx, busy, reading, gone>>

\* One goroutine for each of k children: it reads the parent, then inserts.
Fork(a, k) ==
  /\ a \in Nested /\ step[a] = "open"
  /\ step' = [step EXCEPT ![a] = "fork"]
  /\ todo' = [todo EXCEPT ![a] = [r \in Regions |-> IF r <= k THEN 2 ELSE 0]]
  /\ UNCHANGED <<tx, busy, reading, gone>>

Acquire(a, r) ==
  /\ todo[a][r] > 0 /\ <<a, r>> \notin busy
  /\ Free
  /\ busy' = busy \cup {<<a, r>>}
  /\ UNCHANGED <<step, tx, todo, reading, gone>>

\* A statement succeeds, or fails and is the region's last.
StatementEnds(a, r, left) ==
  /\ <<a, r>> \in busy
  /\ left \in {0, todo[a][r] - 1}
  /\ busy' = busy \ {<<a, r>>}
  /\ todo' = [todo EXCEPT ![a][r] = left]
  /\ UNCHANGED <<step, tx, reading, gone>>

\* Mutant: the fork goes on when one of its regions is over.
ResumeEarly(a) ==
  /\ step[a] \in {"gate", "fork"}
  /\ \E r \in Regions : todo[a][r] = 0
  /\ step' = [step EXCEPT ![a] = "open"]
  /\ UNCHANGED <<tx, todo, busy, reading, gone>>

\* g.Wait returns when every region is over, whether it failed or not.
Resume(a) ==
  /\ step[a] \in {"gate", "fork"}
  /\ \A r \in Regions : todo[a][r] = 0
  /\ step' = [step EXCEPT ![a] = "open"]
  /\ UNCHANGED <<tx, todo, busy, reading, gone>>

\* Commit, or rollback after an error.
EndTx(a) ==
  /\ step[a] = "open"
  /\ step' = [step EXCEPT ![a] = "idle"]
  /\ tx' = tx \ {a}
  /\ UNCHANGED <<todo, busy, reading, gone>>

\* Mutant: a cancelled context stops the transaction and not what is waited for.
CancelHolding(a) ==
  /\ a \in Sync /\ step[a] # "idle" /\ a \notin gone
  /\ gone' = gone \cup {a}
  /\ step' = [step EXCEPT ![a] = "idle"]
  /\ UNCHANGED <<tx, todo, busy, reading>>

\* The caller gives up.  The connection is free at once; processEvent finds out
\* at its next query with that context.
Cancel(a) ==
  /\ a \in Sync /\ step[a] # "idle" /\ a \notin gone
  /\ gone' = gone \cup {a}
  /\ tx' = tx \ {a}
  /\ UNCHANGED <<step, todo, busy, reading>>

\* The gate's count has the caller's context, the inserts have none.
GateGivesUp(a) ==
  /\ step[a] = "gate" /\ a \in gone
  /\ todo' = [todo EXCEPT ![a] = [r \in Regions |-> 0]]
  /\ busy' = busy \ ({a} \X Regions)
  /\ step' = [step EXCEPT ![a] = "open"]
  /\ UNCHANGED <<tx, reading, gone>>

-----------------------------------------------------------------------------
Query(u) ==
  /\ u \notin reading
  /\ Free
  /\ reading' = reading \cup {u}
  /\ UNCHANGED <<step, tx, todo, busy, gone>>

QueryEnds(u) ==
  /\ u \in reading
  /\ reading' = reading \ {u}
  /\ UNCHANGED <<step, tx, todo, busy, gone>>

-----------------------------------------------------------------------------
StatementStep(a, r) == \/ Acquire(a, r)
                       \/ \E left \in {0, 1} : StatementEnds(a, r, left)

ActorStep(a) ==
  \/ Receive(a) \/ BeginTx(a) \/ BeginGivesUp(a) \/ Gate(a)
  \/ (\E k \in Regions : Fork(a, k)) \/ Resume(a) \/ EndTx(a)
  \/ Cancel(a) \/ GateGivesUp(a) \/ (\E r \in Regions : StatementStep(a, r))

ReaderStep(u) == Query(u) \/ QueryEnds(u)

Next == (\E a \in Actors : ActorStep(a)) \/ (\E u \in Readers : ReaderStep(u))

\* Queries end (or fail), and whoever waits for a connection again and again
\* finds one given to him: database/sql picks at random among those that wait.
\* An event forks a bounded number of times (the hop limit of its chain).
Fairness ==
  /\ \A a \in Actors :
       /\ WF_vars(BeginGivesUp(a)) /\ WF_vars(Resume(a))
       /\ SF_vars(BeginTx(a)) /\ SF_vars(EndTx(a))
       /\ \A r \in Regions :
            /\ SF_vars(Acquire(a, r))
            /\ WF_vars(\E left \in {0, 1} : StatementEnds(a, r, left))
  /\ \A u \in Readers : WF_vars(QueryEnds(u))

Spec == Init /\ [][Next]_vars
FairSpec == Spec /\ Fairness

-----------------------------------------------------------------------------
(* Properties.                                                             *)

\* The pool is never exceeded, a transaction is open for at most one event of
\* an actor, and a statement runs for a region that has something left to do.
TypeOK ==
  /\ step \in [Actors -> Steps]
  /\ tx \subseteq {a \in Actors : step[a] \in {"open", "gate", "fork"}}
  /\ todo \in [Actors -> [Regions -> 0..2]]
  /\ busy \subseteq Actors \X Regions
  /\ \A a \in Actors, r \in Regions : <<a, r>> \in busy => todo[a][r] > 0
  /\ reading \subseteq Readers
  /\ gone \subseteq Actors
  /\ InUse <= MaxOpenConns

\* A pool with more connections than there are instances that fork, join or
\* create children at once never has all of them waiting for one another: if no
\* connection is free, one is held by somebody who does not wait for another.
NeverStuck ==
  Cardinality(Nested) < MaxOpenConns =>
    \/ Free
    \/ busy # {} \/ reading # {}
    \/ \E a \in tx : step[a] = "open"

\* children.go:107: a fork waits for all of its inserts, failed or not, and a
\* cancelled event gives its connection back: none outlives its event.
NothingOutlivesEvent ==
  \A a \in Actors : step[a] \in {"idle", "begin"} =>
    a \notin tx /\ \A r \in Regions : <<a, r>> \notin busy /\ todo[a][r] = 0

\* In such a pool every event ends: neither queries of others nor the inserts
\* of forks can keep it waiting for a connection for ever.
EventsEnd ==
  Cardinality(Nested) < MaxOpenConns =>
    \A a \in Actors : step[a] = "begin" ~> step[a] = "idle"
=============================================================================
