------------------------------ MODULE ForkJoin ------------------------------
(***************************************************************************)
(* What fork and join promise the author of a workflow, with no event,     *)
(* transaction or goroutine in sight: a fork gathers children of a new     *)
(* generation; the parent waits for a generation once all its children are *)
(* there, and no child joins them afterwards; it stops waiting for them    *)
(* after it has seen every one of them done, completed or withdrawn, or to *)
(* wait for those of a later fork.  A child that was seen done may be open *)
(* again by then: nothing holds it.  A fork that is given up leaves its    *)
(* children behind, and nothing ever waits for them.                       *)
(***************************************************************************)
EXTENDS Naturals, Sequences, FiniteSets

CONSTANT Sizes      \* how many children the forks of the workflow have

VARIABLES waiting,    \* the generation waited for, or 0
          gathering,  \* the generation of the fork in progress, or 0
          seen,       \* the generation waited for has been seen done
          kids        \* Seq of children; generation 0 is of no fork

vars == <<waiting, gathering, seen, kids>>

Cohort(g) == {k \in DOMAIN kids : kids[k].gen = g}

\* A generation that has never had a child, and is not waited for.
Fresh(g) == g \in Nat \ {0} /\ Cohort(g) = {} /\ g # waiting

Init == waiting = 0 /\ gathering = 0 /\ seen = FALSE /\ kids = <<>>

Fork == /\ Fresh(gathering')
        /\ seen' \in {FALSE, seen}
        /\ UNCHANGED <<waiting, kids>>

\* The fork in progress, the join in progress or both come to nothing.
GiveUp == /\ gathering' \in {0, gathering}
          /\ seen' \in {FALSE, seen}
          /\ UNCHANGED <<waiting, kids>>

\* A child that starts in one of its end states is done from the start.
Create(gen) == /\ \E open \in BOOLEAN :
                    kids' = Append(kids, [gen |-> gen, open |-> open])
               /\ UNCHANGED <<waiting, gathering, seen>>

\* A child completes or is withdrawn, or is open again.
Turn(k) == /\ kids' = [kids EXCEPT ![k].open = ~@]
           /\ UNCHANGED <<waiting, gathering, seen>>

Wait == /\ gathering # 0
        /\ Cardinality(Cohort(gathering)) \in Sizes
        /\ waiting' = gathering
        /\ gathering' = 0
        /\ seen' = FALSE
        /\ UNCHANGED kids

See == /\ waiting # 0
       /\ \A k \in Cohort(waiting) : ~kids[k].open
       /\ seen' = TRUE
       /\ UNCHANGED <<waiting, gathering, kids>>

Join == /\ seen
        /\ gathering = 0
        /\ waiting' = 0
        /\ seen' = FALSE
        /\ UNCHANGED <<gathering, kids>>

Next == \/ Fork \/ GiveUp \/ Wait \/ See \/ Join
        \/ \E gen \in {0, gathering} : Create(gen)
        \/ \E k \in DOMAIN kids : Turn(k)

Spec == Init /\ [][Next]_vars
=============================================================================
