------------------------- MODULE Dispatcher_proofs -------------------------
(***************************************************************************)
(* Proofs about Dispatcher for every set of instances, callers and actors. *)
(***************************************************************************)
EXTENDS Dispatcher, FiniteSetTheorems, TLAPS

\* TypeOK but for the sign of the counters, which only the counting shows.
Typing ==
  /\ actors \in [Instances -> Actors \cup {None}]
  /\ status \in [Actors -> Statuses]
  /\ owner \in [Actors -> Instances \cup {None}]
  /\ mailbox \in [Actors -> Seq(Requests)]
  /\ pending \in [Actors -> Int]
  /\ serving \in [Actors -> Requests \cup {None}]
  /\ pc \in [Requests -> Stages]
  /\ dest \in [Requests -> Instances \cup {None}]
  /\ target \in [Requests -> Actors \cup {None}]
  /\ cancelled \subseteq SyncCalls
  /\ outcome \in [Requests -> Outcomes \cup {"none"}]
  /\ reply \in [Requests -> Outcomes \cup {"none"}]
  /\ answer \in [Requests -> Outcomes \cup {"none", "cancelled", "accepted"}]
  /\ inflight \in Int
  /\ drain \in Drains

Busy == {"processing", "processed", "replied", "settled"}
Delivered == {"waiting", "finishing", "done"}

\* The map entries and the live actors are each other's inverse.
Registered ==
  /\ \A i \in Instances :
       actors[i] # None => Live(actors[i]) /\ owner[actors[i]] = i
  /\ \A a \in Actors :
       Live(a) => owner[a] \in Instances /\ actors[owner[a]] = a

Senders ==
  \A r \in Requests :
    /\ pc[r] = "called" => dest[r] \in Instances
    /\ pc[r] \in {"sending", "backout"} => target[r] \in Actors /\ Live(target[r])
    /\ pc[r] = "waiting" => r \in SyncCalls
    /\ pc[r] \in {"spawned", "finishing"} => r \in AutoJoins

Mailboxes ==
  \A a \in Actors :
    /\ ~Live(a) => mailbox[a] = <<>>
    /\ \A r \in Queued(a) : target[r] = a /\ pc[r] \in Delivered
    /\ \A k, l \in DOMAIN mailbox[a] : mailbox[a][k] = mailbox[a][l] => k = l

Hands ==
  \A a \in Actors :
    /\ status[a] \in Busy <=> serving[a] # None
    /\ serving[a] # None => /\ target[serving[a]] = a
                            /\ pc[serving[a]] \in Delivered
                            /\ serving[a] \notin Queued(a)

Counts == \A a \in Actors : /\ IsFiniteSet(Outstanding(a))
                            /\ pending[a] = Cardinality(Outstanding(a))

Shape == Registered /\ Senders /\ Mailboxes /\ Hands

IInv == Typing /\ Shape /\ Counts

InflightCounts == /\ IsFiniteSet(Counted)
                  /\ IsFiniteSet(Joining)
                  /\ inflight = Cardinality(Counted) + Cardinality(Joining)

\* Once the server has closed no client sends, and once Drain has been let go
\* no client's command is left.
DrainInv ==
  /\ drain # "serving" => \A r \in Clients : pc[r] \in {"idle", "done"}
  /\ LetGo => Clients \cap Counted = {}

-----------------------------------------------------------------------------
(* Sequences.                                                              *)

\* Appending a message adds it to the messages of a mailbox.
LEMMA AppendElements ==
  ASSUME NEW S, NEW s \in Seq(S), NEW e \in S
  PROVE  {Append(s, e)[k] : k \in DOMAIN Append(s, e)}
           = {s[k] : k \in DOMAIN s} \cup {e}
<1> DEFINE t == Append(s, e)
<1>1. DOMAIN t = DOMAIN s \cup {Len(s) + 1}
  OBVIOUS
<1>2. \A k \in DOMAIN s : t[k] = s[k]
  OBVIOUS
<1>3. t[Len(s) + 1] = e
  OBVIOUS
<1> QED  BY <1>1, <1>2, <1>3, Zenon

\* Receiving from a mailbox without duplicates removes its head only.
LEMMA TailElements ==
  ASSUME NEW S, NEW s \in Seq(S), s # <<>>,
         \A k, l \in DOMAIN s : s[k] = s[l] => k = l
  PROVE  /\ Head(s) \in {s[k] : k \in DOMAIN s}
         /\ {Tail(s)[k] : k \in DOMAIN Tail(s)}
              = {s[k] : k \in DOMAIN s} \ {Head(s)}
         /\ \A k, l \in DOMAIN Tail(s) : Tail(s)[k] = Tail(s)[l] => k = l
<1> DEFINE t == Tail(s)
<1>1. Len(s) \in Nat \ {0} /\ DOMAIN s = 1 .. Len(s) /\ Head(s) = s[1]
  OBVIOUS
<1>2. DOMAIN t = 1 .. (Len(s) - 1) /\ \A k \in DOMAIN t : t[k] = s[k + 1]
  OBVIOUS
<1>3. Head(s) \in {s[k] : k \in DOMAIN s}
  BY <1>1
<1>4. \A k, l \in DOMAIN t : t[k] = t[l] => k = l
  BY <1>1, <1>2
<1>5. ASSUME NEW k \in DOMAIN t
      PROVE  t[k] \in {s[j] : j \in DOMAIN s} \ {Head(s)}
  BY <1>1, <1>2
<1>6. ASSUME NEW j \in DOMAIN s, s[j] # Head(s)
      PROVE  s[j] \in {t[k] : k \in DOMAIN t}
  <2>1. j - 1 \in DOMAIN t /\ t[j - 1] = s[j]
    BY <1>1, <1>2, <1>6
  <2> QED  BY <2>1
<1> QED  BY <1>3, <1>4, <1>5, <1>6
-----------------------------------------------------------------------------
(* Typing and Shape.                                                       *)

\* A fresh incarnation exists whenever SpawnActor is enabled.
LEMMA NewActorUnborn ==
  ASSUME \E a \in Actors : status[a] = "unborn"
  PROVE  NewActor \in Actors /\ status[NewActor] = "unborn"
  BY DEF NewActor

\* A command starts at most one auto-join goroutine.
LEMMA NewJoinsSmall ==
  ASSUME NEW joins \in NewJoins
  PROVE  /\ joins = {} \/ \E j \in AutoJoins : pc[j] = "idle" /\ joins = {j}
         /\ IsFiniteSet(joins)
         /\ Cardinality(joins) \in Nat
         /\ \A j \in joins : j \in AutoJoins /\ pc[j] = "idle"
<1>1. joins = {} \/ \E j \in AutoJoins : pc[j] = "idle" /\ joins = {j}
  BY DEF NewJoins
<1>2. IsFiniteSet(joins)
  BY <1>1, FS_EmptySet, FS_Singleton
<1> QED  BY <1>1, <1>2, FS_CardinalityType

\* No action leaves the declared sets.
LEMMA TypingStep ==
  ASSUME Typing, Senders, Hands, [Next]_vars
  PROVE  Typing'
<1> USE DEF Typing, Statuses, Stages, Outcomes, Drains, actorVars, callVars,
            InflightDone
<1>1. ASSUME NEW r \in Requests, NEW i \in Instances, Call(r, i) PROVE Typing'
  BY <1>1 DEF Call
<1>2. ASSUME NEW r \in Requests, NEW i \in Instances, JoinReady(r, i) PROVE Typing'
  BY <1>2 DEF JoinReady
<1>3. ASSUME NEW r \in Requests, SpawnActor(r) PROVE Typing'
  BY <1>3, NewActorUnborn DEF SpawnActor, Senders
<1>4. ASSUME NEW r \in Requests, JoinNotReady(r) PROVE Typing'
  BY <1>4 DEF JoinNotReady
<1>5. ASSUME NEW r \in Requests, CancelContext(r) PROVE Typing'
  BY <1>5 DEF CancelContext
<1>6. ASSUME NEW r \in Requests, FindActor(r) PROVE Typing'
  BY <1>6 DEF FindActor, Senders
<1>7. ASSUME NEW r \in Requests, Send(r) PROVE Typing'
  BY <1>7 DEF Send, Senders, Requests, Clients
<1>8. ASSUME NEW r \in Requests, GiveUp(r) PROVE Typing'
  BY <1>8 DEF GiveUp
<1>9. ASSUME NEW r \in Requests, BackOut(r) PROVE Typing'
  BY <1>9 DEF BackOut, Senders
<1>10. ASSUME NEW r \in Requests, Uncount(r) PROVE Typing'
  BY <1>10 DEF Uncount
<1>11. ASSUME NEW r \in Requests, TakeReply(r) PROVE Typing'
  BY <1>11 DEF TakeReply
<1>12. ASSUME NEW r \in Requests, AbandonReply(r) PROVE Typing'
  BY <1>12 DEF AbandonReply
<1>13. ASSUME NEW r \in Requests, FinishJoin(r) PROVE Typing'
  BY <1>13 DEF FinishJoin
<1>14. ASSUME NEW a \in Actors, Receive(a) PROVE Typing'
  <2>1. Head(mailbox[a]) \in Requests /\ Tail(mailbox[a]) \in Seq(Requests)
    BY <1>14 DEF Receive
  <2> QED  BY <1>14, <2>1 DEF Receive
<1>15. ASSUME NEW a \in Actors, NEW o \in Outcomes, NEW joins \in NewJoins,
              Process(a, o, joins)
       PROVE  Typing'
  <2>1. Cardinality(joins) \in Int
    BY NewJoinsSmall
  <2> QED  BY <1>15, <2>1 DEF Process, NewJoins, Hands, Busy
<1>16. ASSUME NEW a \in Actors, Reply(a) PROVE Typing'
  BY <1>16 DEF Reply, Hands, Busy
<1>17. ASSUME NEW a \in Actors, Settle(a) PROVE Typing'
  BY <1>17 DEF Settle
<1>18. ASSUME NEW a \in Actors, Done(a) PROVE Typing'
  BY <1>18 DEF Done
<1>19. ASSUME NEW a \in Actors, Evict(a) PROVE Typing'
  BY <1>19 DEF Evict
<1>20. ASSUME NEW a \in Actors, Exit(a) PROVE Typing'
  BY <1>20 DEF Exit
<1>21. ASSUME ShutdownStep PROVE Typing'
  BY <1>21 DEF ShutdownStep, CloseServer, Drain, WaitReturns, WaitPanics
<1>22. CASE UNCHANGED vars
  BY <1>22 DEF vars
<1> QED
  BY <1>1, <1>2, <1>3, <1>4, <1>5, <1>6, <1>7, <1>8, <1>9, <1>10, <1>11,
     <1>12, <1>13, <1>14, <1>15, <1>16, <1>17, <1>18, <1>19, <1>20, <1>21,
     <1>22 DEF Next, SenderStep, ActorStep
\* Mailboxes hold requests.
LEMMA QueuedRequests ==
  ASSUME mailbox \in [Actors -> Seq(Requests)], NEW a \in Actors
  PROVE  Queued(a) \subseteq Requests
  BY DEF Queued

\* What sending to a mailbox, and receiving from one, does to its commands.
LEMMA SendQueued ==
  ASSUME NEW r \in Requests, NEW a \in Actors,
         mailbox \in [Actors -> Seq(Requests)],
         mailbox' = [mailbox EXCEPT ![a] = Append(@, r)],
         \A k, l \in DOMAIN mailbox[a] : mailbox[a][k] = mailbox[a][l] => k = l,
         r \notin Queued(a)
  PROVE  /\ Queued(a)' = Queued(a) \cup {r}
         /\ \A b \in Actors \ {a} : /\ mailbox'[b] = mailbox[b]
                                   /\ Queued(b)' = Queued(b)
         /\ \A k, l \in DOMAIN mailbox'[a] : mailbox'[a][k] = mailbox'[a][l] => k = l
<1> DEFINE s == mailbox[a]
<1>1. s \in Seq(Requests) /\ mailbox'[a] = Append(s, r)
  OBVIOUS
<1>2. {Append(s, r)[k] : k \in DOMAIN Append(s, r)}
        = {s[k] : k \in DOMAIN s} \cup {r}
  <2>1. s \in Seq(Requests) /\ r \in Requests
    BY <1>1
  <2> HIDE DEF s
  <2> QED  BY ONLY <2>1, AppendElements, SMTT(30)
<1>3. Queued(a)' = Queued(a) \cup {r}
  BY <1>1, <1>2, Zenon DEF Queued
<1>4. \A b \in Actors \ {a} : mailbox'[b] = mailbox[b]
  OBVIOUS
<1>5. \A b \in Actors \ {a} : Queued(b)' = Queued(b)
  BY <1>4 DEF Queued
<1>6. \A k \in DOMAIN mailbox[a] : mailbox[a][k] # r
  BY DEF Queued
<1>7. \A k, l \in DOMAIN mailbox'[a] : mailbox'[a][k] = mailbox'[a][l] => k = l
  BY <1>1, <1>6
<1> QED  BY <1>3, <1>4, <1>5, <1>7

\* Receiving moves the head of the mailbox out of its commands.
LEMMA ReceiveQueued ==
  ASSUME NEW a \in Actors,
         mailbox \in [Actors -> Seq(Requests)], mailbox[a] # <<>>,
         mailbox' = [mailbox EXCEPT ![a] = Tail(@)],
         \A k, l \in DOMAIN mailbox[a] : mailbox[a][k] = mailbox[a][l] => k = l
  PROVE  /\ Head(mailbox[a]) \in Queued(a) \cap Requests
         /\ Queued(a)' = Queued(a) \ {Head(mailbox[a])}
         /\ \A b \in Actors \ {a} : /\ mailbox'[b] = mailbox[b]
                                   /\ Queued(b)' = Queued(b)
         /\ \A k, l \in DOMAIN mailbox'[a] : mailbox'[a][k] = mailbox'[a][l] => k = l
<1> DEFINE s == mailbox[a]
<1>1. s \in Seq(Requests) /\ mailbox'[a] = Tail(s) /\ Head(s) \in Requests
  OBVIOUS
<1>2. /\ Head(s) \in {s[k] : k \in DOMAIN s}
      /\ {Tail(s)[k] : k \in DOMAIN Tail(s)}
           = {s[k] : k \in DOMAIN s} \ {Head(s)}
      /\ \A k, l \in DOMAIN Tail(s) : Tail(s)[k] = Tail(s)[l] => k = l
  <2> HIDE DEF s
  <2>1. \A k, l \in DOMAIN s : s[k] = s[l] => k = l
    BY DEF s
  <2>2. s # <<>>
    BY DEF s
  <2> QED  BY <1>1, <2>1, <2>2, TailElements
<1>3. \A b \in Actors \ {a} : mailbox'[b] = mailbox[b]
  OBVIOUS
<1>4. \A b \in Actors \ {a} : Queued(b)' = Queued(b)
  BY <1>3 DEF Queued
<1>5. Head(s) \in Queued(a) /\ Queued(a)' = Queued(a) \ {Head(s)}
  <2>1. Queued(a) = {s[k] : k \in DOMAIN s}
    BY DEF Queued
  <2>2. Queued(a)' = {Tail(s)[k] : k \in DOMAIN Tail(s)}
    <3> HIDE DEF s
    <3> QED  BY <1>1 DEF Queued
  <2> HIDE DEF s
  <2> QED  BY <1>2, <2>1, <2>2
<1>6. \A k, l \in DOMAIN mailbox'[a] : mailbox'[a][k] = mailbox'[a][l] => k = l
  BY <1>1, <1>2, Zenon
<1> QED  BY <1>1, <1>3, <1>4, <1>5, <1>6

\* No action breaks the correspondence between the shard maps, the actors,
\* their mailboxes and the senders.
LEMMA ShapeStep ==
  ASSUME Typing, Shape, Counts, [Next]_vars
  PROVE  Shape'
<1> USE DEF Typing, Stages, Statuses, Shape, Registered, Senders, Mailboxes,
            Hands, Live, Busy, Delivered, actorVars, callVars, InflightDone
<1>1. ASSUME NEW r \in Requests, NEW i \in Instances, Call(r, i) PROVE Shape'
  BY <1>1 DEF Call, Queued
<1>2. ASSUME NEW r \in Requests, NEW i \in Instances, JoinReady(r, i) PROVE Shape'
  BY <1>2 DEF JoinReady, Queued
<1>3. ASSUME NEW r \in Requests, SpawnActor(r) PROVE Shape'
  <2> DEFINE n == NewActor
  <2>1. n \in Actors /\ status[n] = "unborn" /\ dest[r] \in Instances
    BY <1>3, NewActorUnborn DEF SpawnActor
  <2>2. /\ actors' = [actors EXCEPT ![dest[r]] = n]
        /\ status' = [status EXCEPT ![n] = "idle"]
        /\ owner' = [owner EXCEPT ![n] = dest[r]]
        /\ target' = [target EXCEPT ![r] = n]
        /\ pc' = [pc EXCEPT ![r] = "sending"]
        /\ pc[r] = "called" /\ actors[dest[r]] = None
        /\ UNCHANGED <<mailbox, serving, dest>>
    BY <1>3 DEF SpawnActor
  <2> HIDE DEF n
  <2>3. Registered'
    BY <2>1, <2>2, NoneAssumption
  <2>4. Senders'
    BY <2>1, <2>2
  <2>5. Mailboxes'
    BY <2>1, <2>2 DEF Queued
  <2>6. Hands'
    BY <2>1, <2>2 DEF Queued
  <2> QED  BY <2>3, <2>4, <2>5, <2>6
<1>4. ASSUME NEW r \in Requests, JoinNotReady(r) PROVE Shape'
  BY <1>4 DEF JoinNotReady, Queued
<1>5. ASSUME NEW r \in Requests, CancelContext(r) PROVE Shape'
  BY <1>5 DEF CancelContext, Queued
<1>6. ASSUME NEW r \in Requests, FindActor(r) PROVE Shape'
  BY <1>6 DEF FindActor, Queued
<1>7. ASSUME NEW r \in Requests, Send(r) PROVE Shape'
  <2>0. PICK a \in Actors : a = target[r]
    BY <1>7 DEF Send
  <2>1. /\ Live(a) /\ mailbox[a] \in Seq(Requests)
        /\ pc[r] = "sending"
        /\ mailbox' = [mailbox EXCEPT ![a] = Append(@, r)]
        /\ \A q \in Requests \ {r} : pc'[q] = pc[q]
        /\ UNCHANGED <<actors, status, owner, serving, target, dest>>
    BY <1>7, <2>0 DEF Send
  <2>2. /\ pc'[r] \in Delivered
        /\ pc'[r] = "waiting" => r \in SyncCalls
        /\ pc'[r] = "finishing" => r \in AutoJoins
    BY <1>7, KindsAssumption DEF Send, Requests, Clients
  <2>3. \A b \in Actors : r \notin Queued(b) /\ serving[b] # r
    <3>1. ASSUME NEW b \in Actors, r \in Queued(b) PROVE FALSE
      BY <2>1, <3>1
    <3>2. ASSUME NEW b \in Actors, serving[b] = r PROVE FALSE
      <4>1. serving[b] # None
        BY <3>2, NoneAssumption
      <4>2. pc[serving[b]] \in Delivered
        BY <4>1
      <4> QED  BY <2>1, <3>2, <4>2
    <3> QED  BY <3>1, <3>2
  <2>4. /\ Queued(a)' = Queued(a) \cup {r}
        /\ \A b \in Actors \ {a} : /\ mailbox'[b] = mailbox[b]
                                  /\ Queued(b)' = Queued(b)
        /\ \A k, l \in DOMAIN mailbox'[a] : mailbox'[a][k] = mailbox'[a][l] => k = l
    BY <2>1, <2>3, SendQueued
  <2>5. Registered'
    BY <2>1
  <2>6. Senders'
    BY <2>1, <2>2
  <2>7. Mailboxes'
    <3>1. ASSUME NEW b \in Actors, ~Live(b)' PROVE mailbox'[b] = <<>>
      BY <2>1, <3>1
    <3>2. ASSUME NEW b \in Actors, NEW q \in Queued(b)'
          PROVE  target'[q] = b /\ pc'[q] \in Delivered
      <4>1. CASE q = r
        BY <2>0, <2>1, <2>2, <2>3, <2>4, <3>2, <4>1
      <4>2. CASE q # r
        <5>0. Queued(b) \subseteq Requests
          BY QueuedRequests
        <5>1. q \in Queued(b) /\ q \in Requests
          BY ONLY <2>4, <3>2, <4>2, <5>0
        <5>2. target[q] = b /\ pc[q] \in Delivered
          BY <5>1
        <5> QED  BY <2>1, <4>2, <5>1, <5>2
      <4> QED  BY <4>1, <4>2
    <3>3. ASSUME NEW b \in Actors
          PROVE  \A k, l \in DOMAIN mailbox'[b] :
                   mailbox'[b][k] = mailbox'[b][l] => k = l
      <4>1. CASE b = a
        BY <2>4, <4>1
      <4>2. CASE b # a
        <5>1. mailbox'[b] = mailbox[b]
          BY <2>4, <4>2
        <5>2. \A k, l \in DOMAIN mailbox[b] :
                mailbox[b][k] = mailbox[b][l] => k = l
          BY DEF Shape, Mailboxes
        <5> QED  BY <5>1, <5>2
      <4> QED  BY <4>1, <4>2
    <3> QED  BY <3>1, <3>2, <3>3
  <2>8. Hands'
    <3>1. ASSUME NEW b \in Actors, serving[b] # None
          PROVE  /\ target'[serving[b]] = b
                 /\ pc'[serving[b]] \in Delivered
                 /\ serving[b] \notin Queued(b)'
      <4>1. /\ serving[b] \in Requests \ {r} /\ target[serving[b]] = b
            /\ pc[serving[b]] \in Delivered /\ serving[b] \notin Queued(b)
        BY <2>3, <3>1
      <4>2. serving[b] \notin Queued(b)'
        BY <2>4, <4>1
      <4> QED  BY <2>1, <4>1, <4>2
    <3> QED  BY <2>1, <3>1
  <2> QED  BY <2>5, <2>6, <2>7, <2>8
<1>8. ASSUME NEW r \in Requests, GiveUp(r) PROVE Shape'
  BY <1>8 DEF GiveUp, Queued
<1>9. ASSUME NEW r \in Requests, BackOut(r) PROVE Shape'
  BY <1>9 DEF BackOut, Queued
<1>10. ASSUME NEW r \in Requests, Uncount(r) PROVE Shape'
  BY <1>10 DEF Uncount, Queued
<1>11. ASSUME NEW r \in Requests, TakeReply(r) PROVE Shape'
  BY <1>11 DEF TakeReply, Queued
<1>12. ASSUME NEW r \in Requests, AbandonReply(r) PROVE Shape'
  BY <1>12 DEF AbandonReply, Queued
<1>13. ASSUME NEW r \in Requests, FinishJoin(r) PROVE Shape'
  BY <1>13 DEF FinishJoin, Queued
<1>14. ASSUME NEW a \in Actors, Receive(a) PROVE Shape'
  <2> DEFINE m == Head(mailbox[a])
  <2>1. /\ m \in Queued(a) /\ m \in Requests /\ Queued(a)' = Queued(a) \ {m}
        /\ \A k, l \in DOMAIN mailbox'[a] : mailbox'[a][k] = mailbox'[a][l] => k = l
    BY <1>14, ReceiveQueued DEF Receive
  <2>2. \A b \in Actors \ {a} : mailbox'[b] = mailbox[b] /\ Queued(b)' = Queued(b)
    BY <1>14, ReceiveQueued DEF Receive
  <2>3. /\ status[a] = "idle"
        /\ serving' = [serving EXCEPT ![a] = m]
        /\ status' = [status EXCEPT ![a] = "processing"]
        /\ UNCHANGED <<actors, owner, target, pc, dest>>
    BY <1>14 DEF Receive
  <2> HIDE DEF m
  <2>4. Registered' /\ Senders'
    BY <2>3
  <2>5. Mailboxes'
    BY <2>1, <2>2, <2>3
  <2>6. Hands'
    BY <2>1, <2>2, <2>3, NoneAssumption
  <2> QED  BY <2>4, <2>5, <2>6
<1>15. ASSUME NEW a \in Actors, NEW o \in Outcomes, NEW joins \in NewJoins, Process(a, o, joins) PROVE Shape'
  <2>1. \A j \in joins : j \in AutoJoins /\ pc[j] = "idle"
    BY NewJoinsSmall
  <2>2. /\ status[a] = "processing"
        /\ status' = [status EXCEPT ![a] = "processed"]
        /\ pc' = [r \in Requests |-> IF r \in joins THEN "spawned" ELSE pc[r]]
        /\ UNCHANGED <<actors, owner, mailbox, serving, target, dest>>
    BY <1>15 DEF Process
  <2>3. Registered' /\ Senders'
    BY <2>1, <2>2
  <2>4. Mailboxes'
    BY <2>1, <2>2 DEF Queued
  <2>5. Hands'
    BY <2>1, <2>2 DEF Queued
  <2> QED  BY <2>3, <2>4, <2>5
<1>16. ASSUME NEW a \in Actors, Reply(a) PROVE Shape'
  BY <1>16 DEF Reply, Queued
<1>17. ASSUME NEW a \in Actors, Settle(a) PROVE Shape'
  BY <1>17 DEF Settle, Queued
<1>18. ASSUME NEW a \in Actors, Done(a) PROVE Shape'
  BY <1>18 DEF Done, Queued
<1>19. ASSUME NEW a \in Actors, Evict(a) PROVE Shape'
  <2>1. Outstanding(a) = {}
    BY <1>19, FS_EmptySet DEF Evict, Counts
  <2>2. mailbox[a] = <<>>
    <3>1. Queued(a) \subseteq Outstanding(a)
      BY QueuedRequests DEF Outstanding
    <3>2. mailbox[a] # <<>> => mailbox[a][1] \in Queued(a)
      BY DEF Queued
    <3> QED  BY <2>1, <3>1, <3>2
  <2>3. \A r \in Requests : pc[r] \in {"sending", "backout"} => target[r] # a
    BY <2>1 DEF Outstanding
  <2>4. /\ status[a] = "idle"
        /\ actors' = [actors EXCEPT ![owner[a]] = None]
        /\ status' = [status EXCEPT ![a] = "evicted"]
        /\ UNCHANGED <<owner, mailbox, serving, pc, target, dest>>
    BY <1>19 DEF Evict
  <2>5. Registered'
    <3>1. owner[a] \in Instances /\ actors[owner[a]] = a
      BY <2>4
    <3>2. \A b \in Actors : b # a /\ Live(b) => owner[b] # owner[a]
      BY <3>1
    <3>3. \A i \in Instances : i # owner[a] => actors[i] # a
      BY <3>1, NoneAssumption
    <3> QED  BY <2>4, <3>1, <3>2, <3>3
  <2>6. Senders'
    BY <2>3, <2>4
  <2>7. Mailboxes' /\ Hands'
    BY <2>2, <2>4 DEF Queued
  <2> QED  BY <2>5, <2>6, <2>7
<1>20. ASSUME NEW a \in Actors, Exit(a) PROVE Shape'
  BY <1>20 DEF Exit, Queued
<1>21. ASSUME ShutdownStep PROVE Shape'
  BY <1>21 DEF ShutdownStep, CloseServer, Drain, WaitReturns, WaitPanics, Queued
<1>22. CASE UNCHANGED vars
  BY <1>22 DEF vars, Queued
<1> QED
  BY <1>1, <1>2, <1>3, <1>4, <1>5, <1>6, <1>7, <1>8, <1>9, <1>10, <1>11,
     <1>12, <1>13, <1>14, <1>15, <1>16, <1>17, <1>18, <1>19, <1>20, <1>21,
     <1>22 DEF Next, SenderStep, ActorStep
-----------------------------------------------------------------------------
(* pending counts the outstanding commands.                                *)

\* A counter that stays, as the set it counts does, stays exact.
LEMMA CountSame ==
  ASSUME Counts, pending' = pending,
         \A a \in Actors : Outstanding(a)' = Outstanding(a)
  PROVE  Counts'
  BY DEF Counts

\* A counter raised with the set it counts stays exact.
LEMMA CountUp ==
  ASSUME Counts, pending \in [Actors -> Int], NEW a \in Actors, NEW r,
         pending' = [pending EXCEPT ![a] = @ + 1],
         r \notin Outstanding(a), Outstanding(a)' = Outstanding(a) \cup {r},
         \A b \in Actors \ {a} : Outstanding(b)' = Outstanding(b)
  PROVE  Counts'
<1>1. IsFiniteSet(Outstanding(a)) /\ pending[a] = Cardinality(Outstanding(a))
  BY DEF Counts
<1>2. /\ IsFiniteSet(Outstanding(a)')
      /\ Cardinality(Outstanding(a)') = Cardinality(Outstanding(a)) + 1
  BY <1>1, FS_AddElement
<1> QED  BY <1>1, <1>2 DEF Counts

\* A counter lowered with the set it counts stays exact.
LEMMA CountDown ==
  ASSUME Counts, pending \in [Actors -> Int], NEW a \in Actors, NEW r,
         pending' = [pending EXCEPT ![a] = @ - 1],
         r \in Outstanding(a), Outstanding(a)' = Outstanding(a) \ {r},
         \A b \in Actors \ {a} : Outstanding(b)' = Outstanding(b)
  PROVE  Counts'
<1>1. IsFiniteSet(Outstanding(a)) /\ pending[a] = Cardinality(Outstanding(a))
  BY DEF Counts
<1>2. /\ IsFiniteSet(Outstanding(a)')
      /\ Cardinality(Outstanding(a)') = Cardinality(Outstanding(a)) - 1
  BY <1>1, FS_RemoveElement
<1> QED  BY <1>1, <1>2 DEF Counts

\* A command not yet, or no longer, in a sender's or an actor's hands.
LEMMA NotOutstanding ==
  ASSUME Typing, Shape, NEW r \in Requests, NEW b \in Actors,
         pc[r] \notin {"sending", "backout"} \cup Delivered
  PROVE  r \notin Queued(b) /\ r \notin InHand(b) /\ r \notin Outstanding(b)
<1>1. r \notin Queued(b)
  BY DEF Shape, Mailboxes
<1>2. ASSUME r \in InHand(b) PROVE FALSE
  BY <1>2 DEF InHand, Shape, Hands, Busy
<1> QED  BY <1>1, <1>2 DEF Outstanding

\* enqueue's critical section adds its command to the actor it chose.
LEMMA RegisterCounts ==
  ASSUME Typing, Shape, Counts, NEW r \in Requests, NEW a \in Actors,
         pc[r] = "called",
         pc' = [pc EXCEPT ![r] = "sending"],
         target' = [target EXCEPT ![r] = a],
         pending' = [pending EXCEPT ![a] = @ + 1],
         \A b \in Actors : InHand(b)' = InHand(b),
         mailbox' = mailbox
  PROVE  Counts'
<1>1. \A b \in Actors : /\ r \notin Queued(b) /\ r \notin InHand(b)
                        /\ r \notin Outstanding(b)
  BY NotOutstanding DEF Delivered
<1>2. \A b \in Actors : Queued(b)' = Queued(b)
  BY DEF Queued
<1>3. Outstanding(a)' = Outstanding(a) \cup {r}
  BY <1>1, <1>2 DEF Outstanding, Typing
<1>4. \A b \in Actors \ {a} : Outstanding(b)' = Outstanding(b)
  BY <1>1, <1>2 DEF Outstanding, Typing
<1> QED  BY <1>1, <1>3, <1>4, CountUp DEF Typing

\* Every action that changes pending changes the outstanding commands by one.
LEMMA CountsStep ==
  ASSUME Typing, Shape, Counts, [Next]_vars
  PROVE  Counts'
<1> USE DEF Outstanding, InHand, actorVars, callVars, InflightDone
<1>1. ASSUME NEW r \in Requests, NEW i \in Instances, Call(r, i) PROVE Counts'
  BY <1>1, CountSame DEF Call, Typing, Queued
<1>2. ASSUME NEW r \in Requests, NEW i \in Instances, JoinReady(r, i) PROVE Counts'
  BY <1>2, CountSame DEF JoinReady, Typing, Queued
<1>3. ASSUME NEW r \in Requests, SpawnActor(r) PROVE Counts'
  <2> DEFINE n == NewActor
  <2>1. PICK a \in Actors : a = n /\ status[a] = "unborn"
    BY <1>3, NewActorUnborn DEF SpawnActor
  <2>2. /\ pc[r] = "called" /\ pc' = [pc EXCEPT ![r] = "sending"]
        /\ target' = [target EXCEPT ![r] = a]
        /\ pending' = [pending EXCEPT ![a] = @ + 1]
        /\ status' = [status EXCEPT ![a] = "idle"]
        /\ UNCHANGED <<mailbox, serving>>
    BY <1>3, <2>1 DEF SpawnActor
  <2>3. \A b \in Actors : InHand(b)' = InHand(b)
    BY <2>1, <2>2 DEF Typing
  <2> QED  BY <2>2, <2>3, RegisterCounts
<1>4. ASSUME NEW r \in Requests, JoinNotReady(r) PROVE Counts'
  BY <1>4, CountSame DEF JoinNotReady, Typing, Queued
<1>5. ASSUME NEW r \in Requests, CancelContext(r) PROVE Counts'
  BY <1>5, CountSame DEF CancelContext, Typing, Queued
<1>6. ASSUME NEW r \in Requests, FindActor(r) PROVE Counts'
  <2>1. PICK a \in Actors : a = actors[dest[r]]
    BY <1>6 DEF FindActor, Typing, Shape, Senders
  <2>2. /\ pc[r] = "called" /\ pc' = [pc EXCEPT ![r] = "sending"]
        /\ target' = [target EXCEPT ![r] = a]
        /\ pending' = [pending EXCEPT ![a] = @ + 1]
        /\ UNCHANGED <<status, mailbox, serving>>
    BY <1>6, <2>1 DEF FindActor
  <2> QED  BY <2>2, RegisterCounts
<1>7. ASSUME NEW r \in Requests, Send(r) PROVE Counts'
  <2>1. PICK a \in Actors : a = target[r]
    BY <1>7 DEF Send, Shape, Senders
  <2>2. /\ pc[r] = "sending" /\ pc'[r] \in Delivered
        /\ \A q \in Requests \ {r} : pc'[q] = pc[q]
        /\ mailbox' = [mailbox EXCEPT ![a] = Append(@, r)]
        /\ UNCHANGED <<status, serving, target, pending>>
    BY <1>7, <2>1 DEF Send, Typing, Delivered, Requests, Clients
  <2>3. r \notin Queued(a)
    BY <2>2 DEF Shape, Mailboxes, Delivered
  <2>4. /\ Queued(a)' = Queued(a) \cup {r}
        /\ \A b \in Actors \ {a} : Queued(b)' = Queued(b)
    BY <2>2, <2>3, SendQueued DEF Typing, Shape, Mailboxes
  <2>5. \A b \in Actors : Outstanding(b)' = Outstanding(b)
    <3>1. \A q \in Requests \ {r}, b \in Actors :
            q \in Outstanding(b)' <=> q \in Outstanding(b)
      BY <2>2, <2>4
    <3>2. \A b \in Actors : r \in Outstanding(b)' <=> r \in Outstanding(b)
      BY <2>1, <2>2, <2>4
    <3> QED  BY <3>1, <3>2
  <2> QED  BY <2>2, <2>5, CountSame
<1>8. ASSUME NEW r \in Requests, GiveUp(r) PROVE Counts'
  BY <1>8, CountSame DEF GiveUp, Typing, Queued
<1>9. ASSUME NEW r \in Requests, BackOut(r) PROVE Counts'
  <2>1. PICK a \in Actors : a = target[r]
    BY <1>9 DEF BackOut, Shape, Senders
  <2>2. /\ pc[r] = "backout" /\ pc' = [pc EXCEPT ![r] = "uncount"]
        /\ pending' = [pending EXCEPT ![a] = @ - 1]
        /\ UNCHANGED <<status, mailbox, serving, target>>
    BY <1>9, <2>1 DEF BackOut
  <2>3. \A b \in Actors : r \notin Queued(b) /\ r \notin InHand(b)
    BY <2>2 DEF Shape, Mailboxes, Hands, Busy, Delivered
  <2>4. \A b \in Actors : Queued(b)' = Queued(b)
    BY <2>2 DEF Queued
  <2>5. /\ r \in Outstanding(a) /\ Outstanding(a)' = Outstanding(a) \ {r}
        /\ \A b \in Actors \ {a} : Outstanding(b)' = Outstanding(b)
    BY <2>1, <2>2, <2>3, <2>4 DEF Typing
  <2> QED  BY <2>2, <2>5, CountDown DEF Typing
<1>10. ASSUME NEW r \in Requests, Uncount(r) PROVE Counts'
  BY <1>10, CountSame DEF Uncount, Typing, Queued
<1>11. ASSUME NEW r \in Requests, TakeReply(r) PROVE Counts'
  BY <1>11, CountSame DEF TakeReply, Typing, Queued
<1>12. ASSUME NEW r \in Requests, AbandonReply(r) PROVE Counts'
  BY <1>12, CountSame DEF AbandonReply, Typing, Queued
<1>13. ASSUME NEW r \in Requests, FinishJoin(r) PROVE Counts'
  BY <1>13, CountSame DEF FinishJoin, Typing, Queued
<1>14. ASSUME NEW a \in Actors, Receive(a) PROVE Counts'
  <2> DEFINE m == Head(mailbox[a])
  <2>1. /\ m \in Queued(a) /\ Queued(a)' = Queued(a) \ {m}
        /\ \A b \in Actors \ {a} : Queued(b)' = Queued(b)
    BY <1>14, ReceiveQueued DEF Receive, Typing, Shape, Mailboxes
  <2>2. /\ InHand(a) = {} /\ InHand(a)' = {m}
        /\ \A b \in Actors \ {a} : InHand(b)' = InHand(b)
    BY <1>14 DEF Receive, Typing
  <2>3. UNCHANGED <<pending, pc, target>>
    BY <1>14 DEF Receive
  <2> HIDE DEF m, InHand
  <2>4. \A b \in Actors : Outstanding(b)' = Outstanding(b)
    BY <2>1, <2>2, <2>3
  <2> QED  BY <2>3, <2>4, CountSame
<1>15. ASSUME NEW a \in Actors, NEW o \in Outcomes, NEW joins \in NewJoins, Process(a, o, joins) PROVE Counts'
  <2>1. /\ status[a] = "processing"
        /\ status' = [status EXCEPT ![a] = "processed"]
        /\ \A q \in Requests : pc'[q] = IF q \in joins THEN "spawned" ELSE pc[q]
        /\ UNCHANGED <<mailbox, serving, target, pending>>
    BY <1>15 DEF Process
  <2>2. \A b \in Actors : Queued(b)' = Queued(b) /\ InHand(b)' = InHand(b)
    BY <2>1 DEF Queued, Typing
  <2>3. \A q \in Requests :
          pc'[q] \in {"sending", "backout"} <=> pc[q] \in {"sending", "backout"}
    <3>1. \A q \in joins : pc[q] = "idle"
      BY NewJoinsSmall
    <3> QED  BY <2>1, <3>1
  <2> HIDE DEF InHand
  <2>4. \A b \in Actors : Outstanding(b)' = Outstanding(b)
    BY <2>1, <2>2, <2>3
  <2> QED  BY <2>1, <2>4, CountSame
<1>16. ASSUME NEW a \in Actors, Reply(a) PROVE Counts'
  BY <1>16, CountSame DEF Reply, Typing, Queued
<1>17. ASSUME NEW a \in Actors, Settle(a) PROVE Counts'
  <2>1. /\ status[a] = "replied" /\ status' = [status EXCEPT ![a] = "settled"]
        /\ pending' = [pending EXCEPT ![a] = @ - 1]
        /\ UNCHANGED <<mailbox, serving, pc, target>>
    BY <1>17 DEF Settle
  <2>2. PICK m \in Requests : m = serving[a]
    BY <2>1 DEF Typing, Shape, Hands, Busy
  <2>3. /\ target[m] = a /\ m \notin Queued(a)
        /\ pc[m] \notin {"sending", "backout"}
    BY <2>1, <2>2, NoneAssumption DEF Shape, Hands, Busy, Delivered
  <2>4. \A b \in Actors : Queued(b)' = Queued(b)
    BY <2>1 DEF Queued
  <2>5. /\ InHand(a) = {m} /\ InHand(a)' = {}
        /\ \A b \in Actors \ {a} : InHand(b)' = InHand(b)
    BY <2>1, <2>2 DEF Typing
  <2> HIDE DEF InHand
  <2>6. /\ m \in Outstanding(a) /\ Outstanding(a)' = Outstanding(a) \ {m}
        /\ \A b \in Actors \ {a} : Outstanding(b)' = Outstanding(b)
    BY <2>1, <2>3, <2>4, <2>5
  <2> QED  BY <2>1, <2>6, CountDown DEF Typing
<1>18. ASSUME NEW a \in Actors, Done(a) PROVE Counts'
  BY <1>18, CountSame DEF Done, Typing, Queued
<1>19. ASSUME NEW a \in Actors, Evict(a) PROVE Counts'
  BY <1>19, CountSame DEF Evict, Typing, Queued
<1>20. ASSUME NEW a \in Actors, Exit(a) PROVE Counts'
  BY <1>20, CountSame DEF Exit, Typing, Queued
<1>21. ASSUME ShutdownStep PROVE Counts'
  BY <1>21, CountSame DEF ShutdownStep, CloseServer, Drain, WaitReturns, WaitPanics, Queued
<1>22. CASE UNCHANGED vars
  BY <1>22, CountSame DEF vars, Queued
<1> QED
  BY <1>1, <1>2, <1>3, <1>4, <1>5, <1>6, <1>7, <1>8, <1>9, <1>10, <1>11,
     <1>12, <1>13, <1>14, <1>15, <1>16, <1>17, <1>18, <1>19, <1>20, <1>21,
     <1>22 DEF Next, SenderStep, ActorStep
-----------------------------------------------------------------------------
(* inflight counts the commands and the auto-join goroutines.              *)

\* A step that changes neither inflight nor what it counts.
LEMMA InflightSame ==
  ASSUME InflightCounts, Counted' = Counted, Joining' = Joining,
         inflight' = inflight
  PROVE  InflightCounts'
  BY DEF InflightCounts

\* A step that counts one more command.
LEMMA CountedUp ==
  ASSUME InflightCounts, inflight \in Int, NEW r, r \notin Counted,
         Counted' = Counted \cup {r}, Joining' = Joining,
         inflight' = inflight + 1
  PROVE  InflightCounts'
<1>1. /\ IsFiniteSet(Counted') /\ Cardinality(Counted') = Cardinality(Counted) + 1
      /\ Cardinality(Counted) \in Nat /\ Cardinality(Joining) \in Nat
  BY FS_AddElement, FS_CardinalityType DEF InflightCounts
<1> QED  BY <1>1 DEF InflightCounts

\* A step that settles, or gives up, one counted command.
LEMMA CountedDown ==
  ASSUME InflightCounts, inflight \in Int, NEW r, r \in Counted,
         Counted' = Counted \ {r}, Joining' = Joining,
         inflight' = inflight - 1
  PROVE  InflightCounts'
<1>1. /\ IsFiniteSet(Counted') /\ Cardinality(Counted') = Cardinality(Counted) - 1
      /\ Cardinality(Counted) \in Nat /\ Cardinality(Joining) \in Nat
  BY FS_RemoveElement, FS_CardinalityType DEF InflightCounts
<1> QED  BY <1>1 DEF InflightCounts

\* A step that starts one more auto-join goroutine.
LEMMA JoiningUp ==
  ASSUME InflightCounts, inflight \in Int, NEW r, r \notin Joining,
         Joining' = Joining \cup {r}, Counted' = Counted,
         inflight' = inflight + 1
  PROVE  InflightCounts'
<1>1. /\ IsFiniteSet(Joining') /\ Cardinality(Joining') = Cardinality(Joining) + 1
      /\ Cardinality(Counted) \in Nat /\ Cardinality(Joining) \in Nat
  BY FS_AddElement, FS_CardinalityType DEF InflightCounts
<1> QED  BY <1>1 DEF InflightCounts

\* A step with which one auto-join goroutine ends.
LEMMA JoiningDown ==
  ASSUME InflightCounts, inflight \in Int, NEW r, r \in Joining,
         Joining' = Joining \ {r}, Counted' = Counted,
         inflight' = inflight - 1
  PROVE  InflightCounts'
<1>1. /\ IsFiniteSet(Joining') /\ Cardinality(Joining') = Cardinality(Joining) - 1
      /\ Cardinality(Counted) \in Nat /\ Cardinality(Joining) \in Nat
  BY FS_RemoveElement, FS_CardinalityType DEF InflightCounts
<1> QED  BY <1>1 DEF InflightCounts

\* A command whose sender has not delivered it is nowhere in an actor.
LEMMA NotServed ==
  ASSUME Shape, NEW r \in Requests, pc[r] \notin Delivered
  PROVE  \A b \in Actors : r \notin Queued(b) /\ serving[b] # r
<1>1. ASSUME NEW b \in Actors, r \in Queued(b) PROVE FALSE
  BY <1>1 DEF Shape, Mailboxes
<1>2. ASSUME NEW b \in Actors, serving[b] = r PROVE FALSE
  BY <1>2, NoneAssumption DEF Shape, Hands
<1> QED  BY <1>1, <1>2

\* enqueue's critical section counts its command in flight.
LEMMA RegisterCounted ==
  ASSUME Typing, Shape, InflightCounts, NEW r \in Requests, pc[r] = "called",
         pc' = [pc EXCEPT ![r] = "sending"], inflight' = inflight + 1,
         mailbox' = mailbox, serving' = serving
  PROVE  InflightCounts'
<1>1. \A b \in Actors : r \notin Queued(b) /\ serving[b] # r
  BY NotServed DEF Delivered
<1>2. \A b \in Actors : Queued(b)' = Queued(b)
  BY DEF Queued
<1>3. r \notin Counted /\ Counted' = Counted \cup {r}
  BY <1>1, <1>2 DEF Counted, Typing
<1>4. Joining' = Joining
  BY DEF Joining, Typing
<1> QED  BY <1>3, <1>4, CountedUp DEF Typing

\* Every action that changes inflight changes what it counts by one.
LEMMA InflightStep ==
  ASSUME Typing, Shape, InflightCounts, [Next]_vars
  PROVE  InflightCounts'
<1> USE DEF Counted, Joining, actorVars, callVars, InflightDone
<1>1. ASSUME NEW r \in Requests, NEW i \in Instances, Call(r, i) PROVE InflightCounts'
  BY <1>1, InflightSame DEF Call, Typing, Queued
<1>2. ASSUME NEW r \in Requests, NEW i \in Instances, JoinReady(r, i) PROVE InflightCounts'
  BY <1>2, InflightSame DEF JoinReady, Typing, Queued
<1>3. ASSUME NEW r \in Requests, SpawnActor(r) PROVE InflightCounts'
  <2>1. /\ pc[r] = "called" /\ pc' = [pc EXCEPT ![r] = "sending"]
        /\ inflight' = inflight + 1
        /\ UNCHANGED <<mailbox, serving>>
    BY <1>3 DEF SpawnActor
  <2> QED  BY <2>1, RegisterCounted
<1>4. ASSUME NEW r \in Requests, JoinNotReady(r) PROVE InflightCounts'
  BY <1>4, InflightSame DEF JoinNotReady, Typing, Queued
<1>5. ASSUME NEW r \in Requests, CancelContext(r) PROVE InflightCounts'
  BY <1>5, InflightSame DEF CancelContext, Typing, Queued
<1>6. ASSUME NEW r \in Requests, FindActor(r) PROVE InflightCounts'
  <2>1. /\ pc[r] = "called" /\ pc' = [pc EXCEPT ![r] = "sending"]
        /\ inflight' = inflight + 1
        /\ UNCHANGED <<mailbox, serving>>
    BY <1>6 DEF FindActor
  <2> QED  BY <2>1, RegisterCounted
<1>7. ASSUME NEW r \in Requests, Send(r) PROVE InflightCounts'
  <2>1. PICK a \in Actors : a = target[r]
    BY <1>7 DEF Send, Shape, Senders
  <2>2. /\ pc[r] = "sending" /\ pc'[r] \in Delivered
        /\ r \in AutoJoins => pc'[r] = "finishing"
        /\ \A q \in Requests \ {r} : pc'[q] = pc[q]
        /\ mailbox' = [mailbox EXCEPT ![a] = Append(@, r)]
        /\ UNCHANGED <<serving, inflight>>
    BY <1>7, <2>1, KindsAssumption DEF Send, Typing, Delivered, Requests, Clients
  <2>3. r \notin Queued(a)
    BY <2>2 DEF Shape, Mailboxes, Delivered
  <2>4. /\ Queued(a)' = Queued(a) \cup {r}
        /\ \A b \in Actors \ {a} : Queued(b)' = Queued(b)
    BY <2>2, <2>3, SendQueued DEF Typing, Shape, Mailboxes
  <2>5. Counted' = Counted
    <3>1. \A q \in Requests \ {r} : q \in Counted' <=> q \in Counted
      BY <2>2, <2>4
    <3>2. r \in Counted' /\ r \in Counted
      BY <2>2, <2>4
    <3> QED  BY <3>1, <3>2
  <2>6. Joining' = Joining
    BY <2>2 DEF Delivered, Requests, Clients
  <2> QED  BY <2>2, <2>5, <2>6, InflightSame
<1>8. ASSUME NEW r \in Requests, GiveUp(r) PROVE InflightCounts'
  BY <1>8, InflightSame, KindsAssumption DEF GiveUp, Typing, Queued, Clients
<1>9. ASSUME NEW r \in Requests, BackOut(r) PROVE InflightCounts'
  BY <1>9, InflightSame DEF BackOut, Typing, Queued
<1>10. ASSUME NEW r \in Requests, Uncount(r) PROVE InflightCounts'
  <2>1. /\ pc[r] = "uncount" /\ pc' = [pc EXCEPT ![r] = "done"]
        /\ inflight' = inflight - 1 /\ UNCHANGED <<mailbox, serving>>
    BY <1>10 DEF Uncount
  <2>2. \A b \in Actors : r \notin Queued(b) /\ serving[b] # r
    BY <2>1, NotServed DEF Delivered
  <2>3. \A b \in Actors : Queued(b)' = Queued(b)
    BY <2>1 DEF Queued
  <2>4. r \in Counted /\ Counted' = Counted \ {r}
    BY <2>1, <2>2, <2>3 DEF Typing
  <2>5. Joining' = Joining
    BY <2>1 DEF Typing
  <2> QED  BY <2>1, <2>4, <2>5, CountedDown DEF Typing
<1>11. ASSUME NEW r \in Requests, TakeReply(r) PROVE InflightCounts'
  BY <1>11, InflightSame DEF TakeReply, Typing, Queued
<1>12. ASSUME NEW r \in Requests, AbandonReply(r) PROVE InflightCounts'
  BY <1>12, InflightSame DEF AbandonReply, Typing, Queued
<1>13. ASSUME NEW r \in Requests, FinishJoin(r) PROVE InflightCounts'
  <2>1. /\ pc[r] = "finishing" /\ pc' = [pc EXCEPT ![r] = "done"]
        /\ inflight' = inflight - 1 /\ UNCHANGED <<mailbox, serving>>
    BY <1>13 DEF FinishJoin
  <2>2. \A b \in Actors : Queued(b)' = Queued(b)
    BY <2>1 DEF Queued
  <2>3. Counted' = Counted
    BY <2>1, <2>2 DEF Typing
  <2>4. r \in Joining /\ Joining' = Joining \ {r}
    BY <2>1 DEF Typing, Shape, Senders
  <2> QED  BY <2>1, <2>3, <2>4, JoiningDown DEF Typing
<1>14. ASSUME NEW a \in Actors, Receive(a) PROVE InflightCounts'
  <2> DEFINE m == Head(mailbox[a])
  <2>1. /\ m \in Queued(a) \cap Requests /\ Queued(a)' = Queued(a) \ {m}
        /\ \A b \in Actors \ {a} : Queued(b)' = Queued(b)
    BY <1>14, ReceiveQueued DEF Receive, Typing, Shape, Mailboxes
  <2>2. /\ serving' = [serving EXCEPT ![a] = m] /\ serving[a] = None
        /\ UNCHANGED <<pc, inflight>>
    BY <1>14 DEF Receive, Shape, Hands, Busy
  <2> HIDE DEF m
  <2>3. \A q \in Requests :
          (\E b \in Actors : q \in Queued(b)' \/ serving'[b] = q)
            <=> (\E b \in Actors : q \in Queued(b) \/ serving[b] = q)
    <3>1. ASSUME NEW q \in Requests, NEW b \in Actors,
                 q \in Queued(b)' \/ serving'[b] = q
          PROVE  \E c \in Actors : q \in Queued(c) \/ serving[c] = q
      BY <2>1, <2>2, <3>1, NoneAssumption DEF Typing
    <3>2. ASSUME NEW q \in Requests, NEW b \in Actors,
                 q \in Queued(b) \/ serving[b] = q
          PROVE  \E c \in Actors : q \in Queued(c)' \/ serving'[c] = q
      <4>1. CASE q = m
        BY <2>2, <4>1 DEF Typing
      <4>2. CASE q # m
        <5>1. CASE serving[b] = q
          BY <2>2, <5>1, NoneAssumption DEF Typing
        <5>2. CASE q \in Queued(b)
          BY <2>1, <4>2, <5>2
        <5> QED  BY <3>2, <5>1, <5>2
      <4> QED  BY <4>1, <4>2
    <3> QED  BY <3>1, <3>2
  <2>4. Counted' = Counted
    BY <2>2, <2>3
  <2>5. Joining' = Joining
    BY <2>2
  <2> QED  BY <2>2, <2>4, <2>5, InflightSame
<1>15. ASSUME NEW a \in Actors, NEW o \in Outcomes, NEW joins \in NewJoins, Process(a, o, joins) PROVE InflightCounts'
  <2>1. /\ \A q \in Requests : pc'[q] = IF q \in joins THEN "spawned" ELSE pc[q]
        /\ inflight' = inflight + Cardinality(joins)
        /\ UNCHANGED <<mailbox, serving>>
    BY <1>15 DEF Process
  <2>2. \A b \in Actors : Queued(b)' = Queued(b)
    BY <2>1 DEF Queued
  <2>3. \A q \in joins : q \in AutoJoins /\ pc[q] = "idle"
    BY NewJoinsSmall
  <2>4. Counted' = Counted
    BY <2>1, <2>2, <2>3
  <2>5. Joining' = Joining \cup joins
    BY <2>1, <2>3 DEF Requests
  <2>6. CASE joins = {}
    <3>1. inflight' = inflight
      BY <2>1, <2>6, FS_EmptySet DEF Typing
    <3> QED  BY <2>4, <2>5, <2>6, <3>1, InflightSame
  <2>7. ASSUME NEW j \in AutoJoins, joins = {j} PROVE InflightCounts'
    <3>1. inflight' = inflight + 1
      BY <2>1, <2>7, FS_Singleton
    <3>2. j \notin Joining
      BY <2>3, <2>7
    <3> QED  BY <2>4, <2>5, <2>7, <3>1, <3>2, JoiningUp DEF Typing
  <2> QED  BY <2>6, <2>7, NewJoinsSmall
<1>16. ASSUME NEW a \in Actors, Reply(a) PROVE InflightCounts'
  BY <1>16, InflightSame DEF Reply, Typing, Queued
<1>17. ASSUME NEW a \in Actors, Settle(a) PROVE InflightCounts'
  BY <1>17, InflightSame DEF Settle, Typing, Queued
<1>18. ASSUME NEW a \in Actors, Done(a) PROVE InflightCounts'
  <2>1. PICK m \in Requests : m = serving[a]
    BY <1>18 DEF Done, Typing, Shape, Hands, Busy
  <2>2. /\ target[m] = a /\ pc[m] \in Delivered /\ m # None
        /\ serving' = [serving EXCEPT ![a] = None]
        /\ inflight' = inflight - 1 /\ UNCHANGED <<mailbox, pc>>
    BY <1>18, <2>1, NoneAssumption DEF Done, Shape, Hands
  <2>3. \A b \in Actors : m \notin Queued(b)
    BY <2>1, <2>2 DEF Shape, Hands, Mailboxes
  <2>4. \A b \in Actors \ {a} : serving[b] # m
    BY <2>2 DEF Shape, Hands
  <2>5. \A b \in Actors : Queued(b)' = Queued(b)
    BY <2>2 DEF Queued
  <2>6. m \in Counted /\ Counted' = Counted \ {m}
    BY <2>1, <2>2, <2>3, <2>4, <2>5, NoneAssumption DEF Typing, Delivered
  <2>7. Joining' = Joining
    BY <2>2
  <2> QED  BY <2>2, <2>6, <2>7, CountedDown DEF Typing
<1>19. ASSUME NEW a \in Actors, Evict(a) PROVE InflightCounts'
  BY <1>19, InflightSame DEF Evict, Typing, Queued
<1>20. ASSUME NEW a \in Actors, Exit(a) PROVE InflightCounts'
  BY <1>20, InflightSame DEF Exit, Typing, Queued
<1>21. ASSUME ShutdownStep PROVE InflightCounts'
  BY <1>21, InflightSame DEF ShutdownStep, CloseServer, Drain, WaitReturns, WaitPanics, Queued
<1>22. CASE UNCHANGED vars
  BY <1>22, InflightSame DEF vars, Queued
<1> QED
  BY <1>1, <1>2, <1>3, <1>4, <1>5, <1>6, <1>7, <1>8, <1>9, <1>10, <1>11,
     <1>12, <1>13, <1>14, <1>15, <1>16, <1>17, <1>18, <1>19, <1>20, <1>21,
     <1>22 DEF Next, SenderStep, ActorStep
\* A WaitGroup at zero counts nothing.
LEMMA ZeroCountsNothing ==
  ASSUME NEW C, NEW J, IsFiniteSet(C), IsFiniteSet(J),
         Cardinality(C) + Cardinality(J) = 0
  PROVE  C = {} /\ J = {}
<1>1. Cardinality(C) \in Nat /\ Cardinality(J) \in Nat
  BY FS_CardinalityType
<1> QED  BY <1>1, FS_EmptySet

\* The WaitGroup lets Drain go at zero only.
LEMMA LetGoAtZero ==
  ASSUME Typing, [Next]_vars, ~LetGo, LetGo'
  PROVE  inflight' = 0
<1> USE DEF LetGo, InflightDone, actorVars, callVars
<1>1. ASSUME NEW r \in Requests, SenderStep(r) PROVE inflight' = 0
  BY <1>1 DEF SenderStep, Call, JoinReady, SpawnActor, JoinNotReady, Typing,
     CancelContext, FindActor, Send, GiveUp, BackOut, Uncount, TakeReply,
     AbandonReply, FinishJoin
<1>2. ASSUME NEW a \in Actors, ActorStep(a) PROVE inflight' = 0
  BY <1>2 DEF ActorStep, Receive, Process, Reply, Settle, Done, Evict, Exit,
     Typing
<1>3. CASE ShutdownStep
  BY <1>3 DEF ShutdownStep, CloseServer, Drain, WaitReturns, WaitPanics
<1> QED  BY <1>1, <1>2, <1>3 DEF Next, vars

\* Once the server has closed no client moves, and one whose command is over
\* stays uncounted.
LEMMA ClientsRest ==
  ASSUME Typing, Shape, DrainInv, [Next]_vars, drain # "serving"
  PROVE  /\ drain' # "serving"
         /\ \A r \in Clients : pc'[r] = pc[r]
         /\ Clients \cap Counted = {} => Clients \cap Counted' = {}
<1> USE DEF InflightDone, actorVars, callVars
<1>0. \A r \in Clients : pc[r] \in {"idle", "done"} /\ r \in Requests
  BY DEF DrainInv, Requests
<1>1. ASSUME NEW r \in Requests, SenderStep(r)
      PROVE  /\ drain' # "serving" /\ r \notin Clients
             /\ \A q \in Requests \ {r} : pc'[q] = pc[q]
             /\ serving' = serving
             /\ \/ mailbox' = mailbox
                \/ \E a \in Actors : mailbox' = [mailbox EXCEPT ![a] = Append(@, r)]
  <2>1. drain' # "serving" /\ \A q \in Requests \ {r} : pc'[q] = pc[q]
    BY <1>1 DEF SenderStep, Call, JoinReady, SpawnActor, JoinNotReady,
       CancelContext, FindActor, Send, GiveUp, BackOut, Uncount, TakeReply,
       AbandonReply, FinishJoin, Typing
  <2>2. r \notin Clients
    BY <1>0, <1>1, KindsAssumption DEF SenderStep, Call, JoinReady, SpawnActor,
       JoinNotReady, CancelContext, FindActor, Send, GiveUp, BackOut, Uncount,
       TakeReply, AbandonReply, FinishJoin, Clients
  <2>3. /\ serving' = serving
        /\ \/ mailbox' = mailbox
           \/ \E a \in Actors : mailbox' = [mailbox EXCEPT ![a] = Append(@, r)]
    <3>1. Send(r) => target[r] \in Actors
      BY DEF Send, Shape, Senders
    <3> QED
      BY <1>1, <3>1 DEF SenderStep, Call, JoinReady, SpawnActor, JoinNotReady,
         CancelContext, FindActor, Send, GiveUp, BackOut, Uncount, TakeReply,
         AbandonReply, FinishJoin
  <2> QED  BY <2>1, <2>2, <2>3
<1>2. ASSUME NEW a \in Actors, ActorStep(a)
      PROVE  drain' # "serving" /\ \A r \in Clients : pc'[r] = pc[r]
  <2>1. ASSUME NEW o \in Outcomes, NEW joins \in NewJoins, Process(a, o, joins)
        PROVE  drain' # "serving" /\ \A r \in Clients : pc'[r] = pc[r]
    BY <1>0, <2>1, NewJoinsSmall, KindsAssumption DEF Process
  <2> QED
    BY <1>2, <2>1 DEF ActorStep, Receive, Reply, Settle, Done, Evict, Exit
<1>3. CASE ShutdownStep \/ UNCHANGED vars
  <2>1. UNCHANGED <<mailbox, serving, pc>> /\ drain' # "serving"
    BY <1>3 DEF ShutdownStep, CloseServer, Drain, WaitReturns, WaitPanics, vars
  <2> QED  BY <2>1 DEF Counted, Queued
<1>4. ASSUME NEW r \in Requests, SenderStep(r), Clients \cap Counted = {}
      PROVE  Clients \cap Counted' = {}
  <2>1. ASSUME NEW b \in Actors, NEW q \in Clients, q \in Queued(b)'
        PROVE  q \in Queued(b)
    <3>1. CASE mailbox' = mailbox
      BY <2>1, <3>1 DEF Queued
    <3>2. ASSUME NEW a \in Actors, mailbox' = [mailbox EXCEPT ![a] = Append(@, r)]
          PROVE  q \in Queued(b)
      <4>1. q # r
        BY <1>1, <1>4
      <4>2. CASE b = a
        <5>1. PICK s \in Seq(Requests) : s = mailbox[a]
          BY DEF Typing
        <5>2. mailbox'[a] = Append(s, r)
          BY <3>2, <5>1 DEF Typing
        <5>3. Queued(b)' = {Append(s, r)[k] : k \in DOMAIN Append(s, r)}
          BY <4>2, <5>2 DEF Queued
        <5>4. Queued(b) = {s[k] : k \in DOMAIN s}
          BY <4>2, <5>1 DEF Queued
        <5>5. Queued(b)' = Queued(b) \cup {r}
          BY <5>1, <5>3, <5>4, AppendElements
        <5> QED  BY <2>1, <4>1, <5>5
      <4>3. CASE b # a
        BY <2>1, <3>2, <4>3 DEF Queued
      <4> QED  BY <4>2, <4>3
    <3> QED  BY <1>1, <1>4, <3>1, <3>2
  <2> QED  BY <1>0, <1>1, <1>4, <2>1 DEF Counted
<1>5. ASSUME NEW a \in Actors, ActorStep(a), Clients \cap Counted = {}
      PROVE  Clients \cap Counted' = {}
  <2>1. CASE Receive(a)
    <3>0. /\ mailbox \in [Actors -> Seq(Requests)] /\ mailbox[a] # <<>>
          /\ mailbox' = [mailbox EXCEPT ![a] = Tail(@)]
          /\ \A k, l \in DOMAIN mailbox[a] : mailbox[a][k] = mailbox[a][l] => k = l
      BY <2>1 DEF Receive, Typing, Shape, Mailboxes
    <3>1. /\ Head(mailbox[a]) \in Queued(a) \cap Requests
          /\ Queued(a)' = Queued(a) \ {Head(mailbox[a])}
          /\ \A b \in Actors \ {a} : Queued(b)' = Queued(b)
      BY <3>0, ReceiveQueued
    <3>2. /\ serving' = [serving EXCEPT ![a] = Head(mailbox[a])]
          /\ pc' = pc
      BY <2>1 DEF Receive
    <3> QED  BY <1>5, <3>1, <3>2 DEF Counted, Typing
  <2>2. CASE ~Receive(a)
    <3>1. /\ mailbox' = mailbox
          /\ serving' = serving \/ serving' = [serving EXCEPT ![a] = None]
      BY <1>5, <2>2 DEF ActorStep, Process, Reply, Settle, Done, Evict, Exit
    <3>2. \A b \in Actors : Queued(b)' = Queued(b)
      BY <3>1 DEF Queued
    <3>3. \A q \in Clients : q # None
      BY <1>0, NoneAssumption
    <3> QED  BY <1>0, <1>2, <1>5, <3>1, <3>2, <3>3 DEF Counted, Typing
  <2> QED  BY <2>1, <2>2
<1> QED  BY <1>1, <1>2, <1>3, <1>4, <1>5 DEF Next, Requests

\* No client comes back once the server has closed or Drain been let go.
LEMMA DrainStep ==
  ASSUME Typing, Shape, InflightCounts, InflightCounts', DrainInv, [Next]_vars
  PROVE  DrainInv'
<1>1. CASE drain # "serving"
  <2>1. drain' # "serving" /\ \A r \in Clients : pc'[r] \in {"idle", "done"}
    BY <1>1, ClientsRest DEF DrainInv
  <2>2. CASE LetGo
    BY <1>1, <2>1, <2>2, ClientsRest DEF DrainInv
  <2>3. CASE ~LetGo /\ LetGo'
    <3>1. Counted' = {}
      BY <2>3, LetGoAtZero, ZeroCountsNothing DEF InflightCounts
    <3> QED  BY <2>1, <3>1 DEF DrainInv
  <2>4. CASE ~LetGo'
    BY <2>1, <2>4 DEF DrainInv
  <2> QED  BY <2>2, <2>3, <2>4
<1>2. CASE drain = "serving"
  <2> USE DEF InflightDone, actorVars, callVars, DrainInv, LetGo
  <2>1. ASSUME NEW r \in Requests, SenderStep(r) PROVE DrainInv'
    BY <1>2, <2>1 DEF SenderStep, Call, JoinReady, SpawnActor, JoinNotReady,
       CancelContext, FindActor, Send, GiveUp, BackOut, Uncount, TakeReply,
       AbandonReply, FinishJoin
  <2>2. ASSUME NEW a \in Actors, ActorStep(a) PROVE DrainInv'
    BY <1>2, <2>2 DEF ActorStep, Receive, Process, Reply, Settle, Done, Evict,
       Exit
  <2>3. CASE ShutdownStep
    BY <1>2, <2>3 DEF ShutdownStep, CloseServer, Drain, WaitReturns, WaitPanics
  <2>4. CASE UNCHANGED vars
    BY <1>2, <2>4 DEF vars
  <2> QED  BY <2>1, <2>2, <2>3, <2>4 DEF Next
<1> QED  BY <1>1, <1>2

-----------------------------------------------------------------------------
(* The theorems.                                                           *)

\* The strengthening that is inductive: the map entries, the mailboxes, the
\* commands in hand and both counters agree with one another.
THEOREM Invariance == SafeSpec => [](IInv /\ InflightCounts /\ DrainInv)
<1>1. Init => IInv /\ InflightCounts /\ DrainInv
  <2> SUFFICES ASSUME Init PROVE IInv /\ InflightCounts /\ DrainInv
    OBVIOUS
  <2>1. Typing
    BY DEF Init, Typing, Statuses, Stages, Drains
  <2>2. Shape
    BY NoneAssumption DEF Init, Shape, Registered, Senders, Mailboxes, Hands,
       Live, Queued, Busy
  <2>3. Counts
    <3>1. \A a \in Actors : Outstanding(a) = {}
      BY DEF Init, Outstanding, Queued, InHand
    <3> QED  BY <3>1, FS_EmptySet DEF Init, Counts
  <2>4. InflightCounts
    <3>1. Counted = {} /\ Joining = {}
      BY NoneAssumption DEF Init, Counted, Joining, Queued, Requests, Clients
    <3> QED  BY <3>1, FS_EmptySet DEF Init, InflightCounts
  <2> QED  BY <2>1, <2>2, <2>3, <2>4 DEF Init, IInv, DrainInv, LetGo
<1>2. IInv /\ InflightCounts /\ DrainInv /\ [Next]_vars
        => (IInv /\ InflightCounts /\ DrainInv)'
  BY TypingStep, ShapeStep, CountsStep, InflightStep, DrainStep DEF IInv, Shape
<1> QED  BY <1>1, <1>2, PTL DEF SafeSpec

\* Every variable stays in its set; in particular neither the pending
\* counter of an actor nor the WaitGroup counter ever goes negative.
THEOREM TypeCorrect == SafeSpec => []TypeOK
<1>1. IInv /\ InflightCounts => TypeOK
  <2> SUFFICES ASSUME IInv, InflightCounts PROVE TypeOK
    OBVIOUS
  <2>1. pending \in [Actors -> Nat]
    BY FS_CardinalityType DEF IInv, Typing, Counts
  <2>2. inflight \in Nat
    <3>1. Cardinality(Counted) \in Nat /\ Cardinality(Joining) \in Nat
      BY FS_CardinalityType DEF InflightCounts
    <3> QED  BY <3>1 DEF InflightCounts
  <2> QED  BY <2>1, <2>2 DEF IInv, Typing, TypeOK
<1> QED  BY <1>1, Invariance, PTL

\* The events of one instance never overlap.
THEOREM Serialization == SafeSpec => []SerialPerInstance
<1>1. IInv => SerialPerInstance
  BY DEF IInv, Shape, Registered, SerialPerInstance, Live
<1> QED  BY <1>1, Invariance, PTL

\* No command is ever sent to, or left with, an evicted actor.
THEOREM NothingStranded == SafeSpec => []NoCommandStranded
<1>1. IInv => NoCommandStranded
  BY DEF IInv, Shape, Registered, Senders, Mailboxes, Hands, NoCommandStranded,
     Outstanding, InHand, Live, Queued
<1> QED  BY <1>1, Invariance, PTL

\* The counter the eviction decides on is exact ...
THEOREM CountersExact == SafeSpec => []PendingIsExact
<1>1. IInv => PendingIsExact
  BY DEF IInv, Counts, PendingIsExact
<1> QED  BY <1>1, Invariance, PTL

\* ... and so is the WaitGroup that the shutdown waits on.
THEOREM InflightExact == SafeSpec => []InflightIsExact
<1>1. InflightCounts => InflightIsExact
  BY DEF InflightCounts, InflightIsExact
<1> QED  BY <1>1, Invariance, PTL

\* The WaitGroup lets Drain go at rest only, and no client's command is left
\* or sent from then on.
THEOREM DrainIsComplete == SafeSpec => DrainedMeansQuiet
<1> DEFINE A == /\ ~LetGo /\ LetGo' => AtRest'
                /\ LetGo' => /\ Clients \cap Counted' = {}
                             /\ \A r \in Clients : pc'[r] \in {"idle", "done"}
<1>1. ASSUME IInv, InflightCounts, DrainInv, [Next]_vars,
             IInv', InflightCounts', DrainInv'
      PROVE  A
  <2>1. LetGo' => /\ Clients \cap Counted' = {}
                  /\ \A r \in Clients : pc'[r] \in {"idle", "done"}
    BY <1>1 DEF DrainInv, LetGo
  <2> SUFFICES ASSUME ~LetGo, LetGo' PROVE AtRest'
    BY <2>1
  <2>2. Counted' = {} /\ Joining' = {}
    <3>1. inflight' = 0
      BY <1>1, LetGoAtZero DEF IInv
    <3> QED  BY <1>1, <3>1, ZeroCountsNothing DEF InflightCounts
  <2>3. ASSUME NEW a \in Actors PROVE mailbox'[a] = <<>>
    <3>1. mailbox'[a] \in Seq(Requests)
      BY <1>1 DEF IInv, Typing
    <3>2. mailbox'[a] # <<>> => mailbox'[a][1] \in Queued(a)' \cap Requests
      BY <3>1 DEF Queued
    <3> QED  BY <2>2, <3>2 DEF Counted
  <2>4. ASSUME NEW a \in Actors PROVE serving'[a] = None
    BY <1>1, <2>2 DEF Counted, IInv, Typing
  <2>5. ASSUME NEW r \in AutoJoins PROVE pc'[r] \in {"idle", "done"}
    BY <1>1, <2>2, KindsAssumption
       DEF Counted, Joining, IInv, Typing, Shape, Senders, Stages, Requests, Clients
  <2>6. ASSUME NEW r \in TimerCalls PROVE pc'[r] \in {"idle", "called", "done"}
    BY <1>1, <2>2, KindsAssumption
       DEF Counted, IInv, Typing, Shape, Senders, Stages, Requests, Clients
  <2> QED  BY <2>1, <2>3, <2>4, <2>5, <2>6 DEF AtRest, Requests
<1> QED  BY <1>1, Invariance, PTL DEF SafeSpec, DrainedMeansQuiet

-----------------------------------------------------------------------------
(* Every step of Dispatcher is a step of InstanceQueues, or changes nothing  *)
(* there: actors, buffers, counters and evictions are invisible to callers. *)

\* The outcomes, replies and answers of the commands, by where each is.
OutcomeInv ==
  /\ \A r \in Requests :
       /\ pc[r] \in {"idle", "spawned", "called", "sending"} => outcome[r] = "none"
       /\ pc[r] \notin {"done", "finishing"} => answer[r] = "none"
       /\ pc[r] \in {"backout", "uncount"} => r \in SyncCalls
       /\ reply[r] # "none" => reply[r] = outcome[r]
  /\ \A a \in Actors :
       /\ \A r \in Queued(a) : outcome[r] = "none"
       /\ status[a] = "processing" => outcome[serving[a]] = "none"

\* A command has no outcome before it is run, and its reply is its outcome.
LEMMA OutcomeStep ==
  ASSUME Typing, Shape, OutcomeInv, [Next]_vars
  PROVE  OutcomeInv'
<1> USE DEF OutcomeInv, actorVars, callVars, InflightDone
<1>1. ASSUME NEW r \in Requests, NEW i \in Instances, Call(r, i) PROVE OutcomeInv'
  BY <1>1 DEF Call, Typing, Queued
<1>2. ASSUME NEW r \in Requests, NEW i \in Instances, JoinReady(r, i) PROVE OutcomeInv'
  BY <1>2 DEF JoinReady, Typing, Queued
<1>3. ASSUME NEW r \in Requests, SpawnActor(r) PROVE OutcomeInv'
  <2>1. NewActor \in Actors /\ status[NewActor] = "unborn"
    BY <1>3, NewActorUnborn DEF SpawnActor
  <2> QED  BY <1>3, <2>1 DEF SpawnActor, Typing, Queued
<1>4. ASSUME NEW r \in Requests, JoinNotReady(r) PROVE OutcomeInv'
  BY <1>4 DEF JoinNotReady, Typing, Queued
<1>5. ASSUME NEW r \in Requests, CancelContext(r) PROVE OutcomeInv'
  BY <1>5 DEF CancelContext, Typing, Queued
<1>6. ASSUME NEW r \in Requests, FindActor(r) PROVE OutcomeInv'
  BY <1>6 DEF FindActor, Typing, Queued
<1>7. ASSUME NEW r \in Requests, Send(r) PROVE OutcomeInv'
  <2>1. PICK a \in Actors : a = target[r]
    BY <1>7 DEF Send, Shape, Senders
  <2>2. /\ pc[r] = "sending" /\ pc'[r] \in Delivered
        /\ r \notin SyncCalls => pc'[r] \in {"done", "finishing"}
        /\ r \in SyncCalls => answer' = answer
        /\ \A q \in Requests \ {r} : pc'[q] = pc[q] /\ answer'[q] = answer[q]
        /\ mailbox' = [mailbox EXCEPT ![a] = Append(@, r)]
        /\ UNCHANGED <<status, serving, outcome, reply>>
    BY <1>7, <2>1 DEF Send, Typing, Delivered, Requests, Clients
  <2>3. r \notin Queued(a)
    BY <2>2, NotServed DEF Delivered
  <2>4. /\ Queued(a)' = Queued(a) \cup {r}
        /\ \A b \in Actors \ {a} : Queued(b)' = Queued(b)
    <3>1. \A k, l \in DOMAIN mailbox[a] : mailbox[a][k] = mailbox[a][l] => k = l
      BY DEF Shape, Mailboxes
    <3>2. mailbox \in [Actors -> Seq(Requests)]
      BY DEF Typing
    <3> HIDE DEF OutcomeInv
    <3> QED  BY <2>2, <2>3, <3>1, <3>2, SendQueued
  <2> QED  BY <2>2, <2>4 DEF Delivered
<1>8. ASSUME NEW r \in Requests, GiveUp(r) PROVE OutcomeInv'
  BY <1>8 DEF GiveUp, Typing, Queued
<1>9. ASSUME NEW r \in Requests, BackOut(r) PROVE OutcomeInv'
  BY <1>9 DEF BackOut, Typing, Queued
<1>10. ASSUME NEW r \in Requests, Uncount(r) PROVE OutcomeInv'
  BY <1>10 DEF Uncount, Typing, Queued
<1>11. ASSUME NEW r \in Requests, TakeReply(r) PROVE OutcomeInv'
  BY <1>11 DEF TakeReply, Typing, Queued
<1>12. ASSUME NEW r \in Requests, AbandonReply(r) PROVE OutcomeInv'
  BY <1>12 DEF AbandonReply, Typing, Queued
<1>13. ASSUME NEW r \in Requests, FinishJoin(r) PROVE OutcomeInv'
  BY <1>13 DEF FinishJoin, Typing, Queued
<1>14. ASSUME NEW a \in Actors, Receive(a) PROVE OutcomeInv'
  <2>1. /\ Head(mailbox[a]) \in Queued(a)
        /\ Queued(a)' = Queued(a) \ {Head(mailbox[a])}
        /\ \A b \in Actors \ {a} : Queued(b)' = Queued(b)
    BY <1>14, ReceiveQueued DEF Receive, Typing, Shape, Mailboxes
  <2> QED  BY <1>14, <2>1 DEF Receive, Typing
<1>15. ASSUME NEW a \in Actors, NEW o \in Outcomes, NEW joins \in NewJoins, Process(a, o, joins) PROVE OutcomeInv'
  <2>1. PICK m \in Requests : m = serving[a]
    BY <1>15 DEF Process, Typing, Shape, Hands, Busy
  <2>2. /\ status[a] = "processing" /\ pc[m] \in Delivered /\ target[m] = a
        /\ m \notin Queued(a)
    BY <1>15, <2>1, NoneAssumption DEF Process, Shape, Hands
  <2>3. /\ outcome' = [outcome EXCEPT ![m] = o]
        /\ status' = [status EXCEPT ![a] = "processed"]
        /\ \A q \in Requests : pc'[q] = IF q \in joins THEN "spawned" ELSE pc[q]
        /\ UNCHANGED <<mailbox, serving, reply, answer>>
    BY <1>15, <2>1 DEF Process
  <2>4. \A q \in joins : q \in AutoJoins /\ pc[q] = "idle"
    BY NewJoinsSmall
  <2>5. reply[m] = "none"
    BY <2>1, <2>2 DEF Typing, Outcomes
  <2>6. \A b \in Actors : Queued(b)' = Queued(b) /\ m \notin Queued(b)
    BY <2>2, <2>3 DEF Queued, Shape, Mailboxes
  <2>7. \A b \in Actors \ {a} : status[b] = "processing" => serving[b] # m
    BY <2>2 DEF Shape, Hands, Busy
  <2>8. ASSUME NEW q \in Requests PROVE OutcomeInv!1!(q)'
    BY <2>2, <2>3, <2>4, <2>5 DEF Typing, Delivered
  <2>9. ASSUME NEW b \in Actors
        PROVE  /\ \A q \in Queued(b)' : outcome'[q] = "none"
               /\ status'[b] = "processing" => outcome'[serving'[b]] = "none"
    BY <2>1, <2>3, <2>6, <2>7, QueuedRequests DEF Typing, Shape, Hands, Busy
  <2> QED  BY <2>8, <2>9
<1>16. ASSUME NEW a \in Actors, Reply(a) PROVE OutcomeInv'
  BY <1>16 DEF Reply, Typing, Queued
<1>17. ASSUME NEW a \in Actors, Settle(a) PROVE OutcomeInv'
  BY <1>17 DEF Settle, Typing, Queued
<1>18. ASSUME NEW a \in Actors, Done(a) PROVE OutcomeInv'
  BY <1>18 DEF Done, Typing, Queued
<1>19. ASSUME NEW a \in Actors, Evict(a) PROVE OutcomeInv'
  BY <1>19 DEF Evict, Typing, Queued
<1>20. ASSUME NEW a \in Actors, Exit(a) PROVE OutcomeInv'
  BY <1>20 DEF Exit, Typing, Queued
<1>21. ASSUME ShutdownStep PROVE OutcomeInv'
  BY <1>21 DEF ShutdownStep, CloseServer, Drain, WaitReturns, WaitPanics, Queued
<1>22. CASE UNCHANGED vars
  BY <1>22 DEF vars, Queued
<1> QED
  BY <1>1, <1>2, <1>3, <1>4, <1>5, <1>6, <1>7, <1>8, <1>9, <1>10, <1>11,
     <1>12, <1>13, <1>14, <1>15, <1>16, <1>17, <1>18, <1>19, <1>20, <1>21,
     <1>22 DEF Next, SenderStep, ActorStep
-----------------------------------------------------------------------------
(* The mapping.                                                            *)

\* A step that leaves each instance's queue and running command, the outcomes
\* and the answers alone is a stutter of InstanceQueues.
LEMMA Stutter ==
  ASSUME \A i \in Instances : QueueOf(i)' = QueueOf(i) /\ RunningOf(i)' = RunningOf(i),
         outcome' = outcome, answer' = answer
  PROVE  UNCHANGED Queues!vars
  BY DEF Queues!vars

\* The initial state maps to InstanceQueues' initial state.
LEMMA QueuesInit ==
  ASSUME Init
  PROVE  Queues!Init
  BY DEF Init, Queues!Init, QueueOf, RunningOf

\* A delivered command is accepted by the queue of its instance.
LEMMA SendIsAccept ==
  ASSUME Typing, Shape, OutcomeInv, NEW r \in Requests, Send(r)
  PROVE  \E i \in Instances : Queues!Accept(r, i)
<1>1. PICK a \in Actors : a = target[r]
  BY DEF Send, Shape, Senders
<1>2. PICK i \in Instances : i = owner[a]
  BY <1>1 DEF Send, Shape, Senders, Registered
<1>3. actors[i] = a /\ a # None
  BY <1>1, <1>2, NoneAssumption DEF Send, Shape, Senders, Registered
<1>4. /\ mailbox' = [mailbox EXCEPT ![a] = Append(@, r)]
      /\ pc[r] = "sending"
      /\ answer' = IF r \in SyncCalls THEN answer
                   ELSE [answer EXCEPT ![r] = "accepted"]
      /\ UNCHANGED <<actors, status, serving, outcome>>
  BY <1>1 DEF Send, actorVars
<1>5. QueueOf(i)' = Append(QueueOf(i), r)
  BY <1>3, <1>4 DEF QueueOf, Typing
<1>6. \A j \in Instances \ {i} : QueueOf(j)' = QueueOf(j)
  <2>1. \A j \in Instances \ {i} : actors[j] # a
    BY <1>2, <1>3 DEF Shape, Registered
  <2> QED  BY <1>4, <2>1 DEF QueueOf, Typing
<1>7. \A j \in Instances : RunningOf(j)' = RunningOf(j)
  BY <1>4 DEF RunningOf
<1>8. ~Queues!Known(r)
  <2>1. \A b \in Actors : r \notin Queued(b) /\ serving[b] # r
    BY <1>4, NotServed DEF Delivered
  <2>2. ASSUME NEW j \in Instances
        PROVE  r \notin Queues!Queued(j) /\ RunningOf(j) # r
    BY <2>1, NoneAssumption
       DEF Queues!Queued, QueueOf, RunningOf, Queued, Typing
  <2> QED  BY <1>4, <2>2 DEF Queues!Known, OutcomeInv
<1>9. answer[r] = "none"
  BY <1>4 DEF OutcomeInv
<1>10. /\ [j \in Instances |-> QueueOf(j)]'
            = [[j \in Instances |-> QueueOf(j)] EXCEPT ![i] = Append(@, r)]
       /\ [j \in Instances |-> RunningOf(j)]' = [j \in Instances |-> RunningOf(j)]
  BY <1>5, <1>6, <1>7
<1> QED  BY <1>4, <1>8, <1>9, <1>10 DEF Queues!Accept

\* An actor that takes a command begins it at the head of the queue.
LEMMA ReceiveIsBegin ==
  ASSUME Typing, Shape, NEW a \in Actors, Receive(a)
  PROVE  \E i \in Instances : Queues!Begin(i)
<1>1. PICK i \in Instances : i = owner[a]
  BY DEF Receive, Shape, Registered, Live
<1>2. actors[i] = a /\ a # None
  BY <1>1, NoneAssumption DEF Receive, Shape, Registered, Live
<1>3. /\ status[a] = "idle" /\ mailbox[a] # <<>>
      /\ serving' = [serving EXCEPT ![a] = Head(mailbox[a])]
      /\ mailbox' = [mailbox EXCEPT ![a] = Tail(@)]
      /\ status' = [status EXCEPT ![a] = "processing"]
      /\ UNCHANGED <<actors, outcome, answer>>
  BY DEF Receive
<1>4. \A j \in Instances \ {i} : actors[j] # a
  BY <1>1, <1>2 DEF Shape, Registered
<1>5. /\ QueueOf(i) = mailbox[a] /\ QueueOf(i)' = Tail(mailbox[a])
      /\ RunningOf(i) = None /\ RunningOf(i)' = Head(mailbox[a])
  BY <1>2, <1>3 DEF QueueOf, RunningOf, Typing
<1>6. \A j \in Instances \ {i} : /\ QueueOf(j)' = QueueOf(j)
                                /\ RunningOf(j)' = RunningOf(j)
  BY <1>3, <1>4 DEF QueueOf, RunningOf, Typing
<1>7. /\ [j \in Instances |-> QueueOf(j)]'
           = [[j \in Instances |-> QueueOf(j)] EXCEPT ![i] = Tail(@)]
      /\ [j \in Instances |-> RunningOf(j)]'
           = [[j \in Instances |-> RunningOf(j)] EXCEPT ![i] = Head(QueueOf(i))]
  BY <1>5, <1>6
<1> QED  BY <1>3, <1>5, <1>7 DEF Queues!Begin

\* An actor whose processFn returns finishes the running command.
LEMMA ProcessIsFinish ==
  ASSUME Typing, Shape, NEW a \in Actors, NEW o \in Outcomes,
         NEW joins \in NewJoins, Process(a, o, joins)
  PROVE  \E i \in Instances : Queues!Finish(i)
<1>1. PICK i \in Instances : i = owner[a]
  BY DEF Process, Shape, Registered, Live
<1>2. actors[i] = a /\ a # None
  BY <1>1, NoneAssumption DEF Process, Shape, Registered, Live
<1>3. /\ status[a] = "processing" /\ serving[a] # None
      /\ outcome' = [outcome EXCEPT ![serving[a]] = o]
      /\ status' = [status EXCEPT ![a] = "processed"]
      /\ UNCHANGED <<actors, mailbox, serving, answer>>
  BY DEF Process, Shape, Hands, Busy
<1>4. \A j \in Instances \ {i} : actors[j] # a
  BY <1>1, <1>2 DEF Shape, Registered
<1>5. RunningOf(i) = serving[a] /\ RunningOf(i)' = None
  BY <1>2, <1>3 DEF RunningOf, Typing
<1>6. /\ \A j \in Instances : QueueOf(j)' = QueueOf(j)
      /\ \A j \in Instances \ {i} : RunningOf(j)' = RunningOf(j)
  BY <1>3, <1>4 DEF QueueOf, RunningOf, Typing
<1>7. /\ [j \in Instances |-> QueueOf(j)]' = [j \in Instances |-> QueueOf(j)]
      /\ [j \in Instances |-> RunningOf(j)]'
           = [[j \in Instances |-> RunningOf(j)] EXCEPT ![i] = None]
  BY <1>5, <1>6
<1>8. o \in Queues!Outcomes
  BY DEF Outcomes, Queues!Outcomes
<1> QED  BY <1>3, <1>5, <1>7, <1>8 DEF Queues!Finish

\* Every step maps to a step or to a stutter.
LEMMA QueuesStep ==
  ASSUME Typing, Shape, Counts, OutcomeInv, [Next]_vars
  PROVE  [Queues!Next]_(Queues!vars)
<1> USE DEF actorVars, callVars, InflightDone
<1>1. ASSUME NEW r \in Requests, SenderStep(r)
      PROVE  [Queues!Next]_(Queues!vars)
  <2>1. CASE SpawnActor(r)
    <3>1. PICK a \in Actors : a = NewActor /\ status[a] = "unborn"
      BY <2>1, NewActorUnborn DEF SpawnActor
    <3>2. /\ actors[dest[r]] = None /\ dest[r] \in Instances
          /\ actors' = [actors EXCEPT ![dest[r]] = a]
          /\ status' = [status EXCEPT ![a] = "idle"]
          /\ UNCHANGED <<mailbox, serving, outcome, answer>>
      BY <2>1, <3>1 DEF SpawnActor, Shape, Senders
    <3>3. mailbox[a] = <<>> /\ \A i \in Instances : actors[i] # a
      BY <3>1, NoneAssumption DEF Shape, Mailboxes, Registered, Live
    <3>4. \A i \in Instances : QueueOf(i)' = QueueOf(i) /\ RunningOf(i)' = RunningOf(i)
      BY <3>2, <3>3, NoneAssumption DEF QueueOf, RunningOf, Typing
    <3> QED  BY <3>2, <3>4, Stutter
  <2>2. CASE Send(r)
    BY <2>2, SendIsAccept DEF Queues!Next
  <2>3. CASE Uncount(r) \/ AbandonReply(r)
    <3>1. /\ r \in SyncCalls /\ answer[r] = "none"
          /\ answer' = [answer EXCEPT ![r] = "cancelled"]
          /\ UNCHANGED <<actors, status, mailbox, serving, outcome>>
      BY <2>3 DEF Uncount, AbandonReply, OutcomeInv, Shape, Senders
    <3>2. Queues!Cancel(r)
      BY <3>1 DEF Queues!Cancel, QueueOf, RunningOf
    <3> QED  BY <3>2 DEF Queues!Next
  <2>4. CASE TakeReply(r)
    <3>1. /\ r \in SyncCalls /\ answer[r] = "none"
          /\ outcome[r] # "none" /\ reply[r] = outcome[r]
          /\ answer' = [answer EXCEPT ![r] = reply[r]]
          /\ UNCHANGED <<actors, status, mailbox, serving, outcome>>
      BY <2>4 DEF TakeReply, OutcomeInv, Shape, Senders
    <3>2. Queues!Answer(r)
      BY <3>1 DEF Queues!Answer, QueueOf, RunningOf
    <3> QED  BY <3>2 DEF Queues!Next
  <2>5. ASSUME UNCHANGED <<actors, status, mailbox, serving, outcome, answer>>
        PROVE  [Queues!Next]_(Queues!vars)
    <3>1. \A i \in Instances : QueueOf(i)' = QueueOf(i) /\ RunningOf(i)' = RunningOf(i)
      BY <2>5 DEF QueueOf, RunningOf
    <3> QED  BY <2>5, <3>1, Stutter
  <2> QED
    BY <1>1, <2>1, <2>2, <2>3, <2>4, <2>5 DEF SenderStep, Call, JoinReady,
       JoinNotReady, CancelContext, FindActor, GiveUp, BackOut, FinishJoin
<1>2. ASSUME NEW a \in Actors, ActorStep(a)
      PROVE  [Queues!Next]_(Queues!vars)
  <2>1. CASE Receive(a)
    BY <2>1, ReceiveIsBegin DEF Queues!Next
  <2>2. CASE \E o \in Outcomes, joins \in NewJoins : Process(a, o, joins)
    BY <2>2, ProcessIsFinish DEF Queues!Next
  <2>3. CASE Evict(a)
    <3>1. PICK i \in Instances : i = owner[a]
      BY <2>3 DEF Evict, Shape, Registered, Live
    <3>2. /\ status[a] = "idle" /\ actors[i] = a
          /\ actors' = [actors EXCEPT ![i] = None]
          /\ status' = [status EXCEPT ![a] = "evicted"]
          /\ UNCHANGED <<mailbox, serving, outcome, answer>>
      BY <2>3, <3>1 DEF Evict, Shape, Registered, Live
    <3>3. mailbox[a] = <<>>
      <4>1. mailbox'[a] = <<>>
        BY <2>3, <3>2, ShapeStep DEF Shape, Mailboxes, Live, Typing
      <4> QED  BY <3>2, <4>1
    <3>4. \A j \in Instances \ {i} : actors[j] # a
      BY <3>1, <3>2, NoneAssumption DEF Shape, Registered
    <3>5. \A j \in Instances : QueueOf(j)' = QueueOf(j) /\ RunningOf(j)' = RunningOf(j)
      BY <3>2, <3>3, <3>4, NoneAssumption DEF QueueOf, RunningOf, Typing
    <3> QED  BY <3>2, <3>5, Stutter
  <2>4. CASE Reply(a) \/ Settle(a) \/ Done(a) \/ Exit(a)
    <3>1. /\ status[a] # "processing" /\ status'[a] # "processing"
          /\ \A b \in Actors \ {a} : /\ status'[b] = status[b]
                                    /\ serving'[b] = serving[b]
          /\ UNCHANGED <<actors, mailbox, outcome, answer>>
      BY <2>4 DEF Reply, Settle, Done, Exit, Typing
    <3>2. \A i \in Instances : QueueOf(i)' = QueueOf(i) /\ RunningOf(i)' = RunningOf(i)
      BY <3>1 DEF QueueOf, RunningOf, Typing
    <3> QED  BY <3>1, <3>2, Stutter
  <2> QED  BY <1>2, <2>1, <2>2, <2>3, <2>4 DEF ActorStep
<1>3. CASE ShutdownStep \/ UNCHANGED vars
  <2>1. UNCHANGED <<actors, status, mailbox, serving, outcome, answer>>
    BY <1>3 DEF ShutdownStep, CloseServer, Drain, WaitReturns, WaitPanics, vars
  <2>2. \A i \in Instances : QueueOf(i)' = QueueOf(i) /\ RunningOf(i)' = RunningOf(i)
    BY <2>1 DEF QueueOf, RunningOf
  <2> QED  BY <2>1, <2>2, Stutter
<1> QED  BY <1>1, <1>2, <1>3 DEF Next

\* The dispatcher implements one FIFO queue per instance: commands run one at
\* a time, in the order they were accepted, at most once, and a caller hears
\* its own command's outcome or that it was cancelled.
THEOREM Refinement == SafeSpec => ImplementsQueues
<1>1. Init => Queues!Init /\ OutcomeInv
  <2>1. Init => OutcomeInv
    BY DEF Init, OutcomeInv, Queued
  <2> QED  BY <2>1, QueuesInit
<1>2. IInv /\ OutcomeInv /\ [Next]_vars
        => OutcomeInv' /\ [Queues!Next]_(Queues!vars)
  BY OutcomeStep, QueuesStep DEF IInv
<1> QED  BY <1>1, <1>2, Invariance, PTL DEF SafeSpec, ImplementsQueues, Queues!SafeSpec
=============================================================================
