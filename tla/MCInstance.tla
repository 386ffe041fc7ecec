----------------------------- MODULE MCInstance -----------------------------
(* Instance on small workflow definitions.                                 *)
EXTENDS Graph, TLC

CONSTANTS c0, c1

\* A plain transition, and a transition with some fields of its own.
On(source, event, target) ==
  [source |-> source, target |-> target, event |-> event, trigger |-> "USER",
   kind |-> "EXTERNAL", guard |-> {c0, c1}, join |-> FALSE, after |-> FALSE,
   entersHistory |-> FALSE, forks |-> <<>>, scripted |-> FALSE]

Common(sources, event, target) ==
  [sources |-> sources, target |-> target, event |-> event, trigger |-> "USER",
   kind |-> "EXTERNAL", guard |-> {c0, c1}, scripted |-> FALSE]

NoSubstates == [c \in {} |-> {}]

\* open -fork-> waiting -join-> joined -auto-> open or end, and a way out.
ForkStates == {"open", "waiting", "joined", "end"}
ForkTransitions ==
  << [On("open", "fork", "waiting") EXCEPT !.kind = "FORK",
                                           !.forks = <<"child", "child">>],
     [On("waiting", "join", "joined") EXCEPT !.kind = "JOIN",
                                             !.scripted = TRUE],
     [On("joined", "close", "end") EXCEPT !.trigger = "AUTOMATIC",
                                          !.guard = {c1}],
     [On("joined", "again", "open") EXCEPT !.trigger = "AUTOMATIC"] >>
ForkCommon == << Common({"open", "waiting"}, "cancel", "end") >>

\* A composite with history: moves inside it, out of it, back into it by
\* history or afresh, a broken target, actions that change the context, and
\* an authoring cycle of completion transitions once the context is c1, and a
\* fork with its join.
DeskStates == {"desk", "paused", "end"}
DeskSubstates == [c \in {"desk"} |-> {"fill", "check"}]
DeskInitial == [c \in {"desk"} |-> "fill"]
DeskInner == [c \in {"desk"} |->
  << On("fill", "next", "check"),
     On("check", "back", "fill"),
     [On("fill", "note", "fill") EXCEPT !.kind = "INTERNAL",
                                        !.scripted = TRUE],
     [On("check", "bounce", "paused") EXCEPT !.trigger = "AUTOMATIC",
                                             !.guard = {c1}],
     [On("check", "skip", "fill") EXCEPT !.trigger = "AUTOMATIC",
                                         !.after = TRUE] >>]
DeskTransitions ==
  << On("desk", "next", "end"),
     On("desk", "pause", "paused"),
     On("desk", "lost", "nowhere"),
     [On("paused", "resume", "desk") EXCEPT !.entersHistory = TRUE],
     On("paused", "restart", "desk"),
     [On("paused", "return", "desk") EXCEPT !.trigger = "AUTOMATIC",
                                            !.guard = {c1},
                                            !.entersHistory = TRUE],
     [On("paused", "split", "paused") EXCEPT !.kind = "FORK",
                                             !.forks = <<"child">>],
     [On("paused", "merge", "end") EXCEPT !.kind = "JOIN"] >>
DeskCommon == << Common({"desk", "paused"}, "quit", "end") >>

\* The parent waits inside a composite: for a join that leaves it ...
HallStates == {"open", "hall", "end"}
HallSubstates == [c \in {"hall"} |-> {"wait", "ready"}]
HallInitial == [c \in {"hall"} |-> "wait"]
HallTransitions ==
  << [On("open", "fork", "hall") EXCEPT !.kind = "FORK",
                                        !.forks = <<"child", "child">>] >>
HallInner == [c \in {"hall"} |->
  << [On("wait", "join", "end") EXCEPT !.kind = "JOIN"],
     On("wait", "poke", "wait"),
     On("wait", "pause", "ready"),
     On("ready", "poke", "wait") >>]
HallCommon == << Common({"hall"}, "quit", "end") >>

\* ... and for a join that stays inside.
LocalInner == [c \in {"hall"} |->
  << [On("wait", "join", "ready") EXCEPT !.kind = "JOIN"],
     On("ready", "poke", "wait") >>]
=============================================================================
