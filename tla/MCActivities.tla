---------------------------- MODULE MCActivities ----------------------------
(* Activities of one instance with three positions.                        *)
EXTENDS Activities

\* A position with both kinds of work, one with a do-activity, one idle; a
\* self-transition is a move too.
WorkMoves == {<<"work", "work">>, <<"work", "review">>, <<"review", "work">>,
              <<"work", "done">>, <<"review", "done">>}
=============================================================================
