---------------------------- MODULE MCDispatcher ----------------------------
(* Dispatcher on one instance: a caller of each kind, so that no two are    *)
(* interchangeable, and as many actor incarnations as commands can need.    *)
EXTENDS Dispatcher

CONSTANTS a1, a2, a3, s1, d1, t1, j1, i1
=============================================================================
