----------------------------- MODULE MCLoadTest -----------------------------
(***************************************************************************)
(* A small instance of LoadTest.                                           *)
(***************************************************************************)
EXTENDS LoadTest

CONSTANTS w1, w2

TwoWorkers == {w1, w2}
=============================================================================
