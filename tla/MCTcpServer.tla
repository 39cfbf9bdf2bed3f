---------------------------- MODULE MCTcpServer ----------------------------
(***************************************************************************)
(* Small instances of TcpServer for TLC.                                   *)
(***************************************************************************)
EXTENDS TcpServerInv

CONSTANTS c1, c2, w1

TwoConns  == {c1, c2}
NoWorkers == {}
OneWorker == {w1}
=============================================================================
