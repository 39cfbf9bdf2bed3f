---------------------------- MODULE MCHandleConn ----------------------------
(***************************************************************************)
(* Small instances of HandleConn.                                          *)
(***************************************************************************)
EXTENDS HandleConn, MCMessages
=============================================================================
