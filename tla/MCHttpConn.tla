----------------------------- MODULE MCHttpConn -----------------------------
(***************************************************************************)
(* Small instances of HttpConn.                                            *)
(***************************************************************************)
EXTENDS HttpConn, MCMessages
=============================================================================
