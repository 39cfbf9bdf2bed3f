---------------------------- MODULE ConnHandler -----------------------------
(***************************************************************************)
(* What TcpServer takes for granted of the handler of one connection, and  *)
(* HandleConn implements: it returns at some time of its own, surely once  *)
(* the connection is closed under it, and leaves the connection closed.    *)
(***************************************************************************)
VARIABLES running,  \* handleConn has not returned
          closed    \* the connection is closed

hvars == <<running, closed>>

HInit == running = TRUE /\ closed = FALSE

Return == running /\ running' = FALSE /\ UNCHANGED closed

\* By the server's force-close at any time, or by the deferred call.
Close == ~closed /\ closed' = TRUE /\ UNCHANGED running

HNext == Return \/ Close

HSafe == HInit /\ [][HNext]_hvars

HSpec == HSafe /\ WF_hvars(closed /\ Return) /\ WF_hvars(~running /\ Close)
=============================================================================
