---------------------------- MODULE ConnService ----------------------------
(***************************************************************************)
(* What a connection server promises its caller, independent of how its    *)
(* goroutines, locks and channels are arranged: a connection is opened     *)
(* only while the server is serving and below the limit, an open           *)
(* connection ends exactly once, and after stopping has begun every open   *)
(* connection ends and the server reports that it has stopped, with        *)
(* nothing left open.  TcpServer implements this specification.            *)
(***************************************************************************)
EXTENDS Naturals, FiniteSets

CONSTANTS Conns,  \* the connections that may arrive
          Limit   \* the most that may be open at once, 0 means no limit

VARIABLES mode,   \* "serving", then "stopping", then "stopped"
          open,   \* connections being served
          ended   \* connections that were closed, served or not

svars == <<mode, open, ended>>

SInit == mode = "serving" /\ open = {} /\ ended = {}

Admit(c) ==
  /\ mode = "serving" /\ c \notin open \cup ended
  /\ Limit > 0 => Cardinality(open) < Limit
  /\ open' = open \cup {c}
  /\ UNCHANGED <<mode, ended>>

Refuse(c) ==
  /\ mode # "stopped" /\ c \notin open \cup ended
  /\ ended' = ended \cup {c}
  /\ UNCHANGED <<mode, open>>

End(c) ==
  /\ mode # "stopped" /\ c \in open
  /\ open' = open \ {c} /\ ended' = ended \cup {c}
  /\ UNCHANGED mode

Stop ==
  /\ mode = "serving"
  /\ mode' = "stopping"
  /\ UNCHANGED <<open, ended>>

Stopped ==
  /\ mode = "stopping" /\ open = {}
  /\ mode' = "stopped"
  /\ UNCHANGED <<open, ended>>

SNext == \/ \E c \in Conns : Admit(c) \/ Refuse(c) \/ End(c)
         \/ Stop
         \/ Stopped

\* While stopping, connections keep ending until the server has stopped.
Drain == Stopped \/ \E c \in Conns : mode = "stopping" /\ End(c)

SSafe == SInit /\ [][SNext]_svars

SSpec == SSafe /\ WF_svars(Drain)
=============================================================================
