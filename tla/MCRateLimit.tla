---------------------------- MODULE MCRateLimit ----------------------------
(***************************************************************************)
(* A small instance of RateLimit: a clock that stops, few requests.        *)
(***************************************************************************)
EXTENDS RateLimit

CONSTANTS MaxTime,   \* the last tick of the clock
          MaxGrants  \* the most requests that are granted

MCNext == \/ \E d \in 1..2 : now + d <= MaxTime /\ Tick(d)
          \/ Len(grants) < MaxGrants /\ Grant
          \/ Deny
          \/ now = MaxTime /\ UNCHANGED vars

MCSpec == Init /\ [][MCNext]_vars
=============================================================================
