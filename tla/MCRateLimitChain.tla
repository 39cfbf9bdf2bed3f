-------------------------- MODULE MCRateLimitChain --------------------------
(***************************************************************************)
(* Three requests against a limit of one per window.                       *)
(***************************************************************************)
EXTENDS RateLimitChain

CONSTANTS r1, r2, r3

ThreeRequests == {r1, r2, r3}
=============================================================================
