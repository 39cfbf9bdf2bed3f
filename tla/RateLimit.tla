----------------------------- MODULE RateLimit -----------------------------
(***************************************************************************)
(* One wrapped handler of FixedWindowRateLimitMiddleware serving requests  *)
(* of many connections over time (src/internal/httpserver/rate_limit.go):  *)
(* the limiter made when the middleware was applied is shared by all of    *)
(* them.  Each request is granted (next.ServeHTTP) or answered with 429.   *)
(***************************************************************************)
EXTENDS FixedWindow, Sequences

VARIABLES now,      \* the clock, in ticks
          limiter,  \* the shared fixedWindowLimiter
          grants,   \* history: when each granted request came, in which window
          denied    \* history: the last 429 answer, NoDenial before it

vars == <<now, limiter, grants, denied>>

NoDenial == [at |-> ZeroTime, window |-> ZeroTime, retryAfter |-> 0]

Init == now = 0 /\ limiter = newLimiter /\ grants = <<>> /\ denied = NoDenial

\* Time passes; the clock may jump over any number of ticks between requests.
Tick(d) == now' = now + d /\ UNCHANGED <<limiter, grants, denied>>

Grant == LET a == allow(limiter, now)
         IN /\ a.allowed
            /\ limiter' = a.limiter
            /\ grants' = Append(grants, [at |-> now, window |-> a.limiter.windowStart])
            /\ UNCHANGED <<now, denied>>

Deny == LET a == allow(limiter, now)
        IN /\ ~a.allowed
           /\ limiter' = a.limiter
           /\ denied' = [at |-> now, window |-> a.limiter.windowStart,
                         retryAfter |-> a.retryAfter]
           /\ UNCHANGED <<now, grants>>

Next == (\E d \in Nat : Tick(d)) \/ Grant \/ Deny

Spec == Init /\ [][Next]_vars

-----------------------------------------------------------------------------
(* Properties.                                                             *)

\* The clock, the limiter and the two histories have the expected shape.
TypeOK ==
  /\ now \in Nat
  /\ limiter \in [windowStart : Nat \cup {ZeroTime}, count : Nat]
  /\ grants \in Seq([at : Nat, window : Nat])
  /\ denied \in [at : Nat \cup {ZeroTime}, window : Nat \cup {ZeroTime},
                 retryAfter : Nat]

\* Of any Limit + 1 requests granted one after the other, the last was counted
\* in a later window than the first: no window grants more than Limit.
WindowLimit ==
  \A i \in 1..Len(grants) :
    i + Limit <= Len(grants) =>
      grants[i + Limit].window >= grants[i].window + Window

\* The weakness of fixed windows is bounded: a burst across a window boundary
\* grants at most 2 * Limit requests within any interval of length Window.
BurstBound ==
  \A i \in 1..Len(grants) :
    i + 2 * Limit <= Len(grants) =>
      grants[i + 2 * Limit].at > grants[i].at + Window

\* Retry-After is enough and not more: waiting that many seconds after a 429
\* reaches the end of the window that refused, one second less does not.
RetryAfterExact ==
  denied # NoDenial =>
    LET end == denied.window + Window
    IN /\ denied.at + denied.retryAfter * Second >= end
       /\ denied.at + (denied.retryAfter - 1) * Second < end

\* A client that waits for Retry-After is not refused by the same window: if the
\* window that refused it is still the current one, it has expired by then.
RetryHonoured ==
  denied # NoDenial /\ now >= denied.at + denied.retryAfter * Second =>
    limiter.windowStart # denied.window \/ allow(limiter, now).allowed

\* What relates the limiter to the requests it has granted: its count is within
\* the limit, the last count grants are of its window, and all earlier ones are
\* of windows that ended before it began (allow keeps this under its mutex).
LimiterInv ==
  /\ TypeOK
  /\ limiter.windowStart <= now /\ limiter.count <= Limit
  /\ limiter.windowStart = ZeroTime => limiter.count = 0 /\ grants = <<>>
  /\ limiter.count <= Len(grants)
  /\ \A i \in 1..Len(grants) :
       /\ grants[i].window <= limiter.windowStart
       /\ grants[i].window <= grants[i].at
       /\ grants[i].at < grants[i].window + Window
       /\ i <= Len(grants) - limiter.count =>
            grants[i].window + Window <= limiter.windowStart
  /\ WindowLimit
  /\ denied # NoDenial => denied.window + Window > denied.at
  /\ RetryAfterExact
=============================================================================
