---------------------------- MODULE FixedWindow ----------------------------
(***************************************************************************)
(* fixedWindowLimiter (src/internal/httpserver/rate_limit.go): the limiter *)
(* as a value and its method allow as a function of that value and of the  *)
(* time.  The mutex makes the method atomic, and the clock is read while   *)
(* it is held.  Times and durations are in clock ticks, Second of them to  *)
(* a second, so that rounding up to whole seconds can be observed.         *)
(***************************************************************************)
EXTENDS Integers

CONSTANTS Limit,   \* requests per window
          Window,  \* length of the window in ticks
          Second   \* ticks per second

\* With limit <= 0 or window <= 0 the middleware returns next and no limiter
\* exists.
ASSUME RateAssumption ==
  Limit \in Nat \ {0} /\ Window \in Nat \ {0} /\ Second \in Nat \ {0}

\* windowStart.IsZero(): earlier than every time the clock shows.
ZeroTime == -1

newLimiter == [windowStart |-> ZeroTime, count |-> 0]

\* Mutant of retryAfterSeconds: rounds down.
retryAfterSecondsFloor(duration) == IF duration <= 0 THEN 0 ELSE duration \div Second

retryAfterSeconds(duration) ==
  IF duration <= 0 THEN 0 ELSE (duration + Second - 1) \div Second

\* Mutant of expired: > for >=, the window lasts one tick longer.
expiredLate(l, current) ==
  l.windowStart = ZeroTime \/ current > l.windowStart + Window

expired(l, current) ==
  l.windowStart = ZeroTime \/ current >= l.windowStart + Window

renew(l, current) ==
  IF expired(l, current) THEN [windowStart |-> current, count |-> 0] ELSE l

\* Mutant of allow: <= for <.
allowOneMore(l, current) ==
  LET r == renew(l, current)
      ok == r.count <= Limit
  IN [allowed |-> ok,
      limiter |-> IF ok THEN [r EXCEPT !.count = @ + 1] ELSE r,
      retryAfter |-> IF ok THEN 0
                     ELSE retryAfterSeconds(r.windowStart + Window - current)]

allow(l, current) ==
  LET r == renew(l, current)
      ok == r.count < Limit
  IN [allowed |-> ok,
      limiter |-> IF ok THEN [r EXCEPT !.count = @ + 1] ELSE r,
      retryAfter |-> IF ok THEN 0
                     ELSE retryAfterSeconds(r.windowStart + Window - current)]
=============================================================================
