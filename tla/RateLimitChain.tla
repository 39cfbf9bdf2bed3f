--------------------------- MODULE RateLimitChain ---------------------------
(***************************************************************************)
(* The rate limit middleware inside the server.  For every request         *)
(* Handler.responseForRequest calls appHandler(), which calls Chain, which *)
(* applies every middleware again; applying the rate limit middleware      *)
(* makes a new fixedWindowLimiter (handler.go, middleware.go,              *)
(* rate_limit.go).  Requests run concurrently, one per connection.         *)
(***************************************************************************)
EXTENDS FixedWindow, Sequences

CONSTANTS Requests,  \* the requests that the connections send
          MaxTime    \* the last tick of the clock

VARIABLES now,      \* the clock, in ticks
          stage,    \* per request: "parsed", "wrapped", "granted" or "denied"
          limiter,  \* the limiter in the handler chain of each request
          grants    \* history: the times at which the application was called

vars == <<now, stage, limiter, grants>>

Init == /\ now = 0 /\ grants = <<>>
        /\ stage = [r \in Requests |-> "parsed"]
        /\ limiter = [r \in Requests |-> newLimiter]

Tick == now < MaxTime /\ now' = now + 1 /\ UNCHANGED <<stage, limiter, grants>>

\* appHandler(): Chain applies the middleware to the application.
appHandler(r) == /\ stage[r] = "parsed"
                 /\ stage' = [stage EXCEPT ![r] = "wrapped"]
                 /\ limiter' = [limiter EXCEPT ![r] = newLimiter]
                 /\ UNCHANGED <<now, grants>>

\* ServeHTTP of the chain: the limiter in it decides.
ServeHTTP(r) ==
  LET a == allow(limiter[r], now)
  IN /\ stage[r] = "wrapped"
     /\ limiter' = [limiter EXCEPT ![r] = a.limiter]
     /\ stage' = [stage EXCEPT ![r] = IF a.allowed THEN "granted" ELSE "denied"]
     /\ grants' = IF a.allowed THEN Append(grants, now) ELSE grants
     /\ UNCHANGED now

Next == Tick \/ \E r \in Requests : appHandler(r) \/ ServeHTTP(r)

Spec == Init /\ [][Next]_vars

\* FixedWindowRateLimitMiddleware "limits requests in a shared fixed time
\* window": over all connections the application is not called more than twice
\* the limit within any interval as long as the window.
ServerBurstBound ==
  \A i \in 1..Len(grants) :
    i + 2 * Limit <= Len(grants) => grants[i + 2 * Limit] >= grants[i] + Window
=============================================================================
