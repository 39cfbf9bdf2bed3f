-------------------------- MODULE RateLimitProofs --------------------------
(***************************************************************************)
(* Proofs about RateLimit for every limit, window and clock resolution.    *)
(***************************************************************************)
EXTENDS RateLimit, SequenceTheorems, TLAPS

\* retryAfterSeconds rounds a positive duration up to whole seconds.
LEMMA CeilSeconds ==
  ASSUME NEW d \in Nat \ {0}
  PROVE  /\ retryAfterSeconds(d) \in Nat
         /\ retryAfterSeconds(d) * Second >= d
         /\ (retryAfterSeconds(d) - 1) * Second < d
<1> DEFINE a == d + Second - 1
           q == a \div Second
<1>1. a \in Nat /\ Second \in Nat \ {0}  BY RateAssumption
<1>2. q \in Int /\ Second * q <= a /\ a < Second * q + Second
  BY <1>1
<1>3. retryAfterSeconds(d) = q  BY DEF retryAfterSeconds
<1> HIDE DEF q
<1>4. q * Second = Second * q /\ (q - 1) * Second = Second * q - Second
  BY <1>1, <1>2
<1>5. q \in Nat
  BY <1>1, <1>2
<1> QED  BY <1>1, <1>2, <1>3, <1>4, <1>5

\* Every entry of the history has its two times.
LEMMA GrantType ==
  ASSUME TypeOK, NEW i \in 1..Len(grants)
  PROVE  grants[i].at \in Nat /\ grants[i].window \in Nat
<1> DEFINE R == [at : Nat, window : Nat]
<1>1. grants \in Seq(R)  BY DEF TypeOK
<1> HIDE DEF R
<1>2. grants[i] \in R  BY <1>1, ElementOfSeq
<1> QED  BY <1>2 DEF R

\* The three fields of the answer of allow.
LEMMA AllowFields ==
  ASSUME NEW l, NEW t, NEW r, r = renew(l, t)
  PROVE  /\ allow(l, t).allowed <=> r.count < Limit
         /\ r.count < Limit => allow(l, t).limiter = [r EXCEPT !.count = @ + 1]
         /\ ~(r.count < Limit) =>
              /\ allow(l, t).limiter = r
              /\ allow(l, t).retryAfter = retryAfterSeconds(r.windowStart + Window - t)
BY Zenon DEF allow

\* What allow does to a limiter: the window only moves to the present, and only
\* when it has expired; a grant counts one more request.
LEMMA AllowFacts ==
  ASSUME LimiterInv,
         NEW a, a = allow(limiter, now)
  PROVE  /\ a.limiter.windowStart \in Nat /\ a.limiter.windowStart <= now
         /\ now < a.limiter.windowStart + Window
         /\ \/ a.limiter.windowStart = limiter.windowStart
            \/ /\ a.limiter.windowStart = now
               /\ expired(limiter, now)
         /\ a.allowed =>
              LET c == IF expired(limiter, now) THEN 0 ELSE limiter.count
              IN c < Limit /\ a.limiter.count = c + 1
         /\ ~a.allowed =>
              /\ ~expired(limiter, now) /\ a.limiter = limiter
              /\ a.retryAfter = retryAfterSeconds(limiter.windowStart + Window - now)
<1> DEFINE r == renew(limiter, now)
<1>1. /\ now \in Nat /\ limiter.windowStart \in Int /\ limiter.windowStart <= now
      /\ limiter.windowStart # ZeroTime => limiter.windowStart \in Nat
      /\ limiter.count \in Nat /\ Window \in Nat \ {0} /\ Limit \in Nat \ {0}
      /\ limiter = [windowStart |-> limiter.windowStart, count |-> limiter.count]
  BY RateAssumption DEF LimiterInv, TypeOK, ZeroTime
<1>2. CASE expired(limiter, now)
  <2>1. r = [windowStart |-> now, count |-> 0]  BY <1>2 DEF renew
  <2>2. a.allowed /\ a.limiter = [windowStart |-> now, count |-> 1]
    BY <1>1, <2>1, AllowFields
  <2> QED  BY <1>1, <1>2, <2>2
<1>3. CASE ~expired(limiter, now)
  <2>1. r = limiter  BY <1>3 DEF renew
  <2>2. limiter.windowStart \in Nat /\ now < limiter.windowStart + Window
    BY <1>1, <1>3 DEF expired
  <2>3. /\ a.allowed <=> limiter.count < Limit
        /\ a.allowed => a.limiter = [windowStart |-> limiter.windowStart,
                                     count |-> limiter.count + 1]
        /\ ~a.allowed => a.limiter = limiter
        /\ ~a.allowed =>
             a.retryAfter = retryAfterSeconds(limiter.windowStart + Window - now)
    <3>1. limiter = renew(limiter, now)  BY <2>1
    <3> QED  BY <1>1, <3>1, AllowFields
  <2> QED  BY <1>1, <1>3, <2>2, <2>3
<1> QED  BY <1>2, <1>3

\* A granted request keeps the limiter and its history in step.
LEMMA GrantStep == ASSUME LimiterInv, Grant PROVE LimiterInv'
<1> DEFINE a == allow(limiter, now)
           n == Len(grants)
           k == IF expired(limiter, now) THEN 0 ELSE limiter.count
           ws == a.limiter.windowStart
<1>1. /\ a.allowed /\ limiter' = a.limiter /\ now' = now /\ denied' = denied
      /\ grants' = Append(grants, [at |-> now, window |-> ws])
  BY DEF Grant
<1>2. /\ ws \in Nat /\ ws <= now /\ now < ws + Window
      /\ ws = limiter.windowStart \/ (ws = now /\ expired(limiter, now))
      /\ k < Limit /\ a.limiter.count = k + 1
  BY <1>1, AllowFacts
<1>3. a.limiter = [windowStart |-> ws, count |-> k + 1]
  BY <1>1, RateAssumption DEF allow, renew, LimiterInv, TypeOK
<1> HIDE DEF a, ws
<1>4. TypeOK'
  BY <1>1, <1>2, <1>3, RateAssumption DEF LimiterInv, TypeOK
<1>5. /\ n \in Nat /\ Len(grants') = n + 1
      /\ grants'[n + 1] = [at |-> now, window |-> ws]
      /\ \A i \in 1..n : grants'[i] = grants[i]
  BY <1>1 DEF LimiterInv, TypeOK
<1>6. /\ \A i \in 1..n : /\ grants[i].window \in Nat /\ grants[i].at \in Nat
                         /\ grants[i].window <= ws
                         /\ i <= n - k => grants[i].window + Window <= ws
      /\ k \in 0..n
  <2>1. \A i \in 1..n : /\ grants[i].window \in Nat /\ grants[i].at \in Nat
                        /\ grants[i].window <= limiter.windowStart
                        /\ i <= n - limiter.count =>
                             grants[i].window + Window <= limiter.windowStart
    BY GrantType DEF LimiterInv
  <2>2. /\ limiter.count \in 0..n /\ limiter.windowStart \in Int
        /\ limiter.windowStart = ZeroTime => n = 0
    BY DEF LimiterInv, TypeOK, ZeroTime
  <2>3. CASE expired(limiter, now)
    <3>1. k = 0 /\ (n = 0 \/ limiter.windowStart + Window <= now)
      BY <2>2, <2>3 DEF expired
    <3>2. n = 0 \/ limiter.windowStart + Window <= ws
      <4>1. ws = now
        BY <1>2, <2>3, RateAssumption DEF ws, a, allow, renew, LimiterInv, TypeOK
      <4> QED  BY <3>1, <4>1
    <3> QED  BY <1>2, <1>5, <2>1, <2>2, <3>1, <3>2, RateAssumption
  <2>4. CASE ~expired(limiter, now)
    <3>1. k = limiter.count /\ ws = limiter.windowStart  BY <1>2, <2>4
    <3> QED  BY <2>1, <2>2, <3>1
  <2> QED  BY <2>3, <2>4
<1>7. \A i \in 1..Len(grants') :
        /\ grants'[i].window <= limiter'.windowStart
        /\ grants'[i].window <= grants'[i].at
        /\ grants'[i].at < grants'[i].window + Window
        /\ i <= Len(grants') - limiter'.count =>
             grants'[i].window + Window <= limiter'.windowStart
  <2> SUFFICES ASSUME NEW i \in 1..Len(grants')
               PROVE  /\ grants'[i].window <= ws
                      /\ grants'[i].window <= grants'[i].at
                      /\ grants'[i].at < grants'[i].window + Window
                      /\ i <= n - k => grants'[i].window + Window <= ws
    BY <1>1, <1>3, <1>5, <1>6
  <2>1. CASE i = n + 1  BY <2>1, <1>2, <1>5, <1>6
  <2>2. CASE i \in 1..n  BY <2>2, <1>5, <1>6 DEF LimiterInv
  <2> QED  BY <2>1, <2>2, <1>5
<1>8. WindowLimit'
  <2> SUFFICES ASSUME NEW i \in 1..Len(grants'), i + Limit <= Len(grants')
               PROVE  grants'[i + Limit].window >= grants'[i].window + Window
    BY DEF WindowLimit
  <2>1. CASE i + Limit <= n
    BY <2>1, <1>5, RateAssumption DEF LimiterInv, WindowLimit
  <2>2. CASE i + Limit = n + 1
    <3>1. i \in 1..n /\ i <= n - k  BY <2>2, <1>2, <1>5, <1>6, RateAssumption
    <3> QED  BY <2>2, <3>1, <1>5, <1>6
  <2> QED  BY <2>1, <2>2, <1>5, RateAssumption
<1> QED
  BY <1>1, <1>2, <1>3, <1>4, <1>5, <1>6, <1>7, <1>8, RateAssumption
  DEF LimiterInv, RetryAfterExact, ZeroTime

\* A refused request changes nothing but the last denial, whose Retry-After is
\* the rest of the window in whole seconds.
LEMMA DenyStep == ASSUME LimiterInv, Deny PROVE LimiterInv'
<1> DEFINE rest == limiter.windowStart + Window - now
<1>1. /\ limiter' = limiter /\ grants' = grants /\ now' = now
      /\ ~expired(limiter, now)
      /\ denied' = [at |-> now, window |-> limiter.windowStart,
                    retryAfter |-> retryAfterSeconds(rest)]
  BY AllowFacts DEF Deny
<1>2. rest \in Nat \ {0} /\ limiter.windowStart \in Nat
  BY <1>1, RateAssumption DEF expired, LimiterInv, TypeOK
<1>3. /\ retryAfterSeconds(rest) \in Nat
      /\ retryAfterSeconds(rest) * Second >= rest
      /\ (retryAfterSeconds(rest) - 1) * Second < rest
  BY <1>2, CeilSeconds
<1>4. TypeOK'  BY <1>1, <1>2, <1>3 DEF LimiterInv, TypeOK
<1>5. RetryAfterExact' /\ denied'.window + Window > denied'.at
  <2> DEFINE q == retryAfterSeconds(rest)
  <2>1. now \in Nat /\ Window \in Nat /\ Second \in Nat
    BY RateAssumption DEF LimiterInv, TypeOK
  <2> HIDE DEF q
  <2>2. /\ denied'.at = now /\ denied'.window = limiter.windowStart
        /\ denied'.retryAfter = q
    BY <1>1 DEF q
  <2>3. q \in Nat /\ q * Second \in Int /\ (q - 1) * Second \in Int
    BY <1>3, <2>1 DEF q
  <2>4. q * Second >= rest /\ (q - 1) * Second < rest  BY <1>3 DEF q
  <2> QED  BY <1>2, <2>1, <2>2, <2>3, <2>4 DEF RetryAfterExact
<1> QED  BY <1>1, <1>4, <1>5 DEF LimiterInv, WindowLimit

\* The relation between the limiter and its history is inductive.
THEOREM LimiterInvariance == Spec => []LimiterInv
<1>1. Init => LimiterInv
  BY RateAssumption
  DEF Init, LimiterInv, TypeOK, newLimiter, NoDenial, ZeroTime, WindowLimit,
      RetryAfterExact
<1>2. LimiterInv /\ [Next]_vars => LimiterInv'
  <2> SUFFICES ASSUME LimiterInv, [Next]_vars PROVE LimiterInv'  OBVIOUS
  <2>1. ASSUME NEW d \in Nat, Tick(d) PROVE LimiterInv'
    BY <2>1 DEF Tick, LimiterInv, TypeOK, WindowLimit, RetryAfterExact, ZeroTime
  <2>2. CASE UNCHANGED vars
    BY <2>2 DEF vars, LimiterInv, TypeOK, WindowLimit, RetryAfterExact
  <2> QED  BY <2>1, <2>2, GrantStep, DenyStep DEF Next
<1> QED  BY <1>1, <1>2, PTL DEF Spec

\* No window grants more than Limit requests.
THEOREM WindowIsLimited == Spec => []WindowLimit
<1> QED  BY LimiterInvariance, PTL DEF LimiterInv

\* No interval as long as the window sees more than 2 * Limit grants.
THEOREM BurstIsBounded == Spec => []BurstBound
<1>1. LimiterInv => BurstBound
  <2> SUFFICES ASSUME LimiterInv, NEW i \in 1..Len(grants),
                      i + 2 * Limit <= Len(grants)
               PROVE  grants[i + 2 * Limit].at > grants[i].at + Window
    BY DEF BurstBound
  <2> DEFINE j == i + Limit
             k == j + Limit
  <2>0. Len(grants) \in Nat /\ Limit \in Nat \ {0} /\ 2 * Limit = Limit + Limit
    BY RateAssumption DEF LimiterInv, TypeOK
  <2>1. /\ j \in 1..Len(grants) /\ k \in 1..Len(grants) /\ k = i + 2 * Limit
        /\ j <= Len(grants) /\ k <= Len(grants)
    BY <2>0
  <2> HIDE DEF k
  <2>2. /\ grants[i].at \in Nat /\ grants[i].window \in Nat
        /\ grants[j].window \in Nat /\ grants[k].window \in Nat
        /\ grants[k].at \in Nat
    BY <2>1, GrantType DEF LimiterInv
  <2>3. /\ grants[j].window >= grants[i].window + Window
        /\ grants[k].window >= grants[j].window + Window
    BY <2>1 DEF LimiterInv, WindowLimit, k
  <2>4. grants[i].at < grants[i].window + Window /\ grants[k].window <= grants[k].at
    BY <2>1 DEF LimiterInv
  <2>5. grants[k].at > grants[i].at + Window
    <3>1. \A ai, wi, wj, wk, ak, w \in Nat :
             ai < wi + w /\ wj >= wi + w /\ wk >= wj + w /\ wk <= ak => ak > ai + w
      OBVIOUS
    <3> HIDE DEF j
    <3> QED  BY <2>2, <2>3, <2>4, <3>1, RateAssumption
  <2> QED  BY <2>1, <2>5
<1> QED  BY <1>1, LimiterInvariance, PTL

\* Retry-After reaches the end of the window, and not a second too late.
THEOREM RetryAfterIsExact == Spec => []RetryAfterExact
<1> QED  BY LimiterInvariance, PTL DEF LimiterInv

\* A client that honours Retry-After is not refused by the same window again.
THEOREM RetryIsHonoured == Spec => []RetryHonoured
<1>1. LimiterInv => RetryHonoured
  <2> SUFFICES ASSUME LimiterInv, denied # NoDenial,
                      now >= denied.at + denied.retryAfter * Second,
                      limiter.windowStart = denied.window
               PROVE  allow(limiter, now).allowed
    BY DEF RetryHonoured
  <2>1. now >= limiter.windowStart + Window
    <3>1. denied.at + denied.retryAfter * Second >= denied.window + Window
      BY DEF LimiterInv, RetryAfterExact
    <3>2. denied.retryAfter * Second \in Int
      BY RateAssumption DEF LimiterInv, TypeOK
    <3>3. /\ now \in Int /\ denied.at \in Int /\ denied.window \in Int
          /\ Window \in Int
      BY RateAssumption DEF LimiterInv, TypeOK, ZeroTime
    <3> QED  BY <3>1, <3>2, <3>3
  <2>2. expired(limiter, now)  BY <2>1 DEF expired
  <2>3. renew(limiter, now).count < Limit  BY <2>2, RateAssumption DEF renew
  <2> QED  BY <2>3, AllowFields
<1> QED  BY <1>1, LimiterInvariance, PTL
=============================================================================
