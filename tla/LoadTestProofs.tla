--------------------------- MODULE LoadTestProofs ---------------------------
(***************************************************************************)
(* loadtest.Run loses no request, sends nothing on a closed channel and    *)
(* reports nil only for a complete test, for any number of requests and    *)
(* workers.  LoadInv is inductive; the properties follow from it.          *)
(***************************************************************************)
EXTENDS LoadTest, FiniteSetTheorems, TLAPS

USE ConfigAssumption, LatencyAssumption

-----------------------------------------------------------------------------
(* Lemmas.                                                                 *)

\* The busy and the sending workers are finitely many.
LEMMA InFlightFinite == IsFiniteSet(InFlight) /\ Cardinality(InFlight) \in Nat
<1>1. IsFiniteSet(InFlight)
  BY FS_Subset DEF InFlight
<1> QED BY <1>1, FS_CardinalityType

\* A worker that takes a job adds one to the requests in flight.
LEMMA OneMore ==
  ASSUME TypeOK, NEW w \in Workers, worker[w] = "idle", NEW s \in {"busy", "sending"},
         worker' = [worker EXCEPT ![w] = s]
  PROVE  Cardinality(InFlight') = Cardinality(InFlight) + 1
<1>1. InFlight' = InFlight \cup {w} /\ w \notin InFlight
  BY DEF TypeOK, InFlight
<1> QED BY <1>1, InFlightFinite, FS_AddElement

\* A worker whose result is collected takes one away.
LEMMA OneLess ==
  ASSUME TypeOK, NEW w \in Workers, worker[w] = "sending",
         worker' = [worker EXCEPT ![w] = "idle"]
  PROVE  Cardinality(InFlight') = Cardinality(InFlight) - 1
<1>1. InFlight' = InFlight \ {w} /\ w \in InFlight
  BY DEF TypeOK, InFlight
<1> QED BY <1>1, InFlightFinite, FS_RemoveElement

\* n times a bound on every term bounds the sum; one more term keeps it.
LEMMA ProductStep ==
  ASSUME NEW n \in Nat, NEW a \in Nat, NEW b \in Nat, a <= b
  PROVE  a * n <= b * n /\ a * (n + 1) = a * n + a /\ b * (n + 1) = b * n + b
         /\ a * n \in Nat /\ b * n \in Nat
<1>1. PICK d \in Nat : b = a + d
  <2>1. b - a \in Nat /\ b = a + (b - a)
    OBVIOUS
  <2> QED BY <2>1
<1>2. b * n = a * n + d * n /\ d * n \in Nat /\ a * n \in Nat
  BY <1>1
<1>3. a * (n + 1) = a * n + a /\ b * (n + 1) = b * n + b
  OBVIOUS
<1> QED BY <1>2, <1>3

\* One more latency: its place in the history and in the results since a zero.
LEMMA Appended ==
  ASSUME TypeOK, NEW x \in 0..MaxLatency, latencies' = Append(latencies, x),
         NEW n, n = Len(latencies)
  PROVE  /\ n \in Nat /\ DOMAIN latencies = 1..n /\ DOMAIN latencies' = 1..n+1
         /\ Len(latencies') = n + 1 /\ latencies' \in Seq(0..MaxLatency)
         /\ latencies'[n + 1] = x
         /\ \A i \in 1..n : latencies'[i] = latencies[i] /\ latencies[i] \in 0..MaxLatency
         /\ x = 0 => SinceZero' = {}
         /\ x # 0 => SinceZero' = SinceZero \cup {n + 1}
<1>1. /\ n \in Nat /\ DOMAIN latencies = 1..n /\ DOMAIN latencies' = 1..n+1
      /\ Len(latencies') = n + 1 /\ latencies' \in Seq(0..MaxLatency)
      /\ latencies'[n + 1] = x
  BY DEF TypeOK
<1>2. \A i \in 1..n : latencies'[i] = latencies[i] /\ latencies[i] \in 0..MaxLatency
  BY DEF TypeOK
<1>3. SinceZero' = {i \in 1..n+1 : \A j \in i..n+1 : latencies'[j] # 0}
  BY <1>1 DEF SinceZero
<1>4. SinceZero = {i \in 1..n : \A j \in i..n : latencies[j] # 0}
  BY <1>1 DEF SinceZero
<1>5. ASSUME x = 0 PROVE SinceZero' = {}
  <2>1. \A i \in 1..n+1 : n + 1 \in i..n+1
    BY <1>1
  <2> QED BY <2>1, <1>1, <1>3, <1>5
<1>6. ASSUME x # 0 PROVE SinceZero' = SinceZero \cup {n + 1}
  <2>1. ASSUME NEW i \in 1..n
        PROVE  (\A j \in i..n+1 : latencies'[j] # 0) <=> (\A j \in i..n : latencies[j] # 0)
    <3>0. n \in Nat
      BY <1>1
    <3>1. i..n+1 = (i..n) \cup {n + 1}
      BY <3>0
    <3>2. \A j \in i..n : latencies'[j] = latencies[j]
      BY <1>1, <1>2
    <3>3. latencies'[n + 1] # 0
      BY <1>1, <1>6
    <3> QED BY <3>1, <3>2, <3>3
  <2>2. \A j \in n+1..n+1 : latencies'[j] # 0
    BY <1>1, <1>6
  <2>3. 1..n+1 = (1..n) \cup {n + 1} /\ n + 1 \notin 1..n
    BY <1>1
  <2> QED BY <1>3, <1>4, <2>1, <2>2, <2>3
<1> QED BY <1>1, <1>2, <1>5, <1>6

\* The part of LatencyInv about the greatest latency and the sum.
LEMMA AddTotal ==
  ASSUME TypeOK, LatencyInv, NEW o \in Outcome, result' = Add(result, o),
         latencies' = Append(latencies, o.latency), attempts' = attempts + 1
  PROVE  /\ \A i \in DOMAIN latencies' : latencies'[i] <= result'.max
         /\ \E i \in DOMAIN latencies' : latencies'[i] = result'.max
         /\ result'.total <= result'.max * attempts'
         /\ \A m \in 0..MaxLatency :
              (\A i \in DOMAIN latencies' : m <= latencies'[i]) => m * attempts' <= result'.total
<1> DEFINE n == Len(latencies)
           x == o.latency
           hi == result.max
           t == result.total
<1>1. /\ x \in 0..MaxLatency /\ x \in Nat /\ hi \in Nat /\ t \in Nat /\ n \in Nat
      /\ attempts = n
  BY DEF TypeOK, LatencyInv, Outcome, Result
<1>2. /\ result'.total = t + x /\ result'.max = (IF x > hi THEN x ELSE hi)
  BY DEF Add
<1>3. /\ DOMAIN latencies = 1..n /\ DOMAIN latencies' = 1..n+1 /\ latencies'[n + 1] = x
      /\ \A i \in 1..n : latencies'[i] = latencies[i] /\ latencies[i] \in 0..MaxLatency
  BY <1>1, Appended
<1>4. /\ \A i \in 1..n : latencies[i] <= hi
      /\ n > 0 => \E i \in 1..n : latencies[i] = hi
      /\ n = 0 => hi = 0 /\ t = 0
      /\ t <= hi * n
      /\ \A m \in 0..MaxLatency : (\A i \in 1..n : m <= latencies[i]) => m * n <= t
  BY <1>1, <1>3 DEF LatencyInv
<1> HIDE DEF n, x, hi, t
<1> DEFINE top == IF x > hi THEN x ELSE hi
<1>5. top \in Nat /\ hi <= top /\ x <= top
  BY <1>1
<1>6. \A i \in 1..n+1 : latencies'[i] <= top
  <2> SUFFICES ASSUME NEW i \in 1..n+1 PROVE latencies'[i] <= top
    OBVIOUS
  <2>1. CASE i = n + 1
    BY <2>1, <1>3, <1>5
  <2>2. CASE i # n + 1
    <3>1. i \in 1..n
      BY <2>2, <1>1
    <3>2. latencies'[i] = latencies[i] /\ latencies[i] \in 0..MaxLatency /\ latencies[i] <= hi
      BY <3>1, <1>3, <1>4
    <3>3. latencies[i] \in Nat
      BY <3>2
    <3> HIDE DEF top
    <3> QED BY <3>2, <3>3, <1>1, <1>5
  <2> QED BY <2>1, <2>2
<1>7. \E i \in 1..n+1 : latencies'[i] = top
  <2>0. n + 1 \in 1..n+1 /\ \A i \in 1..n : i \in 1..n+1
    BY <1>1
  <2>1. CASE x > hi
    BY <2>0, <2>1, <1>3
  <2>2. CASE ~(x > hi) /\ n > 0
    <3>1. PICK i \in 1..n : latencies[i] = hi
      BY <2>2, <1>4
    <3> QED BY <3>1, <2>0, <2>2, <1>3
  <2>3. CASE ~(x > hi) /\ n = 0
    BY <2>0, <2>3, <1>1, <1>3, <1>4
  <2>4. n = 0 \/ n > 0
    BY <1>1
  <2> QED BY <2>1, <2>2, <2>3, <2>4
<1>8. t + x <= top * (n + 1)
  <2>1. hi * n <= top * n /\ top * (n + 1) = top * n + top /\ top * n \in Nat /\ hi * n \in Nat
    BY <1>1, <1>5, ProductStep
  <2>2. t <= hi * n
    BY <1>4
  <2> DEFINE p == hi * n
             q == top * n
             r == top * (n + 1)
  <2>3. p \in Nat /\ q \in Nat /\ t <= p /\ p <= q /\ r = q + top
    BY <2>1, <2>2
  <2> HIDE DEF p, q, r, top
  <2>4. t \in Nat /\ x \in Nat /\ top \in Nat /\ x <= top
    BY <1>1, <1>5
  <2>5. t + x <= r
    BY <2>3, <2>4
  <2> QED BY <2>5 DEF r
<1>9. ASSUME NEW m \in 0..MaxLatency, \A i \in 1..n+1 : m <= latencies'[i]
      PROVE  m * (n + 1) <= t + x
  <2>1. m \in Nat /\ m <= x
    <3>1. n + 1 \in 1..n+1
      BY <1>1
    <3> QED BY <3>1, <1>9, <1>3
  <2>2. \A i \in 1..n : m <= latencies[i]
    <3>1. \A i \in 1..n : i \in 1..n+1
      BY <1>1
    <3> QED BY <3>1, <1>9, <1>3
  <2>3. m * n <= t
    BY <2>2, <1>4
  <2>4. m * (n + 1) = m * n + m /\ m * n \in Nat
    BY <2>1, <1>1, ProductStep
  <2> QED BY <2>1, <2>3, <2>4, <1>1
<1> QED BY <1>1, <1>2, <1>3, <1>6, <1>7, <1>8, <1>9 DEF top

\* The part of LatencyInv about the minimum.
LEMMA AddMin ==
  ASSUME TypeOK, LatencyInv, NEW o \in Outcome, result' = Add(result, o),
         latencies' = Append(latencies, o.latency)
  PROVE  /\ SinceZero' = {} => result'.min = 0
         /\ SinceZero' # {} => /\ \A i \in SinceZero' : result'.min <= latencies'[i]
                               /\ \E i \in SinceZero' : latencies'[i] = result'.min
<1> DEFINE n == Len(latencies)
           x == o.latency
           lo == result.min
<1>1. x \in 0..MaxLatency /\ x \in Nat /\ lo \in Nat /\ n \in Nat
  BY DEF TypeOK, Outcome, Result
<1>2. result'.min = (IF lo = 0 \/ x < lo THEN x ELSE lo)
  BY DEF Add
<1>3. /\ latencies'[n + 1] = x
      /\ \A i \in 1..n : latencies'[i] = latencies[i] /\ latencies[i] \in 0..MaxLatency
      /\ x = 0 => SinceZero' = {}
      /\ x # 0 => SinceZero' = SinceZero \cup {n + 1}
  BY <1>1, Appended
<1>4. SinceZero \subseteq 1..n /\ \A i \in SinceZero : latencies[i] # 0
  <2>1. DOMAIN latencies = 1..n
    BY DEF TypeOK
  <2>2. \A i \in 1..n : i \in i..n
    BY <1>1
  <2> QED BY <2>1, <2>2 DEF SinceZero
<1>5. /\ SinceZero = {} => lo = 0
      /\ SinceZero # {} => /\ \A i \in SinceZero : lo <= latencies[i]
                           /\ \E i \in SinceZero : latencies[i] = lo
  BY DEF LatencyInv
<1> HIDE DEF n, x, lo
<1>6. CASE x = 0
  BY <1>1, <1>2, <1>3, <1>6
<1>7. CASE x # 0 /\ SinceZero = {}
  <2>1. lo = 0 /\ SinceZero' = {n + 1}
    BY <1>3, <1>5, <1>7
  <2>2. result'.min = x
    BY <1>2, <2>1
  <2>3. x <= x
    BY <1>1
  <2> QED BY <2>1, <2>2, <2>3, <1>3
<1>8. CASE x # 0 /\ SinceZero # {}
  <2>1. PICK k \in SinceZero : latencies[k] = lo
    BY <1>5, <1>8
  <2>2. lo # 0 /\ k \in 1..n /\ latencies'[k] = lo
    BY <2>1, <1>3, <1>4
  <2>3. SinceZero' = SinceZero \cup {n + 1}
    BY <1>3, <1>8
  <2>4. ASSUME NEW i \in SinceZero
        PROVE  latencies'[i] \in Nat /\ lo <= latencies'[i]
    <3>1. latencies'[i] = latencies[i] /\ latencies[i] \in 0..MaxLatency
      BY <1>3, <1>4
    <3>2. lo <= latencies[i]
      BY <1>5, <1>8
    <3> QED BY <3>1, <3>2
  <2>5. CASE x < lo
    <3>1. result'.min = x
      BY <1>2, <2>5
    <3>2. ASSUME NEW i \in SinceZero PROVE x <= latencies'[i]
      <4>1. latencies'[i] \in Nat /\ lo <= latencies'[i]
        BY <2>4
      <4> DEFINE y == latencies'[i]
      <4>2. y \in Nat /\ lo <= y
        BY <4>1
      <4> HIDE DEF y
      <4>3. x <= y
        BY <4>2, <2>5, <1>1
      <4> QED BY <4>3 DEF y
    <3>3. x <= x
      BY <1>1
    <3> QED BY <3>1, <3>2, <3>3, <2>3, <1>3
  <2>6. CASE ~(x < lo)
    <3>1. result'.min = lo /\ lo <= x
      BY <1>1, <1>2, <2>2, <2>6
    <3> QED BY <3>1, <2>1, <2>2, <2>3, <2>4, <1>3
  <2> QED BY <2>5, <2>6
<1> QED BY <1>6, <1>7, <1>8

\* Add keeps the summary true of the history.
LEMMA AddLatency ==
  ASSUME TypeOK, LatencyInv, NEW o \in Outcome, result' = Add(result, o),
         latencies' = Append(latencies, o.latency)
  PROVE  /\ LatencyInv' /\ result' \in Result /\ attempts' = attempts + 1
         /\ latencies' \in Seq(0..MaxLatency)
<1>1. /\ result \in Result /\ o.latency \in 0..MaxLatency /\ o.ok \in BOOLEAN
      /\ o.latency \in Nat /\ result.completed \in Nat /\ result.failed \in Nat
      /\ result.min \in Nat /\ result.max \in Nat /\ result.total \in Nat
  BY DEF TypeOK, Result, Outcome
<1>2. attempts \in Nat /\ attempts' = attempts + 1
  <2>1. /\ result'.completed = result.completed + (IF o.ok THEN 1 ELSE 0)
        /\ result'.failed = result.failed + (IF o.ok THEN 0 ELSE 1)
    BY DEF Add
  <2> QED BY <2>1, <1>1 DEF attempts
<1>3. result' \in Result
  <2> DEFINE c == result.completed + (IF o.ok THEN 1 ELSE 0)
             f == result.failed + (IF o.ok THEN 0 ELSE 1)
             lo == IF result.min = 0 \/ o.latency < result.min THEN o.latency ELSE result.min
             hi == IF o.latency > result.max THEN o.latency ELSE result.max
             t == result.total + o.latency
  <2>1. c \in Nat /\ f \in Nat /\ lo \in Nat /\ hi \in Nat /\ t \in Nat
    BY <1>1
  <2>2. result' = [completed |-> c, failed |-> f, min |-> lo, max |-> hi, total |-> t]
    BY DEF Add
  <2> HIDE DEF c, f, lo, hi, t
  <2> QED BY <2>1, <2>2 DEF Result
<1>4. Len(latencies') = attempts' /\ latencies' \in Seq(0..MaxLatency)
  BY <1>1, <1>2, Appended DEF LatencyInv
<1>5. /\ \A i \in DOMAIN latencies' : latencies'[i] <= result'.max
      /\ \E i \in DOMAIN latencies' : latencies'[i] = result'.max
      /\ result'.total <= result'.max * attempts'
      /\ \A m \in 0..MaxLatency :
           (\A i \in DOMAIN latencies' : m <= latencies'[i]) => m * attempts' <= result'.total
  BY <1>2, AddTotal
<1>6. /\ SinceZero' = {} => result'.min = 0
      /\ SinceZero' # {} => /\ \A i \in SinceZero' : result'.min <= latencies'[i]
                            /\ \E i \in SinceZero' : latencies'[i] = result'.min
  BY AddMin
<1>7. attempts' # 0
  BY <1>2
<1> QED BY <1>2, <1>3, <1>4, <1>5, <1>6, <1>7 DEF LatencyInv

-----------------------------------------------------------------------------
(* LoadInv is inductive.                                                   *)

\* LoadInv holds when Run starts its goroutines.
LEMMA LoadInit == Init => LoadInv
<1> SUFFICES ASSUME Init PROVE LoadInv
  OBVIOUS
<1>1. TypeOK
  <2>1. [ok |-> TRUE, latency |-> 0] \in Outcome
    BY DEF Outcome
  <2>2. result \in Result
    BY DEF Init, Result
  <2>3. outcome \in [Workers -> Outcome]
    BY <2>1 DEF Init
  <2>4. worker \in [Workers -> {"idle", "busy", "sending", "exit"}]
    BY DEF Init
  <2>5. handed \in 0..Requests /\ run \in {"collect", "nil", "err"}
    BY DEF Init
  <2>6. hasTimeout \in BOOLEAN /\ ctxDone \in BOOLEAN /\ jobsClosed \in BOOLEAN /\ resultsClosed \in BOOLEAN
    BY Zenon DEF Init
  <2>7. latencies \in Seq(0..MaxLatency)
    BY DEF Init
  <2> QED BY <2>2, <2>3, <2>4, <2>5, <2>6, <2>7 DEF TypeOK
<1>2. InFlight = {}
  BY DEF Init, InFlight
<1>3. Conservation
  BY <1>2, FS_EmptySet DEF Init, Conservation, attempts
<1>4. ChannelInv
  BY DEF Init, ChannelInv
<1>5. LatencyInv
  <2>1. /\ attempts = 0 /\ result.min = 0 /\ result.max = 0 /\ result.total = 0
        /\ Len(latencies) = 0 /\ DOMAIN latencies = {}
    BY DEF Init, attempts
  <2>2. SinceZero = {}
    BY <2>1 DEF SinceZero
  <2>3. \A m \in 0..MaxLatency : m * 0 = 0
    OBVIOUS
  <2> QED BY <2>1, <2>2, <2>3 DEF LatencyInv
<1> QED BY <1>1, <1>3, <1>4, <1>5 DEF LoadInv

\* Steps that leave the workers in flight and the counters alone.
LEMMA SameCounts ==
  ASSUME LoadInv, InFlight' = InFlight, UNCHANGED <<handed, result, latencies>>
  PROVE  Conservation' /\ LatencyInv'
BY DEF LoadInv, Conservation, LatencyInv, attempts, SinceZero

\* Every step of producer, workers, closer and collector keeps LoadInv.
LEMMA LoadNext == LoadInv /\ [Next]_vars => LoadInv'
<1> SUFFICES ASSUME LoadInv, [Next]_vars PROVE LoadInv'
  OBVIOUS
<1>t. TypeOK /\ ChannelInv /\ LatencyInv /\ Conservation
  BY DEF LoadInv
<1>1. CASE Cancel
  <2>1. TypeOK' /\ ChannelInv'
    BY <1>1, <1>t DEF Cancel, TypeOK, ChannelInv
  <2>2. InFlight' = InFlight
    BY <1>1 DEF Cancel, InFlight
  <2> QED BY <2>1, <2>2, <1>1, SameCounts DEF LoadInv, Cancel
<1>2. CASE CloseJobs
  <2>1. TypeOK' /\ ChannelInv'
    BY <1>2, <1>t DEF CloseJobs, TypeOK, ChannelInv
  <2>2. InFlight' = InFlight
    BY <1>2 DEF CloseJobs, InFlight
  <2> QED BY <2>1, <2>2, <1>2, SameCounts DEF LoadInv, CloseJobs
<1>3. CASE CloseResults
  <2>1. TypeOK' /\ ChannelInv'
    BY <1>3, <1>t DEF CloseResults, TypeOK, ChannelInv
  <2>2. InFlight' = InFlight
    BY <1>3 DEF CloseResults, InFlight
  <2> QED BY <2>1, <2>2, <1>3, SameCounts DEF LoadInv, CloseResults
<1>4. CASE Return
  <2>1. TypeOK' /\ ChannelInv'
    <3>1. jobsClosed
      BY <1>4, <1>t DEF Return, ChannelInv
    <3> QED BY <3>1, <1>4, <1>t DEF Return, TypeOK, ChannelInv
  <2>2. InFlight' = InFlight
    BY <1>4 DEF Return, InFlight
  <2> QED BY <2>1, <2>2, <1>4, SameCounts DEF LoadInv, Return
<1>5. ASSUME NEW w \in Workers, Hand(w) PROVE LoadInv'
  <2>1. TypeOK'
    BY <1>5, <1>t DEF Hand, TypeOK
  <2>2. ChannelInv'
    BY <1>5, <1>t DEF Hand, TypeOK, ChannelInv
  <2>3. Conservation'
    <3>1. Cardinality(InFlight') = Cardinality(InFlight) + 1
      BY <1>5, <1>t, OneMore DEF Hand
    <3>2. handed' = handed + 1 /\ attempts' = attempts /\ attempts \in Nat
      BY <1>5, <1>t DEF Hand, attempts, TypeOK, Result
    <3> QED BY <3>1, <3>2, <1>t, InFlightFinite DEF Conservation
  <2>4. LatencyInv'
    BY <1>5, <1>t DEF Hand, LatencyInv, attempts, SinceZero
  <2> QED BY <2>1, <2>2, <2>3, <2>4 DEF LoadInv
<1>6. ASSUME NEW w \in Workers, WorkerExit(w) PROVE LoadInv'
  <2>1. TypeOK' /\ ChannelInv'
    BY <1>6, <1>t DEF WorkerExit, TypeOK, ChannelInv
  <2>2. InFlight' = InFlight
    BY <1>6, <1>t DEF WorkerExit, InFlight, TypeOK
  <2> QED BY <2>1, <2>2, <1>6, SameCounts DEF LoadInv, WorkerExit
<1>7. ASSUME NEW w \in Workers, NEW o \in Outcome, Execute(w, o) PROVE LoadInv'
  <2>1. TypeOK' /\ ChannelInv'
    BY <1>7, <1>t DEF Execute, TypeOK, ChannelInv
  <2>2. InFlight' = InFlight
    BY <1>7, <1>t DEF Execute, InFlight, TypeOK
  <2> QED BY <2>1, <2>2, <1>7, SameCounts DEF LoadInv, Execute
<1>8. ASSUME NEW w \in Workers, Collect(w) PROVE LoadInv'
  <2>1. outcome[w] \in Outcome
    BY <1>t DEF TypeOK
  <2>2. /\ LatencyInv' /\ result' \in Result /\ attempts' = attempts + 1
        /\ latencies' \in Seq(0..MaxLatency)
    BY <1>8, <1>t, <2>1, AddLatency DEF Collect
  <2>3. TypeOK'
    BY <2>2, <1>8, <1>t DEF Collect, TypeOK
  <2>4. ChannelInv'
    BY <1>8, <1>t DEF Collect, TypeOK, ChannelInv
  <2>5. Conservation'
    <3>1. Cardinality(InFlight') = Cardinality(InFlight) - 1
      BY <1>8, <1>t, OneLess DEF Collect
    <3>2. handed' = handed /\ attempts \in Nat
      BY <1>8, <1>t DEF Collect, attempts, TypeOK, Result
    <3> QED BY <3>1, <3>2, <2>2, <1>t, InFlightFinite DEF Conservation
  <2> QED BY <2>2, <2>3, <2>4, <2>5 DEF LoadInv
<1>9. CASE UNCHANGED vars
  BY <1>9, <1>t DEF vars, LoadInv, TypeOK, Conservation, ChannelInv, LatencyInv,
                    InFlight, attempts, SinceZero
<1> QED
  BY <1>1, <1>2, <1>3, <1>4, <1>5, <1>6, <1>7, <1>8, <1>9
  DEF Next, Steps, Terminated

-----------------------------------------------------------------------------
(* Theorems.                                                               *)

\* LoadInv is an invariant of loadtest.Run.
THEOREM LoadInvariance == Spec => []LoadInv
BY LoadInit, LoadNext, PTL DEF Spec

\* A handed out job is in one worker's hands or counted exactly once.
THEOREM JobsConserved == Spec => []Conservation
<1>1. LoadInv => Conservation
  BY DEF LoadInv
<1> QED BY <1>1, LoadInvariance, PTL

\* No worker is left, let alone sending, once results is closed; Run returns
\* only after both channels are closed.
THEOREM ChannelsCloseLast == Spec => []ClosedMeansDone
<1>1. LoadInv => ClosedMeansDone
  BY DEF LoadInv, ChannelInv, ClosedMeansDone
<1> QED BY <1>1, LoadInvariance, PTL

\* A nil error means that all requested attempts were made and counted.
THEOREM NilIsComplete == Spec => []NilMeansAll
<1>1. LoadInv => NilMeansAll
  <2> SUFFICES ASSUME LoadInv, run = "nil" PROVE attempts = Requests
    BY DEF NilMeansAll
  <2>1. InFlight = {}
    BY DEF LoadInv, ChannelInv, InFlight
  <2>2. Cardinality(InFlight) = 0
    BY <2>1, FS_EmptySet
  <2>3. attempts \in Nat
    BY DEF LoadInv, TypeOK, Result, attempts
  <2> QED BY <2>2, <2>3 DEF LoadInv, ChannelInv, Conservation
<1> QED BY <1>1, LoadInvariance, PTL

\* The greatest latency is reported, the average lies between the least and the
\* greatest, and the minimum is that of the results since the last zero.
THEOREM SummaryIsTrue == Spec => []LatencySummary
<1>1. ASSUME NEW t \in Nat, NEW n \in Nat \ {0}, NEW lo \in Nat, NEW hi \in Nat,
             lo * n <= t, t <= hi * n
      PROVE  lo <= t \div n /\ t \div n <= hi
  <2> DEFINE q == t \div n
  <2>1. q \in Nat /\ t = q * n + (t % n) /\ t % n \in 0..n-1
    OBVIOUS
  <2>2. q * n \in Nat /\ (q + 1) * n = q * n + n
    BY <2>1
  <2>3. lo <= q
    <3> SUFFICES ASSUME q + 1 <= lo PROVE FALSE
      BY <2>1
    <3>1. (q + 1) * n <= lo * n
      BY <2>1, ProductStep
    <3> QED BY <1>1, <3>1, <2>1, <2>2
  <2>4. q <= hi
    <3> SUFFICES ASSUME hi + 1 <= q PROVE FALSE
      BY <2>1
    <3>1. (hi + 1) * n <= q * n
      BY <2>1, ProductStep
    <3>2. (hi + 1) * n = hi * n + n
      OBVIOUS
    <3> QED BY <1>1, <3>1, <3>2, <2>1, <2>2
  <2> QED BY <2>3, <2>4
<1>2. LoadInv => LatencySummary
  <2> SUFFICES ASSUME LoadInv, attempts > 0 PROVE LatencySummary
    BY DEF LatencySummary
  <2> DEFINE n == attempts
             avg == result.total \div n
  <2>1. /\ n \in Nat \ {0} /\ result.min \in Nat /\ result.max \in Nat
        /\ result.total \in Nat /\ DOMAIN latencies = 1..n
        /\ \A i \in 1..n : latencies[i] \in 0..MaxLatency
    <3>1. TypeOK /\ Len(latencies) = attempts
      BY DEF LoadInv, LatencyInv
    <3>2. result \in Result /\ latencies \in Seq(0..MaxLatency)
      BY <3>1 DEF TypeOK
    <3>3. /\ result.completed \in Nat /\ result.failed \in Nat /\ result.min \in Nat
          /\ result.max \in Nat /\ result.total \in Nat
      BY <3>2 DEF Result
    <3>4. attempts \in Nat \ {0}
      BY <3>3 DEF attempts
    <3> HIDE DEF n
    <3>5. DOMAIN latencies = 1..attempts /\ \A i \in 1..attempts : latencies[i] \in 0..MaxLatency
      BY <3>1, <3>2
    <3> QED BY <3>3, <3>4, <3>5 DEF n
  <2>2. /\ \A i \in 1..n : latencies[i] <= result.max
        /\ \E i \in 1..n : latencies[i] = result.max
        /\ result.total <= result.max * n
        /\ \A m \in 0..MaxLatency : (\A i \in 1..n : m <= latencies[i]) => m * n <= result.total
        /\ SinceZero = {} => result.min = 0
        /\ SinceZero # {} => /\ \A i \in SinceZero : result.min <= latencies[i]
                             /\ \E i \in SinceZero : latencies[i] = result.min
    <3>1. LatencyInv /\ n > 0
      BY <2>1 DEF LoadInv
    <3> QED BY <2>1, <3>1 DEF LatencyInv
  <2>3. AvgLatency = avg
    BY DEF AvgLatency
  <2> HIDE DEF n
  <2>4. result.max * n \in Nat /\ 0 * n <= result.total /\ avg \in Nat /\ avg <= result.max
    <3>1. 0 * n = 0 /\ result.max * n \in Nat
      BY <2>1
    <3> QED BY <3>1, <1>1, <2>1, <2>2
  <2> HIDE DEF avg
  <2>5. ASSUME NEW m \in 0..MaxLatency, \A i \in 1..n : m <= latencies[i] PROVE m <= avg
    <3>1. m \in Nat /\ m * n <= result.total
      BY <2>2, <2>5
    <3> QED BY <3>1, <1>1, <2>1, <2>2 DEF avg
  <2>6. \E i \in 1..n : latencies[i] <= avg
    <3> SUFFICES ASSUME \A i \in 1..n : ~(latencies[i] <= avg) PROVE FALSE
      OBVIOUS
    <3>1. \A i \in 1..n : avg + 1 <= latencies[i]
      BY <2>1, <2>4
    <3>2. avg + 1 \in 0..MaxLatency
      <4>1. 1 \in 1..n
        BY <2>1
      <4> QED BY <4>1, <3>1, <2>1, <2>4
    <3>3. avg + 1 <= avg
      BY <3>1, <3>2, <2>5
    <3> QED BY <3>3, <2>4
  <2>7. SinceZero = 1..n => result.min <= avg
    <3> SUFFICES ASSUME SinceZero = 1..n PROVE result.min <= avg
      OBVIOUS
    <3>1. 1 \in SinceZero
      BY <2>1
    <3>2. /\ \A i \in 1..n : result.min <= latencies[i]
          /\ result.min \in 0..MaxLatency
      BY <3>1, <2>1, <2>2
    <3> QED BY <3>2, <2>5
  <2> QED BY <2>1, <2>2, <2>3, <2>4, <2>6, <2>7 DEF LatencySummary
<1> QED BY <1>2, LoadInvariance, PTL
=============================================================================
