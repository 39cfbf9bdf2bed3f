------------------------------ MODULE LoadTest ------------------------------
(***************************************************************************)
(* loadtest.Run (src/internal/loadtest/loadtest.go): a producer goroutine  *)
(* hands out jobs, Concurrency workers execute requests, a closer          *)
(* goroutine closes the result channel after the last worker, and the      *)
(* caller collects.  Both channels are unbuffered: a send and its receive  *)
(* are one step.                                                           *)
(***************************************************************************)
EXTENDS Integers, FiniteSets, Sequences

CONSTANTS Requests,     \* Config.Requests
          Workers,      \* the Config.Concurrency worker goroutines
          MaxLatency    \* latencies are 0..MaxLatency clock units

\* validateConfig.
ASSUME ConfigAssumption == /\ Requests \in Nat \ {0}
                           /\ IsFiniteSet(Workers) /\ Workers # {}
ASSUME LatencyAssumption == MaxLatency \in Nat

VARIABLES hasTimeout,     \* Config.Timeout > 0
          ctxDone,        \* the context is canceled
          handed,         \* jobs the producer has handed out
          jobsClosed,     \* the producer has returned and closed jobs
          worker,         \* per worker: "idle", "busy", "sending" or "exit"
          outcome,        \* per worker: its last requestResult
          resultsClosed,  \* the closer has closed results
          result,         \* the Result being collected
          run,            \* Run itself: "collect", "nil" or "err" once returned
          latencies       \* history: the latencies that were added to result

vars == <<hasTimeout, ctxDone, handed, jobsClosed, worker, outcome, resultsClosed,
          result, run, latencies>>

Result == [completed : Nat, failed : Nat, min : Nat, max : Nat, total : Nat]

\* time.Since may be zero: the clock need not advance during a request.
Outcome == [ok : BOOLEAN, latency : 0..MaxLatency]

attempts == result.completed + result.failed

Init == /\ hasTimeout \in BOOLEAN /\ ctxDone = FALSE /\ handed = 0 /\ jobsClosed = FALSE
        /\ worker = [w \in Workers |-> "idle"]
        /\ outcome = [w \in Workers |-> [ok |-> TRUE, latency |-> 0]]
        /\ resultsClosed = FALSE /\ run = "collect" /\ latencies = <<>>
        /\ result = [completed |-> 0, failed |-> 0, min |-> 0, max |-> 0, total |-> 0]

Cancel == /\ ~ctxDone /\ ctxDone' = TRUE
          /\ UNCHANGED <<hasTimeout, handed, jobsClosed, worker, outcome,
                         resultsClosed, result, run, latencies>>

-----------------------------------------------------------------------------
(* The producer.                                                           *)

\* The select takes jobs <- i: an idle worker receives.
Hand(w) ==
  /\ ~jobsClosed /\ handed < Requests /\ worker[w] = "idle"
  /\ handed' = handed + 1
  /\ worker' = [worker EXCEPT ![w] = "busy"]
  /\ UNCHANGED <<hasTimeout, ctxDone, jobsClosed, outcome, resultsClosed,
                 result, run, latencies>>

\* Mutant of CloseJobs: one job is left out.
CloseJobsEarly ==
  /\ ~jobsClosed /\ (handed = Requests - 1 \/ ctxDone)
  /\ jobsClosed' = TRUE
  /\ UNCHANGED <<hasTimeout, ctxDone, handed, worker, outcome, resultsClosed,
                 result, run, latencies>>

\* Mutant of CloseJobs: jobs is closed only after the last job, not when the
\* producer leaves because of the context.
CloseJobsNotDeferred ==
  /\ ~jobsClosed /\ handed = Requests /\ ~ctxDone
  /\ jobsClosed' = TRUE
  /\ UNCHANGED <<hasTimeout, ctxDone, handed, worker, outcome, resultsClosed,
                 result, run, latencies>>

\* All jobs are handed out, or the select takes ctx.Done(): close(jobs).
CloseJobs ==
  /\ ~jobsClosed /\ (handed = Requests \/ ctxDone)
  /\ jobsClosed' = TRUE
  /\ UNCHANGED <<hasTimeout, ctxDone, handed, worker, outcome, resultsClosed,
                 result, run, latencies>>

-----------------------------------------------------------------------------
(* The workers.                                                            *)

\* Mutant of Execute: a request that fails under a canceled context is dropped.
ExecuteDropCanceled(w, o) ==
  /\ worker[w] = "busy"
  /\ worker' = [worker EXCEPT ![w] = IF ctxDone /\ ~o.ok THEN "idle" ELSE "sending"]
  /\ outcome' = [outcome EXCEPT ![w] = o]
  /\ UNCHANGED <<hasTimeout, ctxDone, handed, jobsClosed, resultsClosed, result, run,
                 latencies>>

\* executeRequest: a response was read to its end, or anything failed.
Execute(w, o) ==
  /\ worker[w] = "busy"
  /\ worker' = [worker EXCEPT ![w] = "sending"]
  /\ outcome' = [outcome EXCEPT ![w] = o]
  /\ UNCHANGED <<hasTimeout, ctxDone, handed, jobsClosed, resultsClosed, result, run,
                 latencies>>

WorkerExit(w) ==
  /\ worker[w] = "idle" /\ jobsClosed
  /\ worker' = [worker EXCEPT ![w] = "exit"]
  /\ UNCHANGED <<hasTimeout, ctxDone, handed, jobsClosed, outcome, resultsClosed,
                 result, run, latencies>>

\* Mutant of CloseResults: no wg.Wait().
CloseResultsNoWait ==
  /\ ~resultsClosed /\ jobsClosed
  /\ resultsClosed' = TRUE
  /\ UNCHANGED <<hasTimeout, ctxDone, handed, jobsClosed, worker, outcome, result, run,
                 latencies>>

\* The closer: wg.Wait(), close(results).
CloseResults ==
  /\ ~resultsClosed /\ \A w \in Workers : worker[w] = "exit"
  /\ resultsClosed' = TRUE
  /\ UNCHANGED <<hasTimeout, ctxDone, handed, jobsClosed, worker, outcome, result, run,
                 latencies>>

-----------------------------------------------------------------------------
(* The collector.                                                          *)

\* Mutant of Add: the maximum is not updated by the first result.
AddNoFirstMax(r, o) ==
  [completed |-> r.completed + (IF o.ok THEN 1 ELSE 0),
   failed    |-> r.failed + (IF o.ok THEN 0 ELSE 1),
   min       |-> IF r.min = 0 \/ o.latency < r.min THEN o.latency ELSE r.min,
   max       |-> IF r.min # 0 /\ o.latency > r.max THEN o.latency ELSE r.max,
   total     |-> r.total + o.latency]

\* One result is added to the summary; min = 0 is read as "no result yet".
Add(r, o) ==
  [completed |-> r.completed + (IF o.ok THEN 1 ELSE 0),
   failed    |-> r.failed + (IF o.ok THEN 0 ELSE 1),
   min       |-> IF r.min = 0 \/ o.latency < r.min THEN o.latency ELSE r.min,
   max       |-> IF o.latency > r.max THEN o.latency ELSE r.max,
   total     |-> r.total + o.latency]

\* A worker's send on results meets the collector's receive.
Collect(w) ==
  /\ run = "collect" /\ worker[w] = "sending" /\ ~resultsClosed
  /\ result' = Add(result, outcome[w])
  /\ latencies' = Append(latencies, outcome[w].latency)
  /\ worker' = [worker EXCEPT ![w] = "idle"]
  /\ UNCHANGED <<hasTimeout, ctxDone, handed, jobsClosed, outcome, resultsClosed, run>>

\* Mutant of Return: ctx.Err() is not looked at.
ReturnNil ==
  /\ run = "collect" /\ resultsClosed
  /\ run' = "nil"
  /\ UNCHANGED <<hasTimeout, ctxDone, handed, jobsClosed, worker, outcome,
                 resultsClosed, result, latencies>>

\* results is closed: averages, then the error of the context if it has one.
Return ==
  /\ run = "collect" /\ resultsClosed
  /\ run' = IF ctxDone THEN "err" ELSE "nil"
  /\ UNCHANGED <<hasTimeout, ctxDone, handed, jobsClosed, worker, outcome,
                 resultsClosed, result, latencies>>

AvgLatency == IF attempts > 0 THEN result.total \div attempts ELSE 0

-----------------------------------------------------------------------------

Terminated == run # "collect" /\ UNCHANGED vars

Steps(w) == \/ Hand(w) \/ WorkerExit(w) \/ Collect(w)
            \/ \E o \in Outcome : Execute(w, o)

Next == Cancel \/ CloseJobs \/ CloseResults \/ Return \/ Terminated
        \/ \E w \in Workers : Steps(w)

Spec == Init /\ [][Next]_vars

\* Goroutines that are not blocked run; an HTTP request ends if the client has
\* a timeout or once its context is canceled.
Fairness ==
  /\ WF_vars(CloseJobs) /\ WF_vars(CloseResults) /\ WF_vars(Return)
  /\ \A w \in Workers :
       /\ WF_vars(Hand(w)) /\ WF_vars(WorkerExit(w)) /\ WF_vars(Collect(w))
       /\ WF_vars((hasTimeout \/ ctxDone) /\ \E o \in Outcome : Execute(w, o))

FairSpec == Spec /\ Fairness

-----------------------------------------------------------------------------
(* Properties.                                                             *)

\* The channels, workers and counters stay in their domains.
TypeOK == /\ hasTimeout \in BOOLEAN /\ ctxDone \in BOOLEAN
          /\ handed \in 0..Requests /\ jobsClosed \in BOOLEAN
          /\ worker \in [Workers -> {"idle", "busy", "sending", "exit"}]
          /\ outcome \in [Workers -> Outcome]
          /\ resultsClosed \in BOOLEAN /\ result \in Result
          /\ latencies \in Seq(0..MaxLatency)
          /\ run \in {"collect", "nil", "err"}

InFlight == {w \in Workers : worker[w] \in {"busy", "sending"}}

\* Every job handed out is in the hands of one worker or counted exactly once,
\* as completed or as failed: none is lost between the two channels.
Conservation == handed = attempts + Cardinality(InFlight)

\* No worker can be sending on the closed results channel (which would panic),
\* and none is left when Run returns.
ClosedMeansDone ==
  /\ resultsClosed => \A w \in Workers : worker[w] = "exit"
  /\ run # "collect" => resultsClosed /\ jobsClosed

\* If Run reports no error, every requested attempt was made and counted, even
\* though the producer stops early on cancellation without telling anyone.
NilMeansAll == run = "nil" => attempts = Requests

\* The results since the last one that took no measurable time.
SinceZero == {i \in DOMAIN latencies : \A j \in i..Len(latencies) : latencies[j] # 0}

\* What the reported latencies say of the requests: MaxLatency is the greatest,
\* and the average, an integer division, lies between the least and the greatest.
\* MinLatency is the least of those since the last zero, and zero if that was
\* the last: a minimum of zero is taken for "no result yet" and lost with the
\* next result.  So it is the least of all, and at most the average, whenever
\* no request took zero time.
LatencySummary ==
  attempts > 0 =>
    /\ \A i \in DOMAIN latencies : latencies[i] <= result.max
    /\ \E i \in DOMAIN latencies : latencies[i] = result.max
    /\ \E i \in DOMAIN latencies : latencies[i] <= AvgLatency
    /\ AvgLatency <= result.max
    /\ SinceZero = {} => result.min = 0
    /\ SinceZero # {} => /\ \A i \in SinceZero : result.min <= latencies[i]
                         /\ \E i \in SinceZero : latencies[i] = result.min
    /\ SinceZero = DOMAIN latencies => result.min <= AvgLatency

-----------------------------------------------------------------------------
(* The inductive invariant behind the safety properties.                   *)

\* Why each channel could be closed, and what Run knew when it returned nil.
ChannelInv ==
  /\ jobsClosed => handed = Requests \/ ctxDone
  /\ \A w \in Workers : worker[w] = "exit" => jobsClosed
  /\ resultsClosed => \A w \in Workers : worker[w] = "exit"
  /\ run # "collect" => resultsClosed
  /\ run = "nil" => handed = Requests

\* What the summary holds of the latencies added so far; their sum is at most
\* attempts times the greatest, at least attempts times any lower bound.
LatencyInv ==
  /\ Len(latencies) = attempts
  /\ attempts = 0 => result.min = 0 /\ result.max = 0 /\ result.total = 0
  /\ \A i \in DOMAIN latencies : latencies[i] <= result.max
  /\ attempts > 0 => \E i \in DOMAIN latencies : latencies[i] = result.max
  /\ SinceZero = {} => result.min = 0
  /\ SinceZero # {} => /\ \A i \in SinceZero : result.min <= latencies[i]
                       /\ \E i \in SinceZero : latencies[i] = result.min
  /\ result.total <= result.max * attempts
  /\ \A m \in 0..MaxLatency :
       (\A i \in DOMAIN latencies : m <= latencies[i]) => m * attempts <= result.total

\* Jobs are conserved, channels are closed in order and latencies are bounded:
\* the invariant that producer, workers, closer and collector keep together.
LoadInv == TypeOK /\ Conservation /\ ChannelInv /\ LatencyInv

-----------------------------------------------------------------------------
(* Liveness.                                                               *)

\* With a request timeout, or without one once its context is canceled, Run
\* returns: producer, workers, closer and collector never wait for each other in
\* a circle, although both channels are unbuffered.
RunReturns == (hasTimeout \/ ctxDone) ~> (run # "collect")
=============================================================================
