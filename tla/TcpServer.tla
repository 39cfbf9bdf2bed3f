----------------------------- MODULE TcpServer -----------------------------
(***************************************************************************)
(* tcpserver.Server: one call of Serve, from the first Accept until it     *)
(* returns (src/internal/tcpserver/server.go).                             *)
(*                                                                         *)
(* The goroutines are the accept loop (the caller of Serve), the context   *)
(* watcher, whichever of the two executes the sync.Once shutdown, the      *)
(* helper goroutine of waitForConns, the pool workers (Workers = {} is     *)
(* HandlerWorkers = 0: one goroutine per connection), one handler per      *)
(* connection, and a caller of WaitForIdle.  Steps under Server.mu are one *)
(* action; everything between two lock sections may interleave.            *)
(***************************************************************************)
EXTENDS Integers, FiniteSets

CONSTANTS Conns,           \* the client connections that may arrive
          Workers,         \* the pool of HandlerWorkers goroutines
          MaxActiveConns,  \* admission limit, 0 disables it
          NoConn           \* "no connection in hand"

ASSUME ConnsAssumption == IsFiniteSet(Conns) /\ NoConn \notin Conns
ASSUME WorkersAssumption == IsFiniteSet(Workers)
ASSUME LimitAssumption == MaxActiveConns \in Nat

VARIABLES
  pc,             \* where the accept loop is
  cur,            \* the connection the accept loop has in hand
  result,         \* what Serve returns: "none" until decided
  phase,          \* per connection, where it is in its life
  closed,         \* connections on which the server has called Close
  activeConns,    \* Server.activeConns
  wg,             \* counter of Server.wg
  rejectedConns,  \* Server.rejectedConns
  shuttingDown,   \* Server.shuttingDown
  ctxDone,        \* the root context is canceled
  listenerOpen,   \* the listener has not been closed
  listenerCloses, \* how many times listener.Close was called
  listenerFailed, \* Accept has failed although the listener was open
  watcher,        \* where the context watcher goroutine is
  once,           \* progress of the body of shutdownOnce.Do
  waiter,         \* the helper goroutine of waitForConns
  toClose,        \* closeActiveConns: snapshot still to be closed
  doneClosed,     \* channel "done" of Serve is closed
  jobsClosed,     \* channel connJobs is closed
  live,           \* pool workers that have not returned
  job,            \* the connection each pool worker is serving
  idle,           \* a WaitForIdle call: its progress and its result
  idleConns       \* the connections tracked when WaitForIdle was called

loopVars  == <<pc, cur, result>>
connVars  == <<phase, closed>>
trackVars == <<activeConns, wg, rejectedConns>>
envVars   == <<ctxDone, listenerFailed>>
lisVars   == <<listenerOpen, listenerCloses>>
onceVars  == <<once, shuttingDown, waiter, toClose>>
chanVars  == <<doneClosed, jobsClosed>>
poolVars  == <<live, job>>
idleVars  == <<idle, idleConns>>
vars == <<loopVars, connVars, trackVars, envVars, lisVars, onceVars, chanVars,
          watcher, poolVars, idleVars>>

Phases == {"new",        \* the client has not connected
           "backlog",    \* connected, in the listen backlog
           "accepted",   \* returned by Accept, not yet tracked
           "tracked",    \* in activeConns, not yet with a handler
           "running",    \* handleConn is executing the handler
           "returned",   \* the handler returned, deferred Close pending
           "closing",    \* closed, deferred untrackConn pending
           "unmapped",   \* deleted from activeConns, wg.Done pending
           "done",       \* untracked
           "refused"}    \* closed without ever being tracked

\* The connections counted by Server.wg, and those that Server.activeConns holds.
InWg(c)  == phase[c] \in {"tracked", "running", "returned", "closing", "unmapped"}
InMap(c) == phase[c] \in {"tracked", "running", "returned", "closing"}

LeavePcs == {"leave", "closeDone", "closeJobs", "joinWorkers", "serveReturned"}

Init ==
  /\ pc = "accept" /\ cur = NoConn /\ result = "none"
  /\ phase = [c \in Conns |-> "new"] /\ closed = {}
  /\ activeConns = {} /\ wg = 0 /\ rejectedConns = 0
  /\ ctxDone = FALSE
  /\ listenerOpen = TRUE /\ listenerCloses = 0 /\ listenerFailed = FALSE
  /\ shuttingDown = FALSE /\ once = "idle" /\ waiter = "none" /\ toClose = {}
  /\ watcher = "select" /\ doneClosed = FALSE /\ jobsClosed = FALSE
  /\ live = Workers /\ job = [w \in Workers |-> NoConn]
  /\ idle = "off" /\ idleConns = {}

-----------------------------------------------------------------------------
(* The environment: signals, clients, the network.                         *)

Cancel == /\ ~ctxDone /\ ctxDone' = TRUE
          /\ UNCHANGED <<loopVars, phase, listenerFailed>>

Dial(c) == /\ phase[c] = "new" /\ listenerOpen
           /\ phase' = [phase EXCEPT ![c] = "backlog"]
           /\ UNCHANGED <<loopVars, envVars>>

\* Accept fails on an open listener: an unrecoverable listener error.
ListenerError == /\ pc = "accept" /\ listenerOpen
                 /\ pc' = "acceptError" /\ listenerFailed' = TRUE
                 /\ UNCHANGED <<cur, result, phase, ctxDone>>

Env == /\ Cancel \/ (\E c \in Conns : Dial(c)) \/ ListenerError
       /\ UNCHANGED <<closed, trackVars, lisVars, onceVars, chanVars, watcher,
                      poolVars, idleVars>>

-----------------------------------------------------------------------------
(* The accept loop.  Loop states what none of its steps touches.           *)

Accept(c) == /\ pc = "accept" /\ listenerOpen /\ phase[c] = "backlog"
             /\ pc' = "track" /\ cur' = c
             /\ phase' = [phase EXCEPT ![c] = "accepted"]
             /\ UNCHANGED <<result, closed, trackVars, chanVars, job>>

\* The blocked Accept returns because shutdown closed the listener.
AcceptClosed == /\ pc = "accept" /\ ~listenerOpen
                /\ pc' = "acceptError"
                /\ UNCHANGED <<cur, result, connVars, trackVars, chanVars, job>>

\* Mutant of AcceptErrorReturn: the ctx.Err() test is missing.
AcceptErrorReturnAlways ==
  /\ pc = "acceptError" /\ pc' = "leave" /\ result' = "err"
  /\ UNCHANGED <<cur, connVars, trackVars, chanVars, job>>

AcceptErrorReturn ==
  /\ pc = "acceptError" /\ pc' = "leave"
  /\ result' = IF ctxDone THEN "nil" ELSE "err"
  /\ UNCHANGED <<cur, connVars, trackVars, chanVars, job>>

\* Mutant of AtLimit: > for >=.
AtLimitOffByOne == MaxActiveConns > 0 /\ Cardinality(activeConns) > MaxActiveConns

AtLimit == MaxActiveConns > 0 /\ Cardinality(activeConns) >= MaxActiveConns

\* Mutant of TrackAccepted: shuttingDown is not tested under the lock.
TrackAcceptedUnchecked ==
  /\ pc = "track" /\ ~AtLimit
  /\ wg' = wg + 1 /\ activeConns' = activeConns \cup {cur}
  /\ phase' = [phase EXCEPT ![cur] = "tracked"]
  /\ pc' = "dispatch"
  /\ UNCHANGED <<cur, result, closed, rejectedConns, chanVars, job>>

TrackAccepted ==
  /\ pc = "track" /\ ~shuttingDown /\ ~AtLimit
  /\ wg' = wg + 1 /\ activeConns' = activeConns \cup {cur}
  /\ phase' = [phase EXCEPT ![cur] = "tracked"]
  /\ pc' = "dispatch"
  /\ UNCHANGED <<cur, result, closed, rejectedConns, chanVars, job>>

TrackRejected ==
  /\ pc = "track" /\ ~shuttingDown /\ AtLimit
  /\ rejectedConns' = rejectedConns + 1
  /\ pc' = "reject"
  /\ UNCHANGED <<cur, result, connVars, activeConns, wg, chanVars, job>>

TrackShuttingDown ==
  /\ pc = "track" /\ shuttingDown
  /\ pc' = "turnAway"
  /\ UNCHANGED <<cur, result, connVars, trackVars, chanVars, job>>

CloseRefused == /\ closed' = closed \cup {cur} /\ cur' = NoConn
                /\ phase' = [phase EXCEPT ![cur] = "refused"]

RejectConn == /\ pc = "reject" /\ CloseRefused /\ pc' = "accept"
              /\ UNCHANGED <<result, trackVars, chanVars, job>>

TurnAwayConn == /\ pc = "turnAway" /\ CloseRefused
                /\ pc' = "leave" /\ result' = "nil"
                /\ UNCHANGED <<trackVars, chanVars, job>>

\* HandlerWorkers = 0: go s.serveTrackedConn(ctx, conn).
Spawn == /\ pc = "dispatch" /\ Workers = {}
         /\ phase' = [phase EXCEPT ![cur] = "running"]
         /\ pc' = "accept" /\ cur' = NoConn
         /\ UNCHANGED <<result, closed, trackVars, chanVars, job>>

\* connJobs is unbuffered: the send completes when an idle worker receives.
HandOff(w) ==
  /\ pc = "dispatch" /\ w \in live /\ job[w] = NoConn
  /\ phase' = [phase EXCEPT ![cur] = "running"]
  /\ job' = [job EXCEPT ![w] = cur]
  /\ pc' = "accept" /\ cur' = NoConn
  /\ UNCHANGED <<result, closed, trackVars, chanVars>>

\* Mutant of HandOffCanceled: Serve returns without untrackConn.
HandOffCanceledNoUntrack ==
  /\ pc = "dispatch" /\ Workers # {} /\ ctxDone
  /\ closed' = closed \cup {cur} /\ cur' = NoConn
  /\ pc' = "leave" /\ result' = "nil"
  /\ UNCHANGED <<phase, trackVars, chanVars, job>>

\* The select takes ctx.Done(): the loop closes the connection itself and then
\* untracks it (UntrackDelete, UntrackDone).
HandOffCanceled ==
  /\ pc = "dispatch" /\ Workers # {} /\ ctxDone
  /\ closed' = closed \cup {cur}
  /\ phase' = [phase EXCEPT ![cur] = "closing"]
  /\ pc' = "abandon"
  /\ UNCHANGED <<cur, result, trackVars, chanVars, job>>

AbandonReturn ==
  /\ pc = "abandon" /\ phase[cur] = "done"
  /\ pc' = "leave" /\ result' = "nil" /\ cur' = NoConn
  /\ UNCHANGED <<connVars, trackVars, chanVars, job>>

\* Deferred calls of Serve, last registered first: shutdown(), close(done),
\* close(connJobs), workerWG.Wait().
DeferShutdown == /\ pc = "leave" /\ once = "done"
                 /\ pc' = "closeDone"
                 /\ UNCHANGED <<cur, result, connVars, trackVars, chanVars, job>>

AfterDone == IF Workers = {} THEN "serveReturned" ELSE "closeJobs"

\* Mutant of DeferCloseDone: no close(done).
DeferCloseDoneMissing ==
  /\ pc = "closeDone" /\ pc' = AfterDone
  /\ UNCHANGED <<cur, result, connVars, trackVars, chanVars, job>>

DeferCloseDone ==
  /\ pc = "closeDone" /\ pc' = AfterDone /\ doneClosed' = TRUE
  /\ UNCHANGED <<cur, result, connVars, trackVars, jobsClosed, job>>

\* Mutant of DeferCloseJobs: no close(connJobs).
DeferCloseJobsMissing ==
  /\ pc = "closeJobs" /\ pc' = "joinWorkers"
  /\ UNCHANGED <<cur, result, connVars, trackVars, chanVars, job>>

DeferCloseJobs ==
  /\ pc = "closeJobs" /\ pc' = "joinWorkers" /\ jobsClosed' = TRUE
  /\ UNCHANGED <<cur, result, connVars, trackVars, doneClosed, job>>

\* Mutant of DeferJoinWorkers: no workerWG.Wait().
DeferJoinWorkersSkipped ==
  /\ pc = "joinWorkers" /\ pc' = "serveReturned"
  /\ UNCHANGED <<cur, result, connVars, trackVars, chanVars, job>>

DeferJoinWorkers ==
  /\ pc = "joinWorkers" /\ live = {} /\ pc' = "serveReturned"
  /\ UNCHANGED <<cur, result, connVars, trackVars, chanVars, job>>

Loop ==
  /\ \/ \E c \in Conns : Accept(c)
     \/ AcceptClosed \/ AcceptErrorReturn
     \/ TrackAccepted \/ TrackRejected \/ TrackShuttingDown
     \/ RejectConn \/ TurnAwayConn
     \/ Spawn \/ (\E w \in Workers : HandOff(w)) \/ HandOffCanceled
     \/ AbandonReturn
     \/ DeferShutdown \/ DeferCloseDone \/ DeferCloseJobs \/ DeferJoinWorkers
  /\ UNCHANGED <<envVars, lisVars, onceVars, watcher, live, idleVars>>

-----------------------------------------------------------------------------
(* serveTrackedConn, handleConn and the pool workers.                      *)

ConnFrame == UNCHANGED <<loopVars, rejectedConns, envVars, lisVars, onceVars,
                         chanVars, watcher, live, idleVars>>

\* The handler returns: the peer closed, a deadline passed, an I/O call failed,
\* the request asked for it, or it saw the canceled context.
HandlerReturn(c) == /\ phase[c] = "running"
                    /\ phase' = [phase EXCEPT ![c] = "returned"]
                    /\ UNCHANGED <<closed, activeConns, wg, job>>
                    /\ ConnFrame

\* Mutant of DeferConnClose: handleConn does not close the connection.
DeferConnCloseMissing(c) == /\ phase[c] = "returned"
                            /\ phase' = [phase EXCEPT ![c] = "closing"]
                            /\ UNCHANGED <<closed, activeConns, wg, job>>

DeferConnClose(c) == /\ phase[c] = "returned"
                     /\ closed' = closed \cup {c}
                     /\ phase' = [phase EXCEPT ![c] = "closing"]
                     /\ UNCHANGED <<activeConns, wg, job>>

UntrackDelete(c) == /\ phase[c] = "closing"
                    /\ activeConns' = activeConns \ {c}
                    /\ phase' = [phase EXCEPT ![c] = "unmapped"]
                    /\ UNCHANGED <<closed, wg, job>>

\* The pool worker that served c goes back to receive from connJobs.
Release(c) == [w \in Workers |-> IF job[w] = c THEN NoConn ELSE job[w]]

\* Mutant of UntrackDone: wg.Done() is called twice.
UntrackDoneTwice(c) == /\ phase[c] = "unmapped"
                       /\ wg' = wg - 2
                       /\ phase' = [phase EXCEPT ![c] = "done"]
                       /\ job' = Release(c)
                       /\ UNCHANGED <<closed, activeConns>>

\* wg.Done() is outside the lock; it ends serveTrackedConn.
UntrackDone(c) == /\ phase[c] = "unmapped"
                  /\ wg' = wg - 1
                  /\ phase' = [phase EXCEPT ![c] = "done"]
                  /\ job' = Release(c)
                  /\ UNCHANGED <<closed, activeConns>>

Unwind(c) == /\ DeferConnClose(c) \/ UntrackDelete(c) \/ UntrackDone(c)
             /\ ConnFrame

WorkerExit(w) ==
  /\ w \in live /\ job[w] = NoConn /\ jobsClosed
  /\ live' = live \ {w}
  /\ UNCHANGED <<loopVars, connVars, trackVars, envVars, lisVars, onceVars,
                 chanVars, watcher, job, idleVars>>

-----------------------------------------------------------------------------
(* The context watcher and the shutdown executed once.                     *)

WatcherCanceled == watcher = "select" /\ ctxDone /\ watcher' = "shutdown"

WatcherDone == /\ \/ watcher = "select" /\ doneClosed
                  \/ watcher = "shutdown" /\ once = "done"
               /\ watcher' = "exit"

Watch == /\ WatcherCanceled \/ WatcherDone
         /\ UNCHANGED <<loopVars, connVars, trackVars, envVars, lisVars,
                        onceVars, chanVars, poolVars, idleVars>>

\* Mutant of OnceEnter: no sync.Once.
OnceEnterAgain == /\ once \in {"idle", "done"}
                  /\ pc = "leave" \/ watcher = "shutdown"
                  /\ once' = "begin"
                  /\ UNCHANGED <<shuttingDown, waiter, toClose, closed, lisVars>>

\* The first caller of shutdownOnce.Do runs the body; the other one blocks in
\* Do until the body has returned.
OnceEnter == /\ once = "idle"
             /\ pc = "leave" \/ watcher = "shutdown"
             /\ once' = "begin"
             /\ UNCHANGED <<shuttingDown, waiter, toClose, closed, lisVars>>

BeginShutdown == /\ once = "begin" /\ once' = "closeListener"
                 /\ shuttingDown' = TRUE
                 /\ UNCHANGED <<waiter, toClose, closed, lisVars>>

\* listener.Close(), then waitForConns starts its helper goroutine.
CloseListener == /\ once = "closeListener" /\ once' = "grace"
                 /\ listenerOpen' = FALSE /\ listenerCloses' = listenerCloses + 1
                 /\ waiter' = "waiting"
                 /\ UNCHANGED <<shuttingDown, toClose, closed>>

\* The helper goroutine: wg.Wait(), close(done).
WaiterDone == /\ waiter = "waiting" /\ wg = 0
              /\ waiter' = "done"
              /\ UNCHANGED <<shuttingDown, once, toClose, closed, lisVars>>

GraceDrained == /\ once = "grace" /\ waiter = "done" /\ once' = "done"
                /\ UNCHANGED <<shuttingDown, waiter, toClose, closed, lisVars>>

\* The timer fires first, or GracefulTimeout <= 0 and "done" is not yet closed.
\* A select with both cases ready may take either one.
GraceExpired == /\ once = "grace" /\ once' = "force"
                /\ UNCHANGED <<shuttingDown, waiter, toClose, closed, lisVars>>

CloseActiveConns == /\ once = "force" /\ once' = "closing"
                    /\ shuttingDown' = TRUE /\ toClose' = activeConns
                    /\ UNCHANGED <<waiter, closed, lisVars>>

\* Mutant of ForceClose: the snapshot is not closed.
ForceCloseMissing(c) == /\ once = "closing" /\ c \in toClose
                        /\ toClose' = toClose \ {c}
                        /\ UNCHANGED <<shuttingDown, once, waiter, closed, lisVars>>

ForceClose(c) == /\ once = "closing" /\ c \in toClose
                 /\ closed' = closed \cup {c} /\ toClose' = toClose \ {c}
                 /\ UNCHANGED <<shuttingDown, once, waiter, lisVars>>

ForceClosed == /\ once = "closing" /\ toClose = {} /\ once' = "wait"
               /\ UNCHANGED <<shuttingDown, waiter, toClose, closed, lisVars>>

\* Mutant of WaitConns: no wg.Wait() after closeActiveConns.
WaitConnsSkipped == /\ once = "wait" /\ once' = "done"
                    /\ UNCHANGED <<shuttingDown, waiter, toClose, closed, lisVars>>

WaitConns == /\ once = "wait" /\ wg = 0 /\ once' = "done"
             /\ UNCHANGED <<shuttingDown, waiter, toClose, closed, lisVars>>

ShutdownFrame == UNCHANGED <<loopVars, phase, trackVars, envVars, chanVars,
                             watcher, poolVars, idleVars>>

Shutdown ==
  /\ \/ OnceEnter \/ BeginShutdown \/ CloseListener
     \/ GraceDrained \/ GraceExpired
     \/ CloseActiveConns \/ (\E c \in Conns : ForceClose(c)) \/ ForceClosed
     \/ WaitConns
  /\ ShutdownFrame

Waiter == WaiterDone /\ ShutdownFrame

-----------------------------------------------------------------------------
(* WaitForIdle: polls Stats().ActiveConnections until zero or timeout.     *)

IdleCall == idle = "off" /\ idle' = "polling" /\ idleConns' = activeConns

\* One poll: Stats() is read under the lock, the answer is used afterwards.
IdleCheck == /\ idle = "polling"
             /\ idle' = IF Cardinality(activeConns) = 0 THEN "true" ELSE "busy"
             /\ UNCHANGED idleConns

IdleTick == idle = "busy" /\ idle' = "polling" /\ UNCHANGED idleConns

\* The timer fires first, or the timeout was <= 0 and there was only one poll.
IdleTimeout == idle = "busy" /\ idle' = "false" /\ UNCHANGED idleConns

Idle == /\ IdleCall \/ IdleCheck \/ IdleTick \/ IdleTimeout
        /\ UNCHANGED <<loopVars, connVars, trackVars, envVars, lisVars,
                       onceVars, chanVars, watcher, poolVars>>

-----------------------------------------------------------------------------
(* The whole server.                                                       *)

\* Serve has returned; the process may go on without it.
Terminated == pc = "serveReturned" /\ UNCHANGED vars

Next ==
  \/ Env
  \/ Loop
  \/ \E c \in Conns : HandlerReturn(c) \/ Unwind(c)
  \/ \E w \in Workers : WorkerExit(w)
  \/ Watch
  \/ Shutdown
  \/ Waiter
  \/ Idle
  \/ Terminated

Spec == Init /\ [][Next]_vars

\* The Go scheduler runs every goroutine that is not blocked.  Nothing is
\* assumed of the environment: a handler need only return once its connection
\* has been closed under it, since every read and write then fails.
Fairness ==
  /\ WF_vars(Loop)
  /\ \A c \in Conns : /\ WF_vars(c \in closed /\ HandlerReturn(c))
                      /\ WF_vars(Unwind(c))
  /\ \A w \in Workers : WF_vars(WorkerExit(w))
  /\ WF_vars(Watch)
  /\ WF_vars(Shutdown)
  /\ WF_vars(Waiter)

FairSpec == Spec /\ Fairness

-----------------------------------------------------------------------------
(* Properties.                                                             *)

\* Every variable of the server stays in its domain; in particular the
\* WaitGroup counter never goes negative (sync.WaitGroup would panic).
TypeOK ==
  /\ pc \in {"accept", "acceptError", "track", "reject", "turnAway", "dispatch",
             "abandon"} \cup LeavePcs
  /\ cur \in Conns \cup {NoConn}
  /\ result \in {"none", "nil", "err"}
  /\ phase \in [Conns -> Phases]
  /\ closed \subseteq Conns
  /\ activeConns \subseteq Conns
  /\ wg \in Nat
  /\ rejectedConns \in Nat
  /\ shuttingDown \in BOOLEAN /\ ctxDone \in BOOLEAN
  /\ listenerOpen \in BOOLEAN /\ listenerCloses \in Nat
  /\ listenerFailed \in BOOLEAN
  /\ watcher \in {"select", "shutdown", "exit"}
  /\ once \in {"idle", "begin", "closeListener", "grace", "force", "closing",
               "wait", "done"}
  /\ waiter \in {"none", "waiting", "done"}
  /\ toClose \subseteq Conns
  /\ doneClosed \in BOOLEAN /\ jobsClosed \in BOOLEAN
  /\ live \subseteq Workers
  /\ job \in [Workers -> Conns \cup {NoConn}]
  /\ idle \in {"off", "polling", "busy", "true", "false"}
  /\ idleConns \subseteq Conns

\* The connections the WaitGroup counts, and those of them still open.
Counted   == {c \in Conns : InWg(c)}
OpenConns == Counted \ closed

\* trackConn's admission check under the lock keeps the number of connections
\* that are really open within MaxActiveConns, because untrackConn runs only
\* after the connection was closed.
OpenConnsBounded ==
  MaxActiveConns > 0 => Cardinality(OpenConns) <= MaxActiveConns

\* With a pool, every connection that the shutdown waits for in wg.Wait is in
\* the hands of exactly one goroutine that will finish it: the accept loop,
\* which offers it on connJobs or takes it back after a cancellation, or one
\* worker that has not ended.  No worker holds a connection that is over, so a
\* worker that the loop waits for does come free when its handler returns.
OneOwner ==
  Workers # {} =>
    /\ \A c \in Counted :
         IF c = cur THEN \A w \in Workers : job[w] # c
         ELSE \E w \in live : \A v \in Workers : job[v] = c <=> v = w
    /\ \A w \in Workers : job[w] = NoConn \/ job[w] \in Counted

\* When Serve has returned, everything it started for connections is over: the
\* listener and every connection it ever accepted are closed, no connection is
\* tracked, and all pool workers have ended.
ServeReturnsClean ==
  pc = "serveReturned" =>
    /\ ~listenerOpen /\ activeConns = {} /\ wg = 0 /\ live = {}
    /\ \A c \in Conns : c \in closed \/ phase[c] \in {"new", "backlog"}

\* Serve returns an error only for a real listener failure: the error that
\* shutdown itself provokes in Accept by closing the listener is not reported,
\* and nil is returned only if the context was canceled.
ResultIsHonest ==
  /\ result = "err" => listenerFailed
  /\ result = "nil" => ctxDone

\* After closeActiveConns no connection that Serve still waits for in wg.Wait
\* was missed: none slipped in between the snapshot and the wait.
ForceCloseCoversAll == once = "wait" => Counted \subseteq closed

\* Once the helper goroutine of waitForConns has seen the WaitGroup at zero no
\* connection is tracked any more (wg.Add does not race a finished wg.Wait).
DrainedIsFinal == waiter = "done" => wg = 0 /\ activeConns = {}

\* The watcher and the deferred shutdown never close the listener twice
\* (TestServerClosesListenerOnceOnShutdown).
ListenerClosedOnce == listenerCloses <= 1

\* WaitForIdle returns true only after every connection that was tracked when
\* it was called has been closed.
IdleMeansClosed == idle = "true" => idleConns \subseteq closed

\* Cancelling the context, or a listener failure, makes Serve return, even if
\* every handler is stuck on its connection.
StopReturns == (ctxDone \/ listenerFailed) ~> (pc = "serveReturned")

\* Serve leaks neither its context watcher nor the helper of waitForConns.
NoGoroutineLeak ==
  (pc = "serveReturned") ~> (watcher = "exit" /\ waiter = "done")

-----------------------------------------------------------------------------
(* The server implements ConnService.                                      *)

modeBar == IF pc = "serveReturned" THEN "stopped"
           ELSE IF shuttingDown THEN "stopping" ELSE "serving"

Service == INSTANCE ConnService
             WITH Limit <- MaxActiveConns, mode <- modeBar,
                  open <- activeConns \ closed, ended <- closed

\* Serve, with its goroutines, admits, ends and refuses connections as
\* ConnService says, and a server that is stopping does stop.
ImplementsConnService == Service!SSpec

\* The safety part of the same statement.
ImplementsConnServiceSafely == Service!SSafe
=============================================================================
