-------------------------- MODULE TcpServerProofs --------------------------
(***************************************************************************)
(* Proofs about TcpServer for every set of connections, every pool and     *)
(* every limit.  IInv is inductive (one lemma per group of actions); the   *)
(* safety properties of the runs, and the safety part of the refinement of *)
(* ConnService, follow from it.                                            *)
(***************************************************************************)
EXTENDS TcpServerInv, FiniteSetTheorems, TLAPS

\* The WaitGroup counts a finite set: Counted is a set of connections.
LEMMA CountedFinite == IsFiniteSet(Counted) /\ Cardinality(Counted) \in Nat
<1>1. Counted \in SUBSET Conns  BY DEF Counted
<1> QED  BY <1>1, ConnsAssumption, FS_Subset, FS_CardinalityType

\* The initial state of Serve satisfies the inductive invariant.
LEMMA InvInit == Init => IInv
<1> SUFFICES ASSUME Init PROVE IInv  OBVIOUS
<1>1. Counted = {} /\ {c \in Conns : InMap(c)} = {}
  BY DEF Init, Counted, InWg, InMap
<1>2. TypeOK
  BY ConnsAssumption DEF Init, TypeOK, Phases, LeavePcs
<1>3. LoopInv /\ ClosedInv /\ OnceInv /\ StopInv
  BY <1>1 DEF Init, LoopInv, ClosedInv, OnceInv, StopInv, ResultIsHonest, Fresh, LeavePcs
<1>5. PoolInv
  <2>1. \A w \in Workers : job[w] = NoConn
    BY DEF Init
  <2>2. \A c \in Conns : ~InWg(c)
    BY DEF Init, InWg
  <2> QED BY <2>1, <2>2 DEF Init, PoolInv
<1>4. TrackInv
  BY <1>1, FS_EmptySet, LimitAssumption DEF Init, TrackInv
<1> QED  BY <1>2, <1>3, <1>4, <1>5 DEF IInv

\* TrackInv survives a step that leaves map and WaitGroup alone, and moves no
\* connection into or out of them.
LEMMA TrackSame ==
  ASSUME TrackInv, UNCHANGED <<activeConns, wg>>,
         \A c \in Conns : (InWg(c)' <=> InWg(c)) /\ (InMap(c)' <=> InMap(c))
  PROVE  TrackInv'
<1>1. Counted' = Counted  BY DEF Counted
<1>2. {c \in Conns : InMap(c)}' = {c \in Conns : InMap(c)}  OBVIOUS
<1> QED  BY <1>1, <1>2 DEF TrackInv

\* Signals, clients and listener errors preserve the invariant.
LEMMA EnvSteps == ASSUME IInv, Env PROVE IInv'
<1> USE ConnsAssumption
    DEF IInv, TypeOK, LoopInv, ClosedInv, OnceInv, StopInv, PoolInv,
        HoldsAlone, ResultIsHonest, Fresh, LeavePcs, Phases, Counted, InWg, loopVars,
        trackVars, envVars, lisVars, onceVars, chanVars, poolVars, idleVars
<1> UNCHANGED <<closed, trackVars, lisVars, onceVars, chanVars, watcher,
                poolVars, idleVars>>
  BY DEF Env
<1>1. CASE Cancel
  <2>1. TrackInv'  BY <1>1, TrackSame DEF Cancel, InMap
  <2> QED  BY <1>1, <2>1 DEF Cancel
<1>2. ASSUME NEW c \in Conns, Dial(c) PROVE IInv'
  <2>1. TrackInv'  BY <1>2, TrackSame DEF Dial, InMap
  <2> QED  BY <1>2, <2>1 DEF Dial
<1>3. CASE ListenerError
  <2>1. TrackInv'  BY <1>3, TrackSame DEF ListenerError, InMap
  <2> QED  BY <1>3, <2>1 DEF ListenerError
<1> QED  BY <1>1, <1>2, <1>3 DEF Env

\* A worker that receives from connJobs takes the loop's connection over.
LEMMA HandOffOwner ==
  ASSUME TypeOK, LoopInv, PoolInv, NEW w \in Workers, HandOff(w), live' = live
  PROVE  PoolInv'
<1>1. /\ cur \in Conns /\ cur # NoConn /\ cur' = NoConn /\ pc' = "accept"
      /\ phase[cur] = "tracked" /\ phase' = [phase EXCEPT ![cur] = "running"]
      /\ job' = [job EXCEPT ![w] = cur] /\ job[w] = NoConn /\ w \in live
  BY ConnsAssumption DEF HandOff, LoopInv
<1>2. \A c \in Conns : InWg(c)' <=> InWg(c)
  BY <1>1 DEF InWg, TypeOK
<1>3. job'[w] = cur /\ \A v \in Workers : v # w => job'[v] = job[v]
  BY <1>1 DEF TypeOK
<1>4. \A v \in Workers : job[v] # NoConn => HoldsAlone(v)
  BY DEF PoolInv
<1>5. \A v \in Workers : job[v] # cur
  BY <1>1, <1>4 DEF HoldsAlone
<1>6. HoldsAlone(w)'
  BY <1>1, <1>3, <1>5 DEF HoldsAlone, InWg, TypeOK
<1>7. ASSUME NEW v \in Workers, v # w, job'[v] # NoConn PROVE HoldsAlone(v)'
  <2>1. job'[v] = job[v] /\ HoldsAlone(v)
    BY <1>3, <1>4, <1>7
  <2>2. job[v] \in Conns /\ job[v] # cur /\ v \in live /\ InWg(job[v])'
    BY <1>2, <2>1 DEF HoldsAlone
  <2>3. ASSUME NEW u \in Workers, job'[u] = job'[v] PROVE u = v
    <3>1. u # w
      BY <1>3, <2>1, <2>2, <2>3
    <3>2. job[u] = job[v]
      BY <1>3, <2>1, <2>3, <3>1
    <3>3. \A x \in Workers : job[x] = job[v] => x = v
      BY <2>1 DEF HoldsAlone
    <3> QED BY <3>2, <3>3
  <2> QED BY <1>1, <1>7, <2>1, <2>2, <2>3 DEF HoldsAlone
<1>8. ASSUME NEW c \in Conns, InWg(c)' PROVE \E v \in Workers : job'[v] = c
  <2>1. CASE c = cur  BY <1>3, <2>1
  <2>2. CASE c # cur
    <3>1. PICK v \in Workers : job[v] = c
      <4>1. InWg(c) /\ Workers # {}  BY <1>2, <1>8
      <4>2. \A x \in Conns : InWg(x) /\ x # cur => \E v \in Workers : job[v] = x
        BY <4>1 DEF PoolInv
      <4> QED  BY <2>2, <4>1, <4>2
    <3>2. v # w  BY <1>1, <3>1, ConnsAssumption
    <3> QED  BY <1>3, <3>1, <3>2
  <2> QED  BY <2>1, <2>2
<1> QED  BY <1>1, <1>6, <1>7, <1>8 DEF PoolInv

\* A connection that is untracked leaves the hands of the worker that served it.
LEMMA UntrackOwner ==
  ASSUME TypeOK, PoolInv, NEW c \in Conns, UntrackDone(c), UNCHANGED <<live, pc, cur>>
  PROVE  PoolInv'
<1>1. /\ phase' = [phase EXCEPT ![c] = "done"] /\ phase[c] = "unmapped"
      /\ job' = [w \in Workers |-> IF job[w] = c THEN NoConn ELSE job[w]]
  BY DEF UntrackDone, Release
<1>2. \A x \in Conns : InWg(x)' <=> InWg(x) /\ x # c
  BY <1>1 DEF InWg, TypeOK
<1>3. ASSUME NEW v \in Workers, job'[v] # NoConn PROVE HoldsAlone(v)'
  <2>1. job'[v] = job[v] /\ job[v] # c /\ HoldsAlone(v)
    BY <1>1, <1>3 DEF PoolInv
  <2>2. InWg(job[v])'
    BY <1>2, <2>1 DEF HoldsAlone
  <2>3. \A u \in Workers : job'[u] = job'[v] => u = v
    <3> SUFFICES ASSUME NEW u \in Workers, job'[u] = job'[v] PROVE u = v
      OBVIOUS
    <3>1. job[u] = job[v]
      BY <1>1, <1>3, <2>1
    <3> QED BY <2>1, <3>1 DEF HoldsAlone
  <2> QED BY <2>1, <2>2, <2>3 DEF HoldsAlone
<1>4. ASSUME Workers # {}, NEW x \in Conns, InWg(x)', x # cur
      PROVE  \E v \in Workers : job'[v] = x
  <2>1. InWg(x) /\ x # c
    BY <1>2, <1>4
  <2>2. PICK v \in Workers : job[v] = x
    BY <1>4, <2>1 DEF PoolInv
  <2> QED BY <1>1, <2>1, <2>2
<1> QED  BY <1>3, <1>4 DEF PoolInv

\* Every step of the accept loop preserves the invariant.
LEMMA LoopSteps == ASSUME IInv, Loop PROVE IInv'
<1> USE ConnsAssumption
    DEF IInv, TypeOK, LoopInv, ClosedInv, OnceInv, StopInv, PoolInv,
        HoldsAlone, ResultIsHonest, Fresh, LeavePcs, Phases, Counted, InWg, loopVars,
        connVars, trackVars, envVars, lisVars, onceVars, chanVars, idleVars
<1> UNCHANGED <<envVars, lisVars, onceVars, watcher, live, idleVars>>
  BY DEF Loop
<1>1. ASSUME NEW c \in Conns, Accept(c) PROVE IInv'
  <2>1. TrackInv'  BY <1>1, TrackSame DEF Accept, InMap
  <2> QED  BY <1>1, <2>1 DEF Accept
<1>2. CASE AcceptClosed
  <2>1. TrackInv'  BY <1>2, TrackSame DEF AcceptClosed, InMap
  <2> QED  BY <1>2, <2>1 DEF AcceptClosed
<1>3. CASE AcceptErrorReturn
  <2>1. TrackInv'  BY <1>3, TrackSame DEF AcceptErrorReturn, InMap
  <2> QED  BY <1>3, <2>1 DEF AcceptErrorReturn
<1>4. CASE TrackAccepted
  <2>1. TrackInv'
    <3>1. cur \in Conns /\ phase[cur] = "accepted" /\ cur \notin Counted
      BY <1>4 DEF TrackAccepted
    <3>2. activeConns' = {c \in Conns : InMap(c)}'
      BY <1>4, <3>1 DEF TrackAccepted, TrackInv, InMap
    <3>3. Counted' = Counted \cup {cur}
      BY <1>4, <3>1 DEF TrackAccepted
    <3>4. wg' = Cardinality(Counted')
      <4> HIDE DEF Counted
      <4>1. Cardinality(Counted \cup {cur}) = Cardinality(Counted) + 1
        BY <3>1, CountedFinite, FS_AddElement
      <4> QED  BY <1>4, <3>3, <4>1 DEF TrackAccepted, TrackInv
    <3>5. IsFiniteSet(activeConns) /\ Cardinality(activeConns) \in Nat
      <4>1. activeConns \in SUBSET Conns  OBVIOUS
      <4> QED  BY <4>1, FS_Subset, FS_CardinalityType
    <3>6. MaxActiveConns > 0 => Cardinality(activeConns') <= MaxActiveConns
      <4>1. cur \notin activeConns  BY <3>1 DEF TrackInv, InMap
      <4>2. Cardinality(activeConns \cup {cur}) = Cardinality(activeConns) + 1
        BY <3>5, <4>1, FS_AddElement
      <4>3. MaxActiveConns > 0 => Cardinality(activeConns) + 1 <= MaxActiveConns
        BY <1>4, <3>5, LimitAssumption DEF TrackAccepted, AtLimit
      <4> QED  BY <1>4, <4>2, <4>3 DEF TrackAccepted
    <3> QED  BY <3>2, <3>4, <3>6 DEF TrackInv
  <2> QED  BY <1>4, <2>1 DEF TrackAccepted
<1>5. CASE TrackRejected
  <2>1. TrackInv'  BY <1>5, TrackSame DEF TrackRejected, InMap
  <2> QED  BY <1>5, <2>1 DEF TrackRejected
<1>6. CASE TrackShuttingDown
  <2>1. TrackInv'  BY <1>6, TrackSame DEF TrackShuttingDown, InMap
  <2> QED  BY <1>6, <2>1 DEF TrackShuttingDown
<1>7. CASE RejectConn
  <2>1. TrackInv'  BY <1>7, TrackSame DEF RejectConn, CloseRefused, InMap
  <2> QED  BY <1>7, <2>1 DEF RejectConn, CloseRefused
<1>8. CASE TurnAwayConn
  <2>1. TrackInv'  BY <1>8, TrackSame DEF TurnAwayConn, CloseRefused, InMap
  <2> QED  BY <1>8, <2>1 DEF TurnAwayConn, CloseRefused
<1>9. CASE Spawn
  <2>1. TrackInv'  BY <1>9, TrackSame DEF Spawn, InMap
  <2> QED  BY <1>9, <2>1 DEF Spawn
<1>10. ASSUME NEW w \in Workers, HandOff(w) PROVE IInv'
  <2>1. TrackInv'  BY <1>10, TrackSame DEF HandOff, InMap
  <2>2. PoolInv'  BY <1>10, HandOffOwner
  <2> QED  BY <1>10, <2>1, <2>2 DEF HandOff
<1>11. CASE HandOffCanceled
  <2>1. TrackInv'  BY <1>11, TrackSame DEF HandOffCanceled, InMap
  <2> QED  BY <1>11, <2>1 DEF HandOffCanceled
<1>12. CASE AbandonReturn
  <2>1. TrackInv'  BY <1>12, TrackSame DEF AbandonReturn, InMap
  <2> QED  BY <1>12, <2>1 DEF AbandonReturn
<1>13. CASE DeferShutdown
  <2>1. TrackInv'  BY <1>13, TrackSame DEF DeferShutdown, InMap
  <2> QED  BY <1>13, <2>1 DEF DeferShutdown
<1>14. CASE DeferCloseDone
  <2>1. TrackInv'  BY <1>14, TrackSame DEF DeferCloseDone, InMap
  <2> QED  BY <1>14, <2>1 DEF DeferCloseDone, AfterDone
<1>15. CASE DeferCloseJobs
  <2>1. TrackInv'  BY <1>15, TrackSame DEF DeferCloseJobs, InMap
  <2> QED  BY <1>15, <2>1 DEF DeferCloseJobs
<1>16. CASE DeferJoinWorkers
  <2>1. TrackInv'  BY <1>16, TrackSame DEF DeferJoinWorkers, InMap
  <2> QED  BY <1>16, <2>1 DEF DeferJoinWorkers
<1> QED
  BY <1>1, <1>2, <1>3, <1>4, <1>5, <1>6, <1>7, <1>8, <1>9, <1>10, <1>11,
     <1>12, <1>13, <1>14, <1>15, <1>16 DEF Loop

\* Handlers returning and unwinding preserve the invariant.
LEMMA ConnSteps ==
  ASSUME IInv, NEW c \in Conns, HandlerReturn(c) \/ Unwind(c) PROVE IInv'
<1> USE ConnsAssumption
    DEF IInv, TypeOK, LoopInv, ClosedInv, OnceInv, StopInv, PoolInv,
        HoldsAlone, ResultIsHonest, Fresh, LeavePcs, Phases, Counted, InWg, loopVars,
        envVars, lisVars, onceVars, chanVars, idleVars
<1> ConnFrame  BY DEF HandlerReturn, Unwind
<1> USE DEF ConnFrame
<1>1. CASE HandlerReturn(c)
  <2>1. TrackInv'  BY <1>1, TrackSame DEF HandlerReturn, InMap
  <2> QED  BY <1>1, <2>1 DEF HandlerReturn
<1>2. CASE DeferConnClose(c)
  <2>1. TrackInv'  BY <1>2, TrackSame DEF DeferConnClose, InMap
  <2> QED  BY <1>2, <2>1 DEF DeferConnClose
<1>3. CASE UntrackDelete(c)
  <2>1. TrackInv'
    <3>1. activeConns' = {x \in Conns : InMap(x)}'
      BY <1>3 DEF UntrackDelete, TrackInv, InMap
    <3>2. Counted' = Counted  BY <1>3 DEF UntrackDelete
    <3>3. activeConns \in SUBSET Conns /\ activeConns' \in SUBSET activeConns
      BY <1>3 DEF UntrackDelete
    <3>4. /\ IsFiniteSet(activeConns) /\ Cardinality(activeConns) \in Nat
          /\ Cardinality(activeConns') \in Nat
          /\ Cardinality(activeConns') <= Cardinality(activeConns)
      BY <3>3, FS_Subset, FS_CardinalityType
    <3> HIDE DEF Counted
    <3> QED  BY <1>3, <3>1, <3>2, <3>4, LimitAssumption DEF UntrackDelete, TrackInv
  <2> QED  BY <1>3, <2>1 DEF UntrackDelete
<1>4. CASE UntrackDone(c)
  <2>1. TrackInv' /\ wg' \in Nat
    <3>1. activeConns' = {x \in Conns : InMap(x)}'
      BY <1>4 DEF UntrackDone, TrackInv, InMap
    <3>2. c \in Counted /\ Counted' = Counted \ {c}  BY <1>4 DEF UntrackDone
    <3> HIDE DEF Counted
    <3>3. /\ Cardinality(Counted \ {c}) = Cardinality(Counted) - 1
          /\ Cardinality(Counted \ {c}) \in Nat
      BY <3>2, CountedFinite, FS_RemoveElement, FS_CardinalityType
    <3> QED  BY <1>4, <3>1, <3>2, <3>3 DEF UntrackDone, TrackInv
  <2>2. PoolInv'  BY <1>4, UntrackOwner
  <2> QED  BY <1>4, <2>1, <2>2 DEF UntrackDone, Release
<1> QED  BY <1>1, <1>2, <1>3, <1>4 DEF Unwind

\* A pool worker that ends preserves the invariant.
LEMMA WorkerSteps == ASSUME IInv, NEW w \in Workers, WorkerExit(w) PROVE IInv'
<1> USE DEF IInv, TypeOK, LoopInv, ClosedInv, OnceInv, StopInv, PoolInv,
            HoldsAlone, ResultIsHonest, Fresh, LeavePcs, Phases, Counted, InWg, loopVars,
            connVars, trackVars, envVars, lisVars, onceVars, chanVars, idleVars,
            WorkerExit
<1>1. TrackInv'  BY TrackSame DEF InMap
<1> QED  BY <1>1

\* The context watcher preserves the invariant.
LEMMA WatchSteps == ASSUME IInv, Watch PROVE IInv'
<1> USE DEF IInv, TypeOK, LoopInv, ClosedInv, OnceInv, StopInv, PoolInv,
            HoldsAlone, ResultIsHonest, Fresh, LeavePcs, Phases, Counted, InWg, loopVars,
            connVars, trackVars, envVars, lisVars, onceVars, chanVars, poolVars,
            idleVars, Watch, WatcherCanceled, WatcherDone
<1>1. TrackInv'  BY TrackSame DEF InMap
<1> QED  BY <1>1

\* Every step of the once-only shutdown, and of the helper goroutine that waits
\* for the WaitGroup, preserves the invariant.
LEMMA ShutdownSteps == ASSUME IInv, Shutdown \/ Waiter PROVE IInv'
<1> USE ConnsAssumption
    DEF IInv, TypeOK, LoopInv, ClosedInv, OnceInv, StopInv, PoolInv,
        HoldsAlone, ResultIsHonest, Fresh, LeavePcs, Phases, Counted, InWg, loopVars,
        trackVars, envVars, lisVars, chanVars, poolVars, idleVars
<1> ShutdownFrame  BY DEF Shutdown, Waiter
<1> USE DEF ShutdownFrame
<1>0. TrackInv'  BY TrackSame DEF InMap
<1>1. CASE OnceEnter  BY <1>0, <1>1 DEF OnceEnter
<1>2. CASE BeginShutdown  BY <1>0, <1>2 DEF BeginShutdown
<1>3. CASE CloseListener
  <2>1. listenerCloses' = 1 /\ ~listenerOpen' /\ once' = "grace"
    BY <1>3 DEF CloseListener
  <2>2. TypeOK'
    <3>1. listenerOpen' \in BOOLEAN  BY <1>3, Zenon DEF CloseListener
    <3>2. listenerCloses' \in Nat  BY <2>1
    <3> QED  BY <1>3, <3>1, <3>2 DEF CloseListener
  <2>3. OnceInv'  BY <1>3, <2>1 DEF CloseListener
  <2>4. LoopInv' /\ ClosedInv' /\ StopInv' /\ PoolInv'  BY <1>3 DEF CloseListener
  <2> QED  BY <1>0, <2>2, <2>3, <2>4
<1>4. CASE GraceDrained  BY <1>0, <1>4 DEF GraceDrained
<1>5. CASE GraceExpired  BY <1>0, <1>5 DEF GraceExpired
<1>6. CASE CloseActiveConns
  BY <1>0, <1>6 DEF CloseActiveConns, TrackInv, InMap
<1>7. ASSUME NEW c \in Conns, ForceClose(c) PROVE IInv'
  BY <1>0, <1>7 DEF ForceClose
<1>8. CASE ForceClosed  BY <1>0, <1>8 DEF ForceClosed
<1>9. ASSUME wg = 0 PROVE Counted = {}
  <2> HIDE DEF Counted
  <2> QED  BY <1>9, CountedFinite, FS_EmptySet DEF TrackInv
<1>10. CASE WaitConns
  <2>1. Counted' = {}  BY <1>9, <1>10 DEF WaitConns
  <2> QED  BY <1>0, <1>10, <2>1 DEF WaitConns
<1>11. CASE WaiterDone
  <2>1. Counted' = {}  BY <1>9, <1>11 DEF WaiterDone
  <2> QED  BY <1>0, <1>11, <2>1 DEF WaiterDone
<1> QED  BY <1>1, <1>2, <1>3, <1>4, <1>5, <1>6, <1>7, <1>8, <1>10, <1>11
         DEF Shutdown, Waiter

\* WaitForIdle preserves the invariant.
LEMMA IdleSteps == ASSUME IInv, Idle PROVE IInv'
<1> USE DEF IInv, TypeOK, LoopInv, ClosedInv, OnceInv, StopInv, PoolInv,
            HoldsAlone, ResultIsHonest, Fresh, LeavePcs, Phases, Counted, InWg, loopVars,
            connVars, trackVars, envVars, lisVars, onceVars, chanVars, poolVars
<1> UNCHANGED <<loopVars, connVars, trackVars, envVars, lisVars, onceVars,
                chanVars, watcher, poolVars>>
  BY DEF Idle
<1>0. TrackInv'  BY TrackSame DEF InMap
<1>1. CASE IdleCall  BY <1>0, <1>1 DEF IdleCall, TrackInv, InMap
<1>2. CASE IdleCheck
  <2>1. Cardinality(activeConns) = 0 => activeConns = {}
    BY ConnsAssumption, FS_Subset, FS_EmptySet
  <2>2. activeConns = {} => idleConns \subseteq closed
    BY DEF TrackInv, InMap
  <2> QED  BY <1>0, <1>2, <2>1, <2>2 DEF IdleCheck
<1>3. CASE IdleTick  BY <1>0, <1>3 DEF IdleTick
<1>4. CASE IdleTimeout  BY <1>0, <1>4 DEF IdleTimeout
<1> QED  BY <1>1, <1>2, <1>3, <1>4 DEF Idle

\* The invariant is inductive.
LEMMA InvNext == ASSUME IInv, [Next]_vars PROVE IInv'
<1>1. CASE UNCHANGED vars
  <2> USE <1>1 DEF vars, loopVars, connVars, trackVars, envVars, lisVars,
                   onceVars, chanVars, poolVars, idleVars
  <2>1. TrackInv'  BY TrackSame DEF IInv, InWg, InMap
  <2> QED  BY <2>1
           DEF IInv, TypeOK, LoopInv, ClosedInv, OnceInv, StopInv, PoolInv,
               HoldsAlone, ResultIsHonest, Fresh, LeavePcs, Phases, Counted, InWg
<1> QED
  BY <1>1, EnvSteps, LoopSteps, ConnSteps, WorkerSteps, WatchSteps,
     ShutdownSteps, IdleSteps DEF Next, Terminated

\* The accept loop, the trackers, the once-only shutdown and the pool agree
\* about every connection, in every reachable state of Serve.
THEOREM Invariance == Spec => []IInv
<1> QED  BY InvInit, InvNext, PTL DEF Spec

-----------------------------------------------------------------------------
(* The safety properties of the runs.                                      *)

\* No connection counter ever goes negative and no variable leaves its domain.
THEOREM TypeCorrect == Spec => []TypeOK
<1> QED  BY Invariance, PTL DEF IInv

\* MaxActiveConns bounds the connections that are really open at any moment.
THEOREM AdmissionLimit == Spec => []OpenConnsBounded
<1>1. IInv => OpenConnsBounded
  <2> SUFFICES ASSUME IInv, MaxActiveConns > 0
               PROVE  Cardinality(OpenConns) <= MaxActiveConns
    BY DEF OpenConnsBounded
  <2>1. OpenConns \in SUBSET activeConns /\ activeConns \in SUBSET Conns
    BY DEF IInv, TypeOK, ClosedInv, TrackInv, OpenConns, Counted, InWg, InMap
  <2>2. /\ IsFiniteSet(activeConns)
        /\ Cardinality(OpenConns) <= Cardinality(activeConns)
    BY <2>1, ConnsAssumption, FS_Subset
  <2>3. Cardinality(activeConns) \in Nat /\ Cardinality(OpenConns) \in Nat
    BY <2>1, <2>2, FS_Subset, FS_CardinalityType
  <2> QED  BY <2>2, <2>3, LimitAssumption DEF IInv, TrackInv
<1> QED  BY <1>1, Invariance, PTL

\* With a pool, wg.Wait waits only for connections that are in the hands of the
\* accept loop or of exactly one worker, and workers hold no others.
THEOREM PoolOwnership == Spec => []OneOwner
<1>1. IInv => OneOwner
  <2> SUFFICES ASSUME IInv, Workers # {} PROVE OneOwner
    BY DEF OneOwner
  <2>0. PoolInv /\ \A w \in Workers : job[w] # NoConn => HoldsAlone(w)
    BY DEF IInv, PoolInv
  <2>1. ASSUME NEW c \in Counted, c = cur, NEW w \in Workers PROVE job[w] # c
    BY <2>0, <2>1, ConnsAssumption DEF HoldsAlone, Counted
  <2>2. ASSUME NEW c \in Counted, c # cur
        PROVE  \E w \in live : \A v \in Workers : job[v] = c <=> v = w
    <3>1. c \in Conns /\ InWg(c) /\ c # NoConn
      BY ConnsAssumption DEF Counted
    <3>2. PICK w \in Workers : job[w] = c
      BY <2>0, <2>2, <3>1 DEF PoolInv
    <3>3. HoldsAlone(w)
      BY <2>0, <3>1, <3>2
    <3> QED BY <3>2, <3>3 DEF HoldsAlone
  <2>3. ASSUME NEW w \in Workers, job[w] # NoConn PROVE job[w] \in Counted
    BY <2>0, <2>3 DEF HoldsAlone, Counted
  <2> QED BY <2>1, <2>2, <2>3 DEF OneOwner
<1> QED BY <1>1, Invariance, PTL

\* When Serve returns, the listener and every connection it ever accepted are
\* closed, nothing is tracked, and the pool has ended.
THEOREM CleanReturn == Spec => []ServeReturnsClean
<1>1. IInv => ServeReturnsClean
  <2> SUFFICES ASSUME IInv, pc = "serveReturned"
               PROVE  /\ ~listenerOpen /\ activeConns = {} /\ wg = 0 /\ live = {}
                      /\ \A c \in Conns : c \in closed \/ phase[c] \in {"new", "backlog"}
    BY DEF ServeReturnsClean
  <2>1. once = "done" /\ live = {}
    BY DEF IInv, StopInv, LeavePcs
  <2>5. ~listenerOpen /\ Counted = {}
    BY <2>1 DEF IInv, OnceInv
  <2>2. wg = 0  BY <2>5, FS_EmptySet DEF IInv, TrackInv
  <2>3. activeConns = {}
    BY <2>5 DEF IInv, TrackInv, Counted, InMap, InWg
  <2>4. \A c \in Conns : c \in closed \/ phase[c] \in {"new", "backlog"}
    BY <2>5 DEF IInv, TypeOK, Phases, LoopInv, ClosedInv, Counted, InWg
  <2> QED  BY <2>1, <2>2, <2>3, <2>4, <2>5
<1> QED  BY <1>1, Invariance, PTL

\* Serve reports an error only for a listener failure, nil only after Cancel.
THEOREM HonestResult == Spec => []ResultIsHonest
<1> QED  BY Invariance, PTL DEF IInv, StopInv

\* Nothing that Serve still waits for escaped closeActiveConns, and the listener
\* is closed once.
THEOREM ShutdownCoversAll == Spec => [](ForceCloseCoversAll /\ ListenerClosedOnce)
<1>1. IInv => ForceCloseCoversAll /\ ListenerClosedOnce
  BY DEF IInv, OnceInv, ForceCloseCoversAll, ListenerClosedOnce
<1> QED  BY <1>1, Invariance, PTL

\* Once the helper of waitForConns saw the WaitGroup at zero, nothing is tracked
\* any more: trackConn tracks nothing after the shutdown has begun.
THEOREM DrainStaysFinal == Spec => []DrainedIsFinal
<1>1. IInv => DrainedIsFinal
  <2> SUFFICES ASSUME IInv, waiter = "done" PROVE wg = 0 /\ activeConns = {}
    BY DEF DrainedIsFinal
  <2>1. Counted = {}  BY DEF IInv, OnceInv
  <2>2. wg = 0  BY <2>1, FS_EmptySet DEF IInv, TrackInv
  <2>3. activeConns = {}  BY <2>1 DEF IInv, TrackInv, Counted, InMap, InWg
  <2> QED  BY <2>2, <2>3
<1> QED  BY <1>1, Invariance, PTL

\* A true answer of WaitForIdle means the connections it waited for are closed.
THEOREM IdleIsClosed == Spec => []IdleMeansClosed
<1>1. IInv => IdleMeansClosed  BY DEF IInv, ClosedInv, IdleMeansClosed
<1> QED  BY <1>1, Invariance, PTL

-----------------------------------------------------------------------------
(* The refinement of ConnService.                                          *)

\* Facts about the connection in hand and the mode that several steps use.
LEMMA InHand ==
  ASSUME IInv
  PROVE  /\ \A c \in Conns : Fresh(c) => c \notin closed /\ c \notin activeConns
         /\ pc = "serveReturned" => shuttingDown /\ activeConns = {}
         /\ once = "done" => shuttingDown /\ activeConns = {}
         /\ shuttingDown \in BOOLEAN
<1>1. once = "done" => shuttingDown /\ activeConns = {}
  BY DEF IInv, OnceInv, TrackInv, Counted, InWg, InMap
<1> QED  BY <1>1 DEF IInv, TypeOK, ClosedInv, TrackInv, Fresh, InMap, StopInv, LeavePcs

\* A step that changes neither the map nor the closed connections, nor the mode,
\* is a stutter of ConnService.
LEMMA Stutter ==
  ASSUME activeConns' \ closed' = activeConns \ closed, closed' = closed,
         modeBar' = modeBar
  PROVE  UNCHANGED Service!svars
BY DEF Service!svars

\* Closing a connection is the end of it for the service, or a stutter if it
\* had been closed before.
LEMMA CloseIsEnd ==
  ASSUME IInv, NEW c \in activeConns, modeBar # "stopped", modeBar' = modeBar,
         activeConns' = activeConns, closed' = closed \cup {c}
  PROVE  [Service!SNext]_Service!svars
<1> c \in Conns  BY DEF IInv, TypeOK
<1>1. CASE c \in closed
  BY <1>1, Stutter
<1>2. CASE c \notin closed
  <2>1. Service!End(c)  BY <1>2 DEF Service!End
  <2> QED  BY <2>1 DEF Service!SNext
<1> QED  BY <1>1, <1>2

\* Every step of the server is a step of ConnService or a stutter.
LEMMA RefineStep == ASSUME IInv, [Next]_vars PROVE [Service!SNext]_Service!svars
<1> USE InHand, ConnsAssumption
    DEF vars, loopVars, connVars, trackVars, envVars, lisVars, onceVars,
        chanVars, poolVars, idleVars, modeBar
<1>1. CASE UNCHANGED vars  BY <1>1, Stutter
<1>2. CASE Env
  <2>1. UNCHANGED <<activeConns, closed, shuttingDown>>  BY <1>2 DEF Env
  <2>2. modeBar' = modeBar
    BY <1>2, <2>1 DEF Env, Cancel, Dial, ListenerError
  <2> QED  BY <2>1, <2>2, Stutter
<1>3. CASE Loop
  <2> UNCHANGED shuttingDown  BY <1>3 DEF Loop
  <2>1. CASE TrackAccepted
    <3>1. cur \in Conns /\ Fresh(cur) /\ modeBar = "serving" /\ modeBar' = modeBar
      BY <2>1 DEF TrackAccepted, IInv, LoopInv, Fresh
    <3>2. MaxActiveConns > 0 => Cardinality(activeConns \ closed) < MaxActiveConns
      <4>1. activeConns \in SUBSET Conns /\ activeConns \ closed \in SUBSET activeConns
        BY DEF IInv, TypeOK
      <4>2. IsFiniteSet(activeConns) /\ Cardinality(activeConns) \in Nat
        BY <4>1, FS_Subset, FS_CardinalityType
      <4>3. /\ Cardinality(activeConns \ closed) \in Nat
            /\ Cardinality(activeConns \ closed) <= Cardinality(activeConns)
        BY <4>1, <4>2, FS_Subset, FS_CardinalityType
      <4> QED  BY <2>1, <4>2, <4>3, LimitAssumption DEF TrackAccepted, AtLimit
    <3>3. Service!Admit(cur)
      <4>1. cur \notin closed /\ cur \notin activeConns  BY <3>1
      <4>2. activeConns' \ closed' = (activeConns \ closed) \cup {cur}
        BY <2>1, <4>1 DEF TrackAccepted
      <4>3. closed' = closed  BY <2>1 DEF TrackAccepted
      <4> HIDE DEF modeBar
      <4>4. Service!Cardinality(activeConns \ closed) = Cardinality(activeConns \ closed)
        BY DEF Service!Cardinality, Cardinality
      <4> QED  BY <3>1, <3>2, <4>1, <4>2, <4>3, <4>4 DEF Service!Admit
    <3> QED  BY <3>1, <3>3 DEF Service!SNext
  <2>2. CASE RejectConn \/ TurnAwayConn
    <3>1. cur \in Conns /\ Fresh(cur) /\ modeBar # "stopped" /\ modeBar' = modeBar
      BY <2>2 DEF RejectConn, TurnAwayConn, IInv, LoopInv, Fresh
    <3>2. Service!Refuse(cur)
      BY <2>2, <3>1 DEF RejectConn, TurnAwayConn, CloseRefused, Service!Refuse
    <3> QED  BY <3>1, <3>2 DEF Service!SNext
  <2>3. CASE HandOffCanceled
    <3>1. cur \in activeConns
      BY <2>3 DEF HandOffCanceled, IInv, LoopInv, TrackInv, InMap
    <3>2. modeBar # "stopped" /\ modeBar' = modeBar
      BY <2>3 DEF HandOffCanceled
    <3> QED  BY <2>3, <3>1, <3>2, CloseIsEnd DEF HandOffCanceled
  <2>4. CASE DeferCloseDone \/ DeferJoinWorkers
    <3>1. pc # "serveReturned" /\ shuttingDown /\ activeConns = {}
      BY <2>4 DEF DeferCloseDone, DeferJoinWorkers, IInv, StopInv, LeavePcs
    <3>2. UNCHANGED <<activeConns, closed>>
      BY <2>4 DEF DeferCloseDone, DeferJoinWorkers
    <3>3. CASE pc' = "serveReturned"
      <4>1. Service!Stopped  BY <3>1, <3>2, <3>3 DEF Service!Stopped
      <4> QED  BY <4>1 DEF Service!SNext
    <3>4. CASE pc' # "serveReturned"  BY <3>1, <3>2, <3>4, Stutter
    <3> QED  BY <3>3, <3>4
  <2>5. ASSUME NEW c \in Conns, Accept(c) PROVE [Service!SNext]_Service!svars
    BY <2>5, Stutter DEF Accept
  <2>6. ASSUME NEW w \in Workers, HandOff(w) PROVE [Service!SNext]_Service!svars
    BY <2>6, Stutter DEF HandOff
  <2>7. CASE \/ AcceptClosed \/ AcceptErrorReturn \/ TrackRejected
             \/ TrackShuttingDown \/ Spawn \/ AbandonReturn \/ DeferShutdown
             \/ DeferCloseJobs
    BY <2>7, Stutter DEF AcceptClosed, AcceptErrorReturn, TrackRejected,
       TrackShuttingDown, Spawn, AbandonReturn, DeferShutdown, DeferCloseJobs
  <2> QED  BY <1>3, <2>1, <2>2, <2>3, <2>4, <2>5, <2>6, <2>7 DEF Loop
<1>4. ASSUME NEW c \in Conns, HandlerReturn(c) \/ Unwind(c)
      PROVE  [Service!SNext]_Service!svars
  <2> UNCHANGED <<pc, shuttingDown>>
    BY <1>4 DEF HandlerReturn, Unwind, ConnFrame
  <2>1. CASE DeferConnClose(c)
    <3>1. c \in activeConns /\ modeBar # "stopped" /\ modeBar' = modeBar
      BY <2>1 DEF DeferConnClose, IInv, TrackInv, InMap
    <3> QED  BY <2>1, <3>1, CloseIsEnd DEF DeferConnClose
  <2>2. CASE UntrackDelete(c)
    BY <2>2, Stutter DEF UntrackDelete, IInv, ClosedInv
  <2>3. CASE HandlerReturn(c) \/ UntrackDone(c)
    BY <2>3, Stutter DEF HandlerReturn, UntrackDone
  <2> QED  BY <1>4, <2>1, <2>2, <2>3 DEF Unwind
<1>5. ASSUME NEW w \in Workers, WorkerExit(w) PROVE [Service!SNext]_Service!svars
  BY <1>5, Stutter DEF WorkerExit
<1>6. CASE Watch  BY <1>6, Stutter DEF Watch
<1>7. CASE Shutdown \/ Waiter
  <2> UNCHANGED <<pc, activeConns>>
    BY <1>7 DEF Shutdown, Waiter, ShutdownFrame
  <2>1. CASE BeginShutdown
    <3>1. modeBar = "serving" /\ modeBar' = "stopping"
      BY <2>1 DEF BeginShutdown, IInv, OnceInv, StopInv, LeavePcs
    <3>2. Service!Stop  BY <2>1, <3>1 DEF BeginShutdown, Service!Stop
    <3> QED  BY <3>2 DEF Service!SNext
  <2>2. ASSUME NEW c \in Conns, ForceClose(c) PROVE [Service!SNext]_Service!svars
    <3>1. modeBar # "stopped" /\ modeBar' = modeBar
      BY <2>2 DEF ForceClose, IInv, StopInv, LeavePcs
    <3>2. CASE c \in activeConns  BY <2>2, <3>1, <3>2, CloseIsEnd DEF ForceClose
    <3>3. CASE c \notin activeConns
      <4>1. c \in closed
        BY <2>2, <3>3 DEF ForceClose, IInv, TypeOK, Phases, TrackInv, InMap,
                          ClosedInv, Fresh
      <4> QED  BY <2>2, <3>1, <4>1, Stutter DEF ForceClose
    <3> QED  BY <3>2, <3>3
  <2>3. CASE CloseActiveConns
    <3>1. shuttingDown = TRUE  BY <2>3 DEF CloseActiveConns, IInv, TypeOK, OnceInv
    <3> QED  BY <2>3, <3>1, Stutter DEF CloseActiveConns
  <2>4. CASE \/ OnceEnter \/ CloseListener \/ GraceDrained \/ GraceExpired
             \/ ForceClosed \/ WaitConns \/ WaiterDone
    BY <2>4, Stutter DEF OnceEnter, CloseListener, GraceDrained, GraceExpired,
       ForceClosed, WaitConns, WaiterDone
  <2> QED  BY <1>7, <2>1, <2>2, <2>3, <2>4 DEF Shutdown, Waiter
<1>8. CASE Idle  BY <1>8, Stutter DEF Idle
<1> QED  BY <1>1, <1>2, <1>3, <1>4, <1>5, <1>6, <1>7, <1>8 DEF Next, Terminated

\* Serve with all its goroutines implements ConnService (safety): connections
\* are admitted only while serving and below the limit, end once, and Serve
\* stops only when none is open.
THEOREM Refinement == Spec => ImplementsConnServiceSafely
<1>1. Init => Service!SInit
  BY DEF Init, Service!SInit, modeBar
<1> QED  BY <1>1, RefineStep, Invariance, PTL
         DEF Spec, ImplementsConnServiceSafely, Service!SSafe
=============================================================================
