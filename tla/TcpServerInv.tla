---------------------------- MODULE TcpServerInv ----------------------------
(***************************************************************************)
(* The inductive invariant of TcpServer: what holds between its variables  *)
(* at every point of every interleaving.  TLC checks it on small instances *)
(* and TcpServerProofs proves it for all.                                  *)
(***************************************************************************)
EXTENDS TcpServer

\* The accept loop is the only owner of the connection it has in hand: no other
\* connection is accepted-but-untracked or tracked-but-undispatched.
LoopInv ==
  /\ pc \in {"track", "reject", "turnAway"} =>
       cur \in Conns /\ phase[cur] = "accepted"
  /\ pc = "dispatch" => cur \in Conns /\ phase[cur] = "tracked"
  /\ pc = "abandon" =>
       cur \in Conns /\ phase[cur] \in {"closing", "unmapped", "done"}
  /\ \A c \in Conns :
       /\ phase[c] = "accepted" =>
            pc \in {"track", "reject", "turnAway"} /\ cur = c
       /\ phase[c] = "tracked" => pc = "dispatch" /\ cur = c

\* The two book-keepings of tracked connections, the map and the WaitGroup, say
\* what the connections' phases say, and the map respects the limit.
TrackInv ==
  /\ activeConns = {c \in Conns : InMap(c)}
  /\ wg = Cardinality(Counted)
  /\ MaxActiveConns > 0 => Cardinality(activeConns) <= MaxActiveConns

\* A connection not yet tracked or refused.
Fresh(c) == phase[c] \in {"new", "backlog", "accepted"}

\* What is past its deferred Close is closed; nothing fresh is closed, about to
\* be closed, or watched by WaitForIdle.
ClosedInv ==
  /\ \A c \in Conns :
       phase[c] \in {"closing", "unmapped", "done", "refused"} => c \in closed
  /\ \A c \in closed \cup toClose \cup idleConns : ~Fresh(c)
  /\ idle = "true" => idleConns \subseteq closed

\* How far the once-only shutdown is decides the flag, the listener, the helper
\* goroutine and which connections have been dealt with.
OnceInv ==
  /\ shuttingDown <=> once \notin {"idle", "begin"}
  /\ listenerOpen <=> once \in {"idle", "begin", "closeListener"}
  /\ listenerCloses = IF listenerOpen THEN 0 ELSE 1
  /\ waiter = "none" <=> listenerOpen
  /\ waiter = "done" \/ once = "done" => Counted = {}
  /\ once = "closing" => Counted \subseteq closed \cup toClose
  /\ once = "wait" => Counted \subseteq closed

\* Who may have started the shutdown, and what Serve may have decided to return.
StopInv ==
  /\ watcher = "shutdown" => ctxDone
  /\ once # "idle" => ctxDone \/ pc \in LeavePcs
  /\ pc \in {"turnAway"} => shuttingDown
  /\ pc = "acceptError" => ctxDone \/ listenerFailed
  /\ pc = "abandon" => ctxDone
  /\ pc \in LeavePcs \ {"leave"} => once = "done"
  /\ pc = "serveReturned" => live = {}
  /\ ResultIsHonest

\* No one else has the connection of worker w, and the WaitGroup counts it.
HoldsAlone(w) ==
  /\ w \in live /\ job[w] \in Conns /\ InWg(job[w]) /\ job[w] # cur
  /\ \A v \in Workers : job[v] = job[w] => v = w

\* Who has a connection in hand: the accept loop only in the middle of a round,
\* a worker only its own, and of the pool's connections none is without a hand.
PoolInv ==
  /\ pc \in {"accept", "acceptError"} \cup LeavePcs => cur = NoConn
  /\ \A w \in Workers : job[w] # NoConn => HoldsAlone(w)
  /\ Workers # {} =>
       \A c \in Conns : InWg(c) /\ c # cur => \E w \in Workers : job[w] = c

\* Whatever the interleaving, the accept loop, the trackers, the once-only
\* shutdown and the pool agree about every connection (server.go as a whole).
IInv == TypeOK /\ LoopInv /\ TrackInv /\ ClosedInv /\ OnceInv /\ StopInv /\ PoolInv
=============================================================================
