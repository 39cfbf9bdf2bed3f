-------------------------- MODULE HandleConnProofs --------------------------
(***************************************************************************)
(* The echo loop of HandleConn returns what it read, both handlers keep    *)
(* the contract of ConnHandler, and ServeConn keeps under handleConn what  *)
(* HttpConnProofs shows of it, for every client and every timeout.         *)
(***************************************************************************)
EXTENDS HandleConn, HttpConnProofs

EchoPcs == {"readDeadline", "echoRead", "echoDeadline", "echoWrite", "returned"}

\* What was read is what was echoed followed by the chunk in hand, at every
\* point between a Read and the end of its Write.
EchoInv ==
  ~custom =>
    /\ pc \in EchoPcs /\ filled \in Nat
    /\ echoed \in Seq(Nat) /\ Len(echoed) <= filled
    /\ \A i \in 1..Len(echoed) : echoed[i] = i
    /\ pc \in {"readDeadline", "echoRead"} \/ (pc = "returned" /\ ~failed) =>
         Len(echoed) = filled
    /\ pc \in {"echoDeadline", "echoWrite"} =>
         /\ chunk \in Seq(Nat) /\ Len(echoed) + Len(chunk) = filled
         /\ \A i \in 1..Len(chunk) : chunk[i] = Len(echoed) + i

\* Extending what was echoed by a prefix of the chunk keeps it in order.
LEMMA EchoPrefix ==
  ASSUME NEW e \in Seq(Nat), NEW c \in Seq(Nat), NEW k \in 0..Len(c),
         \A i \in 1..Len(e) : e[i] = i, \A i \in 1..Len(c) : c[i] = Len(e) + i
  PROVE  LET s == e \o SubSeq(c, 1, k)
         IN s \in Seq(Nat) /\ Len(s) = Len(e) + k /\ \A i \in 1..Len(s) : s[i] = i
<1> DEFINE p == SubSeq(c, 1, k)
<1>1. Len(e) \in Nat /\ Len(c) \in Nat /\ \A i \in 1..k : c[i] \in Nat
  BY LenProperties, ElementOfSeq
<1>2. p \in Seq(Nat) /\ Len(p) = k /\ \A i \in 1..k : p[i] = c[i]
  <2>1. p \in Seq(Nat) /\ Len(p) = (IF 1 <= k THEN k - 1 + 1 ELSE 0)
        /\ \A i \in 1..k - 1 + 1 : p[i] = c[1 + i - 1]
    BY <1>1, SubSeqProperties
  <2> QED BY <1>1, <2>1
<1> HIDE DEF p
<1>3. /\ e \o p \in Seq(Nat) /\ Len(e \o p) = Len(e) + k
      /\ \A i \in 1..Len(e) + k : (e \o p)[i] = IF i <= Len(e) THEN e[i] ELSE p[i - Len(e)]
  BY <1>2, ConcatProperties
<1>4. ASSUME NEW i \in 1..Len(e) + k PROVE (e \o p)[i] = i
  <2>1. CASE i <= Len(e)
    BY <1>1, <1>3, <2>1
  <2>2. CASE i > Len(e)
    <3>1. i - Len(e) \in 1..k /\ i - Len(e) \in 1..Len(c)
      BY <1>1, <2>2
    <3>2. (e \o p)[i] = c[i - Len(e)]
      BY <1>1, <1>2, <1>3, <2>2, <3>1
    <3>3. c[i - Len(e)] = Len(e) + (i - Len(e))
      BY <3>1
    <3> QED BY <1>1, <3>2, <3>3
  <2>3. i <= Len(e) \/ i > Len(e)
    BY <1>1
  <2> QED BY <2>1, <2>2, <2>3
<1> QED BY <1>3, <1>4 DEF p

\* A Read of n units gives a chunk of n units.
LEMMA ChunkOf ==
  ASSUME NEW f \in Nat, NEW n \in Nat
  PROVE  LET c == [i \in 1..n |-> f + i]
         IN c \in Seq(Nat) /\ Len(c) = n /\ \A i \in 1..Len(c) : c[i] = f + i
  OBVIOUS

\* Each step of handleConn, of the client and of the server's shutdown keeps
\* the echo in step with the stream.
LEMMA EchoNext == ASSUME EchoInv, [HandleNext]_allVars PROVE EchoInv'
<1>1. CASE Env /\ UNCHANGED <<custom, echoVars>>
  BY <1>1 DEF EchoInv, Env, echoVars, inVars
<1>2. CASE custom /\ UNCHANGED custom
  BY <1>2 DEF EchoInv
<1>3. ASSUME ~custom, EchoStep, UNCHANGED <<envVars, custom>> PROVE EchoInv'
  <2> USE <1>3 DEF EchoInv
  <2>1. CASE EchoReadDeadline
    BY <2>1 DEF EchoReadDeadline, echoVars, EchoPcs
  <2>2. ASSUME NEW n \in 1..Total, EchoRead(n) PROVE EchoInv'
    <3>1. n \in Nat /\ filled \in Nat /\ Len(echoed) = filled
      BY <2>2 DEF EchoRead
    <3>2. chunk' \in Seq(Nat) /\ Len(chunk') = n
          /\ \A i \in 1..Len(chunk') : chunk'[i] = filled + i
      BY <2>2, <3>1, ChunkOf DEF EchoRead
    <3> QED BY <2>2, <3>1, <3>2 DEF EchoRead, EchoPcs
  <2>3. CASE EchoReadFails
    BY <2>3 DEF EchoReadFails, echoVars, EchoPcs
  <2>4. CASE EchoWriteDeadline
    BY <2>4 DEF EchoWriteDeadline, EchoPcs
  <2>5. CASE EchoWrite
    <3>1. Len(chunk) \in 0..Len(chunk) /\ SubSeq(chunk, 1, Len(chunk)) = chunk
      BY <2>5, LenProperties, SubSeqFull DEF EchoWrite
    <3>2. /\ echoed' \in Seq(Nat) /\ Len(echoed') = Len(echoed) + Len(chunk)
          /\ \A i \in 1..Len(echoed') : echoed'[i] = i
      BY <2>5, <3>1, EchoPrefix DEF EchoWrite
    <3> QED BY <2>5, <3>2 DEF EchoWrite, EchoPcs
  <2>6. CASE EchoWriteFails
    <3>1. PICK k \in 0..Len(chunk) : echoed' = echoed \o SubSeq(chunk, 1, k)
      BY <2>6 DEF EchoWriteFails
    <3>2. /\ echoed' \in Seq(Nat) /\ Len(echoed') = Len(echoed) + k
          /\ \A i \in 1..Len(echoed') : echoed'[i] = i
      BY <2>6, <3>1, EchoPrefix DEF EchoWriteFails
    <3>3. Len(echoed) \in Nat /\ Len(chunk) \in Nat
      BY <2>6, LenProperties DEF EchoWriteFails
    <3> QED BY <2>6, <3>2, <3>3 DEF EchoWriteFails, EchoPcs
  <2> QED BY <1>3, <2>1, <2>2, <2>3, <2>4, <2>5, <2>6 DEF EchoStep
<1>4. CASE CloseConn
  BY <1>4 DEF EchoInv, CloseConn, inVars, echoVars
<1>5. CASE UNCHANGED allVars
  BY <1>5 DEF EchoInv, allVars, vars, inVars, echoVars
<1> QED BY <1>1, <1>2, <1>3, <1>4, <1>5 DEF HandleNext, Handler

\* The echo loop of handleConn sends back what it read, in order and complete,
\* whatever the segmentation, the timeouts and the way the stream ends.
THEOREM EchoIsFaithful == HandleSpec => []EchoFaithful
<1>0. <<>> \in Seq(Nat) /\ Len(<<>>) = 0
  BY EmptySeq
<1>1. HandleInit => EchoInv
  <2>1. HandleInit => pc = "readDeadline" /\ filled = 0 /\ echoed = <<>>
    BY DEF HandleInit, Init
  <2> QED BY <1>0, <2>1 DEF EchoInv, EchoPcs
<1>2. EchoInv => EchoFaithful
  BY DEF EchoInv, EchoFaithful
<1> QED BY <1>1, <1>2, EchoNext, PTL DEF HandleSpec

-----------------------------------------------------------------------------
(* The contract of ConnHandler.                                            *)

\* No step of a handler starts after its return, and none of them closes the
\* connection: that is left to the deferred Close and to the server.
LEMMA HandlerSteps == ASSUME Handler PROVE pc # "returned" /\ UNCHANGED connClosed
<1>1. ServeConn => pc # "returned" /\ UNCHANGED connClosed
  BY DEF ServeConn, envVars, SetReadDeadline, Read, Fill, ReadFails, ReadPcs,
         ReadRequestLine, ReadField, ReadBlank, ReadBody, App, SetWriteDeadline, Refused,
         Write, WriteHead, WriteBody, BodyFails, BodyDone, WriteFails
<1>2. EchoStep => pc # "returned"
  BY DEF EchoStep, EchoReadDeadline, EchoRead, EchoReadFails, EchoWriteDeadline,
         EchoWrite, EchoWriteFails
<1> QED BY <1>1, <1>2 DEF Handler, envVars

\* handleConn, with either handler, is the handler that TcpServer assumes: it
\* returns once, and a closed connection is not opened or closed again.
THEOREM HandlerRefinement == HandleSpec => ImplementsConnHandlerSafely
<1>1. HandleInit => Contract!HInit
  BY DEF HandleInit, Init, Contract!HInit
<1>2. ASSUME [HandleNext]_allVars PROVE [Contract!HNext]_Contract!hvars
  <2>1. CASE Env
    BY <2>1 DEF Env, ClientGone, ClientStalls, ServerCloses,
                Contract!HNext, Contract!hvars, Contract!Close
  <2>2. CASE Handler
    BY <2>2, HandlerSteps DEF Contract!HNext, Contract!hvars, Contract!Return
  <2>3. CASE CloseConn
    BY <2>3 DEF CloseConn, Contract!HNext, Contract!hvars, Contract!Close
  <2>4. CASE UNCHANGED allVars
    BY <2>4 DEF allVars, vars, envVars, Contract!hvars
  <2> QED BY <1>2, <2>1, <2>2, <2>3, <2>4 DEF HandleNext
<1> QED BY <1>1, <1>2, PTL DEF HandleSpec, ImplementsConnHandlerSafely, Contract!HSafe

-----------------------------------------------------------------------------
(* ServeConn as the handler.                                               *)

\* handleConn runs ServeConn unchanged, and the deferred Close comes after it.
ServeInv == custom => ConnInv /\ FrameInv

\* The deferred Close changes nothing of the requests and responses.
LEMMA CloseKeeps == ASSUME ConnInv, FrameInv, CloseConn PROVE ConnInv' /\ FrameInv'
<1>1. /\ pc = "returned" /\ connClosed' = TRUE
      /\ UNCHANGED <<script, pos, filled, pc, start, version, fields, remaining, response, close,
                     delivered, out, fileVars>>
  BY DEF CloseConn, inVars, reqVars, resVars
<1>2. ConnTypeOK'
  BY <1>1 DEF ConnInv, ConnTypeOK
<1>3. OutInv'
  BY <1>1 DEF ConnInv, OutInv, Answers, GoesOn, InHand, cur, ReadPcs, CloseIsAnnounced
<1>4. FileInv'
  BY <1>1 DEF ConnInv, FileInv, FilesAccounted, fileVars
<1>5. FrameInv'
  <2>1. pos \in Nat /\ filled \in Nat /\ pos <= filled /\ filled <= Total
    BY DEF FrameInv, StreamInv
  <2> QED BY <1>1, <2>1, Elsewhere DEF reqVars, resVars
<1> QED BY <1>2, <1>3, <1>4, <1>5 DEF ConnInv

\* Each step of handleConn keeps the invariants of ServeConn.
LEMMA ServeNext == ASSUME ServeInv, [HandleNext]_allVars PROVE ServeInv'
<1>1. UNCHANGED custom
  BY DEF HandleNext, Handler, CloseConn, allVars
<1> SUFFICES ASSUME custom PROVE ConnInv' /\ FrameInv'
  BY <1>1 DEF ServeInv
<1>2. ConnInv /\ FrameInv
  BY DEF ServeInv
<1>3. [Next]_vars \/ CloseConn
  BY DEF HandleNext, Handler, Next, allVars
<1>4. CASE [Next]_vars
  <2>1. ConnInv'
    BY <1>2, <1>4, ConnNext
  <2> QED BY <1>2, <1>4, <2>1, FrameNext
<1>5. CASE CloseConn
  BY <1>2, <1>5, CloseKeeps
<1> QED BY <1>3, <1>4, <1>5

\* A connection of the TCP server with a ConnHandler, from Accept to Close:
\* requests are framed as the client framed them, responses go out in order,
\* a healthy connection is closed only after a response that said so, and the
\* files left open are those the application dropped and that of a response
\* never begun.
THEOREM ServeConnUnderHandleConn ==
  HandleSpec => [](custom => Framing /\ ResponsesInOrder /\ CloseIsAnnounced /\ FilesAccounted)
<1>1. HandleInit => ServeInv
  BY ConnInit, FrameInit DEF HandleInit, ServeInv
<1>2. ServeInv => (custom => Framing /\ ResponsesInOrder /\ CloseIsAnnounced /\ FilesAccounted)
  BY ConnSays DEF ServeInv, FrameInv
<1> QED BY <1>1, <1>2, ServeNext, PTL DEF HandleSpec
=============================================================================
