----------------------------- MODULE HandleConn -----------------------------
(***************************************************************************)
(* Server.handleConn (src/internal/tcpserver/server.go): ServeConn if a    *)
(* ConnHandler is set, as cmd/wbsv does, else the built-in echo loop; then *)
(* the deferred conn.Close.  The echo loop meets the same client, network  *)
(* and timeouts as ServeConn; units of the script are its bytes.           *)
(***************************************************************************)
EXTENDS HttpConn

VARIABLES custom,   \* s.ConnHandler is set
          chunk,    \* buf[:n], units read and not written yet
          readErr,  \* the Read that filled chunk also returned an error
          failed,   \* a write, or setting its deadline, failed
          echoed    \* history: the units written back

echoVars == <<chunk, readErr, failed, echoed>>
allVars == <<vars, custom, echoVars>>

HandleInit == /\ Init /\ custom \in BOOLEAN
              /\ chunk = <<>> /\ readErr = FALSE /\ failed = FALSE /\ echoed = <<>>

\* What the echo loop does not use of ServeConn's state.
HttpIdle == UNCHANGED <<pos, reqVars, resVars, delivered, out, fileVars>>

EchoReadDeadline ==
  /\ pc = "readDeadline"
  /\ pc' = IF timeouts.read /\ connClosed THEN "returned" ELSE "echoRead"
  /\ UNCHANGED <<filled, echoVars>>

\* Read returns n units, perhaps together with the error that ends the stream.
EchoRead(n) ==
  /\ pc = "echoRead" /\ ~connClosed /\ client # "rst" /\ n <= Total - filled
  /\ filled' = filled + n
  /\ chunk' = [i \in 1..n |-> filled + i]
  /\ readErr' \in {FALSE, client = "fin" /\ filled' = Total}
  /\ pc' = "echoDeadline"
  /\ UNCHANGED <<failed, echoed>>

\* Read returns an error and no data.
EchoReadFails ==
  /\ pc = "echoRead"
  /\ timeouts.read \/ client # "up" \/ connClosed
  /\ pc' = "returned"
  /\ UNCHANGED <<filled, echoVars>>

EchoWriteDeadline ==
  /\ pc = "echoDeadline"
  /\ IF timeouts.write /\ connClosed THEN pc' = "returned" /\ failed' = TRUE
                                     ELSE pc' = "echoWrite" /\ UNCHANGED failed
  /\ UNCHANGED <<filled, chunk, readErr, echoed>>

\* Mutant of EchoWrite: the error of the Read is acted on first.
EchoWriteErrFirst ==
  /\ pc = "echoWrite" /\ CanWrite
  /\ echoed' = IF readErr THEN echoed ELSE echoed \o chunk
  /\ chunk' = <<>>
  /\ pc' = IF readErr THEN "returned" ELSE "readDeadline"
  /\ UNCHANGED <<filled, readErr, failed>>

\* The data of a Read goes out before its error is acted on.
EchoWrite ==
  /\ pc = "echoWrite" /\ CanWrite
  /\ echoed' = echoed \o chunk /\ chunk' = <<>>
  /\ pc' = IF readErr THEN "returned" ELSE "readDeadline"
  /\ UNCHANGED <<filled, readErr, failed>>

\* Write returns an error after k units.
EchoWriteFails ==
  /\ pc = "echoWrite" /\ MustFail
  /\ \E k \in 0..Len(chunk) : echoed' = echoed \o SubSeq(chunk, 1, k)
  /\ failed' = TRUE /\ pc' = "returned"
  /\ UNCHANGED <<filled, chunk, readErr>>

EchoStep == \/ EchoReadDeadline
            \/ \E n \in 1..Total : EchoRead(n)
            \/ EchoReadFails \/ EchoWriteDeadline \/ EchoWrite \/ EchoWriteFails

\* Mutant of CloseConn: only the server's shutdown closes.
CloseConnNever == FALSE /\ UNCHANGED allVars

\* defer conn.Close().
CloseConn ==
  /\ pc = "returned" /\ ~connClosed /\ connClosed' = TRUE
  /\ UNCHANGED <<timeouts, script, client, reading, inVars, pc, reqVars, resVars,
                 delivered, out, fileVars, custom, echoVars>>

Handler == \/ custom /\ ServeConn /\ UNCHANGED <<custom, echoVars>>
           \/ ~custom /\ EchoStep /\ HttpIdle /\ UNCHANGED <<envVars, custom>>

HandleNext == \/ Env /\ UNCHANGED <<custom, echoVars>>
              \/ Handler \/ CloseConn
              \/ pc = "returned" /\ connClosed /\ UNCHANGED allVars

\* The goroutine of the connection runs whenever it is not blocked: in Read
\* while nothing arrives, in Write while the client takes nothing.  Data that
\* may still come is the client's and is not assumed to come.
HandleSpec == /\ HandleInit /\ [][HandleNext]_allVars
              /\ WF_allVars(Handler /\ filled' = filled) /\ WF_allVars(CloseConn)

-----------------------------------------------------------------------------
(* Properties.                                                             *)

\* The echo loop sends back what it read, in order, nothing twice; and unless
\* a write fails nothing it read is dropped, not even what came with the error
\* that ended the stream.
EchoFaithful ==
  ~custom =>
    /\ Len(echoed) <= filled
    /\ \A i \in 1..Len(echoed) : echoed[i] = i
    /\ pc = "returned" /\ ~failed => Len(echoed) = filled

Contract == INSTANCE ConnHandler WITH running <- pc # "returned", closed <- connClosed

\* Either handler is what TcpServer assumes of one: it returns once the
\* connection is closed under it, even while the client takes nothing, and the
\* connection is closed after it.
ImplementsConnHandler == Contract!HSpec

\* The safety part of the same statement.
ImplementsConnHandlerSafely == Contract!HSafe

\* With both timeouts set, a client that sends finitely much cannot keep either
\* handler for ever, wherever it stalls, and in the end the connection is closed.
HandlerTimesOut == (timeouts.read /\ timeouts.write) ~> (pc = "returned" /\ connClosed)
=============================================================================
