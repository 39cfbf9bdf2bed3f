------------------------------ MODULE HttpConn ------------------------------
(***************************************************************************)
(* httpserver.Handler.ServeConn on one connection, with the request reader *)
(* and the response writer of package http1 (src/internal/httpserver/      *)
(* handler.go, src/internal/http1).                                        *)
(*                                                                         *)
(* The client sends a script of pipelined messages.  The unit of the byte  *)
(* stream is a CRLF-terminated line or one byte of a body.  conn.Read puts *)
(* any number of units into the bufio.Reader at once, so reading ahead of  *)
(* the current request is possible.  The client may stop, close or reset;  *)
(* the server may close the connection at any time (closeActiveConns).     *)
(***************************************************************************)
EXTENDS Integers, Sequences

CONSTANTS Scripts,      \* what clients may send: sequences of messages
          Responses,    \* what the application may answer
          MaxHeaders,   \* Handler.MaxHeaders
          MaxBody,      \* Handler.MaxBody
          Numeral,      \* the Content-Length texts that parse, and their values
          Timeouts      \* which of the two timeouts may be set

ASSUME TimeoutAssumption == Timeouts \subseteq [read : BOOLEAN, write : BOOLEAN]
ASSUME SizeAssumption == MaxHeaders \in Nat \ {0} /\ MaxBody \in Nat \ {0}
ASSUME NumeralAssumption == \A t \in DOMAIN Numeral : Numeral[t] \in Nat
ASSUME ScriptAssumption ==
  Scripts \subseteq Seq([version : STRING, body : Nat,
                        fields : Seq([name : STRING, value : STRING])])
ASSUME ResponseAssumption ==
  Responses \subseteq [status : Int, reader : BOOLEAN, length : Int, avail : Nat,
                      readErr : BOOLEAN, chunked : BOOLEAN, closer : BOOLEAN,
                      badHeader : BOOLEAN, lost : Nat]

VARIABLES
  timeouts,    \* ReadTimeout > 0, WriteTimeout > 0 of this Handler
  script,      \* the messages of this client
  filled,      \* units that conn.Read has put into the bufio.Reader
  pos,         \* units that the request reader has consumed
  client,      \* "up", or gone: "fin" (closed) or "rst" (reset)
  reading,     \* the client still takes what the server writes
  connClosed,  \* conn.Close was called on the server side
  pc,          \* where ServeConn is
  start,       \* pos at which the current request began
  version,     \* of the current request line
  fields,      \* headers of the current request
  remaining,   \* body bytes of the current request still to read
  response,    \* the response to write
  close,       \* closeAfterResponse
  delivered,   \* history: the requests handed to the application
  out,         \* history: the responses put on the wire
  openFiles,   \* files opened for responses and not closed
  dropped      \* history: those of them that no response carries

inVars  == <<filled, pos>>
envVars == <<timeouts, script, client, reading, connClosed>>
reqVars == <<start, version, fields, remaining>>
resVars == <<response, close>>
fileVars == <<openFiles, dropped>>
vars == <<inVars, envVars, pc, reqVars, resVars, delivered, out, fileVars>>

-----------------------------------------------------------------------------
(* The byte stream of a script.                                            *)

\* A message: its version, its header lines, the length of its body.  The body
\* may be longer than the headers say, never shorter (a client that sends less
\* stops or closes).
Size(m) == Len(m.fields) + 2 + m.body

\* Units before message i of the script.
Before(i) ==
  LET b[j \in 1..i] == IF j = 1 THEN 0 ELSE b[j - 1] + Size(script[j - 1])
  IN b[i]

Total == Before(Len(script) + 1)

\* The message that unit p belongs to, and the place of p in it.
MsgAt(p) == CHOOSE i \in 1..Len(script) : Before(i) < p /\ p <= Before(i + 1)

Unit(p) ==
  LET m == script[MsgAt(p)]
      k == p - Before(MsgAt(p))
  IN CASE k = 1 -> [kind |-> "start", version |-> m.version]
       [] k \in 2..Len(m.fields) + 1 -> [kind |-> "field", field |-> m.fields[k - 1]]
       [] k = Len(m.fields) + 2 -> [kind |-> "blank"]
       [] OTHER -> [kind |-> "data"]

-----------------------------------------------------------------------------
(* The parsers of http1.                                                   *)

\* ParseHeaderField: lines that are malformed or longer than MaxLine have the
\* name "".
validField(f) == f.name # ""

hasNonEmptyHeader(fs, name) ==
  \E i \in 1..Len(fs) : fs[i].name = name /\ fs[i].value # ""

HeaderHasToken(fs, name, values) ==
  \E i \in 1..Len(fs) : fs[i].name = name /\ fs[i].value \in values

shouldCloseConnection(v, fs) ==
  HeaderHasToken(fs, "Connection", {"close", "keep-alive, close"}) \/ v # "HTTP/1.1"

ContentLengths(fs) == {fs[i].value : i \in {j \in 1..Len(fs) : fs[j].name = "Content-Length"}}

\* Mutant of ContentLength: the last value wins, conflicts are not seen.
ContentLengthLast(fs) ==
  LET cl == {i \in 1..Len(fs) : fs[i].name = "Content-Length"}
      last == fs[CHOOSE i \in cl : \A j \in cl : j <= i].value
  IN IF cl = {} THEN [err |-> FALSE, found |-> FALSE, length |-> 0]
     ELSE IF last \notin DOMAIN Numeral THEN [err |-> TRUE, found |-> FALSE, length |-> 0]
     ELSE [err |-> FALSE, found |-> TRUE, length |-> Numeral[last]]

\* The values are compared as numbers: "1" and "01" agree.
ContentLength(fs) ==
  LET texts == ContentLengths(fs)
      bad == ~(texts \subseteq DOMAIN Numeral)
      values == {Numeral[t] : t \in texts \cap DOMAIN Numeral}
  IN IF bad \/ (\E a, b \in values : a # b)
     THEN [err |-> TRUE, found |-> FALSE, length |-> 0]
     ELSE IF texts = {} THEN [err |-> FALSE, found |-> FALSE, length |-> 0]
     ELSE [err |-> FALSE, found |-> TRUE, length |-> CHOOSE n \in values : TRUE]

\* What stops the request after its header section: validateRequestHeaders,
\* ContentLength, the limits of ReadFixedBody.
headerError(v, fs) ==
  IF v = "HTTP/1.1" /\ ~hasNonEmptyHeader(fs, "Host") THEN "parse"
  ELSE IF hasNonEmptyHeader(fs, "Transfer-Encoding") THEN "transferEncoding"
  ELSE IF ContentLength(fs).err THEN "parse"
  ELSE IF ContentLength(fs).length > MaxBody THEN "tooLarge"
  ELSE "none"

\* The error branch of responseForRequest.
errorStatus(err) == CASE err = "timeout" -> 408
                      [] err = "tooLarge" -> 413
                      [] err = "transferEncoding" -> 501
                      [] OTHER -> 400

ErrorResponse(status) == [status |-> status, reader |-> FALSE, length |-> 0, avail |-> 1,
                          readErr |-> FALSE, chunked |-> FALSE, closer |-> FALSE,
                          badHeader |-> FALSE, lost |-> 0]

\* The response to a request that could not be read; closeAfterResponse is TRUE.
Fail(err) == /\ response' = ErrorResponse(errorStatus(err)) /\ close' = TRUE
             /\ pc' = "writeDeadline"
             /\ UNCHANGED <<reqVars, delivered>>

-----------------------------------------------------------------------------
(* Init and the environment.                                               *)

Init == /\ timeouts \in Timeouts /\ script \in Scripts
        /\ filled = 0 /\ pos = 0
        /\ client = "up" /\ reading = TRUE /\ connClosed = FALSE
        /\ pc = "readDeadline" /\ start = 0 /\ version = "" /\ fields = <<>>
        /\ remaining = 0
        /\ response = ErrorResponse(400) /\ close = FALSE
        /\ delivered = <<>> /\ out = <<>> /\ openFiles = 0 /\ dropped = 0

ClientGone == /\ client = "up" /\ client' \in {"fin", "rst"}
              /\ UNCHANGED <<reading, connClosed>>

\* The client stops taking data: writes block.
ClientStalls == reading /\ reading' = FALSE /\ UNCHANGED <<client, connClosed>>

ServerCloses == ~connClosed /\ connClosed' = TRUE /\ UNCHANGED <<client, reading>>

Env == /\ pc # "returned"
       /\ ClientGone \/ ClientStalls \/ ServerCloses
       /\ UNCHANGED <<timeouts, script, inVars, pc, reqVars, resVars, delivered, out, fileVars>>

-----------------------------------------------------------------------------
(* Reading a request.                                                      *)

ReadPcs == {"line", "header", "body"}

SetReadDeadline ==
  /\ pc = "readDeadline"
  /\ pc' = IF timeouts.read /\ connClosed THEN "returned" ELSE "line"
  /\ start' = pos /\ fields' = <<>> /\ remaining' = 0
  /\ UNCHANGED <<inVars, version, resVars, delivered, out, fileVars>>

\* conn.Read: what the client has sent so far goes into the buffer.
Fill(n) ==
  /\ pc \in ReadPcs /\ pos = filled
  /\ client = "up" /\ ~connClosed /\ n <= Total - filled
  /\ filled' = filled + n
  /\ UNCHANGED <<pos, pc, reqVars, resVars, delivered, out, fileVars>>

\* Mutant of ReadFails: the read deadline is not set.
ReadFailsNoTimeout(err) ==
  /\ pc \in ReadPcs /\ pos = filled
  /\ err = "parse" /\ (client # "up" \/ connClosed)
  /\ Fail(err)
  /\ UNCHANGED <<inVars, out, fileVars>>

\* Mutant of ReadFails: only a timeout ends the read, other errors are retried.
ReadFailsRetry(err) ==
  /\ pc \in ReadPcs /\ pos = filled
  /\ err = "timeout" /\ timeouts.read
  /\ Fail(err)
  /\ UNCHANGED <<inVars, out, fileVars>>

\* conn.Read fails: the deadline passed, EOF, or the connection is broken.
ReadFails(err) ==
  /\ pc \in ReadPcs /\ pos = filled
  /\ \/ err = "timeout" /\ timeouts.read
     \/ err = "parse" /\ (client # "up" \/ connClosed)
  /\ Fail(err)
  /\ UNCHANGED <<inVars, out, fileVars>>

Buffered == pos < filled

Consume == pos' = pos + 1 /\ UNCHANGED <<filled, out, fileVars>>

\* ReadLine and ParseRequestLine.  Surplus bytes of the last body are read as
\* the beginning of this line: they may end it, spoil it or become part of the
\* method.
ReadRequestLine ==
  LET u == Unit(pos + 1)
      ok == u.kind = "start" /\ u.version \in {"HTTP/1.1", "HTTP/1.0"}
  IN /\ pc = "line" /\ Buffered /\ Consume
     /\ \/ /\ ok
           /\ version' = u.version /\ pc' = "header"
           /\ UNCHANGED <<start, fields, remaining, resVars, delivered>>
        \/ /\ u.kind = "data"
           /\ UNCHANGED <<pc, reqVars, resVars, delivered>>
        \/ /\ ~ok \/ start < pos
           /\ Fail("parse")

tooManyHeaders == Len(fields) >= MaxHeaders

\* ReadHeaderFields: one field.
ReadField ==
  LET u == Unit(pos + 1)
  IN /\ pc = "header" /\ Buffered /\ u.kind = "field" /\ Consume
     /\ \/ /\ ~tooManyHeaders /\ validField(u.field)
           /\ fields' = Append(fields, u.field)
           /\ UNCHANGED <<pc, start, version, remaining, resVars, delivered>>
        \/ /\ tooManyHeaders \/ ~validField(u.field)
           /\ Fail("parse")

\* ReadHeaderFields: the empty line.  Then the checks on the whole section, and
\* the body or the application.
ReadBlank ==
  LET e == headerError(version, fields)
  IN /\ pc = "header" /\ Buffered /\ Unit(pos + 1).kind = "blank" /\ Consume
     /\ \/ /\ e = "none"
           /\ remaining' = ContentLength(fields).length
           /\ pc' = IF remaining' > 0 THEN "body" ELSE "app"
           /\ UNCHANGED <<start, version, fields, resVars, delivered>>
        \/ e # "none" /\ Fail(e)

\* ReadFixedBody.
ReadBody ==
  /\ pc = "body" /\ Buffered /\ Consume
  /\ remaining' = remaining - 1
  /\ pc' = IF remaining' = 0 THEN "app" ELSE "body"
  /\ UNCHANGED <<start, version, fields, resVars, delivered>>

\* responseForRequest: the application answers.  It has opened the file that the
\* response carries, and r.lost others: SendFile opens one, and a panic's reset,
\* a later Write, StreamBody or SendFile forgets it without closing it.
App(r) ==
  /\ pc = "app"
  /\ delivered' = Append(delivered, [from |-> start, to |-> pos, version |-> version,
                                     fields |-> fields, answer |-> r.status])
  /\ response' = r /\ close' = shouldCloseConnection(version, fields)
  /\ openFiles' = openFiles + r.lost + (IF r.closer THEN 1 ELSE 0)
  /\ dropped' = dropped + r.lost
  /\ pc' = "writeDeadline"
  /\ UNCHANGED <<inVars, reqVars, out>>

-----------------------------------------------------------------------------
(* Writing the response.                                                   *)

statusAllowsBody(status) == status \notin 100..199 /\ status \notin {204, 304}

\* Response.Version is left empty by the response writer and by ErrorResponse,
\* and WriteResponse then takes HTTP/1.1, whatever the request's version was.
responseVersion(r) == "HTTP/1.1"

\* The early returns of WriteResponse, before it defers BodyCloser.Close.
refused(r) == \/ r.status \notin 100..999
              \/ r.chunked /\ responseVersion(r) # "HTTP/1.1"
              \/ r.reader /\ r.length < 0 /\ ~r.chunked

SetWriteDeadline ==
  /\ pc = "writeDeadline"
  /\ pc' = IF timeouts.write /\ connClosed THEN "returned" ELSE "write"
  /\ UNCHANGED <<inVars, reqVars, resVars, delivered, out, fileVars>>

Refused ==
  /\ pc = "write" /\ refused(response)
  /\ pc' = "returned"
  /\ UNCHANGED <<inVars, reqVars, resVars, delivered, out, fileVars>>

\* What a response announces: the length of its body, or that it is chunked.
declared(r) == IF r.reader THEN r.length ELSE r.avail

entry(state) == [status |-> response.status, close |-> close, wrote |-> 0,
                 chunked |-> response.chunked, state |-> state]

\* BodyCloser.Close, deferred by WriteResponse.
CloseBody == /\ openFiles' = openFiles - (IF response.closer THEN 1 ELSE 0)
             /\ UNCHANGED dropped

\* A Write succeeds while the client takes data, and may succeed into the
\* socket buffers even after the client has closed.
CanWrite == reading /\ ~connClosed /\ client # "rst"

\* A Write fails: connection closed or reset, deadline passed.
MustFail == connClosed \/ client # "up" \/ (timeouts.write /\ ~reading)

\* Mutant of finish: the loop is left after every response.
finishOnce == pc' = "returned"

finish == pc' = IF close \/ response.status = 101 THEN "returned" ELSE "readDeadline"

\* Status line and headers.  A malformed header field stops the writer after
\* the status line is out.
WriteHead ==
  /\ pc = "write" /\ ~refused(response) /\ CanWrite
  /\ \/ /\ response.badHeader
        /\ out' = Append(out, entry("cut")) /\ CloseBody /\ pc' = "returned"
     \/ /\ ~response.badHeader /\ statusAllowsBody(response.status)
        /\ out' = Append(out, entry("head")) /\ pc' = "writeBody"
        /\ UNCHANGED fileVars
     \/ /\ ~response.badHeader /\ ~statusAllowsBody(response.status)
        /\ out' = Append(out, entry("done")) /\ CloseBody /\ finish
  /\ UNCHANGED <<inVars, reqVars, resVars, delivered>>

cur == out[Len(out)]

SetCur(e) == out' = [out EXCEPT ![Len(out)] = e]

\* One more unit of the body is copied from the reader or the buffer.
WriteBody ==
  /\ pc = "writeBody" /\ CanWrite
  /\ cur.wrote < response.avail
  /\ response.chunked \/ cur.wrote < declared(response)
  /\ SetCur([cur EXCEPT !.wrote = @ + 1])
  /\ UNCHANGED <<pc, fileVars, inVars, reqVars, resVars, delivered>>

\* The source is exhausted: before the announced length, or with an error.
ShortBody ==
  /\ cur.wrote = response.avail
  /\ IF response.chunked THEN response.readErr ELSE cur.wrote < declared(response)

\* Mutant of BodyFails: a short copy counts as success.
BodyFailsIgnored ==
  /\ pc = "writeBody" /\ ShortBody
  /\ SetCur([cur EXCEPT !.state = "cut"]) /\ CloseBody /\ finish
  /\ UNCHANGED <<inVars, reqVars, resVars, delivered>>

\* io.CopyN or the chunk reader returns an error.
BodyFails ==
  /\ pc = "writeBody" /\ ShortBody
  /\ SetCur([cur EXCEPT !.state = "cut"]) /\ CloseBody /\ pc' = "returned"
  /\ UNCHANGED <<inVars, reqVars, resVars, delivered>>

\* Mutant of BodyDone: the body is not closed.
BodyDoneNoClose ==
  /\ pc = "writeBody" /\ (response.chunked => CanWrite)
  /\ IF response.chunked THEN cur.wrote = response.avail /\ ~response.readErr
                         ELSE cur.wrote = declared(response)
  /\ SetCur([cur EXCEPT !.state = "done"]) /\ UNCHANGED fileVars /\ finish
  /\ UNCHANGED <<inVars, reqVars, resVars, delivered>>

\* The whole body is out; a chunked one ends with the last chunk.
BodyDone ==
  /\ pc = "writeBody" /\ (response.chunked => CanWrite)
  /\ IF response.chunked THEN cur.wrote = response.avail /\ ~response.readErr
                         ELSE cur.wrote = declared(response)
  /\ SetCur([cur EXCEPT !.state = "done"]) /\ CloseBody /\ finish
  /\ UNCHANGED <<inVars, reqVars, resVars, delivered>>

\* Some Write of WriteResponse returns an error; deferred Close, ServeConn ends.
WriteFails ==
  /\ MustFail
  /\ \/ /\ pc = "write" /\ ~refused(response)
        /\ out' = Append(out, entry("cut"))
     \/ pc = "writeBody" /\ SetCur([cur EXCEPT !.state = "cut"])
  /\ CloseBody /\ pc' = "returned"
  /\ UNCHANGED <<inVars, reqVars, resVars, delivered>>

-----------------------------------------------------------------------------

Read == \/ \E n \in 1..Total : Fill(n)
        \/ \E err \in {"timeout", "parse"} : ReadFails(err)
        \/ ReadRequestLine \/ ReadField \/ ReadBlank \/ ReadBody

Write == WriteHead \/ WriteBody \/ BodyFails \/ BodyDone \/ WriteFails

ServeConn == /\ \/ SetReadDeadline \/ Read
                \/ \E r \in Responses : App(r)
                \/ SetWriteDeadline \/ Refused \/ Write
             /\ UNCHANGED envVars

\* handleConn closes the connection after ServeConn has returned.
Returned == pc = "returned" /\ UNCHANGED vars

Next == Env \/ ServeConn \/ Returned

Spec == Init /\ [][Next]_vars

-----------------------------------------------------------------------------
(* Properties.                                                             *)

\* The positions of the header lines of m that have a name.
Named(m, name) == {i \in 1..Len(m.fields) : m.fields[i].name = name}

\* Every Content-Length line of m says n; no such line says 0.
Says(m, n) ==
  IF Named(m, "Content-Length") = {} THEN n = 0
  ELSE \A i \in Named(m, "Content-Length") :
         m.fields[i].value \in DOMAIN Numeral /\ Numeral[m.fields[i].value] = n

\* The messages the server has to accept, stated on the message and not on the
\* parser.
WellFormed(m) ==
  /\ m.version \in {"HTTP/1.1", "HTTP/1.0"}
  /\ Len(m.fields) <= MaxHeaders /\ Named(m, "") = {}
  /\ m.version = "HTTP/1.1" => \E i \in Named(m, "Host") : m.fields[i].value # ""
  /\ \A i \in Named(m, "Transfer-Encoding") : m.fields[i].value = ""
  /\ \E n \in 0..MaxBody : Says(m, n)

\* Framing: as long as the client's bodies are as long as it says, the requests
\* the application sees are the client's messages, in order, none skipped,
\* repeated, merged or split, whatever the segmentation of the stream, and only
\* well formed ones; ReadRequest takes exactly the announced body even of a
\* message with surplus bytes.
Framing ==
  \A i \in 1..Len(delivered) :
    (\A j \in 1..i - 1 : j <= Len(script) /\ Says(script[j], script[j].body)) =>
      LET d == delivered[i]
          m == script[i]
      IN /\ i <= Len(script) /\ WellFormed(m)
         /\ d.from = Before(i) /\ Says(m, d.to - d.from - Len(m.fields) - 2)
         /\ d.version = m.version /\ d.fields = m.fields

\* Responses go out in request order, one each, and only the last one on the
\* connection may be incomplete, announce the close, switch protocols or answer
\* an unreadable request: nothing follows a response that ends the connection.
ResponsesInOrder ==
  /\ Len(out) <= Len(delivered) + 1
  /\ \A i \in 1..Len(out) : i <= Len(delivered) => out[i].status = delivered[i].answer
  /\ \A i \in 1..Len(out) - 1 :
       out[i].state = "done" /\ ~out[i].close /\ out[i].status # 101

\* A connection on which the last response was complete and did not announce
\* Connection: close (or 101) is given up only because it was closed already.
CloseIsAnnounced ==
  pc = "returned" /\ out # <<>> /\ Len(delivered) <= Len(out) =>
    \/ cur.state = "cut" \/ cur.close \/ cur.status = 101
    \/ connClosed

\* Which files stay open.  ServeConn and WriteResponse leak none between two
\* requests: what is open then are the files that the application's responses did
\* not carry.  When ServeConn returns there is one more only if the response that
\* carries it was never begun, because WriteResponse refused it or the connection
\* was closed before SetWriteDeadline; once its status line is tried, the file is
\* closed on every path.
FilesAccounted ==
  /\ pc \in ReadPcs \cup {"readDeadline", "app"} => openFiles = dropped
  /\ pc = "returned" =>
       openFiles = dropped + IF response.closer /\ Len(out) < Len(delivered) THEN 1 ELSE 0
=============================================================================
