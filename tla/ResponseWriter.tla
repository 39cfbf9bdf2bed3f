--------------------------- MODULE ResponseWriter ---------------------------
(***************************************************************************)
(* One request on its way through the middleware that cmd/wbsv sets up:    *)
(* request ID, logging, CORS, compression, recovery, authentication, rate  *)
(* limit, application.  The application calls the methods of its           *)
(* ResponseWriter in any order and returns or panics between any two.      *)
(*                                                                         *)
(* CORS writes to the logging writer, which embeds the server's buffered   *)
(* writer and overrides WriteHeader, Write and reset only.  With           *)
(* compression the inner handlers write to a buffer that is replayed       *)
(* through the logging writer, without it to the logging writer itself     *)
(* (src/internal/httpserver: response_writer.go, logging.go, cors.go,      *)
(* compression.go, recovery.go, auth.go, rate_limit.go, range.go, sse.go,  *)
(* websocket.go, request_id.go).                                           *)
(***************************************************************************)
EXTENDS Integers, Sequences, FiniteSets, Functions

CONSTANTS Files,         \* the files that SendFile may open
          Statuses,      \* the statuses the application passes to WriteHeader
          AppHeaders,    \* the names it passes to SetHeader and AddHeader
          Chains,        \* [gzip, cors, credentials, auth, limit]: which middleware
                         \* is in the chain, the AllowOrigins of CORS (none: no CORS)
          Requests,      \* [origin, preflight, token, accepts, upgrade]
          MinBodyBytes,  \* the argument of GzipCompressionMiddleware
          MaxCalls       \* bound: calls the application makes

ASSUME FilesAssumption == IsFiniteSet(Files) /\ Files \cap {"none", "reader"} = {}
ASSUME StatusAssumption == Statuses \subseteq 100..999
ASSUME ChainAssumption ==
  Chains \subseteq [gzip : BOOLEAN, cors : Seq(STRING), credentials : BOOLEAN,
                   auth : BOOLEAN, limit : BOOLEAN]
\* A client's origin is a scheme, host and port, or "null"; "*" is none.
ASSUME RequestAssumption ==
  Requests \subseteq [origin : STRING \ {"*"}, preflight : BOOLEAN, token : BOOLEAN,
                     accepts : BOOLEAN, upgrade : BOOLEAN]
ASSUME BoundAssumption == MinBodyBytes \in Int /\ MaxCalls \in Nat

VARIABLES chain,     \* the middleware of this server
          request,   \* what middleware looks at in the request
          stage,     \* "cors", "auth", "limit", "app", "replay", "log", "respond",
                     \* "done" or "over"
          calls,     \* calls made by the application
          buffer,    \* the buffered writer made by the compression middleware
          recorder,  \* the logging writer around the server's buffered writer
          opened,    \* the files that SendFile has opened
          closed,    \* the files that have been closed
          panicked,  \* the application panicked
          bypassed,  \* history: a call settled status or body in the embedded writer
          logged,    \* status and bytes of the log line
          response   \* what responseForRequest gets

input == <<chain, request>>
vars == <<input, stage, calls, buffer, recorder, opened, closed, panicked,
          bypassed, logged, response>>

-----------------------------------------------------------------------------
(* The methods of bufferedResponseWriter.  Its headers are, for each name, *)
(* the sequence of the values; a value is who set it, or the text where    *)
(* that matters.  Names equal up to case are one name, and the order of    *)
(* headers of different names is left out.  A body is the sequence of what *)
(* was written, each a unit long; a reader is an open file or "reader",    *)
(* which has no Close; its length goes with it.                            *)

HeaderNames ==
  AppHeaders \cup
  {"Accept-Ranges", "Access-Control-Allow-Credentials", "Access-Control-Allow-Methods",
   "Access-Control-Allow-Origin", "Cache-Control", "Connection", "Content-Encoding",
   "Content-Length", "Content-Range", "Content-Type", "ETag", "Last-Modified",
   "Retry-After", "Sec-WebSocket-Accept", "Upgrade", "Vary", "WWW-Authenticate",
   "X-Request-ID"}

noHeaders == [name \in HeaderNames |-> <<>>]

newBufferedResponseWriter ==
  [status |-> 0, headers |-> noHeaders, body |-> <<>>,
   reader |-> "none", closer |-> "none", chunked |-> FALSE]

AddHeader(w, name, value) == [w EXCEPT !.headers[name] = Append(@, value)]

\* The first header of that name is replaced, or one is added.
SetHeader(w, name, value) ==
  [w EXCEPT !.headers[name] = <<value>> \o SubSeq(@, 2, Len(@))]

hasHeader(w, name) == w.headers[name] # <<>>
withoutHeader(w, name) == [w EXCEPT !.headers[name] = <<>>]

UseChunkedEncoding(w) == [w EXCEPT !.chunked = TRUE]

WriteHeader(w, status) == [w EXCEPT !.status = IF @ = 0 THEN status ELSE @]

\* Mutant of Write: an earlier reader is kept.
WriteKeepsReader(w, p) ==
  [w EXCEPT !.status = IF @ = 0 THEN 200 ELSE @, !.body = @ \o p]

Write(w, p) ==
  [w EXCEPT !.status = IF @ = 0 THEN 200 ELSE @,
            !.reader = "none", !.closer = "none", !.body = @ \o p]

StreamBody(w, reader) ==
  [w EXCEPT !.status = IF @ = 0 THEN 200 ELSE @,
            !.body = <<>>, !.reader = reader,
            !.closer = IF reader \in Files THEN reader ELSE "none"]

SendFile(w, file) ==
  LET typed  == SetHeader(w, "Content-Type", "app")
      ranged == SetHeader(typed, "Accept-Ranges", "app")
  IN StreamBody(SetHeader(ranged, "Last-Modified", "app"), file)

RangeHeaders(w) == SetHeader(SetHeader(w, "Accept-Ranges", "app"), "Content-Range", "app")

\* The section reader of a range has no Close.
StreamRange(w) == StreamBody(WriteHeader(RangeHeaders(w), 206), "reader")

WriteRangeNotSatisfiable(w) == WriteHeader(RangeHeaders(w), 416)

WriteNotModified(w) ==
  WriteHeader(SetHeader(SetHeader(w, "ETag", "app"), "Last-Modified", "app"), 304)

WriteEvent(w) ==
  LET typed == SetHeader(SetHeader(w, "Content-Type", "app"), "Cache-Control", "app")
  IN Write(UseChunkedEncoding(typed), <<"app">>)

\* Mutant of reset: chunked survives.
resetKeepsChunked(w) == [newBufferedResponseWriter EXCEPT !.chunked = w.chunked]

reset(w) == newBufferedResponseWriter

Response(w) == [w EXCEPT !.status = IF @ = 0 THEN 200 ELSE @]

-----------------------------------------------------------------------------
(* loggingResponseWriter: w is the embedded ResponseWriter.                *)

newRecorder == [w |-> newBufferedResponseWriter, status |-> 0, bytes |-> 0]

LogWriteHeader(l, status) ==
  [l EXCEPT !.status = IF @ = 0 THEN status ELSE @, !.w = WriteHeader(@, status)]

LogWrite(l, p) ==
  [l EXCEPT !.status = IF @ = 0 THEN 200 ELSE @, !.w = Write(@, p), !.bytes = @ + Len(p)]

\* Mutant of LogReset: the embedded writer only.
LogResetEmbedded(l) == [l EXCEPT !.w = reset(@)]

LogReset(l) == [l EXCEPT !.w = reset(@), !.status = 0, !.bytes = 0]

StatusCode(l) == IF l.status = 0 THEN 200 ELSE l.status

-----------------------------------------------------------------------------
(* The compression middleware.  Compression puts "gzip" before what was    *)
(* written; gzipBytes writes to memory and does not fail.                  *)

responseStatusAllowsBody(status) == status \notin 100..199 /\ status \notin {204, 304}

\* Mutant of shouldGzipResponse: an existing Content-Encoding is not respected.
shouldGzipResponseAlways(r) ==
  request.accepts /\ r.body # <<>> /\ responseStatusAllowsBody(r.status)

shouldGzipResponse(r) ==
  /\ Len(r.body) >= MinBodyBytes
  /\ r.body # <<>> /\ responseStatusAllowsBody(r.status)
  /\ ~hasHeader(r, "Content-Encoding")
  /\ request.accepts

compress(r) ==
  LET c == AddHeader(withoutHeader(r, "Content-Length"), "Content-Encoding", "gzip")
  IN [AddHeader(c, "Vary", "Accept-Encoding") EXCEPT !.body = <<"gzip">> \o @]

\* Mutant of replayHeaders: SetHeader in place of AddHeader.
replayHeadersSet(w, r) ==
  LET own == withoutHeader(r, "Content-Length").headers
      set(old, new) == <<new[Len(new)]>> \o SubSeq(old, 2, Len(old))
  IN [w EXCEPT !.headers = [name \in HeaderNames |->
                              IF own[name] = <<>> THEN @[name] ELSE set(@[name], own[name])]]

replayHeaders(w, r) ==
  LET own == withoutHeader(r, "Content-Length").headers
  IN [w EXCEPT !.headers = [name \in HeaderNames |-> @[name] \o own[name]]]

writeBufferedResponse(l, r) ==
  LET w == replayHeaders(l.w, r)
      h == [l EXCEPT !.w = [w EXCEPT !.chunked = @ \/ r.chunked]]
      s == LogWriteHeader(h, r.status)
  IN IF r.reader # "none" THEN [s EXCEPT !.w = StreamBody(@, r.reader)]
                          ELSE LogWrite(s, r.body)

-----------------------------------------------------------------------------
(* The CORS middleware.  Origins are equal up to case; the Allow-Headers,  *)
(* Expose-Headers and Max-Age that it may also set are left out.           *)

\* The first candidate that is "*" or the request's origin decides.
corsAllowedOrigin ==
  LET hits == {i \in 1..Len(chain.cors) : chain.cors[i] \in {"*", request.origin}}
      hit == CHOOSE i \in hits : \A j \in hits : i <= j
  IN IF hits = {} THEN ""
     ELSE IF chain.cors[hit] = "*" /\ ~chain.credentials THEN "*" ELSE request.origin

writeCORSActualHeaders(w, origin) ==
  LET o == SetHeader(w, "Access-Control-Allow-Origin", origin)
      v == IF origin = "*" THEN o ELSE AddHeader(o, "Vary", "Origin")
  IN IF chain.credentials THEN SetHeader(v, "Access-Control-Allow-Credentials", "true") ELSE v

-----------------------------------------------------------------------------
Init ==
  /\ chain \in Chains /\ request \in Requests
  /\ stage = "cors" /\ calls = 0
  /\ buffer = newBufferedResponseWriter /\ recorder = newRecorder
  /\ opened = {} /\ closed = {} /\ panicked = FALSE /\ bypassed = FALSE
  /\ logged = [status |-> 0, bytes |-> 0]
  /\ response = newBufferedResponseWriter

\* Where control is after the handler inside the recovery has returned.
Returned == stage' = IF chain.gzip THEN "replay" ELSE "log"

\* CORSMiddleware, before and around the rest of the chain.
CORS ==
  /\ stage = "cors"
  /\ IF request.origin = "" \/ corsAllowedOrigin = ""
     THEN stage' = "auth" /\ UNCHANGED recorder
     ELSE LET l == [recorder EXCEPT !.w = writeCORSActualHeaders(@, corsAllowedOrigin)]
          IN IF request.preflight
             THEN LET m == [l EXCEPT !.w = SetHeader(@, "Access-Control-Allow-Methods", "cors")]
                  IN recorder' = LogWriteHeader(m, 204) /\ stage' = "log"
             ELSE recorder' = l /\ stage' = "auth"
  /\ UNCHANGED <<input, calls, buffer, opened, closed, panicked, bypassed, logged, response>>

\* What a middleware inside the compression answers in place of the application.
Refuse(name, status, who) ==
  LET headers(w) == SetHeader(SetHeader(w, name, who), "Content-Type", who)
  IN /\ Returned
     /\ IF chain.gzip
        THEN /\ buffer' = Write(WriteHeader(headers(buffer), status), <<who>>)
             /\ UNCHANGED recorder
        ELSE LET l == [recorder EXCEPT !.w = headers(@)]
             IN recorder' = LogWrite(LogWriteHeader(l, status), <<who>>) /\ UNCHANGED buffer

\* Mutant of BearerAuth: the answer is written but the handler does not return.
BearerAuthGoesOn ==
  /\ stage = "auth" /\ stage' = "limit"
  /\ buffer' = IF chain.auth /\ ~request.token THEN WriteHeader(buffer, 401) ELSE buffer
  /\ UNCHANGED <<input, calls, recorder, opened, closed, panicked, bypassed, logged, response>>

BearerAuth ==
  /\ stage = "auth"
  /\ IF chain.auth /\ ~request.token
     THEN Refuse("WWW-Authenticate", 401, "auth")
     ELSE stage' = "limit" /\ UNCHANGED <<buffer, recorder>>
  /\ UNCHANGED <<input, calls, opened, closed, panicked, bypassed, logged, response>>

\* The limiter allows the request or refuses it (RateLimit).
FixedWindowRateLimit ==
  /\ stage = "limit"
  /\ \/ stage' = "app" /\ UNCHANGED <<buffer, recorder>>
     \/ chain.limit /\ Refuse("Retry-After", 429, "limit")
  /\ UNCHANGED <<input, calls, opened, closed, panicked, bypassed, logged, response>>

Calling == stage = "app" /\ calls < MaxCalls /\ calls' = calls + 1

Rest == UNCHANGED <<input, stage, closed, panicked, logged, response>>

\* A method that the logging writer overrides.
Recorded(w, l) ==
  /\ Calling /\ Rest /\ UNCHANGED <<opened, bypassed>>
  /\ IF chain.gzip THEN buffer' = w /\ UNCHANGED recorder
                   ELSE recorder' = l /\ UNCHANGED buffer

\* A method that goes to the embedded writer.
Embedded(M(_)) ==
  /\ Calling /\ Rest
  /\ IF chain.gzip THEN buffer' = M(buffer) /\ UNCHANGED recorder
                   ELSE recorder' = [recorder EXCEPT !.w = M(@)] /\ UNCHANGED buffer

AppWriteHeader ==
  \E s \in Statuses : Recorded(WriteHeader(buffer, s), LogWriteHeader(recorder, s))

AppWrite ==
  \E p \in {<<>>, <<"app">>} : Recorded(Write(buffer, p), LogWrite(recorder, p))

\* SetCacheControl, SetETag and SetLastModified set a header, SetCookie adds one.
AppHeader ==
  /\ \/ \E name \in AppHeaders : \/ Embedded(LAMBDA w : SetHeader(w, name, "app"))
                                 \/ Embedded(LAMBDA w : AddHeader(w, name, "app"))
     \/ Embedded(UseChunkedEncoding)
  /\ UNCHANGED <<opened, bypassed>>

AppAcceptWebSocket ==
  LET upgraded(w) == SetHeader(SetHeader(w, "Upgrade", "app"), "Connection", "app")
      headers(w) == SetHeader(upgraded(w), "Sec-WebSocket-Accept", "app")
  IN /\ request.upgrade
     /\ Recorded(headers(WriteHeader(buffer, 101)),
                 [LogWriteHeader(recorder, 101) EXCEPT !.w = headers(@)])

AppStream ==
  /\ \/ Embedded(LAMBDA w : StreamBody(w, "reader"))
     \/ Embedded(StreamRange)
     \/ Embedded(WriteRangeNotSatisfiable)
     \/ Embedded(WriteNotModified)
     \/ Embedded(WriteEvent)
  /\ bypassed' = TRUE /\ UNCHANGED opened

AppSendFile ==
  \E file \in Files \ opened :
    /\ Embedded(LAMBDA w : SendFile(w, file))
    /\ opened' = opened \cup {file} /\ bypassed' = TRUE

\* A call that returns an error leaves the writer as it was: a file that is
\* missing or a directory, a range outside the file, a malformed tag or event.
AppCallFails == Calling /\ Rest /\ UNCHANGED <<buffer, recorder, opened, bypassed>>

AppReturn ==
  /\ stage = "app" /\ Returned
  /\ UNCHANGED <<input, calls, buffer, recorder, opened, closed, panicked,
                 bypassed, logged, response>>

\* The deferred function of RecoveryMiddleware.
Recover ==
  /\ stage = "app" /\ Returned
  /\ panicked' = TRUE
  /\ IF chain.gzip
     THEN /\ buffer' = Write(WriteHeader(SetHeader(reset(buffer), "Content-Type", "recovery"), 500),
                             <<"recovery">>)
          /\ UNCHANGED recorder
     ELSE /\ LET l == [LogReset(recorder) EXCEPT !.w = SetHeader(@, "Content-Type", "recovery")]
             IN recorder' = LogWrite(LogWriteHeader(l, 500), <<"recovery">>)
          /\ UNCHANGED buffer
  /\ UNCHANGED <<input, calls, opened, closed, bypassed, logged, response>>

\* GzipCompressionMiddleware after the inner handler has returned.
Replay ==
  /\ stage = "replay" /\ stage' = "log"
  /\ LET r == Response(buffer)
     IN recorder' = writeBufferedResponse(recorder,
                                          IF shouldGzipResponse(r) THEN compress(r) ELSE r)
  /\ UNCHANGED <<input, calls, buffer, opened, closed, panicked, bypassed,
                 logged, response>>

\* LoggingMiddleware after the inner handler has returned.
Log ==
  /\ stage = "log" /\ stage' = "respond"
  /\ logged' = [status |-> StatusCode(recorder), bytes |-> recorder.bytes]
  /\ UNCHANGED <<input, calls, buffer, recorder, opened, closed, panicked,
                 bypassed, response>>

\* RequestIDMiddleware sets its header last; responseForRequest takes the response.
Respond ==
  /\ stage = "respond" /\ stage' = "done"
  /\ recorder' = [recorder EXCEPT !.w = SetHeader(@, "X-Request-ID", "id")]
  /\ response' = Response(recorder'.w)
  /\ UNCHANGED <<input, calls, buffer, opened, closed, panicked, bypassed, logged>>

\* WriteResponse closes the body of the response, unless ServeConn returns
\* before it, as SetWriteDeadline fails on a closed connection, or WriteResponse
\* refuses the response before its deferred Close (HttpConn has the details).
Send ==
  /\ stage = "done" /\ stage' = "over"
  /\ \/ closed' = {response.closer} \ {"none"}
     \/ UNCHANGED closed
  /\ UNCHANGED <<input, calls, buffer, recorder, opened, panicked, bypassed,
                 logged, response>>

Done == stage = "over" /\ UNCHANGED vars

Next ==
  \/ CORS \/ BearerAuth \/ FixedWindowRateLimit
  \/ AppWriteHeader \/ AppWrite \/ AppHeader \/ AppStream \/ AppSendFile
  \/ AppAcceptWebSocket \/ AppCallFails \/ AppReturn \/ Recover
  \/ Replay \/ Log \/ Respond \/ Send \/ Done

Spec == Init /\ [][Next]_vars

-----------------------------------------------------------------------------
(* Properties.                                                             *)

\* The compression middleware has announced its encoding.
Zipped == "gzip" \in Range(response.headers["Content-Encoding"])

\* The body as a client reads it: compression undone if and only if announced.
Decoded == IF Zipped THEN Tail(response.body) ELSE response.body

\* The configuration lets scripts of the request's origin read the answer.
Permitted ==
  request.origin # "" /\ \E i \in 1..Len(chain.cors) : chain.cors[i] \in {"*", request.origin}

Preflight == Permitted /\ request.preflight

\* What the CORS middleware hands on to the rest of the chain.
Outer ==
  IF Permitted THEN writeCORSActualHeaders(newBufferedResponseWriter, corsAllowedOrigin)
               ELSE newBufferedResponseWriter

gzipHeaders ==
  [noHeaders EXCEPT !["Content-Encoding"] = <<"gzip">>, !["Vary"] = <<"Accept-Encoding">>]

\* The response has the handler's headers, after those of the CORS middleware and
\* before those of the compression.  The request ID is set on top of them.
Wraps(headers) ==
  /\ \A name \in HeaderNames \ {"X-Request-ID"} :
       response.headers[name] = (IF chain.gzip THEN Outer.headers[name] ELSE <<>>)
                                  \o headers[name]
                                  \o (IF Zipped THEN gzipHeaders[name] ELSE <<>>)
  /\ response.headers["X-Request-ID"][1] = "id"

\* A writer never holds both written bytes and a reader, and what it will
\* close is the reader that it will send, whatever order Write, StreamBody,
\* SendFile and reset were called in and through whichever wrapper.
OneBody ==
  \A w \in {buffer, recorder.w, response} :
    /\ w.body = <<>> \/ w.reader = "none"
    /\ w.closer = IF w.reader \in Files THEN w.reader ELSE "none"

\* After a panic the client gets the recovery's 500 and nothing of what the
\* application had prepared: no status, header, file, or chunked encoding.
PanicIs500 ==
  stage = "done" /\ panicked =>
    /\ response.status = 500 /\ Decoded = <<"recovery">>
    /\ response.reader = "none" /\ ~response.chunked
    /\ Wraps([noHeaders EXCEPT !["Content-Type"] = <<"recovery">>])

\* What WriteResponse sends of written bytes.
BodySent(r) == IF responseStatusAllowsBody(r.status) THEN Len(r.body) ELSE 0

\* The log line has the status that is sent, whoever answered, and the size of
\* the body that is sent, with two exceptions: bytes written under a status that
\* allows no body are logged although none is sent, and a streamed body is
\* logged as none.  Without compression this is claimed only if no call settled
\* status or body behind the logging writer's back.
LoggedIsSent ==
  stage = "done" /\ (chain.gzip \/ panicked \/ ~bypassed) =>
    /\ logged.status = response.status
    /\ logged.bytes = IF response.reader # "none" THEN 0
                      ELSE IF responseStatusAllowsBody(response.status) THEN BodySent(response)
                      ELSE Len(response.body)

\* The compression middleware changes nothing but the encoding: status, reader,
\* closer, chunking, the body after decompression and every header of the
\* replayed response are the handler's (Content-Length is computed again later),
\* repeated headers included, and a body is encoded only for a client that
\* accepts it and never a second time.
ReplayFaithful ==
  stage = "done" /\ chain.gzip /\ ~Preflight =>
    LET r == Response(buffer) IN
    /\ [response EXCEPT !.headers = noHeaders, !.body = <<>>]
         = [r EXCEPT !.headers = noHeaders, !.body = <<>>]
    /\ Decoded = r.body
    /\ Wraps([r.headers EXCEPT !["Content-Length"] = <<>>])
    /\ Zipped => request.accepts /\ ~hasHeader(r, "Content-Encoding")

\* In the chain of cmd/wbsv, with compression, every answer to a permitted
\* origin lets its scripts read it and tells caches that it depends on the
\* origin: also a refusal, a preflight and the 500 after a panic, whose reset
\* must not reach the headers set outside.  The first Allow-Origin is the
\* middleware's, never "*" with credentials; there is none of it for an origin that
\* is not permitted.  Any other is one that the application has set itself: an
\* answer in which it has no part has exactly one, or none.
CorsOnEveryAnswer ==
  stage = "done" /\ chain.gzip =>
    LET origins == response.headers["Access-Control-Allow-Origin"]
        inner   == buffer.headers["Access-Control-Allow-Origin"]
    IN /\ calls = 0 \/ panicked => inner = <<>>
       /\ IF ~Permitted THEN origins = inner
          ELSE /\ \/ /\ origins = <<request.origin>> \o inner
                     /\ "Origin" \in Range(response.headers["Vary"])
                  \/ /\ origins = <<"*">> \o inner /\ ~chain.credentials
                     /\ "*" \in Range(chain.cors)
               /\ chain.credentials =>
                    response.headers["Access-Control-Allow-Credentials"][1] = "true"

\* The application runs only for a request that is no permitted preflight and
\* has the token, and the answer to such a request is the middleware's own:
\* an unauthorized preflight is answered, anything else is 401.
RefusalStands ==
  LET bare == chain.auth /\ ~request.token
  IN /\ Preflight \/ bare => calls = 0 /\ ~panicked
     /\ stage = "done" /\ Preflight => response.status = 204 /\ response.body = <<>>
     /\ stage = "done" /\ ~Preflight /\ bare => response.status = 401 /\ Decoded = <<"auth">>

\* docs/file-streaming.md: "opened files must be closed".  When the request is
\* over, every file that SendFile opened has been closed.
FilesClosed == stage = "over" => opened \subseteq closed
=============================================================================
