------------------------ MODULE ResponseWriterProofs ------------------------
(***************************************************************************)
(* Proofs about ResponseWriter, for every chain of middleware, every       *)
(* request, every header the application may set and every sequence of its *)
(* calls.                                                                  *)
(***************************************************************************)
EXTENDS ResponseWriter, SequenceTheorems, WellFoundedInduction, TLAPS

\* Who writes inside the compression, and what is written at all.
Insiders == {"app", "auth", "limit", "recovery"}

Values == Insiders \cup {"*", "true", "Origin", "cors", "id", "gzip", "Accept-Encoding"}
                   \cup {r.origin : r \in Requests}

Units == Insiders \cup {"gzip"}

Readers == Files \cup {"none", "reader"}

HeaderField == [HeaderNames -> Seq(Values)]

Writer == [status : Nat, headers : HeaderField, body : Seq(Units),
           reader : Readers, closer : Readers, chunked : BOOLEAN]

\* A writer with one body: written bytes or a reader, closed with it.
Good(w) ==
  /\ w \in Writer
  /\ w.body = <<>> \/ w.reader = "none"
  /\ w.closer = IF w.reader \in Files THEN w.reader ELSE "none"

\* A logging writer around one.
GoodLog(l) == l \in [w : Writer, status : Nat, bytes : Nat] /\ Good(l.w)

\* Nothing is announced to be compressed by the middleware.
Plain(w) == "gzip" \notin Range(w.headers["Content-Encoding"])

Inside == {"auth", "limit", "app"}
Stages == Inside \cup {"cors", "replay", "log", "respond", "done", "over"}

Bare == chain.auth /\ ~request.token

\* The logging writer has seen nothing but CORS headers.
Untouched == recorder = [w |-> Outer, status |-> 0, bytes |-> 0]

ACAO == "Access-Control-Allow-Origin"
ACAC == "Access-Control-Allow-Credentials"

\* The type of every variable, the shape of both writers, and who has written to
\* them: with compression the recorder is untouched until the replay, without
\* it the buffer is never used.
WriterInv ==
  /\ chain \in Chains /\ request \in Requests /\ stage \in Stages
  /\ calls \in Nat /\ panicked \in BOOLEAN /\ bypassed \in BOOLEAN
  /\ Good(buffer) /\ GoodLog(recorder) /\ Good(response)
  /\ Plain(buffer)
  /\ calls = 0 => buffer.headers[ACAO] = <<>>
  /\ stage = "cors" => recorder = newRecorder
  /\ stage = "replay" => chain.gzip
  /\ stage \in {"auth", "limit"} => Untouched
  /\ chain.gzip /\ stage \in {"app", "replay"} => Untouched
  /\ ~chain.gzip \/ stage \in {"cors", "auth", "limit"} => buffer = newBufferedResponseWriter
  /\ ~chain.gzip /\ stage \in Inside \cup {"log", "respond"} => Plain(recorder.w)

\* Who gets as far as the application, and what the others are answered.
RefusalInv ==
  /\ stage \in Inside \cup {"replay"} => ~Preflight
  /\ stage \in {"limit", "app"} \/ calls > 0 \/ panicked => ~Preflight /\ ~Bare
  /\ Preflight => buffer = newBufferedResponseWriter
  /\ Preflight /\ stage \in {"log", "respond"} =>
       recorder.w.status = 204 /\ recorder.w.body = <<>> /\ recorder.w.reader = "none"
         /\ Plain(recorder.w)
  /\ Bare /\ chain.gzip /\ stage \in {"replay", "log", "respond"} /\ ~Preflight =>
       buffer.status = 401 /\ buffer.body = <<"auth">>
  /\ Bare /\ ~chain.gzip /\ stage \in {"log", "respond"} /\ ~Preflight =>
       recorder.w.status = 401 /\ recorder.w.body = <<"auth">>

\* The response as recovery leaves it in the writer it was given.
RecoveryHeaders == [noHeaders EXCEPT !["Content-Type"] = <<"recovery">>]

Recovered(w) ==
  /\ w.status = 500 /\ w.body = <<"recovery">> /\ w.reader = "none" /\ ~w.chunked
  /\ w.headers = RecoveryHeaders

PanicInv ==
  panicked =>
    /\ stage \notin {"cors"} \cup Inside
    /\ chain.gzip => Recovered(buffer)
    /\ ~chain.gzip /\ stage \in {"log", "respond"} => Recovered(recorder.w)

\* The values of CORS, of the handler and, if it has compressed, of the middleware.
Layers(headers, own, zipped) ==
  \A name \in HeaderNames :
    headers[name] = Outer.headers[name] \o own[name]
                      \o (IF zipped THEN gzipHeaders[name] ELSE <<>>)

\* The headers that are replayed: Content-Length is not.
Sent(r) == [r.headers EXCEPT !["Content-Length"] = <<>>]

\* What the compression middleware has replayed to the writer outside it.
Replayed(w) ==
  LET r == Response(buffer)
  IN /\ w.status = r.status /\ w.reader = r.reader /\ w.chunked = r.chunked
     /\ ~Plain(w) => request.accepts /\ ~hasHeader(r, "Content-Encoding") /\ r.reader = "none"
     /\ w.body = IF Plain(w) THEN r.body ELSE <<"gzip">> \o r.body
     /\ Layers(w.headers, Sent(r), ~Plain(w))

ReplayInv == chain.gzip /\ ~Preflight /\ stage \in {"log", "respond"} => Replayed(recorder.w)

\* The logging writer's own status and bytes are those of what it embeds.
InStep(l) == l.status = l.w.status /\ l.bytes = Len(l.w.body)

Even(l) == InStep(l) /\ l.w.reader = "none"

LogInv ==
  /\ chain.gzip /\ stage \in {"log", "respond"} => InStep(recorder)
  /\ ~chain.gzip /\ (panicked \/ ~bypassed) /\ stage \notin {"done", "over"} =>
       Even(recorder)
  /\ stage = "respond" =>
       logged = [status |-> StatusCode(recorder), bytes |-> recorder.bytes]

\* CORS has spoken in these headers, before the values that are inner.
CorsSet(headers, inner) ==
  IF ~Permitted THEN headers[ACAO] = inner
  ELSE /\ \/ /\ headers[ACAO] = <<request.origin>> \o inner
             /\ "Origin" \in Range(headers["Vary"])
          \/ headers[ACAO] = <<"*">> \o inner /\ ~chain.credentials /\ "*" \in Range(chain.cors)
       /\ chain.credentials => headers[ACAC][1] = "true"

CorsInv ==
  chain.gzip /\ stage \in {"log", "respond"} =>
    CorsSet(recorder.w.headers, buffer.headers[ACAO])

AllInv == WriterInv /\ RefusalInv /\ PanicInv /\ ReplayInv /\ LogInv /\ CorsInv

-----------------------------------------------------------------------------
(* Names, values and sequences of them.                                    *)

\* The names that are used by name.
LEMMA KnownNames ==
  /\ {"Accept-Ranges", ACAC, "Access-Control-Allow-Methods", ACAO, "Cache-Control",
      "Connection", "Content-Encoding", "Content-Length", "Content-Range", "Content-Type",
      "ETag", "Last-Modified", "Retry-After", "Sec-WebSocket-Accept", "Upgrade", "Vary",
      "WWW-Authenticate", "X-Request-ID"} \subseteq HeaderNames
  /\ AppHeaders \subseteq HeaderNames
BY DEF HeaderNames, ACAO, ACAC

\* The values that are used by name.
LEMMA KnownValues ==
  /\ {"app", "auth", "limit", "recovery"} \subseteq Insiders
  /\ Insiders \subseteq Units /\ Insiders \subseteq Values
  /\ {"*", "true", "Origin", "cors", "id", "gzip", "Accept-Encoding"} \subseteq Values
  /\ "gzip" \in Units /\ "gzip" \notin Insiders
  /\ \A r \in Requests : r.origin \in Values
BY DEF Insiders, Units, Values

\* The sequence with its first element replaced, or with one if there is none.
Replaced(s, value) == <<value>> \o SubSeq(s, 2, Len(s))

\* What it has in it.
LEMMA ReplacedValues ==
  ASSUME NEW S, NEW s \in Seq(S), NEW value \in S
  PROVE  /\ Replaced(s, value) \in Seq(S) /\ Replaced(s, value)[1] = value
         /\ Range(Replaced(s, value)) \subseteq Range(s) \cup {value}
<1>1. <<value>> \in Seq(S)
  OBVIOUS
<1>2. SubSeq(s, 2, Len(s)) \in Seq(S)
  OBVIOUS
<1>3. Replaced(s, value) \in Seq(S) /\ Replaced(s, value)[1] = value
  BY <1>1, <1>2 DEF Replaced
<1>4. Range(Replaced(s, value)) \subseteq Range(s) \cup {value}
  <2>1. ASSUME NEW i \in DOMAIN Replaced(s, value)
        PROVE  Replaced(s, value)[i] \in Range(s) \cup {value}
    BY <2>1 DEF Replaced, Range
  <2> QED
    BY <2>1 DEF Range
<1> QED
  BY <1>3, <1>4

\* What it is if there was none.
LEMMA ReplacedNothing ==
  ASSUME NEW S, NEW value \in S
  PROVE  Replaced(<<>>, value) = <<value>>
<1>1. SubSeq(<<>>, 2, 0) = <<>> /\ Len(<<>>) = 0
  OBVIOUS
<1>2. <<value>> \in Seq(S)
  OBVIOUS
<1>3. <<value>> \o <<>> = <<value>>
  BY <1>2
<1> QED
  BY <1>1, <1>3, Zenon DEF Replaced

\* An appended value is in it, and the others.
LEMMA AppendValues ==
  ASSUME NEW S, NEW s \in Seq(S), NEW value \in S
  PROVE  /\ Append(s, value) \in Seq(S)
         /\ Range(Append(s, value)) \subseteq Range(s) \cup {value}
         /\ s = <<>> => Append(s, value) = <<value>>
<1>1. ASSUME NEW i \in DOMAIN Append(s, value)
      PROVE  Append(s, value)[i] \in Range(s) \cup {value}
  BY <1>1 DEF Range
<1>2. Range(Append(s, value)) \subseteq Range(s) \cup {value}
  BY <1>1 DEF Range
<1>3. Append(s, value) \in Seq(S)
  OBVIOUS
<1>4. Append(<<>>, value) = <<value>>
  OBVIOUS
<1> QED
  BY <1>2, <1>3, <1>4

\* Two sequences in a row.
LEMMA ConcatValues ==
  ASSUME NEW S, NEW s \in Seq(S), NEW t \in Seq(S)
  PROVE  s \o t \in Seq(S) /\ Range(s \o t) = Range(s) \cup Range(t)
<1>1. ASSUME NEW i \in DOMAIN (s \o t)
      PROVE  (s \o t)[i] \in Range(s) \cup Range(t)
  BY <1>1 DEF Range
<1>2. ASSUME NEW i \in DOMAIN s
      PROVE  s[i] \in Range(s \o t)
  <2>1. i \in DOMAIN (s \o t) /\ (s \o t)[i] = s[i]
    BY <1>2
  <2> QED
    BY <2>1 DEF Range
<1>3. ASSUME NEW i \in DOMAIN t
      PROVE  t[i] \in Range(s \o t)
  <2>1. i + Len(s) \in DOMAIN (s \o t) /\ (s \o t)[i + Len(s)] = t[i]
    BY <1>3
  <2> QED
    BY <2>1 DEF Range
<1>4. Range(s \o t) = Range(s) \cup Range(t)
  BY <1>1, <1>2, <1>3 DEF Range
<1> QED
  BY <1>4

-----------------------------------------------------------------------------
(* What the methods of the buffered writer do to its fields.               *)

\* A new writer has no header.
LEMMA NoHeaders ==
  /\ noHeaders \in HeaderField
  /\ \A name \in HeaderNames : noHeaders[name] = <<>>
BY DEF noHeaders, HeaderField

\* A new writer is empty, and so is one that has been reset.
LEMMA EmptyWriter ==
  /\ Good(newBufferedResponseWriter)
  /\ newBufferedResponseWriter.status = 0 /\ newBufferedResponseWriter.headers = noHeaders
  /\ newBufferedResponseWriter.body = <<>> /\ newBufferedResponseWriter.reader = "none"
  /\ newBufferedResponseWriter.chunked = FALSE
  /\ Plain(newBufferedResponseWriter)
<1>1. newBufferedResponseWriter \in Writer
  BY NoHeaders DEF newBufferedResponseWriter, Writer, Readers
<1>2. "none" \notin Files
  BY FilesAssumption
<1>3. newBufferedResponseWriter.headers = noHeaders
  BY DEF newBufferedResponseWriter
<1>4. Plain(newBufferedResponseWriter)
  <2>1. newBufferedResponseWriter.headers["Content-Encoding"] = <<>>
    BY <1>3, NoHeaders, KnownNames
  <2> QED
    BY <2>1 DEF Plain, Range
<1> QED
  BY <1>1, <1>2, <1>3, <1>4 DEF newBufferedResponseWriter, Good

\* A writer with other headers.
LEMMA HeadersFields ==
  ASSUME NEW w, Good(w), NEW hs \in HeaderField, NEW v, v = [w EXCEPT !.headers = hs]
  PROVE  /\ Good(v) /\ v.headers = hs
         /\ v.status = w.status /\ v.body = w.body /\ v.reader = w.reader
         /\ v.chunked = w.chunked
<1>1. v \in Writer /\ v.headers = hs
  BY DEF Good, Writer
<1> QED
  BY <1>1 DEF Good, Writer

\* One name with other values.
LEMMA OneName ==
  ASSUME NEW w, Good(w), NEW name \in HeaderNames, NEW s \in Seq(Values)
  PROVE  LET hs == [w.headers EXCEPT ![name] = s]
         IN /\ hs \in HeaderField /\ hs[name] = s
            /\ \A other \in HeaderNames \ {name} : hs[other] = w.headers[other]
BY DEF Good, Writer, HeaderField

\* From w to v the values of one name have changed, and nothing else.
Changed(w, v, name, values) ==
  /\ Good(v) /\ v.headers = [w.headers EXCEPT ![name] = values]
  /\ v.headers[name] = values
  /\ \A other \in HeaderNames \ {name} : v.headers[other] = w.headers[other]
  /\ v.status = w.status /\ v.body = w.body /\ v.reader = w.reader
  /\ v.chunked = w.chunked

\* SetHeader replaces the first value of one name.
LEMMA SetHeaderFields ==
  ASSUME NEW w, Good(w), NEW name \in HeaderNames, NEW value \in Values
  PROVE  Changed(w, SetHeader(w, name, value), name, Replaced(w.headers[name], value))
<1> DEFINE s == Replaced(w.headers[name], value)
           hs == [w.headers EXCEPT ![name] = s]
           v == SetHeader(w, name, value)
<1>1. v = [w EXCEPT !.headers = hs]
  BY Zenon DEF SetHeader, Replaced
<1>2. w.headers[name] \in Seq(Values)
  BY DEF Good, Writer, HeaderField
<1>3. s \in Seq(Values)
  BY <1>2, ReplacedValues
<1> HIDE DEF s, v
<1>4. /\ hs \in HeaderField /\ hs[name] = s
      /\ \A other \in HeaderNames \ {name} : hs[other] = w.headers[other]
  BY <1>3, OneName
<1> HIDE DEF hs
<1>5. /\ Good(v) /\ v.headers = hs /\ v.status = w.status /\ v.body = w.body
      /\ v.reader = w.reader /\ v.chunked = w.chunked
  BY <1>1, <1>4, HeadersFields
<1> QED
  BY <1>4, <1>5 DEF Changed, hs, v, s

\* AddHeader adds one value.
LEMMA AddHeaderFields ==
  ASSUME NEW w, Good(w), NEW name \in HeaderNames, NEW value \in Values
  PROVE  Changed(w, AddHeader(w, name, value), name, Append(w.headers[name], value))
<1> DEFINE s == Append(w.headers[name], value)
           hs == [w.headers EXCEPT ![name] = s]
           v == AddHeader(w, name, value)
<1>1. v = [w EXCEPT !.headers = hs]
  BY Zenon DEF AddHeader
<1>2. w.headers[name] \in Seq(Values)
  BY DEF Good, Writer, HeaderField
<1>3. s \in Seq(Values)
  BY <1>2
<1> HIDE DEF s, v
<1>4. /\ hs \in HeaderField /\ hs[name] = s
      /\ \A other \in HeaderNames \ {name} : hs[other] = w.headers[other]
  BY <1>3, OneName
<1> HIDE DEF hs
<1>5. /\ Good(v) /\ v.headers = hs /\ v.status = w.status /\ v.body = w.body
      /\ v.reader = w.reader /\ v.chunked = w.chunked
  BY <1>1, <1>4, HeadersFields
<1> QED
  BY <1>4, <1>5 DEF Changed, hs, v, s

\* Chunked encoding is all that UseChunkedEncoding changes.
LEMMA ChunkedFields ==
  ASSUME NEW w, Good(w)
  PROVE  LET v == UseChunkedEncoding(w) IN
         /\ Good(v) /\ v.chunked = TRUE
         /\ v.headers = w.headers /\ v.status = w.status /\ v.body = w.body
         /\ v.reader = w.reader
BY DEF UseChunkedEncoding, Good, Writer

\* WriteHeader sets the first status, and nothing else.
LEMMA WriteHeaderFields ==
  ASSUME NEW w, Good(w), NEW status \in Nat
  PROVE  LET v == WriteHeader(w, status) IN
         /\ Good(v) /\ v.status = IF w.status = 0 THEN status ELSE w.status
         /\ v.headers = w.headers /\ v.body = w.body /\ v.reader = w.reader
         /\ v.chunked = w.chunked
<1> DEFINE v == WriteHeader(w, status)
<1>1. v = [w EXCEPT !.status = IF w.status = 0 THEN status ELSE w.status]
  BY DEF WriteHeader
<1>2. (IF w.status = 0 THEN status ELSE w.status) \in Nat
  BY DEF Good, Writer
<1>3. v \in Writer
  BY <1>1, <1>2 DEF Good, Writer
<1> QED
  BY <1>1, <1>3 DEF Good, Writer

\* Write appends, drops a reader and leaves the headers alone.
LEMMA WriteFields ==
  ASSUME NEW w, Good(w), NEW p \in Seq(Units)
  PROVE  LET v == Write(w, p) IN
         /\ Good(v) /\ v.status = IF w.status = 0 THEN 200 ELSE w.status
         /\ v.headers = w.headers /\ v.body = w.body \o p /\ v.reader = "none"
         /\ v.chunked = w.chunked
<1> DEFINE v == Write(w, p)
           s == IF w.status = 0 THEN 200 ELSE w.status
<1>1. v = [w EXCEPT !.status = s, !.reader = "none", !.closer = "none", !.body = w.body \o p]
  BY DEF Write
<1>2. s \in Nat /\ w.body \o p \in Seq(Units) /\ "none" \in Readers /\ "none" \notin Files
  BY FilesAssumption DEF Good, Writer, Readers
<1> HIDE DEF s
<1>3. v \in Writer
  BY <1>1, <1>2 DEF Good, Writer
<1>4. v.status = s /\ v.headers = w.headers /\ v.body = w.body \o p /\ v.reader = "none"
      /\ v.closer = "none" /\ v.chunked = w.chunked
  BY <1>1 DEF Good, Writer
<1>5. Good(v)
  BY <1>2, <1>3, <1>4 DEF Good
<1> QED
  BY <1>4, <1>5 DEF s

\* StreamBody puts a reader in the place of what was written.
LEMMA StreamBodyFields ==
  ASSUME NEW w, Good(w), NEW reader \in Readers
  PROVE  LET v == StreamBody(w, reader) IN
         /\ Good(v) /\ v.status = IF w.status = 0 THEN 200 ELSE w.status
         /\ v.headers = w.headers /\ v.body = <<>> /\ v.reader = reader
         /\ v.chunked = w.chunked
<1> DEFINE v == StreamBody(w, reader)
           s == IF w.status = 0 THEN 200 ELSE w.status
           c == IF reader \in Files THEN reader ELSE "none"
<1>1. v = [w EXCEPT !.status = s, !.body = <<>>, !.reader = reader, !.closer = c]
  BY DEF StreamBody
<1>2. s \in Nat /\ <<>> \in Seq(Units) /\ c \in Readers
  BY DEF Good, Writer, Readers
<1> HIDE DEF s, c
<1>3. v \in Writer
  BY <1>1, <1>2 DEF Good, Writer
<1>4. v.status = s /\ v.headers = w.headers /\ v.body = <<>> /\ v.reader = reader
      /\ v.closer = c /\ v.chunked = w.chunked
  BY <1>1 DEF Good, Writer
<1>5. Good(v)
  BY <1>3, <1>4 DEF Good, c
<1> QED
  BY <1>4, <1>5 DEF s

\* Response fills in the status.
LEMMA ResponseFields ==
  ASSUME NEW w, Good(w)
  PROVE  LET v == Response(w) IN
         /\ Good(v) /\ v.status = IF w.status = 0 THEN 200 ELSE w.status
         /\ v.headers = w.headers /\ v.body = w.body /\ v.reader = w.reader
         /\ v.chunked = w.chunked /\ v.closer = w.closer
<1> DEFINE v == Response(w)
<1>1. v = [w EXCEPT !.status = IF w.status = 0 THEN 200 ELSE w.status]
  BY DEF Response
<1>2. (IF w.status = 0 THEN 200 ELSE w.status) \in Nat
  BY DEF Good, Writer
<1>3. v \in Writer
  BY <1>1, <1>2 DEF Good, Writer
<1> QED
  BY <1>1, <1>3 DEF Good, Writer

-----------------------------------------------------------------------------
(* What the handlers inside the compression do to the writer they have.    *)

\* From w a handler made v: a good writer, and no claim of being compressed.
Kept(w, v) == Good(v) /\ (Plain(w) => Plain(v))

SameAnswer(w, v) ==
  v.status = w.status /\ v.body = w.body /\ v.reader = w.reader

\* Several calls in a row are as good as one.
LEMMA KeptTransitive ==
  ASSUME NEW w, NEW v, NEW u, Kept(w, v), Kept(v, u)
  PROVE  Kept(w, u)
BY DEF Kept

\* Headers other than Content-Encoding, or values of a handler, announce nothing.
LEMMA ChangedPlain ==
  ASSUME NEW w, NEW v, NEW name, NEW value, NEW values, Changed(w, v, name, values),
         name = "Content-Encoding" =>
           value # "gzip" /\ Range(values) \subseteq Range(w.headers[name]) \cup {value}
  PROVE  Kept(w, v)
<1>1. CASE name = "Content-Encoding"
  BY <1>1 DEF Changed, Kept, Plain
<1>2. CASE name # "Content-Encoding"
  BY <1>2, KnownNames DEF Changed, Kept, Plain
<1> QED
  BY <1>1, <1>2

\* A handler's SetHeader and AddHeader.
LEMMA SetInner ==
  ASSUME NEW w, Good(w), NEW name \in HeaderNames, NEW who \in Insiders
  PROVE  LET v == SetHeader(w, name, who)
             u == AddHeader(w, name, who)
         IN /\ Kept(w, v) /\ SameAnswer(w, v)
            /\ Kept(w, u) /\ SameAnswer(w, u)
            /\ \A other \in HeaderNames \ {name} : v.headers[other] = w.headers[other]
<1> DEFINE s == w.headers[name]
           v == SetHeader(w, name, who)
           u == AddHeader(w, name, who)
<1>1. who \in Values /\ who # "gzip"
  BY KnownValues
<1>2. s \in Seq(Values)
  BY DEF Good, Writer, HeaderField
<1>3. /\ Changed(w, v, name, Replaced(s, who))
      /\ Changed(w, u, name, Append(s, who))
  BY <1>1, SetHeaderFields, AddHeaderFields
<1> HIDE DEF v, u
<1>4. /\ Range(Replaced(s, who)) \subseteq Range(s) \cup {who}
      /\ Range(Append(s, who)) \subseteq Range(s) \cup {who}
  BY <1>1, <1>2, ReplacedValues, AppendValues
<1>5. Kept(w, v)
  BY <1>1, <1>3, <1>4, ChangedPlain
<1>6. Kept(w, u)
  BY <1>1, <1>3, <1>4, ChangedPlain
<1> QED
  BY <1>3, <1>5, <1>6 DEF Changed, SameAnswer, v, u

\* Two headers in a row.
LEMMA SetInnerTwice ==
  ASSUME NEW w, Good(w), NEW name \in HeaderNames, NEW other \in HeaderNames,
         NEW who \in Insiders
  PROVE  LET v == SetHeader(SetHeader(w, name, who), other, who)
         IN /\ Kept(w, v) /\ SameAnswer(w, v)
            /\ \A third \in HeaderNames \ {name, other} : v.headers[third] = w.headers[third]
<1> DEFINE u == SetHeader(w, name, who)
           v == SetHeader(u, other, who)
<1>1. /\ Kept(w, u) /\ SameAnswer(w, u)
      /\ \A third \in HeaderNames \ {name} : u.headers[third] = w.headers[third]
  BY SetInner
<1>2. Good(u)
  BY <1>1 DEF Kept
<1> HIDE DEF u
<1>3. /\ Kept(u, v) /\ SameAnswer(u, v)
      /\ \A third \in HeaderNames \ {other} : v.headers[third] = u.headers[third]
  BY <1>2, SetInner
<1>4. Kept(w, v)
  BY <1>1, <1>3, KeptTransitive
<1>5. SameAnswer(w, v)
  BY <1>1, <1>3 DEF SameAnswer
<1> HIDE DEF v
<1>6. \A third \in HeaderNames \ {name, other} : v.headers[third] = w.headers[third]
  BY <1>1, <1>3
<1> QED
  BY <1>4, <1>5, <1>6 DEF u, v

\* The methods that set status, body or chunking leave a good writer.
LEMMA KeptBySteps ==
  ASSUME NEW w, Good(w)
  PROVE  /\ \A status \in Nat : Kept(w, WriteHeader(w, status))
         /\ \A p \in Seq(Units) : Kept(w, Write(w, p))
         /\ \A reader \in Readers : Kept(w, StreamBody(w, reader))
         /\ Kept(w, UseChunkedEncoding(w))
<1>1. \A status \in Nat : Kept(w, WriteHeader(w, status))
  BY WriteHeaderFields DEF Kept, Plain
<1>2. \A p \in Seq(Units) : Kept(w, Write(w, p))
  BY WriteFields DEF Kept, Plain
<1>3. \A reader \in Readers : Kept(w, StreamBody(w, reader))
  BY StreamBodyFields DEF Kept, Plain
<1>4. Kept(w, UseChunkedEncoding(w))
  BY ChunkedFields DEF Kept, Plain
<1> QED
  BY <1>1, <1>2, <1>3, <1>4

\* The methods that stream a body, the ones that answer without one, and the
\* event stream, as compositions of the primitive ones.
LEMMA KeptByMethods ==
  ASSUME NEW w, Good(w)
  PROVE  /\ \A file \in Files : Kept(w, SendFile(w, file))
         /\ Kept(w, StreamBody(w, "reader"))
         /\ Kept(w, StreamRange(w))
         /\ Kept(w, WriteRangeNotSatisfiable(w))
         /\ Kept(w, WriteNotModified(w))
         /\ Kept(w, WriteEvent(w))
<1> USE DEF Kept
<1>0. {"Content-Type", "Accept-Ranges", "Last-Modified", "Content-Range", "ETag",
       "Cache-Control"} \subseteq HeaderNames /\ "app" \in Insiders /\ "reader" \in Readers
      /\ Files \subseteq Readers
  BY KnownNames, KnownValues DEF Readers
<1>1. ASSUME NEW file \in Files
      PROVE  Kept(w, SendFile(w, file))
  <2> DEFINE u == SetHeader(SetHeader(w, "Content-Type", "app"), "Accept-Ranges", "app")
             v == SetHeader(u, "Last-Modified", "app")
  <2>1. Kept(w, u)
    BY <1>0, SetInnerTwice
  <2> HIDE DEF u
  <2>2. Kept(u, v)
    BY <1>0, <2>1, SetInner
  <2> HIDE DEF v
  <2>3. Kept(v, StreamBody(v, file))
    BY <1>0, <2>2, KeptBySteps
  <2>4. SendFile(w, file) = StreamBody(v, file)
    BY DEF SendFile, u, v
  <2> QED
    BY <2>1, <2>2, <2>3, <2>4, KeptTransitive
<1>2. Kept(w, StreamBody(w, "reader"))
  BY <1>0, KeptBySteps
<1>3. Kept(w, RangeHeaders(w))
  BY <1>0, SetInnerTwice DEF RangeHeaders
<1>4. Kept(w, WriteRangeNotSatisfiable(w))
  <2> DEFINE u == RangeHeaders(w)
  <2>1. Kept(w, u)
    BY <1>3
  <2> HIDE DEF u
  <2>2. Kept(u, WriteHeader(u, 416))
    BY <2>1, KeptBySteps
  <2> QED
    BY <2>1, <2>2, KeptTransitive DEF WriteRangeNotSatisfiable, u
<1>5. Kept(w, StreamRange(w))
  <2> DEFINE u == RangeHeaders(w)
             v == WriteHeader(u, 206)
  <2>1. Kept(w, u)
    BY <1>3
  <2> HIDE DEF u
  <2>2. Kept(u, v)
    BY <2>1, KeptBySteps
  <2> HIDE DEF v
  <2>3. Kept(v, StreamBody(v, "reader"))
    BY <1>0, <2>2, KeptBySteps
  <2>4. StreamRange(w) = StreamBody(v, "reader")
    BY DEF StreamRange, u, v
  <2> QED
    BY <2>1, <2>2, <2>3, <2>4, KeptTransitive
<1>6. Kept(w, WriteNotModified(w))
  <2> DEFINE u == SetHeader(SetHeader(w, "ETag", "app"), "Last-Modified", "app")
  <2>1. Kept(w, u)
    BY <1>0, SetInnerTwice
  <2> HIDE DEF u
  <2>2. Kept(u, WriteHeader(u, 304))
    <3>1. Good(u) /\ 304 \in Nat
      BY <2>1
    <3> QED
      BY <3>1, KeptBySteps
  <2> QED
    BY <2>1, <2>2, KeptTransitive DEF WriteNotModified, u
<1>7. Kept(w, WriteEvent(w))
  <2> DEFINE u == SetHeader(SetHeader(w, "Content-Type", "app"), "Cache-Control", "app")
             v == UseChunkedEncoding(u)
  <2>1. Kept(w, u)
    BY <1>0, SetInnerTwice
  <2> HIDE DEF u
  <2>2. Kept(u, v)
    BY <2>1, KeptBySteps
  <2> HIDE DEF v
  <2>3. Kept(v, Write(v, <<"app">>))
    <3>1. "app" \in Units
      BY DEF Units, Insiders
    <3>2. <<"app">> \in Seq(Units)
      BY <3>1
    <3> QED
      BY <2>2, <3>2, KeptBySteps
  <2>4. WriteEvent(w) = Write(v, <<"app">>)
    BY DEF WriteEvent, u, v
  <2> QED
    BY <2>1, <2>2, <2>3, <2>4, KeptTransitive
<1> QED
  BY <1>1, <1>2, <1>4, <1>5, <1>6, <1>7

-----------------------------------------------------------------------------
(* What the methods of the logging writer do.                              *)

\* A method that the logging writer does not override changes what it embeds only.
LEMMA EmbedFields ==
  ASSUME NEW l, GoodLog(l), NEW v, Good(v)
  PROVE  LET m == [l EXCEPT !.w = v]
         IN GoodLog(m) /\ m.w = v /\ m.status = l.status /\ m.bytes = l.bytes
BY DEF GoodLog, Good

\* The two statuses are set together.
LEMMA LogWriteHeaderFields ==
  ASSUME NEW l, GoodLog(l), NEW status \in Nat
  PROVE  LET m == LogWriteHeader(l, status)
         IN /\ GoodLog(m) /\ m.w = WriteHeader(l.w, status) /\ m.bytes = l.bytes
            /\ m.status = IF l.status = 0 THEN status ELSE l.status
            /\ InStep(l) => InStep(m)
<1> DEFINE m == LogWriteHeader(l, status)
           v == WriteHeader(l.w, status)
           s == IF l.status = 0 THEN status ELSE l.status
<1>1. m = [l EXCEPT !.status = s, !.w = v]
  BY DEF LogWriteHeader
<1>2. Good(v) /\ v.body = l.w.body /\ v.reader = l.w.reader
      /\ v.status = IF l.w.status = 0 THEN status ELSE l.w.status
  BY WriteHeaderFields DEF GoodLog
<1>3. s \in Nat
  BY DEF GoodLog
<1> HIDE DEF v, s
<1>4. GoodLog(m) /\ m.w = v /\ m.status = s /\ m.bytes = l.bytes
  BY <1>1, <1>2, <1>3 DEF GoodLog, Good
<1>5. InStep(l) => InStep(m)
  BY <1>2, <1>4 DEF InStep, s
<1> QED
  BY <1>4, <1>5 DEF v, s

\* The bytes are counted as they are written.
LEMMA LogWriteFields ==
  ASSUME NEW l, GoodLog(l), NEW p \in Seq(Units)
  PROVE  LET m == LogWrite(l, p)
         IN /\ GoodLog(m) /\ m.w = Write(l.w, p) /\ m.bytes = l.bytes + Len(p)
            /\ m.status = IF l.status = 0 THEN 200 ELSE l.status
            /\ Even(l) => Even(m)
<1> DEFINE m == LogWrite(l, p)
           v == Write(l.w, p)
           s == IF l.status = 0 THEN 200 ELSE l.status
<1>1. m = [l EXCEPT !.status = s, !.w = v, !.bytes = l.bytes + Len(p)]
  BY DEF LogWrite
<1>2. Good(v) /\ v.body = l.w.body \o p /\ v.reader = "none"
      /\ v.status = IF l.w.status = 0 THEN 200 ELSE l.w.status
  BY WriteFields DEF GoodLog
<1>3. s \in Nat /\ l.bytes + Len(p) \in Nat
  BY DEF GoodLog
<1>4. Len(l.w.body \o p) = Len(l.w.body) + Len(p)
  BY DEF GoodLog, Good, Writer
<1> HIDE DEF v, s
<1>5. GoodLog(m) /\ m.w = v /\ m.status = s /\ m.bytes = l.bytes + Len(p)
  BY <1>1, <1>2, <1>3 DEF GoodLog, Good
<1>6. Even(l) => Even(m)
  BY <1>2, <1>4, <1>5 DEF Even, InStep, s
<1> QED
  BY <1>5, <1>6 DEF v, s

-----------------------------------------------------------------------------
(* The application.  Whichever method it calls, one of the two writers     *)
(* stays as it was and the other is still a good one.                      *)

AppMade ==
  IF chain.gzip
  THEN Good(buffer') /\ Plain(buffer') /\ recorder' = recorder
  ELSE buffer' = buffer /\ GoodLog(recorder') /\ Plain(recorder'.w)

AppResult ==
  /\ stage = "app" /\ stage' = "app" /\ calls' \in Nat /\ calls' > 0
  /\ UNCHANGED <<input, closed, panicked, logged, response>>
  /\ bypassed' \in BOOLEAN /\ (bypassed => bypassed')
  /\ AppMade
  /\ ~chain.gzip /\ ~bypassed' => Even(recorder')

\* A call that replaces the buffer by v, or the embedded writer by u.
LEMMA MadeByEmbedded ==
  ASSUME WriterInv, stage = "app", NEW v, Kept(buffer, v), NEW u, Kept(recorder.w, u),
         IF chain.gzip THEN buffer' = v /\ UNCHANGED recorder
                       ELSE recorder' = [recorder EXCEPT !.w = u] /\ UNCHANGED buffer
  PROVE  AppMade /\ (~chain.gzip => recorder'.w = u /\ recorder'.status = recorder.status
                                     /\ recorder'.bytes = recorder.bytes)
<1>1. CASE chain.gzip
  BY <1>1 DEF WriterInv, Kept, AppMade
<1>2. CASE ~chain.gzip
  <2>1. GoodLog(recorder) /\ Good(u) /\ recorder' = [recorder EXCEPT !.w = u]
        /\ Plain(recorder.w)
    BY <1>2 DEF WriterInv, Kept, Inside
  <2>2. GoodLog(recorder') /\ recorder'.w = u /\ recorder'.status = recorder.status
        /\ recorder'.bytes = recorder.bytes
    BY <2>1, EmbedFields
  <2> QED
    BY <1>2, <2>1, <2>2 DEF Kept, AppMade
<1> QED
  BY <1>1, <1>2

\* A call that both the buffer and the logging writer have of their own.
LEMMA MadeByRecorded ==
  ASSUME WriterInv, stage = "app", NEW v, Kept(buffer, v),
         NEW l, GoodLog(l), Kept(recorder.w, l.w),
         IF chain.gzip THEN buffer' = v /\ UNCHANGED recorder
                       ELSE recorder' = l /\ UNCHANGED buffer
  PROVE  AppMade
<1>1. CASE chain.gzip
  BY <1>1 DEF WriterInv, Kept, AppMade
<1>2. CASE ~chain.gzip
  BY <1>2 DEF WriterInv, Kept, Inside, AppMade
<1> QED
  BY <1>1, <1>2

AppCall ==
  \/ AppWriteHeader \/ AppWrite \/ AppHeader \/ AppStream \/ AppSendFile
  \/ AppAcceptWebSocket \/ AppCallFails

\* Every call of the application has such a result.
LEMMA AppStep ==
  ASSUME WriterInv, PanicInv, LogInv, AppCall
  PROVE  AppResult
<1>1. Good(buffer) /\ GoodLog(recorder) /\ Good(recorder.w)
  BY DEF WriterInv, GoodLog
<1>2. stage = "app" /\ calls' \in Nat /\ calls' > 0 /\ Rest
  <2>1. calls \in Nat
    BY DEF WriterInv
  <2>2. stage = "app" /\ calls' = calls + 1 /\ Rest
    BY DEF AppCall, AppWriteHeader, AppWrite, AppHeader, AppStream, AppSendFile,
           AppAcceptWebSocket, AppCallFails, Recorded, Embedded, Calling
  <2> QED
    BY <2>1, <2>2
<1>3. bypassed \in BOOLEAN /\ (~chain.gzip /\ ~bypassed => Even(recorder))
  BY <1>2 DEF WriterInv, LogInv
<1>4. SUFFICES /\ bypassed' \in BOOLEAN /\ (bypassed => bypassed') /\ AppMade
               /\ ~chain.gzip /\ ~bypassed' => Even(recorder')
  BY <1>2 DEF AppResult, Rest
<1>5. CASE AppWriteHeader
  <2>1. PICK s \in Statuses : Recorded(WriteHeader(buffer, s), LogWriteHeader(recorder, s))
    BY <1>5 DEF AppWriteHeader
  <2>2. s \in Nat
    BY StatusAssumption
  <2> DEFINE v == WriteHeader(buffer, s)
             l == LogWriteHeader(recorder, s)
  <2>3. Kept(buffer, v)
    BY <1>1, <2>2, KeptBySteps
  <2>4. GoodLog(l) /\ l.w = WriteHeader(recorder.w, s) /\ (Even(recorder) => Even(l))
    <3>1. GoodLog(l) /\ l.w = WriteHeader(recorder.w, s) /\ (InStep(recorder) => InStep(l))
      BY <1>1, <2>2, LogWriteHeaderFields
    <3>2. WriteHeader(recorder.w, s).reader = recorder.w.reader
      BY <1>1, <2>2, WriteHeaderFields
    <3> QED
      BY <3>1, <3>2 DEF Even
  <2>5. Kept(recorder.w, l.w)
    BY <1>1, <2>2, <2>4, KeptBySteps
  <2>6. /\ UNCHANGED bypassed
        /\ IF chain.gzip THEN buffer' = v /\ UNCHANGED recorder
                         ELSE recorder' = l /\ UNCHANGED buffer
    BY <2>1 DEF Recorded
  <2> HIDE DEF v, l
  <2>7. AppMade
    BY <1>2, <2>3, <2>4, <2>5, <2>6, MadeByRecorded
  <2> QED
    BY <1>3, <2>4, <2>6, <2>7
<1>6. CASE AppWrite
  <2>1. PICK p \in {<<>>, <<"app">>} : Recorded(Write(buffer, p), LogWrite(recorder, p))
    BY <1>6 DEF AppWrite
  <2>2. p \in Seq(Units)
    <3>1. "app" \in Units
      BY KnownValues
    <3>2. <<>> \in Seq(Units) /\ <<"app">> \in Seq(Units)
      BY <3>1
    <3> QED
      BY <3>2
  <2> DEFINE v == Write(buffer, p)
             l == LogWrite(recorder, p)
  <2>3. Kept(buffer, v)
    BY <1>1, <2>2, KeptBySteps
  <2>4. GoodLog(l) /\ l.w = Write(recorder.w, p) /\ (Even(recorder) => Even(l))
    BY <1>1, <2>2, LogWriteFields
  <2>5. Kept(recorder.w, l.w)
    BY <1>1, <2>2, <2>4, KeptBySteps
  <2>6. /\ UNCHANGED bypassed
        /\ IF chain.gzip THEN buffer' = v /\ UNCHANGED recorder
                         ELSE recorder' = l /\ UNCHANGED buffer
    BY <2>1 DEF Recorded
  <2> HIDE DEF v, l
  <2>7. AppMade
    BY <1>2, <2>3, <2>4, <2>5, <2>6, MadeByRecorded
  <2> QED
    BY <1>3, <2>4, <2>6, <2>7
<1>7. CASE AppHeader
  <2>1. UNCHANGED bypassed
    BY <1>7 DEF AppHeader
  <2>2. \E v, u : /\ Kept(buffer, v) /\ Kept(recorder.w, u) /\ SameAnswer(recorder.w, u)
                 /\ IF chain.gzip THEN buffer' = v /\ UNCHANGED recorder
                                  ELSE recorder' = [recorder EXCEPT !.w = u] /\ UNCHANGED buffer
    <3>1. CASE \E name \in AppHeaders : \/ Embedded(LAMBDA w : SetHeader(w, name, "app"))
                                         \/ Embedded(LAMBDA w : AddHeader(w, name, "app"))
      <4>1. PICK name \in AppHeaders : \/ Embedded(LAMBDA w : SetHeader(w, name, "app"))
                                       \/ Embedded(LAMBDA w : AddHeader(w, name, "app"))
        BY <3>1
      <4>2. name \in HeaderNames /\ "app" \in Insiders
        BY KnownNames, KnownValues
      <4>3. CASE Embedded(LAMBDA w : SetHeader(w, name, "app"))
        <5> DEFINE v == SetHeader(buffer, name, "app")
                   u == SetHeader(recorder.w, name, "app")
        <5>1. Kept(buffer, v) /\ Kept(recorder.w, u) /\ SameAnswer(recorder.w, u)
          BY <1>1, <4>2, SetInner
        <5>2. IF chain.gzip THEN buffer' = v /\ UNCHANGED recorder
                            ELSE recorder' = [recorder EXCEPT !.w = u] /\ UNCHANGED buffer
          BY <4>3 DEF Embedded
        <5> HIDE DEF v, u
        <5> QED
          BY <5>1, <5>2
      <4>4. CASE Embedded(LAMBDA w : AddHeader(w, name, "app"))
        <5> DEFINE v == AddHeader(buffer, name, "app")
                   u == AddHeader(recorder.w, name, "app")
        <5>1. Kept(buffer, v) /\ Kept(recorder.w, u) /\ SameAnswer(recorder.w, u)
          BY <1>1, <4>2, SetInner
        <5>2. IF chain.gzip THEN buffer' = v /\ UNCHANGED recorder
                            ELSE recorder' = [recorder EXCEPT !.w = u] /\ UNCHANGED buffer
          BY <4>4 DEF Embedded
        <5> HIDE DEF v, u
        <5> QED
          BY <5>1, <5>2
      <4> QED
        BY <4>1, <4>3, <4>4
    <3>2. CASE Embedded(UseChunkedEncoding)
      <4> DEFINE v == UseChunkedEncoding(buffer)
                 u == UseChunkedEncoding(recorder.w)
      <4>1. IF chain.gzip THEN buffer' = v /\ UNCHANGED recorder
                          ELSE recorder' = [recorder EXCEPT !.w = u] /\ UNCHANGED buffer
        BY <3>2 DEF Embedded
      <4>2. Kept(buffer, v) /\ Kept(recorder.w, u)
        BY <1>1, KeptBySteps
      <4>3. SameAnswer(recorder.w, u)
        BY <1>1, ChunkedFields DEF SameAnswer
      <4> HIDE DEF v, u
      <4> QED
        BY <4>1, <4>2, <4>3
    <3> QED
      BY <1>7, <3>1, <3>2 DEF AppHeader
  <2>3. PICK v, u : /\ Kept(buffer, v) /\ Kept(recorder.w, u) /\ SameAnswer(recorder.w, u)
                    /\ IF chain.gzip
                       THEN buffer' = v /\ UNCHANGED recorder
                       ELSE recorder' = [recorder EXCEPT !.w = u] /\ UNCHANGED buffer
    BY <2>2
  <2>4. AppMade /\ (~chain.gzip => recorder'.w = u /\ recorder'.status = recorder.status
                                   /\ recorder'.bytes = recorder.bytes)
    BY <1>2, <2>3, MadeByEmbedded
  <2>5. ~chain.gzip /\ Even(recorder) => Even(recorder')
    BY <2>3, <2>4 DEF Even, InStep, SameAnswer
  <2> QED
    BY <1>3, <2>1, <2>4, <2>5
<1>8. ASSUME AppStream \/ AppSendFile
      PROVE  bypassed' = TRUE /\ AppMade
  <2>1. bypassed' = TRUE
    BY <1>8 DEF AppStream, AppSendFile
  <2>2. \E v, u : /\ Kept(buffer, v) /\ Kept(recorder.w, u)
                 /\ IF chain.gzip THEN buffer' = v /\ UNCHANGED recorder
                                  ELSE recorder' = [recorder EXCEPT !.w = u] /\ UNCHANGED buffer
    <3>1. CASE Embedded(LAMBDA w : StreamBody(w, "reader"))
      BY <1>1, <3>1, KeptByMethods DEF Embedded
    <3>2. CASE Embedded(StreamRange)
      BY <1>1, <3>2, KeptByMethods DEF Embedded
    <3>3. CASE Embedded(WriteRangeNotSatisfiable)
      BY <1>1, <3>3, KeptByMethods DEF Embedded
    <3>4. CASE Embedded(WriteNotModified)
      BY <1>1, <3>4, KeptByMethods DEF Embedded
    <3>5. CASE Embedded(WriteEvent)
      BY <1>1, <3>5, KeptByMethods DEF Embedded
    <3>6. CASE AppSendFile
      <4>1. PICK file \in Files : Embedded(LAMBDA w : SendFile(w, file))
        BY <3>6 DEF AppSendFile
      <4> QED
        BY <1>1, <4>1, KeptByMethods DEF Embedded
    <3> QED
      BY <1>8, <3>1, <3>2, <3>3, <3>4, <3>5, <3>6 DEF AppStream
  <2> QED
    BY <1>2, <2>1, <2>2, MadeByEmbedded
<1>9. CASE AppAcceptWebSocket
  <2> DEFINE upgraded(w) == SetHeader(SetHeader(w, "Upgrade", "app"), "Connection", "app")
             headers(w) == SetHeader(upgraded(w), "Sec-WebSocket-Accept", "app")
             v == headers(WriteHeader(buffer, 101))
             m == LogWriteHeader(recorder, 101)
             l == [m EXCEPT !.w = headers(m.w)]
  <2>1. /\ {"Upgrade", "Connection", "Sec-WebSocket-Accept"} \subseteq HeaderNames
        /\ "app" \in Insiders
    BY KnownNames, KnownValues
  <2>2. ASSUME NEW w, Good(w)
        PROVE  Kept(w, headers(w)) /\ SameAnswer(w, headers(w))
    <3> DEFINE u == upgraded(w)
    <3>1. Kept(w, u) /\ SameAnswer(w, u)
      BY <2>1, <2>2, SetInnerTwice
    <3> HIDE DEF u
    <3> DEFINE x == SetHeader(u, "Sec-WebSocket-Accept", "app")
    <3>2. Kept(u, x) /\ SameAnswer(u, x)
      BY <2>1, <3>1, SetInner DEF Kept
    <3>3. headers(w) = x
      BY DEF u
    <3> HIDE DEF x
    <3>4. Kept(w, x) /\ SameAnswer(w, x)
      BY <3>1, <3>2, KeptTransitive DEF SameAnswer
    <3> QED
      BY <3>3, <3>4
  <2>3. /\ UNCHANGED bypassed
        /\ IF chain.gzip THEN buffer' = v /\ UNCHANGED recorder
                         ELSE recorder' = l /\ UNCHANGED buffer
    BY <1>9 DEF AppAcceptWebSocket, Recorded
  <2> HIDE DEF headers
  <2>4. Kept(buffer, v)
    <3> DEFINE b == WriteHeader(buffer, 101)
    <3>1. Kept(buffer, b)
      BY <1>1, KeptBySteps
    <3> HIDE DEF b
    <3>2. Kept(b, headers(b))
      BY <2>2, <3>1 DEF Kept
    <3> QED
      BY <3>1, <3>2, KeptTransitive DEF b
  <2>5. GoodLog(m) /\ m.w = WriteHeader(recorder.w, 101) /\ (InStep(recorder) => InStep(m))
    BY <1>1, LogWriteHeaderFields
  <2>6. Kept(recorder.w, m.w) /\ m.w.reader = recorder.w.reader
    BY <1>1, <2>5, KeptBySteps, WriteHeaderFields
  <2> HIDE DEF m
  <2>7. Kept(m.w, headers(m.w)) /\ SameAnswer(m.w, headers(m.w))
    BY <2>2, <2>6 DEF Kept
  <2>8. GoodLog(l) /\ l.w = headers(m.w) /\ l.status = m.status /\ l.bytes = m.bytes
    BY <2>5, <2>7, EmbedFields DEF Kept
  <2>9. Kept(recorder.w, l.w)
    BY <2>6, <2>7, <2>8, KeptTransitive
  <2>10. Even(recorder) => Even(l)
    BY <2>5, <2>6, <2>7, <2>8 DEF Even, InStep, SameAnswer
  <2> HIDE DEF v, l
  <2>11. AppMade
    BY <1>2, <2>3, <2>4, <2>8, <2>9, MadeByRecorded
  <2> QED
    BY <1>3, <2>3, <2>10, <2>11
<1>10. CASE AppCallFails
  <2>1. UNCHANGED <<buffer, recorder, bypassed>>
    BY <1>10 DEF AppCallFails
  <2>2. AppMade
    BY <1>1, <1>2, <2>1 DEF AppMade, WriterInv, Inside
  <2> QED
    BY <1>3, <2>1, <2>2
<1> QED
  BY <1>5, <1>6, <1>7, <1>8, <1>9, <1>10 DEF AppCall

-----------------------------------------------------------------------------
(* What the CORS middleware hands on.                                      *)

\* A set of indexes that is not empty has a least one.
LEMMA LeastIndex ==
  ASSUME NEW T \in SUBSET Nat, T # {}
  PROVE  \E i \in T : \A j \in T : i <= j
<1>1. PICK i \in T : \A j \in T : ~(<<j, i>> \in OpToRel(<, Nat))
  BY NatLessThanWellFounded, WFMin
<1>2. \A j \in T : <<j, i>> \in OpToRel(<, Nat) <=> j < i
  BY DEF OpToRel
<1>3. \A j \in T : ~(j < i)
  BY <1>1, <1>2, Zenon
<1> QED
  BY <1>3

\* corsAllowedOrigin answers a permitted origin, and nobody else, with the
\* origin itself or, without credentials, with "*" if that is configured.
LEMMA AllowedOrigin ==
  ASSUME chain \in Chains, request \in Requests
  PROVE  /\ Permitted <=> request.origin # "" /\ corsAllowedOrigin # ""
         /\ Permitted => \/ corsAllowedOrigin = request.origin
                         \/ /\ corsAllowedOrigin = "*" /\ ~chain.credentials
                            /\ "*" \in Range(chain.cors)
<1> DEFINE hits == {i \in 1..Len(chain.cors) : chain.cors[i] \in {"*", request.origin}}
           hit == CHOOSE i \in hits : \A j \in hits : i <= j
<1>1. corsAllowedOrigin =
        IF hits = {} THEN ""
        ELSE IF chain.cors[hit] = "*" /\ ~chain.credentials THEN "*" ELSE request.origin
  BY DEF corsAllowedOrigin
<1>2. Permitted <=> request.origin # "" /\ hits # {}
  BY DEF Permitted
<1>3. hits # {} => hit \in hits
  <2> HAVE hits # {}
  <2>1. hits \in SUBSET Nat
    OBVIOUS
  <2> HIDE DEF hits
  <2>2. \E i \in hits : \A j \in hits : i <= j
    BY <2>1, LeastIndex
  <2> QED
    BY <2>2
<1>4. hits # {} /\ chain.cors[hit] = "*" /\ ~chain.credentials => "*" \in Range(chain.cors)
  <2> HAVE hits # {} /\ chain.cors[hit] = "*" /\ ~chain.credentials
  <2>1. chain.cors \in Seq(STRING)
    BY ChainAssumption
  <2>2. hit \in 1..Len(chain.cors)
    BY <1>3
  <2> HIDE DEF hit
  <2> QED
    BY <2>1, <2>2 DEF Range
<1> HIDE DEF hits, hit
<1> QED
  BY <1>1, <1>2, <1>4

\* What the middleware writes to a new writer.
LEMMA CorsFields ==
  ASSUME request \in Requests, NEW origin, origin \in {"*", request.origin}
  PROVE  LET v == writeCORSActualHeaders(newBufferedResponseWriter, origin)
         IN /\ Good(v) /\ SameAnswer(newBufferedResponseWriter, v) /\ ~v.chunked
            /\ v.headers["Content-Encoding"] = <<>>
            /\ v.headers[ACAO] = <<origin>>
            /\ origin # "*" => v.headers["Vary"] = <<"Origin">>
            /\ chain.credentials => v.headers[ACAC] = <<"true">>
<1> DEFINE n == newBufferedResponseWriter
           o == SetHeader(n, "Access-Control-Allow-Origin", origin)
           v == IF origin = "*" THEN o ELSE AddHeader(o, "Vary", "Origin")
           u == IF chain.credentials
                THEN SetHeader(v, "Access-Control-Allow-Credentials", "true") ELSE v
<1>0. /\ {"Access-Control-Allow-Origin", "Access-Control-Allow-Credentials", "Vary",
          "Content-Encoding"} \subseteq HeaderNames
      /\ ACAO = "Access-Control-Allow-Origin" /\ ACAC = "Access-Control-Allow-Credentials"
      /\ {"Origin", "true"} \subseteq Values /\ origin \in Values
  BY KnownNames, KnownValues DEF ACAO, ACAC
<1>1. Good(n) /\ n.chunked = FALSE /\ \A name \in HeaderNames : n.headers[name] = <<>>
  BY EmptyWriter, NoHeaders
<1> HIDE DEF n
<1>2. /\ Good(o) /\ SameAnswer(n, o) /\ ~o.chunked
      /\ o.headers[ACAO] = <<origin>>
      /\ \A name \in HeaderNames \ {ACAO} : o.headers[name] = <<>>
  <2> DEFINE s == Replaced(n.headers[ACAO], origin)
  <2>1. n.headers[ACAO] = <<>> /\ <<>> \in Seq(Values)
    BY <1>0, <1>1
  <2>2. s = <<origin>>
    <3>1. Replaced(<<>>, origin) = <<origin>>
      BY <1>0, ReplacedNothing
    <3> QED
      BY <2>1, <3>1
  <2>3. Changed(n, o, ACAO, s)
    BY <1>0, <1>1, SetHeaderFields
  <2> HIDE DEF s, o
  <2> QED
    BY <1>1, <2>2, <2>3 DEF Changed, SameAnswer
<1> HIDE DEF o
<1>3. /\ Good(v) /\ SameAnswer(n, v) /\ ~v.chunked
      /\ v.headers[ACAO] = <<origin>>
      /\ origin # "*" => v.headers["Vary"] = <<"Origin">>
      /\ v.headers[ACAC] = <<>> /\ v.headers["Content-Encoding"] = <<>>
  <2>1. CASE origin = "*"
    BY <1>0, <1>2, <2>1
  <2>2. CASE origin # "*"
    <3> DEFINE a == AddHeader(o, "Vary", "Origin")
               s == Append(o.headers["Vary"], "Origin")
    <3>1. o.headers["Vary"] = <<>> /\ <<>> \in Seq(Values)
      BY <1>0, <1>2
    <3>2. s = <<"Origin">>
      BY <1>0, <3>1, AppendValues
    <3>3. Changed(o, a, "Vary", s)
      BY <1>0, <1>2, AddHeaderFields
    <3>4. v = a
      BY <2>2
    <3> HIDE DEF a, s, v
    <3> QED
      BY <1>0, <1>2, <3>2, <3>3, <3>4 DEF Changed, SameAnswer
  <2> QED
    BY <2>1, <2>2
<1> HIDE DEF v
<1>4. /\ Good(u) /\ SameAnswer(n, u) /\ ~u.chunked
      /\ u.headers[ACAO] = <<origin>>
      /\ origin # "*" => u.headers["Vary"] = <<"Origin">>
      /\ chain.credentials => u.headers[ACAC] = <<"true">>
      /\ u.headers["Content-Encoding"] = <<>>
  <2>1. CASE ~chain.credentials
    BY <1>3, <2>1
  <2>2. CASE chain.credentials
    <3> DEFINE a == SetHeader(v, "Access-Control-Allow-Credentials", "true")
               s == Replaced(v.headers[ACAC], "true")
    <3>1. <<>> \in Seq(Values) /\ "true" \in Values
      BY <1>0
    <3>2. s = <<"true">>
      <4>1. Replaced(<<>>, "true") = <<"true">>
        BY <3>1, ReplacedNothing
      <4> QED
        BY <1>3, <4>1
    <3>3. Changed(v, a, ACAC, s)
      BY <1>0, <1>3, SetHeaderFields
    <3>4. u = a
      BY <2>2
    <3> HIDE DEF a, s, u
    <3> QED
      BY <1>0, <1>3, <3>2, <3>3, <3>4 DEF Changed, SameAnswer
  <2> QED
    BY <2>1, <2>2
<1>5. writeCORSActualHeaders(n, origin) = u
  BY DEF writeCORSActualHeaders, u, v, o
<1> HIDE DEF u
<1> QED
  BY <1>4, <1>5 DEF n

\* CORS answers nothing and announces no encoding; it names a permitted origin, or
\* "*" if that is configured without credentials, and says nothing to another.
LEMMA OuterFields ==
  ASSUME chain \in Chains, request \in Requests
  PROVE  /\ Good(Outer) /\ Outer.status = 0 /\ Outer.body = <<>> /\ Outer.reader = "none"
         /\ ~Outer.chunked
         /\ Outer.headers["Content-Encoding"] = <<>> /\ Plain(Outer)
         /\ ~Permitted => \A name \in HeaderNames : Outer.headers[name] = <<>>
         /\ Permitted =>
              /\ \/ /\ Outer.headers[ACAO] = <<request.origin>>
                    /\ Outer.headers["Vary"] = <<"Origin">>
                 \/ /\ Outer.headers[ACAO] = <<"*">> /\ ~chain.credentials
                    /\ "*" \in Range(chain.cors)
              /\ chain.credentials => Outer.headers[ACAC] = <<"true">>
<1> DEFINE n == newBufferedResponseWriter
           v == writeCORSActualHeaders(n, corsAllowedOrigin)
<1>1. /\ Good(n) /\ n.status = 0 /\ n.body = <<>> /\ n.reader = "none" /\ ~n.chunked
      /\ \A name \in HeaderNames : n.headers[name] = <<>>
  BY EmptyWriter, NoHeaders
<1>2. "Content-Encoding" \in HeaderNames
  BY KnownNames
<1>3. ASSUME Outer.headers["Content-Encoding"] = <<>>
      PROVE  Plain(Outer)
  BY <1>3 DEF Plain, Range
<1>4. CASE ~Permitted
  <2>1. Outer = n
    BY <1>4 DEF Outer
  <2> HIDE DEF n
  <2> QED
    BY <1>1, <1>2, <1>3, <1>4, <2>1
<1>5. CASE Permitted
  <2>1. Outer = v
    BY <1>5 DEF Outer
  <2>2. \/ corsAllowedOrigin = request.origin
        \/ corsAllowedOrigin = "*" /\ ~chain.credentials /\ "*" \in Range(chain.cors)
    BY <1>5, AllowedOrigin
  <2>3. request.origin # "*"
    BY RequestAssumption
  <2>4. /\ Good(v) /\ SameAnswer(n, v) /\ ~v.chunked
        /\ v.headers["Content-Encoding"] = <<>>
        /\ v.headers[ACAO] = <<corsAllowedOrigin>>
        /\ corsAllowedOrigin # "*" => v.headers["Vary"] = <<"Origin">>
        /\ chain.credentials => v.headers[ACAC] = <<"true">>
    BY <2>2, CorsFields
  <2> HIDE DEF v, n
  <2>5. Outer.status = 0 /\ Outer.body = <<>> /\ Outer.reader = "none"
    BY <1>1, <2>1, <2>4 DEF SameAnswer
  <2> QED
    BY <1>3, <1>5, <2>1, <2>2, <2>3, <2>4, <2>5
<1> QED
  BY <1>4, <1>5

-----------------------------------------------------------------------------
(* One lemma for each step that is not a call of the application.          *)

\* What depends on chain and request only.
LEMMA InputsKept ==
  ASSUME UNCHANGED input
  PROVE  /\ chain' = chain /\ request' = request
         /\ Permitted' = Permitted /\ Preflight' = Preflight /\ Bare' = Bare
         /\ Outer' = Outer
<1>1. chain' = chain /\ request' = request
  BY DEF input
<1>2. Permitted' = Permitted /\ Preflight' = Preflight /\ Bare' = Bare
  BY <1>1 DEF Permitted, Preflight, Bare
<1>3. corsAllowedOrigin' = corsAllowedOrigin
  BY <1>1 DEF corsAllowedOrigin
<1>4. Outer' = Outer
  BY <1>1, <1>2, <1>3 DEF Outer, writeCORSActualHeaders
<1> QED
  BY <1>1, <1>2, <1>4

\* A call of the application keeps the invariant.
LEMMA AppKeeps ==
  ASSUME AllInv, AppResult
  PROVE  AllInv'
<1> USE DEF AllInv
<1>1. UNCHANGED input /\ stage = "app" /\ stage' = "app" /\ UNCHANGED <<panicked, response>>
  BY DEF AppResult
<1>2. ~panicked /\ ~panicked'
  BY <1>1 DEF PanicInv, Inside
<1>3. WriterInv'
  <2>1. CASE chain.gzip
    <3>1. UNCHANGED recorder /\ Good(buffer') /\ Plain(buffer')
      BY <2>1 DEF AppResult, AppMade
    <3>2. Untouched'
      BY <1>1, <2>1, <3>1, InputsKept DEF WriterInv, Untouched
    <3> QED
      BY <1>1, <2>1, <3>1, <3>2, InputsKept DEF WriterInv, AppResult
  <2>2. CASE ~chain.gzip
    <3>1. UNCHANGED buffer /\ GoodLog(recorder') /\ Plain(recorder'.w)
      BY <2>2 DEF AppResult, AppMade
    <3> QED
      BY <1>1, <2>2, <3>1, InputsKept DEF WriterInv, AppResult
  <2> QED
    BY <2>1, <2>2
<1>4. RefusalInv'
  BY <1>1, InputsKept DEF RefusalInv, Inside
<1>5. PanicInv' /\ ReplayInv'
  BY <1>1, <1>2 DEF PanicInv, ReplayInv
<1>6. LogInv'
  <2>1. chain' = chain
    BY <1>1, InputsKept
  <2>2. ~chain.gzip /\ ~bypassed' => Even(recorder')
    BY DEF AppResult
  <2> QED
    BY <1>1, <1>2, <2>1, <2>2 DEF LogInv
<1>7. CorsInv'
  BY <1>1 DEF CorsInv
<1> QED
  BY <1>3, <1>4, <1>5, <1>6, <1>7

\* A status and a body written to a writer that has neither.
LEMMA Answered ==
  ASSUME NEW w, Good(w), w.status = 0, w.body = <<>>,
         NEW status \in Nat \ {0}, NEW who \in Insiders
  PROVE  LET v == Write(WriteHeader(w, status), <<who>>)
         IN /\ Good(v) /\ v.status = status /\ v.body = <<who>> /\ v.reader = "none"
            /\ v.chunked = w.chunked /\ v.headers = w.headers
<1> DEFINE u == WriteHeader(w, status)
           v == Write(u, <<who>>)
<1>1. Good(u) /\ u.status = status /\ u.headers = w.headers /\ u.body = <<>>
      /\ u.chunked = w.chunked
  BY WriteHeaderFields
<1> HIDE DEF u
<1>2. who \in Units
  BY DEF Units
<1>3. <<who>> \in Seq(Units) /\ <<>> \o <<who>> = <<who>>
  BY <1>2
<1>4. /\ Good(v) /\ v.status = u.status /\ v.headers = u.headers /\ v.body = u.body \o <<who>>
      /\ v.reader = "none" /\ v.chunked = u.chunked
  BY <1>1, <1>3, WriteFields
<1> QED
  BY <1>1, <1>3, <1>4 DEF u

\* The same through the logging writer.
LEMMA LogAnswered ==
  ASSUME NEW l, GoodLog(l), Even(l), NEW status \in Nat, NEW who \in Insiders
  PROVE  LET m == LogWrite(LogWriteHeader(l, status), <<who>>)
         IN GoodLog(m) /\ Even(m) /\ m.w = Write(WriteHeader(l.w, status), <<who>>)
<1> DEFINE k == LogWriteHeader(l, status)
           m == LogWrite(k, <<who>>)
<1>1. GoodLog(k) /\ k.w = WriteHeader(l.w, status) /\ InStep(k)
  BY LogWriteHeaderFields DEF Even
<1>2. k.w.reader = "none"
  <2>1. Good(l.w) /\ l.w.reader = "none"
    BY DEF GoodLog, Even
  <2> QED
    BY <1>1, <2>1, WriteHeaderFields
<1> HIDE DEF k
<1>3. who \in Units
  BY DEF Units
<1>4. <<who>> \in Seq(Units)
  BY <1>3
<1>5. GoodLog(m) /\ Even(m) /\ m.w = Write(k.w, <<who>>)
  BY <1>1, <1>2, <1>4, LogWriteFields DEF Even
<1> QED
  BY <1>1, <1>5 DEF k

\* The answer of a middleware inside the compression is the only one.
Refused(status, who) ==
  IF chain.gzip
  THEN /\ stage' = "replay" /\ recorder' = recorder
       /\ Good(buffer') /\ Plain(buffer')
       /\ buffer'.headers[ACAO] = <<>>
       /\ buffer'.status = status /\ buffer'.body = <<who>>
  ELSE /\ stage' = "log" /\ buffer' = buffer
       /\ GoodLog(recorder') /\ Even(recorder') /\ Plain(recorder'.w)
       /\ recorder'.w.status = status /\ recorder'.w.body = <<who>>

\* What Refuse writes, through the buffer or through the logging writer.
LEMMA RefuseResult ==
  ASSUME WriterInv, stage \in {"auth", "limit"},
         NEW name \in {"WWW-Authenticate", "Retry-After"},
         NEW status \in Nat \ {0}, NEW who \in Insiders, Refuse(name, status, who)
  PROVE  Refused(status, who)
<1> DEFINE headers(w) == SetHeader(SetHeader(w, name, who), "Content-Type", who)
<1>1. ASSUME NEW w, Good(w)
      PROVE  /\ Kept(w, headers(w)) /\ SameAnswer(w, headers(w))
             /\ headers(w).headers[ACAO] = w.headers[ACAO]
  <2>1. name \in HeaderNames /\ "Content-Type" \in HeaderNames
        /\ ACAO \in HeaderNames \ {name, "Content-Type"}
    BY KnownNames DEF ACAO
  <2> QED
    BY <1>1, <2>1, SetInnerTwice
<1>2. /\ stage' = IF chain.gzip THEN "replay" ELSE "log"
      /\ chain.gzip =>
           buffer' = Write(WriteHeader(headers(buffer), status), <<who>>) /\ UNCHANGED recorder
      /\ ~chain.gzip =>
           /\ recorder' = LogWrite(LogWriteHeader([recorder EXCEPT !.w = headers(recorder.w)],
                                                  status), <<who>>)
           /\ UNCHANGED buffer
  BY DEF Refuse, Returned
<1> HIDE DEF headers
<1>3. CASE chain.gzip
  <2> DEFINE b == headers(buffer)
  <2>1. Good(buffer) /\ buffer.status = 0 /\ buffer.body = <<>> /\ Plain(buffer)
        /\ buffer.headers[ACAO] = <<>>
    BY EmptyWriter, NoHeaders, KnownNames DEF WriterInv
  <2>2. Kept(buffer, b) /\ SameAnswer(buffer, b) /\ b.headers[ACAO] = buffer.headers[ACAO]
    BY <1>1, <2>1
  <2>3. Good(b) /\ b.status = 0 /\ b.body = <<>> /\ Plain(b) /\ b.headers[ACAO] = <<>>
    BY <2>1, <2>2 DEF Kept, SameAnswer
  <2> HIDE DEF b
  <2>4. buffer' = Write(WriteHeader(b, status), <<who>>)
    BY <1>2, <1>3 DEF b
  <2>5. Good(buffer') /\ buffer'.headers = b.headers
        /\ buffer'.status = status /\ buffer'.body = <<who>>
    BY <2>3, <2>4, Answered
  <2>6. Plain(buffer') /\ buffer'.headers[ACAO] = <<>>
    BY <2>3, <2>5 DEF Plain
  <2> QED
    BY <1>2, <1>3, <2>5, <2>6 DEF Refused
<1>4. CASE ~chain.gzip
  <2> DEFINE b == headers(recorder.w)
             l == [recorder EXCEPT !.w = b]
  <2>1. /\ GoodLog(recorder) /\ recorder.status = 0 /\ recorder.bytes = 0
        /\ Good(recorder.w) /\ recorder.w.status = 0 /\ recorder.w.body = <<>>
        /\ recorder.w.reader = "none" /\ Plain(recorder.w)
    BY OuterFields DEF WriterInv, Untouched
  <2>2. Kept(recorder.w, b) /\ SameAnswer(recorder.w, b)
    BY <1>1, <2>1
  <2>3. Good(b) /\ b.status = 0 /\ b.body = <<>> /\ b.reader = "none"
        /\ Plain(b)
    BY <2>1, <2>2 DEF Kept, SameAnswer
  <2> HIDE DEF b
  <2>4. GoodLog(l) /\ l.w = b /\ l.status = 0 /\ l.bytes = 0
    BY <2>1, <2>3, EmbedFields
  <2>5. Even(l)
    BY <2>3, <2>4 DEF Even, InStep
  <2> HIDE DEF l
  <2>6. recorder' = LogWrite(LogWriteHeader(l, status), <<who>>) /\ UNCHANGED buffer
    BY <1>2, <1>4 DEF l, b
  <2>7. GoodLog(recorder') /\ Even(recorder')
        /\ recorder'.w = Write(WriteHeader(b, status), <<who>>)
    BY <2>4, <2>5, <2>6, LogAnswered
  <2>8. recorder'.w.headers = b.headers
        /\ recorder'.w.status = status /\ recorder'.w.body = <<who>>
    BY <2>3, <2>7, Answered
  <2>9. Plain(recorder'.w)
    BY <2>3, <2>8 DEF Plain
  <2> QED
    BY <1>2, <1>4, <2>6, <2>7, <2>8, <2>9 DEF Refused
<1> QED
  BY <1>3, <1>4

\* Such an answer keeps the invariant if it is 401 whenever the token is missing.
LEMMA RefusedKeeps ==
  ASSUME AllInv, stage \in {"auth", "limit"}, NEW status, NEW who, Refused(status, who),
         Bare => status = 401 /\ who = "auth",
         UNCHANGED <<input, calls, panicked, bypassed, logged, response>>
  PROVE  AllInv'
<1> USE DEF AllInv
<1>1. ~panicked /\ ~panicked' /\ ~Preflight /\ ~Preflight'
  BY InputsKept DEF PanicInv, RefusalInv, Inside
<1>2. CASE chain.gzip
  <2>1. /\ stage' = "replay" /\ recorder' = recorder
        /\ Good(buffer') /\ Plain(buffer') /\ buffer'.headers[ACAO] = <<>>
        /\ buffer'.status = status /\ buffer'.body = <<who>>
    BY <1>2 DEF Refused
  <2>2. WriterInv'
    <3>1. Untouched'
      BY <2>1, InputsKept DEF WriterInv, Untouched
    <3> QED
      BY <1>2, <2>1, <3>1, InputsKept DEF WriterInv, Stages, Inside
  <2>3. RefusalInv'
    BY <1>1, <1>2, <2>1, InputsKept DEF RefusalInv, Inside
  <2>4. PanicInv' /\ ReplayInv' /\ LogInv'
    BY <1>1, <1>2, <2>1, InputsKept DEF PanicInv, ReplayInv, LogInv
  <2>5. CorsInv'
    BY <2>1 DEF CorsInv
  <2> QED
    BY <2>2, <2>3, <2>4, <2>5
<1>3. CASE ~chain.gzip
  <2>1. /\ stage' = "log" /\ buffer' = buffer
        /\ GoodLog(recorder') /\ Even(recorder') /\ Plain(recorder'.w)
        /\ recorder'.w.status = status /\ recorder'.w.body = <<who>>
    BY <1>3 DEF Refused
  <2>2. WriterInv'
    BY <1>3, <2>1, InputsKept DEF WriterInv, Stages, Inside
  <2>3. RefusalInv'
    BY <1>1, <1>3, <2>1, InputsKept DEF RefusalInv, Inside
  <2>4. PanicInv' /\ ReplayInv' /\ LogInv' /\ CorsInv'
    BY <1>1, <1>3, <2>1, InputsKept DEF PanicInv, ReplayInv, LogInv, CorsInv
  <2> QED
    BY <2>2, <2>3, <2>4
<1> QED
  BY <1>2, <1>3

\* BearerAuth answers 401 or lets the request pass.
LEMMA BearerAuthKeeps ==
  ASSUME AllInv, BearerAuth
  PROVE  AllInv'
<1>1. stage = "auth" /\ UNCHANGED <<input, calls, panicked, bypassed, logged, response>>
  BY DEF BearerAuth
<1>2. CASE Bare
  <2>1. Refuse("WWW-Authenticate", 401, "auth")
    BY <1>2 DEF BearerAuth, Bare
  <2>2. "auth" \in Insiders
    BY KnownValues
  <2>3. Refused(401, "auth")
    BY <1>1, <2>1, <2>2, RefuseResult DEF AllInv
  <2> QED
    BY <1>1, <2>3, RefusedKeeps
<1>3. CASE ~Bare
  <2>1. stage' = "limit" /\ UNCHANGED <<buffer, recorder>>
    BY <1>3 DEF BearerAuth, Bare
  <2>2. WriterInv'
    <3>1. Untouched'
      BY <1>1, <2>1, InputsKept DEF AllInv, WriterInv, Untouched
    <3> QED
      BY <1>1, <2>1, <3>1, InputsKept DEF AllInv, WriterInv, Stages, Inside
  <2>3. RefusalInv' /\ PanicInv' /\ ReplayInv' /\ LogInv'
    BY <1>1, <1>3, <2>1, InputsKept DEF AllInv, RefusalInv, PanicInv, ReplayInv, LogInv, Inside
  <2>4. CorsInv'
    BY <2>1 DEF CorsInv
  <2> QED
    BY <2>2, <2>3, <2>4 DEF AllInv
<1> QED
  BY <1>2, <1>3

\* FixedWindowRateLimit answers 429 or lets the request pass.
LEMMA RateLimitKeeps ==
  ASSUME AllInv, FixedWindowRateLimit
  PROVE  AllInv'
<1>1. stage = "limit" /\ UNCHANGED <<input, calls, panicked, bypassed, logged, response>>
  BY DEF FixedWindowRateLimit
<1>2. ~Bare
  BY <1>1 DEF AllInv, RefusalInv
<1>3. CASE Refuse("Retry-After", 429, "limit")
  <2>1. "limit" \in Insiders
    BY KnownValues
  <2>2. Refused(429, "limit")
    BY <1>1, <1>3, <2>1, RefuseResult DEF AllInv
  <2> QED
    BY <1>1, <1>2, <2>2, RefusedKeeps
<1>4. CASE stage' = "app" /\ UNCHANGED <<buffer, recorder>>
  <2>1. WriterInv'
    <3>1. Untouched'
      BY <1>1, <1>4, InputsKept DEF AllInv, WriterInv, Untouched
    <3> QED
      BY <1>1, <1>4, <3>1, InputsKept DEF AllInv, WriterInv, Stages, Inside
  <2>2. RefusalInv' /\ PanicInv' /\ ReplayInv' /\ LogInv'
    BY <1>1, <1>2, <1>4, InputsKept
       DEF AllInv, RefusalInv, PanicInv, ReplayInv, LogInv, Inside
  <2>3. CorsInv'
    BY <1>4 DEF CorsInv
  <2> QED
    BY <2>1, <2>2, <2>3 DEF AllInv
<1> QED
  BY <1>3, <1>4 DEF FixedWindowRateLimit

\* The application returns.
LEMMA AppReturnKeeps ==
  ASSUME AllInv, AppReturn
  PROVE  AllInv'
<1>1. /\ stage = "app" /\ stage' = IF chain.gzip THEN "replay" ELSE "log"
      /\ UNCHANGED <<input, calls, buffer, recorder, panicked, bypassed, logged, response>>
  BY DEF AppReturn, Returned
<1>2. ~panicked /\ ~Preflight /\ ~Bare
  BY <1>1 DEF AllInv, PanicInv, RefusalInv, Inside
<1>3. WriterInv'
  <2>1. chain.gzip => Untouched'
    BY <1>1, InputsKept DEF AllInv, WriterInv, Untouched
  <2> QED
    BY <1>1, <2>1, InputsKept DEF AllInv, WriterInv, Stages, Inside
<1>4. RefusalInv' /\ PanicInv' /\ ReplayInv'
  BY <1>1, <1>2, InputsKept DEF AllInv, RefusalInv, PanicInv, ReplayInv, Inside
<1>5. LogInv'
  BY <1>1, <1>2, InputsKept DEF AllInv, LogInv
<1>6. CorsInv'
  BY <1>1, InputsKept DEF CorsInv
<1> QED
  BY <1>3, <1>4, <1>5, <1>6 DEF AllInv

\* What recovery writes to a writer that has just been reset.
LEMMA RecoveredFields ==
  ASSUME NEW w
  PROVE  LET e == SetHeader(reset(w), "Content-Type", "recovery")
             v == Write(WriteHeader(e, 500), <<"recovery">>)
         IN /\ Good(e) /\ e.status = 0 /\ e.body = <<>> /\ e.reader = "none"
            /\ Good(v) /\ Recovered(v)
<1> DEFINE e == SetHeader(reset(w), "Content-Type", "recovery")
           v == Write(WriteHeader(e, 500), <<"recovery">>)
<1>1. reset(w) = newBufferedResponseWriter
  BY DEF reset
<1>2. "Content-Type" \in HeaderNames /\ "recovery" \in Values /\ "recovery" \in Insiders
  BY KnownNames, KnownValues
<1>3. /\ Good(e) /\ e.status = 0 /\ e.body = <<>> /\ e.reader = "none" /\ e.chunked = FALSE
      /\ e.headers = RecoveryHeaders
  <2> DEFINE n == newBufferedResponseWriter
             s == Replaced(n.headers["Content-Type"], "recovery")
  <2>1. /\ Good(n) /\ n.status = 0 /\ n.body = <<>> /\ n.reader = "none"
        /\ n.chunked = FALSE /\ n.headers = noHeaders
    BY EmptyWriter
  <2>2. s = <<"recovery">>
    <3>1. Replaced(<<>>, "recovery") = <<"recovery">>
      BY <1>2, ReplacedNothing
    <3>2. n.headers["Content-Type"] = <<>>
      BY <1>2, <2>1, NoHeaders
    <3> QED
      BY <3>1, <3>2
  <2>3. Changed(n, e, "Content-Type", s)
    BY <1>1, <1>2, <2>1, SetHeaderFields
  <2> HIDE DEF n, s, e
  <2> QED
    BY <2>1, <2>2, <2>3 DEF Changed, RecoveryHeaders
<1> HIDE DEF e
<1>4. /\ Good(v) /\ v.status = 500 /\ v.body = <<"recovery">> /\ v.reader = "none"
      /\ v.chunked = e.chunked /\ v.headers = e.headers
  BY <1>2, <1>3, Answered
<1>5. Recovered(v)
  BY <1>3, <1>4 DEF Recovered
<1> QED
  BY <1>3, <1>4, <1>5 DEF e

\* The application panics and RecoveryMiddleware answers.
LEMMA RecoverKeeps ==
  ASSUME AllInv, Recover
  PROVE  AllInv'
<1>1. /\ stage = "app" /\ stage' = IF chain.gzip THEN "replay" ELSE "log"
      /\ UNCHANGED <<input, calls, bypassed, logged, response>> /\ panicked' = TRUE
  BY DEF Recover, Returned
<1>2. ~Preflight /\ ~Bare
  BY <1>1 DEF AllInv, RefusalInv
<1>3. ASSUME NEW w, Recovered(w)
      PROVE  Plain(w) /\ w.headers[ACAO] = <<>>
  <2>1. w.headers["Content-Encoding"] = <<>> /\ w.headers[ACAO] = <<>>
    BY <1>3, NoHeaders, KnownNames DEF Recovered, RecoveryHeaders, noHeaders, ACAO
  <2> QED
    BY <2>1 DEF Plain, Range
<1>4. CASE chain.gzip
  <2>1. Good(buffer') /\ Recovered(buffer') /\ UNCHANGED recorder
    BY <1>4, RecoveredFields DEF Recover
  <2>2. WriterInv'
    <3>1. Untouched'
      BY <1>1, <1>4, <2>1, InputsKept DEF AllInv, WriterInv, Untouched
    <3> QED
      BY <1>1, <1>3, <1>4, <2>1, <3>1, InputsKept DEF AllInv, WriterInv, Stages, Inside
  <2>3. RefusalInv' /\ PanicInv' /\ ReplayInv' /\ LogInv'
    BY <1>1, <1>2, <1>4, <2>1, InputsKept
       DEF AllInv, RefusalInv, PanicInv, ReplayInv, LogInv, Inside
  <2>4. CorsInv'
    BY <1>1, <1>4 DEF CorsInv
  <2> QED
    BY <2>2, <2>3, <2>4 DEF AllInv
<1>5. CASE ~chain.gzip
  <2> DEFINE e == SetHeader(reset(recorder.w), "Content-Type", "recovery")
             l == [LogReset(recorder) EXCEPT !.w = e]
  <2>1. LogReset(recorder).w = reset(recorder.w) /\ GoodLog(LogReset(recorder))
        /\ LogReset(recorder).status = 0 /\ LogReset(recorder).bytes = 0
    <3>1. Good(reset(recorder.w))
      BY EmptyWriter DEF reset
    <3> QED
      BY <3>1 DEF AllInv, WriterInv, GoodLog, Good, LogReset
  <2>2. Good(e) /\ e.status = 0 /\ e.body = <<>> /\ e.reader = "none"
    BY RecoveredFields
  <2>3. recorder' = LogWrite(LogWriteHeader(l, 500), <<"recovery">>) /\ UNCHANGED buffer
    BY <1>5, <2>1 DEF Recover
  <2> HIDE DEF e
  <2>4. GoodLog(l) /\ l.w = e /\ l.status = 0 /\ l.bytes = 0
    BY <2>1, <2>2, EmbedFields
  <2> HIDE DEF l
  <2>5. Even(l)
    BY <2>2, <2>4 DEF Even, InStep
  <2>6. "recovery" \in Insiders
    BY KnownValues
  <2>7. GoodLog(recorder') /\ Even(recorder')
        /\ recorder'.w = Write(WriteHeader(e, 500), <<"recovery">>)
    BY <2>3, <2>4, <2>5, <2>6, LogAnswered
  <2>8. Recovered(recorder'.w)
    BY <2>7, RecoveredFields DEF e
  <2>9. WriterInv'
    BY <1>1, <1>3, <1>5, <2>3, <2>7, <2>8, InputsKept DEF AllInv, WriterInv, Stages, Inside
  <2>10. RefusalInv' /\ PanicInv' /\ ReplayInv' /\ CorsInv'
    BY <1>1, <1>2, <1>5, <2>8, InputsKept
       DEF AllInv, RefusalInv, PanicInv, ReplayInv, CorsInv, Inside
  <2>11. LogInv'
    BY <1>1, <1>5, <2>7, InputsKept DEF LogInv
  <2> QED
    BY <2>9, <2>10, <2>11 DEF AllInv
<1> QED
  BY <1>4, <1>5

\* LoggingMiddleware reads its recorder and changes nothing else.
LEMMA LogKeeps ==
  ASSUME AllInv, Log
  PROVE  AllInv'
<1>1. /\ stage = "log" /\ stage' = "respond"
      /\ UNCHANGED <<input, calls, buffer, recorder, panicked, bypassed, response>>
      /\ logged' = [status |-> StatusCode(recorder), bytes |-> recorder.bytes]
  BY DEF Log
<1>2. WriterInv'
  BY <1>1, InputsKept DEF AllInv, WriterInv, Stages, Inside
<1>3. RefusalInv' /\ PanicInv'
  BY <1>1, InputsKept DEF AllInv, RefusalInv, PanicInv, Inside
<1>4. ReplayInv'
  BY <1>1, InputsKept DEF AllInv, ReplayInv, Replayed, Layers
<1>5. LogInv'
  <2>1. StatusCode(recorder') = StatusCode(recorder)
    BY <1>1
  <2> QED
    BY <1>1, <2>1, InputsKept DEF AllInv, LogInv
<1>6. CorsInv'
  BY <1>1, InputsKept DEF AllInv, CorsInv, CorsSet
<1> QED
  BY <1>2, <1>3, <1>4, <1>5, <1>6 DEF AllInv

\* The response leaves.
LEMMA SendKeeps ==
  ASSUME AllInv, Send
  PROVE  AllInv'
<1>1. /\ stage = "done" /\ stage' = "over"
      /\ UNCHANGED <<input, calls, buffer, recorder, panicked, bypassed, logged, response>>
  BY DEF Send
<1>2. WriterInv'
  BY <1>1, InputsKept DEF AllInv, WriterInv, Stages, Inside
<1>3. RefusalInv' /\ PanicInv' /\ ReplayInv' /\ LogInv' /\ CorsInv'
  BY <1>1, InputsKept DEF AllInv, RefusalInv, PanicInv, ReplayInv, LogInv, CorsInv, Inside
<1> QED
  BY <1>2, <1>3 DEF AllInv

-----------------------------------------------------------------------------
(* The replay.                                                             *)

\* The headers that are replayed and the ones that the compression adds.
LEMMA SentHeaders ==
  ASSUME NEW r, Good(r)
  PROVE  /\ Sent(r) \in HeaderField /\ Sent(r)["Content-Length"] = <<>>
         /\ \A name \in HeaderNames \ {"Content-Length"} : Sent(r)[name] = r.headers[name]
         /\ withoutHeader(r, "Content-Length") = [r EXCEPT !.headers = Sent(r)]
<1>1. "Content-Length" \in HeaderNames /\ <<>> \in Seq(Values)
  BY KnownNames
<1>2. withoutHeader(r, "Content-Length") = [r EXCEPT !.headers = Sent(r)]
  BY Zenon DEF withoutHeader, Sent
<1> DEFINE hs == [r.headers EXCEPT !["Content-Length"] = <<>>]
<1>3. /\ hs \in HeaderField /\ hs["Content-Length"] = <<>>
      /\ \A name \in HeaderNames \ {"Content-Length"} : hs[name] = r.headers[name]
  BY <1>1 DEF Good, Writer, HeaderField
<1>4. Sent(r) = hs
  BY DEF Sent
<1> HIDE DEF hs
<1> QED
  BY <1>2, <1>3, <1>4

\* One value each for Content-Encoding and Vary.
LEMMA GzipHeaders ==
  /\ gzipHeaders \in HeaderField
  /\ gzipHeaders["Content-Encoding"] = <<"gzip">>
  /\ gzipHeaders["Vary"] = <<"Accept-Encoding">>
  /\ \A name \in HeaderNames \ {"Content-Encoding", "Vary"} : gzipHeaders[name] = <<>>
<1>1. "Content-Encoding" \in HeaderNames /\ "Vary" \in HeaderNames
  BY KnownNames
<1>2. "gzip" \in Values /\ "Accept-Encoding" \in Values
  BY KnownValues
<1>3. <<"gzip">> \in Seq(Values) /\ <<"Accept-Encoding">> \in Seq(Values)
  BY <1>2
<1> QED
  BY <1>1, <1>3, NoHeaders DEF gzipHeaders, HeaderField

\* A compressed response has one encoding more and another body; only written
\* bytes are compressed, so it has still one body.
LEMMA CompressFields ==
  ASSUME NEW r, Good(r), r.reader = "none"
  PROVE  LET c == compress(r)
         IN /\ Good(c) /\ c.status = r.status /\ c.reader = r.reader /\ c.chunked = r.chunked
            /\ c.body = <<"gzip">> \o r.body
            /\ \A name \in HeaderNames : c.headers[name] = Sent(r)[name] \o gzipHeaders[name]
<1> DEFINE a == withoutHeader(r, "Content-Length")
           b == AddHeader(a, "Content-Encoding", "gzip")
           d == AddHeader(b, "Vary", "Accept-Encoding")
           c == [d EXCEPT !.body = <<"gzip">> \o d.body]
<1>0. /\ "Content-Encoding" \in HeaderNames /\ "Vary" \in HeaderNames
      /\ "gzip" \in Values /\ "Accept-Encoding" \in Values /\ "gzip" \in Units
  BY KnownNames, KnownValues
<1>1. /\ Good(a) /\ a.status = r.status /\ a.reader = r.reader /\ a.chunked = r.chunked
      /\ a.headers = Sent(r) /\ a.body = r.body
  BY SentHeaders, HeadersFields
<1> HIDE DEF a
<1>2. Changed(a, b, "Content-Encoding", Append(a.headers["Content-Encoding"], "gzip"))
  BY <1>0, <1>1, AddHeaderFields
<1> HIDE DEF b
<1>3. Good(b)
  BY <1>2 DEF Changed
<1>4. Changed(b, d, "Vary", Append(b.headers["Vary"], "Accept-Encoding"))
  BY <1>0, <1>3, AddHeaderFields
<1> HIDE DEF d
<1>5. /\ Good(d) /\ d.status = r.status /\ d.reader = r.reader /\ d.chunked = r.chunked
      /\ d.body = r.body
  BY <1>1, <1>2, <1>4 DEF Changed
<1>6. \A name \in HeaderNames : d.headers[name] = Sent(r)[name] \o gzipHeaders[name]
  <2> TAKE name \in HeaderNames
  <2>1. Sent(r)[name] \in Seq(Values)
    BY SentHeaders DEF HeaderField
  <2>2. CASE name = "Content-Encoding"
    <3>1. d.headers[name] = Append(Sent(r)[name], "gzip")
      BY <1>0, <1>1, <1>2, <1>4, <2>2 DEF Changed
    <3>2. gzipHeaders[name] = <<"gzip">>
      BY <2>2, GzipHeaders
    <3> QED
      BY <1>0, <2>1, <3>1, <3>2
  <2>3. CASE name = "Vary"
    <3>1. d.headers[name] = Append(Sent(r)[name], "Accept-Encoding")
      BY <1>0, <1>1, <1>2, <1>4, <2>3 DEF Changed
    <3>2. gzipHeaders[name] = <<"Accept-Encoding">>
      BY <2>3, GzipHeaders
    <3> QED
      BY <1>0, <2>1, <3>1, <3>2
  <2>4. CASE name \notin {"Content-Encoding", "Vary"}
    <3>1. d.headers[name] = Sent(r)[name]
      BY <1>1, <1>2, <1>4, <2>4 DEF Changed
    <3>2. gzipHeaders[name] = <<>>
      BY <2>4, GzipHeaders
    <3> QED
      BY <2>1, <3>1, <3>2
  <2> QED
    BY <2>2, <2>3, <2>4
<1>7. /\ Good(c) /\ c.status = d.status /\ c.reader = d.reader /\ c.chunked = d.chunked
      /\ c.headers = d.headers /\ c.body = <<"gzip">> \o d.body
  <2>1. <<"gzip">> \in Seq(Units) /\ d.body \in Seq(Units) /\ d.reader = "none"
    BY <1>0, <1>5 DEF Good, Writer
  <2>2. <<"gzip">> \o d.body \in Seq(Units)
    BY <2>1
  <2> DEFINE x == <<"gzip">> \o d.body
  <2> HIDE DEF x
  <2>3. c = [d EXCEPT !.body = x]
    BY DEF x
  <2>4. x \in Seq(Units)
    BY <2>2 DEF x
  <2> HIDE DEF c
  <2>5. c \in Writer /\ c.status = d.status /\ c.reader = d.reader /\ c.chunked = d.chunked
        /\ c.headers = d.headers /\ c.body = x /\ c.closer = d.closer
    BY <1>5, <2>3, <2>4 DEF Good, Writer
  <2>6. Good(c)
    BY <1>5, <2>1, <2>5 DEF Good
  <2> QED
    BY <2>5, <2>6 DEF x
<1>8. compress(r) = c
  BY Zenon DEF compress, a, b, d
<1> HIDE DEF c
<1> QED
  BY <1>5, <1>6, <1>7, <1>8

\* The response r has been replayed to the writer w, inside a logging writer.
Arrived(m, w, r) ==
  /\ GoodLog(m) /\ InStep(m)
  /\ m.w.status = r.status /\ m.w.reader = r.reader
  /\ m.w.body = r.body /\ m.w.chunked = r.chunked
  /\ m.w.headers = [name \in HeaderNames |-> w.headers[name] \o Sent(r)[name]]

\* A response with a status, replayed to a logging writer with none, arrives
\* as it is, with the two statuses and the number of bytes in step.
LEMMA ReplayFields ==
  ASSUME NEW l, GoodLog(l), l.status = 0, l.bytes = 0, l.w.status = 0, l.w.body = <<>>,
         l.w.reader = "none", ~l.w.chunked,
         NEW r, Good(r), r.status # 0
  PROVE  Arrived(writeBufferedResponse(l, r), l.w, r)
<1> DEFINE hs == [name \in HeaderNames |-> l.w.headers[name] \o Sent(r)[name]]
           a == replayHeaders(l.w, r)
           b == [a EXCEPT !.chunked = a.chunked \/ r.chunked]
           h == [l EXCEPT !.w = b]
           s == LogWriteHeader(h, r.status)
           m == writeBufferedResponse(l, r)
<1>1. m = IF r.reader # "none" THEN [s EXCEPT !.w = StreamBody(s.w, r.reader)]
                               ELSE LogWrite(s, r.body)
  BY DEF writeBufferedResponse
<1>2. Good(l.w) /\ hs \in HeaderField
  <2>1. Good(l.w) /\ l.w.headers \in HeaderField /\ Sent(r) \in HeaderField
    BY SentHeaders DEF GoodLog, Good, Writer
  <2> QED
    BY <2>1 DEF HeaderField
<1>3. a = [l.w EXCEPT !.headers = hs]
  <2> DEFINE own == withoutHeader(r, "Content-Length")
  <2>1. own.headers = Sent(r)
    BY SentHeaders, HeadersFields
  <2> HIDE DEF own
  <2>2. a = [l.w EXCEPT !.headers = [name \in HeaderNames |-> l.w.headers[name] \o own.headers[name]]]
    BY DEF replayHeaders, own
  <2> QED
    BY <2>1, <2>2
<1> HIDE DEF hs
<1>4. /\ Good(a) /\ a.headers = hs /\ a.status = 0 /\ a.body = <<>> /\ a.reader = "none"
      /\ ~a.chunked
  BY <1>2, <1>3, HeadersFields
<1> HIDE DEF a
<1>5. /\ Good(b) /\ b.headers = hs /\ b.status = 0 /\ b.body = <<>> /\ b.reader = "none"
      /\ b.chunked = r.chunked
  BY <1>4 DEF Good, Writer
<1> HIDE DEF b
<1>6. GoodLog(h) /\ h.w = b /\ h.status = 0 /\ h.bytes = 0
  BY <1>5, EmbedFields
<1> HIDE DEF h
<1>7. r.status \in Nat /\ r.body \in Seq(Units) /\ r.reader \in Readers
  BY DEF Good, Writer
<1>8. InStep(h)
  BY <1>5, <1>6 DEF InStep
<1>9. GoodLog(s) /\ s.w = WriteHeader(b, r.status) /\ s.status = r.status /\ s.bytes = 0
      /\ InStep(s)
  BY <1>6, <1>7, <1>8, LogWriteHeaderFields
<1>10. /\ Good(s.w) /\ s.w.status = r.status /\ s.w.headers = hs /\ s.w.body = <<>>
       /\ s.w.reader = "none" /\ s.w.chunked = r.chunked
  <2> DEFINE v == WriteHeader(b, r.status)
  <2>1. /\ Good(v) /\ v.status = r.status /\ v.headers = hs /\ v.body = <<>>
        /\ v.reader = "none" /\ v.chunked = r.chunked
    BY <1>5, <1>7, WriteHeaderFields
  <2>2. s.w = v
    BY <1>9
  <2> HIDE DEF v, s
  <2> QED
    BY <2>1, <2>2
<1> HIDE DEF s, m
<1>11. CASE r.reader # "none"
  <2> DEFINE v == StreamBody(s.w, r.reader)
  <2>1. /\ Good(v) /\ v.status = r.status /\ v.headers = hs /\ v.body = <<>>
        /\ v.reader = r.reader /\ v.chunked = r.chunked
    BY <1>7, <1>10, StreamBodyFields
  <2>2. m = [s EXCEPT !.w = v]
    BY <1>1, <1>11
  <2> HIDE DEF v
  <2>3. GoodLog(m) /\ m.w = v /\ m.status = s.status /\ m.bytes = s.bytes
    BY <1>9, <2>1, <2>2, EmbedFields
  <2>4. InStep(m)
    BY <1>9, <1>11, <2>1, <2>3 DEF InStep
  <2>5. r.body = <<>>
    BY <1>11 DEF Good
  <2> QED
    BY <2>1, <2>3, <2>4, <2>5 DEF Arrived, hs, m
<1>12. CASE r.reader = "none"
  <2>1. m = LogWrite(s, r.body)
    BY <1>1, <1>12
  <2>2. Even(s)
    BY <1>9, <1>10 DEF Even
  <2>3. GoodLog(m) /\ m.w = Write(s.w, r.body) /\ Even(m)
    BY <1>7, <1>9, <2>1, <2>2, LogWriteFields
  <2>4. <<>> \o r.body = r.body
    BY <1>7
  <2>5. /\ m.w.status = r.status /\ m.w.headers = hs /\ m.w.body = r.body
        /\ m.w.reader = "none" /\ m.w.chunked = r.chunked
    <3> DEFINE v == Write(s.w, r.body)
    <3>1. /\ v.status = IF s.w.status = 0 THEN 200 ELSE s.w.status
          /\ v.headers = s.w.headers /\ v.body = s.w.body \o r.body
          /\ v.reader = "none" /\ v.chunked = s.w.chunked
      BY <1>7, <1>10, WriteFields
    <3>2. m.w = v
      BY <2>3
    <3> HIDE DEF v
    <3> QED
      BY <1>10, <2>4, <3>1, <3>2
  <2> QED
    BY <1>12, <2>3, <2>5 DEF Arrived, Even, hs, m
<1> QED
  BY <1>11, <1>12


\* What is replayed has, outside of them, the headers of CORS.
LEMMA ReplayLayers ==
  ASSUME chain \in Chains, request \in Requests,
         NEW q, Good(q), Plain(q), shouldGzipResponse(q) => q.reader = "none",
         NEW r, r = IF shouldGzipResponse(q) THEN compress(q) ELSE q,
         NEW hs, hs = [name \in HeaderNames |-> Outer.headers[name] \o Sent(r)[name]]
  PROVE  /\ Good(r) /\ r.status = q.status /\ r.reader = q.reader /\ r.chunked = q.chunked
         /\ r.body = IF shouldGzipResponse(q) THEN <<"gzip">> \o q.body ELSE q.body
         /\ Layers(hs, Sent(q), shouldGzipResponse(q))
         /\ "gzip" \in Range(hs["Content-Encoding"]) <=> shouldGzipResponse(q)
<1> DEFINE out == Outer.headers
           own == Sent(q)
           sent == Sent(r)
           extra(name) == IF shouldGzipResponse(q) THEN gzipHeaders[name] ELSE <<>>
<1>1. /\ Good(r) /\ r.status = q.status /\ r.reader = q.reader /\ r.chunked = q.chunked
      /\ r.body = IF shouldGzipResponse(q) THEN <<"gzip">> \o q.body ELSE q.body
  BY CompressFields
<1>2. out \in HeaderField /\ out["Content-Encoding"] = <<>>
  BY OuterFields DEF Good, Writer
<1>3. own \in HeaderField /\ own["Content-Length"] = <<>>
      /\ \A name \in HeaderNames \ {"Content-Length"} : own[name] = q.headers[name]
  BY SentHeaders
<1>4. sent \in HeaderField /\ sent["Content-Length"] = <<>>
      /\ \A name \in HeaderNames \ {"Content-Length"} : sent[name] = r.headers[name]
  BY <1>1, SentHeaders
<1>5. hs = [name \in HeaderNames |-> out[name] \o sent[name]]
  OBVIOUS
<1>6. shouldGzipResponse(q) =>
        \A name \in HeaderNames : r.headers[name] = own[name] \o gzipHeaders[name]
  BY CompressFields
<1>7. ~shouldGzipResponse(q) => r.headers = q.headers
  OBVIOUS
<1>8. Plain(q)
  OBVIOUS
<1> HIDE DEF out, own, sent
<1>9. \A name \in HeaderNames :
        /\ out[name] \in Seq(Values) /\ own[name] \in Seq(Values)
        /\ gzipHeaders[name] \in Seq(Values)
  BY <1>2, <1>3, GzipHeaders DEF HeaderField
<1>10. \A name \in HeaderNames : sent[name] = own[name] \o extra(name)
  <2> TAKE name \in HeaderNames
  <2>1. own[name] \o <<>> = own[name]
    BY <1>9
  <2>2. CASE name = "Content-Length"
    <3>1. gzipHeaders[name] = <<>>
      BY <2>2, GzipHeaders, KnownNames
    <3> QED
      BY <1>3, <1>4, <2>1, <2>2, <3>1
  <2>3. CASE name # "Content-Length"
    BY <1>3, <1>4, <1>6, <1>7, <2>1, <2>3
  <2> QED
    BY <2>2, <2>3
<1>11. Layers(hs, own, shouldGzipResponse(q))
  <2>1. ASSUME NEW name \in HeaderNames
        PROVE  hs[name] = out[name] \o own[name] \o extra(name)
    <3>1. extra(name) \in Seq(Values)
      BY <1>9
    <3> DEFINE a == out[name]
               b == own[name]
               c == extra(name)
    <3>2. a \in Seq(Values) /\ b \in Seq(Values) /\ c \in Seq(Values)
      BY <1>9, <3>1
    <3>3. hs[name] = a \o (b \o c)
      BY <1>5, <1>10
    <3> HIDE DEF a, b, c, extra
    <3>4. a \o (b \o c) = (a \o b) \o c
      BY <3>2, ConcatAssociative
    <3> QED
      BY <3>3, <3>4 DEF a, b, c
  <2> QED
    BY <2>1 DEF Layers, out
<1>12. "gzip" \in Range(hs["Content-Encoding"]) <=> shouldGzipResponse(q)
  <2> DEFINE name == "Content-Encoding"
  <2>1. name \in HeaderNames /\ name # "Content-Length"
    BY KnownNames
  <2>2. own[name] \in Seq(Values) /\ "gzip" \notin Range(own[name])
    BY <1>3, <1>8, <1>9, <2>1 DEF Plain
  <2>3. hs[name] = <<>> \o (own[name] \o extra(name))
    BY <1>2, <1>5, <1>10, <2>1
  <2>4. CASE shouldGzipResponse(q)
    <3>1. extra(name) = <<"gzip">>
      BY <2>4, GzipHeaders
    <3>2. "gzip" \in Values
      BY KnownValues
    <3>3. <<"gzip">> \in Seq(Values) /\ "gzip" \in Range(<<"gzip">>)
      BY <3>2 DEF Range
    <3> DEFINE t == own[name]
               u == <<"gzip">>
    <3>6. t \in Seq(Values) /\ u \in Seq(Values)
      BY <2>2, <3>3
    <3> HIDE DEF t, u
    <3>7. t \o u \in Seq(Values) /\ Range(t \o u) = Range(t) \cup Range(u)
      BY <3>6, ConcatValues
    <3>4. t \o <<"gzip">> \in Seq(Values)
          /\ Range(t \o <<"gzip">>) = Range(t) \cup Range(<<"gzip">>)
      BY <3>7 DEF u
    <3>5. <<>> \o (t \o <<"gzip">>) = t \o <<"gzip">>
      BY <3>4
    <3> QED
      BY <2>3, <2>4, <3>1, <3>3, <3>4, <3>5 DEF t
  <2>5. CASE ~shouldGzipResponse(q)
    <3>1. <<>> \o (own[name] \o <<>>) = own[name]
      BY <2>2
    <3> QED
      BY <2>2, <2>3, <2>5, <3>1
  <2> QED
    BY <2>4, <2>5
<1> QED
  BY <1>1, <1>11, <1>12 DEF own

\* Headers in layers begin with those of CORS.
LEMMA LayersCors ==
  ASSUME chain \in Chains, request \in Requests, NEW hs, NEW own \in HeaderField,
         NEW zipped \in BOOLEAN, Layers(hs, own, zipped)
  PROVE  CorsSet(hs, own[ACAO])
<1> DEFINE extra(name) == IF zipped THEN gzipHeaders[name] ELSE <<>>
<1>1. {ACAO, ACAC, "Vary"} \subseteq HeaderNames /\ ACAO # "Vary" /\ ACAO # "Content-Encoding"
  BY KnownNames DEF ACAO
<1>2. Good(Outer)
  BY OuterFields
<1>3. \A name \in HeaderNames :
        /\ Outer.headers[name] \in Seq(Values) /\ own[name] \in Seq(Values)
        /\ extra(name) \in Seq(Values)
        /\ hs[name] = Outer.headers[name] \o own[name] \o extra(name)
  <2> TAKE name \in HeaderNames
  <2>1. Outer.headers[name] \in Seq(Values) /\ own[name] \in Seq(Values)
    BY <1>2 DEF HeaderField, Good, Writer
  <2>2. gzipHeaders[name] \in Seq(Values) /\ <<>> \in Seq(Values)
    BY GzipHeaders DEF HeaderField
  <2>3. extra(name) \in Seq(Values)
    BY <2>2
  <2>4. hs[name] = Outer.headers[name] \o own[name] \o extra(name)
    BY DEF Layers
  <2> QED
    BY <2>1, <2>3, <2>4
<1>4. extra(ACAO) = <<>>
  BY <1>1, GzipHeaders
<1> HIDE DEF extra
<1>5. hs[ACAO] = Outer.headers[ACAO] \o own[ACAO]
  <2>1. Outer.headers[ACAO] \in Seq(Values) /\ own[ACAO] \in Seq(Values)
        /\ hs[ACAO] = Outer.headers[ACAO] \o own[ACAO] \o <<>>
    BY <1>1, <1>3, <1>4
  <2> QED
    BY <2>1
<1>6. CASE ~Permitted
  <2>1. Outer.headers[ACAO] = <<>> /\ own[ACAO] \in Seq(Values)
    BY <1>1, <1>3, <1>6, OuterFields
  <2>2. <<>> \o own[ACAO] = own[ACAO]
    BY <2>1
  <2> QED
    BY <1>5, <1>6, <2>1, <2>2 DEF CorsSet
<1>7. CASE Permitted
  <2>1. /\ \/ /\ Outer.headers[ACAO] = <<request.origin>>
              /\ Outer.headers["Vary"] = <<"Origin">>
           \/ /\ Outer.headers[ACAO] = <<"*">> /\ ~chain.credentials
              /\ "*" \in Range(chain.cors)
        /\ chain.credentials => Outer.headers[ACAC] = <<"true">>
    BY <1>7, OuterFields
  <2>2. Outer.headers["Vary"] = <<"Origin">> => "Origin" \in Range(hs["Vary"])
    <3> HAVE Outer.headers["Vary"] = <<"Origin">>
    <3>1. own["Vary"] \in Seq(Values) /\ extra("Vary") \in Seq(Values)
          /\ hs["Vary"] = <<"Origin">> \o own["Vary"] \o extra("Vary")
      BY <1>1, <1>3
    <3>2. 1 \in DOMAIN hs["Vary"] /\ hs["Vary"][1] = "Origin"
      BY <3>1
    <3> QED
      BY <3>2 DEF Range
  <2>3. chain.credentials => hs[ACAC][1] = "true"
    <3> HAVE chain.credentials
    <3>1. own[ACAC] \in Seq(Values) /\ extra(ACAC) \in Seq(Values)
          /\ hs[ACAC] = <<"true">> \o own[ACAC] \o extra(ACAC)
      BY <1>1, <1>3, <2>1
    <3> QED
      BY <3>1
  <2> QED
    BY <1>5, <1>7, <2>1, <2>2, <2>3 DEF CorsSet
<1> QED
  BY <1>6, <1>7

\* What the compression buffers is replayed.
LEMMA ReplayKeeps ==
  ASSUME AllInv, Replay
  PROVE  AllInv'
<1> DEFINE q == Response(buffer)
           r == IF shouldGzipResponse(q) THEN compress(q) ELSE q
           m == writeBufferedResponse(recorder, r)
           hs == [name \in HeaderNames |-> Outer.headers[name] \o Sent(r)[name]]
<1>1. /\ stage = "replay" /\ stage' = "log" /\ recorder' = m
      /\ UNCHANGED <<input, calls, buffer, panicked, bypassed, logged, response>>
  BY DEF Replay
<1>2. /\ chain.gzip /\ ~Preflight /\ Untouched /\ GoodLog(recorder) /\ Good(buffer)
      /\ Plain(buffer) /\ chain \in Chains /\ request \in Requests
  BY <1>1 DEF AllInv, WriterInv, RefusalInv
<1>3. /\ Good(q) /\ q.status = (IF buffer.status = 0 THEN 200 ELSE buffer.status)
      /\ q.headers = buffer.headers /\ q.body = buffer.body /\ q.reader = buffer.reader
      /\ q.chunked = buffer.chunked
  BY <1>2, ResponseFields
<1>4. Plain(q) /\ q.status # 0
  BY <1>2, <1>3 DEF Plain
<1>5. q = Response(buffer)
  OBVIOUS
<1> HIDE DEF q
<1>6. shouldGzipResponse(q) =>
        q.reader = "none" /\ request.accepts /\ ~hasHeader(q, "Content-Encoding")
  BY <1>3 DEF shouldGzipResponse, Good
<1>7. /\ Good(r) /\ r.status = q.status /\ r.reader = q.reader /\ r.chunked = q.chunked
      /\ r.body = (IF shouldGzipResponse(q) THEN <<"gzip">> \o q.body ELSE q.body)
      /\ Layers(hs, Sent(q), shouldGzipResponse(q))
      /\ "gzip" \in Range(hs["Content-Encoding"]) <=> shouldGzipResponse(q)
  BY <1>2, <1>3, <1>4, <1>6, ReplayLayers
<1>8. /\ recorder.w = Outer /\ recorder.status = 0 /\ recorder.bytes = 0
      /\ recorder.w.status = 0 /\ recorder.w.body = <<>> /\ recorder.w.reader = "none"
      /\ ~recorder.w.chunked
  BY <1>2, OuterFields DEF Untouched
<1> HIDE DEF r
<1>18. GoodLog(recorder) /\ Good(r) /\ r.status # 0
  BY <1>2, <1>4, <1>7
<1>19. Arrived(m, recorder.w, r)
  BY <1>8, <1>18, ReplayFields
<1>9. /\ GoodLog(m) /\ InStep(m)
      /\ m.w.status = r.status /\ m.w.reader = r.reader
      /\ m.w.body = r.body /\ m.w.chunked = r.chunked
      /\ m.w.headers = [name \in HeaderNames |-> recorder.w.headers[name] \o Sent(r)[name]]
  BY <1>19, Zenon DEF Arrived
<1>10. m.w.headers = hs
  BY <1>8, <1>9
<1> HIDE DEF m, hs
<1>11. Plain(m.w) <=> ~shouldGzipResponse(q)
  BY <1>7, <1>10 DEF Plain
<1>12. WriterInv'
  BY <1>1, <1>2, <1>9, InputsKept DEF AllInv, WriterInv, Stages, Inside
<1>13. RefusalInv' /\ PanicInv'
  BY <1>1, <1>2, InputsKept DEF AllInv, RefusalInv, PanicInv, Inside
<1>14. Replayed(m.w)
  <2>1. Layers(m.w.headers, Sent(q), ~Plain(m.w))
    BY <1>7, <1>10, <1>11 DEF Layers
  <2>2. /\ m.w.status = q.status /\ m.w.reader = q.reader /\ m.w.chunked = q.chunked
        /\ ~Plain(m.w) => request.accepts /\ ~hasHeader(q, "Content-Encoding")
                           /\ q.reader = "none"
        /\ m.w.body = IF Plain(m.w) THEN q.body ELSE <<"gzip">> \o q.body
    BY <1>6, <1>7, <1>9, <1>11
  <2> QED
    BY <1>5, <2>1, <2>2 DEF Replayed
<1>15. ReplayInv'
  BY <1>1, <1>14, InputsKept DEF ReplayInv, Replayed, Layers
<1>16. LogInv'
  BY <1>1, <1>2, <1>9, InputsKept DEF LogInv
<1>17. CorsInv'
  <2>1. Sent(q) \in HeaderField /\ Sent(q)[ACAO] = buffer.headers[ACAO]
    BY <1>3, SentHeaders, KnownNames DEF ACAO
  <2>2. CorsSet(hs, Sent(q)[ACAO])
    <3>1. shouldGzipResponse(q) \in BOOLEAN
      BY DEF shouldGzipResponse
    <3> QED
      BY <1>2, <1>7, <2>1, <3>1, LayersCors
  <2> QED
    BY <1>1, <1>10, <2>1, <2>2, InputsKept DEF CorsInv, CorsSet
<1> QED
  BY <1>12, <1>13, <1>15, <1>16, <1>17 DEF AllInv

-----------------------------------------------------------------------------
(* The CORS middleware.                                                    *)

\* CORS lets the request pass, with or without headers set, or answers the preflight.
LEMMA CORSKeeps ==
  ASSUME AllInv, CORS
  PROVE  AllInv'
<1> DEFINE l == [recorder EXCEPT !.w = writeCORSActualHeaders(recorder.w, corsAllowedOrigin)]
           spoken == [w |-> Outer, status |-> 0, bytes |-> 0]
<1>1. /\ stage = "cors" /\ chain \in Chains /\ request \in Requests
      /\ UNCHANGED <<input, calls, buffer, panicked, bypassed, logged, response>>
      /\ recorder = newRecorder /\ buffer = newBufferedResponseWriter
  BY DEF CORS, AllInv, WriterInv
<1>2. Permitted <=> request.origin # "" /\ corsAllowedOrigin # ""
  BY <1>1, AllowedOrigin
<1>3. /\ Good(Outer) /\ Outer.status = 0 /\ Outer.body = <<>> /\ Outer.reader = "none"
      /\ Plain(Outer)
  BY <1>1, OuterFields
<1>4. ~panicked /\ ~panicked'
  BY <1>1 DEF AllInv, PanicInv
<1>5. GoodLog(spoken) /\ Even(spoken) /\ Plain(spoken.w)
  BY <1>3 DEF GoodLog, Good, Even, InStep
<1>6. Permitted => l = spoken
  BY <1>1 DEF Outer, newRecorder
<1>7. ~Permitted => recorder = spoken
  BY <1>1 DEF Outer, newRecorder
<1>8. ASSUME stage' = "auth", ~Preflight, recorder' = spoken
      PROVE  AllInv'
  <2>1. Untouched'
    BY <1>1, <1>8, InputsKept DEF Untouched
  <2> HIDE DEF spoken
  <2>2. WriterInv'
    BY <1>1, <1>5, <1>8, <2>1, InputsKept DEF AllInv, WriterInv, Stages, Inside
  <2>3. RefusalInv' /\ PanicInv' /\ ReplayInv' /\ CorsInv'
    BY <1>1, <1>4, <1>8, InputsKept
       DEF AllInv, RefusalInv, PanicInv, ReplayInv, CorsInv, Inside
  <2>4. LogInv'
    BY <1>1, <1>5, <1>8 DEF LogInv
  <2> QED
    BY <2>2, <2>3, <2>4 DEF AllInv
<1>9. CASE ~Permitted
  <2>1. stage' = "auth" /\ UNCHANGED recorder
    <3>1. request.origin = "" \/ corsAllowedOrigin = ""
      BY <1>2, <1>9
    <3> QED
      BY <3>1 DEF CORS
  <2>2. ~Preflight
    BY <1>9 DEF Preflight
  <2> QED
    BY <1>7, <1>8, <1>9, <2>1, <2>2
<1>10. CASE Permitted
  <2>1. IF request.preflight
        THEN LET m == [l EXCEPT !.w = SetHeader(l.w, "Access-Control-Allow-Methods", "cors")]
             IN recorder' = LogWriteHeader(m, 204) /\ stage' = "log"
        ELSE recorder' = l /\ stage' = "auth"
    BY <1>2, <1>10 DEF CORS
  <2> HIDE DEF l
  <2>2. CASE ~request.preflight
    <3>1. ~Preflight
      BY <2>2 DEF Preflight
    <3> QED
      BY <1>6, <1>8, <1>10, <2>1, <2>2, <3>1
  <2>3. CASE request.preflight
    <3> DEFINE name == "Access-Control-Allow-Methods"
               u == SetHeader(Outer, name, "cors")
               m == [spoken EXCEPT !.w = u]
               x == WriteHeader(u, 204)
    <3>1. stage' = "log" /\ recorder' = LogWriteHeader(m, 204)
      BY <1>6, <1>10, <2>1, <2>3
    <3>2. Preflight /\ Preflight'
      BY <1>1, <1>10, <2>3, InputsKept DEF Preflight
    <3>3. name \in HeaderNames /\ "cors" \in Values
      BY KnownNames, KnownValues
    <3>4. Changed(Outer, u, name, Replaced(Outer.headers[name], "cors"))
      BY <1>3, <3>3, SetHeaderFields
    <3> HIDE DEF u
    <3>5. /\ Good(u) /\ u.status = 0 /\ u.body = <<>> /\ u.reader = "none"
          /\ \A other \in HeaderNames \ {name} : u.headers[other] = Outer.headers[other]
      BY <1>3, <3>4 DEF Changed
    <3>6. GoodLog(m) /\ m.w = u /\ m.status = 0 /\ m.bytes = 0
      BY <1>5, <3>5, EmbedFields
    <3> HIDE DEF m, spoken
    <3>7. InStep(m)
      BY <3>5, <3>6 DEF InStep
    <3>8. GoodLog(recorder') /\ recorder'.w = x /\ InStep(recorder')
      BY <3>1, <3>6, <3>7, LogWriteHeaderFields
    <3>9. /\ x.status = 204 /\ x.headers = u.headers /\ x.body = <<>> /\ x.reader = "none"
      <4>1. /\ x.status = (IF u.status = 0 THEN 204 ELSE u.status)
            /\ x.headers = u.headers /\ x.body = u.body /\ x.reader = u.reader
        <5>1. Good(u) /\ 204 \in Nat
          BY <3>5
        <5> QED
          BY <5>1, WriteHeaderFields
      <4> HIDE DEF x
      <4> QED
        BY <3>5, <4>1
    <3> HIDE DEF x
    <3>10. Plain(x)
      <4>1. x.headers["Content-Encoding"] = Outer.headers["Content-Encoding"]
        BY <3>5, <3>9, KnownNames
      <4> QED
        BY <1>3, <4>1 DEF Plain
    <3>11. CorsSet(x.headers, <<>>)
      <4>1. /\ x.headers[ACAO] = Outer.headers[ACAO] /\ x.headers[ACAC] = Outer.headers[ACAC]
            /\ x.headers["Vary"] = Outer.headers["Vary"]
        BY <3>5, <3>9, KnownNames DEF ACAO, ACAC
      <4>2. request.origin \in Values /\ "*" \in Values
        BY <1>1, KnownValues
      <4>3. <<request.origin>> \o <<>> = <<request.origin>> /\ <<"*">> \o <<>> = <<"*">>
        BY <4>2
      <4>4. "Origin" \in Range(<<"Origin">>) /\ <<"true">>[1] = "true"
        BY DEF Range
      <4> QED
        BY <1>1, <1>10, <4>1, <4>3, <4>4, OuterFields DEF CorsSet
    <3>12. WriterInv'
      BY <1>1, <3>1, <3>8, <3>10, InputsKept DEF AllInv, WriterInv, Stages, Inside
    <3>13. RefusalInv' /\ PanicInv' /\ ReplayInv'
      BY <1>1, <1>4, <3>1, <3>2, <3>8, <3>9, <3>10, InputsKept
         DEF AllInv, RefusalInv, PanicInv, ReplayInv, Inside
    <3>14. LogInv'
      BY <3>1, <3>8, <3>9 DEF LogInv, Even
    <3>15. CorsInv'
      <4>1. buffer'.headers[ACAO] = <<>>
        BY <1>1, EmptyWriter, NoHeaders, KnownNames DEF ACAO
      <4>2. CorsSet(recorder'.w.headers, buffer'.headers[ACAO])
        <5>1. recorder'.w.headers = x.headers
          BY <3>8
        <5> QED
          BY <3>11, <4>1, <5>1, Zenon
      <4>3. CorsSet(recorder.w.headers, buffer.headers[ACAO])'
        BY <1>1, <4>2, InputsKept DEF CorsSet
      <4> QED
        BY <4>3 DEF CorsInv
    <3> QED
      BY <3>12, <3>13, <3>14, <3>15 DEF AllInv
  <2> QED
    BY <2>2, <2>3
<1> QED
  BY <1>9, <1>10

-----------------------------------------------------------------------------
(* The response.                                                           *)

\* What responseForRequest takes is what the recorder embeds, with the request
\* ID and a status.
Taken ==
  /\ Good(response')
  /\ response'.status = (IF recorder.w.status = 0 THEN 200 ELSE recorder.w.status)
  /\ response'.body = recorder.w.body /\ response'.reader = recorder.w.reader
  /\ response'.chunked = recorder.w.chunked
  /\ response'.headers["X-Request-ID"][1] = "id"
  /\ \A name \in HeaderNames \ {"X-Request-ID"} :
       response'.headers[name] = recorder.w.headers[name]

\* What Respond takes.
LEMMA RespondResult ==
  ASSUME WriterInv, Respond
  PROVE  /\ Taken /\ GoodLog(recorder')
         /\ stage = "respond" /\ stage' = "done"
         /\ UNCHANGED <<input, calls, buffer, panicked, bypassed, logged>>
<1> DEFINE name == "X-Request-ID"
           x == SetHeader(recorder.w, name, "id")
<1>1. /\ stage = "respond" /\ stage' = "done"
      /\ UNCHANGED <<input, calls, buffer, panicked, bypassed, logged>>
      /\ recorder' = [recorder EXCEPT !.w = x] /\ response' = Response(recorder'.w)
  BY DEF Respond
<1>2. GoodLog(recorder) /\ Good(recorder.w)
  BY DEF WriterInv, GoodLog
<1>3. name \in HeaderNames /\ "id" \in Values
  BY KnownNames, KnownValues
<1>4. Changed(recorder.w, x, name, Replaced(recorder.w.headers[name], "id"))
  BY <1>2, <1>3, SetHeaderFields
<1>5. Replaced(recorder.w.headers[name], "id")[1] = "id"
  <2>1. recorder.w.headers[name] \in Seq(Values)
    BY <1>2, <1>3 DEF Good, Writer, HeaderField
  <2> QED
    BY <1>3, <2>1, ReplacedValues
<1> HIDE DEF x
<1>6. Good(x)
  BY <1>4 DEF Changed
<1>7. GoodLog(recorder') /\ recorder'.w = x
  BY <1>1, <1>2, <1>6, EmbedFields
<1>8. response' = Response(x)
  BY <1>1, <1>7
<1>9. /\ Good(response') /\ response'.status = (IF x.status = 0 THEN 200 ELSE x.status)
      /\ response'.headers = x.headers /\ response'.body = x.body
      /\ response'.reader = x.reader /\ response'.chunked = x.chunked
  BY <1>6, <1>8, ResponseFields
<1>10. Taken
  BY <1>4, <1>5, <1>9 DEF Taken, Changed
<1> QED
  BY <1>1, <1>7, <1>10

\* Respond keeps the invariant.
LEMMA RespondKeeps ==
  ASSUME AllInv, Respond
  PROVE  AllInv'
<1>1. /\ Good(response') /\ GoodLog(recorder') /\ stage' = "done"
      /\ UNCHANGED <<input, calls, buffer, panicked, bypassed, logged>> /\ stage = "respond"
  BY RespondResult DEF AllInv, Taken
<1>2. WriterInv'
  BY <1>1, InputsKept DEF AllInv, WriterInv, Stages, Inside
<1>3. RefusalInv' /\ PanicInv' /\ ReplayInv' /\ LogInv' /\ CorsInv'
  BY <1>1, InputsKept DEF AllInv, RefusalInv, PanicInv, ReplayInv, LogInv, CorsInv, Inside
<1> QED
  BY <1>2, <1>3 DEF AllInv

\* Compression is announced in the response if it is in what was taken, and
\* the client undoes it.
LEMMA Announced ==
  ASSUME Taken
  PROVE  /\ Zipped' <=> ~Plain(recorder.w)
         /\ Plain(recorder.w) => Decoded' = recorder.w.body
         /\ ~Plain(recorder.w) => Decoded' = Tail(recorder.w.body)
<1>1. response'.headers["Content-Encoding"] = recorder.w.headers["Content-Encoding"]
  BY KnownNames DEF Taken
<1>2. Zipped' <=> ~Plain(recorder.w)
  BY <1>1 DEF Zipped, Plain
<1> QED
  BY <1>2 DEF Taken, Decoded

\* The body of a handler's response, compressed or not, as the client reads it.
LEMMA BodyDecoded ==
  ASSUME Taken, NEW body \in Seq(Units),
         recorder.w.body = IF Plain(recorder.w) THEN body ELSE <<"gzip">> \o body
  PROVE  Decoded' = body
<1>1. "gzip" \in Units
  BY KnownValues
<1>2. Tail(<<"gzip">> \o body) = body
  BY <1>1
<1> QED
  BY <1>2, Announced

\* The response taken has the headers of the handler in layers around them.
Wrapped(own) ==
  /\ \A name \in HeaderNames \ {"X-Request-ID"} :
       response'.headers[name] =
         (IF chain.gzip THEN Outer.headers[name] ELSE <<>>)
           \o own[name] \o (IF ~Plain(recorder.w) THEN gzipHeaders[name] ELSE <<>>)
  /\ response'.headers["X-Request-ID"][1] = "id"

\* With compression the layers are those of the replay, without it there are none.
LEMMA TakenWraps ==
  ASSUME Taken, NEW own \in HeaderField,
         \/ chain.gzip /\ Layers(recorder.w.headers, own, ~Plain(recorder.w))
         \/ ~chain.gzip /\ recorder.w.headers = own /\ Plain(recorder.w)
  PROVE  Wrapped(own)
<1>1. CASE chain.gzip
  <2>1. Layers(recorder.w.headers, own, ~Plain(recorder.w))
    BY <1>1
  <2> QED
    BY <1>1, <2>1, Zenon DEF Wrapped, Layers, Taken
<1>2. CASE ~chain.gzip
  <2>1. ASSUME NEW name \in HeaderNames \ {"X-Request-ID"}
        PROVE  response'.headers[name] = <<>> \o own[name] \o <<>>
    <3>1. own[name] \in Seq(Values)
      BY DEF HeaderField
    <3>2. <<>> \o own[name] \o <<>> = own[name]
      BY <3>1
    <3> QED
      BY <1>2, <3>2 DEF Taken
  <2> QED
    BY <1>2, <2>1 DEF Wrapped, Taken
<1> QED
  BY <1>1, <1>2

\* Headers with the same values of every name are the same.
LEMMA SameHeaders ==
  ASSUME NEW f \in HeaderField, NEW g \in HeaderField,
         \A name \in HeaderNames : f[name] = g[name]
  PROVE  f = g
BY DEF HeaderField

\* The response after a panic.
LEMMA RespondPanic ==
  ASSUME AllInv, Respond
  PROVE  PanicIs500'
<1> USE DEF AllInv
<1>1. /\ Taken /\ stage = "respond"
      /\ UNCHANGED <<input, calls, buffer, panicked, bypassed, logged>>
  BY RespondResult
<1> SUFFICES ASSUME panicked
             PROVE  PanicIs500'
  BY <1>1 DEF PanicIs500
<1>2. ~Preflight
  BY DEF RefusalInv
<1>3. /\ RecoveryHeaders \in HeaderField /\ RecoveryHeaders["Content-Length"] = <<>>
      /\ <<"recovery">> \in Seq(Units)
  <2>1. /\ "recovery" \in Values /\ "recovery" \in Units
        /\ {"Content-Type", "Content-Length"} \subseteq HeaderNames
    BY KnownNames, KnownValues
  <2>2. <<"recovery">> \in Seq(Values) /\ <<"recovery">> \in Seq(Units)
    BY <2>1
  <2> QED
    BY <2>1, <2>2, NoHeaders DEF RecoveryHeaders, HeaderField
<1>4. /\ recorder.w.status = 500 /\ recorder.w.reader = "none" /\ ~recorder.w.chunked
      /\ Decoded' = <<"recovery">> /\ Wrapped(RecoveryHeaders)
  <2>1. CASE chain.gzip
    <3> DEFINE r == Response(buffer)
    <3>1. Recovered(buffer) /\ Replayed(recorder.w) /\ Good(buffer)
      BY <1>1, <1>2, <2>1 DEF PanicInv, ReplayInv, WriterInv
    <3>2. /\ Good(r) /\ r.status = 500 /\ r.body = <<"recovery">> /\ r.reader = "none"
          /\ ~r.chunked /\ r.headers = RecoveryHeaders
      BY <3>1, ResponseFields DEF Recovered
    <3>3. /\ recorder.w.status = r.status /\ recorder.w.reader = r.reader
          /\ recorder.w.chunked = r.chunked
          /\ recorder.w.body = IF Plain(recorder.w) THEN r.body ELSE <<"gzip">> \o r.body
          /\ Layers(recorder.w.headers, Sent(r), ~Plain(recorder.w))
      BY <3>1 DEF Replayed
    <3> HIDE DEF r
    <3>4. Sent(r) = RecoveryHeaders
      <4>1. /\ Sent(r) \in HeaderField /\ Sent(r)["Content-Length"] = <<>>
            /\ \A name \in HeaderNames \ {"Content-Length"} : Sent(r)[name] = RecoveryHeaders[name]
        BY <3>2, SentHeaders
      <4>2. \A name \in HeaderNames : Sent(r)[name] = RecoveryHeaders[name]
        BY <1>3, <4>1
      <4> QED
        BY <1>3, <4>1, <4>2, SameHeaders
    <3>5. Layers(recorder.w.headers, RecoveryHeaders, ~Plain(recorder.w))
      BY <3>3, <3>4, Zenon
    <3>6. Wrapped(RecoveryHeaders)
      BY <1>1, <1>3, <2>1, <3>5, TakenWraps
    <3>7. Decoded' = <<"recovery">>
      BY <1>1, <1>3, <3>2, <3>3, BodyDecoded
    <3> QED
      BY <3>2, <3>3, <3>6, <3>7
  <2>2. CASE ~chain.gzip
    <3>1. Recovered(recorder.w) /\ Plain(recorder.w)
      BY <1>1, <2>2 DEF PanicInv, WriterInv
    <3>2. Wrapped(RecoveryHeaders)
      BY <1>1, <1>3, <2>2, <3>1, TakenWraps DEF Recovered
    <3> QED
      BY <1>1, <3>1, <3>2, Announced DEF Recovered
  <2> QED
    BY <2>1, <2>2
<1>5. Wraps(RecoveryHeaders)'
  <2>1. chain' = chain /\ Outer' = Outer /\ (Zipped' <=> ~Plain(recorder.w))
    BY <1>1, InputsKept, Announced
  <2>2. ASSUME NEW name \in HeaderNames \ {"X-Request-ID"}
        PROVE  response'.headers[name] =
                 (IF chain'.gzip THEN Outer'.headers[name] ELSE <<>>)
                   \o RecoveryHeaders[name]
                   \o (IF Zipped' THEN gzipHeaders[name] ELSE <<>>)
    <3>1. response'.headers[name] =
            (IF chain.gzip THEN Outer.headers[name] ELSE <<>>)
              \o RecoveryHeaders[name]
              \o (IF ~Plain(recorder.w) THEN gzipHeaders[name] ELSE <<>>)
      BY <1>4, Zenon DEF Wrapped
    <3>2. chain'.gzip = chain.gzip /\ Outer'.headers[name] = Outer.headers[name]
      BY <2>1, Zenon
    <3>3. (IF Zipped' THEN gzipHeaders[name] ELSE <<>>)
            = (IF ~Plain(recorder.w) THEN gzipHeaders[name] ELSE <<>>)
      BY <2>1, Zenon
    <3> QED
      BY <3>1, <3>2, <3>3, Zenon
  <2>3. response'.headers["X-Request-ID"][1] = "id"
    BY <1>4, Zenon DEF Wrapped
  <2> QED
    BY <2>2, <2>3, Zenon DEF Wraps
<1>6. response'.status = 500 /\ response'.reader = "none" /\ ~response'.chunked
  BY <1>1, <1>4 DEF Taken
<1> QED
  BY <1>4, <1>5, <1>6 DEF PanicIs500, RecoveryHeaders

\* The response and the log line.
LEMMA RespondLogged ==
  ASSUME AllInv, Respond
  PROVE  LoggedIsSent'
<1> USE DEF AllInv
<1>1. /\ Taken /\ stage = "respond"
      /\ UNCHANGED <<input, calls, buffer, panicked, bypassed, logged>>
  BY RespondResult
<1>2. logged.status = StatusCode(recorder) /\ logged.bytes = recorder.bytes
  BY <1>1 DEF LogInv
<1> SUFFICES ASSUME chain.gzip \/ panicked \/ ~bypassed
             PROVE  /\ logged.status = response'.status
                    /\ logged.bytes = Len(response'.body)
                    /\ response'.reader # "none" => Len(response'.body) = 0
  BY <1>1, InputsKept DEF LoggedIsSent, BodySent
<1>3. InStep(recorder)
  BY <1>1 DEF LogInv, Even
<1>4. response'.reader # "none" => Len(response'.body) = 0
  BY <1>1 DEF Taken, Good
<1> QED
  BY <1>1, <1>2, <1>3, <1>4 DEF Taken, InStep, StatusCode

\* Writers that agree on status, reader and chunking agree on everything but
\* headers and body: the closer goes with the reader.
LEMMA SameBut ==
  ASSUME NEW v, Good(v), NEW w, Good(w),
         v.status = w.status, v.reader = w.reader, v.chunked = w.chunked
  PROVE  [v EXCEPT !.headers = noHeaders, !.body = <<>>]
           = [w EXCEPT !.headers = noHeaders, !.body = <<>>]
<1>1. v.closer = w.closer
  BY DEF Good
<1> QED
  BY <1>1 DEF Good, Writer

\* The response and the buffer of the compression.
LEMMA RespondReplayed ==
  ASSUME AllInv, Respond
  PROVE  ReplayFaithful'
<1> USE DEF AllInv
<1>1. /\ Taken /\ stage = "respond"
      /\ UNCHANGED <<input, calls, buffer, panicked, bypassed, logged>>
  BY RespondResult
<1> DEFINE r == Response(buffer)
<1> SUFFICES
      ASSUME chain.gzip, ~Preflight
      PROVE  /\ [response' EXCEPT !.headers = noHeaders, !.body = <<>>]
                   = [r EXCEPT !.headers = noHeaders, !.body = <<>>]
             /\ Decoded' = r.body
             /\ Wraps(Sent(r))'
             /\ Zipped' => request.accepts /\ ~hasHeader(r, "Content-Encoding")
  <2>1. (Preflight' <=> Preflight) /\ chain' = chain
        /\ request' = request /\ Response(buffer') = r
    BY <1>1, InputsKept
  <2> QED
    BY <2>1 DEF ReplayFaithful, Sent
<1>2. Good(buffer) /\ Replayed(recorder.w)
  BY <1>1 DEF WriterInv, ReplayInv
<1>3. /\ Good(r) /\ r.status = (IF buffer.status = 0 THEN 200 ELSE buffer.status)
      /\ r.body \in Seq(Units) /\ Sent(r) \in HeaderField
  <2>1. Good(r) /\ r.status = (IF buffer.status = 0 THEN 200 ELSE buffer.status)
    BY <1>2, ResponseFields
  <2> HIDE DEF r
  <2> QED
    BY <2>1, SentHeaders DEF Good, Writer
<1>4. /\ recorder.w.status = r.status /\ recorder.w.reader = r.reader
      /\ recorder.w.chunked = r.chunked
      /\ ~Plain(recorder.w) => request.accepts /\ ~hasHeader(r, "Content-Encoding")
      /\ recorder.w.body = (IF Plain(recorder.w) THEN r.body ELSE <<"gzip">> \o r.body)
      /\ Layers(recorder.w.headers, Sent(r), ~Plain(recorder.w))
  BY <1>2 DEF Replayed
<1>5. Sent(r)' = Sent(r)
  BY <1>1 DEF Sent
<1> HIDE DEF r
<1>6. Decoded' = r.body
  BY <1>1, <1>3, <1>4, BodyDecoded
<1>7. [response' EXCEPT !.headers = noHeaders, !.body = <<>>]
        = [r EXCEPT !.headers = noHeaders, !.body = <<>>]
  <2>1. Good(response') /\ response'.status = r.status /\ response'.reader = r.reader
        /\ response'.chunked = r.chunked
    <3>1. r.status # 0
      BY <1>3
    <3> QED
      BY <1>1, <1>4, <3>1 DEF Taken
  <2> QED
    BY <1>3, <2>1, SameBut
<1>8. Wrapped(Sent(r))
  BY <1>1, <1>3, <1>4, TakenWraps
<1>9. Wraps(Sent(r))'
  BY <1>1, <1>5, <1>8, InputsKept, Announced DEF Wraps, Wrapped
<1> QED
  BY <1>1, <1>4, <1>6, <1>7, <1>9, Announced

\* The response and the origin.
LEMMA RespondCors ==
  ASSUME AllInv, Respond
  PROVE  CorsOnEveryAnswer'
<1> USE DEF AllInv
<1>1. /\ Taken /\ stage = "respond"
      /\ UNCHANGED <<input, calls, buffer, panicked, bypassed, logged>>
  BY RespondResult
<1> SUFFICES ASSUME chain.gzip
             PROVE  CorsOnEveryAnswer'
  BY <1>1, InputsKept DEF CorsOnEveryAnswer
<1>2. CorsSet(response'.headers, buffer.headers[ACAO])
  <2>1. CorsSet(recorder.w.headers, buffer.headers[ACAO])
    BY <1>1 DEF CorsInv
  <2>2. /\ response'.headers[ACAO] = recorder.w.headers[ACAO]
        /\ response'.headers[ACAC] = recorder.w.headers[ACAC]
        /\ response'.headers["Vary"] = recorder.w.headers["Vary"]
    BY <1>1, KnownNames DEF Taken, ACAO, ACAC
  <2> QED
    BY <2>1, <2>2 DEF CorsSet
<1>3. calls = 0 \/ panicked => buffer.headers[ACAO] = <<>>
  <2>1. calls = 0 => buffer.headers[ACAO] = <<>>
    BY DEF WriterInv
  <2>2. panicked => buffer.headers = RecoveryHeaders
    BY DEF PanicInv, Recovered
  <2>3. RecoveryHeaders[ACAO] = <<>>
    BY NoHeaders, KnownNames DEF RecoveryHeaders, noHeaders, ACAO
  <2> QED
    BY <2>1, <2>2, <2>3
<1>4. CorsOnEveryAnswer' <=>
        (stage' = "done" /\ chain'.gzip =>
           /\ calls' = 0 \/ panicked' => buffer'.headers[ACAO] = <<>>
           /\ CorsSet(response'.headers, buffer'.headers[ACAO]))
  BY <1>1, InputsKept DEF CorsOnEveryAnswer, CorsSet, ACAO, ACAC
<1> QED
  BY <1>1, <1>2, <1>3, <1>4, InputsKept

\* The response to a request that was not let through.
LEMMA RespondRefusal ==
  ASSUME AllInv, Respond
  PROVE  RefusalStands'
<1> USE DEF AllInv
<1>1. /\ Taken /\ stage = "respond"
      /\ UNCHANGED <<input, calls, buffer, panicked, bypassed, logged>>
  BY RespondResult
<1>2. Preflight \/ Bare => calls = 0 /\ ~panicked
  BY DEF WriterInv, RefusalInv
<1>3. Preflight => response'.status = 204 /\ response'.body = <<>>
  BY <1>1 DEF RefusalInv, Taken
<1>4. ASSUME Bare, ~Preflight
      PROVE  response'.status = 401 /\ Decoded' = <<"auth">>
  <2>1. "auth" \in Units /\ <<"auth">> \in Seq(Units)
    <3>1. "auth" \in Units
      BY KnownValues
    <3> QED
      BY <3>1
  <2>2. CASE chain.gzip
    <3>1. /\ Good(buffer) /\ buffer.status = 401 /\ buffer.body = <<"auth">>
          /\ Replayed(recorder.w)
      BY <1>1, <1>4, <2>2 DEF WriterInv, RefusalInv, ReplayInv
    <3>2. Response(buffer).status = 401 /\ Response(buffer).body = <<"auth">>
      BY <3>1, ResponseFields
    <3>3. /\ recorder.w.status = 401
          /\ recorder.w.body = IF Plain(recorder.w) THEN <<"auth">> ELSE <<"gzip">> \o <<"auth">>
      BY <3>1, <3>2 DEF Replayed
    <3>4. Decoded' = <<"auth">>
      BY <1>1, <2>1, <3>3, BodyDecoded
    <3> QED
      BY <1>1, <3>3, <3>4 DEF Taken
  <2>3. CASE ~chain.gzip
    <3>1. /\ recorder.w.status = 401 /\ recorder.w.body = <<"auth">>
          /\ Plain(recorder.w)
      BY <1>1, <1>4, <2>3 DEF WriterInv, RefusalInv
    <3> QED
      BY <1>1, <3>1, Announced DEF Taken
  <2> QED
    BY <2>2, <2>3
<1>5. (Preflight' <=> Preflight) /\ chain' = chain /\ request' = request
  BY <1>1, InputsKept
<1> QED
  BY <1>1, <1>2, <1>3, <1>4, <1>5 DEF RefusalStands, Bare

-----------------------------------------------------------------------------
(* The theorems.                                                           *)

AnswerInv ==
  PanicIs500 /\ LoggedIsSent /\ ReplayFaithful /\ CorsOnEveryAnswer /\ RefusalStands

\* The invariant holds before the first middleware runs.
LEMMA InitInv == Init => AllInv /\ AnswerInv
<1> SUFFICES ASSUME Init
             PROVE  AllInv /\ AnswerInv
  OBVIOUS
<1>1. /\ Good(newBufferedResponseWriter) /\ Plain(newBufferedResponseWriter)
      /\ newBufferedResponseWriter.headers[ACAO] = <<>>
  BY EmptyWriter, NoHeaders, KnownNames DEF ACAO
<1>2. GoodLog(newRecorder) /\ Even(newRecorder)
  <2>1. newRecorder.w = newBufferedResponseWriter /\ newRecorder.status = 0
        /\ newRecorder.bytes = 0
    BY DEF newRecorder
  <2>2. newRecorder \in [w : Writer, status : Nat, bytes : Nat]
    BY <1>1 DEF newRecorder, Good
  <2> QED
    BY <1>1, <2>1, <2>2, EmptyWriter DEF GoodLog, Even, InStep
<1>3. WriterInv
  BY <1>1, <1>2 DEF Init, WriterInv, Stages, Inside
<1>4. RefusalInv /\ PanicInv /\ ReplayInv /\ CorsInv
  BY DEF Init, RefusalInv, PanicInv, ReplayInv, CorsInv, Inside
<1>5. LogInv
  BY <1>2 DEF Init, LogInv
<1>6. AnswerInv
  BY DEF Init, AnswerInv, PanicIs500, LoggedIsSent, ReplayFaithful, CorsOnEveryAnswer,
         RefusalStands
<1> QED
  BY <1>3, <1>4, <1>5, <1>6 DEF AllInv

\* Nothing is claimed of a response that has not been taken yet.
LEMMA NotDone ==
  ASSUME WriterInv', RefusalInv', stage' # "done"
  PROVE  AnswerInv'
<1>1. Preflight' \/ Bare' => calls' = 0 /\ ~panicked'
  BY DEF WriterInv, RefusalInv
<1>2. RefusalStands'
  BY <1>1 DEF RefusalStands, Bare
<1>3. PanicIs500' /\ LoggedIsSent' /\ ReplayFaithful' /\ CorsOnEveryAnswer'
  BY DEF PanicIs500, LoggedIsSent, ReplayFaithful, CorsOnEveryAnswer
<1> QED
  BY <1>2, <1>3 DEF AnswerInv

\* A step that changes nothing.
LEMMA StutterKeeps ==
  ASSUME AllInv, AnswerInv, UNCHANGED vars
  PROVE  AllInv' /\ AnswerInv'
<1>1. /\ UNCHANGED <<stage, calls, buffer, recorder, panicked, bypassed, logged, response>>
      /\ UNCHANGED input
  BY DEF vars
<1>2. WriterInv'
  <2>1. Untouched' <=> Untouched
    BY <1>1, InputsKept DEF Untouched
  <2> QED
    BY <1>1, <2>1, InputsKept DEF AllInv, WriterInv
<1>3. RefusalInv' /\ PanicInv'
  BY <1>1, InputsKept DEF AllInv, RefusalInv, PanicInv
<1>4. ReplayInv'
  BY <1>1, InputsKept DEF AllInv, ReplayInv, Replayed, Layers
<1>5. LogInv'
  BY <1>1, InputsKept DEF AllInv, LogInv
<1>6. CorsInv'
  BY <1>1, InputsKept DEF AllInv, CorsInv, CorsSet
<1>7. (Zipped' <=> Zipped) /\ Decoded' = Decoded
  BY <1>1 DEF Decoded, Zipped
<1>8. PanicIs500' /\ LoggedIsSent' /\ RefusalStands'
  <2>1. Wraps(RecoveryHeaders)' <=> Wraps(RecoveryHeaders)
    BY <1>1, <1>7, InputsKept DEF Wraps
  <2>2. PanicIs500'
    BY <1>1, <1>7, <2>1 DEF AnswerInv, PanicIs500, RecoveryHeaders
  <2>3. LoggedIsSent'
    BY <1>1, InputsKept DEF AnswerInv, LoggedIsSent, BodySent
  <2>4. RefusalStands'
    BY <1>1, <1>7, InputsKept DEF AnswerInv, RefusalStands
  <2> QED
    BY <2>2, <2>3, <2>4
<1>9. ReplayFaithful'
  <2> DEFINE own == [Response(buffer).headers EXCEPT !["Content-Length"] = <<>>]
  <2>1. Wraps(own)' <=> Wraps(own)
    BY <1>1, <1>7, InputsKept DEF Wraps
  <2>2. Response(buffer)' = Response(buffer)
    BY <1>1
  <2> QED
    BY <1>1, <1>7, <2>1, <2>2, InputsKept DEF AnswerInv, ReplayFaithful
<1>10. CorsOnEveryAnswer'
  BY <1>1, InputsKept DEF AnswerInv, CorsOnEveryAnswer
<1> QED
  BY <1>2, <1>3, <1>4, <1>5, <1>6, <1>8, <1>9, <1>10 DEF AllInv, AnswerInv

\* AllInv is inductive and, with it, what is claimed of a response.
THEOREM WriterInvariance == Spec => [](AllInv /\ AnswerInv)
<1>1. Init => AllInv /\ AnswerInv
  BY InitInv
<1>2. AllInv /\ AnswerInv /\ [Next]_vars => AllInv' /\ AnswerInv'
  <2> SUFFICES ASSUME AllInv, AnswerInv, [Next]_vars
               PROVE  AllInv' /\ AnswerInv'
    OBVIOUS
  <2>1. ASSUME AllInv', stage' # "done"
        PROVE  AllInv' /\ AnswerInv'
    BY <2>1, NotDone DEF AllInv
  <2>2. CASE CORS
    <3>1. stage' # "done"
      BY <2>2 DEF CORS
    <3> QED
      BY <2>1, <2>2, <3>1, CORSKeeps
  <2>3. CASE BearerAuth
    <3>1. stage' # "done"
      BY <2>3 DEF BearerAuth, Refuse, Returned
    <3> QED
      BY <2>1, <2>3, <3>1, BearerAuthKeeps
  <2>4. CASE FixedWindowRateLimit
    <3>1. stage' # "done"
      BY <2>4 DEF FixedWindowRateLimit, Refuse, Returned
    <3> QED
      BY <2>1, <2>4, <3>1, RateLimitKeeps
  <2>5. CASE AppCall
    <3>1. AppResult
      BY <2>5, AppStep DEF AllInv
    <3>2. stage' # "done"
      BY <3>1 DEF AppResult
    <3> QED
      BY <2>1, <3>1, <3>2, AppKeeps
  <2>6. CASE AppReturn
    <3>1. stage' # "done"
      BY <2>6 DEF AppReturn, Returned
    <3> QED
      BY <2>1, <2>6, <3>1, AppReturnKeeps
  <2>7. CASE Recover
    <3>1. stage' # "done"
      BY <2>7 DEF Recover, Returned
    <3> QED
      BY <2>1, <2>7, <3>1, RecoverKeeps
  <2>8. CASE Replay
    <3>1. stage' # "done"
      BY <2>8 DEF Replay
    <3> QED
      BY <2>1, <2>8, <3>1, ReplayKeeps
  <2>9. CASE Log
    <3>1. stage' # "done"
      BY <2>9 DEF Log
    <3> QED
      BY <2>1, <2>9, <3>1, LogKeeps
  <2>10. CASE Respond
    BY <2>10, RespondKeeps, RespondPanic, RespondLogged, RespondReplayed, RespondCors,
       RespondRefusal DEF AnswerInv
  <2>11. CASE Send
    <3>1. stage' # "done"
      BY <2>11 DEF Send
    <3> QED
      BY <2>1, <2>11, <3>1, SendKeeps
  <2>12. CASE Done \/ UNCHANGED vars
    BY <2>12, StutterKeeps DEF Done
  <2> QED
    BY <2>2, <2>3, <2>4, <2>5, <2>6, <2>7, <2>8, <2>9, <2>10, <2>11, <2>12 DEF Next, AppCall
<1> QED
  BY <1>1, <1>2, PTL DEF Spec

\* Whatever Write, StreamBody, SendFile and reset are called in which order and
\* through which wrapper, a writer has one body, and closes what it sends.
THEOREM OneBodyAlways == Spec => []OneBody
<1>1. AllInv => OneBody
  BY DEF AllInv, WriterInv, GoodLog, Good, OneBody
<1> QED
  BY <1>1, WriterInvariance, PTL

\* After a panic at any call the client gets the 500 of RecoveryMiddleware, with
\* nothing of what the application had prepared.
THEOREM PanicAlways500 == Spec => []PanicIs500
<1>1. AnswerInv => PanicIs500
  BY DEF AnswerInv
<1> QED
  BY <1>1, WriterInvariance, PTL

\* LoggingMiddleware logs the status that is sent and the size of the body that is
\* sent; what is written under a status without a body it logs although none is
\* sent, a streamed body it logs as none.
THEOREM LogIsTrue == Spec => []LoggedIsSent
<1>1. AnswerInv => LoggedIsSent
  BY DEF AnswerInv
<1> QED
  BY <1>1, WriterInvariance, PTL

\* GzipCompressionMiddleware replays the handler's response, changed in its
\* encoding only.
THEOREM ReplayAlwaysFaithful == Spec => []ReplayFaithful
<1>1. AnswerInv => ReplayFaithful
  BY DEF AnswerInv
<1> QED
  BY <1>1, WriterInvariance, PTL

\* CORSMiddleware outside the compression reaches every answer, also a refusal
\* and the 500 after a panic; the first Allow-Origin is its own, and any other is
\* one that the application has set.
THEOREM CorsAlwaysAnswers == Spec => []CorsOnEveryAnswer
<1>1. AnswerInv => CorsOnEveryAnswer
  BY DEF AnswerInv
<1> QED
  BY <1>1, WriterInvariance, PTL

\* A request that CORS or authentication answers never reaches the application,
\* and its answer is theirs.
THEOREM RefusalAlwaysStands == Spec => []RefusalStands
<1>1. AnswerInv => RefusalStands
  BY DEF AnswerInv
<1> QED
  BY <1>1, WriterInvariance, PTL
=============================================================================
