---------------------------- MODULE FileResource ----------------------------
(***************************************************************************)
(* A file that changes and a client that keeps a copy of it.  The handler  *)
(* answers as docs/cache-headers.md and docs/range-requests.md show: 304   *)
(* if Request.NotModified, else the range that Request.ByteRange finds,    *)
(* else the whole file (src/internal/httpserver: app.go, cache.go,         *)
(* range.go, response_writer.go).                                          *)
(*                                                                         *)
(* Time is in ticks, Second of them to a second: Last-Modified and         *)
(* If-Modified-Since have whole seconds.                                   *)
(***************************************************************************)
EXTENDS ByteRange

CONSTANTS Second,      \* ticks in a second
          MaxTime,     \* bound: ticks
          MaxVersion,  \* bound: versions of the file
          Sizes,       \* sizes it may have
          Ranges,      \* Range headers: [form, a, b]
          TagKinds     \* how the application tags versions

ASSUME ClockAssumption == Second \in Nat \ {0} /\ MaxTime \in Nat /\ MaxVersion \in Nat \ {0}
ASSUME SizeAssumption == Sizes \subseteq 0..MaxInt
ASSUME RangeAssumption == \A h \in Ranges : h.form \in Forms /\ h.a \in Int /\ h.b \in Int
ASSUME TagAssumption == TagKinds \subseteq {"strong", "weak", "none"}

VARIABLES tagKind,  \* of this application: "x", W/"x" or no ETag
          now,      \* the clock
          file,     \* the current version, its size, when it was written
          copy,     \* the client's: version, Last-Modified and ETag it came with
          reply     \* the last request and the answer to it

vars == <<tagKind, now, file, copy, reply>>

-----------------------------------------------------------------------------
(* Validators.                                                             *)

NoTag == [weak |-> FALSE, opaque |-> 0]

\* responseETagValue: the tag of a version, or an error for an empty one.
responseETagValue(v) ==
  IF tagKind = "none" THEN NoTag ELSE [weak |-> tagKind = "weak", opaque |-> v]

\* httpTime, time.Truncate(time.Second).
wholeSeconds(t) == (t \div Second) * Second

weakETagValue(tag) == tag.opaque

\* A request with If-None-Match lists tags, or has "*".
requestETagMatches(q, v) ==
  /\ responseETagValue(v) # NoTag
  /\ \/ q.star
     \/ \E tag \in q.tags : weakETagValue(tag) = weakETagValue(responseETagValue(v))

\* Mutant of requestNotModifiedSince: the file's time is not cut to seconds.
requestNotModifiedSinceExact(q, modified) == q.since >= 0 /\ modified <= q.since

\* since is -1 without If-Modified-Since or if it is no date.
requestNotModifiedSince(q, modified) == q.since >= 0 /\ wholeSeconds(modified) <= q.since

hasIfNoneMatch(q) == q.star \/ q.tags # {}

\* Mutant of NotModified: either validator is enough.
NotModifiedEither(q, v, modified) ==
  requestETagMatches(q, v) \/ requestNotModifiedSince(q, modified)

NotModified(q, v, modified) ==
  IF hasIfNoneMatch(q) THEN requestETagMatches(q, v)
                       ELSE requestNotModifiedSince(q, modified)

-----------------------------------------------------------------------------
NoCopy == [version |-> 0, since |-> -1, tag |-> NoTag]

\* A request for a range, and one with validators and no range.
Ranged(h) == [star |-> FALSE, tags |-> {}, since |-> -1, range |-> h]
Conditional(star, tags, since) ==
  [star |-> star, tags |-> tags, since |-> since,
   range |-> [form |-> "absent", a |-> 0, b |-> 0]]

Init ==
  /\ tagKind \in TagKinds /\ now = 0
  /\ file \in [version : {1}, size : Sizes, modified : {0}]
  /\ copy = NoCopy
  /\ reply = [q |-> Conditional(FALSE, {}, -1), status |-> 0, bytes |-> {},
              copy |-> NoCopy, file |-> file]

Tick == now < MaxTime /\ now' = now + 1 /\ UNCHANGED <<tagKind, file, copy, reply>>

Modify ==
  /\ file.version < MaxVersion
  /\ \E n \in Sizes : file' = [version |-> file.version + 1, size |-> n, modified |-> now]
  /\ UNCHANGED <<tagKind, now, copy, reply>>

Whole == 0..file.size - 1

\* What the handler sends: status and bytes.  A range that StreamRange refuses
\* leaves an empty response with status 200.
Answer(q) ==
  LET r == requestByteRange(q.range, file.size)
  IN IF NotModified(q, file.version, file.modified) THEN [status |-> 304, bytes |-> {}]
     ELSE IF ~r.present THEN [status |-> 200, bytes |-> Whole]
     ELSE IF r.err THEN [status |-> 416, bytes |-> {}]
     ELSE IF rangeRefused(r, file.size) THEN [status |-> 200, bytes |-> {}]
     ELSE [status |-> 206, bytes |-> r.start..r.end]

\* The client keeps a whole file with the validators that came with it.
Get(q) ==
  LET a == Answer(q)
  IN /\ reply' = [q |-> q, status |-> a.status, bytes |-> a.bytes, copy |-> copy, file |-> file]
     /\ copy' = IF a.status = 200
                THEN [version |-> file.version, since |-> wholeSeconds(file.modified),
                      tag |-> responseETagValue(file.version)]
                ELSE copy
     /\ UNCHANGED <<tagKind, now, file>>

Next ==
  \/ Tick \/ Modify
  \/ \E h \in Ranges : Get(Ranged(h))
  \* revalidation with the validators of the copy, all or some, or with "*"
  \/ /\ copy # NoCopy
     /\ \E star \in BOOLEAN, tags \in {{}, {copy.tag} \ {NoTag}}, since \in {-1, copy.since} :
          Get(Conditional(star, tags, since))

Spec == Init /\ [][Next]_vars

-----------------------------------------------------------------------------
(* Properties.                                                             *)

\* 206 carries exactly the bytes that the header asks for and never none, 416
\* means that there are none or that a number is too large, and 200 carries the
\* whole file, also for an empty one, whatever the form of the range.
RangeExact ==
  LET d == Denoted(reply.q.range, reply.file.size)
  IN /\ reply.status = 206 => reply.bytes = d /\ d # {}
     /\ reply.status = 416 => d = {} \/ ~parses(reply.q.range.a) \/ ~parses(reply.q.range.b)
     /\ reply.status = 200 => reply.bytes = 0..reply.file.size - 1

\* A client told 304 about its copy holds the current version if it sent the
\* tag; with the date alone its copy is at most as old as the second in which
\* the file was last written.
NotModifiedIsCurrent ==
  reply.status = 304 /\ ~reply.q.star =>
    \/ reply.copy.version = reply.file.version
    \/ reply.q.tags = {} /\ wholeSeconds(reply.file.modified) = reply.copy.since

\* A client that sends a validator it got with the current version is told 304
\* and not sent the file again.
RevalidationWorks ==
  LET q == reply.q
  IN /\ reply.copy.version = reply.file.version
     /\ q.tags # {} \/ (~hasIfNoneMatch(q) /\ q.since >= 0)
     => reply.status = 304
=============================================================================
