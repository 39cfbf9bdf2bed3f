------------------------- MODULE FileResourceProofs -------------------------
(***************************************************************************)
(* The range operators denote the right bytes for every size and every     *)
(* header, and so does every answer of FileResource.  The validators that  *)
(* a client keeps stay those of the version it keeps, so a 304 is right.   *)
(***************************************************************************)
EXTENDS FileResource, TLAPS

Header(h) == h.form \in Forms /\ h.a \in Int /\ h.b \in Int

\* The conclusion for one header and one size.
Exact(h, size) ==
  LET r == requestByteRange(h, size)
      d == Denoted(h, size)
  IN /\ r.present /\ ~r.err /\ ~rangeRefused(r, size) => r.start..r.end = d /\ d # {}
     /\ r.present /\ ~r.err /\ rangeRefused(r, size) => size = 0
     /\ r.present /\ r.err => d = {} \/ ~parses(h.a) \/ ~parses(h.b)

\* Each parser of range.go, on the header it is called for, finds exactly the
\* bytes that the header denotes, or an error; only a suffix of an empty file
\* passes the parser and is stopped by StreamRange.
LEMMA ParserExact ==
  ASSUME NEW h, Header(h), NEW size \in 0..MaxInt
  PROVE  Exact(h, size)
<1> USE MaxIntAssumption DEF Header
<1>1. CASE h.form = "absent"
  BY <1>1 DEF Exact, requestByteRange, NoRange
<1>2. CASE h.form = "malformed"
  BY <1>2 DEF Exact, requestByteRange, NoRange, RangeError, Denoted
<1>3. CASE h.form = "closed"
  <2>1. requestByteRange(h, size) = closedByteRange(h.a, h.b, size)
    BY <1>3 DEF requestByteRange
  <2>2. Denoted(h, size) = {i \in 0..size - 1 : h.a <= i /\ i <= h.b}
    BY <1>3 DEF Denoted
  <2>3. CASE ~parses(h.a) \/ ~parses(h.b) \/ h.a > h.b \/ h.a >= size
    BY <2>1, <2>2, <2>3 DEF Exact, closedByteRange, RangeError, NoRange
  <2>4. CASE ~(~parses(h.a) \/ ~parses(h.b) \/ h.a > h.b \/ h.a >= size)
    <3>1. requestByteRange(h, size) = byteRange(h.a, Least(h.b, size - 1))
      BY <2>1, <2>4 DEF closedByteRange
    <3>2. h.a..Least(h.b, size - 1) = Denoted(h, size)
      BY <2>2, <2>4 DEF parses, Least
    <3>3. h.a \in Denoted(h, size) /\ Least(h.b, size - 1) < size
      BY <2>2, <2>4 DEF parses, Least
    <3> QED BY <2>4, <3>1, <3>2, <3>3 DEF Exact, byteRange, rangeRefused, parses, Least
  <2> QED BY <2>3, <2>4
<1>4. CASE h.form = "open"
  <2>1. requestByteRange(h, size) = openEndedByteRange(h.a, size)
    BY <1>4 DEF requestByteRange
  <2>2. Denoted(h, size) = {i \in 0..size - 1 : h.a <= i}
    BY <1>4 DEF Denoted
  <2>3. CASE ~parses(h.a) \/ h.a >= size
    BY <2>1, <2>2, <2>3 DEF Exact, openEndedByteRange, RangeError, NoRange
  <2>4. CASE ~(~parses(h.a) \/ h.a >= size)
    <3>1. requestByteRange(h, size) = byteRange(h.a, size - 1)
      BY <2>1, <2>4 DEF openEndedByteRange
    <3>2. h.a..(size - 1) = Denoted(h, size) /\ h.a \in Denoted(h, size)
      BY <2>2, <2>4 DEF parses
    <3> QED BY <2>4, <3>1, <3>2 DEF Exact, byteRange, rangeRefused, parses
  <2> QED BY <2>3, <2>4
<1>5. CASE h.form = "suffix"
  <2>1. requestByteRange(h, size) = suffixByteRange(h.b, size)
    BY <1>5 DEF requestByteRange
  <2>2. Denoted(h, size) = {i \in 0..size - 1 : size - h.b <= i}
    BY <1>5 DEF Denoted
  <2>3. CASE ~parses(h.b) \/ h.b = 0
    BY <2>1, <2>2, <2>3 DEF Exact, suffixByteRange, RangeError, NoRange
  <2>4. CASE ~(~parses(h.b) \/ h.b = 0)
    <3>1. requestByteRange(h, size) = byteRange(size - Least(h.b, size), size - 1)
      BY <2>1, <2>4 DEF suffixByteRange
    <3>2. (size - Least(h.b, size))..(size - 1) = Denoted(h, size)
      BY <2>2, <2>4 DEF parses, Least
    <3>3. size # 0 => size - 1 \in Denoted(h, size)
      BY <2>2, <2>4 DEF parses
    <3>4. size - Least(h.b, size) >= 0 /\ (size # 0 => size - Least(h.b, size) <= size - 1)
      BY <2>4 DEF parses, Least
    <3> QED BY <3>1, <3>2, <3>3, <3>4 DEF Exact, byteRange, rangeRefused, Least, parses
  <2> QED BY <2>3, <2>4
<1> QED BY <1>1, <1>2, <1>3, <1>4, <1>5 DEF Forms

-----------------------------------------------------------------------------
\* The file has one of its sizes, and the last answer was exact.
RangeInv == file.size \in Sizes /\ RangeExact

\* Any request with a well formed header keeps RangeInv.
LEMMA GetExact ==
  ASSUME file.size \in Sizes, NEW q, Header(q.range), Get(q)
  PROVE  RangeExact' /\ file' = file
<1> DEFINE r == requestByteRange(q.range, file.size)
           a == Answer(q)
<1>1. file.size \in 0..MaxInt
  BY SizeAssumption
<1>2. Exact(q.range, file.size)
  BY <1>1, ParserExact
<1>3. /\ reply'.q = q /\ reply'.file = file
      /\ reply'.status = a.status /\ reply'.bytes = a.bytes
      /\ file' = file
  BY DEF Get
<1> HIDE DEF a
<1>4. /\ a.status = 206 => r.present /\ ~r.err /\ ~rangeRefused(r, file.size)
                             /\ a.bytes = r.start..r.end
      /\ a.status = 416 => r.present /\ r.err
      /\ a.status = 200 => \/ a.bytes = 0..file.size - 1
                           \/ a.bytes = {} /\ r.present /\ ~r.err /\ rangeRefused(r, file.size)
  BY DEF a, Answer, Whole
<1> HIDE DEF r
<1>5. file.size = 0 => 0..file.size - 1 = {}
  OBVIOUS
<1> DEFINE d == Denoted(q.range, file.size)
<1>6. /\ r.present /\ ~r.err /\ ~rangeRefused(r, file.size) => r.start..r.end = d /\ d # {}
      /\ r.present /\ ~r.err /\ rangeRefused(r, file.size) => file.size = 0
      /\ r.present /\ r.err => d = {} \/ ~parses(q.range.a) \/ ~parses(q.range.b)
  BY <1>2 DEF Exact, r
<1> HIDE DEF d
<1>7. a.status = 206 => a.bytes = d /\ d # {}
  BY <1>4, <1>6
<1>8. a.status = 416 => d = {} \/ ~parses(q.range.a) \/ ~parses(q.range.b)
  BY <1>4, <1>6
<1>9. a.status = 200 => a.bytes = 0..file.size - 1
  <2>1. a.status = 200 => a.bytes = 0..file.size - 1 \/ (a.bytes = {} /\ file.size = 0)
    BY <1>4, <1>6, Zenon
  <2> QED BY <2>1, <1>5
<1> QED BY <1>3, <1>7, <1>8, <1>9 DEF RangeExact, d

\* Every answer carries the bytes that the request asked for (Request.ByteRange,
\* StreamRange, WriteRangeNotSatisfiable), whatever sizes the file takes.
THEOREM RangesAreExact == Spec => []RangeExact
<1>1. Init => RangeInv
  BY DEF Init, RangeInv, RangeExact
<1>2. RangeInv /\ [Next]_vars => RangeInv'
  <2> SUFFICES ASSUME RangeInv, [Next]_vars PROVE RangeInv'
    OBVIOUS
  <2>1. CASE Tick
    BY <2>1 DEF Tick, RangeInv, RangeExact
  <2>2. CASE Modify
    BY <2>2 DEF Modify, RangeInv, RangeExact
  <2>3. ASSUME NEW h \in Ranges, Get(Ranged(h)) PROVE RangeInv'
    <3>1. Header(Ranged(h).range)
      BY RangeAssumption DEF Header, Ranged
    <3> QED BY <2>3, <3>1, GetExact DEF RangeInv
  <2>4. ASSUME NEW star, NEW tags, NEW since,
               Get(Conditional(star, tags, since))
        PROVE  RangeInv'
    <3>1. Header(Conditional(star, tags, since).range)
      BY DEF Header, Conditional, Forms
    <3> QED BY <2>4, <3>1, GetExact DEF RangeInv
  <2>5. CASE UNCHANGED vars
    BY <2>5 DEF vars, RangeInv, RangeExact
  <2> QED BY <2>1, <2>2, <2>3, <2>4, <2>5 DEF Next
<1>3. RangeInv => RangeExact
  BY DEF RangeInv
<1> QED BY <1>1, <1>2, <1>3, PTL DEF Spec

-----------------------------------------------------------------------------
(* Conditional requests.                                                   *)

\* Cutting to whole seconds (httpTime) keeps the order of times.
LEMMA SecondsMonotonic ==
  ASSUME NEW t \in Nat, NEW u \in Nat, t <= u
  PROVE  /\ wholeSeconds(t) \in Nat /\ wholeSeconds(u) \in Nat
         /\ wholeSeconds(t) <= wholeSeconds(u)
<1> DEFINE a == t \div Second
           b == u \div Second
<1>1. /\ a \in Nat /\ a * Second <= t /\ t < a * Second + Second
      /\ b \in Nat /\ b * Second <= u /\ u < b * Second + Second
      /\ a * Second \in Nat /\ b * Second \in Nat
  BY ClockAssumption
<1>2. b < a => b * Second + Second <= a * Second
  BY <1>1, ClockAssumption
<1>3. a < b => a * Second + Second <= b * Second
  BY <1>1, ClockAssumption
<1> HIDE DEF a, b
<1>4. a * Second <= b * Second
  BY <1>1, <1>2, <1>3, ClockAssumption
<1> QED BY <1>1, <1>4 DEF wholeSeconds, a, b

\* The versions and times of the file, and what the client's copy carries.
CopyInv ==
  /\ now \in Nat /\ file.version \in Nat \ {0}
  /\ file.modified \in Nat /\ file.modified <= now
  /\ \/ copy = NoCopy
     \/ /\ copy.version \in 1..file.version
        /\ copy.tag = responseETagValue(copy.version)
        /\ copy.since \in Nat /\ copy.since <= wholeSeconds(file.modified)
        /\ copy.version = file.version => copy.since = wholeSeconds(file.modified)

\* What both properties of the last answer rest on.
ValidatorInv == CopyInv /\ NotModifiedIsCurrent /\ RevalidationWorks

\* Every version has a tag of its own, weak or strong, or none has one.
LEMMA TagsIdentify ==
  ASSUME NEW v \in Nat \ {0}, NEW u \in Nat \ {0}
  PROVE  /\ responseETagValue(v) = NoTag <=> tagKind = "none"
         /\ tagKind # "none" => responseETagValue(v).opaque = v
  BY DEF responseETagValue, NoTag

\* Get keeps CopyInv, whatever the request was: the client takes version,
\* Last-Modified and ETag from the same answer.
LEMMA GetCopy ==
  ASSUME CopyInv, NEW q, Get(q)
  PROVE  CopyInv'
<1>1. UNCHANGED <<tagKind, now, file>>
  BY DEF Get
<1>2. wholeSeconds(file.modified) \in Nat /\ file.version \in 1..file.version
  BY SecondsMonotonic DEF CopyInv
<1>3. CASE copy' = copy
  BY <1>1, <1>3 DEF CopyInv, responseETagValue
<1>4. CASE copy' = [version |-> file.version, since |-> wholeSeconds(file.modified),
                    tag |-> responseETagValue(file.version)]
  BY <1>1, <1>2, <1>4 DEF CopyInv, responseETagValue
<1> QED BY <1>3, <1>4 DEF Get

\* A request that carries no validator is never answered 304.
LEMMA RangedGet ==
  ASSUME CopyInv, NEW h, Get(Ranged(h))
  PROVE  NotModifiedIsCurrent' /\ RevalidationWorks'
<1> DEFINE q == Ranged(h)
<1>1. q.star = FALSE /\ q.tags = {} /\ q.since = -1
  BY DEF Ranged
<1>2. ~NotModified(q, file.version, file.modified)
  BY <1>1 DEF NotModified, hasIfNoneMatch, requestNotModifiedSince
<1>3. reply'.q = q /\ reply'.status = Answer(q).status
  BY DEF Get
<1> HIDE DEF q
<1>4. Answer(q).status # 304
  BY <1>2 DEF Answer
<1> QED BY <1>1, <1>3, <1>4 DEF NotModifiedIsCurrent, RevalidationWorks

\* A request with validators of the copy is answered 304 if they are those of
\* the current version, and only if they could be.
LEMMA ConditionalGet ==
  ASSUME CopyInv, copy # NoCopy, NEW star \in BOOLEAN,
         NEW tags \in {{}, {copy.tag} \ {NoTag}}, NEW since \in {-1, copy.since},
         Get(Conditional(star, tags, since))
  PROVE  NotModifiedIsCurrent' /\ RevalidationWorks'
<1> DEFINE q == Conditional(star, tags, since)
           m == NotModified(q, file.version, file.modified)
           w == wholeSeconds(file.modified)
<1>1. q.star = star /\ q.tags = tags /\ q.since = since /\ q.range.form = "absent"
  BY DEF Conditional
<1>2. /\ reply'.q = q /\ reply'.status = Answer(q).status
      /\ reply'.copy = copy /\ reply'.file = file
  BY DEF Get
<1>3. /\ copy.version \in Nat \ {0} /\ copy.version <= file.version
      /\ copy.tag = responseETagValue(copy.version)
      /\ copy.since \in Nat /\ copy.since <= w
      /\ copy.version = file.version => copy.since = w
      /\ file.version \in Nat \ {0} /\ w \in Nat
  BY SecondsMonotonic DEF CopyInv
<1> HIDE DEF q, w
<1>4. reply'.status = 304 <=> m
  <2>1. m => Answer(q).status = 304
    BY DEF Answer
  <2>2. ~m => Answer(q).status # 304
    BY DEF Answer
  <2> QED BY <1>2, <2>1, <2>2
<1> HIDE DEF m
<1>5. CASE tags # {}
  <2>1. tags = {copy.tag} /\ copy.tag # NoTag /\ tagKind # "none"
    BY <1>3, <1>5, TagsIdentify
  <2>2. responseETagValue(file.version) # NoTag
    BY <1>3, <2>1, TagsIdentify
  <2>3. weakETagValue(copy.tag) = copy.version
    BY <1>3, <2>1, TagsIdentify DEF weakETagValue
  <2>4. weakETagValue(responseETagValue(file.version)) = file.version
    BY <1>3, <2>1, TagsIdentify DEF weakETagValue
  <2>5. m <=> star \/ copy.version = file.version
    BY <1>1, <2>1, <2>2, <2>3, <2>4
       DEF m, NotModified, hasIfNoneMatch, requestETagMatches
  <2> QED BY <1>1, <1>2, <1>4, <2>5 DEF NotModifiedIsCurrent, RevalidationWorks
<1>6. CASE tags = {} /\ ~star
  <2>1. m <=> since >= 0 /\ w <= since
    BY <1>1, <1>6 DEF m, w, NotModified, hasIfNoneMatch, requestNotModifiedSince
  <2>2. since >= 0 => since = copy.since
    BY <1>3
  <2>3. m => w = copy.since
    BY <1>3, <2>1, <2>2
  <2>4. copy.version = file.version /\ since >= 0 => m
    BY <1>3, <2>1, <2>2
  <2> QED BY <1>1, <1>2, <1>4, <1>6, <2>3, <2>4
          DEF NotModifiedIsCurrent, RevalidationWorks, hasIfNoneMatch, w
<1>7. CASE tags = {} /\ star
  BY <1>1, <1>2, <1>7 DEF NotModifiedIsCurrent, RevalidationWorks, hasIfNoneMatch
<1> QED BY <1>5, <1>6, <1>7

\* The file, the clock and the client's copy stay in step.
THEOREM ValidatorInvariance == Spec => []ValidatorInv
<1>1. Init => ValidatorInv
  <2> SUFFICES ASSUME Init PROVE ValidatorInv
    OBVIOUS
  <2>1. CopyInv
    BY DEF Init, CopyInv
  <2>2. NotModifiedIsCurrent /\ RevalidationWorks
    BY DEF Init, NotModifiedIsCurrent, RevalidationWorks, NoCopy, Conditional
  <2> QED BY <2>1, <2>2 DEF ValidatorInv
<1>2. ValidatorInv /\ [Next]_vars => ValidatorInv'
  <2> SUFFICES ASSUME ValidatorInv, [Next]_vars PROVE ValidatorInv'
    OBVIOUS
  <2>0. CopyInv
    BY DEF ValidatorInv
  <2>1. UNCHANGED reply => NotModifiedIsCurrent' /\ RevalidationWorks'
    BY DEF ValidatorInv, NotModifiedIsCurrent, RevalidationWorks, hasIfNoneMatch, wholeSeconds
  <2>2. CASE Tick
    <3>1. CopyInv'
      BY <2>0, <2>2 DEF Tick, CopyInv, responseETagValue
    <3> QED BY <2>1, <2>2, <3>1 DEF Tick, ValidatorInv
  <2>3. CASE Modify
    <3>1. /\ file'.version = file.version + 1 /\ file'.modified = now
          /\ UNCHANGED <<tagKind, now, copy, reply>>
      BY <2>3 DEF Modify
    <3>2. /\ wholeSeconds(file.modified) \in Nat /\ wholeSeconds(now) \in Nat
          /\ wholeSeconds(file.modified) <= wholeSeconds(now)
      BY <2>0, SecondsMonotonic DEF CopyInv
    <3>3. CopyInv'
      BY <2>0, <3>1, <3>2 DEF CopyInv, responseETagValue
    <3> QED BY <2>1, <3>1, <3>3 DEF ValidatorInv
  <2>4. ASSUME NEW h \in Ranges, Get(Ranged(h)) PROVE ValidatorInv'
    BY <2>0, <2>4, GetCopy, RangedGet DEF ValidatorInv
  <2>5. ASSUME copy # NoCopy, NEW star \in BOOLEAN, NEW tags \in {{}, {copy.tag} \ {NoTag}},
               NEW since \in {-1, copy.since}, Get(Conditional(star, tags, since))
        PROVE  ValidatorInv'
    BY <2>0, <2>5, GetCopy, ConditionalGet DEF ValidatorInv
  <2>6. CASE UNCHANGED vars
    <3>1. CopyInv'
      BY <2>0, <2>6 DEF vars, CopyInv, responseETagValue
    <3> QED BY <2>1, <2>6, <3>1 DEF vars, ValidatorInv
  <2> QED BY <2>2, <2>3, <2>4, <2>5, <2>6 DEF Next
<1> QED BY <1>1, <1>2, PTL DEF Spec

\* Request.NotModified never tells a client that an outdated copy is current,
\* but for a file that was written twice within one second and a client that
\* has only the date.
THEOREM NotModifiedIsRight == Spec => []NotModifiedIsCurrent
<1>1. ValidatorInv => NotModifiedIsCurrent
  BY DEF ValidatorInv
<1> QED BY <1>1, ValidatorInvariance, PTL

\* A validator that came with the current version is always answered 304.
THEOREM RevalidationAlwaysWorks == Spec => []RevalidationWorks
<1>1. ValidatorInv => RevalidationWorks
  BY DEF ValidatorInv
<1> QED BY <1>1, ValidatorInvariance, PTL
=============================================================================
