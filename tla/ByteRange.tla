----------------------------- MODULE ByteRange ------------------------------
(***************************************************************************)
(* Request.ByteRange and the checks of StreamRange (src/internal/          *)
(* httpserver/range.go).  A Range header is a form and up to two numbers;  *)
(* a number that parseRangeNumber refuses (empty, signed, with a space, no *)
(* int64) is one outside 0..MaxInt.                                        *)
(***************************************************************************)
EXTENDS Integers

CONSTANT MaxInt  \* the largest int64

ASSUME MaxIntAssumption == MaxInt \in Nat

\* The forms of a Range header: none, "a-b", "a-", "-n", and what is neither:
\* another unit, several ranges, no dash.
Forms == {"absent", "closed", "open", "suffix", "malformed"}

parses(n) == n \in 0..MaxInt

NoRange == [present |-> FALSE, err |-> FALSE, start |-> 0, end |-> 0]
RangeError == [present |-> TRUE, err |-> TRUE, start |-> 0, end |-> 0]
byteRange(start, end) == [present |-> TRUE, err |-> FALSE, start |-> start, end |-> end]

Least(a, b) == IF a <= b THEN a ELSE b

closedByteRange(start, end, size) ==
  IF ~parses(start) \/ ~parses(end) \/ start > end \/ start >= size THEN RangeError
  ELSE byteRange(start, Least(end, size - 1))

openEndedByteRange(start, size) ==
  IF ~parses(start) \/ start >= size THEN RangeError ELSE byteRange(start, size - 1)

\* Mutant of suffixByteRange: a suffix longer than the file is not cut.
suffixByteRangeUncut(length, size) ==
  IF ~parses(length) \/ length = 0 THEN RangeError ELSE byteRange(size - length, size - 1)

\* For size 0 this is the range from 0 to -1, which is not an error here.
suffixByteRange(length, size) ==
  IF ~parses(length) \/ length = 0 THEN RangeError
  ELSE byteRange(size - Least(length, size), size - 1)

requestByteRange(h, size) ==
  IF h.form = "absent" THEN NoRange
  ELSE IF h.form = "malformed" THEN RangeError
  ELSE IF h.form = "suffix" THEN suffixByteRange(h.b, size)
  ELSE IF h.form = "open" THEN openEndedByteRange(h.a, size)
  ELSE closedByteRange(h.a, h.b, size)

\* StreamRange returns an error and writes nothing.
rangeRefused(r, size) == r.start < 0 \/ r.end < r.start \/ r.end >= size

\* The bytes of a file of that size that a header asks for.
Denoted(h, size) ==
  {i \in 0..size - 1 : \/ h.form = "closed" /\ h.a <= i /\ i <= h.b
                       \/ h.form = "open" /\ h.a <= i
                       \/ h.form = "suffix" /\ size - h.b <= i}
=============================================================================
