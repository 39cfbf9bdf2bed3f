----------------------------- MODULE MCMessages -----------------------------
(***************************************************************************)
(* The messages and the responses that tell the branches of HttpConn       *)
(* apart, for its small instances and those of HandleConn.                 *)
(***************************************************************************)
EXTENDS Integers, Sequences, TLC

H(n, v) == [name |-> n, value |-> v]
Msg(v, fs, n) == [version |-> v, fields |-> fs, body |-> n]

Host == H("Host", "a")
CL(v) == H("Content-Length", v)

\* Texts that strconv.ParseInt accepts; "+1" and "" do not parse.
MCNumeral == "0" :> 0 @@ "1" :> 1 @@ "01" :> 1 @@ "2" :> 2 @@ "9" :> 9

Get      == Msg("HTTP/1.1", <<Host>>, 0)
Post     == Msg("HTTP/1.1", <<Host, CL("2")>>, 2)
GetClose == Msg("HTTP/1.1", <<Host, H("Connection", "keep-alive, close")>>, 0)
Get10    == Msg("HTTP/1.0", <<>>, 0)

Good == {Get, Post, GetClose, Get10,
         Msg("HTTP/1.1", <<CL("1"), CL("01"), Host>>, 1),
         Msg("HTTP/1.1", <<Host, H("Transfer-Encoding", "")>>, 0),
         Msg("HTTP/1.1", <<Host, CL("0")>>, 0),
         Msg("HTTP/1.1", <<CL("1"), Host>>, 2)}    \* one byte more than it says

Bad == {Msg("HTTP/2.0", <<Host>>, 0),
        Msg("HTTP/1.1", <<H("Host", "")>>, 0),
        Msg("HTTP/1.1", <<Host, H("", "x")>>, 0),
        Msg("HTTP/1.1", <<Host, H("A", "1"), H("B", "2"), H("C", "3")>>, 0),
        Msg("HTTP/1.1", <<Host, CL("1"), CL("2")>>, 2),
        Msg("HTTP/1.1", <<Host, CL("+1")>>, 1),
        Msg("HTTP/1.1", <<Host, CL("9")>>, 2),
        Msg("HTTP/1.1", <<Host, H("Transfer-Encoding", "chunked")>>, 2)}

\* Every message, followed by ones that are fine, close or must be refused.
AllScripts == {<<a, b>> : a \in Good \cup Bad,
                          b \in {Post, GetClose,
                                 Msg("HTTP/1.1", <<Host, CL("1"), CL("2")>>, 2)}}

\* Few requests for the liveness properties.
FewScripts == {<<Get, Post>>, <<Get, GetClose>>, <<Get10, Get>>}

BothTimeouts == {[read |-> TRUE, write |-> TRUE]}
AnyTimeouts  == [read : BOOLEAN, write : BOOLEAN]

Body(s, n)  == [status |-> s, reader |-> FALSE, length |-> 0, avail |-> n,
                readErr |-> FALSE, chunked |-> FALSE, closer |-> FALSE,
                badHeader |-> FALSE, lost |-> 0]
File(n, a)  == [Body(200, a) EXCEPT !.reader = TRUE, !.length = n, !.closer = TRUE]
Chunked(e)  == [File(-1, 1) EXCEPT !.chunked = TRUE, !.readErr = e]

\* [Body(500, 0) EXCEPT !.lost = 1] is a SendFile followed by a panic, the file
\* of File(2, 2) with one lost the second of two.
AllResponses == {Body(200, 0), Body(200, 2), Body(101, 0), Body(42, 1),
                 [Body(500, 0) EXCEPT !.lost = 1], [File(2, 2) EXCEPT !.lost = 1],
                 File(2, 1), File(1, 2), File(-1, 1),
                 Chunked(FALSE), Chunked(TRUE),
                 [File(1, 1) EXCEPT !.status = 304],
                 [File(1, 1) EXCEPT !.badHeader = TRUE]}

\* Responses that keep the connection unless the request asked to close it.
LiveResponses == {Body(200, 1), Chunked(FALSE)}
=============================================================================
