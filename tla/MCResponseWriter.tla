-------------------------- MODULE MCResponseWriter --------------------------
(***************************************************************************)
(* Small instances of ResponseWriter.                                      *)
(***************************************************************************)
EXTENDS ResponseWriter

OneFile  == {"file"}
TwoFiles == {"file1", "file2"}

\* A status with a body, and one that allows none.
MCStatuses == {201, 204}

\* Names that a middleware reads or sets too.
MCHeaders == {"Access-Control-Allow-Origin", "Content-Encoding", "Content-Length", "Vary"}

Chain(g, cs, cr, guarded) ==
  [gzip |-> g, cors |-> cs, credentials |-> cr, auth |-> guarded, limit |-> guarded]

\* cmd/wbsv without and with its optional middleware, and without compression.
MCChains == {Chain(TRUE, <<"other", "*">>, TRUE, TRUE),
             Chain(TRUE, <<"self", "*">>, FALSE, FALSE),
             Chain(TRUE, <<"*">>, FALSE, FALSE),
             Chain(FALSE, <<>>, FALSE, FALSE)}

Shipped == {Chain(TRUE, <<>>, FALSE, FALSE)}

Req(o, p, t, a, u) ==
  [origin |-> o, preflight |-> p, token |-> t, accepts |-> a, upgrade |-> u]

MCRequests == {Req("self", FALSE, TRUE, TRUE, FALSE), Req("self", FALSE, FALSE, TRUE, FALSE),
               Req("self", TRUE, FALSE, FALSE, FALSE), Req("", FALSE, TRUE, FALSE, TRUE),
               Req("third", TRUE, TRUE, TRUE, FALSE)}

PlainRequest == {Req("", FALSE, TRUE, TRUE, FALSE)}
=============================================================================
