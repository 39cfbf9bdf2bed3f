# A TLA+ verification of `_wbsv`

`_wbsv` is an HTTP/1.x server written from scratch in Go, with a small load
generator. This directory holds TLA+ models of its concurrent and protocol
parts, the TLC configurations that check them on small instances, and TLAPS
proofs that hold for every instance. `PROJECT.json` maps every definition to
the source lines it stands for and lists runs, mutants, findings, hazards and
theorems.

## 1. The system

| Part | State | Operations | Interacts with |
|---|---|---|---|
| TCP server (`internal/tcpserver/server.go`) | `activeConns`, `wg`, `rejectedConns`, `shuttingDown`; per `Serve`: `shutdownOnce`, `done`, `connJobs`, `workerWG` | `Serve`, `trackConn`, `untrackConn`, the shutdown closure, `waitForConns`, `closeActiveConns`, `WaitForIdle`, `handleConn` with its echo loop | calls `ConnHandler` in a goroutine per connection or in a pool; closes connections under running handlers |
| HTTP connection handler (`internal/httpserver/handler.go`) | the buffered reader of one connection | `ServeConn`: deadlines, read, answer, write, loop | run by the TCP server; calls `http1` and the application chain |
| Request reading (`internal/http1`: `request`, `request_line`, `header`, `body`, `line_reader`) | the `bufio.Reader` | `ReadRequest` and its parsers | `ServeConn` |
| Response writing (`internal/http1/response.go`) | none, but it owns the body closer | `WriteResponse` | `ServeConn` |
| Rate limit (`internal/httpserver/rate_limit.go`) | `windowStart`, `count` under a mutex | `allow` | one middleware of the chain |
| Middleware chain (`middleware.go`) | what each wrapper's closure creates | `Chain` | built by `appHandler()` for every request |
| Response writer (`response_writer.go`) | status, headers, body or reader and closer | `Write`, `WriteHeader`, `StreamBody`, `SendFile`, `reset`, ... | application, logging, recovery, compression |
| Logging, recovery, compression, auth, CORS, request ID | wrappers; one atomic counter | one middleware each | the chain |
| Router (`router.go`) | segment trie, static map | `HandleMethod`, `ServeHTTP` | is an application |
| Ranges, caching, cookies, SSE, WebSocket, MIME | none | pure functions | used by applications |
| Load test (`internal/loadtest`) | two unbuffered channels, a `WaitGroup`, the `Result` | `Run`, `executeRequest` | `cmd/wbsvload` |

What is hard: the shutdown of `Serve`, where the accept loop, the context
watcher, pool workers, handlers and a helper goroutine interleave around one
mutex, two `WaitGroup`s and a `sync.Once`; the connection loop, where a client
may stall, close or reset at any byte and the server may close under it; state
kept in closures that are rebuilt more often than it seems; and the three-way
handshake of channels in the load test.

What makes each part correct:

* TCP server: limits on open connections and running handlers hold; shutdown
  misses no connection and ends; `Serve` leaves nothing behind and reports the
  truth.
* HTTP connection: requests are framed exactly, responses are in order, nothing
  follows a response after which the stream is out of step, bodies are closed,
  a closed or timed out connection ends the loop.
* Rate limit: no window grants more than its limit; `Retry-After` is exact.
* Response writer and its wrappers: one body, the application's or after a panic
  the recovery's; the replay of the compression changes nothing else; the log
  line tells what is sent, within stated limits; an opened file has an owner.
* Middleware around it: every answer to a permitted origin carries its CORS
  headers, also a refusal or the 500 after a panic; a preflight or an
  unauthorized request never reaches the application.
* Router: a request is served by the newest handler of the most specific fitting
  pattern, with that pattern's parameters, or refused for a reason that the
  registrations give.
* Ranges and validators: exactly the bytes asked for; a 304 only for a copy that
  is current as far as the validator can tell.
* Load test: no request lost or counted twice, no send on a closed channel, nil
  only for a complete test, termination.

## 2. Modules

| Module | Models or states |
|---|---|
| `TcpServer` | `Serve` and all its goroutines, `WaitForIdle`, the clients and the network |
| `ConnService` | what a connection server promises: the abstract specification |
| `TcpServerInv` | the inductive invariant of `TcpServer` |
| `TcpServerProofs` | its proofs, and the proof that `TcpServer` implements `ConnService` |
| `FixedWindow` | the limiter as a value, `allow` as an operator |
| `RateLimit`, `RateLimitProofs` | one shared limiter over time; its proofs |
| `RateLimitChain` | the limiter where the server puts it: in a chain made per request |
| `HttpConn` | `ServeConn` with `ReadRequest` and `WriteResponse` on one connection |
| `HttpConnProofs` | the proofs about its responses and files, then about its requests |
| `HandleConn`, `HandleConnProofs` | `handleConn`: `HttpConn` or the echo loop, and the deferred `Close`; its proofs |
| `ConnHandler` | what `TcpServer` assumes of a handler: the abstract specification of `HandleConn` |
| `ResponseWriter`, `ResponseWriterProofs` | the buffered writer under all middlewares of `cmd/wbsv`, for one request; its proofs |
| `Router`, `RouterProofs` | registration, the segment trie, dispatch; its proofs |
| `ByteRange` | the range operators of `range.go` and the bytes a header denotes |
| `FileResource`, `FileResourceProofs` | a changing file, a client with a copy, ranges and revalidation; its proofs |
| `LoadTest`, `LoadTestProofs` | `loadtest.Run`; its proofs |
| `MCTcpServer`, `MCRateLimit`, `MCRateLimitChain`, `MCHttpConn`, `MCHandleConn`, `MCMessages`, `MCResponseWriter`, `MCRouter`, `MCFileResource`, `MCLoadTest` | small instances for TLC |

Operators whose comment begins with "Mutant of" are plausible mistakes. They
are in no specification; each replaces the operator it is named after to show
that some property notices.

### TcpServer

A step is what one goroutine does between two points at which another can
observe it: a section under `Server.mu`, a channel operation, a `WaitGroup`
call, a `Close`. `pc` is the accept loop; `phase[c]` is the life of connection
`c`, from the listen backlog over `trackConn` and the handler to the deferred
`Close`, the `delete` under the lock and the `wg.Done` after it. `once` is the
body of `shutdownOnce.Do`, run by whoever came first while the other waits;
`waiter` is the helper goroutine of `waitForConns`; `toClose` the snapshot that
`closeActiveConns` closes one by one after it has released the lock.
`Workers = {}` is `HandlerWorkers = 0`. The send on the unbuffered `connJobs`
and its receipt are one step. The handler is abstract: it may return at any
time. A non-positive `GracefulTimeout` needs no action of its own, as its
`select` is `GraceDrained` or `GraceExpired`. `Dial` puts a client into the
listen backlog; `ListenerError` is an `Accept` that fails on an open listener.

### HttpConn

The client sends a script of messages. The unit of the stream is one line or
one byte of a body; `Fill(n)` is a `conn.Read` that returns any `n` of the units
still to come, so every segmentation and every read-ahead occurs. A start line
is its version, a header line its name and value, a response the few facts that
`WriteResponse` branches on (status, reader or buffer, announced and available
length, read error, chunked, closer, malformed header). `Numeral` is what
`parseContentLengthValue` makes of a text, so `1` and `01` agree and `+1` is an
error. A body may be longer than announced: its rest is read as the beginning
of the next request line, with any outcome. `delivered` and `out` are the
histories the properties speak about. A response also says how many files the
application has opened without handing them on (`lost`): `SendFile` opens one,
and `reset`, `Write` and a second `StreamBody` drop it. `openFiles` counts all
open files, `dropped` those that no response carries.

### HandleConn and ConnHandler

`HandleConn` extends `HttpConn` and chooses in its initial state whether a
`ConnHandler` is set. If not, the echo loop runs on the same stream: `EchoRead`
takes any number of units and may deliver the last of them together with the
end of the stream, `EchoWriteFails` writes any part. `CloseConn` is the deferred
`Close`. `ConnHandler` states what `TcpServer` relies on (`HandlerReturn` and its
fairness): the handler returns once its connection is closed, and leaves it
closed. `ImplementsConnHandler` shows that both handlers do, which links the two
models: the fairness that one assumes is a property of the other.

### RateLimit and RateLimitChain

Time is in ticks, `Second` of them to a second, so that rounding shows. The
middleware returns `next` unless limit and window are positive, hence the
assumptions. `RateLimit` is one wrapped handler; `RateLimitChain` follows
`responseForRequest`, which builds the chain anew for every request.

### ResponseWriter

The methods of `bufferedResponseWriter` are operators on its record. Its headers
are, for each name, the sequence of the values, so that repeated headers show; a
value is who set it, or the text where that matters. The order of headers of
different names is left out. A body is the sequence of what was written; to
compress it puts `"gzip"` before it, which the client takes off again where the
encoding is announced (`Decoded`), so compressed and plain bodies are both
compared. `AppHeaders` are the names that the application may pass to
`SetHeader` and `AddHeader`, those of CORS and compression included. `stage`
follows the request through the chain in the order of `cmd/wbsv/main.go`:
`CORS`, `BearerAuth`, `FixedWindowRateLimit`, the application, and on the way
out `Replay` (compression), `Log`, `Respond` (request ID) and `Send`. The
application makes any calls in any order, then returns or panics (`Recover` is
the deferred function of the recovery middleware). With compression in the chain
the inner handlers write to `buffer`, which `Replay` writes through the logging
writer; without it they write to the logging writer (`recorder`), which sees
only the methods it overrides. CORS is outside the compression and always writes
to `recorder`. `Send` is what becomes of the response in `ServeConn`: written
and closed, or dropped. The limiter may allow or refuse (`RateLimit` says when).
Whether a token matches, a preflight is one or an upgrade is valid are facts of
the request. Calls that fail leave the writer alone (`AppCallFails`).

### Router

A path is its segments and whether a slash follows; a pattern's segments have a
kind and a name; a handler is the number of its registration. The trie is a
function from the segments that lead to a node to the node's routes and edges,
edges of a kind oldest first. `insert`, `matchSegments` and `dispatchParams`
follow the code; the properties are stated on the history of registrations
(`Fits`, `Bindings`, `Relevant`, `TriedBefore`) and never look at the trie.
`SpecificFirst` says exactly which of the fitting patterns is served: where two
part, a literal is tried before a parameter before a wildcard; of two parameters
(or wildcards) with different names the one is tried first whose name some
pattern brought to that place first; patterns that differ in a slash only come in
the order of their registration. `DocumentedOrder` is the order that
`docs/router.md` gives, which the code does not keep (section 5).

`matchSegments` calls itself for each child. `search` unfolds these calls one
level of the trie at a time: a list holds matches and calls still to be made, in
the order in which their results are appended, and each round (`nextLevel`)
replaces every call, in its place, by what it appends. The result is the list
that the recursion returns, since a call's results stay together and in place;
`Len + 2` rounds are enough, because each call takes a segment, except the one
for a wildcard at the end. In this form the search is a function of the number of
rounds and can be proved about.

### ByteRange and FileResource

A `Range` header is a form and two numbers, a number that `parseRangeNumber`
refuses is one outside `0..MaxInt`. `Denoted` is the set of bytes that a header
asks for. In `FileResource` the file is rewritten at any tick, `Second` ticks to
a second, so two versions may have the same `Last-Modified`; the client keeps
the last whole file with its validators and sends any of them. The handler is
not part of the repository's code: it is the one that `docs/cache-headers.md`
and `docs/range-requests.md` show, with strong, weak or no tags.

### LoadTest

One variable per goroutine and channel. `executeRequest` is one step with any
outcome and any latency, zero included: `time.Since` is not negative, but it is
zero where the clock is coarse. `latencies` is the history of what was measured.

## 3. Runs

| Run | Instance | Shows |
|---|---|---|
| `tcp_goroutine` | 2 connections, limit 1, no pool | the safety properties, `StopReturns`, `NoGoroutineLeak`, refinement of `ConnService` with its liveness |
| `tcp_pool` | 2 connections, 1 worker, no limit | the inductive invariant; each waited-for connection has one owner; `Serve` returns, and returns clean, while a connection waits for the worker |
| `rate_limit` | limit 2, window 5 ticks, 3 ticks a second, 12 ticks, 7 grants | windows, bursts, `Retry-After` |
| `rate_limit_chain` | limit 1, window 3, 3 requests | **violated**: see findings |
| `http_safety` | 16 first messages, 3 second ones, 12 kinds of answers, up to 3 headers, bodies up to 2 | framing, order of responses, announced close, which files stay open |
| `handler` | 3 scripts, all four combinations of the timeouts, `ServeConn` and echo | the echo is faithful; the handler ends by timeout; it implements `ConnHandler` |
| `response_writer` | any 4 calls, 2 files, statuses 201 and 204, headers `Access-Control-Allow-Origin`, `Content-Encoding`, `Content-Length` and `Vary`, 4 chains, 5 requests, a size limit of 2 | one body, the 500 after a panic, an honest log line, a faithful replay, CORS headers on every answer, refusals that stand |
| `response_files` | any 2 calls, the chain of `cmd/wbsv` | **violated**: see findings |
| `router` | any 3 registrations of 14, 21 requests | the right refusal, the right handler and parameters, the exact order among overlapping patterns |
| `router_docs` | the same | **violated**: see findings |
| `file_resource` | 3 versions, sizes 0, 1 and 3, 2 ticks a second, 4 ticks, 22 ranges | exact ranges, how stale a 304 can be, revalidation |
| `load_test` | 2 workers, 3 requests, latencies 0 to 2, with and without request timeout | conservation, closing order, nil result, latencies, termination |

Why the bounds are enough: with two connections and a limit of one, one can be
served while the other is on its way in, refused, or admitted when the first
has gone, at every stage of the shutdown; with one worker it can be busy while
the second connection is handed off. A window of 5 ticks with 3 ticks to the
second is not a whole number of seconds, and 12 ticks hold two full windows and
a boundary. Two pipelined messages are needed for one to be affected by what
the other left in the stream; sizes of at most 3 headers and 2 bytes lie on
both sides of each limit. Four calls hold a status, a header and two bodies that
replace or extend each other, on both sides of the size limit, or two values of
one header, or the same status and body three times over; the four headers are
those that a middleware also writes, reads or drops, and for any other name
nothing happens to the application's values but the replay; the four chains
have the origin listed, covered by the wildcard with and without credentials, and
no CORS and compression at all. Three registrations hold two patterns that
compete and one that changes either; the patterns overlap in each pair of kinds
and differ in method, slash, parameter name or an empty segment. Three versions
in two seconds hold a rewrite within a second and one across. Three requests on
two workers make a worker come back for a second job, and put a zero latency
before, between and after others. Where section 4 has a
theorem it removes the bounds altogether.

Every run checks for deadlock except `rate_limit_chain`, whose clock and
requests are used up.

### Fairness

`TcpServer`: weak fairness of each goroutine, which the Go scheduler provides.
Nothing is assumed of clients; a handler need only return once its connection
has been closed, because reads and writes then fail, and that is what
`ImplementsConnHandler` shows of `ServeConn` and the echo loop. The grace timer
is part of the shutdown goroutine's fairness. `HandleConn`: weak fairness of the
connection's goroutine without the arrival of data, which is the client's; with
a timeout the pending read or write fails, which is how deadlines work.
`LoadTest`: weak fairness of each goroutine; a request ends only if a timeout is
configured or the context is canceled.

## 4. Proofs

All theorems are for every value of the constants, under the named assumptions
of the modules:

* finite sets of connections and workers, `MaxActiveConns` a natural number (0
  disables it), positive limit and window, at least one request and one worker
  (`validateConfig`);
* `HttpConn`: `Numeral` gives a number or an error, a script is a sequence of
  messages with a line, fields and a body, the application answers with a
  status and the facts that `WriteResponse` reads;
* `ResponseWriter`: the statuses of the application have three digits
  (`WriteResponse` refuses all others), and no client's origin is `*`. An
  origin is a scheme, host and port, or `null`. `corsAllowedOrigin` would repeat
  a literal `*` and add no `Vary`, so without the assumption `CorsOnEveryAnswer`
  is false.

Every inductive invariant below was checked with TLC on the instances of
section 3 before it was proved; that of `Router` without the membership in
`MethodMap`, which TLC cannot evaluate, and for the names in use instead of all
strings.

**TcpServer.** None of the safety properties is inductive. That the force-close
misses nobody (`ForceCloseCoversAll`) needs to know that nothing is tracked
after the flag is set, how far `once` is, and that `wg` and the map count what
the phases say. `IInv` says this in six parts: `LoopInv` (the loop is the only
owner of the connection in hand), `TrackInv` (map and `WaitGroup` agree with
the phases), `ClosedInv`, `OnceInv` (the stage of the shutdown fixes flag,
listener, helper and who is dealt with), `StopInv` (who may have started it),
`PoolInv`. `PoolOwnership` (`OneOwner`) rests on the last: each connection that
`wg.Wait` waits for is with the accept loop or with exactly one live worker, so
none is waited for that nobody will finish, and no worker is kept by one that is
over. One lemma per group of actions proves that its steps keep all parts;
`InvNext` collects them; each property follows from `IInv`. `Refinement` maps
`mode` to the flag and the return of `Serve`, `open` to `activeConns \ closed`
and `ended` to `closed`, and shows that each step is a step of `ConnService` or
a stutter: a `Close` is `End`, whoever calls it, and it is a stutter when the
connection was closed already.

**RateLimit.** `LimiterInv` ties the count to the history: the last `count`
grants are of the current window, all earlier ones of windows that ended before
it began. `BurstBound` then follows from two uses of `WindowLimit`. That
`Retry-After` is exact rests on a lemma about rounding up.

**LoadTest.** `LoadInv` adds to `Conservation` why each channel could be closed.
`LatencyInv` ties the summary to the history: the maximum is that of
`latencies`, the minimum that of the results since the last zero, and the sum
lies between `attempts` times any lower bound and `attempts` times the maximum.
`SummaryIsTrue` (`LatencySummary`) follows: the average lies between the least
latency and the greatest, and the reported minimum is at most the average if no
request took zero time.

**FileResource.** `RangesAreExact` needs no strengthening but the file's size:
`ParserExact` shows form by form that the parser's interval is the denoted set,
or that there is an error, or that the file is empty and `StreamRange` refuses;
`GetExact` carries this over to the answer. For the validators `CopyInv`
says that the copy has the tag and the second of the version it was made from,
and that an older version was written no later; with `SecondsMonotonic` (cutting
to seconds keeps the order) this gives `NotModifiedIsRight` and
`RevalidationAlwaysWorks`.

**HttpConn.** `ConnInv` has three parts: the types, `OutInv` (for each program
counter, how many responses there are for how many requests, and what the
current one may have become) and `FileInv` (beside the dropped files one is open
only between the answer and the end of `WriteResponse`). From it follow the order
of responses, the announced close and `FilesAreAccounted`: between two requests
exactly those files are open that a response did not carry, and on return at most
one more, whose response was never begun. Framing needs more:
`FrameInv` says which message is being read and how many units of it have been
taken, at every point where `ReadRequest` can wait or give up, while read-ahead
may have any length. The position of a message in the stream is defined by
recursion over the script (`Before`). Its two equations are proved by induction
over the natural numbers in the form of a statement about sets: the set of
counterexamples has no least element (`LeastElement`, `SetInduction`, which rest
on the library's `WFMin`). This form has no operator parameter, so the provers
can use it; the proofs about `Router` use it as well.

**HandleConn.** `EchoInv` ties `echoed` to what was read and to the part of it
that a write still holds. `HandlerRefinement` is the safety part of
`ImplementsConnHandler`: each step of `ServeConn`, of the echo loop, of the
network and of the deferred `Close` is a step of `ConnHandler` or leaves it
unchanged.

**ResponseWriter.** `AllInv` describes what each stage may have written.
`WriterInv`: both writers are good (one body, closed with its reader), nothing
inside the compression announces its encoding (`Plain`), and the recorder has
only the headers of CORS (`Untouched`, `Outer`) until the replay; without
compression the buffer is never used. `RefusalInv`: who gets past CORS and
authentication, and what the others are answered. `PanicInv`, `ReplayInv`,
`LogInv` and `CorsInv` carry a panic, the replay, the log line and the CORS
headers from where they happen to where the response is taken. Headers come in
layers (`Layers`): for each name the values of CORS, then those of the handler,
then that of the compression; all four properties about headers follow from
this and from what is known of each layer (`OuterFields`, `GzipHeaders`). Each
method of the writers has a lemma on its fields; a call of the application,
whichever it is, has the result `AppResult` (`AppStep`), so that the invariant is
argued once for all of them; then there is one lemma per middleware step.
`RespondPanic`, `RespondLogged`, `RespondReplayed`, `RespondCors` and
`RespondRefusal` are what the properties say when the response is taken.
`MaxCalls` is any number and `AppHeaders` any set, so the theorems hold for any
number of calls and any headers of the application.

`ServeConnUnderHandleConn` carries the theorems about `HttpConn` over to
`HandleSpec`: with a `ConnHandler` set, each step of `handleConn` is a step of
`HttpConn` or the deferred `Close`, and that one keeps both invariants
(`CloseKeeps`).

**Router.** `RouterInv` says that the tables are the registrations in another
form (`Known`), and that the last answer is right. `Known` has these parts:
`TrieOK` (the nodes are closed under prefixes, and the edges of a node name
exactly its children, each once), `RoutesOK` (a node has the patterns that lead
to it, in the order of their first registration, with the newest handler for
each method), `NodesOpened` and `EdgesInOrder` (each node was added by a
registration, and the edges of a kind stand in the order in which they were
added), `ParamsKnown` (every pattern with parameters is there) and `StaticOK`
(the same for the map of exact paths). The argument has three parts.

* *Registration* (`KnownStatic`, `KnownParam`). `InsertShape` says what `insert`
  makes of each node; from it follow that the trie stays a tree (`InsertTrie`)
  and that the node of the pattern gets one entry or keeps it (`EntriesGrow`).
* *Search* (`SearchFinds`). By induction over the rounds, the list after round
  `k` holds the calls for the nodes of depth `k` that the path reaches and the
  routes of the shallower ones that it fits, each with the index and the
  parameters that the node alone determines (`item`), so none come from another
  branch; and it is sorted. Sorted means: of two elements that part at some edge
  the first has the more specific kind there, or the same kind and the older
  edge, and routes of the same node stand in their order. A round keeps this
  because what a call appends is below its node (`BeforeBelow`) and sorted
  itself (`CallContributes`). What `FlattenSeq` and the parameters of a node
  amount to are lemmas (`Flattened`, `BoundChild`). At the end no call is left.
* *Dispatch* (`DispatchIsRight`, `StaticIsRight`). The first match that has the
  method is served; with `MatchIs` (the matches are the registered patterns that
  fit, best first) and the order this is what `RouteFound`, `HandlerRight` and
  `SpecificFirst` say.

The assumptions are the types of patterns and requests, and that no request has
the empty method, which a request line cannot have. Nothing is assumed of the
patterns themselves, valid or not, nor of their number.

Every invariant that a run checks is thus also proved. Only model-checked: the
liveness properties (`StopReturns`, `NoGoroutineLeak`, the fairness part of
`ImplementsConnService` and of `ImplementsConnHandler`, `HandlerTimesOut`,
`RunReturns`), which are outside what the prover handles.

## 5. Findings

1. *The rate limit is not enforced* (`rate_limit_chain`). `responseForRequest`
   calls `appHandler()` per request, `Chain` applies the middleware again, and
   applying it creates the limiter. Each request is the first of its own window.
   The limiter itself is correct (section 4).
2. *A file can stay open* (`response_files`). `WriteResponse` is the only place
   that closes a response body, and only the one that the response carries. The
   file of a `SendFile` is lost when a panic resets the writer, when `Write` or
   `StreamBody` replaces it, when `ServeConn` returns before `WriteResponse`
   because the connection was closed in the meantime, and when `WriteResponse`
   refuses the response before its deferred `Close`.
   Within `ServeConn` and `WriteResponse` nothing else is lost (`FilesAccounted`).
   What no `Close` reaches stays open until Go's garbage collector finds the
   `os.File`.
3. *Parameter names decide the order of routes* (`router_docs`).
   `docs/router.md` (74-91) orders overlapping patterns by the kinds of their
   segments from left to right, then by registration. The trie keeps parameters
   of different names on different edges, in the order in which any pattern
   brought them there, and follows one of them to its end before the next. So with
   `/:x/:y` registered before `/:y/b`, a request for `/a/b` goes to the first,
   although the second has a literal there; with `/:x/a`, `/:y` and `/:x` in this
   order `/v` goes to the third, not to the older second. `SpecificFirst` is the
   order that the code does keep.

Also worth knowing: the logging writer overrides `WriteHeader` and `Write`
only, so in a chain without compression a 206, 304 or 416 set inside the
embedded writer is logged as 200; `LoggedIsSent` claims nothing of those calls.
In the chain of `cmd/wbsv` the replay hides this.

In a chain without compression the recovery's reset also wipes the headers that
CORS had set, and an application that sets `Vary` replaces the one of CORS; in
the chain of `cmd/wbsv` the buffer of the compression keeps them apart
(`CorsOnEveryAnswer`).

The log line counts what passed the logging writer's `Write`. Bytes written under
a status without a body (204, 304, 1xx) are logged although `WriteResponse` sends
none, a streamed body is logged as 0 bytes, and with compression it is the
compressed size that is logged, where `docs/handler-model.md` (108-109) says that
bytes written by the application handler are counted. `LoggedIsSent` says
exactly this.

With compression, an application that sets `Access-Control-Allow-Origin` itself
gets it added to that of CORS: the answer then has two, or one for an origin that
is not permitted. `CorsOnEveryAnswer` says which come from whom; an answer in
which the application has no part never has more than one.

In `Run` a minimum of zero means "no result yet". After a request of zero
latency the reported minimum is only that of the later results, and it may exceed
the average; `LatencySummary` says when.

`docs/chunked-transfer.md` (84) says that chunks are refused for an HTTP/1.0
response. The check in `WriteResponse` looks at the response's version, which is
never derived from the request: an HTTP/1.0 client may be sent chunks.

An empty segment of a pattern (`/a//:x`) is dropped by `insert`. A suffix range
of an empty file passes the parser and is refused by `StreamRange`, whose error
the documented handler ignores: the answer is an empty 200, where
`docs/range-requests.md` speaks of 416 for a range that cannot be satisfied.

With the date alone, a client may be told 304 about a version that was replaced
within the same second; `NotModifiedIsCurrent` says exactly that much. A range
number beyond int64 is an error (416) even where the range would end at the end
of the file.

## 6. Not modelled, and the plan

Not modelled: text formatting and validation (cookies, events, MIME, reason
phrases, the WebSocket accept key), logging output, flag parsing and the output
of `wbsvload`, the WebSocket frame layer (the server only answers the
handshake), a second `Serve` on the same `Server`. Cookies and events are
functions from text to text without state: a model of them would repeat their
string handling character by character.

Done, in this order: `TcpServer` with `ConnService` and its proofs;
`FixedWindow`, `RateLimit` and its proofs; `RateLimitChain`; `HttpConn`;
`LoadTest` and its proofs; `ResponseWriter`; `HandleConn` with `ConnHandler`;
`Router`; `ByteRange` and `FileResource` with the proof about ranges; the
remaining middlewares in `ResponseWriter`.

Then, all proofs: the validators of `FileResource`, `EchoFaithful` and the safety
part of `ImplementsConnHandler`, the responses, files and framing of `HttpConn`
and their transfer to `HandleConn`, all properties of `ResponseWriter` and of
`Router`.

Open: a composition of `TcpServer` with one `HandleConn` per connection, which
`ConnHandler` stands for now; a second `Serve` on the same `Server`.
