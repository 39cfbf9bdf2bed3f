------------------------------- MODULE Router -------------------------------
(***************************************************************************)
(* The router of src/internal/httpserver/router.go: static routes in a map *)
(* of exact paths, routes with parameters in a trie of segments.  Routes   *)
(* are registered one after the other and requests are dispatched at any   *)
(* time in between.                                                        *)
(*                                                                         *)
(* A path is the sequence of its segments and whether a slash follows the  *)
(* last one; routePath has removed the query.  The segments of a pattern   *)
(* have a kind and a name.  A handler is the number of its registration.   *)
(***************************************************************************)
EXTENDS Integers, Sequences, SequencesExt

CONSTANTS Registrations,  \* calls of HandleMethod: [method, pattern]
          Requests,       \* [method, path]
          MaxRoutes       \* bound: number of registrations

anyMethod == ""

Kinds   == {"literal", "param", "wildcard"}
Segment == [kind : Kinds, name : STRING]
Pattern == [segs : Seq(Segment), slash : BOOLEAN]
Path    == [segs : Seq(STRING), slash : BOOLEAN]

ASSUME RegistrationAssumption == Registrations \subseteq [method : STRING, pattern : Pattern]
ASSUME RequestAssumption ==
  /\ Requests \subseteq [method : STRING, path : Path]
  /\ \A q \in Requests : q.method # anyMethod
ASSUME BoundAssumption == MaxRoutes \in Nat

VARIABLES registered,  \* history: the accepted registrations
          routes,      \* Router.routes: path -> method -> handler
          paramRoot,   \* the trie: node -> its routes and children
          answer       \* to the last request

vars == <<registered, routes, paramRoot, answer>>

\* Assignments to a map: every entry of new, and one entry.
putAll(map, new) ==
  [k \in DOMAIN map \cup DOMAIN new |-> IF k \in DOMAIN new THEN new[k] ELSE map[k]]

put(map, key, value) == putAll(map, [k \in {key} |-> value])

-----------------------------------------------------------------------------
(* Registration.                                                           *)

hasPathParams(p) == \E i \in DOMAIN p.segs : p.segs[i].kind # "literal"

\* The path that a pattern without parameters stands for.
pathOf(p) == [segs |-> [i \in DOMAIN p.segs |-> p.segs[i].name], slash |-> p.slash]

\* parseRouteSegments: parameters have names, no name twice, a wildcard is last.
validSegments(p) ==
  \A i \in DOMAIN p.segs : p.segs[i].kind # "literal" =>
    /\ p.segs[i].name # ""
    /\ \A j \in DOMAIN p.segs : p.segs[j].kind # "literal" /\ p.segs[j].name = p.segs[i].name => j = i
    /\ p.segs[i].kind = "wildcard" => i = Len(p.segs)

\* A node is named by the segments that lead to it.
emptyNode == [routes |-> <<>>, literal |-> <<>>, param |-> <<>>, wildcard |-> <<>>]

AppendNew(s, x) == IF x \in Range(s) THEN s ELSE Append(s, x)

\* Mutant of child: a new edge goes in front of the others.
childInFront(node, seg) ==
  [node EXCEPT ![seg.kind] = IF seg.name \in Range(@) THEN @ ELSE <<seg.name>> \o @]

\* literalChild, paramChild, wildcardChild: the edges of a kind, oldest first.
child(node, seg) == [node EXCEPT ![seg.kind] = AppendNew(@, seg.name)]

\* Mutant of addRoute: a pattern that is registered again gets a second entry.
addRouteTwice(rs, route) == Append(rs, route)

\* The end of insert: methods of a known pattern are replaced or added.
addRoute(rs, route) ==
  IF \E i \in DOMAIN rs : rs[i].pattern = route.pattern
  THEN [i \in DOMAIN rs |->
          IF rs[i].pattern = route.pattern
          THEN [rs[i] EXCEPT !.methods = putAll(@, route.methods)] ELSE rs[i]]
  ELSE Append(rs, route)

\* insert has no case for an empty literal and passes over it.
edges(p) ==
  FlattenSeq([i \in DOMAIN p.segs |-> IF p.segs[i].name = "" THEN <<>> ELSE <<p.segs[i]>>])

insert(trie, route) ==
  LET segs  == edges(route.pattern)
      way   == {SubSeq(segs, 1, k) : k \in 0..Len(segs)}
      old   == [n \in DOMAIN trie \cup way |-> IF n \in DOMAIN trie THEN trie[n] ELSE emptyNode]
      grown == [n \in DOMAIN old |->
                  IF n \in way /\ n # segs THEN child(old[n], segs[Len(n) + 1]) ELSE old[n]]
  IN [grown EXCEPT ![segs].routes = addRoute(@, route)]

-----------------------------------------------------------------------------
(* Matching.                                                               *)

withRouteParam(params, name, value) == put(params, name, value)

\* A call of matchSegments that is still to be made (route = 0), or a match:
\* a route of the node.  The segments from index on are left to be matched.
visit(n, index, params) == [node |-> n, index |-> index, params |-> params, route |-> 0]

terminalMatches(trie, v) ==
  [i \in DOMAIN trie[v.node].routes |-> [v EXCEPT !.route = i]]

inOrder(lit, par, wild) == lit \o par \o wild

\* What a call appends to the matches, best first: matches and the calls for
\* children.  The value of a parameter is the sequence of segments it takes.
matchSegments(trie, segs, v) ==
  LET node == trie[v.node]
      end  == Len(segs) + 1
      Child(kind, name) == Append(v.node, [kind |-> kind, name |-> name])
      Taken(name, value) == withRouteParam(v.params, name, value)
      lit  == IF segs[v.index] \in Range(node.literal)
              THEN <<visit(Child("literal", segs[v.index]), v.index + 1, v.params)>> ELSE <<>>
      par  == [i \in DOMAIN node.param |->
                 visit(Child("param", node.param[i]), v.index + 1,
                       Taken(node.param[i], <<segs[v.index]>>))]
      wild == [i \in DOMAIN node.wildcard |->
                 visit(Child("wildcard", node.wildcard[i]), end,
                       Taken(node.wildcard[i], SubSeq(segs, v.index, Len(segs))))]
  IN IF v.index = end THEN terminalMatches(trie, v) \o wild ELSE inOrder(lit, par, wild)

\* The recursion, one level of the trie at a time: every call is replaced, in
\* its place, by what it appends.
nextLevel(trie, segs, found) ==
  FlattenSeq([j \in DOMAIN found |->
                IF found[j].route = 0 THEN matchSegments(trie, segs, found[j]) ELSE <<found[j]>>])

search(trie, segs, depth) ==
  LET level[k \in 0..depth] == IF k = 0 THEN <<visit(<<>>, 1, <<>>)>>
                                ELSE nextLevel(trie, segs, level[k - 1])
  IN level[depth]

\* No call goes deeper: each takes a segment, except that for a last wildcard.
match(path) ==
  LET found == search(paramRoot, path.segs, Len(path.segs) + 2)
  IN [j \in DOMAIN found |->
        [methods |-> paramRoot[found[j].node].routes[found[j].route].methods,
         params  |-> found[j].params]]

notFound == [status |-> 404]

methodNotAllowed(methods) == [status |-> 405, allow |-> methods \ {anyMethod}]

usable(methods, method) == DOMAIN methods \cap {method, anyMethod} # {}

\* A handler for the method itself comes before one for any method.
handlerFor(methods, method) == methods[IF method \in DOMAIN methods THEN method ELSE anyMethod]

served(methods, method, params) ==
  [status |-> 200, handler |-> handlerFor(methods, method), params |-> params]

\* Mutant of dispatchParams: only the last pattern's methods are allowed.
dispatchParamsLast(ms, method) ==
  LET ok == {i \in DOMAIN ms : usable(ms[i].methods, method)}
  IN IF ok # {} THEN LET first == ms[CHOOSE i \in ok : \A j \in ok : i <= j]
                     IN served(first.methods, method, first.params)
     ELSE IF ms = <<>> THEN notFound
     ELSE methodNotAllowed(DOMAIN ms[Len(ms)].methods)

\* The loop of ServeHTTP over the matches.
dispatchParams(ms, method) ==
  LET ok == {i \in DOMAIN ms : usable(ms[i].methods, method)}
  IN IF ok # {} THEN LET first == ms[CHOOSE i \in ok : \A j \in ok : i <= j]
                     IN served(first.methods, method, first.params)
     ELSE IF ms = <<>> THEN notFound
     ELSE methodNotAllowed(UNION {DOMAIN ms[i].methods : i \in DOMAIN ms})

ServeHTTP(method, path) ==
  IF path \notin DOMAIN routes THEN dispatchParams(match(path), method)
  ELSE IF usable(routes[path], method) THEN served(routes[path], method, <<>>)
  ELSE methodNotAllowed(DOMAIN routes[path])

-----------------------------------------------------------------------------
none == [answered |-> FALSE]

Init == /\ registered = <<>> /\ routes = <<>>
        /\ paramRoot = [n \in {<<>>} |-> emptyNode]
        /\ answer = none

\* HandleMethod, and Handle with anyMethod.
HandleMethod(method, pattern) ==
  LET h == Len(registered) + 1
  IN /\ h <= MaxRoutes
     /\ answer' = none
     /\ \/ /\ ~hasPathParams(pattern)
           /\ LET path == pathOf(pattern)
                  old == IF path \in DOMAIN routes THEN routes[path] ELSE <<>>
              IN routes' = put(routes, path, put(old, method, h))
           /\ UNCHANGED paramRoot
        \/ /\ hasPathParams(pattern) /\ validSegments(pattern)
           /\ paramRoot' = insert(paramRoot, [pattern |-> pattern, methods |-> put(<<>>, method, h)])
           /\ UNCHANGED routes
     /\ registered' = Append(registered, [method |-> method, pattern |-> pattern])

\* ErrInvalidRoutePath: nothing is registered.
Rejected(pattern) ==
  /\ hasPathParams(pattern) /\ ~validSegments(pattern)
  /\ answer' = none
  /\ UNCHANGED <<registered, routes, paramRoot>>

Serve(q) ==
  /\ answer' = [answered |-> TRUE, request |-> q, result |-> ServeHTTP(q.method, q.path)]
  /\ UNCHANGED <<registered, routes, paramRoot>>

Next == \/ \E r \in Registrations : HandleMethod(r.method, r.pattern) \/ Rejected(r.pattern)
        \/ \E q \in Requests : Serve(q)

Spec == Init /\ [][Next]_vars

-----------------------------------------------------------------------------
(* What a router promises, stated on the registrations and not on the trie. *)

\* The edges e of a pattern fit the segments of a path, and what they bind.
FitsSegs(e, segs) ==
  LET n == Len(e)
      wild == n > 0 /\ e[n].kind = "wildcard"
  IN /\ IF wild THEN Len(segs) >= n - 1 ELSE Len(segs) = n
     /\ \A i \in 1..(IF wild THEN n - 1 ELSE n) :
          e[i].kind = "literal" => e[i].name = segs[i]

Bound(e, segs) ==
  LET At(name) == CHOOSE i \in DOMAIN e : e[i].kind # "literal" /\ e[i].name = name
  IN [name \in {e[i].name : i \in {j \in DOMAIN e : e[j].kind # "literal"}} |->
        IF e[At(name)].kind = "param" THEN <<segs[At(name)]>>
        ELSE SubSeq(segs, At(name), Len(segs))]

Fits(p, path) == FitsSegs(edges(p), path.segs)

Bindings(p, path) == Bound(edges(p), path.segs)

\* The registrations for a path: the exact ones if there are any.
Relevant(path) ==
  LET exact == {i \in DOMAIN registered :
                  ~hasPathParams(registered[i].pattern) /\ pathOf(registered[i].pattern) = path}
      fitting == {i \in DOMAIN registered :
                    hasPathParams(registered[i].pattern) /\ Fits(registered[i].pattern, path)}
  IN IF exact # {} THEN exact ELSE fitting

Methods(S) == {registered[i].method : i \in S}

Answered == answer.answered

\* A request is refused only for a reason that the registrations give: 404 if
\* no pattern fits its path, 405 if some do but none for its method, and then
\* Allow lists the methods of all of them.
RouteFound ==
  Answered =>
    LET q == answer.request
        rel == Relevant(q.path)
        methods == Methods(rel)
    IN answer.result =
         IF rel = {} THEN [status |-> 404]
         ELSE IF methods \cap {q.method, anyMethod} = {} THEN [status |-> 405, allow |-> methods]
         ELSE [answer.result EXCEPT !.status = 200]

\* The handler that runs is the newest one registered for its pattern and
\* method, one for any method only if the pattern has none for this method, and
\* its parameters are what the pattern binds, none left over from a branch of
\* the trie that was tried before.
HandlerRight ==
  Answered /\ answer.result.status = 200 =>
    LET q == answer.request
        h == answer.result.handler
        r == registered[h]
        same == {i \in Relevant(q.path) : registered[i].pattern = r.pattern}
    IN /\ h \in same
       /\ \A i \in same : registered[i].method = r.method => i <= h
       /\ r.method = q.method \/ (r.method = anyMethod /\ q.method \notin Methods(same))
       /\ answer.result.params = IF hasPathParams(r.pattern) THEN Bindings(r.pattern, q.path)
                                                             ELSE <<>>

Rank(e, i) == IF i > Len(e) THEN 0
              ELSE CASE e[i].kind = "literal" -> 1 [] e[i].kind = "param" -> 2 [] OTHER -> 3

\* The first registration of pattern p, and the first that took the first k of
\* the edges e, which is the one that added the last of them to its node.
First(p) == CHOOSE i \in DOMAIN registered :
              /\ registered[i].pattern = p
              /\ \A j \in 1..i - 1 : registered[j].pattern # p

Opener(e, k) ==
  LET Opens(i) == LET p == registered[i].pattern
                  IN hasPathParams(p) /\ Len(edges(p)) >= k /\ \A j \in 1..k : edges(p)[j] = e[j]
  IN CHOOSE i \in DOMAIN registered : Opens(i) /\ \A j \in 1..i - 1 : ~Opens(j)

\* Edges e are tried before f: where they part, a literal comes before a
\* parameter before a wildcard, and an end before all of them; two parameters or
\* two wildcards come in the order in which any patterns brought them there.
TriedBefore(e, f) ==
  LET part == {i \in 1..Len(e) + Len(f) + 1 : i > Len(e) \/ i > Len(f) \/ e[i] # f[i]}
      at   == CHOOSE i \in part : \A j \in part : i <= j
  IN \/ Rank(e, at) < Rank(f, at)
     \/ Rank(e, at) = Rank(f, at) /\ Opener(e, at) < Opener(f, at)

\* Of the patterns that could serve a request the one that does is determined by
\* the history of registrations: it is tried before each other one, and among
\* patterns that differ in a slash only it was the first to be registered.
SpecificFirst ==
  Answered /\ answer.result.status = 200 =>
    LET q == answer.request
        p == registered[answer.result.handler].pattern
    IN \A c \in Relevant(q.path) :
         LET o == registered[c].pattern
         IN registered[c].method \in {q.method, anyMethod} =>
              IF edges(p) = edges(o) THEN First(p) <= First(o) ELSE TriedBefore(edges(p), edges(o))

\* "The router checks segments from left to right and treats literal segments as
\* more specific than parameters, and parameters as more specific than wildcards
\* ... If two routes have the same specificity, registration order remains the
\* final tie-breaker." (docs/router.md:74-91)
DocumentedOrder ==
  Answered /\ answer.result.status = 200 =>
    LET q == answer.request
        p == registered[answer.result.handler].pattern
    IN \A c \in Relevant(q.path) :
         LET o == registered[c].pattern
             e == edges(p)
             f == edges(o)
             Differ(i) == i \in DOMAIN e \cap DOMAIN f /\ e[i].kind # f[i].kind
         IN registered[c].method \in {q.method, anyMethod} =>
              /\ \A i \in DOMAIN e : Differ(i) /\ (\A j \in 1..i - 1 : ~Differ(j)) =>
                   Rank(e, i) < Rank(f, i)
              /\ (Len(e) = Len(f) /\ \A i \in DOMAIN e : ~Differ(i)) => First(p) <= First(o)
=============================================================================
