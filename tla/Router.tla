------------------------------- MODULE Router --------------------------------
(***************************************************************************)
(* PathRouter (server/src/http/Router.cpp) and the table that              *)
(* registerApiRoutes() (server/src/api/Api.cpp) builds: the routes are     *)
(* registered one by one at startup, then requests are dispatched.         *)
(*                                                                         *)
(* A path is a sequence of what stands between its slashes, so an empty    *)
(* member is a doubled or trailing slash.  A segment of a pattern is a     *)
(* literal or a {name}.                                                    *)
(***************************************************************************)
EXTENDS Integers, Sequences, FiniteSetsExt

CONSTANTS
    Tables,     \* the sequences of addRoute() calls a program may make
    Requests    \* the requests clients send: [method, path]

Segment == [param : BOOLEAN, text : STRING]
Route == [method : STRING, segments : Seq(Segment)]

\* No pattern of a program names two parameters alike.
ASSUME RouterAssumption ==
    /\ \A table \in Tables :
          /\ table \in Seq(Route)
          /\ \A k \in DOMAIN table : \A i, j \in DOMAIN table[k].segments :
                /\ table[k].segments[i].param /\ table[k].segments[i] = table[k].segments[j]
                => i = j
    /\ \A r \in Requests : r \in [method : STRING, path : Seq(STRING)]

VARIABLES
    calls,      \* the addRoute() calls of this program
    routes,     \* routes_
    up,         \* "starting", "serving", or "threw" (uncaught logic_error)
    request,    \* the request being served, or None
    response    \* what dispatch() returned for it

routerVars == <<calls, routes, up, request, response>>

None == [outcome |-> "none"]

Lit(s) == [param |-> FALSE, text |-> s]
Par(s) == [param |-> TRUE, text |-> s]

Under(tail) == <<Lit("api"), Lit("v1")>> \o tail
Endpoint(method, tail) == [method |-> method, segments |-> Under(tail)]

\* registerStatusRoute() ... registerPlaylistRoutes(), in their order.
registerApiRoutes == <<
    Endpoint("GET", <<Lit("status")>>),
    Endpoint("GET", <<Lit("artists")>>),
    Endpoint("GET", <<Lit("artists"), Par("id")>>),
    Endpoint("GET", <<Lit("albums")>>),
    Endpoint("GET", <<Lit("albums"), Par("id")>>),
    Endpoint("GET", <<Lit("tracks")>>),
    Endpoint("GET", <<Lit("tracks"), Par("id")>>),
    Endpoint("GET", <<Lit("tracks"), Par("id"), Lit("stream")>>),
    Endpoint("GET", <<Lit("tracks"), Par("id"), Lit("artwork")>>),
    Endpoint("GET", <<Lit("search")>>),
    Endpoint("GET", <<Lit("playlists")>>),
    Endpoint("GET", <<Lit("playlists"), Par("id")>>),
    Endpoint("POST", <<Lit("playlists")>>),
    Endpoint("PUT", <<Lit("playlists"), Par("id")>>),
    Endpoint("DELETE", <<Lit("playlists"), Par("id")>>),
    Endpoint("POST", <<Lit("playlists"), Par("id"), Lit("tracks")>>),
    Endpoint("DELETE", <<Lit("playlists"), Par("id"), Lit("tracks"), Par("trackId")>>) >>

RouterInit == /\ calls \in Tables /\ routes = <<>> /\ up = "starting"
              /\ request = None /\ response = None

-----------------------------------------------------------------------------

Empty == ""

\* splitPath(): runs of slashes separate, empty segments are dropped.
splitPath(path) ==
    LET segments[i \in 0..Len(path)] ==
            IF i = 0 THEN <<>>
            ELSE IF path[i] = Empty THEN segments[i - 1] ELSE Append(segments[i - 1], path[i])
    IN  segments[Len(path)]

\* Two routes that addRoute() does not accept together.
duplicates(a, b) == a.method = b.method /\ a.segments = b.segments

\* addRoute(): throws on a duplicate, and nothing in main() catches it.
addRoute ==
    /\ up = "starting" /\ Len(routes) < Len(calls)
    /\ LET route == calls[Len(routes) + 1]
       IN  \/ /\ \E i \in DOMAIN routes : duplicates(routes[i], route)
              /\ up' = "threw" /\ routes' = routes
           \/ /\ \A i \in DOMAIN routes : ~duplicates(routes[i], route)
              /\ routes' = Append(routes, route) /\ up' = up
    /\ UNCHANGED <<calls, request, response>>

\* registerApiRoutes() has returned and the server listens.
Listen ==
    /\ up = "starting" /\ Len(routes) = Len(calls)
    /\ up' = "serving"
    /\ UNCHANGED <<calls, routes, request, response>>

-----------------------------------------------------------------------------

\* Mutant: the pattern may be a prefix of the path.
matched_Prefix(route, segments) ==
    /\ Len(route.segments) <= Len(segments)
    /\ \A i \in DOMAIN route.segments :
          route.segments[i].param \/ route.segments[i].text = segments[i]

\* The inner loop of dispatch(): as many segments, and each literal is equal.
matched(route, segments) ==
    /\ Len(route.segments) = Len(segments)
    /\ \A i \in DOMAIN route.segments :
          route.segments[i].param \/ route.segments[i].text = segments[i]

\* params.emplace(): a name that occurs twice keeps its first value.
captured(route, segments) ==
    LET params == {i \in DOMAIN route.segments : route.segments[i].param}
    IN  [n \in {route.segments[i].text : i \in params} |->
            segments[Min({i \in params : route.segments[i].text = n})]]

\* HEAD matches GET routes only.
methodMatches(method, route) ==
    IF method = "HEAD" THEN route.method = "GET" ELSE route.method = method

\* The routes of the loop, in the order of registration, whose path matches.
pathMatches(r) == {i \in DOMAIN routes : matched(routes[i], splitPath(r.path))}

\* After the loop: 405 if some route had the path.
refuse(r) == [outcome |-> IF pathMatches(r) # {} THEN "405" ELSE "404"]

\* dispatch(): the first route that matches handles the request.
dispatch(r) ==
    LET hits == {i \in pathMatches(r) : methodMatches(r.method, routes[i])}
        first == routes[Min(hits)]
    IN  IF hits = {} THEN refuse(r)
        ELSE [outcome |-> "handled", route |-> first,
              params |-> captured(first, splitPath(r.path))]

Dispatch(r) ==
    /\ up = "serving" /\ request = None
    /\ request' = r /\ response' = dispatch(r)
    /\ UNCHANGED <<calls, routes, up>>

\* The response goes to writeHttpResponse(), and the loop to another request.
Reply ==
    /\ request # None
    /\ request' = None /\ response' = None
    /\ UNCHANGED <<calls, routes, up>>

RouterNext == \/ addRoute
              \/ Listen
              \/ \E r \in Requests : Dispatch(r)
              \/ Reply

RouterSpec == RouterInit /\ [][RouterNext]_routerVars

-----------------------------------------------------------------------------

Served == up = "serving" /\ request # None

\* The words of a path, counted off its slashes.
WordsOf(path) ==
    LET solid == {p \in DOMAIN path : path[p] # Empty}
        rank(p) == Cardinality({q \in solid : q <= p})
    IN  [k \in 1..Cardinality(solid) |-> path[CHOOSE p \in solid : rank(p) = k]]

\* A pattern with values in the place of its parameters.
filled(route, values) ==
    [k \in DOMAIN route.segments |-> LET s == route.segments[k]
                                     IN  IF s.param THEN values[s.text] ELSE s.text]

parameters(route) == {s.text : s \in {t \in Range(route.segments) : t.param}}

\* A request is handled by the endpoint whose template, with the captured
\* parameters put back in, is the path that was asked for; and for no request
\* do two endpoints of the server's table compete, so that the order in which
\* registerApiRoutes() registers them decides nothing (Router.cpp:64-96).
HandledByItsEndpoint ==
    Served /\ response.outcome = "handled" =>
        /\ WordsOf(request.path) = filled(response.route, response.params)
        /\ calls = registerApiRoutes =>
              \A i \in pathMatches(request) :
                  methodMatches(request.method, routes[i]) => routes[i] = response.route

\* The path is the route's pattern for some values of its parameters.
spells(route, path) ==
    \E values \in [parameters(route) -> Range(path)] : WordsOf(path) = filled(route, values)

\* 404 means that no endpoint has the path under any method, 405 that one has
\* it, but not for this method (Router.cpp:98-104, Router.hpp:33-34); whatever
\* slashes are doubled or trailing.
RefusalsAreTrue ==
    LET path == request.path
        method == IF request.method = "HEAD" THEN "GET" ELSE request.method
    IN  Served =>
            /\ response.outcome = "404" <=> \A i \in DOMAIN calls : ~spells(calls[i], path)
            /\ response.outcome = "405" =>
                  \A i \in DOMAIN calls : spells(calls[i], path) => calls[i].method # method

\* HEAD gets what GET gets, the same handler or the same refusal, even where
\* a route is registered for HEAD itself (Router.cpp:50-59, 86-92).
HeadAsGet ==
    Served /\ request.method = "HEAD" =>
        response = dispatch([request EXCEPT !.method = "GET"])

\* Startup ends with an exception exactly when a (method, pattern) pair is
\* registered twice (Router.cpp:39-44); the server's own table never does.
OnlyDuplicatesThrow ==
    LET twice == \E i, j \in DOMAIN calls : i # j /\ calls[i] = calls[j]
    IN  /\ up = "threw" => twice
        /\ up = "serving" => ~twice
        /\ calls = registerApiRoutes => ~twice

\* The router's answers are those of the table of endpoints, without regard to
\* the order of registration (Router.cpp:30-105).
DispatchesByTable == HandledByItsEndpoint /\ RefusalsAreTrue /\ HeadAsGet /\ OnlyDuplicatesThrow
=============================================================================
