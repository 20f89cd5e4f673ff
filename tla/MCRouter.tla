------------------------------ MODULE MCRouter -------------------------------
(***************************************************************************)
(* Router with the server's own table (server/src/api/Api.cpp) and with    *)
(* the tables of tests/unit/http/RouterTest.cpp that stress it.            *)
(***************************************************************************)
EXTENDS Router, TLC

CONSTANT MaxTail   \* segments after /api/v1, at most

\* "addRoute throws on a duplicate", and HEAD registered explicitly.
TestTables == {
    <<Endpoint("GET", <<Lit("tracks")>>), Endpoint("GET", <<Lit("tracks")>>)>>,
    <<Endpoint("HEAD", <<Lit("tracks"), Par("id")>>), Endpoint("POST", <<Lit("tracks")>>)>>,
    <<Endpoint("HEAD", <<Lit("tracks")>>), Endpoint("GET", <<Lit("tracks")>>)>> }

MCTables == {registerApiRoutes} \cup TestTables

Methods == {"GET", "HEAD", "POST", "PUT", "DELETE", "OPTIONS"}
Words == {"", "tracks", "playlists", "stream", "{id}", "7"}
Tails == UNION {[1..n -> Words] : n \in 0..MaxTail}
Paths == {<<"api", "v1">> \o t : t \in Tails} \cup {<<"", "api", "", "v1", "status">>, <<"search">>}

MCRequests == [method : Methods, path : Paths]
=============================================================================
