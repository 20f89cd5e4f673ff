------------------------------ MODULE MCReactor ------------------------------
EXTENDS ReactorProperties, TLC

CONSTANTS c1, c2, c3

\* A fragmented stream request, a client that pipelines, and one whose
\* request is malformed.
MixedScript == c1 :> <<"part", "stream">> @@ c2 :> <<"stream", "head">> @@ c3 :> <<"bad">>

\* Two clients that send one complete request each.
ServedScript == c1 :> <<"part", "stream">> @@ c2 :> <<"part", "json">>

\* Two clients, one of which pipelines.
PipelinedScript == c1 :> <<"stream", "json">> @@ c2 :> <<"bad", "part">>

\* Descriptors are interchangeable, and so are addresses.
Symmetry == Permutations(Fd) \cup Permutations(Addr)
=============================================================================
