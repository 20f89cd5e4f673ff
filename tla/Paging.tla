------------------------------- MODULE Paging --------------------------------
(***************************************************************************)
(* The limit and offset query parameters of every list endpoint:           *)
(* parsePagination() (server/src/api/Api.cpp) and queryInt()               *)
(* (server/src/api/QueryString.cpp), and what SQLite makes of LIMIT and    *)
(* OFFSET.  A parameter is NotGiven, Unparsable, or an integer.            *)
(***************************************************************************)
EXTENDS Integers, Sequences

CONSTANTS
    NotGiven,      \* the parameter is not in the query string
    Unparsable,    \* it is there, but is not an integer that fits 64 bits
    DefaultLimit,  \* 100 in the code
    MaxLimit       \* 500 in the code

ASSUME PagingAssumption ==
    /\ DefaultLimit \in 1..MaxLimit /\ MaxLimit \in Nat
    /\ NotGiven # Unparsable /\ NotGiven \notin Int /\ Unparsable \notin Int

\* queryInt(): absent is not an error, unparsable is.
invalid(raw) == raw = Unparsable

\* std::clamp(limit, 1, 500).
clamp(n) == IF n < 1 THEN 1 ELSE IF n > MaxLimit THEN MaxLimit ELSE n

\* parsePagination(), for parameters that are not invalid.
parsePagination(limit, offset) ==
    [limit  |-> IF limit = NotGiven THEN DefaultLimit ELSE clamp(limit),
     offset |-> IF offset = NotGiven \/ offset < 0 THEN 0 ELSE offset]

\* LIMIT page.limit OFFSET page.offset over the ordered rows.
pageOf(rows, page) ==
    LET last == page.offset + page.limit
    IN  SubSeq(rows, page.offset + 1, IF last < Len(rows) THEN last ELSE Len(rows))
=============================================================================
