------------------------------- MODULE MCNet ---------------------------------
(***************************************************************************)
(* The two self-contained classes of server/src/net: Buffer and            *)
(* ThreadPool.  They share nothing and no property relates them, so a      *)
(* behaviour that exercises one leaves the other as it was constructed.    *)
(***************************************************************************)
EXTENDS Buffer, ThreadPool

CONSTANTS c1, c2, t1, t2, t3, t4, t5

VARIABLE part   \* the class this behaviour exercises

\* All pieces of zero to three bytes.
MCPieces == UNION {[1 .. n -> Byte] : n \in 0 .. 3}

\* The first task of the first client submits two more.
MCClientTasks == [c \in {c1, c2} |-> IF c = c1 THEN <<t1, t2>> ELSE <<t3>>]
MCChildren == [t \in {t1, t2, t3, t4, t5} |-> IF t = t1 THEN <<t4, t5>> ELSE <<>>]

NetInit == Init /\ PoolInit /\ part \in {"buffer", "pool"}

NetNext ==
    \/ part = "buffer" /\ Next /\ UNCHANGED <<poolVars, part>>
    \/ part = "pool" /\ PoolNext /\ UNCHANGED <<buffer, part>>

NetSpec ==
    /\ NetInit /\ [][NetNext]_<<buffer, poolVars, part>>
    /\ part = "pool" => PoolFairness
=============================================================================
