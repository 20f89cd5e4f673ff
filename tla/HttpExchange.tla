---------------------------- MODULE HttpExchange ----------------------------
(***************************************************************************)
(* What a client may expect of the server (docs/adr/0007 and 0009): on each *)
(* connection at most one request is answered, its answer is delivered from *)
(* its first to its last unit, and the server ends the connection only when *)
(* the whole answer is out, unless the client left or the process ended.    *)
(***************************************************************************)
EXTENDS Naturals

CONSTANTS Client, Answers, Total(_), Nothing

VARIABLES stage,      \* per client: waiting, answering, complete or aborted
          request,    \* per client: the request being answered, or Nothing
          delivered,  \* per client: how much of the answer is out
          gone,       \* per client: it stopped sending or reset the connection
          alive       \* the server process is running

vars == <<stage, request, delivered, gone, alive>>

Init == /\ stage = [c \in Client |-> "waiting"]
        /\ request = [c \in Client |-> Nothing]
        /\ delivered = [c \in Client |-> 0]
        /\ gone = [c \in Client |-> FALSE]
        /\ alive = FALSE

\* One step of service: accept the request if there was none yet, deliver some
\* more of its answer, and complete the exchange if all of it is out.
Serve(c) ==
    /\ alive /\ stage[c] \in {"waiting", "answering"}
    /\ \E r \in IF stage[c] = "waiting" THEN Answers ELSE {request[c]} :
         /\ request' = [request EXCEPT ![c] = r]
         /\ \E n \in delivered[c] .. Total(r) :
              /\ delivered' = [delivered EXCEPT ![c] = n]
              /\ \/ stage' = [stage EXCEPT ![c] = "answering"]
                 \/ n = Total(r) /\ stage' = [stage EXCEPT ![c] = "complete"]
    /\ UNCHANGED <<gone, alive>>

\* The server drops a client that left.
Drop(c) == /\ alive /\ gone[c] /\ stage[c] \in {"waiting", "answering"}
           /\ stage' = [stage EXCEPT ![c] = "aborted"]
           /\ UNCHANGED <<request, delivered, gone, alive>>

Leave(c) == gone' = [gone EXCEPT ![c] = TRUE]
            /\ UNCHANGED <<stage, request, delivered, alive>>

Start == ~alive /\ alive' = TRUE /\ UNCHANGED <<stage, request, delivered, gone>>

\* The process ends; exchanges under way end with it.  A client whose whole
\* answer happens to be out already has all of it.
Die == /\ alive /\ alive' = FALSE
       /\ \E ended \in SUBSET {c \in Client : stage[c] \in {"waiting", "answering"}} :
             stage' = [c \in Client |->
                IF c \notin ended THEN stage[c]
                ELSE IF request[c] # Nothing /\ delivered[c] = Total(request[c])
                     THEN "complete" ELSE "aborted"]
       /\ UNCHANGED <<request, delivered, gone>>

Next == \/ Start \/ Die
        \/ \E c \in Client : Serve(c) \/ Drop(c) \/ Leave(c)

Spec == Init /\ [][Next]_vars
=============================================================================
