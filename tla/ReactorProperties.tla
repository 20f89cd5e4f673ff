-------------------------- MODULE ReactorProperties --------------------------
(***************************************************************************)
(* What the server must guarantee, over the state of Reactor.tla.          *)
(***************************************************************************)
EXTENDS Reactor

Byte == (Nat \ {0}) \X (Nat \ {0})

StreamingBody == [response : Nat \ {0}, cursor : Nat, remaining : Nat]

TcpConnection == [peer : Client, addr : Addr, outbound : BufferOf(Byte),
                  streamingBody : StreamingBody \cup {None},
                  closeAfterFlush : BOOLEAN]

Parser == [owner : Client, buf : Seq(Tokens)]

Link == [state : {"idle", "backlog", "open", "closed"}, rx : Seq(Tokens),
         fin : BOOLEAN, rst : BOOLEAN, unread : Nat, lost : BOOLEAN]

Event == [fd : Fd \cup {Listener}, peer : Client \cup {None}, readable : BOOLEAN,
          writable : BOOLEAN, error : BOOLEAN, hangup : BOOLEAN]

TypeOK ==
    /\ backend \in {"epoll", "kqueue", "select"}
    /\ up \in BOOLEAN /\ running \in BOOLEAN /\ exits \in Nat
    /\ connections \in [Fd -> TcpConnection \cup {None}]
    /\ interest \in [Fd -> {"none", "read", "readwrite"}]
    /\ batch \in SUBSET Event
    /\ parsers \in [Addr -> Parser \cup {None}]
    /\ link \in [Client -> Link]
    /\ script \in [Client -> Seq(Tokens)]
    /\ sent \in [Client -> Seq(Byte)]
    /\ answered \in [Client -> Seq(Answers)]

\* "No connection", "no parser" and "no body" are told apart from every real one.
ASSUME NoneAssumption ==
    /\ None \notin TcpConnection /\ None \notin Parser
    /\ None \notin StreamingBody /\ None \notin Answers

Live == {f \in Fd : connections[f] # None}

-----------------------------------------------------------------------------
(* Bookkeeping that must agree across the loop, the poller, the HTTP layer  *)
(* and the kernel.                                                          *)

\* The poller watches exactly the live connections, and watches for
\* writability exactly while something is pending (EventLoop.cpp:167): an
\* unwatched pending write would never be sent, a watched idle one would spin.
PollerTracksConnections ==
    \A f \in Fd : interest[f] = IF connections[f] = None THEN "none"
                                ELSE IF hasPendingWrites(connections[f])
                                     THEN "readwrite" ELSE "read"

\* An event still to be handled describes the live connection at its descriptor
\* and no other, although descriptors are reused within a batch; so the check
\* for a stale event (EventLoop.cpp:115-121) is never needed as long as the
\* poller merges the events of a descriptor (KqueuePoller.cpp:102-123).
EventsMatchConnections ==
    \A e \in batch : e.fd # Listener =>
        e.fd \in Live /\ connections[e.fd].peer = e.peer

\* Every parser belongs to the live connection at its address and has been fed
\* that client's bytes only, although addresses are reused (main.cpp:148-183).
ParserOwnership ==
    \A a \in Addr : parsers[a] # None =>
        \E f \in Live : connections[f].addr = a /\ connections[f].peer = parsers[a].owner

\* Every open socket is owned by exactly one connection and every connection
\* owns an open socket: none is leaked, none is closed twice.
SocketsOwned ==
    /\ \A f \in Live : link[connections[f].peer].state = "open"
    /\ \A f, g \in Live : f # g => /\ connections[f].peer # connections[g].peer
                                   /\ connections[f].addr # connections[g].addr
    /\ \A c \in Client : link[c].state = "open" => \E f \in Live : connections[f].peer = c

\* A connection whose response is out does not stay open: between events every
\* connection that is to close after its flush still has something to flush.
NoLinger == \A f \in Live : connections[f].closeAfterFlush => hasPendingWrites(connections[f])

\* Between any two events the tables of the event loop, the poller, the parser
\* map and the kernel's sockets agree (EventLoop.cpp:74-180, main.cpp:140-175).
Bookkeeping ==
    /\ PollerTracksConnections /\ EventsMatchConnections
    /\ ParserOwnership /\ SocketsOwned /\ NoLinger

-----------------------------------------------------------------------------
(* What the client sees.                                                    *)

\* What the connection will still send of its response.
Pending(conn) ==
    readableView(conn.outbound) \o
    (IF conn.streamingBody = None THEN <<>>
     ELSE Units(conn.streamingBody.response, conn.streamingBody.cursor,
                conn.streamingBody.remaining))

\* While a connection has answered one request, what it has sent and what it
\* still holds is that response: no unit lost, repeated or out of order,
\* through partial sends, refills and compactions.
ResponseIntact ==
    \A f \in Live : LET c == connections[f].peer IN
        /\ answered[c] = <<>> => sent[c] = <<>> /\ Pending(connections[f]) = <<>>
        /\ Len(answered[c]) = 1 =>
              sent[c] \o Pending(connections[f]) = Wire(1, answered[c][1])

\* A streamed response never occupies more memory than its head or three
\* chunks, whatever the length of the file and the speed of the client, not
\* even in the middle of the next flush, when the buffer has been refilled and
\* nothing has been sent yet.
StreamMemoryBounded ==
    \A f \in Live : answered[connections[f].peer] = <<"stream">> =>
        Len(refill(connections[f]).outbound.storage) <= Max2(HeadLen, 3 * Chunk - 2)

\* main.cpp:177-179: "One response per connection (docs/adr/0009) -- any
\* further buffered bytes (a pipelined next request) are simply never read".
OneResponse == \A c \in Client : Len(answered[c]) <= 1

\* The clients that send nothing after a request that gets an answer.
PatientClient ==
    {c \in Client : \A i \in DOMAIN Script[c] :
                       Script[c][i] \in Answers => i = Len(Script[c])}

\* What the abstract specification of the exchange sees of one client: how far
\* it is, the request being answered, how much is out, and whether it left.
Stage(c) ==
    IF link[c].state # "closed"
    THEN IF answered[c] = <<>> THEN "waiting" ELSE "answering"
    ELSE IF answered[c] # <<>> /\ sent[c] = Wire(1, answered[c][1])
         THEN "complete" ELSE "aborted"

Request(c) == IF answered[c] = <<>> THEN None ELSE answered[c][1]

Delivered(c) == Len(sent[c])

Gone(c) == link[c].fin \/ link[c].rst

ExchangeStage     == [c \in PatientClient |-> Stage(c)]
ExchangeRequest   == [c \in PatientClient |-> Request(c)]
ExchangeDelivered == [c \in PatientClient |-> Delivered(c)]
ExchangeGone      == [c \in PatientClient |-> Gone(c)]

AnswerTotal(r) == HeadLen + BodyLen(r)

Exchange == INSTANCE HttpExchange WITH
    Client    <- PatientClient,
    Total     <- AnswerTotal,
    Nothing   <- None,
    stage     <- ExchangeStage,
    request   <- ExchangeRequest,
    delivered <- ExchangeDelivered,
    gone      <- ExchangeGone,
    alive     <- up

\* For every client that waits for its answer, whatever the others send, the
\* event loop, its buffers and its poller implement the exchange: one answer, in
\* order, and a close only after its last unit unless the client left or the
\* process ended (EventLoop.cpp:100-175, TcpConnection.cpp:30-75).
ImplementsExchange == Exchange!Spec

-----------------------------------------------------------------------------
(* Liveness.                                                                *)

HasRequest(c) == \E i \in DOMAIN Script[c] : Script[c][i] \in Answers

\* The client has the whole response in hand.
Served(c) == /\ answered[c] # <<>>
             /\ sent[c] = Wire(1, answered[c][1])
             /\ link[c].unread = 0 /\ ~link[c].rst /\ ~link[c].lost

\* A client that sends a request, however fragmented, and keeps reading, however
\* slowly, gets the whole response, and its connection is then closed.
EveryRequestServed ==
    \A c \in Client \ Quits : HasRequest(c) =>
        (link[c].state = "backlog" ~> Served(c) /\ link[c].state = "closed")

\* The server lets go of every client that closes or resets its connection.
LeaversReleased ==
    \A c \in Client : (link[c].state = "open" /\ (link[c].fin \/ link[c].rst))
                          ~> link[c].state = "closed"
=============================================================================
