---------------------------- MODULE Reactor_proofs ----------------------------
(***************************************************************************)
(* For any number of clients, descriptors and addresses, any script and any *)
(* chunk and buffer sizes: the bookkeeping of the event loop holds, what a *)
(* connection sends and holds is its response, the memory of a streamed one *)
(* is bounded, and the server implements HttpExchange.                     *)
(***************************************************************************)
EXTENDS ReactorProperties, BufferLemmas

\* A connection of the right type whose outbound cursor is inside its storage.
ConnOK(conn) == conn \in TcpConnection /\ WellFormed(Byte, conn.outbound)

\* What a handler may do to a connection without changing whose it is.
SameOwner(old, new) == new.peer = old.peer /\ new.addr = old.addr

\* A stretch of a response is a sequence of its length.
LEMMA UnitsFacts ==
    ASSUME NEW n \in Nat \ {0}, NEW from \in Nat, NEW count \in Nat
    PROVE  /\ Units(n, from, count) \in Seq(Byte)
           /\ Len(Units(n, from, count)) = count
<1>1. \A i \in 1 .. count : <<n, from + i>> \in Byte
  BY DEF Byte
<1>2. Units(n, from, count) \in [1 .. count -> Byte]
  BY <1>1 DEF Units
<1> QED BY <1>2

\* The lengths of the bodies.
LEMMA BodyLenType == \A r \in Answers : BodyLen(r) \in Nat
  BY SizesAssumption DEF Answers, Requests, BodyLen

\* A buffer can be replaced in a connection.
LEMMA ReplaceOutbound ==
    ASSUME NEW conn, ConnOK(conn), NEW b, WellFormed(Byte, b)
    PROVE  /\ ConnOK([conn EXCEPT !.outbound = b])
           /\ SameOwner(conn, [conn EXCEPT !.outbound = b])
           /\ [conn EXCEPT !.outbound = b].outbound = b
           /\ [conn EXCEPT !.outbound = b].streamingBody = conn.streamingBody
<1>1. b \in BufferOf(Byte) /\ conn \in TcpConnection
  BY DEF WellFormed, ConnOK
<1> QED BY <1>1 DEF ConnOK, SameOwner, TcpConnection

LEMMA QueueWriteOK ==
    ASSUME NEW conn, ConnOK(conn), NEW data \in Seq(Byte)
    PROVE  ConnOK(queueWrite(conn, data)) /\ SameOwner(conn, queueWrite(conn, data))
<1>1. WellFormed(Byte, append(conn.outbound, data))
  BY AppendFacts DEF ConnOK
<1> QED BY <1>1, ReplaceOutbound DEF queueWrite

\* A response is queued without disturbing the connection.
LEMMA WriteResponseOK ==
    ASSUME NEW conn, ConnOK(conn), NEW n \in Nat \ {0}, NEW r \in Answers
    PROVE  /\ ConnOK(writeHttpResponse(conn, n, r))
           /\ SameOwner(conn, writeHttpResponse(conn, n, r))
<1> DEFINE headed == queueWrite(conn, Units(n, 0, HeadLen))
           body   == [response |-> n, cursor |-> HeadLen, remaining |-> FileLen]
           bodied == CASE r = "head"   -> headed
                       [] r = "stream" -> setStreamingBody(headed, body)
                       [] OTHER        -> queueWrite(headed, Units(n, HeadLen, BodyLen(r)))
<1>1. Units(n, 0, HeadLen) \in Seq(Byte) /\ Units(n, HeadLen, BodyLen(r)) \in Seq(Byte)
  BY UnitsFacts, BodyLenType, SizesAssumption
<1>2. ConnOK(headed) /\ SameOwner(conn, headed)
  BY <1>1, QueueWriteOK
<1>3. body \in StreamingBody
  BY SizesAssumption DEF StreamingBody
<1> HIDE DEF headed, body
<1>4. ConnOK(bodied) /\ SameOwner(conn, bodied)
  <2>1. CASE r = "head"
    BY <1>2, <2>1
  <2>2. CASE r = "stream"
    <3>1. /\ ConnOK(setStreamingBody(headed, body))
          /\ SameOwner(conn, setStreamingBody(headed, body))
      BY <1>2, <1>3 DEF ConnOK, SameOwner, setStreamingBody, TcpConnection
    <3>2. bodied = setStreamingBody(headed, body)
      BY <2>2
    <3> QED BY <3>1, <3>2
  <2>3. CASE r # "head" /\ r # "stream"
    <3>1. bodied = queueWrite(headed, Units(n, HeadLen, BodyLen(r)))
      BY <2>3
    <3>2. /\ ConnOK(queueWrite(headed, Units(n, HeadLen, BodyLen(r))))
          /\ SameOwner(headed, queueWrite(headed, Units(n, HeadLen, BodyLen(r))))
      BY <1>1, <1>2, QueueWriteOK
    <3> QED BY <1>2, <3>1, <3>2 DEF SameOwner
  <2> QED BY <2>1, <2>2, <2>3
<1>5. writeHttpResponse(conn, n, r) = [bodied EXCEPT !.closeAfterFlush = TRUE]
  BY DEF writeHttpResponse, headed, body
<1> HIDE DEF bodied
<1> QED BY <1>4, <1>5 DEF ConnOK, SameOwner, TcpConnection

\* Refilling appends to the buffer and moves the body on.
LEMMA RefillOK ==
    ASSUME NEW conn, ConnOK(conn)
    PROVE  ConnOK(refill(conn)) /\ SameOwner(conn, refill(conn))
<1>1. CASE conn.streamingBody = None \/ readableBytes(conn.outbound) >= Chunk
  BY <1>1 DEF refill, SameOwner
<1>2. CASE ~(conn.streamingBody = None \/ readableBytes(conn.outbound) >= Chunk)
  <2> DEFINE body   == conn.streamingBody
             n      == Min2(Chunk, body.remaining)
             filled == append(conn.outbound, Units(body.response, body.cursor, n))
             after  == IF readableBytes(filled) < Chunk THEN None
                       ELSE [body EXCEPT !.cursor = @ + n, !.remaining = @ - n]
  <2>1. /\ body \in StreamingBody
        /\ body.response \in Nat \ {0} /\ body.cursor \in Nat /\ body.remaining \in Nat
    BY <1>2 DEF ConnOK, TcpConnection, StreamingBody
  <2>2. n \in Nat /\ n <= body.remaining
    BY <2>1, SizesAssumption DEF Min2
  <2>3. refill(conn) = [conn EXCEPT !.outbound = filled, !.streamingBody = after]
    BY <1>2 DEF refill
  <2> HIDE DEF n
  <2>4. Units(body.response, body.cursor, n) \in Seq(Byte)
    BY <2>1, <2>2, UnitsFacts
  <2>5. WellFormed(Byte, filled)
    BY <2>4, AppendFacts DEF ConnOK
  <2>6. body.cursor + n \in Nat /\ body.remaining - n \in Nat
    BY <2>1, <2>2
  <2>7. after \in StreamingBody \cup {None}
    BY <2>1, <2>6 DEF StreamingBody
  <2> HIDE DEF filled, after
  <2>8. filled \in BufferOf(Byte) /\ conn \in TcpConnection
    BY <2>5 DEF WellFormed, ConnOK
  <2> QED BY <2>3, <2>5, <2>7, <2>8 DEF ConnOK, SameOwner, TcpConnection
<1> QED BY <1>1, <1>2

\* A flush hands the kernel a sequence that fits, and keeps the connection.
LEMMA FlushOK ==
    ASSUME NEW conn, ConnOK(conn), NEW room \in Nat
    PROVE  /\ ConnOK(flushOutbound(conn, room).conn)
           /\ SameOwner(conn, flushOutbound(conn, room).conn)
           /\ flushOutbound(conn, room).sent \in Seq(Byte)
           /\ Len(flushOutbound(conn, room).sent) \in 0 .. room
<1> DEFINE full == refill(conn)
           n    == Min2(readableBytes(full.outbound), room)
           view == readableView(full.outbound)
<1>1. ConnOK(full) /\ SameOwner(conn, full)
  BY RefillOK
<1>2. /\ view \in Seq(Byte) /\ Len(view) = readableBytes(full.outbound)
      /\ readableBytes(full.outbound) \in Nat
  BY <1>1, ViewFacts DEF ConnOK
<1>3. n \in 0 .. readableBytes(full.outbound) /\ n \in 0 .. room
  BY <1>2 DEF Min2
<1>4. WellFormed(Byte, consume(full.outbound, n))
  BY <1>1, <1>3, ConsumeFacts DEF ConnOK
<1>5. /\ flushOutbound(conn, room).conn = [full EXCEPT !.outbound = consume(full.outbound, n)]
      /\ flushOutbound(conn, room).sent = SubSeq(view, 1, n)
  BY DEF flushOutbound
<1> HIDE DEF full, n, view
<1>6. /\ ConnOK([full EXCEPT !.outbound = consume(full.outbound, n)])
      /\ SameOwner(full, [full EXCEPT !.outbound = consume(full.outbound, n)])
  BY <1>1, <1>4, ReplaceOutbound
<1>7. SubSeq(view, 1, n) \in Seq(Byte) /\ Len(SubSeq(view, 1, n)) = n
  <2>1. n \in Nat /\ n <= Len(view)
    BY <1>2, <1>3
  <2>2. \A i \in 1 .. n : view[i] \in Byte
    BY <1>2, <2>1, ElementOfSeq
  <2> QED BY <2>1, <2>2, SubSeqProperties
<1> QED BY <1>1, <1>3, <1>5, <1>6, <1>7 DEF SameOwner

LEMMA FlushIfOK ==
    ASSUME NEW needed, NEW conn, ConnOK(conn), NEW room \in Nat
    PROVE  /\ ConnOK(flushIf(needed, conn, room).conn)
           /\ SameOwner(conn, flushIf(needed, conn, room).conn)
           /\ flushIf(needed, conn, room).sent \in Seq(Byte)
           /\ Len(flushIf(needed, conn, room).sent) \in 0 .. room
<1>1. CASE needed /\ hasPendingWrites(conn)
  <2>1. flushIf(needed, conn, room) = flushOutbound(conn, room)
    BY <1>1 DEF flushIf
  <2> QED BY <2>1, FlushOK
<1>2. CASE ~(needed /\ hasPendingWrites(conn))
  <2>1. flushIf(needed, conn, room) = [conn |-> conn, sent |-> <<>>]
    BY <1>2 DEF flushIf
  <2>2. <<>> \in Seq(Byte) /\ Len(<<>>) = 0
    OBVIOUS
  <2> QED BY <2>1, <2>2 DEF SameOwner
<1> QED BY <1>1, <1>2

\* The parser's answers are well typed.
LEMMA NextOK ==
    ASSUME NEW buf \in Seq(Tokens), NEW result \in next(buf)
    PROVE  result.request \in Answers /\ result.rest \in Seq(Tokens)
<1>1. CASE Decisive(buf) = {}
  BY <1>1 DEF next, Answers
<1>2. CASE Decisive(buf) # {}
  <2>1. PICK i \in First(buf) :
          result \in LET rest == SubSeq(buf, i + 1, Len(buf)) IN
                     IF buf[i] = "bad"
                     THEN {[status |-> "Error", request |-> "bad", rest |-> buf],
                           [status |-> "Error", request |-> "bad", rest |-> rest]}
                     ELSE {[status |-> "Complete", request |-> buf[i], rest |-> rest]}
    BY <1>2 DEF next
  <2> DEFINE rest == SubSeq(buf, i + 1, Len(buf))
  <2>4. i \in 1 .. Len(buf) /\ buf[i] \in Answers
    BY DEF First, Decisive
  <2>2. rest \in Seq(Tokens)
    <3>1. Len(buf) \in Nat
      BY LenProperties
    <3>2. i \in 0 .. Len(buf)
      BY <2>4, <3>1
    <3> QED BY <3>2, DropFacts DEF Drop
  <2>3. result \in {[status |-> "Error", request |-> "bad", rest |-> buf],
                    [status |-> "Error", request |-> "bad", rest |-> rest],
                    [status |-> "Complete", request |-> buf[i], rest |-> rest]}
    BY <2>1
  <2> HIDE DEF rest
  <2> QED BY <2>2, <2>3, <2>4 DEF Answers
<1> QED BY <1>1, <1>2

-----------------------------------------------------------------------------
(* The inductive invariant: the bookkeeping properties, and what they need  *)
(* to be kept: well-formed buffers, no send buffer beyond its capacity, and *)
(* at most one event per descriptor in a batch.                             *)

CursorsInside == \A f \in Live : WellFormed(Byte, connections[f].outbound)

RoomKept == \A c \in Client : link[c].unread <= SendRoom

OneEventPerFd == \A d, e \in batch : d.fd = e.fd => d = e

IInv == /\ TypeOK /\ CursorsInside /\ RoomKept /\ OneEventPerFd
        /\ PollerTracksConnections /\ EventsMatchConnections
        /\ ParserOwnership /\ SocketsOwned /\ NoLinger

\* What the invariant says of one live connection.
LEMMA LiveFacts ==
    ASSUME IInv, NEW f \in Live
    PROVE  /\ f \in Fd /\ connections[f] # None
           /\ ConnOK(connections[f])
           /\ connections[f].peer \in Client /\ connections[f].addr \in Addr
           /\ link[connections[f].peer] \in Link
           /\ link[connections[f].peer].state = "open"
           /\ link[connections[f].peer].unread \in 0 .. SendRoom
<1>1. f \in Fd /\ connections[f] # None /\ connections[f] \in TcpConnection
  BY DEF IInv, TypeOK, Live
<1>2. connections[f].peer \in Client /\ connections[f].addr \in Addr
  BY <1>1 DEF TcpConnection
<1>3. link[connections[f].peer] \in Link
  BY <1>2 DEF IInv, TypeOK
<1>4. link[connections[f].peer].unread \in Nat
  BY <1>3 DEF Link
<1>5. link[connections[f].peer].unread <= SendRoom
  BY <1>2 DEF IInv, RoomKept
<1> QED BY <1>1, <1>2, <1>3, <1>4, <1>5, SizesAssumption
        DEF IInv, CursorsInside, SocketsOwned, ConnOK

\* The loop closes the connection an event is for.
LEMMA CloseStep ==
    ASSUME IInv, NEW e \in batch, e.fd \in Live, closeConnection(e.fd),
           NEW l \in Link, l.state = "closed", l.unread <= SendRoom,
           link' = [link EXCEPT ![connections[e.fd].peer] = l],
           batch' = batch \ {e},
           sent' \in [Client -> Seq(Byte)], answered' \in [Client -> Seq(Answers)],
           UNCHANGED <<backend, up, running, exits, script>>
    PROVE  IInv'
<1> DEFINE f == e.fd
           conn == connections[f]
<1>1. /\ f \in Fd /\ conn.peer \in Client /\ conn.addr \in Addr
      /\ link[conn.peer].state = "open"
  BY LiveFacts
<1>2. /\ interest' = [interest EXCEPT ![f] = "none"]
      /\ parsers' = [parsers EXCEPT ![conn.addr] = None]
      /\ connections' = [connections EXCEPT ![f] = None]
  BY DEF closeConnection
<1>3. Live' = Live \ {f} /\ \A g \in Live \ {f} : connections'[g] = connections[g]
  BY <1>1, <1>2 DEF Live, IInv, TypeOK
<1>4. \A g \in Live \ {f} : connections[g].peer # conn.peer /\ connections[g].addr # conn.addr
  BY DEF IInv, SocketsOwned
<1>5. TypeOK'
  BY <1>1, <1>2 DEF IInv, TypeOK
<1>6. CursorsInside'
  BY <1>3 DEF IInv, CursorsInside
<1>7. RoomKept'
  BY <1>1 DEF IInv, RoomKept, TypeOK
<1>8. OneEventPerFd'
  BY DEF IInv, OneEventPerFd
<1>9. PollerTracksConnections'
  BY <1>1, <1>2 DEF IInv, PollerTracksConnections, TypeOK
<1>10. EventsMatchConnections'
  <2> SUFFICES ASSUME NEW d \in batch', d.fd # Listener
               PROVE  d.fd \in Live' /\ connections'[d.fd].peer = d.peer
    BY DEF EventsMatchConnections
  <2>1. d \in batch /\ d # e /\ d.fd # f
    BY DEF IInv, OneEventPerFd
  <2>2. d.fd \in Live /\ connections[d.fd].peer = d.peer
    BY <2>1 DEF IInv, EventsMatchConnections
  <2> QED BY <1>3, <2>1, <2>2
<1>11. ParserOwnership'
  <2> SUFFICES ASSUME NEW a \in Addr, parsers'[a] # None
               PROVE  \E g \in Live' : /\ connections'[g].addr = a
                                       /\ connections'[g].peer = parsers'[a].owner
    BY DEF ParserOwnership
  <2>1. a # conn.addr /\ parsers'[a] = parsers[a]
    BY <1>1, <1>2 DEF IInv, TypeOK
  <2>2. PICK g \in Live : connections[g].addr = a /\ connections[g].peer = parsers[a].owner
    BY <2>1 DEF IInv, ParserOwnership
  <2>3. g # f
    BY <2>1, <2>2
  <2> QED BY <1>3, <2>1, <2>2, <2>3
<1>12. SocketsOwned'
  <2>1. \A g \in Live' : link'[connections'[g].peer].state = "open"
    <3> SUFFICES ASSUME NEW g \in Live \ {f}
                 PROVE  link'[connections[g].peer].state = "open"
      BY <1>3
    <3>1. connections[g].peer \in Client /\ link[connections[g].peer].state = "open"
      BY LiveFacts
    <3> QED BY <1>1, <1>4, <3>1 DEF IInv, TypeOK
  <2>2. \A g, h \in Live' : g # h => /\ connections'[g].peer # connections'[h].peer
                                     /\ connections'[g].addr # connections'[h].addr
    BY <1>3 DEF IInv, SocketsOwned
  <2>3. ASSUME NEW c \in Client, link'[c].state = "open"
        PROVE  \E g \in Live' : connections'[g].peer = c
    <3>1. c # conn.peer /\ link[c].state = "open"
      BY <1>1, <2>3 DEF IInv, TypeOK
    <3>2. PICK g \in Live : connections[g].peer = c
      BY <3>1 DEF IInv, SocketsOwned
    <3> QED BY <1>3, <3>1, <3>2
  <2> QED BY <2>1, <2>2, <2>3 DEF SocketsOwned
<1>13. NoLinger'
  BY <1>3 DEF IInv, NoLinger
<1> QED BY <1>5, <1>6, <1>7, <1>8, <1>9, <1>10, <1>11, <1>12, <1>13 DEF IInv

\* The loop keeps the connection an event is for.
LEMMA KeepStep ==
    ASSUME IInv, NEW e \in batch, e.fd \in Live,
           NEW conn, ConnOK(conn), SameOwner(connections[e.fd], conn), ~isDone(conn),
           NEW parser \in Parser \cup {None}, parser # None => parser.owner = conn.peer,
           NEW l \in Link, l.state = "open", l.unread <= SendRoom,
           connections' = [connections EXCEPT ![e.fd] = conn],
           interest' = [interest EXCEPT ![e.fd] = interestFor(conn)],
           parsers' = [parsers EXCEPT ![conn.addr] = parser],
           link' = [link EXCEPT ![conn.peer] = l],
           batch' = batch \ {e},
           sent' \in [Client -> Seq(Byte)], answered' \in [Client -> Seq(Answers)],
           UNCHANGED <<backend, up, running, exits, script>>
    PROVE  IInv'
<1> DEFINE f == e.fd
<1>1. /\ f \in Fd /\ conn.peer \in Client /\ conn.addr \in Addr
      /\ connections[f].peer = conn.peer /\ connections[f].addr = conn.addr
      /\ link[conn.peer].state = "open"
  BY LiveFacts DEF SameOwner
<1>2. conn # None /\ conn \in TcpConnection
  BY NoneAssumption DEF ConnOK
<1>3. /\ Live' = Live /\ connections'[f] = conn
      /\ \A g \in Live \ {f} : connections'[g] = connections[g]
      /\ \A g \in Live : /\ connections'[g].peer = connections[g].peer
                          /\ connections'[g].addr = connections[g].addr
  BY <1>1, <1>2 DEF Live, IInv, TypeOK
<1>4. \A g \in Live \ {f} : connections[g].peer # conn.peer /\ connections[g].addr # conn.addr
  BY <1>1 DEF IInv, SocketsOwned
<1>5. TypeOK'
  <2>1. interestFor(conn) \in {"none", "read", "readwrite"}
    BY DEF interestFor
  <2> QED BY <1>1, <1>2, <2>1 DEF IInv, TypeOK
<1>6. CursorsInside'
  BY <1>3 DEF IInv, CursorsInside, ConnOK
<1>7. RoomKept'
  BY <1>1 DEF IInv, RoomKept, TypeOK
<1>8. OneEventPerFd'
  BY DEF IInv, OneEventPerFd
<1>9. PollerTracksConnections'
  BY <1>1, <1>2 DEF IInv, PollerTracksConnections, TypeOK, interestFor
<1>10. EventsMatchConnections'
  BY <1>3 DEF IInv, EventsMatchConnections
<1>11. ParserOwnership'
  <2> SUFFICES ASSUME NEW a \in Addr, parsers'[a] # None
               PROVE  \E g \in Live' : /\ connections'[g].addr = a
                                       /\ connections'[g].peer = parsers'[a].owner
    BY DEF ParserOwnership
  <2>1. CASE a = conn.addr
    BY <1>1, <1>3, <2>1 DEF IInv, TypeOK
  <2>2. CASE a # conn.addr
    <3>1. parsers'[a] = parsers[a]
      BY <1>1, <2>2 DEF IInv, TypeOK
    <3>2. PICK g \in Live : connections[g].addr = a /\ connections[g].peer = parsers[a].owner
      BY <3>1 DEF IInv, ParserOwnership
    <3> QED BY <1>3, <3>1, <3>2
  <2> QED BY <2>1, <2>2
<1>12. SocketsOwned'
  <2>1. \A c \in Client : link'[c].state = "open" <=> link[c].state = "open"
    BY <1>1 DEF IInv, TypeOK
  <2>2. \A g \in Live : connections[g].peer \in Client
    BY LiveFacts
  <2>3. SocketsOwned
    BY DEF IInv
  <2>4. \A g \in Live' : link'[connections'[g].peer].state = "open"
    <3> SUFFICES ASSUME NEW g \in Live PROVE link'[connections'[g].peer].state = "open"
      BY <1>3
    <3>1. connections'[g].peer = connections[g].peer /\ connections[g].peer \in Client
      BY <1>3, <2>2
    <3>2. link[connections[g].peer].state = "open"
      BY <2>3 DEF SocketsOwned
    <3> QED BY <2>1, <3>1, <3>2
  <2>5. \A g, h \in Live' : g # h => /\ connections'[g].peer # connections'[h].peer
                                     /\ connections'[g].addr # connections'[h].addr
    BY <1>3, <2>3 DEF SocketsOwned
  <2>6. ASSUME NEW c \in Client, link'[c].state = "open"
        PROVE  \E g \in Live' : connections'[g].peer = c
    <3>1. PICK g \in Live : connections[g].peer = c
      BY <2>1, <2>3, <2>6 DEF SocketsOwned
    <3> QED BY <1>3, <3>1
  <2> QED BY <2>4, <2>5, <2>6 DEF SocketsOwned
<1>13. NoLinger'
  BY <1>3 DEF IInv, NoLinger, isDone
<1> QED BY <1>5, <1>6, <1>7, <1>8, <1>9, <1>10, <1>11, <1>12, <1>13 DEF IInv

\* Closing a socket.
LEMMA ClosedFacts ==
    ASSUME NEW l \in Link, l.unread <= SendRoom, NEW lost \in BOOLEAN
    PROVE  /\ Closed(l, lost) \in Link
           /\ Closed(l, lost).state = "closed"
           /\ Closed(l, lost).unread <= SendRoom
<1>1. l.unread \in Nat /\ 0 <= SendRoom
  BY SizesAssumption DEF Link
<1>2. (IF lost THEN 0 ELSE l.unread) \in Nat /\ (IF lost THEN 0 ELSE l.unread) <= SendRoom
  BY <1>1
<1>3. Closed(l, lost) = [l EXCEPT !.state = "closed", !.rx = <<>>, !.lost = lost,
                                   !.unread = IF lost THEN 0 ELSE l.unread]
  BY DEF Closed
<1>4. <<>> \in Seq(Tokens)
  OBVIOUS
<1> DEFINE u == IF lost THEN 0 ELSE l.unread
<1>5. u \in Nat /\ u <= SendRoom
  BY <1>2
<1> HIDE DEF u
<1>6. Closed(l, lost) = [l EXCEPT !.state = "closed", !.rx = <<>>, !.lost = lost, !.unread = u]
  BY <1>3 DEF u
<1> QED BY <1>4, <1>5, <1>6 DEF Link

\* The tail of the loop body keeps the invariant.
LEMMA SettleStep ==
    ASSUME IInv, NEW e \in batch, e.fd \in Live,
           NEW conn, ConnOK(conn), SameOwner(connections[e.fd], conn),
           NEW parser \in Parser \cup {None}, parser # None => parser.owner = conn.peer,
           NEW bytes \in Seq(Byte), link[conn.peer].unread + Len(bytes) <= SendRoom,
           NEW rx \in Seq(Tokens),
           Settle(e.fd, conn, parser, bytes, rx),
           batch' = batch \ {e}, answered' \in [Client -> Seq(Answers)],
           UNCHANGED <<backend, up, running, exits, script>>
    PROVE  IInv'
<1> DEFINE f == e.fd
           c == conn.peer
           l == [link[c] EXCEPT !.rx = rx, !.unread = @ + Len(bytes)]
<1>1. /\ c \in Client /\ connections[f].peer = c /\ connections[f].addr = conn.addr
      /\ link[c] \in Link /\ link[c].state = "open"
      /\ link[c].unread \in 0 .. SendRoom
  BY LiveFacts DEF SameOwner
<1>2. Len(bytes) \in Nat /\ link[c].unread + Len(bytes) \in Nat
  BY <1>1, LenProperties, SizesAssumption
<1>3. l \in Link /\ l.state = "open" /\ l.unread <= SendRoom /\ l.unread \in Nat
  BY <1>1, <1>2 DEF Link
<1>4. sent' \in [Client -> Seq(Byte)]
  <2>1. sent' = [sent EXCEPT ![c] = sent[c] \o bytes]
    BY DEF Settle
  <2>2. sent[c] \o bytes \in Seq(Byte)
    BY <1>1, ConcatProperties DEF IInv, TypeOK
  <2> QED BY <2>1, <2>2 DEF IInv, TypeOK
<1>5. CASE isDone(conn)
  <2>1. PICK lost \in Losses(l) : /\ link' = [link EXCEPT ![c] = Closed(l, lost)]
                                  /\ closeConnection(f)
    BY <1>5 DEF Settle
  <2>2. lost \in BOOLEAN
    BY DEF Losses
  <2> HIDE DEF l
  <2>3. /\ Closed(l, lost) \in Link /\ Closed(l, lost).state = "closed"
        /\ Closed(l, lost).unread <= SendRoom
    BY <1>3, <2>2, ClosedFacts
  <2>4. link' = [link EXCEPT ![connections[e.fd].peer] = Closed(l, lost)]
    BY <1>1, <2>1
  <2> QED BY <1>4, <2>1, <2>3, <2>4, CloseStep
<1>6. CASE ~isDone(conn)
  <2>1. /\ connections' = [connections EXCEPT ![f] = conn]
        /\ interest' = [interest EXCEPT ![f] = interestFor(conn)]
        /\ parsers' = [parsers EXCEPT ![conn.addr] = parser]
        /\ link' = [link EXCEPT ![c] = l]
    BY <1>6 DEF Settle
  <2> HIDE DEF l
  <2> QED BY <1>3, <1>4, <1>6, <2>1, KeepStep
<1> QED BY <1>5, <1>6

\* The event of a live connection is about that connection.
LEMMA EventIsLive ==
    ASSUME IInv, NEW e \in batch, e.fd # Listener
    PROVE  e.fd \in Live
  BY DEF IInv, EventsMatchConnections

LEMMA CloseEventStep ==
    ASSUME IInv, NEW e \in batch, CloseEvent(e) PROVE IInv'
<1>1. e.fd \in Live
  BY EventIsLive DEF CloseEvent
<1> DEFINE c == connections[e.fd].peer
<1>2. PICK lost \in Losses(link[c]) : link' = [link EXCEPT ![c] = Closed(link[c], lost)]
  BY <1>1 DEF CloseEvent, Live
<1>3. lost \in BOOLEAN /\ link[c] \in Link /\ link[c].unread \in 0 .. SendRoom
  BY <1>1, LiveFacts DEF Losses
<1>4. /\ Closed(link[c], lost) \in Link /\ Closed(link[c], lost).state = "closed"
      /\ Closed(link[c], lost).unread <= SendRoom
  <2>1. link[c].unread <= SendRoom
    BY <1>3, SizesAssumption
  <2> QED BY <1>3, <2>1, ClosedFacts
<1>5. /\ closeConnection(e.fd) /\ batch' = batch \ {e}
      /\ UNCHANGED <<backend, up, running, exits, script, sent, answered>>
  BY <1>1 DEF CloseEvent, Live
<1>6. sent' \in [Client -> Seq(Byte)] /\ answered' \in [Client -> Seq(Answers)]
  BY <1>5 DEF IInv, TypeOK
<1> QED BY <1>1, <1>2, <1>4, <1>5, <1>6, CloseStep

LEMMA WriteEventStep ==
    ASSUME IInv, NEW e \in batch, WriteEvent(e) PROVE IInv'
<1>1. e.fd \in Live
  BY EventIsLive DEF WriteEvent
<1> DEFINE conn == connections[e.fd]
           c    == conn.peer
           l    == link[c]
           failed == l.rst /\ e.writable /\ hasPendingWrites(conn)
<1>2. /\ ConnOK(conn) /\ c \in Client /\ conn.addr \in Addr
      /\ l \in Link /\ l.unread \in 0 .. SendRoom
  BY <1>1, LiveFacts
<1>3. /\ batch' = batch \ {e}
      /\ UNCHANGED <<backend, up, running, exits, script, answered>>
  BY DEF WriteEvent
<1>4. answered' \in [Client -> Seq(Answers)]
  BY <1>3 DEF IInv, TypeOK
<1>5. CASE failed
  <2>1. /\ closeConnection(e.fd) /\ link' = [link EXCEPT ![c] = Closed(l, TRUE)]
        /\ sent' = sent
    BY <1>5 DEF WriteEvent
  <2>2. /\ Closed(l, TRUE) \in Link /\ Closed(l, TRUE).state = "closed"
        /\ Closed(l, TRUE).unread <= SendRoom
    <3>1. l.unread <= SendRoom
      BY <1>2, SizesAssumption
    <3> QED BY <1>2, <3>1, ClosedFacts
  <2>3. sent' \in [Client -> Seq(Byte)]
    BY <2>1 DEF IInv, TypeOK
  <2> QED BY <1>1, <1>3, <1>4, <2>1, <2>2, <2>3, CloseStep
<1>6. CASE ~failed
  <2> DEFINE room  == SendRoom - l.unread
             flush == flushIf(e.writable, conn, room)
             parser == parsers[conn.addr]
  <2>1. Settle(e.fd, flush.conn, parser, flush.sent, l.rx)
    BY <1>6 DEF WriteEvent
  <2>2. room \in Nat
    BY <1>2, SizesAssumption
  <2>3. /\ ConnOK(flush.conn) /\ SameOwner(conn, flush.conn)
        /\ flush.sent \in Seq(Byte) /\ Len(flush.sent) \in 0 .. room
    BY <1>2, <2>2, FlushIfOK
  <2>4. parser \in Parser \cup {None} /\ (parser # None => parser.owner = flush.conn.peer)
    <3>1. parser \in Parser \cup {None}
      BY <1>2 DEF IInv, TypeOK
    <3>2. ASSUME parser # None
          PROVE  parser.owner = c
      <4>1. PICK g \in Live : connections[g].addr = conn.addr /\ connections[g].peer = parser.owner
        BY <1>2, <3>2 DEF IInv, ParserOwnership
      <4>2. g = e.fd
        BY <1>1, <4>1 DEF IInv, SocketsOwned
      <4> QED BY <4>1, <4>2
    <3> QED BY <2>3, <3>1, <3>2 DEF SameOwner
  <2>5. l.rx \in Seq(Tokens) /\ flush.conn.peer = c
    BY <1>2, <2>3 DEF Link, SameOwner
  <2> HIDE DEF flush, parser
  <2>6. link[flush.conn.peer].unread + Len(flush.sent) <= SendRoom
    <3> DEFINE k == Len(flush.sent)
               u == l.unread
    <3>1. k \in 0 .. SendRoom - u /\ u \in 0 .. SendRoom /\ SendRoom \in Nat
      BY <1>2, <2>3, SizesAssumption
    <3> HIDE DEF k, u
    <3>2. u + k <= SendRoom
      BY <3>1
    <3> QED BY <2>5, <3>2 DEF k, u
  <2> QED BY <1>1, <1>3, <1>4, <2>1, <2>3, <2>4, <2>5, <2>6, SettleStep
<1> QED BY <1>5, <1>6

\* The parser at the connection's address, or the one feed() creates; what one
\* readInto() takes of the input, what it leaves, and what next() then works on.
ParserOf(conn) == IF parsers[conn.addr] = None THEN [owner |-> conn.peer, buf |-> <<>>]
                                               ELSE parsers[conn.addr]
TakenOf(conn) == Min2(RecvMax, Len(link[conn.peer].rx))
LeftOf(conn) == LET rx == link[conn.peer].rx IN SubSeq(rx, TakenOf(conn) + 1, Len(rx))
FedOf(conn) == ParserOf(conn).buf \o SubSeq(link[conn.peer].rx, 1, TakenOf(conn))
RoomOf(conn) == SendRoom - link[conn.peer].unread

\* The connection after onReadable has dealt with what next() returned.
Dealt(conn, result) ==
    IF result.status # "NeedMoreData"
    THEN writeHttpResponse(conn, Len(answered[conn.peer]) + 1, result.request) ELSE conn

FirstFlush(conn, result) == flushIf(TRUE, Dealt(conn, result), RoomOf(conn))

SecondFlush(e, conn, result) ==
    LET first == FirstFlush(conn, result)
    IN  flushIf(e.writable, first.conn, RoomOf(conn) - Len(first.sent))

\* What an event with input amounts to.
LEMMA ReadEventFacts ==
    ASSUME IInv, NEW e \in batch, ReadEvent(e)
    PROVE  LET conn == connections[e.fd]
               c    == conn.peer
           IN  /\ e.fd \in Live /\ up /\ link[c].rx # <<>>
               /\ ParserOf(conn) \in Parser /\ ParserOf(conn).owner = c
               /\ TakenOf(conn) \in 0 .. Len(link[c].rx)
               /\ LeftOf(conn) \in Seq(Tokens) /\ FedOf(conn) \in Seq(Tokens)
               /\ \E result \in next(FedOf(conn)) :
                    /\ result.request \in Answers /\ result.rest \in Seq(Tokens)
                    /\ answered' = IF result.status # "NeedMoreData"
                                   THEN [answered EXCEPT ![c] = Append(@, result.request)]
                                   ELSE answered
                    /\ Settle(e.fd, SecondFlush(e, conn, result).conn,
                              [ParserOf(conn) EXCEPT !.buf = result.rest],
                              FirstFlush(conn, result).sent \o SecondFlush(e, conn, result).sent,
                              LeftOf(conn))
<1>1. e.fd \in Live
  BY EventIsLive DEF ReadEvent
<1> DEFINE conn == connections[e.fd]
           c    == conn.peer
           l    == link[c]
           n    == Min2(RecvMax, Len(l.rx))
           old  == IF parsers[conn.addr] = None THEN [owner |-> c, buf |-> <<>>]
                                                ELSE parsers[conn.addr]
           room == SendRoom - l.unread
           left == SubSeq(l.rx, n + 1, Len(l.rx))
           fed  == old.buf \o SubSeq(l.rx, 1, n)
<1>2. /\ ConnOK(conn) /\ c \in Client /\ conn.addr \in Addr
      /\ l \in Link /\ l.unread \in 0 .. SendRoom
  BY <1>1, LiveFacts
<1>4. old \in Parser /\ old.owner = c
  <2>1. CASE parsers[conn.addr] = None
    BY <1>2, <2>1 DEF Parser
  <2>2. CASE parsers[conn.addr] # None
    <3>1. old = parsers[conn.addr] /\ old \in Parser
      BY <1>2, <2>2 DEF IInv, TypeOK
    <3>2. PICK g \in Live : connections[g].addr = conn.addr /\ connections[g].peer = old.owner
      BY <1>2, <2>2, <3>1 DEF IInv, ParserOwnership
    <3>3. g = e.fd
      BY <1>1, <3>2 DEF IInv, SocketsOwned
    <3> QED BY <3>1, <3>2, <3>3
  <2> QED BY <2>1, <2>2
<1>5. l.rx \in Seq(Tokens) /\ Len(l.rx) \in Nat /\ n \in 0 .. Len(l.rx)
  <2>1. l.rx \in Seq(Tokens) /\ Len(l.rx) \in Nat
    BY <1>2, LenProperties DEF Link
  <2> QED BY <2>1, SizesAssumption DEF Min2
<1>6. left \in Seq(Tokens)
  <2> HIDE DEF n
  <2> QED BY <1>5, DropFacts DEF Drop
<1>7. fed \in Seq(Tokens)
  <2> HIDE DEF n, old
  <2>1. SubSeq(l.rx, 1, n) \in Seq(Tokens)
    <3>1. \A i \in 1 .. n : l.rx[i] \in Tokens
      BY <1>5, ElementOfSeq
    <3> QED BY <1>5, <3>1, SubSeqProperties
  <2>2. old.buf \in Seq(Tokens)
    BY <1>4 DEF Parser
  <2> QED BY <2>1, <2>2, ConcatProperties
<1> DEFINE wrote(result) ==
              IF result.status # "NeedMoreData"
              THEN writeHttpResponse(conn, Len(answered[c]) + 1, result.request) ELSE conn
<1>8. PICK result \in next(fed) :
        \E first \in {flushIf(TRUE, wrote(result), room)} :
        \E again \in {flushIf(e.writable, first.conn, room - Len(first.sent))} :
            /\ answered' = IF result.status # "NeedMoreData"
                           THEN [answered EXCEPT ![c] = Append(@, result.request)]
                           ELSE answered
            /\ Settle(e.fd, again.conn, [old EXCEPT !.buf = result.rest],
                      first.sent \o again.sent, left)
  BY DEF ReadEvent
<1>9. result.request \in Answers /\ result.rest \in Seq(Tokens)
  <2> HIDE DEF fed
  <2> QED BY <1>7, <1>8, NextOK
<1>10. link[c].rx # <<>> /\ up
  BY DEF ReadEvent, Recv
<1>11. /\ old = ParserOf(conn) /\ n = TakenOf(conn) /\ left = LeftOf(conn)
       /\ fed = FedOf(conn) /\ room = RoomOf(conn)
  BY DEF ParserOf, TakenOf, LeftOf, FedOf, RoomOf
<1>12. /\ wrote(result) = Dealt(conn, result)
       /\ flushIf(TRUE, wrote(result), room) = FirstFlush(conn, result)
  BY <1>11 DEF Dealt, FirstFlush
<1>13. \E first \in {FirstFlush(conn, result)} :
       \E again \in {flushIf(e.writable, first.conn, room - Len(first.sent))} :
            /\ answered' = IF result.status # "NeedMoreData"
                           THEN [answered EXCEPT ![c] = Append(@, result.request)]
                           ELSE answered
            /\ Settle(e.fd, again.conn, [old EXCEPT !.buf = result.rest],
                      first.sent \o again.sent, left)
  BY <1>8, <1>12
<1>14. /\ answered' = IF result.status # "NeedMoreData"
                      THEN [answered EXCEPT ![c] = Append(@, result.request)]
                      ELSE answered
       /\ Settle(e.fd, SecondFlush(e, conn, result).conn, [old EXCEPT !.buf = result.rest],
                 FirstFlush(conn, result).sent \o SecondFlush(e, conn, result).sent, left)
  BY <1>11, <1>13 DEF SecondFlush
<1> HIDE DEF old, n, left, fed, room, wrote
<1> QED BY <1>1, <1>4, <1>5, <1>6, <1>7, <1>8, <1>9, <1>10, <1>11, <1>14

\* What the answer and the two flushes leave of the connection, and send.
LEMMA FlushesOK ==
    ASSUME IInv, NEW e \in batch, e.fd \in Live, NEW result, result.request \in Answers
    PROVE  LET conn  == connections[e.fd]
               first == FirstFlush(conn, result)
               again == SecondFlush(e, conn, result)
           IN  /\ ConnOK(again.conn) /\ SameOwner(conn, again.conn)
               /\ first.sent \in Seq(Byte) /\ Len(first.sent) \in 0 .. RoomOf(conn)
               /\ again.sent \in Seq(Byte)
               /\ Len(again.sent) \in 0 .. RoomOf(conn) - Len(first.sent)
<1> DEFINE conn == connections[e.fd]
           c    == conn.peer
           room == RoomOf(conn)
           answer == Dealt(conn, result)
           first  == FirstFlush(conn, result)
           again  == SecondFlush(e, conn, result)
<1>1. /\ ConnOK(conn) /\ c \in Client /\ link[c].unread \in 0 .. SendRoom
  BY LiveFacts
<1>2. ConnOK(answer) /\ SameOwner(conn, answer)
  <2>1. CASE result.status # "NeedMoreData"
    <3>1. answered[c] \in Seq(Answers)
      BY <1>1 DEF IInv, TypeOK
    <3>2. Len(answered[c]) + 1 \in Nat \ {0}
      BY <3>1, LenProperties
    <3>3. answer = writeHttpResponse(conn, Len(answered[c]) + 1, result.request)
      BY <2>1 DEF Dealt
    <3> QED BY <1>1, <3>2, <3>3, WriteResponseOK
  <2>2. CASE ~(result.status # "NeedMoreData")
    BY <1>1, <2>2 DEF SameOwner, Dealt
  <2> QED BY <2>1, <2>2
<1>3. room \in Nat
  BY <1>1, SizesAssumption DEF RoomOf
<1> HIDE DEF answer
<1>4. /\ ConnOK(first.conn) /\ SameOwner(answer, first.conn)
      /\ first.sent \in Seq(Byte) /\ Len(first.sent) \in 0 .. room
  <2>1. first = flushIf(TRUE, answer, room)
    BY DEF FirstFlush, answer
  <2> HIDE DEF first, room
  <2> QED BY <1>2, <1>3, <2>1, FlushIfOK
<1>5. room - Len(first.sent) \in Nat
  <2> HIDE DEF first, room
  <2> QED BY <1>3, <1>4
<1>6. /\ ConnOK(again.conn) /\ SameOwner(first.conn, again.conn)
      /\ again.sent \in Seq(Byte) /\ Len(again.sent) \in 0 .. room - Len(first.sent)
  <2>1. again = flushIf(e.writable, first.conn, room - Len(first.sent))
    BY DEF SecondFlush
  <2> HIDE DEF first, room, again
  <2> QED BY <1>4, <1>5, <2>1, FlushIfOK
<1>7. SameOwner(conn, again.conn)
  <2> HIDE DEF first, again
  <2> QED BY <1>2, <1>4, <1>6 DEF SameOwner
<1> QED BY <1>4, <1>6, <1>7

LEMMA ReadEventStep ==
    ASSUME IInv, NEW e \in batch, ReadEvent(e) PROVE IInv'
<1> DEFINE conn == connections[e.fd]
           c    == conn.peer
           l    == link[c]
           old  == ParserOf(conn)
           left == LeftOf(conn)
           room == RoomOf(conn)
<1>1. /\ e.fd \in Live /\ old \in Parser /\ old.owner = c /\ left \in Seq(Tokens)
      /\ \E result \in next(FedOf(conn)) :
           /\ result.request \in Answers /\ result.rest \in Seq(Tokens)
           /\ answered' = IF result.status # "NeedMoreData"
                          THEN [answered EXCEPT ![c] = Append(@, result.request)]
                          ELSE answered
           /\ Settle(e.fd, SecondFlush(e, conn, result).conn, [old EXCEPT !.buf = result.rest],
                     FirstFlush(conn, result).sent \o SecondFlush(e, conn, result).sent, left)
  BY ReadEventFacts, Zenon
<1>2. /\ c \in Client /\ l.unread \in 0 .. SendRoom
  BY <1>1, LiveFacts
<1>3. /\ batch' = batch \ {e}
      /\ UNCHANGED <<backend, up, running, exits, script>>
  BY Zenon DEF ReadEvent
<1>4. PICK result \in next(FedOf(conn)) :
           /\ result.request \in Answers /\ result.rest \in Seq(Tokens)
           /\ answered' = IF result.status # "NeedMoreData"
                          THEN [answered EXCEPT ![c] = Append(@, result.request)]
                          ELSE answered
           /\ Settle(e.fd, SecondFlush(e, conn, result).conn, [old EXCEPT !.buf = result.rest],
                     FirstFlush(conn, result).sent \o SecondFlush(e, conn, result).sent, left)
  BY <1>1
<1> DEFINE first  == FirstFlush(conn, result)
           again  == SecondFlush(e, conn, result)
           parser == [old EXCEPT !.buf = result.rest]
           bytes  == first.sent \o again.sent
<1>5. Settle(e.fd, again.conn, parser, bytes, left)
  BY <1>4
<1>6. answered' \in [Client -> Seq(Answers)]
  <2>1. answered \in [Client -> Seq(Answers)] /\ answered[c] \in Seq(Answers)
    BY <1>2 DEF IInv, TypeOK
  <2>2. Append(answered[c], result.request) \in Seq(Answers)
    BY <1>4, <2>1, AppendProperties
  <2> QED BY <1>4, <2>1, <2>2
<1>7. /\ ConnOK(again.conn) /\ SameOwner(conn, again.conn)
      /\ first.sent \in Seq(Byte) /\ Len(first.sent) \in 0 .. room
      /\ again.sent \in Seq(Byte) /\ Len(again.sent) \in 0 .. room - Len(first.sent)
  BY <1>1, <1>4, FlushesOK, Zenon
<1> HIDE DEF old, left, first, again
<1>8. SameOwner(conn, again.conn) /\ again.conn.peer = c
  BY <1>7 DEF SameOwner
<1>9. parser \in Parser /\ parser.owner = again.conn.peer
  BY <1>1, <1>4, <1>8 DEF Parser
<1>10. bytes \in Seq(Byte) /\ Len(bytes) = Len(first.sent) + Len(again.sent)
  BY <1>7, ConcatProperties
<1>11. link[again.conn.peer].unread + Len(bytes) <= SendRoom
  <2> DEFINE j == Len(first.sent)
             k == Len(again.sent)
             u == l.unread
  <2>1. /\ u \in 0 .. SendRoom /\ SendRoom \in Nat
        /\ j \in 0 .. SendRoom - u /\ k \in 0 .. (SendRoom - u) - j
    BY <1>2, <1>7, SizesAssumption DEF RoomOf
  <2>2. link[again.conn.peer].unread = u /\ Len(bytes) = j + k
    BY <1>8, <1>10
  <2> HIDE DEF j, k, u
  <2>3. u + (j + k) <= SendRoom
    BY <2>1
  <2> QED BY <2>2, <2>3
<1> HIDE DEF parser, bytes
<1> QED BY <1>1, <1>3, <1>5, <1>6, <1>7, <1>8, <1>9, <1>10, <1>11, SettleStep

\* accept() puts every new client at a free descriptor and a free address.
LEMMA AcceptStep ==
    ASSUME IInv, NEW e \in batch, Accept(e) PROVE IInv'
<1> DEFINE FreeFd   == {f \in Fd : connections[f] = None}
           FreeAddr == {a \in Addr : \A f \in Fd : connections[f] # None =>
                                                   connections[f].addr # a}
<1>1. PICK place \in [Backlog -> FreeFd \X FreeAddr] :
        /\ \A c, d \in Backlog : c # d => /\ place[c][1] # place[d][1]
                                          /\ place[c][2] # place[d][2]
        /\ connections' = [f \in Fd |->
              IF \E c \in Backlog : place[c][1] = f
              THEN LET c == CHOOSE d \in Backlog : place[d][1] = f
                   IN  NewConnection(c, place[c][2])
              ELSE connections[f]]
        /\ interest' = [f \in Fd |-> IF \E c \in Backlog : place[c][1] = f
                                     THEN "read" ELSE interest[f]]
  BY DEF Accept
<1>2. /\ batch' = batch \ {e}
      /\ link' = [c \in Client |-> IF c \in Backlog THEN [link[c] EXCEPT !.state = "open"]
                                                    ELSE link[c]]
      /\ UNCHANGED <<backend, up, running, exits, parsers, script, sent, answered>>
  BY DEF Accept
<1>3. \A c \in Backlog : /\ c \in Client /\ link[c].state = "backlog"
                         /\ place[c][1] \in FreeFd /\ place[c][2] \in FreeAddr
  BY DEF Backlog
<1> DEFINE New == {place[c][1] : c \in Backlog}
<1>4. \A c \in Backlog : connections'[place[c][1]] = NewConnection(c, place[c][2])
  <2> SUFFICES ASSUME NEW c \in Backlog
               PROVE  connections'[place[c][1]] = NewConnection(c, place[c][2])
    OBVIOUS
  <2> DEFINE b == CHOOSE d \in Backlog : place[d][1] = place[c][1]
  <2>1. b \in Backlog /\ place[b][1] = place[c][1]
    OBVIOUS
  <2>2. b = c
    BY <1>1, <2>1
  <2>3. connections'[place[c][1]] = NewConnection(b, place[b][2])
    BY <1>1, <1>3
  <2> HIDE DEF b
  <2> QED BY <2>2, <2>3
<1>5. \A f \in Fd \ New : connections'[f] = connections[f] /\ interest'[f] = interest[f]
  BY <1>1
<1>6. \A f \in New : f \in FreeFd /\ interest'[f] = "read"
  BY <1>1, <1>3
<1>7. WellFormed(Byte, EmptyBuffer) /\ readableBytes(EmptyBuffer) = 0
  BY DEF WellFormed, EmptyBuffer, BufferOf, readableBytes
<1>8. ASSUME NEW c \in Client, NEW a \in Addr
      PROVE  /\ NewConnection(c, a) \in TcpConnection /\ NewConnection(c, a) # None
             /\ NewConnection(c, a).peer = c /\ NewConnection(c, a).addr = a
             /\ NewConnection(c, a).closeAfterFlush = FALSE
             /\ NewConnection(c, a).outbound = EmptyBuffer
             /\ ~hasPendingWrites(NewConnection(c, a))
  <2>1. NewConnection(c, a) \in TcpConnection
    BY <1>7 DEF NewConnection, TcpConnection, WellFormed
  <2>2. /\ NewConnection(c, a).peer = c /\ NewConnection(c, a).addr = a
        /\ NewConnection(c, a).closeAfterFlush = FALSE
        /\ NewConnection(c, a).outbound = EmptyBuffer
        /\ NewConnection(c, a).streamingBody = None
    BY DEF NewConnection
  <2>3. ~hasPendingWrites(NewConnection(c, a))
    BY <1>7, <2>2 DEF hasPendingWrites
  <2>4. NewConnection(c, a) # None
    BY <2>1, NoneAssumption
  <2> QED BY <2>1, <2>2, <2>3, <2>4
<1>9. \A c \in Backlog : /\ connections'[place[c][1]] \in TcpConnection
                         /\ connections'[place[c][1]] # None
                         /\ connections'[place[c][1]].peer = c
                         /\ connections'[place[c][1]].addr = place[c][2]
                         /\ connections'[place[c][1]].closeAfterFlush = FALSE
                         /\ connections'[place[c][1]].outbound = EmptyBuffer
                         /\ ~hasPendingWrites(connections'[place[c][1]])
  <2> SUFFICES ASSUME NEW c \in Backlog
               PROVE  /\ connections'[place[c][1]] \in TcpConnection
                      /\ connections'[place[c][1]] # None
                      /\ connections'[place[c][1]].peer = c
                      /\ connections'[place[c][1]].addr = place[c][2]
                      /\ connections'[place[c][1]].closeAfterFlush = FALSE
                      /\ connections'[place[c][1]].outbound = EmptyBuffer
                      /\ ~hasPendingWrites(connections'[place[c][1]])
    OBVIOUS
  <2> DEFINE conn == connections'[place[c][1]]
  <2>1. c \in Client /\ place[c][2] \in Addr
    BY <1>3
  <2>2. conn = NewConnection(c, place[c][2])
    BY <1>4
  <2>3. LET new == NewConnection(c, place[c][2]) IN
        /\ new \in TcpConnection /\ new # None
        /\ new.peer = c /\ new.addr = place[c][2]
        /\ new.closeAfterFlush = FALSE /\ new.outbound = EmptyBuffer
        /\ ~hasPendingWrites(new)
    BY <1>8, <2>1, Zenon
  <2> QED BY <2>2, <2>3
<1>10. Live' = Live \cup New /\ Live \cap New = {}
  <2>1. \A f \in New : f \in Fd /\ connections'[f] # None /\ connections[f] = None
    BY <1>6, <1>9
  <2> HIDE DEF New
  <2> QED BY <1>5, <2>1 DEF Live
<1>11. \A f \in Live : connections'[f] = connections[f]
  BY <1>5, <1>10 DEF Live
<1>12. TypeOK'
  <2>1. connections' \in [Fd -> TcpConnection \cup {None}]
    <3>1. \A f \in Fd : connections'[f] \in TcpConnection \cup {None}
      BY <1>5, <1>9 DEF IInv, TypeOK
    <3>2. connections' = [f \in Fd |-> connections'[f]]
      BY <1>1
    <3> QED BY <3>1, <3>2
  <2>2. interest' \in [Fd -> {"none", "read", "readwrite"}]
    BY <1>1 DEF IInv, TypeOK
  <2>3. link' \in [Client -> Link]
    <3>1. \A c \in Client : link[c] \in Link
      BY DEF IInv, TypeOK
    <3>2. ASSUME NEW l \in Link
          PROVE  [l EXCEPT !.state = "open"] \in Link
      BY DEF Link
    <3>3. \A c \in Client : [link[c] EXCEPT !.state = "open"] \in Link
      BY <3>1, <3>2
    <3> QED BY <1>2, <3>1, <3>3
  <2> QED BY <1>2, <2>1, <2>2, <2>3 DEF IInv, TypeOK
<1>13. CursorsInside'
  BY <1>7, <1>9, <1>10, <1>11 DEF IInv, CursorsInside
<1>14. \A c \in Client : link'[c].unread = link[c].unread
  BY <1>2 DEF IInv, TypeOK, Link
<1>15. RoomKept'
  BY <1>14 DEF IInv, RoomKept
<1>16. OneEventPerFd' /\ EventsMatchConnections'
  BY <1>2, <1>10, <1>11 DEF IInv, OneEventPerFd, EventsMatchConnections
<1>17. PollerTracksConnections'
  BY <1>5, <1>6, <1>9 DEF IInv, PollerTracksConnections
<1>18. ParserOwnership'
  BY <1>2, <1>10, <1>11 DEF IInv, ParserOwnership
<1>19. NoLinger'
  BY <1>9, <1>10, <1>11 DEF IInv, NoLinger
<1>20. \A c \in Client : link'[c].state = "open" <=> link[c].state = "open" \/ c \in Backlog
  BY <1>2 DEF IInv, TypeOK, Link
<1>21. SocketsOwned'
  <2>1. SocketsOwned
    BY DEF IInv
  <2>2. \A f \in Live : connections[f].peer \in Client /\ link[connections[f].peer].state = "open"
    BY LiveFacts
  <2>3. \A f \in Live' : link'[connections'[f].peer].state = "open"
    BY <1>3, <1>9, <1>10, <1>11, <1>20, <2>2
  <2>4. ASSUME NEW f \in Live', NEW g \in Live', f # g
        PROVE  /\ connections'[f].peer # connections'[g].peer
               /\ connections'[f].addr # connections'[g].addr
    <3>1. CASE f \in Live /\ g \in Live
      BY <1>11, <2>1, <2>4, <3>1 DEF SocketsOwned
    <3>2. ASSUME NEW h \in Live, NEW c \in Backlog
          PROVE  /\ connections'[h].peer # connections'[place[c][1]].peer
                 /\ connections'[h].addr # connections'[place[c][1]].addr
      BY <1>3, <1>9, <1>11, <2>2 DEF Live
    <3>3. CASE f \in New /\ g \in New
      <4>1. PICK c \in Backlog : f = place[c][1]
        BY <3>3
      <4>2. PICK d \in Backlog : g = place[d][1]
        BY <3>3
      <4>3. c # d
        BY <2>4, <4>1, <4>2
      <4>4. connections'[f].peer = c /\ connections'[f].addr = place[c][2]
        BY <1>9, <4>1
      <4>5. connections'[g].peer = d /\ connections'[g].addr = place[d][2]
        BY <1>9, <4>2
      <4>6. place[c][2] # place[d][2]
        BY <1>1, <4>3
      <4> QED BY <4>3, <4>4, <4>5, <4>6
    <3> QED BY <1>10, <3>1, <3>2, <3>3
  <2>5. ASSUME NEW c \in Client, link'[c].state = "open"
        PROVE  \E f \in Live' : connections'[f].peer = c
    <3>1. CASE c \in Backlog
      BY <1>9, <1>10, <3>1
    <3>2. CASE link[c].state = "open"
      <4>1. PICK f \in Live : connections[f].peer = c
        BY <2>1, <3>2 DEF SocketsOwned
      <4> QED BY <1>10, <1>11, <4>1
    <3> QED BY <1>20, <2>5, <3>1, <3>2
  <2> QED BY <2>3, <2>4, <2>5 DEF SocketsOwned
<1> QED BY <1>12, <1>13, <1>15, <1>16, <1>17, <1>18, <1>19, <1>21 DEF IInv

\* Every event a poller reports is about the live connection at its descriptor,
\* and there is one per descriptor.
LEMMA WaitStep == ASSUME IInv, Wait PROVE IInv'
<1>1. PICK events \in SUBSET Ready : batch' = events
  BY DEF Wait
<1>2. UNCHANGED <<backend, up, running, exits, connections, interest, parsers,
                  link, script, sent, answered>>
  BY DEF Wait
<1>3. \A d \in batch' : \/ d = ListenerEvent
                        \/ \E f \in Watched : d = EventFor(f)
  BY <1>1 DEF Ready
<1>4. ListenerEvent.fd = Listener /\ ListenerEvent \in Event
  BY DEF ListenerEvent, Event
<1>5. ASSUME NEW f \in Watched
      PROVE  /\ f \in Live /\ EventFor(f).fd = f /\ f # Listener
             /\ EventFor(f).peer = connections[f].peer /\ EventFor(f) \in Event
  <2>1. f \in Live /\ f \in Fd
    BY DEF Watched, Live
  <2>2. connections[f].peer \in Client /\ link[connections[f].peer] \in Link
    BY <2>1, LiveFacts
  <2>3. EventFor(f) \in Event
    <3> DEFINE l == link[connections[f].peer]
               r == l.rx # <<>> \/ l.fin \/ l.rst
               w == interest[f] = "readwrite" /\ (l.unread < SendRoom \/ l.rst)
               x == backend = "epoll" /\ l.rst
               h == \/ backend = "epoll" /\ l.rst
                    \/ backend = "kqueue" /\ (l.fin \/ l.rst)
    <3>1. EventFor(f) = [fd |-> f, peer |-> connections[f].peer, readable |-> r,
                         writable |-> w, error |-> x, hangup |-> h]
      BY DEF EventFor
    <3>2. r \in BOOLEAN /\ w \in BOOLEAN /\ x \in BOOLEAN /\ h \in BOOLEAN
      OBVIOUS
    <3> HIDE DEF r, w, x, h
    <3> QED BY <2>1, <2>2, <3>1, <3>2 DEF Event
  <2> QED BY <2>1, <2>3, ClientsAssumption DEF EventFor
<1>6. TypeOK'
  BY <1>2, <1>3, <1>4, <1>5 DEF IInv, TypeOK
<1>7. OneEventPerFd'
  BY <1>3, <1>4, <1>5 DEF OneEventPerFd
<1>8. Live' = Live
  BY <1>2 DEF Live
<1>9. EventsMatchConnections'
  BY <1>2, <1>3, <1>4, <1>5, <1>8 DEF EventsMatchConnections
<1> QED BY <1>2, <1>6, <1>7, <1>8, <1>9
        DEF IInv, CursorsInside, RoomKept, PollerTracksConnections, ParserOwnership,
            SocketsOwned, NoLinger

\* The process ends: nothing is left to be inconsistent.
LEMMA ProcessEndsStep == ASSUME IInv, ProcessEnds PROVE IInv'
<1>1. /\ up' = FALSE /\ running' = FALSE /\ exits' = exits + 1 /\ batch' = {}
      /\ connections' = [f \in Fd |-> None] /\ interest' = [f \in Fd |-> "none"]
      /\ parsers' = [a \in Addr |-> None]
      /\ UNCHANGED <<backend, script, sent, answered>>
  BY DEF ProcessEnds
<1>2. ASSUME NEW c \in Client
      PROVE  /\ link'[c] \in Link /\ link'[c].unread <= SendRoom
             /\ link'[c].state # "open"
  <2>1. link[c] \in Link /\ link[c].unread <= SendRoom
    BY DEF IInv, TypeOK, RoomKept
  <2>2. link'[c] = CASE link[c].state = "open"    -> Closed(link[c], link[c].rx # <<>>)
                     [] link[c].state = "backlog" -> Closed(link[c], TRUE)
                     [] OTHER                     -> link[c]
    BY DEF ProcessEnds
  <2>3. CASE link[c].state = "open"
    <3> DEFINE lost == link[c].rx # <<>>
    <3>1. link'[c] = Closed(link[c], lost) /\ lost \in BOOLEAN
      BY <2>2, <2>3
    <3> HIDE DEF lost
    <3> QED BY <2>1, <3>1, ClosedFacts
  <2>4. CASE link[c].state = "backlog"
    <3>1. link'[c] = Closed(link[c], TRUE)
      BY <2>2, <2>4
    <3> QED BY <2>1, <3>1, ClosedFacts
  <2>5. CASE link[c].state # "open" /\ link[c].state # "backlog"
    BY <2>1, <2>2, <2>5
  <2> QED BY <2>3, <2>4, <2>5
<1>3. link' \in [Client -> Link]
  <2>1. link' = [c \in Client |-> link'[c]]
    BY DEF ProcessEnds
  <2> QED BY <1>2, <2>1
<1>4. Live' = {}
  BY <1>1 DEF Live
<1>5. TypeOK'
  <2>1. exits + 1 \in Nat
    BY DEF IInv, TypeOK
  <2> QED BY <1>1, <1>3, <2>1 DEF IInv, TypeOK
<1> QED BY <1>1, <1>2, <1>4, <1>5
        DEF IInv, CursorsInside, RoomKept, OneEventPerFd, PollerTracksConnections,
            EventsMatchConnections, ParserOwnership, SocketsOwned, NoLinger

\* A client acts on its own socket only, and never opens or closes it for the
\* server.
LEMMA ClientStep ==
    ASSUME IInv, NEW c \in Client, NEW l \in Link, l.unread <= SendRoom,
           l.state = "open" <=> link[c].state = "open",
           link' = [link EXCEPT ![c] = l],
           script' \in [Client -> Seq(Tokens)],
           UNCHANGED <<serverVars, sent, answered>>
    PROVE  IInv'
<1>1. UNCHANGED <<backend, up, running, exits, connections, interest, batch, parsers,
                  sent, answered>>
  BY DEF serverVars
<1>2. Live' = Live
  BY <1>1 DEF Live
<1>3. TypeOK'
  BY <1>1 DEF IInv, TypeOK
<1>4. RoomKept'
  BY DEF IInv, RoomKept, TypeOK
<1>5. \A d \in Client : link'[d].state = "open" <=> link[d].state = "open"
  BY DEF IInv, TypeOK
<1>6. \A f \in Live : connections[f].peer \in Client
  BY LiveFacts
<1>7. SocketsOwned'
  <2>1. SocketsOwned
    BY DEF IInv
  <2> QED BY <1>1, <1>2, <1>5, <1>6, <2>1 DEF SocketsOwned
<1> QED BY <1>1, <1>2, <1>3, <1>4, <1>7
        DEF IInv, CursorsInside, OneEventPerFd, PollerTracksConnections,
            EventsMatchConnections, ParserOwnership, NoLinger

LEMMA ClientActionStep ==
    ASSUME IInv, NEW c \in Client,
           Connect(c) \/ Send(c) \/ Receive(c) \/ HalfClose(c) \/ Reset(c)
    PROVE  IInv'
<1> DEFINE l == link[c]
<1>1. /\ l \in Link /\ l.unread <= SendRoom /\ l.unread \in Nat /\ l.rx \in Seq(Tokens)
      /\ link \in [Client -> Link] /\ script \in [Client -> Seq(Tokens)]
  <2>1. l \in Link /\ l.unread <= SendRoom
    BY DEF IInv, TypeOK, RoomKept
  <2> QED BY <2>1 DEF Link, IInv, TypeOK
<1>2. CASE Connect(c)
  <2> DEFINE k == [l EXCEPT !.state = "backlog"]
  <2>1. k \in Link /\ k.unread <= SendRoom /\ k.state # "open" /\ l.state # "open"
    BY <1>1, <1>2 DEF Link, Connect
  <2>2. link' = [link EXCEPT ![c] = k] /\ UNCHANGED <<serverVars, script, sent, answered>>
    BY <1>2 DEF Connect
  <2> HIDE DEF k
  <2> QED BY <1>1, <2>1, <2>2, ClientStep
<1>3. CASE Send(c)
  <2> DEFINE k == [l EXCEPT !.rx = Append(@, Head(script[c]))]
  <2>1. script[c] \in Seq(Tokens) /\ script[c] # <<>>
    BY <1>1, <1>3 DEF Send
  <2>2. Head(script[c]) \in Tokens /\ Tail(script[c]) \in Seq(Tokens)
    BY <2>1, HeadTailProperties
  <2>3. Append(l.rx, Head(script[c])) \in Seq(Tokens)
    BY <1>1, <2>2, AppendProperties
  <2>4. k \in Link /\ k.unread <= SendRoom /\ k.state = l.state
    BY <1>1, <2>3 DEF Link
  <2>5. /\ link' = [link EXCEPT ![c] = k]
        /\ script' = [script EXCEPT ![c] = Tail(script[c])]
        /\ UNCHANGED <<serverVars, sent, answered>>
    BY <1>3 DEF Send
  <2>6. script' \in [Client -> Seq(Tokens)]
    BY <1>1, <2>2, <2>5
  <2> HIDE DEF k
  <2> QED BY <2>4, <2>5, <2>6, ClientStep
<1>4. CASE Receive(c)
  <2> DEFINE k == [l EXCEPT !.unread = @ - 1]
  <2>1. l.unread > 0
    BY <1>4 DEF Receive
  <2>2. l.unread - 1 \in Nat /\ l.unread - 1 <= SendRoom
    BY <1>1, <2>1, SizesAssumption
  <2>3. k \in Link /\ k.unread <= SendRoom /\ k.state = l.state
    BY <1>1, <2>2 DEF Link
  <2>4. link' = [link EXCEPT ![c] = k] /\ UNCHANGED <<serverVars, script, sent, answered>>
    BY <1>4 DEF Receive
  <2> HIDE DEF k
  <2> QED BY <1>1, <2>3, <2>4, ClientStep
<1>5. CASE HalfClose(c)
  <2> DEFINE k == [l EXCEPT !.fin = TRUE]
  <2>1. k \in Link /\ k.unread <= SendRoom /\ k.state = l.state
    BY <1>1 DEF Link
  <2>2. link' = [link EXCEPT ![c] = k] /\ UNCHANGED <<serverVars, script, sent, answered>>
    BY <1>5 DEF HalfClose
  <2> HIDE DEF k
  <2> QED BY <1>1, <2>1, <2>2, ClientStep
<1>6. CASE Reset(c)
  <2> DEFINE k == [l EXCEPT !.rst = TRUE, !.rx = <<>>, !.unread = 0]
  <2>1. 0 \in Nat /\ 0 <= SendRoom /\ <<>> \in Seq(Tokens)
    BY SizesAssumption
  <2>2. k \in Link /\ k.unread <= SendRoom /\ k.state = l.state
    BY <1>1, <2>1 DEF Link
  <2>3. link' = [link EXCEPT ![c] = k] /\ UNCHANGED <<serverVars, script, sent, answered>>
    BY <1>1, <1>6 DEF Reset
  <2> HIDE DEF k
  <2> QED BY <1>1, <2>2, <2>3, ClientStep
<1> QED BY <1>2, <1>3, <1>4, <1>5, <1>6

\* A step that touches only the loop's flags.
LEMMA FlagStep ==
    ASSUME IInv, up' \in BOOLEAN, running' \in BOOLEAN,
           UNCHANGED <<backend, exits, connections, interest, batch, parsers,
                       link, script, sent, answered>>
    PROVE  IInv'
<1>1. Live' = Live
  BY DEF Live
<1>2. TypeOK'
  BY DEF IInv, TypeOK
<1> QED BY <1>1, <1>2
        DEF IInv, CursorsInside, RoomKept, OneEventPerFd, PollerTracksConnections,
            EventsMatchConnections, ParserOwnership, SocketsOwned, NoLinger

LEMMA InitIInv == Init => IInv
<1> SUFFICES ASSUME Init PROVE IInv
  OBVIOUS
<1>1. Live = {}
  BY DEF Init, Live
<1>2. NewLink \in Link /\ NewLink.unread = 0 /\ NewLink.state = "idle"
  BY DEF NewLink, Link
<1>3. /\ link = [c \in Client |-> NewLink] /\ batch = {} /\ exits = 0
      /\ connections = [f \in Fd |-> None] /\ interest = [f \in Fd |-> "none"]
      /\ parsers = [a \in Addr |-> None] /\ script = Script
      /\ sent = [c \in Client |-> <<>>] /\ answered = [c \in Client |-> <<>>]
      /\ backend \in {"epoll", "kqueue", "select"} /\ up = FALSE /\ running = FALSE
  BY DEF Init
<1>4. <<>> \in Seq(Byte) /\ <<>> \in Seq(Answers) /\ 0 \in Nat
  OBVIOUS
<1>5. TypeOK
  BY <1>2, <1>3, <1>4, ClientsAssumption, Zenon DEF TypeOK
<1>6. RoomKept
  BY <1>2, <1>3, SizesAssumption DEF RoomKept
<1>7. SocketsOwned
  BY <1>1, <1>2, <1>3 DEF SocketsOwned
<1> QED BY <1>1, <1>3, <1>5, <1>6, <1>7
        DEF IInv, CursorsInside, OneEventPerFd, PollerTracksConnections,
            EventsMatchConnections, ParserOwnership, NoLinger

LEMMA NextIInv == IInv /\ [Next]_vars => IInv'
<1> SUFFICES ASSUME IInv, [Next]_vars PROVE IInv'
  OBVIOUS
<1>1. CASE Start
  BY <1>1, FlagStep DEF Start
<1>2. CASE Wait
  BY <1>2, WaitStep
<1>3. CASE HandleEvent
  BY <1>3, AcceptStep, CloseEventStep, ReadEventStep, WriteEventStep DEF HandleEvent
<1>4. CASE Return \/ Terminate
  BY <1>4, ProcessEndsStep DEF Return, Terminate
<1>5. CASE Stop
  <2>1. up' \in BOOLEAN /\ running' \in BOOLEAN
    BY <1>5 DEF Stop, IInv, TypeOK
  <2> QED BY <1>5, <2>1, FlagStep DEF Stop
<1>6. ASSUME NEW c \in Client,
             Connect(c) \/ Send(c) \/ Receive(c) \/ HalfClose(c) \/ Reset(c)
      PROVE  IInv'
  BY <1>6, ClientActionStep
<1>7. CASE UNCHANGED vars
  <2>1. up' \in BOOLEAN /\ running' \in BOOLEAN
    BY <1>7 DEF vars, IInv, TypeOK
  <2> QED BY <1>7, <2>1, FlagStep DEF vars
<1> QED BY <1>1, <1>2, <1>3, <1>4, <1>5, <1>6, <1>7 DEF Next, Loop

-----------------------------------------------------------------------------
(* What a connection has sent, and what it still holds, is its response.    *)

\* The most a connection that streams its first response ever stores.
StreamBound == Max2(HeadLen, 3 * Chunk - 2)

\* Nothing was ever queued on this connection.
Fresh(conn) == /\ conn.outbound = EmptyBuffer /\ conn.streamingBody = None
               /\ conn.closeAfterFlush = FALSE

\* A connection that sent out and answered requests is still on its way through
\* the response to the first of them.
OnItsWay(conn, out, requests) ==
    /\ requests = <<>> => out = <<>> /\ Fresh(conn)
    /\ Len(requests) = 1 => out \o Pending(conn) = Wire(1, requests[1])
    /\ requests = <<"stream">> => Len(conn.outbound.storage) <= StreamBound

\* Two stretches of a response that meet are one.
LEMMA UnitsConcat ==
    ASSUME NEW n \in Nat \ {0}, NEW from \in Nat, NEW a \in Nat, NEW b \in Nat
    PROVE  Units(n, from, a) \o Units(n, from + a, b) = Units(n, from, a + b)
<1> DEFINE s == Units(n, from, a)
           t == Units(n, from + a, b)
           u == Units(n, from, a + b)
<1>1. /\ s \in Seq(Byte) /\ Len(s) = a /\ t \in Seq(Byte) /\ Len(t) = b
      /\ u \in Seq(Byte) /\ Len(u) = a + b
  BY UnitsFacts
<1>2. /\ \A i \in 1 .. a : s[i] = <<n, from + i>>
      /\ \A i \in 1 .. b : t[i] = <<n, from + a + i>>
      /\ \A i \in 1 .. a + b : u[i] = <<n, from + i>>
  BY DEF Units
<1> HIDE DEF s, t, u
<1>3. /\ s \o t \in Seq(Byte) /\ Len(s \o t) = a + b
      /\ \A i \in 1 .. a + b : (s \o t)[i] = IF i <= a THEN s[i] ELSE t[i - a]
  BY <1>1, ConcatProperties
<1>4. ASSUME NEW i \in 1 .. a + b
      PROVE  (s \o t)[i] = u[i]
  <2>1. CASE i <= a
    <3>1. i \in 1 .. a
      BY <2>1
    <3>2. s[i] = <<n, from + i>> /\ u[i] = <<n, from + i>>
      BY <1>2, <3>1, Zenon
    <3>3. (s \o t)[i] = s[i]
      BY <1>3, <2>1
    <3> QED BY <3>2, <3>3
  <2>2. CASE ~(i <= a)
    <3>1. i - a \in 1 .. b /\ from + a + (i - a) = from + i
      BY <2>2
    <3>2. t[i - a] = <<n, from + i>>
      BY <1>2, <3>1
    <3> QED BY <1>2, <1>3, <2>2, <3>2
  <2> QED BY <2>1, <2>2
<1>5. s \o t = u
  BY <1>1, <1>3, <1>4, SeqEqual
<1> QED BY <1>5 DEF s, t, u

\* Concatenation is associative.
LEMMA ConcatThree ==
    ASSUME NEW S, NEW s \in Seq(S), NEW t \in Seq(S), NEW u \in Seq(S)
    PROVE  (s \o t) \o u = s \o (t \o u)
  BY ConcatAssociative

\* A prefix of a sequence, and how it meets the rest.
LEMMA TakeFacts ==
    ASSUME NEW S, NEW s \in Seq(S), NEW k \in 0 .. Len(s)
    PROVE  /\ SubSeq(s, 1, k) \in Seq(S) /\ Len(SubSeq(s, 1, k)) = k
           /\ \A i \in 1 .. k : SubSeq(s, 1, k)[i] = s[i]
<1>1. Len(s) \in Nat /\ k \in Nat
  BY LenProperties
<1>2. \A i \in 1 .. k : s[i] \in S
  BY <1>1, ElementOfSeq
<1>3. /\ SubSeq(s, 1, k) \in Seq(S)
      /\ Len(SubSeq(s, 1, k)) = IF 1 <= k THEN k - 1 + 1 ELSE 0
      /\ \A i \in 1 .. k - 1 + 1 : SubSeq(s, 1, k)[i] = s[1 + i - 1]
  <2>1. 1 \in Int /\ k \in Int
    BY <1>1
  <2> QED BY <1>2, <2>1, SubSeqProperties
<1>4. k - 1 + 1 = k /\ \A i \in 1 .. k : 1 + i - 1 = i
  BY <1>1
<1> QED BY <1>1, <1>3, <1>4

LEMMA TakeDrop ==
    ASSUME NEW S, NEW s \in Seq(S), NEW k \in 0 .. Len(s)
    PROVE  SubSeq(s, 1, k) \o Drop(s, k) = s
<1> DEFINE a == SubSeq(s, 1, k)
           b == Drop(s, k)
<1>1. /\ a \in Seq(S) /\ Len(a) = k /\ \A i \in 1 .. k : a[i] = s[i]
      /\ b \in Seq(S) /\ Len(b) = Len(s) - k /\ \A i \in 1 .. Len(s) - k : b[i] = s[k + i]
      /\ Len(s) \in Nat /\ k \in Nat
  BY TakeFacts, DropFacts, LenProperties
<1> HIDE DEF a, b
<1>2. /\ a \o b \in Seq(S) /\ Len(a \o b) = Len(a) + Len(b)
      /\ \A i \in 1 .. Len(a) + Len(b) : (a \o b)[i] = IF i <= Len(a) THEN a[i] ELSE b[i - Len(a)]
  BY <1>1, ConcatProperties
<1>3. Len(a) + Len(b) = Len(s)
  BY <1>1
<1>4. ASSUME NEW i \in 1 .. Len(s)
      PROVE  (a \o b)[i] = s[i]
  <2>1. CASE i <= k
    BY <1>1, <1>2, <1>3, <2>1
  <2>2. CASE ~(i <= k)
    <3>1. i - k \in 1 .. Len(s) - k /\ k + (i - k) = i
      BY <1>1, <2>2
    <3> QED BY <1>1, <1>2, <1>3, <2>2, <3>1
  <2> QED BY <2>1, <2>2
<1>5. a \o b = s
  BY <1>1, <1>2, <1>3, <1>4, SeqEqual
<1> QED BY <1>5 DEF a, b

\* What is left of a streaming body.
Rest(body) == IF body = None THEN <<>>
              ELSE Units(body.response, body.cursor, body.remaining)

LEMMA PendingFacts ==
    ASSUME NEW conn, ConnOK(conn)
    PROVE  /\ readableView(conn.outbound) \in Seq(Byte)
           /\ Rest(conn.streamingBody) \in Seq(Byte)
           /\ Pending(conn) = readableView(conn.outbound) \o Rest(conn.streamingBody)
           /\ Pending(conn) \in Seq(Byte)
<1>1. readableView(conn.outbound) \in Seq(Byte)
  BY ViewFacts DEF ConnOK
<1>2. Rest(conn.streamingBody) \in Seq(Byte)
  <2>1. CASE conn.streamingBody = None
    BY <2>1 DEF Rest
  <2>2. CASE conn.streamingBody # None
    <3>1. /\ conn.streamingBody.response \in Nat \ {0}
          /\ conn.streamingBody.cursor \in Nat /\ conn.streamingBody.remaining \in Nat
      BY <2>2 DEF ConnOK, TcpConnection, StreamingBody
    <3> QED BY <2>2, <3>1, UnitsFacts DEF Rest
  <2> QED BY <2>1, <2>2
<1>3. Pending(conn) = readableView(conn.outbound) \o Rest(conn.streamingBody)
  BY DEF Pending, Rest
<1> QED BY <1>1, <1>2, <1>3, ConcatProperties

\* A refill moves units from the file to the buffer, each of them once, and
\* drops the body only when nothing is left of it; the storage stays bounded.
LEMMA RefillKeeps ==
    ASSUME NEW conn, ConnOK(conn)
    PROVE  /\ Pending(refill(conn)) = Pending(conn)
           /\ refill(conn).closeAfterFlush = conn.closeAfterFlush
           /\ Len(conn.outbound.storage) <= StreamBound =>
                 Len(refill(conn).outbound.storage) <= StreamBound
<1>1. CASE conn.streamingBody = None \/ readableBytes(conn.outbound) >= Chunk
  BY <1>1 DEF refill
<1>2. CASE ~(conn.streamingBody = None \/ readableBytes(conn.outbound) >= Chunk)
  <2> DEFINE body   == conn.streamingBody
             n      == Min2(Chunk, body.remaining)
             data   == Units(body.response, body.cursor, n)
             filled == append(conn.outbound, data)
             moved  == [body EXCEPT !.cursor = @ + n, !.remaining = @ - n]
             after  == IF readableBytes(filled) < Chunk THEN None ELSE moved
  <2>1. /\ body \in StreamingBody /\ body # None
        /\ body.response \in Nat \ {0} /\ body.cursor \in Nat /\ body.remaining \in Nat
    BY <1>2 DEF ConnOK, TcpConnection, StreamingBody
  <2>2. /\ n \in Nat /\ n <= body.remaining /\ n <= Chunk
        /\ n = Chunk \/ n = body.remaining
    BY <2>1, SizesAssumption DEF Min2
  <2>3. refill(conn) = [conn EXCEPT !.outbound = filled, !.streamingBody = after]
    BY <1>2 DEF refill
  <2> HIDE DEF n
  <2>4. data \in Seq(Byte) /\ Len(data) = n
    BY <2>1, <2>2, UnitsFacts
  <2> HIDE DEF data
  <2>5. /\ WellFormed(Byte, filled)
        /\ readableView(filled) = readableView(conn.outbound) \o data
    BY <2>4, AppendFacts DEF ConnOK
  <2>6. /\ refill(conn).outbound = filled /\ refill(conn).streamingBody = after
        /\ refill(conn).closeAfterFlush = conn.closeAfterFlush
    <3> HIDE DEF filled, after
    <3> QED BY <2>3 DEF ConnOK, TcpConnection
  <2>7. /\ readableBytes(conn.outbound) \in Nat /\ readableBytes(conn.outbound) < Chunk
        /\ readableView(conn.outbound) \in Seq(Byte)
        /\ Len(readableView(conn.outbound)) = readableBytes(conn.outbound)
    <3>1. readableBytes(conn.outbound) \in Nat
      BY ViewFacts DEF ConnOK
    <3> QED BY <1>2, <3>1, ViewFacts, SizesAssumption DEF ConnOK
  <2>8. readableBytes(filled) = readableBytes(conn.outbound) + n
    <3>1. Len(readableView(filled)) = readableBytes(filled)
      BY <2>5, ViewFacts
    <3> HIDE DEF filled
    <3> QED BY <2>4, <2>5, <2>7, <3>1, ConcatProperties
  <2>9. data \o Rest(after) = Rest(body)
    <3>1. CASE readableBytes(filled) < Chunk
      <4>1. n = body.remaining
        BY <2>2, <2>7, <2>8, <3>1, SizesAssumption
      <4>2. Rest(after) = <<>> /\ Rest(body) = data
        BY <2>1, <3>1, <4>1 DEF Rest, data
      <4> QED BY <2>4, <4>2, ConcatEmptySeq
    <3>2. CASE ~(readableBytes(filled) < Chunk)
      <4>1. after = moved
        BY <3>2
      <4>2. /\ moved.response = body.response /\ moved.cursor = body.cursor + n
            /\ moved.remaining = body.remaining - n /\ moved \in StreamingBody
        <5>1. body.cursor + n \in Nat /\ body.remaining - n \in Nat
          BY <2>1, <2>2
        <5> QED BY <2>1, <5>1 DEF StreamingBody
      <4>3. moved # None
        BY <4>2, NoneAssumption
      <4>4. Rest(after) = Units(body.response, body.cursor + n, body.remaining - n)
        BY <4>1, <4>2, <4>3 DEF Rest
      <4>5. body.remaining - n \in Nat /\ n + (body.remaining - n) = body.remaining
        BY <2>1, <2>2
      <4>6. data \o Units(body.response, body.cursor + n, body.remaining - n)
              = Units(body.response, body.cursor, n + (body.remaining - n))
        <5> DEFINE p == body.response
                   q == body.cursor
                   k == body.remaining - n
        <5>1. p \in Nat \ {0} /\ q \in Nat /\ n \in Nat /\ k \in Nat
          BY <2>1, <2>2, <4>5
        <5> HIDE DEF p, q, k
        <5>2. Units(p, q, n) \o Units(p, q + n, k) = Units(p, q, n + k)
          BY <5>1, UnitsConcat
        <5> QED BY <5>2 DEF data, p, q, k
      <4> QED BY <2>1, <4>4, <4>5, <4>6 DEF Rest
    <3> QED BY <3>1, <3>2
  <2>10. Pending(refill(conn)) = Pending(conn)
    <3>1. /\ ConnOK(refill(conn)) /\ Rest(after) \in Seq(Byte)
          /\ Pending(refill(conn)) = readableView(filled) \o Rest(after)
      BY <2>6, RefillOK, PendingFacts
    <3>2. (readableView(conn.outbound) \o data) \o Rest(after)
             = readableView(conn.outbound) \o (data \o Rest(after))
      BY <2>4, <2>7, <3>1, ConcatThree
    <3> QED BY <2>5, <2>9, <3>1, <3>2, PendingFacts
  <2>11. Len(conn.outbound.storage) <= StreamBound =>
            Len(refill(conn).outbound.storage) <= StreamBound
    <3>1. \/ Len(filled.storage) <= 2 * readableBytes(conn.outbound) + Len(data)
          \/ filled = conn.outbound
      BY <2>4, AppendGrowth DEF ConnOK
    <3>2. CASE filled = conn.outbound
      BY <2>6, <3>2
    <3>3. CASE Len(filled.storage) <= 2 * readableBytes(conn.outbound) + Len(data)
      <4> DEFINE size == Len(filled.storage)
                 r    == readableBytes(conn.outbound)
      <4>1. size \in Nat
        BY <2>5, LenProperties DEF WellFormed, BufferOf
      <4>2. r \in Nat /\ r < Chunk /\ n \in Nat /\ n <= Chunk /\ size <= 2 * r + n
        BY <2>2, <2>4, <2>7, <3>3
      <4> HIDE DEF size, r
      <4>3. size <= 3 * Chunk - 2
        BY <4>1, <4>2, SizesAssumption
      <4>4. size <= StreamBound
        BY <4>1, <4>3, SizesAssumption DEF StreamBound, Max2
      <4> QED BY <2>6, <4>4 DEF size
    <3> QED BY <3>1, <3>2, <3>3
  <2> QED BY <2>6, <2>10, <2>11
<1> QED BY <1>1, <1>2

\* A send takes from the front of what is pending, nothing else.
LEMMA FlushKeeps ==
    ASSUME NEW conn, ConnOK(conn), NEW room \in Nat
    PROVE  /\ flushOutbound(conn, room).sent \o Pending(flushOutbound(conn, room).conn)
                = Pending(conn)
           /\ flushOutbound(conn, room).conn.closeAfterFlush = conn.closeAfterFlush
           /\ Len(conn.outbound.storage) <= StreamBound =>
                 Len(flushOutbound(conn, room).conn.outbound.storage) <= StreamBound
<1> DEFINE full == refill(conn)
           n    == Min2(readableBytes(full.outbound), room)
           view == readableView(full.outbound)
           rest == Rest(full.streamingBody)
           left == [full EXCEPT !.outbound = consume(full.outbound, n)]
<1>1. /\ ConnOK(full) /\ Pending(full) = Pending(conn)
      /\ full.closeAfterFlush = conn.closeAfterFlush
      /\ Len(conn.outbound.storage) <= StreamBound =>
            Len(full.outbound.storage) <= StreamBound
  BY RefillOK, RefillKeeps
<1>2. /\ view \in Seq(Byte) /\ Len(view) = readableBytes(full.outbound)
      /\ readableBytes(full.outbound) \in Nat
      /\ rest \in Seq(Byte) /\ Pending(full) = view \o rest
  <2>1. WellFormed(Byte, full.outbound)
    BY <1>1 DEF ConnOK
  <2> HIDE DEF full
  <2> QED BY <1>1, <2>1, ViewFacts, PendingFacts
<1>3. n \in 0 .. readableBytes(full.outbound)
  <2> HIDE DEF full
  <2> QED BY <1>2 DEF Min2
<1>4. /\ flushOutbound(conn, room).conn = left
      /\ flushOutbound(conn, room).sent = SubSeq(view, 1, n)
  BY DEF flushOutbound
<1> HIDE DEF full, n
<1>5. /\ WellFormed(Byte, consume(full.outbound, n))
      /\ readableView(consume(full.outbound, n)) = Drop(view, n)
      /\ \/ consume(full.outbound, n) = EmptyBuffer
         \/ consume(full.outbound, n).storage = full.outbound.storage
  <2>1. WellFormed(Byte, full.outbound)
    BY <1>1 DEF ConnOK
  <2> QED BY <1>3, <2>1, ConsumeFacts
<1>6. /\ ConnOK(left) /\ left.outbound = consume(full.outbound, n)
      /\ left.streamingBody = full.streamingBody
      /\ left.closeAfterFlush = full.closeAfterFlush
  <2>1. /\ ConnOK(left) /\ left.outbound = consume(full.outbound, n)
        /\ left.streamingBody = full.streamingBody
    BY <1>1, <1>5, ReplaceOutbound
  <2>2. left.closeAfterFlush = full.closeAfterFlush
    BY <1>1 DEF ConnOK, TcpConnection
  <2> QED BY <2>1, <2>2
<1>7. Pending(left) = Drop(view, n) \o rest
  <2> HIDE DEF left
  <2> QED BY <1>5, <1>6, PendingFacts
<1>8. SubSeq(view, 1, n) \o Drop(view, n) = view
  <2> HIDE DEF view
  <2> QED BY <1>2, <1>3, TakeDrop
<1>9. SubSeq(view, 1, n) \in Seq(Byte) /\ Drop(view, n) \in Seq(Byte)
  <2> HIDE DEF view
  <2>1. n \in 0 .. Len(view)
    BY <1>2, <1>3
  <2>2. SubSeq(view, 1, n) \in Seq(Byte)
    BY <1>2, <2>1, TakeFacts
  <2> QED BY <1>2, <2>1, <2>2, DropFacts
<1>10. (SubSeq(view, 1, n) \o Drop(view, n)) \o rest = SubSeq(view, 1, n) \o (Drop(view, n) \o rest)
  <2> DEFINE s == SubSeq(view, 1, n)
             t == Drop(view, n)
  <2>1. s \in Seq(Byte) /\ t \in Seq(Byte) /\ rest \in Seq(Byte)
    BY <1>2, <1>9
  <2> HIDE DEF s, t, rest
  <2>2. (s \o t) \o rest = s \o (t \o rest)
    BY <2>1, ConcatThree
  <2> QED BY <2>2 DEF s, t
<1>11. Len(full.outbound.storage) <= StreamBound => Len(left.outbound.storage) <= StreamBound
  <2>1. Len(EmptyBuffer.storage) = 0 /\ 0 <= StreamBound
    BY SizesAssumption DEF EmptyBuffer, StreamBound, Max2
  <2> QED BY <1>5, <1>6, <2>1
<1> HIDE DEF left, view, rest
<1> QED BY <1>1, <1>2, <1>4, <1>6, <1>7, <1>8, <1>10, <1>11

LEMMA FlushIfKeeps ==
    ASSUME NEW needed, NEW conn, ConnOK(conn), NEW room \in Nat
    PROVE  /\ flushIf(needed, conn, room).sent \o Pending(flushIf(needed, conn, room).conn)
                = Pending(conn)
           /\ flushIf(needed, conn, room).conn.closeAfterFlush = conn.closeAfterFlush
           /\ Len(conn.outbound.storage) <= StreamBound =>
                 Len(flushIf(needed, conn, room).conn.outbound.storage) <= StreamBound
           /\ Fresh(conn) => flushIf(needed, conn, room) = [conn |-> conn, sent |-> <<>>]
<1>1. Fresh(conn) => ~hasPendingWrites(conn)
  BY DEF Fresh, hasPendingWrites, readableBytes, EmptyBuffer
<1>2. CASE needed /\ hasPendingWrites(conn)
  <2>1. flushIf(needed, conn, room) = flushOutbound(conn, room)
    BY <1>2 DEF flushIf
  <2> QED BY <1>1, <1>2, <2>1, FlushKeeps
<1>3. CASE ~(needed /\ hasPendingWrites(conn))
  <2>1. flushIf(needed, conn, room) = [conn |-> conn, sent |-> <<>>]
    BY <1>3 DEF flushIf
  <2>2. Pending(conn) \in Seq(Byte)
    BY PendingFacts
  <2>3. <<>> \o Pending(conn) = Pending(conn)
    BY <2>2, ConcatEmptySeq
  <2> QED BY <2>1, <2>3
<1> QED BY <1>2, <1>3

\* On a fresh connection, what is pending after the first response has been
\* written is that response.
LEMMA WriteResponseFresh ==
    ASSUME NEW conn, ConnOK(conn), Fresh(conn), NEW r \in Answers
    PROVE  /\ Pending(writeHttpResponse(conn, 1, r)) = Wire(1, r)
           /\ r = "stream" =>
                 Len(writeHttpResponse(conn, 1, r).outbound.storage) <= StreamBound
<1> DEFINE head   == Units(1, 0, HeadLen)
           tail   == Units(1, HeadLen, BodyLen(r))
           headed == queueWrite(conn, head)
           body   == [response |-> 1, cursor |-> HeadLen, remaining |-> FileLen]
           bodied == CASE r = "head"   -> headed
                       [] r = "stream" -> setStreamingBody(headed, body)
                       [] OTHER        -> queueWrite(headed, tail)
           done   == [bodied EXCEPT !.closeAfterFlush = TRUE]
<1>1. writeHttpResponse(conn, 1, r) = done
  BY DEF writeHttpResponse
<1>2. /\ head \in Seq(Byte) /\ Len(head) = HeadLen
      /\ tail \in Seq(Byte) /\ Len(tail) = BodyLen(r)
      /\ HeadLen \in Nat /\ BodyLen(r) \in Nat
  BY UnitsFacts, BodyLenType, SizesAssumption
<1>3. head \o tail = Wire(1, r)
  <2>1. 0 + HeadLen = HeadLen
    BY <1>2
  <2>2. Units(1, 0, HeadLen) \o Units(1, 0 + HeadLen, BodyLen(r)) = Units(1, 0, HeadLen + BodyLen(r))
    <3> DEFINE b == BodyLen(r)
    <3>1. 1 \in Nat \ {0} /\ 0 \in Nat /\ HeadLen \in Nat /\ b \in Nat
      BY <1>2
    <3> HIDE DEF b
    <3>2. Units(1, 0, HeadLen) \o Units(1, 0 + HeadLen, b) = Units(1, 0, HeadLen + b)
      BY <3>1, UnitsConcat
    <3> QED BY <3>2 DEF b
  <2> QED BY <2>1, <2>2 DEF Wire
<1>4. /\ ConnOK(headed) /\ headed.streamingBody = None
      /\ headed.outbound = append(conn.outbound, head)
      /\ WellFormed(Byte, headed.outbound)
  <2>1. WellFormed(Byte, append(conn.outbound, head))
    BY <1>2, AppendFacts DEF ConnOK
  <2>2. headed = [conn EXCEPT !.outbound = append(conn.outbound, head)]
    BY DEF queueWrite
  <2> DEFINE b == append(conn.outbound, head)
  <2> HIDE DEF b
  <2>3. /\ ConnOK([conn EXCEPT !.outbound = b]) /\ [conn EXCEPT !.outbound = b].outbound = b
        /\ [conn EXCEPT !.outbound = b].streamingBody = conn.streamingBody
    BY <2>1, ReplaceOutbound DEF b
  <2>4. conn.streamingBody = None
    BY DEF Fresh
  <2>5. headed = [conn EXCEPT !.outbound = b]
    BY <2>2 DEF b
  <2> HIDE DEF headed
  <2> QED BY <2>1, <2>3, <2>4, <2>5 DEF b
<1>5. readableView(headed.outbound) = head /\ Len(headed.outbound.storage) <= StreamBound
  <2>1. conn.outbound = EmptyBuffer /\ WellFormed(Byte, EmptyBuffer)
    BY DEF Fresh, ConnOK
  <2>2. readableView(EmptyBuffer) = <<>> /\ EmptyBuffer.storage = <<>>
    BY SubSeqEmpty DEF readableView, EmptyBuffer
  <2>3. readableView(append(EmptyBuffer, head)) = <<>> \o head
    BY <1>2, <2>1, <2>2, AppendFacts
  <2>4. ~mustCompact(EmptyBuffer)
    BY DEF mustCompact, EmptyBuffer
  <2>5. append(EmptyBuffer, head).storage = IF head = <<>> THEN <<>> ELSE <<>> \o head
    BY <2>2, <2>4 DEF append, EmptyBuffer
  <2>6. <<>> \o head = head
    BY <1>2, ConcatEmptySeq
  <2>7. append(EmptyBuffer, head).storage = head
    BY <2>5, <2>6
  <2>8. HeadLen <= StreamBound
    BY SizesAssumption DEF StreamBound, Max2
  <2> QED BY <1>2, <1>4, <2>1, <2>3, <2>6, <2>7, <2>8
<1> HIDE DEF headed, tail, head
<1>6. ASSUME NEW k, ConnOK(k)
      PROVE  /\ [k EXCEPT !.closeAfterFlush = TRUE].outbound = k.outbound
             /\ [k EXCEPT !.closeAfterFlush = TRUE].streamingBody = k.streamingBody
  BY <1>6 DEF ConnOK, TcpConnection
<1>7. ASSUME NEW k, ConnOK(k), bodied = k
      PROVE  /\ Pending(done) = readableView(k.outbound) \o Rest(k.streamingBody)
             /\ done.outbound = k.outbound
  <2>1. done = [k EXCEPT !.closeAfterFlush = TRUE]
    BY <1>7
  <2> HIDE DEF done, bodied
  <2>2. done.outbound = k.outbound /\ done.streamingBody = k.streamingBody
    BY <1>6, <1>7, <2>1
  <2> QED BY <2>2 DEF Pending, Rest
<1> HIDE DEF done
<1>8. CASE r = "head"
  <2>1. bodied = headed
    BY <1>8
  <2> HIDE DEF bodied
  <2>2. Pending(done) = head \o Rest(None)
    BY <1>4, <1>5, <1>7, <2>1
  <2>3. tail = <<>>
    <3>1. Len(tail) = 0
      BY <1>2, <1>8 DEF BodyLen
    <3> QED BY <1>2, <3>1, EmptySeq
  <2>4. Rest(None) = <<>>
    BY DEF Rest
  <2> QED BY <1>1, <1>3, <1>8, <2>2, <2>3, <2>4
<1>9. CASE r = "stream"
  <2>1. bodied = setStreamingBody(headed, body)
    BY <1>9
  <2>2. body \in StreamingBody /\ body # None
    BY SizesAssumption, NoneAssumption DEF StreamingBody
  <2>3. Rest(body) = tail
    <3>1. BodyLen(r) = FileLen
      BY <1>9 DEF BodyLen
    <3>2. body.response = 1 /\ body.cursor = HeadLen /\ body.remaining = FileLen
      OBVIOUS
    <3> QED BY <2>2, <3>1, <3>2 DEF Rest, tail
  <2> HIDE DEF bodied, body
  <2>4. /\ ConnOK(setStreamingBody(headed, body))
        /\ setStreamingBody(headed, body).outbound = headed.outbound
        /\ setStreamingBody(headed, body).streamingBody = body
    BY <1>4, <2>2 DEF ConnOK, setStreamingBody, TcpConnection
  <2> QED BY <1>1, <1>3, <1>5, <1>7, <2>1, <2>3, <2>4
<1>10. CASE r # "head" /\ r # "stream"
  <2>1. bodied = queueWrite(headed, tail)
    BY <1>10
  <2> HIDE DEF bodied
  <2>2. /\ WellFormed(Byte, append(headed.outbound, tail))
        /\ readableView(append(headed.outbound, tail)) = readableView(headed.outbound) \o tail
    BY <1>2, <1>4, AppendFacts
  <2>3. /\ ConnOK(queueWrite(headed, tail))
        /\ queueWrite(headed, tail).outbound = append(headed.outbound, tail)
        /\ queueWrite(headed, tail).streamingBody = None
    BY <1>4, <2>2, ReplaceOutbound DEF queueWrite
  <2>4. Pending(done) = (head \o tail) \o Rest(None)
    BY <1>5, <1>7, <2>1, <2>2, <2>3
  <2>5. head \o tail \in Seq(Byte) /\ Rest(None) = <<>>
    BY <1>2, ConcatProperties DEF Rest
  <2>6. (head \o tail) \o <<>> = head \o tail
    BY <2>5, ConcatEmptySeq
  <2> QED BY <1>1, <1>3, <1>10, <2>4, <2>5, <2>6
<1> QED BY <1>8, <1>9, <1>10

\* Nothing is sent on a socket before it is accepted, and every connection is
\* on its way through its response.
Intact ==
    /\ \A c \in Client : link[c].state \in {"idle", "backlog"} =>
                            answered[c] = <<>> /\ sent[c] = <<>>
    /\ \A f \in Live : LET c == connections[f].peer
                       IN  OnItsWay(connections[f], sent[c], answered[c])

\* The loop closes a connection: the others are as they were.
LEMMA CloseIntact ==
    ASSUME IInv, Intact, NEW f \in Live, closeConnection(f),
           NEW l, l.state = "closed",
           link' = [link EXCEPT ![connections[f].peer] = l],
           \A d \in Client : d # connections[f].peer => sent'[d] = sent[d] /\ answered'[d] = answered[d]
    PROVE  Intact'
<1> DEFINE conn == connections[f]
<1>1. f \in Fd /\ conn.peer \in Client
  BY LiveFacts
<1>2. connections' = [connections EXCEPT ![f] = None]
  BY DEF closeConnection
<1>3. Live' = Live \ {f} /\ \A g \in Live \ {f} : connections'[g] = connections[g]
  BY <1>1, <1>2 DEF Live, IInv, TypeOK
<1>4. \A g \in Live \ {f} : connections[g].peer # conn.peer /\ connections[g].peer \in Client
  <2>1. \A g \in Live : connections[g].peer \in Client
    BY LiveFacts
  <2> QED BY <2>1 DEF IInv, SocketsOwned
<1>5. ASSUME NEW d \in Client, link'[d].state \in {"idle", "backlog"}
      PROVE  answered'[d] = <<>> /\ sent'[d] = <<>>
  <2>1. d # conn.peer
    BY <1>1, <1>5 DEF IInv, TypeOK
  <2>2. link'[d] = link[d]
    BY <1>1, <2>1 DEF IInv, TypeOK
  <2> QED BY <1>5, <2>1, <2>2 DEF Intact
<1>6. ASSUME NEW g \in Live'
      PROVE  OnItsWay(connections'[g], sent'[connections'[g].peer], answered'[connections'[g].peer])
  BY <1>3, <1>4, <1>6 DEF Intact
<1> QED BY <1>5, <1>6 DEF Intact

\* The tail of the loop body keeps what it is told to keep.
LEMMA SettleIntact ==
    ASSUME IInv, Intact, NEW f \in Live,
           NEW conn, ConnOK(conn), SameOwner(connections[f], conn),
           NEW parser, NEW bytes, NEW rx,
           Settle(f, conn, parser, bytes, rx),
           \A d \in Client : d # conn.peer => answered'[d] = answered[d],
           OnItsWay(conn, sent[conn.peer] \o bytes, answered'[conn.peer])
    PROVE  Intact'
<1> DEFINE c == conn.peer
           l == [link[c] EXCEPT !.rx = rx, !.unread = @ + Len(bytes)]
<1>1. /\ f \in Fd /\ c \in Client /\ connections[f].peer = c
      /\ link[c] \in Link /\ link[c].state = "open"
  BY LiveFacts DEF SameOwner
<1>2. /\ sent' = [sent EXCEPT ![c] = sent[c] \o bytes] /\ sent'[c] = sent[c] \o bytes
      /\ \A d \in Client : d # c => sent'[d] = sent[d]
  <2>1. sent' = [sent EXCEPT ![c] = sent[c] \o bytes]
    BY DEF Settle
  <2> QED BY <1>1, <2>1 DEF IInv, TypeOK
<1>3. CASE isDone(conn)
  <2>1. PICK lost \in Losses(l) : /\ link' = [link EXCEPT ![c] = Closed(l, lost)]
                                  /\ closeConnection(f)
    BY <1>3 DEF Settle
  <2>2. Closed(l, lost).state = "closed"
    BY <1>1 DEF Closed, Link
  <2> HIDE DEF l
  <2> QED BY <1>1, <1>2, <2>1, <2>2, CloseIntact
<1>4. CASE ~isDone(conn)
  <2>1. connections' = [connections EXCEPT ![f] = conn] /\ link' = [link EXCEPT ![c] = l]
    BY <1>4 DEF Settle
  <2>2. conn # None
    BY NoneAssumption DEF ConnOK
  <2>3. /\ Live' = Live /\ connections'[f] = conn
        /\ \A g \in Live \ {f} : connections'[g] = connections[g]
    BY <1>1, <2>1, <2>2 DEF Live, IInv, TypeOK
  <2>4. \A g \in Live \ {f} : connections[g].peer # c /\ connections[g].peer \in Client
    <3>1. \A g \in Live : connections[g].peer \in Client
      BY LiveFacts
    <3> QED BY <1>1, <3>1 DEF IInv, SocketsOwned
  <2>5. ASSUME NEW d \in Client, link'[d].state \in {"idle", "backlog"}
        PROVE  answered'[d] = <<>> /\ sent'[d] = <<>>
    <3>1. l.state = "open"
      BY <1>1 DEF Link
    <3>2. d # c /\ link'[d] = link[d]
      <4> HIDE DEF l
      <4> QED BY <1>1, <2>1, <2>5, <3>1 DEF IInv, TypeOK
    <3> QED BY <1>2, <2>5, <3>2 DEF Intact
  <2>6. ASSUME NEW g \in Live'
        PROVE  OnItsWay(connections'[g], sent'[connections'[g].peer], answered'[connections'[g].peer])
    <3>1. CASE g = f
      BY <1>2, <2>3, <3>1
    <3>2. CASE g # f
      BY <1>2, <2>3, <2>4, <3>2 DEF Intact
    <3> QED BY <3>1, <3>2
  <2> QED BY <2>5, <2>6 DEF Intact
<1> QED BY <1>3, <1>4

\* A flush takes a connection further along its way.
LEMMA FlushOnItsWay ==
    ASSUME NEW needed, NEW conn, ConnOK(conn), NEW room \in Nat,
           NEW out \in Seq(Byte), NEW requests, OnItsWay(conn, out, requests)
    PROVE  OnItsWay(flushIf(needed, conn, room).conn,
                    out \o flushIf(needed, conn, room).sent, requests)
<1> DEFINE flush == flushIf(needed, conn, room)
<1>1. /\ ConnOK(flush.conn) /\ flush.sent \in Seq(Byte)
      /\ flush.sent \o Pending(flush.conn) = Pending(conn)
      /\ Len(conn.outbound.storage) <= StreamBound =>
            Len(flush.conn.outbound.storage) <= StreamBound
      /\ Fresh(conn) => flush.conn = conn /\ flush.sent = <<>>
  <2>1. ConnOK(flush.conn) /\ flush.sent \in Seq(Byte)
    BY FlushIfOK
  <2>2. Fresh(conn) => flush = [conn |-> conn, sent |-> <<>>]
    BY FlushIfKeeps
  <2>3. Fresh(conn) => flush.conn = conn /\ flush.sent = <<>>
    BY <2>2
  <2> QED BY <2>1, <2>3, FlushIfKeeps
<1> HIDE DEF flush
<1>2. ASSUME requests = <<>>
      PROVE  out \o flush.sent = <<>> /\ Fresh(flush.conn)
  <2>1. out = <<>> /\ flush.sent = <<>> /\ Fresh(flush.conn)
    BY <1>1, <1>2 DEF OnItsWay
  <2> QED BY <2>1, ConcatEmptySeq
<1>3. ASSUME Len(requests) = 1
      PROVE  (out \o flush.sent) \o Pending(flush.conn) = Wire(1, requests[1])
  <2>1. Pending(flush.conn) \in Seq(Byte)
    BY <1>1, PendingFacts
  <2>2. (out \o flush.sent) \o Pending(flush.conn) = out \o (flush.sent \o Pending(flush.conn))
    <3> DEFINE t == flush.sent
               u == Pending(flush.conn)
    <3>1. t \in Seq(Byte) /\ u \in Seq(Byte)
      BY <1>1, <2>1
    <3> HIDE DEF t, u
    <3>2. (out \o t) \o u = out \o (t \o u)
      BY <3>1, ConcatThree
    <3> QED BY <3>2 DEF t, u
  <2> QED BY <1>1, <1>3, <2>2 DEF OnItsWay
<1> QED BY <1>1, <1>2, <1>3 DEF OnItsWay, flush

LEMMA WriteEventIntact ==
    ASSUME IInv, Intact, NEW e \in batch, WriteEvent(e) PROVE Intact'
<1>1. e.fd \in Live
  BY EventIsLive DEF WriteEvent
<1> DEFINE conn == connections[e.fd]
           c    == conn.peer
           l    == link[c]
           failed == l.rst /\ e.writable /\ hasPendingWrites(conn)
<1>2. /\ ConnOK(conn) /\ c \in Client /\ l \in Link /\ l.unread \in 0 .. SendRoom
      /\ sent[c] \in Seq(Byte)
  <2>1. ConnOK(conn) /\ c \in Client /\ l \in Link /\ l.unread \in 0 .. SendRoom
    BY <1>1, LiveFacts
  <2> QED BY <2>1 DEF IInv, TypeOK
<1>3. answered' = answered
  BY DEF WriteEvent
<1>4. CASE failed
  <2>1. /\ closeConnection(e.fd) /\ link' = [link EXCEPT ![c] = Closed(l, TRUE)]
        /\ sent' = sent
    BY <1>4 DEF WriteEvent
  <2>2. Closed(l, TRUE).state = "closed"
    BY <1>2 DEF Closed, Link
  <2> QED BY <1>1, <1>3, <2>1, <2>2, CloseIntact
<1>5. CASE ~failed
  <2> DEFINE room  == SendRoom - l.unread
             flush == flushIf(e.writable, conn, room)
  <2>1. Settle(e.fd, flush.conn, parsers[conn.addr], flush.sent, l.rx)
    BY <1>5 DEF WriteEvent
  <2>2. room \in Nat
    BY <1>2, SizesAssumption
  <2>3. ConnOK(flush.conn) /\ SameOwner(conn, flush.conn)
    BY <1>2, <2>2, FlushIfOK
  <2>4. OnItsWay(conn, sent[c], answered[c])
    BY <1>1 DEF Intact
  <2>5. OnItsWay(flush.conn, sent[c] \o flush.sent, answered[c])
    BY <1>2, <2>2, <2>4, FlushOnItsWay
  <2>6. flush.conn.peer = c
    BY <2>3 DEF SameOwner
  <2> HIDE DEF flush
  <2> QED BY <1>1, <1>3, <2>1, <2>3, <2>5, <2>6, SettleIntact
<1> QED BY <1>4, <1>5

\* After an event with input the connection is still on its way.
LEMMA ReadOnItsWay ==
    ASSUME IInv, Intact, NEW e \in batch, e.fd \in Live,
           NEW result, result.request \in Answers,
           answered' = IF result.status # "NeedMoreData"
                       THEN [answered EXCEPT ![connections[e.fd].peer] =
                                Append(@, result.request)]
                       ELSE answered
    PROVE  LET conn == connections[e.fd]
               c    == conn.peer
           IN  /\ OnItsWay(SecondFlush(e, conn, result).conn,
                           sent[c] \o (FirstFlush(conn, result).sent
                                         \o SecondFlush(e, conn, result).sent),
                           answered'[c])
               /\ \A d \in Client : d # c => answered'[d] = answered[d]
<1> DEFINE conn  == connections[e.fd]
           c     == conn.peer
           room  == RoomOf(conn)
           r     == result.request
           more  == result.status # "NeedMoreData"
           wrote == IF more THEN writeHttpResponse(conn, Len(answered[c]) + 1, r) ELSE conn
           first == flushIf(TRUE, wrote, room)
           again == flushIf(e.writable, first.conn, room - Len(first.sent))
<1>3. /\ ConnOK(conn) /\ c \in Client /\ room \in Nat
      /\ sent[c] \in Seq(Byte) /\ answered[c] \in Seq(Answers)
      /\ OnItsWay(conn, sent[c], answered[c])
  <2>1. ConnOK(conn) /\ c \in Client /\ link[c].unread \in 0 .. SendRoom
    BY LiveFacts
  <2>2. room \in Nat
    BY <2>1, SizesAssumption DEF RoomOf
  <2> QED BY <2>1, <2>2 DEF IInv, TypeOK, Intact
<1>4. /\ answered' = IF more THEN [answered EXCEPT ![c] = Append(@, r)] ELSE answered
      /\ r \in Answers
  OBVIOUS
<1>1. first = FirstFlush(conn, result) /\ again = SecondFlush(e, conn, result)
  BY DEF FirstFlush, SecondFlush, Dealt
<1> HIDE DEF r, more
<1>5. /\ ConnOK(wrote) /\ SameOwner(conn, wrote)
      /\ OnItsWay(wrote, sent[c], answered'[c])
      /\ \A d \in Client : d # c => answered'[d] = answered[d]
  <2>1. CASE more
    <3> DEFINE n == Len(answered[c]) + 1
    <3>1. n \in Nat \ {0} /\ wrote = writeHttpResponse(conn, n, r)
      BY <1>3, <2>1, LenProperties
    <3>2. answered'[c] = Append(answered[c], r) /\ \A d \in Client : d # c => answered'[d] = answered[d]
      BY <1>3, <1>4, <2>1 DEF IInv, TypeOK
    <3>3. Len(answered'[c]) = n
      <4> DEFINE q == answered[c]
      <4>1. q \in Seq(Answers) /\ answered'[c] = Append(q, r)
        BY <1>3, <3>2
      <4> HIDE DEF q
      <4>2. Len(Append(q, r)) = Len(q) + 1
        BY <1>4, <4>1, AppendProperties
      <4> QED BY <4>1, <4>2 DEF q
    <3>4. CASE answered[c] = <<>>
      <4>1. n = 1 /\ answered'[c][1] = r /\ sent[c] = <<>> /\ Fresh(conn)
        BY <1>3, <1>4, <3>2, <3>4, AppendProperties DEF OnItsWay
      <4>2. /\ Pending(wrote) = Wire(1, r)
            /\ r = "stream" => Len(wrote.outbound.storage) <= StreamBound
        BY <1>3, <1>4, <3>1, <4>1, WriteResponseFresh
      <4>3. ConnOK(wrote) /\ SameOwner(conn, wrote)
        BY <1>3, <1>4, <3>1, WriteResponseOK
      <4> HIDE DEF wrote, n
      <4>4. sent[c] \o Pending(wrote) = Wire(1, r)
        BY <4>1, <4>2, <4>3, PendingFacts, ConcatEmptySeq
      <4>5. answered'[c] # <<>> /\ (answered'[c] = <<"stream">> => r = "stream")
        <5>1. Len(answered'[c]) # 0
          BY <3>3, <4>1
        <5>2. <<"stream">>[1] = "stream" /\ Len(<<>>) = 0
          OBVIOUS
        <5> QED BY <4>1, <5>1, <5>2
      <4> QED BY <3>2, <3>3, <4>1, <4>2, <4>3, <4>4, <4>5 DEF OnItsWay
    <3>5. CASE answered[c] # <<>>
      <4>1. Len(answered[c]) # 0 /\ Len(answered[c]) \in Nat
        BY <1>3, <3>5, EmptySeq, LenProperties
      <4>2. n # 1 /\ n # 0
        BY <4>1
      <4>3. ConnOK(wrote) /\ SameOwner(conn, wrote)
        BY <1>3, <1>4, <3>1, WriteResponseOK
      <4>4. answered'[c] # <<>> /\ answered'[c] # <<"stream">> /\ Len(answered'[c]) # 1
        <5> HIDE DEF n
        <5>1. Len(<<>>) = 0 /\ Len(<<"stream">>) = 1
          OBVIOUS
        <5> QED BY <3>3, <4>2, <5>1
      <4> HIDE DEF wrote, n
      <4> QED BY <3>2, <4>3, <4>4 DEF OnItsWay
    <3> QED BY <3>4, <3>5
  <2>2. CASE ~more
    BY <1>3, <1>4, <2>2 DEF SameOwner
  <2> QED BY <2>1, <2>2
<1> HIDE DEF wrote, room
<1>6. /\ ConnOK(first.conn) /\ SameOwner(wrote, first.conn) /\ first.sent \in Seq(Byte)
      /\ Len(first.sent) \in 0 .. room
      /\ OnItsWay(first.conn, sent[c] \o first.sent, answered'[c])
  BY <1>3, <1>5, FlushIfOK, FlushOnItsWay
<1>7. room - Len(first.sent) \in Nat /\ sent[c] \o first.sent \in Seq(Byte)
  <2> DEFINE k == Len(first.sent)
  <2> HIDE DEF first
  <2>1. room \in Nat /\ k \in 0 .. room
    BY <1>3, <1>6, Zenon
  <2>2. sent[c] \in Seq(Byte) /\ first.sent \in Seq(Byte)
    BY <1>3, <1>6, Zenon
  <2> HIDE DEF k
  <2>3. sent[c] \o first.sent \in Seq(Byte)
    BY <2>2, ConcatProperties
  <2>4. room - k \in Nat
    BY <2>1
  <2> QED BY <2>3, <2>4 DEF k
<1>8. /\ ConnOK(again.conn) /\ SameOwner(first.conn, again.conn) /\ again.sent \in Seq(Byte)
      /\ OnItsWay(again.conn, (sent[c] \o first.sent) \o again.sent, answered'[c])
  <2> HIDE DEF first
  <2> QED BY <1>6, <1>7, FlushIfOK, FlushOnItsWay
<1> HIDE DEF first, again
<1>9. (sent[c] \o first.sent) \o again.sent = sent[c] \o (first.sent \o again.sent)
  <2> DEFINE s == sent[c]
             t == first.sent
             u == again.sent
  <2>1. s \in Seq(Byte) /\ t \in Seq(Byte) /\ u \in Seq(Byte)
    BY <1>3, <1>6, <1>8
  <2> HIDE DEF s, t, u
  <2>2. (s \o t) \o u = s \o (t \o u)
    BY <2>1, ConcatThree
  <2> QED BY <2>2 DEF s, t, u
<1>10. OnItsWay(again.conn, sent[c] \o (first.sent \o again.sent), answered'[c])
  BY <1>8, <1>9, Zenon
<1>11. /\ first.sent = FirstFlush(conn, result).sent
       /\ again.sent = SecondFlush(e, conn, result).sent
       /\ again.conn = SecondFlush(e, conn, result).conn
  BY <1>1
<1> HIDE DEF conn
<1>12. OnItsWay(SecondFlush(e, conn, result).conn,
                sent[c] \o (FirstFlush(conn, result).sent \o SecondFlush(e, conn, result).sent),
                answered'[c])
  BY <1>10, <1>11
<1> QED BY <1>5, <1>12 DEF conn

LEMMA ReadEventIntact ==
    ASSUME IInv, Intact, NEW e \in batch, ReadEvent(e) PROVE Intact'
<1>1. e.fd \in Live
  BY EventIsLive DEF ReadEvent
<1> DEFINE conn == connections[e.fd]
           c    == conn.peer
<1>2. PICK result \in next(FedOf(conn)) :
           /\ result.request \in Answers /\ result.rest \in Seq(Tokens)
           /\ answered' = IF result.status # "NeedMoreData"
                          THEN [answered EXCEPT ![c] = Append(@, result.request)]
                          ELSE answered
           /\ Settle(e.fd, SecondFlush(e, conn, result).conn,
                     [ParserOf(conn) EXCEPT !.buf = result.rest],
                     FirstFlush(conn, result).sent \o SecondFlush(e, conn, result).sent,
                     LeftOf(conn))
  BY ReadEventFacts, Zenon
<1> DEFINE after  == SecondFlush(e, conn, result).conn
           bytes  == FirstFlush(conn, result).sent \o SecondFlush(e, conn, result).sent
           parser == [ParserOf(conn) EXCEPT !.buf = result.rest]
           rx     == LeftOf(conn)
<1>3. ConnOK(after) /\ SameOwner(conn, after)
  BY <1>1, <1>2, FlushesOK, Zenon
<1>4. /\ OnItsWay(after, sent[c] \o bytes, answered'[c])
      /\ \A d \in Client : d # c => answered'[d] = answered[d]
  BY <1>1, <1>2, ReadOnItsWay, Zenon
<1>5. Settle(e.fd, after, parser, bytes, rx)
  BY <1>2
<1> HIDE DEF after, bytes, parser, rx
<1>6. after.peer = c
  BY <1>3 DEF SameOwner
<1> QED BY <1>1, <1>3, <1>4, <1>5, <1>6, SettleIntact

\* A step that neither opens nor changes a connection, nor sends.
LEMMA StillIntact ==
    ASSUME IInv, Intact, Live' \subseteq Live,
           \A f \in Live' : connections'[f] = connections[f],
           \A c \in Client : link'[c].state \in {"idle", "backlog"} =>
                                link[c].state \in {"idle", "backlog"},
           UNCHANGED <<sent, answered>>
    PROVE  Intact'
<1>1. \A f \in Live : connections[f].peer \in Client
  BY LiveFacts
<1>2. ASSUME NEW f \in Live'
      PROVE  OnItsWay(connections'[f], sent'[connections'[f].peer], answered'[connections'[f].peer])
  <2>1. f \in Live /\ connections'[f] = connections[f]
    BY <1>2
  <2> QED BY <2>1 DEF Intact
<1>3. ASSUME NEW c \in Client, link'[c].state \in {"idle", "backlog"}
      PROVE  answered'[c] = <<>> /\ sent'[c] = <<>>
  BY <1>3 DEF Intact
<1> QED BY <1>2, <1>3 DEF Intact

\* A new connection is fresh, and nothing was ever sent to its client.
LEMMA AcceptIntact ==
    ASSUME IInv, Intact, NEW e \in batch, Accept(e) PROVE Intact'
<1> DEFINE FreeFd   == {f \in Fd : connections[f] = None}
           FreeAddr == {a \in Addr : \A f \in Fd : connections[f] # None =>
                                                   connections[f].addr # a}
<1>1. PICK place \in [Backlog -> FreeFd \X FreeAddr] :
        connections' = [f \in Fd |->
              IF \E c \in Backlog : place[c][1] = f
              THEN LET c == CHOOSE d \in Backlog : place[d][1] = f
                   IN  NewConnection(c, place[c][2])
              ELSE connections[f]]
  BY DEF Accept
<1>2. /\ link' = [c \in Client |-> IF c \in Backlog THEN [link[c] EXCEPT !.state = "open"]
                                                    ELSE link[c]]
      /\ UNCHANGED <<sent, answered>>
  BY DEF Accept
<1>3. ASSUME NEW c \in Client, link'[c].state \in {"idle", "backlog"}
      PROVE  answered'[c] = <<>> /\ sent'[c] = <<>>
  <2>1. CASE c \in Backlog
    <3>1. link[c] \in Link
      BY DEF IInv, TypeOK
    <3>2. link'[c].state = "open"
      BY <1>2, <2>1, <3>1 DEF Link
    <3> QED BY <1>3, <3>2
  <2>2. CASE c \notin Backlog
    BY <1>2, <1>3, <2>2 DEF Intact
  <2> QED BY <2>1, <2>2
<1>4. ASSUME NEW f \in Live'
      PROVE  OnItsWay(connections'[f], sent'[connections'[f].peer], answered'[connections'[f].peer])
  <2>1. f \in Fd
    BY DEF Live
  <2>2. CASE \E c \in Backlog : place[c][1] = f
    <3> DEFINE c == CHOOSE d \in Backlog : place[d][1] = f
    <3>1. c \in Backlog
      BY <2>2
    <3>2. connections'[f] = NewConnection(c, place[c][2])
      BY <1>1, <2>1, <2>2
    <3> HIDE DEF c
    <3>3. connections'[f].peer = c /\ Fresh(connections'[f])
      BY <3>2 DEF NewConnection, Fresh
    <3>4. sent[c] = <<>> /\ answered[c] = <<>>
      BY <3>1 DEF Backlog, Intact
    <3>5. Len(<<>>) = 0 /\ <<>> # <<"stream">>
      OBVIOUS
    <3> QED BY <1>2, <3>3, <3>4, <3>5 DEF OnItsWay
  <2>3. CASE ~ \E c \in Backlog : place[c][1] = f
    <3>1. connections'[f] = connections[f]
      BY <1>1, <2>1, <2>3
    <3>2. f \in Live
      BY <3>1 DEF Live
    <3> QED BY <1>2, <3>1, <3>2 DEF Intact
  <2> QED BY <2>2, <2>3
<1> QED BY <1>3, <1>4 DEF Intact

LEMMA CloseEventIntact ==
    ASSUME IInv, Intact, NEW e \in batch, CloseEvent(e) PROVE Intact'
<1>1. e.fd \in Live
  BY EventIsLive DEF CloseEvent
<1> DEFINE c == connections[e.fd].peer
<1>2. PICK lost \in Losses(link[c]) : link' = [link EXCEPT ![c] = Closed(link[c], lost)]
  BY <1>1 DEF CloseEvent, Live
<1>3. link[c] \in Link
  BY <1>1, LiveFacts
<1>4. Closed(link[c], lost).state = "closed"
  BY <1>3 DEF Closed, Link
<1>5. closeConnection(e.fd) /\ UNCHANGED <<sent, answered>>
  BY <1>1 DEF CloseEvent, Live
<1> QED BY <1>1, <1>2, <1>4, <1>5, CloseIntact

LEMMA ProcessEndsIntact == ASSUME IInv, Intact, ProcessEnds PROVE Intact'
<1>1. Live' = {} /\ UNCHANGED <<sent, answered>>
  BY DEF ProcessEnds, Live
<1>2. ASSUME NEW c \in Client, link'[c].state \in {"idle", "backlog"}
      PROVE  link[c].state \in {"idle", "backlog"}
  <2>1. link[c] \in Link
    BY DEF IInv, TypeOK
  <2>2. link'[c] = CASE link[c].state = "open"    -> Closed(link[c], link[c].rx # <<>>)
                     [] link[c].state = "backlog" -> Closed(link[c], TRUE)
                     [] OTHER                     -> link[c]
    BY DEF ProcessEnds
  <2>3. \A lost \in BOOLEAN : Closed(link[c], lost).state = "closed"
    BY <2>1 DEF Closed, Link
  <2> QED BY <1>2, <2>2, <2>3
<1> QED BY <1>1, <1>2, StillIntact

LEMMA ClientActionIntact ==
    ASSUME IInv, Intact, NEW c \in Client,
           Connect(c) \/ Send(c) \/ Receive(c) \/ HalfClose(c) \/ Reset(c)
    PROVE  Intact'
<1>1. UNCHANGED <<connections, sent, answered>>
  BY DEF Connect, Send, Receive, HalfClose, Reset, serverVars
<1>2. Live' = Live
  BY <1>1 DEF Live
<1>3. link[c] \in Link /\ link \in [Client -> Link]
  BY DEF IInv, TypeOK
<1>4. /\ link'[c].state \in {"idle", "backlog"} => link[c].state \in {"idle", "backlog"}
      /\ \A d \in Client : d # c => link'[d] = link[d]
  <2>1. CASE Connect(c)
    BY <1>3, <2>1 DEF Connect
  <2>2. CASE Send(c)
    BY <1>3, <2>2 DEF Send, Link
  <2>3. CASE Receive(c)
    BY <1>3, <2>3 DEF Receive, Link
  <2>4. CASE HalfClose(c)
    BY <1>3, <2>4 DEF HalfClose, Link
  <2>5. CASE Reset(c)
    BY <1>3, <2>5 DEF Reset, Link
  <2> QED BY <2>1, <2>2, <2>3, <2>4, <2>5
<1>5. \A d \in Client : link'[d].state \in {"idle", "backlog"} => link[d].state \in {"idle", "backlog"}
  BY <1>4
<1> QED BY <1>1, <1>2, <1>5, StillIntact

LEMMA InitIntact == Init => Intact
  BY DEF Init, Intact, Live

LEMMA NextIntact == IInv /\ Intact /\ [Next]_vars => Intact'
<1> SUFFICES ASSUME IInv, Intact, [Next]_vars PROVE Intact'
  OBVIOUS
<1>1. CASE Start \/ Wait \/ Stop \/ UNCHANGED vars
  <2>1. UNCHANGED <<connections, link, sent, answered>>
    BY <1>1 DEF Start, Wait, Stop, vars
  <2> QED BY <2>1, StillIntact DEF Live
<1>2. CASE HandleEvent
  BY <1>2, AcceptIntact, CloseEventIntact, ReadEventIntact, WriteEventIntact DEF HandleEvent
<1>3. CASE Return \/ Terminate
  BY <1>3, ProcessEndsIntact DEF Return, Terminate
<1>4. ASSUME NEW c \in Client,
             Connect(c) \/ Send(c) \/ Receive(c) \/ HalfClose(c) \/ Reset(c)
      PROVE  Intact'
  BY <1>4, ClientActionIntact
<1> QED BY <1>1, <1>2, <1>3, <1>4 DEF Next, Loop

-----------------------------------------------------------------------------
(* The server implements HttpExchange for the clients that wait for their   *)
(* answer.                                                                   *)

\* All that the abstract specification sees of one client.
View(c) == <<Stage(c), Request(c), Delivered(c), Gone(c)>>

\* The steps of the exchange with one client.
Serves(c) ==
    /\ up /\ Stage(c) \in {"waiting", "answering"} /\ UNCHANGED Gone(c)
    /\ \E r \in IF Stage(c) = "waiting" THEN Answers ELSE {Request(c)} :
         /\ Request(c)' = r
         /\ Delivered(c)' \in Delivered(c) .. AnswerTotal(r)
         /\ \/ Stage(c)' = "answering"
            \/ Delivered(c)' = AnswerTotal(r) /\ Stage(c)' = "complete"

Drops(c) == /\ up /\ Gone(c) /\ Stage(c) \in {"waiting", "answering"}
            /\ Stage(c)' = "aborted"
            /\ UNCHANGED <<Request(c), Delivered(c), Gone(c)>>

Leaves(c) == Gone(c)' = TRUE /\ UNCHANGED <<Stage(c), Request(c), Delivered(c)>>

\* A step of the server that concerns one client at most is a step of the
\* exchange.
LEMMA OneClientStep ==
    ASSUME UNCHANGED up, NEW c,
           \A d \in PatientClient \ {c} : UNCHANGED View(d),
           c \in PatientClient => Serves(c) \/ Drops(c) \/ Leaves(c) \/ UNCHANGED View(c)
    PROVE  [Exchange!Next]_(Exchange!vars)
<1>1. \A d \in PatientClient \ {c} : /\ Stage(d)' = Stage(d) /\ Request(d)' = Request(d)
                                     /\ Delivered(d)' = Delivered(d) /\ Gone(d)' = Gone(d)
  BY DEF View
<1>2. CASE c \notin PatientClient \/ UNCHANGED View(c)
  <2>1. \A d \in PatientClient : /\ Stage(d)' = Stage(d) /\ Request(d)' = Request(d)
                                 /\ Delivered(d)' = Delivered(d) /\ Gone(d)' = Gone(d)
    BY <1>1, <1>2 DEF View
  <2>2. UNCHANGED <<ExchangeStage, ExchangeRequest, ExchangeDelivered, ExchangeGone>>
    BY <2>1 DEF ExchangeStage, ExchangeRequest, ExchangeDelivered, ExchangeGone
  <2> QED BY <2>2 DEF Exchange!vars
<1>3. ASSUME c \in PatientClient
      PROVE  /\ ExchangeStage[c] = Stage(c) /\ ExchangeRequest[c] = Request(c)
             /\ ExchangeDelivered[c] = Delivered(c) /\ ExchangeGone[c] = Gone(c)
             /\ ExchangeStage' = [ExchangeStage EXCEPT ![c] = Stage(c)']
             /\ ExchangeRequest' = [ExchangeRequest EXCEPT ![c] = Request(c)']
             /\ ExchangeDelivered' = [ExchangeDelivered EXCEPT ![c] = Delivered(c)']
             /\ ExchangeGone' = [ExchangeGone EXCEPT ![c] = Gone(c)']
             /\ Stage(c)' = Stage(c) => ExchangeStage' = ExchangeStage
             /\ Request(c)' = Request(c) => ExchangeRequest' = ExchangeRequest
             /\ Delivered(c)' = Delivered(c) => ExchangeDelivered' = ExchangeDelivered
             /\ Gone(c)' = Gone(c) => ExchangeGone' = ExchangeGone
  BY <1>1, <1>3 DEF ExchangeStage, ExchangeRequest, ExchangeDelivered, ExchangeGone
<1>4. CASE c \in PatientClient /\ Serves(c)
  <2>1. Exchange!Serve(c)
    BY <1>3, <1>4 DEF Exchange!Serve, Serves
  <2> QED BY <1>4, <2>1 DEF Exchange!Next
<1>5. CASE c \in PatientClient /\ Drops(c)
  <2>1. Exchange!Drop(c)
    BY <1>3, <1>5 DEF Exchange!Drop, Drops
  <2> QED BY <1>5, <2>1 DEF Exchange!Next
<1>6. CASE c \in PatientClient /\ Leaves(c)
  <2>1. Exchange!Leave(c)
    BY <1>3, <1>6 DEF Exchange!Leave, Leaves
  <2> QED BY <1>6, <2>1 DEF Exchange!Next
<1> QED BY <1>2, <1>4, <1>5, <1>6

\* Nothing decisive comes before the end of s.
LastOnly(s) == \A i \in Decisive(s) : i = Len(s)

\* A patient client is silent after its request: what it has still to send, and
\* what is still to be read of it, holds a decisive piece only at its very end,
\* and nothing is left of either once its request has been answered.
Silent(c) ==
    /\ LastOnly(script[c]) /\ LastOnly(link[c].rx)
    /\ Decisive(link[c].rx) # {} => script[c] = <<>>
    /\ answered[c] # <<>> => link[c].rx = <<>> /\ script[c] = <<>>
    /\ Len(answered[c]) <= 1

\* A parser that has not answered yet holds nothing it could answer.
Undecided(parser) ==
    parser # None /\ parser.owner \in PatientClient /\ answered[parser.owner] = <<>>
        => Decisive(parser.buf) = {}

\* An event that reports an error or a hangup does so of a client that left.
Truthful(e) == e.fd # Listener => /\ e.error => link[e.peer].rst
                                  /\ e.hangup => Gone(e.peer)

Quiet == /\ \A c \in PatientClient : Silent(c)
         /\ \A a \in Addr : Undecided(parsers[a])
         /\ \A e \in batch : Truthful(e)

LEMMA DecisiveDrop ==
    ASSUME NEW s \in Seq(Tokens), NEW k \in 0 .. Len(s)
    PROVE  /\ Drop(s, k) \in Seq(Tokens)
           /\ LastOnly(s) => LastOnly(Drop(s, k))
           /\ Decisive(Drop(s, k)) # {} => Decisive(s) # {}
<1> DEFINE t == Drop(s, k)
<1>1. /\ t \in Seq(Tokens) /\ Len(t) = Len(s) - k /\ Len(s) \in Nat /\ k \in Nat
      /\ \A i \in 1 .. Len(s) - k : t[i] = s[k + i]
  BY DropFacts, LenProperties
<1> HIDE DEF t
<1>2. ASSUME NEW i \in Decisive(t)
      PROVE  k + i \in Decisive(s) /\ (k + i = Len(s) => i = Len(t))
  <2>1. i \in 1 .. Len(s) - k /\ t[i] \in Answers
    BY <1>1 DEF Decisive
  <2>2. k + i \in 1 .. Len(s) /\ s[k + i] \in Answers
    BY <1>1, <2>1
  <2> QED BY <1>1, <2>1, <2>2 DEF Decisive
<1>3. LastOnly(s) => LastOnly(t)
  BY <1>2 DEF LastOnly
<1>4. Decisive(t) # {} => Decisive(s) # {}
  BY <1>2
<1> QED BY <1>1, <1>3, <1>4 DEF t

\* When a parser that held nothing decisive gets something decisive, it gets
\* the last of the input.
LEMMA DecisiveFed ==
    ASSUME NEW buf \in Seq(Tokens), Decisive(buf) = {},
           NEW s \in Seq(Tokens), LastOnly(s), NEW k \in 0 .. Len(s),
           Decisive(buf \o SubSeq(s, 1, k)) # {}
    PROVE  Drop(s, k) = <<>> /\ Decisive(s) # {}
<1> DEFINE t == SubSeq(s, 1, k)
<1>1. /\ t \in Seq(Tokens) /\ Len(t) = k /\ \A i \in 1 .. k : t[i] = s[i]
      /\ Len(s) \in Nat /\ k \in Nat /\ Len(buf) \in Nat
  BY TakeFacts, LenProperties
<1>2. PICK i \in Decisive(buf \o t) : TRUE
  OBVIOUS
<1> HIDE DEF t
<1>3. /\ Len(buf \o t) = Len(buf) + k
      /\ \A j \in 1 .. Len(buf) + k : (buf \o t)[j] = IF j <= Len(buf) THEN buf[j]
                                                                       ELSE t[j - Len(buf)]
  BY <1>1, ConcatProperties
<1>4. i \in 1 .. Len(buf) + k /\ (buf \o t)[i] \in Answers
  BY <1>3 DEF Decisive
<1>5. ~(i <= Len(buf))
  <2> SUFFICES ASSUME i <= Len(buf) PROVE FALSE
    OBVIOUS
  <2>1. i \in 1 .. Len(buf) /\ buf[i] \in Answers
    BY <1>1, <1>3, <1>4
  <2> QED BY <2>1 DEF Decisive
<1> DEFINE j == i - Len(buf)
<1>6. j \in 1 .. k /\ t[j] \in Answers
  BY <1>1, <1>3, <1>4, <1>5
<1> HIDE DEF j
<1>7. j \in 1 .. Len(s) /\ s[j] \in Answers
  BY <1>1, <1>6
<1>8. j \in Decisive(s) /\ j = Len(s)
  BY <1>7 DEF Decisive, LastOnly
<1>9. k = Len(s)
  BY <1>1, <1>6, <1>8
<1>10. Drop(s, k) \in Seq(Tokens) /\ Len(Drop(s, k)) = 0
  BY <1>1, <1>9, DropFacts
<1> QED BY <1>8, <1>10, EmptySeq

LEMMA NothingDecisive == Decisive(<<>>) = {} /\ LastOnly(<<>>)
  BY DEF Decisive, LastOnly

\* Whoever a step leaves alone stays silent.
LEMMA QuietStep ==
    ASSUME Quiet, IInv,
           \A d \in PatientClient :
              Silent(d)' \/ UNCHANGED <<script[d], link[d].rx, answered[d]>>,
           \A a \in Addr : parsers'[a] = parsers[a] \/ Undecided(parsers[a])',
           \A d \in Client : /\ answered'[d] = <<>> => answered[d] = <<>>
                             /\ link[d].rst => link'[d].rst
                             /\ Gone(d) => Gone(d)',
           batch' \subseteq batch
    PROVE  Quiet'
<1>1. ASSUME NEW d \in PatientClient PROVE Silent(d)'
  <2>1. Silent(d)
    BY DEF Quiet
  <2>2. CASE UNCHANGED <<script[d], link[d].rx, answered[d]>>
    BY <2>1, <2>2 DEF Silent
  <2> QED BY <2>2
<1>2. ASSUME NEW a \in Addr PROVE Undecided(parsers[a])'
  <2>1. CASE parsers'[a] = parsers[a]
    <3>1. Undecided(parsers[a]) /\ PatientClient \subseteq Client
      BY DEF Quiet, PatientClient
    <3> QED BY <2>1, <3>1 DEF Undecided
  <2> QED BY <2>1
<1>3. ASSUME NEW e \in batch' PROVE Truthful(e)'
  <2> SUFFICES ASSUME e.fd # Listener
               PROVE  (e.error => link'[e.peer].rst) /\ (e.hangup => Gone(e.peer)')
    BY DEF Truthful
  <2>1. Truthful(e) /\ e.peer \in Client
    <3>1. e \in batch
      BY <1>3
    <3>2. e.fd \in Live /\ connections[e.fd].peer = e.peer
      BY <3>1 DEF IInv, EventsMatchConnections
    <3> QED BY <3>1, <3>2, LiveFacts DEF Quiet
  <2> QED BY <2>1 DEF Truthful
<1> QED BY <1>1, <1>2, <1>3 DEF Quiet

LEMMA CloseQuiet ==
    ASSUME IInv, Quiet, NEW f \in Live, closeConnection(f), NEW lost \in BOOLEAN,
           link' = [link EXCEPT ![connections[f].peer] = Closed(link[connections[f].peer], lost)],
           batch' \subseteq batch, UNCHANGED <<script, answered>>
    PROVE  Quiet'
<1> DEFINE c == connections[f].peer
           k == Closed(link[c], lost)
<1>1. /\ f \in Fd /\ c \in Client /\ connections[f].addr \in Addr /\ link[c] \in Link
      /\ link \in [Client -> Link] /\ parsers \in [Addr -> Parser \cup {None}]
  BY LiveFacts DEF IInv, TypeOK
<1>2. k.rst = link[c].rst /\ k.fin = link[c].fin /\ k.rx = <<>>
  BY <1>1 DEF Closed, Link
<1>3. link' = [link EXCEPT ![c] = k]
  OBVIOUS
<1> HIDE DEF k
<1>4. link'[c] = k /\ \A d \in Client : d # c => link'[d] = link[d]
  BY <1>1, <1>3
<1>5. \A a \in Addr : parsers'[a] = parsers[a] \/ parsers'[a] = None
  BY <1>1 DEF closeConnection
<1>6. ASSUME NEW d \in PatientClient
      PROVE  Silent(d)' \/ UNCHANGED <<script[d], link[d].rx, answered[d]>>
  <2>1. Silent(d) /\ d \in Client
    BY DEF Quiet, PatientClient
  <2>2. CASE d = c
    <3>1. link'[d].rx = <<>>
      BY <1>2, <1>4, <2>2
    <3> QED BY <2>1, <3>1, NothingDecisive DEF Silent
  <2>3. CASE d # c
    BY <1>4, <2>1, <2>3
  <2> QED BY <2>2, <2>3
<1>7. ASSUME NEW d \in Client
      PROVE  /\ answered'[d] = <<>> => answered[d] = <<>>
             /\ link[d].rst => link'[d].rst
             /\ Gone(d) => Gone(d)'
  BY <1>2, <1>4 DEF Gone
<1>8. \A a \in Addr : parsers'[a] = parsers[a] \/ Undecided(parsers[a])'
  BY <1>5 DEF Undecided
<1> QED BY <1>6, <1>7, <1>8, QuietStep

LEMMA SettleQuiet ==
    ASSUME IInv, Quiet, NEW f \in Live,
           NEW conn, SameOwner(connections[f], conn),
           NEW parser, NEW bytes, NEW rx,
           Settle(f, conn, parser, bytes, rx),
           script' = script, batch' \subseteq batch,
           \A d \in Client : d # conn.peer => answered'[d] = answered[d],
           answered'[conn.peer] = <<>> => answered[conn.peer] = <<>>,
           conn.peer \in PatientClient =>
              /\ LastOnly(rx)
              /\ Decisive(rx) # {} => script[conn.peer] = <<>>
              /\ answered'[conn.peer] # <<>> => rx = <<>> /\ script[conn.peer] = <<>>
              /\ Len(answered'[conn.peer]) <= 1,
           \/ parser = parsers[conn.addr]
           \/ parser # None /\ parser.owner \in PatientClient /\ answered'[parser.owner] = <<>>
                 => Decisive(parser.buf) = {}
    PROVE  Quiet'
<1> DEFINE c == conn.peer
           l == [link[c] EXCEPT !.rx = rx, !.unread = @ + Len(bytes)]
<1>1. /\ f \in Fd /\ c \in Client /\ connections[f].addr = conn.addr /\ conn.addr \in Addr
      /\ connections[f].peer = c /\ link[c] \in Link
      /\ link \in [Client -> Link] /\ parsers \in [Addr -> Parser \cup {None}]
  BY LiveFacts DEF SameOwner, IInv, TypeOK
<1>2. /\ \A d \in Client : d # c => link'[d] = link[d]
      /\ link'[c].rst = link[c].rst /\ link'[c].fin = link[c].fin
      /\ link'[c].rx = rx \/ link'[c].rx = <<>>
      /\ \A a \in Addr : \/ parsers'[a] = parsers[a] \/ parsers'[a] = None
                         \/ parsers'[a] = parser /\ a = conn.addr
  <2>0. l.rst = link[c].rst /\ l.fin = link[c].fin /\ l.rx = rx
    BY <1>1 DEF Link
  <2>1. CASE isDone(conn)
    <3>1. PICK lost \in Losses(l) : link' = [link EXCEPT ![c] = Closed(l, lost)]
      BY <2>1 DEF Settle
    <3>2. /\ Closed(l, lost).rst = link[c].rst /\ Closed(l, lost).fin = link[c].fin
          /\ Closed(l, lost).rx = <<>>
      BY <1>1 DEF Closed, Link
    <3>3. parsers' = [parsers EXCEPT ![conn.addr] = None]
      BY <1>1, <2>1 DEF Settle, closeConnection
    <3> HIDE DEF l
    <3> DEFINE k == Closed(l, lost)
    <3>4. link'[c] = k /\ \A d \in Client : d # c => link'[d] = link[d]
      <4>1. link' = [link EXCEPT ![c] = k]
        BY <3>1
      <4> HIDE DEF k
      <4> QED BY <1>1, <4>1
    <3> QED BY <1>1, <3>2, <3>3, <3>4
  <2>2. CASE ~isDone(conn)
    <3>1. link' = [link EXCEPT ![c] = l] /\ parsers' = [parsers EXCEPT ![conn.addr] = parser]
      BY <2>2 DEF Settle
    <3> HIDE DEF l
    <3>2. link'[c] = l /\ \A d \in Client : d # c => link'[d] = link[d]
      BY <1>1, <3>1
    <3>3. ASSUME NEW a \in Addr
          PROVE  parsers'[a] = parsers[a] \/ (parsers'[a] = parser /\ a = conn.addr)
      <4>1. parsers' = [parsers EXCEPT ![conn.addr] = parser]
        BY <3>1
      <4> QED BY <1>1, <4>1
    <3> QED BY <2>0, <3>2, <3>3
  <2> QED BY <2>1, <2>2
<1>3. ASSUME NEW d \in PatientClient
      PROVE  Silent(d)' \/ UNCHANGED <<script[d], link[d].rx, answered[d]>>
  <2>0. d \in Client
    BY DEF PatientClient
  <2>1. CASE d = c
    <3>1. /\ LastOnly(link'[c].rx)
          /\ Decisive(link'[c].rx) # {} => script[c] = <<>>
          /\ answered'[c] # <<>> => link'[c].rx = <<>> /\ script[c] = <<>>
          /\ Len(answered'[c]) <= 1
      BY <1>2, <2>1, NothingDecisive
    <3>2. LastOnly(script[c])
      BY <2>1 DEF Quiet, Silent
    <3> QED BY <2>1, <3>1, <3>2 DEF Silent, LastOnly, Decisive
  <2>2. CASE d # c
    BY <1>2, <2>0, <2>2
  <2> QED BY <2>1, <2>2
<1>4. ASSUME NEW a \in Addr
      PROVE  parsers'[a] = parsers[a] \/ Undecided(parsers[a])'
  <2>1. CASE parsers'[a] = None
    BY <2>1 DEF Undecided
  <2>2. CASE parsers'[a] = parser /\ a = conn.addr
    BY <2>2 DEF Undecided
  <2> QED BY <1>2, <2>1, <2>2
<1>5. ASSUME NEW d \in Client
      PROVE  /\ answered'[d] = <<>> => answered[d] = <<>>
             /\ link[d].rst => link'[d].rst
             /\ Gone(d) => Gone(d)'
  <2>1. CASE d = c
    BY <1>2, <2>1 DEF Gone
  <2>2. CASE d # c
    BY <1>2, <2>2 DEF Gone
  <2> QED BY <2>1, <2>2
<1> QED BY <1>3, <1>4, <1>5, QuietStep

LEMMA ReadEventQuiet ==
    ASSUME IInv, Quiet, NEW e \in batch, ReadEvent(e) PROVE Quiet'
<1>0. /\ batch' = batch \ {e}
      /\ UNCHANGED <<backend, up, running, exits, script>>
  BY Zenon DEF ReadEvent
<1>1. e.fd \in Live
  BY EventIsLive DEF ReadEvent
<1> DEFINE conn == connections[e.fd]
           c    == conn.peer
           rx   == link[c].rx
<1>2. /\ rx # <<>> /\ ParserOf(conn) \in Parser /\ ParserOf(conn).owner = c
      /\ TakenOf(conn) \in 0 .. Len(rx)
      /\ LeftOf(conn) \in Seq(Tokens) /\ FedOf(conn) \in Seq(Tokens)
      /\ \E result \in next(FedOf(conn)) :
           /\ result.request \in Answers /\ result.rest \in Seq(Tokens)
           /\ answered' = IF result.status # "NeedMoreData"
                          THEN [answered EXCEPT ![c] = Append(@, result.request)]
                          ELSE answered
           /\ Settle(e.fd, SecondFlush(e, conn, result).conn,
                     [ParserOf(conn) EXCEPT !.buf = result.rest],
                     FirstFlush(conn, result).sent \o SecondFlush(e, conn, result).sent,
                     LeftOf(conn))
  BY ReadEventFacts, Zenon
<1>3. PICK result \in next(FedOf(conn)) :
           /\ result.request \in Answers /\ result.rest \in Seq(Tokens)
           /\ answered' = IF result.status # "NeedMoreData"
                          THEN [answered EXCEPT ![c] = Append(@, result.request)]
                          ELSE answered
           /\ Settle(e.fd, SecondFlush(e, conn, result).conn,
                     [ParserOf(conn) EXCEPT !.buf = result.rest],
                     FirstFlush(conn, result).sent \o SecondFlush(e, conn, result).sent,
                     LeftOf(conn))
  BY <1>2
<1> DEFINE old    == ParserOf(conn)
           fed    == FedOf(conn)
           left   == LeftOf(conn)
           k      == TakenOf(conn)
           after  == SecondFlush(e, conn, result).conn
           bytes  == FirstFlush(conn, result).sent \o SecondFlush(e, conn, result).sent
           parser == [old EXCEPT !.buf = result.rest]
<1>4. /\ ConnOK(conn) /\ c \in Client /\ conn.addr \in Addr /\ rx \in Seq(Tokens)
      /\ answered[c] \in Seq(Answers)
  <2>1. ConnOK(conn) /\ c \in Client /\ conn.addr \in Addr /\ link[c] \in Link
    BY <1>1, LiveFacts
  <2> QED BY <2>1 DEF Link, IInv, TypeOK
<1>5. ConnOK(after) /\ SameOwner(conn, after)
  BY <1>1, <1>3, FlushesOK, Zenon
<1>6. left = Drop(rx, k) /\ fed = old.buf \o SubSeq(rx, 1, k)
  BY DEF LeftOf, FedOf, Drop
<1>7. /\ Decisive(fed) = {} => result.status = "NeedMoreData" /\ result.rest = fed
      /\ Decisive(fed) # {} => result.status # "NeedMoreData"
  <2> HIDE DEF fed
  <2> QED BY <1>3 DEF next, fed
<1>8. /\ answered' = IF result.status # "NeedMoreData"
                     THEN [answered EXCEPT ![c] = Append(answered[c], result.request)] ELSE answered
      /\ Settle(e.fd, after, parser, bytes, left)
  BY <1>3
<1>9. old.buf \in Seq(Tokens) /\ parser.owner = c /\ parser.buf = result.rest
  BY <1>2, <1>3 DEF Parser
<1>10. c \in PatientClient => /\ answered[c] = <<>> /\ LastOnly(rx)
                              /\ Decisive(rx) # {} => script[c] = <<>>
                              /\ Decisive(old.buf) = {}
  <2> SUFFICES ASSUME c \in PatientClient
               PROVE  /\ answered[c] = <<>> /\ LastOnly(rx)
                      /\ Decisive(rx) # {} => script[c] = <<>>
                      /\ Decisive(old.buf) = {}
    OBVIOUS
  <2>1. Silent(c)
    BY DEF Quiet
  <2>2. answered[c] = <<>>
    BY <1>2, <2>1 DEF Silent
  <2>3. Decisive(old.buf) = {}
    <3>1. CASE parsers[conn.addr] = None
      <4>1. old.buf = <<>>
        BY <3>1 DEF ParserOf
      <4> QED BY <4>1, NothingDecisive
    <3>2. CASE parsers[conn.addr] # None
      <4>1. old = parsers[conn.addr]
        BY <3>2 DEF ParserOf
      <4>2. Undecided(parsers[conn.addr])
        BY <1>4 DEF Quiet
      <4> HIDE DEF old
      <4> QED BY <1>2, <2>2, <3>2, <4>1, <4>2 DEF Undecided, old
    <3> QED BY <3>1, <3>2
  <2> QED BY <2>1, <2>2, <2>3 DEF Silent
<1> HIDE DEF old, fed, left, k, after, bytes, parser
<1>11. \A d \in Client : d # c => answered'[d] = answered[d]
  BY <1>4, <1>8 DEF IInv, TypeOK
<1>12. \/ answered' = answered
       \/ Len(answered'[c]) = Len(answered[c]) + 1 /\ answered'[c] # <<>>
  <2>1. CASE result.status # "NeedMoreData"
    <3>1. answered'[c] = Append(answered[c], result.request)
      BY <1>4, <1>8, <2>1 DEF IInv, TypeOK
    <3> DEFINE q == answered[c]
    <3>2. q \in Seq(Answers) /\ answered'[c] = Append(q, result.request)
      BY <1>4, <3>1
    <3> HIDE DEF q
    <3>3. Len(Append(q, result.request)) = Len(q) + 1 /\ Append(q, result.request) # <<>>
      BY <1>3, <3>2, AppendProperties
    <3> QED BY <3>2, <3>3 DEF q
  <2>2. CASE ~(result.status # "NeedMoreData")
    BY <1>8, <2>2
  <2> QED BY <2>1, <2>2
<1>13. answered'[c] = <<>> => answered[c] = <<>>
  BY <1>12
<1>14. ASSUME c \in PatientClient
       PROVE  /\ LastOnly(left)
              /\ Decisive(left) # {} => script[c] = <<>>
              /\ answered'[c] # <<>> => left = <<>> /\ script[c] = <<>>
              /\ Len(answered'[c]) <= 1
              /\ answered'[c] = <<>> => Decisive(result.rest) = {}
  <2>1. LastOnly(left) /\ (Decisive(left) # {} => Decisive(rx) # {})
    BY <1>2, <1>4, <1>6, <1>10, <1>14, DecisiveDrop DEF k
  <2>2. CASE Decisive(fed) = {}
    <3>1. answered' = answered /\ Decisive(result.rest) = {}
      BY <1>7, <1>8, <2>2
    <3>2. Len(answered'[c]) <= 1
      <4>1. Len(<<>>) = 0
        OBVIOUS
      <4> QED BY <1>10, <1>14, <3>1, <4>1
    <3> QED BY <1>10, <1>14, <2>1, <3>1, <3>2
  <2>3. CASE Decisive(fed) # {}
    <3>1. left = <<>> /\ Decisive(rx) # {}
      <4> DEFINE buf == old.buf
      <4>1. /\ buf \in Seq(Tokens) /\ Decisive(buf) = {} /\ LastOnly(rx)
            /\ k \in 0 .. Len(rx) /\ Decisive(buf \o SubSeq(rx, 1, k)) # {}
        BY <1>2, <1>6, <1>9, <1>10, <1>14, <2>3 DEF k
      <4> HIDE DEF buf, rx
      <4>2. rx \in Seq(Tokens)
        BY <1>4
      <4>3. Drop(rx, k) = <<>> /\ Decisive(rx) # {}
        BY <4>1, <4>2, DecisiveFed
      <4> QED BY <1>6, <4>3
    <3>2. answered'[c] # <<>>
      <4>1. answered'[c] = Append(answered[c], result.request)
        BY <1>4, <1>7, <1>8, <2>3 DEF IInv, TypeOK
      <4> DEFINE q == answered[c]
      <4>2. q \in Seq(Answers) /\ answered'[c] = Append(q, result.request)
        BY <1>4, <4>1
      <4> HIDE DEF q
      <4> QED BY <1>3, <4>2, AppendProperties
    <3>3. Len(answered'[c]) <= 1
      <4>1. Len(<<>>) = 0
        OBVIOUS
      <4> QED BY <1>10, <1>12, <1>14, <3>2, <4>1
    <3> QED BY <1>10, <1>14, <2>1, <3>1, <3>2, <3>3
  <2> QED BY <2>2, <2>3
<1>15. after.peer = c /\ after.addr = conn.addr
  BY <1>5 DEF SameOwner
<1>16. script' = script /\ batch' \subseteq batch
  BY <1>0
<1> QED BY <1>1, <1>5, <1>8, <1>9, <1>11, <1>13, <1>14, <1>15, <1>16, SettleQuiet

LEMMA WriteEventQuiet ==
    ASSUME IInv, Quiet, NEW e \in batch, WriteEvent(e) PROVE Quiet'
<1>0. /\ batch' = batch \ {e}
      /\ UNCHANGED <<backend, up, running, exits, script, answered>>
  BY Zenon DEF WriteEvent
<1>1. e.fd \in Live
  BY EventIsLive DEF WriteEvent
<1> DEFINE conn == connections[e.fd]
           c    == conn.peer
           l    == link[c]
           failed == l.rst /\ e.writable /\ hasPendingWrites(conn)
<1>2. /\ ConnOK(conn) /\ c \in Client /\ l \in Link /\ l.unread \in 0 .. SendRoom
  BY <1>1, LiveFacts
<1>3. CASE failed
  <2>1. closeConnection(e.fd) /\ link' = [link EXCEPT ![c] = Closed(l, TRUE)]
    BY <1>3 DEF WriteEvent
  <2> QED BY <1>0, <1>1, <2>1, CloseQuiet
<1>4. CASE ~failed
  <2> DEFINE room  == SendRoom - l.unread
             flush == flushIf(e.writable, conn, room)
  <2>1. Settle(e.fd, flush.conn, parsers[conn.addr], flush.sent, l.rx)
    BY <1>4 DEF WriteEvent
  <2>2. room \in Nat
    BY <1>2, SizesAssumption
  <2>3. ConnOK(flush.conn) /\ SameOwner(conn, flush.conn)
    BY <1>2, <2>2, FlushIfOK
  <2>4. flush.conn.peer = c /\ flush.conn.addr = conn.addr
    BY <2>3 DEF SameOwner
  <2>5. c \in PatientClient =>
              /\ LastOnly(l.rx)
              /\ Decisive(l.rx) # {} => script[c] = <<>>
              /\ answered'[c] # <<>> => l.rx = <<>> /\ script[c] = <<>>
              /\ Len(answered'[c]) <= 1
    BY <1>0 DEF Quiet, Silent
  <2> HIDE DEF flush
  <2> QED BY <1>0, <1>1, <2>1, <2>3, <2>4, <2>5, SettleQuiet
<1> QED BY <1>3, <1>4

LEMMA CloseEventQuiet ==
    ASSUME IInv, Quiet, NEW e \in batch, CloseEvent(e) PROVE Quiet'
<1>1. e.fd \in Live
  BY EventIsLive DEF CloseEvent
<1> DEFINE c == connections[e.fd].peer
<1>2. PICK lost \in Losses(link[c]) : link' = [link EXCEPT ![c] = Closed(link[c], lost)]
  BY <1>1 DEF CloseEvent, Live
<1>3. closeConnection(e.fd) /\ batch' = batch \ {e} /\ UNCHANGED <<script, answered>>
  BY <1>1 DEF CloseEvent, Live
<1>4. lost \in BOOLEAN
  BY DEF Losses
<1> QED BY <1>1, <1>2, <1>3, <1>4, CloseQuiet

LEMMA AcceptQuiet ==
    ASSUME IInv, Quiet, NEW e \in batch, Accept(e) PROVE Quiet'
<1>1. /\ link' = [c \in Client |-> IF c \in Backlog THEN [link[c] EXCEPT !.state = "open"]
                                                    ELSE link[c]]
      /\ batch' = batch \ {e} /\ UNCHANGED <<parsers, script, answered>>
  BY DEF Accept
<1>2. ASSUME NEW d \in Client
      PROVE  UNCHANGED <<link[d].rx, link[d].rst, link[d].fin>>
  <2>1. link[d] \in Link
    BY DEF IInv, TypeOK
  <2> QED BY <1>1, <2>1 DEF Link
<1>3. \A d \in PatientClient : UNCHANGED <<script[d], link[d].rx, answered[d]>>
  BY <1>1, <1>2 DEF PatientClient
<1>4. \A d \in Client : /\ answered'[d] = <<>> => answered[d] = <<>>
                        /\ link[d].rst => link'[d].rst
                        /\ Gone(d) => Gone(d)'
  BY <1>1, <1>2 DEF Gone
<1> QED BY <1>1, <1>3, <1>4, QuietStep

LEMMA ProcessEndsQuiet == ASSUME IInv, Quiet, ProcessEnds PROVE Quiet'
<1>1. /\ batch' = {} /\ \A a \in Addr : parsers'[a] = None
      /\ UNCHANGED <<script, answered>>
  BY DEF ProcessEnds
<1>2. ASSUME NEW d \in Client
      PROVE  /\ UNCHANGED <<link[d].rst, link[d].fin>>
             /\ link'[d].rx = link[d].rx \/ link'[d].rx = <<>>
  <2>1. link[d] \in Link
    BY DEF IInv, TypeOK
  <2>2. link'[d] = CASE link[d].state = "open"    -> Closed(link[d], link[d].rx # <<>>)
                     [] link[d].state = "backlog" -> Closed(link[d], TRUE)
                     [] OTHER                     -> link[d]
    BY DEF ProcessEnds
  <2>3. \A lost \in BOOLEAN : LET k == Closed(link[d], lost)
                              IN  k.rst = link[d].rst /\ k.fin = link[d].fin /\ k.rx = <<>>
    BY <2>1 DEF Closed, Link
  <2> QED BY <2>2, <2>3
<1>3. ASSUME NEW d \in PatientClient
      PROVE  Silent(d)' \/ UNCHANGED <<script[d], link[d].rx, answered[d]>>
  <2>1. Silent(d) /\ d \in Client
    BY DEF Quiet, PatientClient
  <2>2. CASE link'[d].rx = <<>>
    BY <1>1, <2>1, <2>2, NothingDecisive DEF Silent
  <2>3. CASE link'[d].rx = link[d].rx
    BY <1>1, <2>3
  <2> QED BY <1>2, <2>1, <2>2, <2>3
<1>4. \A d \in Client : /\ answered'[d] = <<>> => answered[d] = <<>>
                        /\ link[d].rst => link'[d].rst
                        /\ Gone(d) => Gone(d)'
  BY <1>1, <1>2 DEF Gone
<1>5. \A a \in Addr : Undecided(parsers[a])'
  BY <1>1 DEF Undecided
<1> QED BY <1>1, <1>3, <1>4, <1>5, QuietStep

LEMMA WaitQuiet == ASSUME IInv, Quiet, Wait PROVE Quiet'
<1>1. /\ batch' \subseteq Ready
      /\ UNCHANGED <<parsers, link, script, answered>>
  BY DEF Wait
<1>2. ASSUME NEW d \in PatientClient PROVE Silent(d)'
  BY <1>1 DEF Quiet, Silent
<1>3. ASSUME NEW a \in Addr PROVE Undecided(parsers[a])'
  BY <1>1 DEF Quiet, Undecided
<1>4. ASSUME NEW e \in batch' PROVE Truthful(e)'
  <2>1. CASE e = ListenerEvent
    BY <2>1 DEF Truthful, ListenerEvent
  <2>2. CASE e # ListenerEvent
    <3>1. PICK f \in Watched : e = EventFor(f)
      BY <1>1, <1>4, <2>2 DEF Ready
    <3> DEFINE l == link[connections[f].peer]
    <3>2. /\ e.peer = connections[f].peer /\ e.error = (backend = "epoll" /\ l.rst)
          /\ e.hangup = (\/ backend = "epoll" /\ l.rst
                         \/ backend = "kqueue" /\ (l.fin \/ l.rst))
      BY <3>1 DEF EventFor
    <3> HIDE DEF l
    <3>3. (e.error => l.rst) /\ (e.hangup => l.fin \/ l.rst)
      BY <3>2
    <3>4. link'[e.peer] = l
      BY <1>1, <3>2 DEF l
    <3> QED BY <3>3, <3>4 DEF Truthful, Gone
  <2> QED BY <2>1, <2>2
<1> QED BY <1>2, <1>3, <1>4 DEF Quiet

\* A client's step: a patient one sends nothing after its request.
LEMMA ClientActionQuiet ==
    ASSUME IInv, Quiet, NEW c \in Client,
           Connect(c) \/ Send(c) \/ Receive(c) \/ HalfClose(c) \/ Reset(c)
    PROVE  Quiet'
<1>1. UNCHANGED <<batch, parsers, answered>>
  BY DEF Connect, Send, Receive, HalfClose, Reset, serverVars
<1>2. /\ link[c] \in Link /\ link \in [Client -> Link]
      /\ script[c] \in Seq(Tokens) /\ script \in [Client -> Seq(Tokens)]
      /\ link[c].rx \in Seq(Tokens)
  BY DEF IInv, TypeOK, Link
<1>3. \A d \in Client : d # c => link'[d] = link[d] /\ script'[d] = script[d]
  BY <1>2 DEF Connect, Send, Receive, HalfClose, Reset
<1>4. (link[c].rst => link'[c].rst) /\ (link[c].fin => link'[c].fin)
  <2>1. CASE Connect(c)
    BY <1>2, <2>1 DEF Connect, Link
  <2>2. CASE Send(c)
    BY <1>2, <2>2 DEF Send, Link
  <2>3. CASE Receive(c)
    BY <1>2, <2>3 DEF Receive, Link
  <2>4. CASE HalfClose(c)
    BY <1>2, <2>4 DEF HalfClose, Link
  <2>5. CASE Reset(c)
    BY <1>2, <2>5 DEF Reset, Link
  <2> QED BY <2>1, <2>2, <2>3, <2>4, <2>5
<1>5. CASE Send(c)
  <2> DEFINE s  == script[c]
             rx == link[c].rx
             h  == Head(s)
  <2>1. /\ s # <<>> /\ script'[c] = Tail(s) /\ link'[c].rx = Append(rx, h)
    BY <1>2, <1>5 DEF Send, Link
  <2>2. s \in Seq(Tokens) /\ rx \in Seq(Tokens)
    BY <1>2
  <2> HIDE DEF s, rx
  <2>3. /\ h \in Tokens /\ h = s[1] /\ Tail(s) \in Seq(Tokens)
        /\ Len(s) \in Nat \ {0} /\ Len(Tail(s)) = Len(s) - 1
        /\ \A i \in 1 .. Len(s) - 1 : Tail(s)[i] = s[i + 1]
    BY <2>1, <2>2, HeadTailProperties
  <2>4. /\ Append(rx, h) \in Seq(Tokens) /\ Len(Append(rx, h)) = Len(rx) + 1 /\ Len(rx) \in Nat
        /\ \A i \in 1 .. Len(rx) : Append(rx, h)[i] = rx[i]
        /\ Append(rx, h)[Len(rx) + 1] = h
    BY <2>2, <2>3, AppendProperties, LenProperties
  <2>5. ASSUME c \in PatientClient PROVE Silent(c)'
    <3>1. /\ LastOnly(s) /\ LastOnly(rx) /\ Decisive(rx) = {} /\ answered[c] = <<>>
      <4>1. Silent(c)
        BY <2>5 DEF Quiet
      <4> QED BY <2>1, <4>1 DEF Silent, s, rx
    <3>2. LastOnly(Tail(s))
      <4> SUFFICES ASSUME NEW i \in Decisive(Tail(s)) PROVE i = Len(Tail(s))
        BY DEF LastOnly
      <4>1. i \in 1 .. Len(s) - 1 /\ s[i + 1] \in Answers
        BY <2>3 DEF Decisive
      <4>2. i + 1 \in Decisive(s)
        BY <2>3, <4>1 DEF Decisive
      <4>3. i + 1 = Len(s)
        BY <3>1, <4>2 DEF LastOnly
      <4>4. Len(Tail(s)) = Len(s) - 1 /\ Len(s) \in Nat /\ i \in Nat
        BY <2>3, <4>1
      <4> QED BY <4>3, <4>4
    <3>3. \A i \in Decisive(Append(rx, h)) : i = Len(rx) + 1
      <4> SUFFICES ASSUME NEW i \in Decisive(Append(rx, h)), i # Len(rx) + 1 PROVE FALSE
        OBVIOUS
      <4>1. i \in 1 .. Len(rx) /\ rx[i] \in Answers
        BY <2>4 DEF Decisive
      <4> QED BY <3>1, <4>1 DEF Decisive
    <3>4. LastOnly(Append(rx, h))
      BY <2>4, <3>3 DEF LastOnly
    <3>5. Decisive(Append(rx, h)) # {} => Tail(s) = <<>>
      <4> SUFFICES ASSUME NEW i \in Decisive(Append(rx, h)) PROVE Tail(s) = <<>>
        OBVIOUS
      <4>1. h \in Answers
        BY <2>4, <3>3 DEF Decisive
      <4>2. 1 \in Decisive(s)
        BY <2>3, <4>1 DEF Decisive
      <4>3. Len(Tail(s)) = 0
        BY <2>3, <3>1, <4>2 DEF LastOnly
      <4> QED BY <2>3, <4>3, EmptySeq
    <3>6. Len(answered[c]) <= 1
      <4>1. Len(<<>>) = 0
        OBVIOUS
      <4> QED BY <3>1, <4>1
    <3> QED BY <1>1, <2>1, <3>1, <3>2, <3>4, <3>5, <3>6 DEF Silent
  <2>6. \A d \in PatientClient : Silent(d)' \/ UNCHANGED <<script[d], link[d].rx, answered[d]>>
    <3> SUFFICES ASSUME NEW d \in PatientClient
                 PROVE  Silent(d)' \/ UNCHANGED <<script[d], link[d].rx, answered[d]>>
      OBVIOUS
    <3>1. d \in Client
      BY DEF PatientClient
    <3>2. CASE d = c
      BY <2>5, <3>2
    <3>3. CASE d # c
      BY <1>1, <1>3, <3>1, <3>3
    <3> QED BY <3>2, <3>3
  <2> QED BY <1>1, <1>3, <1>4, <2>6, QuietStep DEF Gone
<1>6. CASE ~Send(c)
  <2>1. /\ script' = script
        /\ link'[c].rx = link[c].rx \/ link'[c].rx = <<>>
    BY <1>2, <1>6 DEF Connect, Receive, HalfClose, Reset, Link
  <2>2. ASSUME NEW d \in PatientClient
        PROVE  Silent(d)' \/ UNCHANGED <<script[d], link[d].rx, answered[d]>>
    <3>1. Silent(d) /\ d \in Client
      BY DEF Quiet, PatientClient
    <3>2. CASE link'[d].rx = <<>>
      BY <1>1, <2>1, <3>1, <3>2, NothingDecisive DEF Silent
    <3>3. CASE link'[d].rx = link[d].rx
      BY <1>1, <2>1, <3>3
    <3> QED BY <1>3, <2>1, <3>1, <3>2, <3>3
  <2> QED BY <1>1, <1>3, <1>4, <2>2, QuietStep DEF Gone
<1> QED BY <1>5, <1>6

LEMMA InitQuiet == Init => Quiet
<1> SUFFICES ASSUME Init PROVE Quiet
  OBVIOUS
<1>1. ASSUME NEW c \in PatientClient PROVE Silent(c)
  <2>1. /\ script[c] = Script[c] /\ link[c].rx = <<>> /\ answered[c] = <<>>
        /\ Script[c] \in Seq(Tokens)
    BY ClientsAssumption DEF Init, NewLink, PatientClient
  <2>2. LastOnly(Script[c])
    <3>1. DOMAIN Script[c] = 1 .. Len(Script[c])
      BY <2>1, LenProperties
    <3> QED BY <3>1 DEF LastOnly, Decisive, PatientClient
  <2>3. Len(<<>>) <= 1
    OBVIOUS
  <2> QED BY <2>1, <2>2, <2>3, NothingDecisive DEF Silent
<1>2. ASSUME NEW a \in Addr PROVE Undecided(parsers[a])
  BY DEF Init, Undecided
<1>3. batch = {}
  BY DEF Init
<1> QED BY <1>1, <1>2, <1>3 DEF Quiet

LEMMA NextQuiet == IInv /\ Quiet /\ [Next]_vars => Quiet'
<1> SUFFICES ASSUME IInv, Quiet, [Next]_vars PROVE Quiet'
  OBVIOUS
<1>1. CASE Start \/ Stop \/ UNCHANGED vars
  <2>1. UNCHANGED <<batch, parsers, link, script, answered>>
    BY <1>1 DEF Start, Stop, vars
  <2> QED BY <2>1, QuietStep DEF Gone
<1>2. CASE HandleEvent
  BY <1>2, AcceptQuiet, CloseEventQuiet, ReadEventQuiet, WriteEventQuiet DEF HandleEvent
<1>3. CASE Wait
  BY <1>3, WaitQuiet
<1>4. CASE Return \/ Terminate
  BY <1>4, ProcessEndsQuiet DEF Return, Terminate
<1>5. ASSUME NEW c \in Client,
             Connect(c) \/ Send(c) \/ Receive(c) \/ HalfClose(c) \/ Reset(c)
      PROVE  Quiet'
  BY <1>5, ClientActionQuiet
<1> QED BY <1>1, <1>2, <1>3, <1>4, <1>5 DEF Next, Loop

LEMMA StageAfter ==
    ASSUME NEW c
    PROVE  /\ link'[c].state = "closed" /\ answered'[c] # <<>>
              /\ sent'[c] = Wire(1, answered'[c][1]) => Stage(c)' = "complete"
           /\ link'[c].state = "closed"
              /\ ~(answered'[c] # <<>> /\ sent'[c] = Wire(1, answered'[c][1]))
                => Stage(c)' = "aborted"
           /\ link'[c].state # "closed" =>
                Stage(c)' = IF answered'[c] # <<>> THEN "answering" ELSE "waiting"
  BY DEF Stage, Wire

LEMMA OneLong ==
    ASSUME NEW S, NEW q \in Seq(S), q # <<>>, Len(q) <= 1
    PROVE  Len(q) = 1 /\ q[1] \in S
<1>1. Len(q) \in Nat /\ Len(q) # 0
  BY EmptySeq, LenProperties
<1>2. Len(q) = 1
  BY <1>1
<1> QED BY <1>2, ElementOfSeq

LEMMA WireFacts ==
    ASSUME NEW r \in Answers
    PROVE  /\ Wire(1, r) \in Seq(Byte) /\ Len(Wire(1, r)) = AnswerTotal(r)
           /\ AnswerTotal(r) \in Nat
<1>1. BodyLen(r) \in Nat /\ HeadLen \in Nat
  BY BodyLenType, SizesAssumption
<1> DEFINE n == HeadLen + BodyLen(r)
<1>2. n \in Nat
  BY <1>1
<1> HIDE DEF n
<1>3. Units(1, 0, n) \in Seq(Byte) /\ Len(Units(1, 0, n)) = n
  BY <1>2, UnitsFacts
<1> QED BY <1>2, <1>3 DEF Wire, AnswerTotal, n

\* A connection with nothing pending has nothing left of its response.
LEMMA NothingPending ==
    ASSUME NEW conn, ConnOK(conn), ~hasPendingWrites(conn)
    PROVE  Pending(conn) = <<>>
<1>1. /\ conn.streamingBody = None /\ readableView(conn.outbound) \in Seq(Byte)
      /\ Len(readableView(conn.outbound)) = readableBytes(conn.outbound)
      /\ readableBytes(conn.outbound) \in Nat
  BY ViewFacts DEF hasPendingWrites, ConnOK
<1>2. readableView(conn.outbound) = <<>>
  <2>1. readableBytes(conn.outbound) = 0
    BY <1>1 DEF hasPendingWrites
  <2> QED BY <1>1, <2>1, EmptySeq
<1>3. <<>> \o <<>> = <<>>
  OBVIOUS
<1> QED BY <1>1, <1>2, <1>3 DEF Pending

\* Two halves of a sequence: how long they are, and when one is all of it.
LEMMA HalvesFacts ==
    ASSUME NEW S, NEW s \in Seq(S), NEW t \in Seq(S)
    PROVE  /\ Len(s \o t) = Len(s) + Len(t) /\ Len(s) \in Nat /\ Len(t) \in Nat
           /\ Len(s) = Len(s \o t) => s = s \o t
<1>1. Len(s \o t) = Len(s) + Len(t) /\ Len(s) \in Nat /\ Len(t) \in Nat
  BY ConcatProperties, LenProperties
<1>2. ASSUME Len(s) = Len(s \o t) PROVE s = s \o t
  <2>1. Len(t) = 0
    BY <1>1, <1>2
  <2>2. t = <<>>
    BY <2>1, EmptySeq
  <2> QED BY <2>2, ConcatEmptySeq
<1> QED BY <1>1, <1>2

\* The tail of the loop body is a step of service, or it is not seen.
LEMMA SettleMaps ==
    ASSUME IInv, Intact, up, NEW f \in Live,
           NEW conn, ConnOK(conn), SameOwner(connections[f], conn),
           NEW parser, NEW bytes \in Seq(Byte), NEW rx,
           Settle(f, conn, parser, bytes, rx), UNCHANGED up,
           answered' \in [Client -> Seq(Answers)],
           \A d \in Client : d # conn.peer => answered'[d] = answered[d],
           OnItsWay(conn, sent[conn.peer] \o bytes, answered'[conn.peer]),
           conn.peer \in PatientClient =>
              /\ Len(answered'[conn.peer]) <= 1
              /\ answered[conn.peer] # <<>> => answered'[conn.peer] = answered[conn.peer]
    PROVE  [Exchange!Next]_(Exchange!vars)
<1> DEFINE c == conn.peer
           l == [link[c] EXCEPT !.rx = rx, !.unread = @ + Len(bytes)]
<1>1. /\ f \in Fd /\ c \in Client /\ connections[f].peer = c
      /\ link[c] \in Link /\ link[c].state = "open" /\ link \in [Client -> Link]
      /\ sent[c] \in Seq(Byte) /\ sent \in [Client -> Seq(Byte)]
      /\ answered[c] \in Seq(Answers)
  BY LiveFacts DEF SameOwner, IInv, TypeOK
<1>2. /\ sent'[c] = sent[c] \o bytes
      /\ \A d \in Client : d # c => sent'[d] = sent[d]
  <2>1. sent' = [sent EXCEPT ![c] = sent[c] \o bytes]
    BY DEF Settle
  <2> QED BY <1>1, <2>1
<1>3. /\ \A d \in Client : d # c => link'[d] = link[d]
      /\ link'[c].rst = link[c].rst /\ link'[c].fin = link[c].fin
      /\ isDone(conn) => link'[c].state = "closed"
      /\ ~isDone(conn) => link'[c].state = "open"
  <2>0. l.rst = link[c].rst /\ l.fin = link[c].fin /\ l.state = "open"
    BY <1>1 DEF Link
  <2>1. CASE isDone(conn)
    <3>1. PICK lost \in Losses(l) : link' = [link EXCEPT ![c] = Closed(l, lost)]
      BY <2>1 DEF Settle
    <3> DEFINE k == Closed(l, lost)
    <3>2. k.rst = link[c].rst /\ k.fin = link[c].fin /\ k.state = "closed"
      BY <1>1 DEF Closed, Link
    <3>3. link' = [link EXCEPT ![c] = k]
      BY <3>1
    <3> HIDE DEF k, l
    <3> QED BY <1>1, <2>1, <3>2, <3>3
  <2>2. CASE ~isDone(conn)
    <3>1. link' = [link EXCEPT ![c] = l]
      BY <2>2 DEF Settle
    <3> HIDE DEF l
    <3> QED BY <1>1, <2>0, <2>2, <3>1
  <2> QED BY <2>1, <2>2
<1>4. \A d \in PatientClient \ {c} : UNCHANGED View(d)
  <2> SUFFICES ASSUME NEW d \in PatientClient \ {c} PROVE UNCHANGED View(d)
    OBVIOUS
  <2>1. d \in Client /\ d # c
    BY DEF PatientClient
  <2>2. UNCHANGED <<link[d], sent[d], answered[d]>>
    BY <1>2, <1>3, <2>1
  <2> QED BY <2>2 DEF View, Stage, Request, Delivered, Gone
<1>5. UNCHANGED Gone(c)
  BY <1>3 DEF Gone
<1>6. ASSUME c \in PatientClient PROVE Serves(c) \/ UNCHANGED View(c)
  <2>1. CASE answered'[c] = <<>>
    <3>1. answered[c] = <<>> /\ sent[c] = <<>> /\ sent'[c] = <<>> /\ ~isDone(conn)
      <4>1. answered[c] = <<>>
        BY <1>6, <2>1
      <4>2. sent[c] = <<>>
        <5>1. OnItsWay(connections[f], sent[c], answered[c])
          BY <1>1 DEF Intact
        <5> QED BY <4>1, <5>1 DEF OnItsWay
      <4>3. sent'[c] = <<>> /\ Fresh(conn)
        BY <1>2, <2>1 DEF OnItsWay
      <4> QED BY <4>1, <4>2, <4>3 DEF isDone, Fresh
    <3>2. link[c].state # "closed" /\ link'[c].state # "closed"
      BY <1>1, <1>3, <3>1
    <3> QED BY <1>5, <2>1, <3>1, <3>2 DEF View, Stage, Request, Delivered
  <2>2. CASE answered'[c] # <<>>
    <3> DEFINE r == answered'[c][1]
               q == answered'[c]
    <3>1. r \in Answers /\ Len(answered'[c]) = 1
      <4>1. q \in Seq(Answers) /\ q # <<>> /\ Len(q) <= 1
        BY <1>1, <1>6, <2>2
      <4> HIDE DEF q
      <4>2. Len(q) = 1 /\ q[1] \in Answers
        BY <4>1, OneLong
      <4> QED BY <4>2 DEF q
    <3>2. sent'[c] \o Pending(conn) = Wire(1, r)
      BY <1>2, <3>1 DEF OnItsWay
    <3> HIDE DEF r, q
    <3>3. /\ Wire(1, r) \in Seq(Byte) /\ Len(Wire(1, r)) = AnswerTotal(r)
          /\ AnswerTotal(r) \in Nat /\ Pending(conn) \in Seq(Byte)
      BY <3>1, WireFacts, PendingFacts
    <3> DEFINE old  == sent[c]
               new  == sent'[c]
               rest == Pending(conn)
    <3>4. /\ old \in Seq(Byte) /\ new = old \o bytes /\ new \in Seq(Byte) /\ rest \in Seq(Byte)
          /\ new \o rest = Wire(1, r)
      <4>1. old \in Seq(Byte) /\ new = old \o bytes
        BY <1>1, <1>2
      <4> HIDE DEF old
      <4>2. old \o bytes \in Seq(Byte)
        BY <4>1, ConcatProperties
      <4> QED BY <3>2, <3>3, <4>1, <4>2
    <3> HIDE DEF old, new, rest
    <3>5. /\ Len(new) = Len(old) + Len(bytes) /\ Len(new) + Len(rest) = AnswerTotal(r)
          /\ Len(old) \in Nat /\ Len(bytes) \in Nat /\ Len(new) \in Nat /\ Len(rest) \in Nat
      BY <3>3, <3>4, HalvesFacts
    <3>6. Len(new) \in Len(old) .. AnswerTotal(r)
      BY <3>3, <3>5
    <3>7. isDone(conn) => new = Wire(1, r) /\ Len(new) = AnswerTotal(r)
      <4> SUFFICES ASSUME isDone(conn) PROVE new = Wire(1, r) /\ Len(new) = AnswerTotal(r)
        OBVIOUS
      <4>1. rest = <<>>
        BY NothingPending DEF isDone, rest
      <4>2. new = Wire(1, r)
        BY <3>4, <4>1, ConcatEmptySeq
      <4> QED BY <3>3, <4>2
    <3>8. /\ Delivered(c) = Len(old) /\ Delivered(c)' = Len(new) /\ Request(c)' = r
      BY <2>2 DEF Delivered, Request, old, new, r
    <3>9. /\ answered[c] = <<>> => Stage(c) = "waiting"
          /\ answered[c] # <<>> => Stage(c) = "answering" /\ Request(c) = r
      BY <1>1, <1>6 DEF Stage, Request, r
    <3>10. /\ isDone(conn) => Stage(c)' = "complete"
           /\ ~isDone(conn) => Stage(c)' = "answering"
      <4>1. CASE isDone(conn)
        <5>1. /\ link'[c].state = "closed" /\ answered'[c] # <<>>
              /\ sent'[c] = Wire(1, answered'[c][1])
          BY <1>3, <2>2, <3>7, <4>1 DEF new, r
        <5> QED BY <4>1, <5>1, StageAfter
      <4>2. CASE ~isDone(conn)
        <5>1. link'[c].state = "open" /\ answered'[c] # <<>>
          BY <1>3, <2>2, <4>2
        <5> QED BY <4>2, <5>1, StageAfter
      <4> QED BY <4>1, <4>2
    <3>11. Stage(c) \in {"waiting", "answering"}
      BY <3>9
    <3>12. r \in IF Stage(c) = "waiting" THEN Answers ELSE {Request(c)}
      BY <3>1, <3>9
    <3> QED BY <1>5, <3>6, <3>7, <3>8, <3>10, <3>11, <3>12 DEF Serves
  <2> QED BY <2>1, <2>2
<1> QED BY <1>4, <1>6, OneClientStep

\* The server closes the connection of a client that left.
LEMMA CloseMaps ==
    ASSUME IInv, Intact, Quiet, up, NEW f \in Live, NEW c, connections[f].peer = c, Gone(c),
           NEW lost \in BOOLEAN, link' = [link EXCEPT ![c] = Closed(link[c], lost)],
           UNCHANGED <<up, sent, answered>>
    PROVE  [Exchange!Next]_(Exchange!vars)
<1> DEFINE k == Closed(link[c], lost)
<1>1. /\ f \in Fd /\ c \in Client /\ link[c] \in Link /\ link[c].state = "open"
      /\ link \in [Client -> Link] /\ answered[c] \in Seq(Answers)
  BY LiveFacts DEF IInv, TypeOK
<1>2. k.rst = link[c].rst /\ k.fin = link[c].fin /\ k.state = "closed"
  BY <1>1 DEF Closed, Link
<1>3. link' = [link EXCEPT ![c] = k]
  OBVIOUS
<1> HIDE DEF k
<1>4. link'[c] = k /\ \A d \in Client : d # c => link'[d] = link[d]
  BY <1>1, <1>3
<1>5. \A d \in PatientClient \ {c} : UNCHANGED View(d)
  BY <1>4 DEF View, Stage, Request, Delivered, Gone, PatientClient
<1>6. UNCHANGED <<Request(c), Delivered(c), Gone(c)>> /\ link'[c].state = "closed"
  BY <1>2, <1>4 DEF Request, Delivered, Gone
<1>7. ASSUME c \in PatientClient PROVE Serves(c) \/ Drops(c)
  <2> DEFINE whole == answered[c] # <<>> /\ sent[c] = Wire(1, answered[c][1])
  <2>1. CASE whole
    <3> DEFINE r == answered[c][1]
    <3>1. Stage(c)' = "complete"
      BY <1>6, <2>1, StageAfter
    <3>2. Stage(c) = "answering" /\ Request(c) = r
      BY <1>1, <2>1 DEF Stage, Request
    <3>3. r \in Answers
      <4> DEFINE q == answered[c]
      <4>1. q \in Seq(Answers) /\ q # <<>> /\ Len(q) <= 1
        BY <1>1, <1>7, <2>1 DEF Quiet, Silent
      <4> HIDE DEF q
      <4>2. q[1] \in Answers
        BY <4>1, OneLong
      <4> QED BY <4>2 DEF q
    <3>4. Delivered(c) = AnswerTotal(r) /\ AnswerTotal(r) \in Nat
      BY <2>1, <3>3, WireFacts DEF Delivered
    <3> HIDE DEF r
    <3>5. /\ Request(c)' = r /\ Delivered(c)' = AnswerTotal(r)
          /\ Delivered(c)' \in Delivered(c) .. AnswerTotal(r)
      BY <1>6, <3>2, <3>4
    <3> QED BY <1>6, <3>1, <3>2, <3>5 DEF Serves
  <2>2. CASE ~whole
    <3>1. Stage(c)' = "aborted"
      BY <1>6, <2>2, StageAfter
    <3>2. Stage(c) \in {"waiting", "answering"}
      BY <1>1 DEF Stage
    <3> QED BY <1>6, <3>1, <3>2 DEF Drops
  <2> QED BY <2>1, <2>2
<1> QED BY <1>5, <1>7, OneClientStep

\* A step the exchange does not see.
LEMMA UnseenMaps ==
    ASSUME \A d \in PatientClient : UNCHANGED View(d), UNCHANGED up
    PROVE  UNCHANGED Exchange!vars
<1>1. \A d \in PatientClient : /\ Stage(d)' = Stage(d) /\ Request(d)' = Request(d)
                               /\ Delivered(d)' = Delivered(d) /\ Gone(d)' = Gone(d)
  BY DEF View
<1> QED BY <1>1 DEF Exchange!vars, ExchangeStage, ExchangeRequest, ExchangeDelivered, ExchangeGone

LEMMA WriteEventMaps ==
    ASSUME IInv, Intact, Quiet, NEW e \in batch, WriteEvent(e)
    PROVE  [Exchange!Next]_(Exchange!vars)
<1>0. /\ up /\ UNCHANGED <<up, answered>>
  BY Zenon DEF WriteEvent
<1>1. e.fd \in Live
  BY EventIsLive DEF WriteEvent
<1> DEFINE conn == connections[e.fd]
           c    == conn.peer
           l    == link[c]
           failed == l.rst /\ e.writable /\ hasPendingWrites(conn)
<1>2. /\ ConnOK(conn) /\ c \in Client /\ l \in Link /\ l.unread \in 0 .. SendRoom
      /\ sent[c] \in Seq(Byte)
  <2>1. ConnOK(conn) /\ c \in Client /\ l \in Link /\ l.unread \in 0 .. SendRoom
    BY <1>1, LiveFacts
  <2> QED BY <2>1 DEF IInv, TypeOK
<1>3. CASE failed
  <2>1. link' = [link EXCEPT ![c] = Closed(l, TRUE)] /\ UNCHANGED sent
    BY <1>3 DEF WriteEvent
  <2>2. Gone(c)
    BY <1>3 DEF Gone
  <2> QED BY <1>0, <1>1, <2>1, <2>2, CloseMaps
<1>4. CASE ~failed
  <2> DEFINE room  == SendRoom - l.unread
             flush == flushIf(e.writable, conn, room)
  <2>1. Settle(e.fd, flush.conn, parsers[conn.addr], flush.sent, l.rx)
    BY <1>4 DEF WriteEvent
  <2>2. room \in Nat
    BY <1>2, SizesAssumption
  <2>3. ConnOK(flush.conn) /\ SameOwner(conn, flush.conn) /\ flush.sent \in Seq(Byte)
    BY <1>2, <2>2, FlushIfOK
  <2>4. OnItsWay(conn, sent[c], answered[c])
    BY <1>1 DEF Intact
  <2>5. OnItsWay(flush.conn, sent[c] \o flush.sent, answered[c])
    BY <1>2, <2>2, <2>4, FlushOnItsWay
  <2>6. flush.conn.peer = c
    BY <2>3 DEF SameOwner
  <2> HIDE DEF flush
  <2>7. answered' \in [Client -> Seq(Answers)]
    BY <1>0 DEF IInv, TypeOK
  <2>8. c \in PatientClient => Len(answered'[c]) <= 1 /\ answered'[c] = answered[c]
    BY <1>0 DEF Quiet, Silent
  <2> QED BY <1>0, <1>1, <2>1, <2>3, <2>5, <2>6, <2>7, <2>8, SettleMaps
<1> QED BY <1>3, <1>4

LEMMA CloseEventMaps ==
    ASSUME IInv, Intact, Quiet, NEW e \in batch, CloseEvent(e)
    PROVE  [Exchange!Next]_(Exchange!vars)
<1>1. e.fd \in Live /\ e.fd # Listener
  BY EventIsLive DEF CloseEvent
<1> DEFINE c == connections[e.fd].peer
<1>2. PICK lost \in Losses(link[c]) : link' = [link EXCEPT ![c] = Closed(link[c], lost)]
  BY <1>1 DEF CloseEvent, Live
<1>3. mustClose(e, link[c]) /\ up /\ UNCHANGED <<up, sent, answered>>
  BY <1>1 DEF CloseEvent, Live
<1>4. lost \in BOOLEAN
  BY DEF Losses
<1>5. Gone(c)
  <2>1. e.peer = c /\ Truthful(e)
    BY <1>1 DEF IInv, EventsMatchConnections, Quiet
  <2>2. (e.error => link[c].rst) /\ (e.hangup => link[c].fin \/ link[c].rst)
    BY <1>1, <2>1 DEF Truthful, Gone
  <2> QED BY <1>3, <2>2 DEF mustClose, Recv, Gone
<1> QED BY <1>1, <1>2, <1>3, <1>4, <1>5, CloseMaps

LEMMA AcceptMaps ==
    ASSUME IInv, NEW e \in batch, Accept(e)
    PROVE  UNCHANGED Exchange!vars
<1>1. /\ link' = [c \in Client |-> IF c \in Backlog THEN [link[c] EXCEPT !.state = "open"]
                                                    ELSE link[c]]
      /\ UNCHANGED <<up, sent, answered>>
  BY DEF Accept
<1>2. ASSUME NEW d \in PatientClient PROVE UNCHANGED View(d)
  <2>1. link[d] \in Link /\ d \in Client
    BY DEF IInv, TypeOK, PatientClient
  <2>2. /\ UNCHANGED <<link[d].rst, link[d].fin>>
        /\ link'[d].state = "closed" <=> link[d].state = "closed"
    BY <1>1, <2>1 DEF Link, Backlog
  <2> QED BY <1>1, <2>2 DEF View, Stage, Request, Delivered, Gone
<1> QED BY <1>1, <1>2, UnseenMaps

\* The end of the process ends every exchange that was under way.
LEMMA ProcessEndsMaps ==
    ASSUME IInv, Intact, Quiet, up, ProcessEnds
    PROVE  Exchange!Next
<1> DEFINE ended == {c \in PatientClient : link[c].state \in {"backlog", "open"}}
<1>1. up' = FALSE /\ UNCHANGED <<sent, answered>>
  BY DEF ProcessEnds
<1>2. ASSUME NEW c \in PatientClient
      PROVE  /\ UNCHANGED <<Request(c), Delivered(c), Gone(c)>>
             /\ c \notin ended => Stage(c)' = Stage(c)
             /\ c \in ended => /\ Stage(c) \in {"waiting", "answering"}
                               /\ Stage(c)' = IF /\ Request(c) # None
                                                 /\ Delivered(c) = AnswerTotal(Request(c))
                                              THEN "complete" ELSE "aborted"
  <2>1. /\ c \in Client /\ link[c] \in Link /\ sent[c] \in Seq(Byte)
        /\ answered[c] \in Seq(Answers) /\ Len(answered[c]) <= 1
    BY DEF IInv, TypeOK, PatientClient, Quiet, Silent
  <2>2. link'[c] = CASE link[c].state = "open"    -> Closed(link[c], link[c].rx # <<>>)
                     [] link[c].state = "backlog" -> Closed(link[c], TRUE)
                     [] OTHER                     -> link[c]
    BY <2>1 DEF ProcessEnds
  <2>3. \A lost \in BOOLEAN : LET k == Closed(link[c], lost)
                              IN  /\ k.rst = link[c].rst /\ k.fin = link[c].fin
                                  /\ k.state = "closed"
    BY <2>1 DEF Closed, Link
  <2>4. /\ UNCHANGED <<link[c].rst, link[c].fin>>
        /\ c \in ended => link[c].state # "closed" /\ link'[c].state = "closed"
        /\ c \notin ended => link'[c] = link[c]
    BY <2>2, <2>3
  <2>5. UNCHANGED <<Request(c), Delivered(c), Gone(c)>>
    BY <1>1, <2>4 DEF Request, Delivered, Gone
  <2>6. c \notin ended => Stage(c)' = Stage(c)
    BY <1>1, <2>4 DEF Stage
  <2>7. ASSUME c \in ended
        PROVE  /\ Stage(c) \in {"waiting", "answering"}
               /\ Stage(c)' = IF Request(c) # None /\ Delivered(c) = AnswerTotal(Request(c))
                              THEN "complete" ELSE "aborted"
    <3>1. Stage(c) \in {"waiting", "answering"}
      BY <2>4, <2>7 DEF Stage
    <3>2. CASE answered[c] = <<>>
      BY <1>1, <2>4, <2>7, <3>1, <3>2, StageAfter DEF Request
    <3>3. CASE answered[c] # <<>>
      <4> DEFINE r == answered[c][1]
                 q == answered[c]
      <4>1. r \in Answers /\ Len(answered[c]) = 1
        <5>1. q \in Seq(Answers) /\ q # <<>> /\ Len(q) <= 1
          BY <2>1, <3>3
        <5> HIDE DEF q
        <5>2. Len(q) = 1 /\ q[1] \in Answers
          BY <5>1, OneLong
        <5> QED BY <5>2 DEF q
      <4>2. Request(c) = r /\ Request(c) # None /\ Delivered(c) = Len(sent[c])
        BY <3>3, <4>1, NoneAssumption DEF Request, Delivered
      <4>3. sent[c] = Wire(1, r) <=> Len(sent[c]) = AnswerTotal(r)
        <5>1. link[c].state = "open"
          BY <2>7, <3>3, <2>1 DEF Intact
        <5>2. PICK f \in Live : connections[f].peer = c
          BY <2>1, <5>1 DEF IInv, SocketsOwned
        <5> DEFINE s == sent[c]
                   t == Pending(connections[f])
        <5>3. s \in Seq(Byte) /\ t \in Seq(Byte) /\ s \o t = Wire(1, r)
          <6>1. OnItsWay(connections[f], sent[c], answered[c])
            BY <5>2 DEF Intact
          <6>2. t \in Seq(Byte)
            BY LiveFacts, PendingFacts
          <6> QED BY <2>1, <4>1, <6>1, <6>2 DEF OnItsWay
        <5>4. Len(Wire(1, r)) = AnswerTotal(r)
          BY <4>1, WireFacts
        <5> HIDE DEF s, t, r
        <5>5. Len(s) = Len(s \o t) => s = s \o t
          BY <5>3, HalvesFacts
        <5>6. s = Wire(1, r) <=> Len(s) = AnswerTotal(r)
          BY <5>3, <5>4, <5>5
        <5> QED BY <5>6 DEF s
      <4>4. link'[c].state = "closed" /\ answered'[c] = answered[c] /\ sent'[c] = sent[c]
        BY <1>1, <2>4, <2>7
      <4>5. Stage(c)' = IF sent[c] = Wire(1, r) THEN "complete" ELSE "aborted"
        BY <3>3, <4>4, StageAfter
      <4> HIDE DEF r
      <4> QED BY <3>1, <4>2, <4>3, <4>5
    <3> QED BY <3>2, <3>3
  <2> QED BY <2>5, <2>6, <2>7
<1> HIDE DEF ended
<1>3. ended \in SUBSET {c \in PatientClient : ExchangeStage[c] \in {"waiting", "answering"}}
  BY <1>2 DEF ExchangeStage, ended
<1>4. ExchangeStage' = [c \in PatientClient |->
         IF c \notin ended THEN ExchangeStage[c]
         ELSE IF /\ ExchangeRequest[c] # None
                 /\ ExchangeDelivered[c] = AnswerTotal(ExchangeRequest[c])
              THEN "complete" ELSE "aborted"]
  <2>1. \A c \in PatientClient : /\ ExchangeStage[c] = Stage(c) /\ ExchangeRequest[c] = Request(c)
                                 /\ ExchangeDelivered[c] = Delivered(c)
    BY DEF ExchangeStage, ExchangeRequest, ExchangeDelivered
  <2>2. ExchangeStage' = [c \in PatientClient |-> Stage(c)']
    BY DEF ExchangeStage
  <2> QED BY <1>2, <2>1, <2>2
<1>5. UNCHANGED <<ExchangeRequest, ExchangeDelivered, ExchangeGone>>
  BY <1>2 DEF ExchangeRequest, ExchangeDelivered, ExchangeGone
<1>6. Exchange!Die
  BY <1>1, <1>3, <1>4, <1>5 DEF Exchange!Die
<1> QED BY <1>6 DEF Exchange!Next

LEMMA ReadEventMaps ==
    ASSUME IInv, IInv', Intact, Quiet, Quiet', NEW e \in batch, ReadEvent(e)
    PROVE  [Exchange!Next]_(Exchange!vars)
<1>0. up /\ UNCHANGED up /\ e.fd # Listener
  BY Zenon DEF ReadEvent
<1>1. e.fd \in Live
  BY <1>0, EventIsLive
<1> DEFINE conn == connections[e.fd]
           c    == conn.peer
<1>2. link[c].rx # <<>> /\ c \in Client /\ answered' \in [Client -> Seq(Answers)]
  <2>1. link[c].rx # <<>>
    BY ReadEventFacts, Zenon
  <2> QED BY <1>1, <2>1, LiveFacts DEF IInv, TypeOK
<1>3. PICK result \in next(FedOf(conn)) :
           /\ result.request \in Answers /\ result.rest \in Seq(Tokens)
           /\ answered' = IF result.status # "NeedMoreData"
                          THEN [answered EXCEPT ![c] = Append(@, result.request)]
                          ELSE answered
           /\ Settle(e.fd, SecondFlush(e, conn, result).conn,
                     [ParserOf(conn) EXCEPT !.buf = result.rest],
                     FirstFlush(conn, result).sent \o SecondFlush(e, conn, result).sent,
                     LeftOf(conn))
  BY ReadEventFacts, Zenon
<1> DEFINE first  == FirstFlush(conn, result)
           again  == SecondFlush(e, conn, result)
           after  == again.conn
           bytes  == first.sent \o again.sent
           parser == [ParserOf(conn) EXCEPT !.buf = result.rest]
           rx     == LeftOf(conn)
<1>4. /\ ConnOK(after) /\ SameOwner(conn, after)
      /\ first.sent \in Seq(Byte) /\ again.sent \in Seq(Byte)
  BY <1>1, <1>3, FlushesOK, Zenon
<1>5. /\ OnItsWay(after, sent[c] \o bytes, answered'[c])
      /\ \A d \in Client : d # c => answered'[d] = answered[d]
  BY <1>1, <1>3, ReadOnItsWay, Zenon
<1>6. Settle(e.fd, after, parser, bytes, rx)
  BY <1>3
<1> HIDE DEF first, again
<1>7. bytes \in Seq(Byte)
  BY <1>4, ConcatProperties
<1> HIDE DEF after, bytes, parser, rx
<1>8. after.peer = c
  BY <1>4 DEF SameOwner
<1>9. c \in PatientClient => answered[c] = <<>> /\ Len(answered'[c]) <= 1
  BY <1>2 DEF Quiet, Silent
<1>10. /\ OnItsWay(after, sent[after.peer] \o bytes, answered'[after.peer])
       /\ \A d \in Client : d # after.peer => answered'[d] = answered[d]
       /\ after.peer \in PatientClient =>
             /\ Len(answered'[after.peer]) <= 1
             /\ answered[after.peer] # <<>> => answered'[after.peer] = answered[after.peer]
  BY <1>5, <1>8, <1>9
<1> QED BY <1>0, <1>1, <1>2, <1>4, <1>6, <1>7, <1>10, SettleMaps

\* Of what a client does, the exchange sees only that it leaves.
LEMMA ClientActionMaps ==
    ASSUME IInv, NEW c \in Client,
           Connect(c) \/ Send(c) \/ Receive(c) \/ HalfClose(c) \/ Reset(c)
    PROVE  [Exchange!Next]_(Exchange!vars)
<1>1. UNCHANGED <<up, sent, answered>>
  BY DEF Connect, Send, Receive, HalfClose, Reset, serverVars
<1>2. link[c] \in Link /\ link \in [Client -> Link]
  BY DEF IInv, TypeOK
<1>3. /\ \A d \in Client : d # c => link'[d] = link[d]
      /\ link'[c].state = "closed" <=> link[c].state = "closed"
      /\ \/ link'[c].rst = link[c].rst /\ link'[c].fin = link[c].fin
         \/ link'[c].rst \/ link'[c].fin
  <2>1. CASE Connect(c)
    BY <1>2, <2>1 DEF Connect, Link
  <2>2. CASE Send(c)
    BY <1>2, <2>2 DEF Send, Link
  <2>3. CASE Receive(c)
    BY <1>2, <2>3 DEF Receive, Link
  <2>4. CASE HalfClose(c)
    BY <1>2, <2>4 DEF HalfClose, Link
  <2>5. CASE Reset(c)
    BY <1>2, <2>5 DEF Reset, Link
  <2> QED BY <2>1, <2>2, <2>3, <2>4, <2>5
<1>4. \A d \in PatientClient \ {c} : UNCHANGED View(d)
  BY <1>1, <1>3 DEF View, Stage, Request, Delivered, Gone, PatientClient
<1>5. UNCHANGED <<Stage(c), Request(c), Delivered(c)>>
  BY <1>1, <1>3 DEF Stage, Request, Delivered
<1>6. Gone(c)' = Gone(c) \/ Gone(c)' = TRUE
  BY <1>2, <1>3 DEF Gone, Link
<1>7. Leaves(c) \/ UNCHANGED View(c)
  BY <1>5, <1>6 DEF Leaves, View
<1> QED BY <1>1, <1>4, <1>7, OneClientStep

LEMMA InitMaps == Init => Exchange!Init
<1> SUFFICES ASSUME Init PROVE Exchange!Init
  OBVIOUS
<1>1. ASSUME NEW c \in PatientClient
      PROVE  /\ Stage(c) = "waiting" /\ Request(c) = None
             /\ Delivered(c) = 0 /\ Gone(c) = FALSE
  <2>1. c \in Client /\ link[c] = NewLink /\ sent[c] = <<>> /\ answered[c] = <<>>
    BY DEF Init, PatientClient
  <2>2. Len(<<>>) = 0
    OBVIOUS
  <2> QED BY <2>1, <2>2 DEF Stage, Request, Delivered, Gone, NewLink
<1>2. up = FALSE
  BY DEF Init
<1> QED BY <1>1, <1>2 DEF Exchange!Init, ExchangeStage, ExchangeRequest, ExchangeDelivered,
                          ExchangeGone

LEMMA NextMaps ==
    IInv /\ IInv' /\ Intact /\ Quiet /\ Quiet' /\ [Next]_vars => [Exchange!Next]_(Exchange!vars)
<1> SUFFICES ASSUME IInv, IInv', Intact, Quiet, Quiet', [Next]_vars
             PROVE  [Exchange!Next]_(Exchange!vars)
  OBVIOUS
<1>1. CASE Wait \/ Stop \/ UNCHANGED vars
  <2>1. UNCHANGED <<up, link, sent, answered>>
    BY <1>1 DEF Wait, Stop, vars
  <2>2. \A d \in PatientClient : UNCHANGED View(d)
    BY <2>1 DEF View, Stage, Request, Delivered, Gone
  <2> QED BY <2>1, <2>2, UnseenMaps
<1>2. CASE Start
  <2>1. ~up /\ up' = TRUE /\ UNCHANGED <<link, sent, answered>>
    BY <1>2 DEF Start
  <2>2. UNCHANGED <<ExchangeStage, ExchangeRequest, ExchangeDelivered, ExchangeGone>>
    BY <2>1 DEF ExchangeStage, ExchangeRequest, ExchangeDelivered, ExchangeGone,
                Stage, Request, Delivered, Gone
  <2>3. Exchange!Start
    BY <2>1, <2>2 DEF Exchange!Start
  <2> QED BY <2>3 DEF Exchange!Next
<1>3. CASE HandleEvent
  BY <1>3, AcceptMaps, CloseEventMaps, ReadEventMaps, WriteEventMaps DEF HandleEvent
<1>4. CASE Return \/ Terminate
  BY <1>4, ProcessEndsMaps DEF Return, Terminate
<1>5. ASSUME NEW c \in Client,
             Connect(c) \/ Send(c) \/ Receive(c) \/ HalfClose(c) \/ Reset(c)
      PROVE  [Exchange!Next]_(Exchange!vars)
  BY <1>5, ClientActionMaps
<1> QED BY <1>1, <1>2, <1>3, <1>4, <1>5 DEF Next, Loop

\* Every variable of the server keeps its type, whatever clients do and
\* whenever the process dies: in particular a streaming body never counts below
\* zero and no parser survives as something else.
THEOREM ReactorTypes == Spec => []TypeOK
<1> QED BY InitIInv, NextIInv, PTL DEF Spec, IInv

\* The event loop, the poller, the parser map and the kernel's sockets agree
\* after every iteration of the loop, although descriptors and addresses are
\* reused and events are handled after the state they describe has changed.
THEOREM ReactorBookkeeping == Spec => []Bookkeeping
<1>1. IInv => Bookkeeping
  BY DEF IInv, Bookkeeping
<1> QED BY <1>1, InitIInv, NextIInv, PTL DEF Spec

\* Whatever the file, the chunk size and the speed of the client, what a
\* connection has sent and what it holds make up its first response, through
\* partial sends, refills, compactions and the reuse of descriptors.
THEOREM ReactorDelivers == Spec => []ResponseIntact
<1>1. IInv /\ Intact => ResponseIntact
  <2> SUFFICES ASSUME IInv, Intact, NEW f \in Live
               PROVE  LET c == connections[f].peer IN
                      /\ answered[c] = <<>> => sent[c] = <<>> /\ Pending(connections[f]) = <<>>
                      /\ Len(answered[c]) = 1 =>
                            sent[c] \o Pending(connections[f]) = Wire(1, answered[c][1])
    BY DEF ResponseIntact
  <2> DEFINE conn == connections[f]
             c    == conn.peer
  <2>1. OnItsWay(conn, sent[c], answered[c])
    BY DEF Intact
  <2>2. ASSUME Fresh(conn) PROVE Pending(conn) = <<>>
    <3>1. readableView(EmptyBuffer) = <<>>
      BY SubSeqEmpty DEF readableView, EmptyBuffer
    <3>2. <<>> \o <<>> = <<>>
      OBVIOUS
    <3> QED BY <2>2, <3>1, <3>2 DEF Fresh, Pending
  <2> HIDE DEF conn, c
  <2>3. /\ answered[c] = <<>> => sent[c] = <<>> /\ Pending(conn) = <<>>
        /\ Len(answered[c]) = 1 => sent[c] \o Pending(conn) = Wire(1, answered[c][1])
    BY <2>1, <2>2 DEF OnItsWay
  <2> QED BY <2>3 DEF conn, c
<1> QED BY <1>1, InitIInv, NextIInv, InitIntact, NextIntact, PTL DEF Spec

\* A connection that streams its response never stores more than its head or
\* three chunks less two units, however long the file is.
THEOREM ReactorBounded == Spec => []StreamMemoryBounded
<1>1. IInv /\ Intact => StreamMemoryBounded
  <2> SUFFICES ASSUME IInv, Intact, NEW f \in Live,
                      answered[connections[f].peer] = <<"stream">>
               PROVE  Len(refill(connections[f]).outbound.storage) <= Max2(HeadLen, 3 * Chunk - 2)
    BY DEF StreamMemoryBounded
  <2>1. Len(connections[f].outbound.storage) <= StreamBound
    BY DEF Intact, OnItsWay
  <2>2. ConnOK(connections[f])
    BY LiveFacts
  <2> QED BY <2>1, <2>2, RefillKeeps DEF StreamBound
<1> QED BY <1>1, InitIInv, NextIInv, InitIntact, NextIntact, PTL DEF Spec

\* The server implements HttpExchange: for every client that waits for its
\* answer, whatever the other clients send and whenever the process dies, each
\* iteration of the loop accepts its request, delivers the next units of the one
\* answer, ends the exchange when all of it is out, or drops a client that left.
THEOREM ReactorImplementsExchange == Spec => ImplementsExchange
<1> DEFINE I == IInv /\ Intact /\ Quiet
<1>1. Init => I
  BY InitIInv, InitIntact, InitQuiet
<1>2. I /\ [Next]_vars => I'
  BY NextIInv, NextIntact, NextQuiet
<1>3. I /\ I' /\ [Next]_vars => [Exchange!Next]_(Exchange!vars)
  BY NextMaps
<1> HIDE DEF I
<1> QED BY <1>1, <1>2, <1>3, InitMaps, PTL DEF Spec, ImplementsExchange, Exchange!Spec
=============================================================================
