-------------------------------- MODULE Buffer --------------------------------
(***************************************************************************)
(* One net::Buffer driven by arbitrary appends and consumes, the way        *)
(* TcpConnection drives its outbound buffer: queueWrite() and the streaming *)
(* refill append, a send() that the kernel took in part consumes.           *)
(***************************************************************************)
EXTENDS BufferOps

CONSTANTS Byte,        \* what a byte can be
          Pieces,      \* the byte sequences its users append
          PieceMax,    \* the longest of them (64 KiB in TcpConnection)
          HighWater    \* users append only while at most this much is unread

ASSUME PiecesAssumption ==
    /\ Pieces \subseteq Seq(Byte)
    /\ PieceMax \in Nat
    /\ \A data \in Pieces : Len(data) <= PieceMax

ASSUME HighWaterAssumption == HighWater \in Nat

VARIABLE buffer

Init == buffer = EmptyBuffer

\* Appends are guarded by the reader's own rule (flushOutbound() refills only
\* below one chunk); HighWater is that bound.
AppendPiece(data) == /\ readableBytes(buffer) <= HighWater
                     /\ buffer' = append(buffer, data)

ConsumeSome(count) == buffer' = consume(buffer, count)

Next == \/ \E data \in Pieces : AppendPiece(data)
        \/ \E count \in 0 .. readableBytes(buffer) : ConsumeSome(count)

Spec == Init /\ [][Next]_buffer

-------------------------------------------------------------------------------

\* The unread bytes are a FIFO queue.
Fifo == INSTANCE ByteQueue WITH queue <- readableView(buffer)

\* Every behaviour of the buffer, with its compactions and resets, is a
\* behaviour of a plain FIFO queue (Buffer.hpp: "appending never invalidates
\* already-consumed bytes' logical position").
RefinesFifo == Fifo!Spec

\* The cursor stays inside the storage, and a drained buffer keeps none of it
\* (the reset in consume()).
CursorInside == /\ buffer \in BufferOf(Byte)
                /\ \/ buffer.readOffset < Len(buffer.storage)
                   \/ buffer = EmptyBuffer

\* Read bytes are not hoarded: with appends only below HighWater the storage
\* never exceeds twice HighWater plus one piece, however long the buffer is
\* used and however the consumes are sized (the compaction in append()).
StorageBounded == Len(buffer.storage) <= 2 * HighWater + PieceMax

\* What a Buffer guarantees to whoever holds a view of it (Buffer.cpp:14-50).
BufferSound == CursorInside /\ StorageBounded
=============================================================================
