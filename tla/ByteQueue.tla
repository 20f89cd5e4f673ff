------------------------------ MODULE ByteQueue ------------------------------
(***************************************************************************)
(* What a Buffer promises its users (server/include/musicbox/net/Buffer.hpp): *)
(* a FIFO queue of bytes.  Bytes leave in the order in which they entered, *)
(* none is lost, repeated or changed, whatever the storage does internally. *)
(***************************************************************************)
EXTENDS Naturals, Sequences

CONSTANTS Pieces,      \* the byte sequences its users append
          HighWater    \* nobody appends while more than this much is unread

VARIABLE queue

Init == queue = <<>>

Append_(data) == /\ Len(queue) <= HighWater
                 /\ queue' = queue \o data

Consume(count) == queue' = SubSeq(queue, count + 1, Len(queue))

Next == \/ \E data \in Pieces : Append_(data)
        \/ \E count \in 0 .. Len(queue) : Consume(count)

Spec == Init /\ [][Next]_queue
=============================================================================
