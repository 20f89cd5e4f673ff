------------------------------ MODULE BufferOps ------------------------------
(***************************************************************************)
(* net::Buffer (server/src/net/Buffer.cpp) as a value: a vector storage_   *)
(* and the offset of its first unread byte.  Every TcpConnection owns two. *)
(* Buffer.tla checks and proves these operators against a plain FIFO queue; *)
(* Reactor.tla uses them for the outbound side of a connection.            *)
(***************************************************************************)
EXTENDS Integers, Sequences

EmptyBuffer == [storage |-> <<>>, readOffset |-> 0]

readableBytes(b) == Len(b.storage) - b.readOffset

readableView(b) == SubSeq(b.storage, b.readOffset + 1, Len(b.storage))

\* consume(): the caller guarantees count <= readableBytes(b); the assert that
\* says so is compiled out of release builds.
consume(b, count) ==
    LET offset == b.readOffset + count IN
    IF offset = Len(b.storage) THEN EmptyBuffer
                               ELSE [b EXCEPT !.readOffset = offset]

\* Mutant of the slack test: append() never compacts.
mustCompact_Never(b) == FALSE

\* The slack test of append(): at least half of the storage is already read.
mustCompact(b) == b.readOffset > 0 /\ b.readOffset >= Len(b.storage) \div 2

\* Mutant of append(): the storage is compacted but the cursor is not reset.
append_KeepsCursor(b, data) ==
    IF data = <<>> THEN b
    ELSE IF mustCompact(b)
         THEN [b EXCEPT !.storage = readableView(b) \o data]
         ELSE [b EXCEPT !.storage = @ \o data]

append(b, data) ==
    IF data = <<>> THEN b
    ELSE IF mustCompact(b)
         THEN [storage |-> readableView(b) \o data, readOffset |-> 0]
         ELSE [b EXCEPT !.storage = @ \o data]

\* All values a Buffer of bytes from the set Byte can take.
BufferOf(Byte) == [storage : Seq(Byte), readOffset : Nat]
=============================================================================
