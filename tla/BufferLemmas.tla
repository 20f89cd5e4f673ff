---------------------------- MODULE BufferLemmas ----------------------------
(***************************************************************************)
(* What the operators of BufferOps.tla do to the unread view of a buffer of *)
(* any bytes, and the facts about sequences that this rests on: what is    *)
(* left of a sequence after a prefix is dropped, and how that commutes     *)
(* with appending at the end.                                              *)
(***************************************************************************)
EXTENDS BufferOps, SequenceTheorems, TLAPS

\* The sequence without its first k elements.
Drop(s, k) == SubSeq(s, k + 1, Len(s))

\* Dropping k elements leaves a sequence of the others, in order.
LEMMA DropFacts ==
    ASSUME NEW S, NEW s \in Seq(S), NEW k \in 0 .. Len(s)
    PROVE  /\ Drop(s, k) \in Seq(S)
           /\ Len(Drop(s, k)) = Len(s) - k
           /\ \A i \in 1 .. Len(s) - k : Drop(s, k)[i] = s[k + i]
<1>1. Len(s) \in Nat /\ k \in Nat
  BY LenProperties
<1>2. \A i \in k + 1 .. Len(s) : s[i] \in S
  BY <1>1, ElementOfSeq
<1>3. /\ SubSeq(s, k + 1, Len(s)) \in Seq(S)
      /\ Len(SubSeq(s, k + 1, Len(s))) = IF k + 1 <= Len(s) THEN Len(s) - (k + 1) + 1 ELSE 0
      /\ \A i \in 1 .. Len(s) - (k + 1) + 1 :
            SubSeq(s, k + 1, Len(s))[i] = s[k + 1 + i - 1]
  <2>1. k + 1 \in Int /\ Len(s) \in Int
    BY <1>1
  <2> QED BY <1>2, <2>1, SubSeqProperties
<1>4. /\ Len(s) - (k + 1) + 1 = Len(s) - k
      /\ (IF k + 1 <= Len(s) THEN Len(s) - (k + 1) + 1 ELSE 0) = Len(s) - k
      /\ \A i \in 1 .. Len(s) - k : k + 1 + i - 1 = k + i
  BY <1>1
<1> QED BY <1>3, <1>4 DEF Drop

\* Dropping nothing changes nothing.
LEMMA DropNone ==
    ASSUME NEW S, NEW s \in Seq(S)
    PROVE  Drop(s, 0) = s
<1>1. SubSeq(s, 1, Len(s)) = s
  BY SubSeqFull
<1>2. 0 + 1 = 1
  OBVIOUS
<1> QED BY <1>1, <1>2 DEF Drop

\* What is dropped at the front does not touch what is appended at the end.
LEMMA DropConcat ==
    ASSUME NEW S, NEW s \in Seq(S), NEW t \in Seq(S), NEW k \in 0 .. Len(s)
    PROVE  Drop(s \o t, k) = Drop(s, k) \o t
<1>1. /\ Len(s) \in Nat /\ Len(t) \in Nat /\ k \in Nat
  BY LenProperties
<1>2. /\ s \o t \in Seq(S)
      /\ Len(s \o t) = Len(s) + Len(t)
      /\ \A i \in 1 .. Len(s) + Len(t) :
            (s \o t)[i] = IF i <= Len(s) THEN s[i] ELSE t[i - Len(s)]
  BY ConcatProperties
<1>3. /\ Drop(s, k) \in Seq(S)
      /\ Len(Drop(s, k)) = Len(s) - k
      /\ \A i \in 1 .. Len(s) - k : Drop(s, k)[i] = s[k + i]
  BY DropFacts
<1>4. /\ Drop(s \o t, k) \in Seq(S)
      /\ Len(Drop(s \o t, k)) = Len(s) + Len(t) - k
      /\ \A i \in 1 .. Len(s) + Len(t) - k : Drop(s \o t, k)[i] = (s \o t)[k + i]
  <2>1. k \in 0 .. Len(s \o t)
    BY <1>1, <1>2
  <2>2. /\ Drop(s \o t, k) \in Seq(S)
        /\ Len(Drop(s \o t, k)) = Len(s \o t) - k
        /\ \A i \in 1 .. Len(s \o t) - k : Drop(s \o t, k)[i] = (s \o t)[k + i]
    BY <1>2, <2>1, DropFacts, Zenon
  <2> QED BY <1>2, <2>2
<1>5. /\ Drop(s, k) \o t \in Seq(S)
      /\ Len(Drop(s, k) \o t) = Len(s) - k + Len(t)
      /\ \A i \in 1 .. Len(s) - k + Len(t) :
            (Drop(s, k) \o t)[i] = IF i <= Len(s) - k THEN Drop(s, k)[i]
                                   ELSE t[i - (Len(s) - k)]
  <2>1. /\ Drop(s, k) \o t \in Seq(S)
        /\ Len(Drop(s, k) \o t) = Len(Drop(s, k)) + Len(t)
        /\ \A i \in 1 .. Len(Drop(s, k)) + Len(t) :
              (Drop(s, k) \o t)[i] = IF i <= Len(Drop(s, k)) THEN Drop(s, k)[i]
                                     ELSE t[i - Len(Drop(s, k))]
    BY <1>3, ConcatProperties, Zenon
  <2> QED BY <1>3, <2>1
<1>6. ASSUME NEW i \in 1 .. Len(s) + Len(t) - k
      PROVE  Drop(s \o t, k)[i] = (Drop(s, k) \o t)[i]
  <2>1. k + i \in 1 .. Len(s) + Len(t) /\ i \in 1 .. Len(s) - k + Len(t)
    BY <1>1
  <2>2. Drop(s \o t, k)[i] = IF k + i <= Len(s) THEN s[k + i] ELSE t[k + i - Len(s)]
    BY <2>1, <1>2, <1>4
  <2>3. CASE k + i <= Len(s)
    <3>1. i \in 1 .. Len(s) - k
      BY <2>3, <1>1
    <3> QED BY <2>1, <2>2, <2>3, <3>1, <1>1, <1>3, <1>5
  <2>4. CASE ~(k + i <= Len(s))
    <3>1. ~(i <= Len(s) - k) /\ k + i - Len(s) = i - (Len(s) - k)
      BY <2>4, <1>1
    <3> QED BY <2>1, <2>2, <2>4, <3>1, <1>5
  <2> QED BY <2>3, <2>4
<1>7. Len(Drop(s \o t, k)) = Len(Drop(s, k) \o t)
  BY <1>1, <1>4, <1>5
<1> QED BY <1>4, <1>5, <1>6, <1>7, SeqEqual

\* Dropping twice is dropping once.
LEMMA DropDrop ==
    ASSUME NEW S, NEW s \in Seq(S), NEW k \in 0 .. Len(s),
           NEW n \in 0 .. Len(s) - k
    PROVE  Drop(Drop(s, k), n) = Drop(s, k + n)
<1>1. /\ Len(s) \in Nat /\ k \in Nat /\ n \in Nat /\ k + n \in 0 .. Len(s)
  BY LenProperties
<1>2. /\ Drop(s, k) \in Seq(S)
      /\ Len(Drop(s, k)) = Len(s) - k
      /\ \A i \in 1 .. Len(s) - k : Drop(s, k)[i] = s[k + i]
  BY DropFacts
<1>3. /\ Drop(s, k + n) \in Seq(S)
      /\ Len(Drop(s, k + n)) = Len(s) - (k + n)
      /\ \A i \in 1 .. Len(s) - (k + n) : Drop(s, k + n)[i] = s[k + n + i]
  BY <1>1, DropFacts
<1>4. /\ Drop(Drop(s, k), n) \in Seq(S)
      /\ Len(Drop(Drop(s, k), n)) = Len(s) - k - n
      /\ \A i \in 1 .. Len(s) - k - n : Drop(Drop(s, k), n)[i] = Drop(s, k)[n + i]
  <2>1. n \in 0 .. Len(Drop(s, k))
    BY <1>1, <1>2
  <2>2. /\ Drop(Drop(s, k), n) \in Seq(S)
        /\ Len(Drop(Drop(s, k), n)) = Len(Drop(s, k)) - n
        /\ \A i \in 1 .. Len(Drop(s, k)) - n :
              Drop(Drop(s, k), n)[i] = Drop(s, k)[n + i]
    BY <1>2, <2>1, DropFacts, Zenon
  <2> QED BY <1>2, <2>2
<1>5. ASSUME NEW i \in 1 .. Len(s) - k - n
      PROVE  Drop(Drop(s, k), n)[i] = Drop(s, k + n)[i]
  <2>1. n + i \in 1 .. Len(s) - k /\ i \in 1 .. Len(s) - (k + n)
    BY <1>1
  <2>2. k + (n + i) = k + n + i
    BY <1>1, <2>1
  <2> QED BY <2>1, <2>2, <1>2, <1>3, <1>4
<1>6. Len(Drop(Drop(s, k), n)) = Len(Drop(s, k + n))
  BY <1>1, <1>3, <1>4
<1> QED BY <1>3, <1>4, <1>5, <1>6, SeqEqual

-----------------------------------------------------------------------------

\* A buffer whose cursor is inside its storage.
WellFormed(S, b) == b \in BufferOf(S) /\ b.readOffset <= Len(b.storage)

\* The unread view is the storage without its read prefix.
LEMMA ViewFacts ==
    ASSUME NEW S, NEW b, WellFormed(S, b)
    PROVE  /\ b.storage \in Seq(S)
           /\ b.readOffset \in 0 .. Len(b.storage)
           /\ Len(b.storage) \in Nat
           /\ readableView(b) = Drop(b.storage, b.readOffset)
           /\ readableView(b) \in Seq(S)
           /\ Len(readableView(b)) = readableBytes(b)
           /\ readableBytes(b) \in Nat
<1>1. /\ b.storage \in Seq(S)
      /\ b.readOffset \in 0 .. Len(b.storage)
      /\ Len(b.storage) \in Nat
  BY LenProperties DEF WellFormed, BufferOf
<1>2. readableView(b) = Drop(b.storage, b.readOffset)
  BY DEF readableView, Drop
<1>3. /\ Drop(b.storage, b.readOffset) \in Seq(S)
      /\ Len(Drop(b.storage, b.readOffset)) = Len(b.storage) - b.readOffset
  BY <1>1, DropFacts
<1>4. Len(b.storage) - b.readOffset \in Nat
  BY <1>1
<1> QED BY <1>1, <1>2, <1>3, <1>4 DEF readableBytes

\* append() enqueues at the tail of the view, with and without compaction,
\* and keeps the cursor inside the storage.
LEMMA AppendFacts ==
    ASSUME NEW S, NEW b, WellFormed(S, b), NEW data \in Seq(S)
    PROVE  /\ WellFormed(S, append(b, data))
           /\ readableView(append(b, data)) = readableView(b) \o data
           /\ data # <<>> => append(b, data).readOffset < Len(append(b, data).storage)
<1>1. /\ b.storage \in Seq(S)
      /\ b.readOffset \in 0 .. Len(b.storage)
      /\ Len(b.storage) \in Nat
      /\ readableView(b) = Drop(b.storage, b.readOffset)
      /\ readableView(b) \in Seq(S)
      /\ Len(readableView(b)) \in Nat
  BY ViewFacts, LenProperties
<1>2. CASE data = <<>>
  BY <1>1, <1>2, ConcatEmptySeq DEF append
<1>3. ASSUME data # <<>>
      PROVE  Len(data) \in Nat /\ Len(data) > 0
  BY <1>3, EmptySeq, LenProperties
<1>4. CASE data # <<>> /\ mustCompact(b)
  <2>1. append(b, data) = [storage |-> readableView(b) \o data, readOffset |-> 0]
    BY <1>4 DEF append
  <2>2. /\ append(b, data).storage = readableView(b) \o data
        /\ append(b, data).readOffset = 0
    BY <2>1
  <2>3. /\ readableView(b) \o data \in Seq(S)
        /\ Len(readableView(b) \o data) = Len(readableView(b)) + Len(data)
    BY <1>1, ConcatProperties
  <2>4. append(b, data) \in BufferOf(S)
    BY <2>1, <2>3 DEF BufferOf
  <2>5. append(b, data).readOffset < Len(append(b, data).storage)
    BY <1>1, <1>3, <1>4, <2>2, <2>3
  <2>6. WellFormed(S, append(b, data))
    BY <1>1, <1>3, <1>4, <2>2, <2>3, <2>4 DEF WellFormed
  <2>7. readableView(append(b, data)) = Drop(readableView(b) \o data, 0)
    BY <2>2, <2>6, ViewFacts
  <2> QED BY <2>3, <2>5, <2>6, <2>7, DropNone
<1>5. CASE data # <<>> /\ ~mustCompact(b)
  <2>1. append(b, data) = [b EXCEPT !.storage = b.storage \o data]
    BY <1>5 DEF append
  <2>2. /\ append(b, data).storage = b.storage \o data
        /\ append(b, data).readOffset = b.readOffset
    BY <2>1 DEF WellFormed, BufferOf
  <2>3. /\ b.storage \o data \in Seq(S)
        /\ Len(b.storage \o data) = Len(b.storage) + Len(data)
    BY <1>1, ConcatProperties
  <2>4. append(b, data) \in BufferOf(S)
    BY <2>1, <2>3 DEF WellFormed, BufferOf
  <2>5. append(b, data).readOffset < Len(append(b, data).storage)
    BY <1>1, <1>3, <1>5, <2>2, <2>3
  <2>6. WellFormed(S, append(b, data))
    BY <1>1, <1>3, <1>5, <2>2, <2>3, <2>4 DEF WellFormed
  <2>7. readableView(append(b, data)) = Drop(b.storage \o data, b.readOffset)
    BY <2>2, <2>6, ViewFacts
  <2>8. Drop(b.storage \o data, b.readOffset) = Drop(b.storage, b.readOffset) \o data
    BY <1>1, DropConcat
  <2> QED BY <1>1, <2>5, <2>6, <2>7, <2>8
<1> QED BY <1>2, <1>4, <1>5

\* consume() dequeues from the head of the view.
LEMMA ConsumeFacts ==
    ASSUME NEW S, NEW b, WellFormed(S, b), NEW count \in 0 .. readableBytes(b)
    PROVE  /\ WellFormed(S, consume(b, count))
           /\ readableView(consume(b, count)) = Drop(readableView(b), count)
           /\ \/ consume(b, count) = EmptyBuffer
              \/ /\ consume(b, count).storage = b.storage
                 /\ consume(b, count).readOffset < Len(b.storage)
<1>1. /\ b.storage \in Seq(S)
      /\ b.readOffset \in 0 .. Len(b.storage)
      /\ Len(b.storage) \in Nat
      /\ readableView(b) = Drop(b.storage, b.readOffset)
      /\ readableBytes(b) = Len(b.storage) - b.readOffset
  BY ViewFacts DEF readableBytes
<1>2. /\ b.readOffset + count \in 0 .. Len(b.storage)
      /\ count \in 0 .. Len(b.storage) - b.readOffset
  BY <1>1
<1>3. Drop(Drop(b.storage, b.readOffset), count) = Drop(b.storage, b.readOffset + count)
  BY <1>1, <1>2, DropDrop
<1>4. CASE b.readOffset + count = Len(b.storage)
  <2>1. consume(b, count) = EmptyBuffer
    BY <1>4 DEF consume
  <2>2. WellFormed(S, EmptyBuffer)
    BY DEF WellFormed, EmptyBuffer, BufferOf
  <2>3. readableView(EmptyBuffer) = <<>>
    BY SubSeqEmpty DEF readableView, EmptyBuffer
  <2>4. Drop(b.storage, Len(b.storage)) = <<>>
    BY <1>1, SubSeqEmpty DEF Drop
  <2> QED BY <1>1, <1>3, <1>4, <2>1, <2>2, <2>3, <2>4
<1>5. CASE b.readOffset + count # Len(b.storage)
  <2>1. consume(b, count) = [b EXCEPT !.readOffset = b.readOffset + count]
    BY <1>5 DEF consume
  <2>2. /\ consume(b, count).storage = b.storage
        /\ consume(b, count).readOffset = b.readOffset + count
        /\ consume(b, count) \in BufferOf(S)
    <3>1. b.readOffset + count \in Nat /\ b \in [storage : Seq(S), readOffset : Nat]
      BY <1>1, <1>2 DEF WellFormed, BufferOf
    <3> QED BY <2>1, <3>1 DEF BufferOf
  <2>3. WellFormed(S, consume(b, count)) /\ consume(b, count).readOffset < Len(b.storage)
    BY <1>1, <1>2, <1>5, <2>2 DEF WellFormed
  <2>4. readableView(consume(b, count)) = Drop(b.storage, b.readOffset + count)
    BY <2>2, <2>3, ViewFacts
  <2> QED BY <1>1, <1>3, <2>2, <2>3, <2>4
<1> QED BY <1>4, <1>5

\* A read prefix that fails the slack test is less than half of the storage.
LEMMA SlackBelowHalf ==
    ASSUME NEW size \in Nat, NEW offset \in Nat, offset <= size,
           ~(offset > 0 /\ offset >= size \div 2)
    PROVE  size <= 2 * (size - offset)
<1>1. size \div 2 \in Nat /\ 2 * (size \div 2) <= size
  OBVIOUS
<1>2. offset = 0 \/ offset + 1 <= size \div 2
  BY <1>1
<1> QED BY <1>1, <1>2

\* How far one append can grow the storage: the compaction test keeps the read
\* prefix below half of what is stored.
LEMMA AppendGrowth ==
    ASSUME NEW S, NEW b, WellFormed(S, b), NEW data \in Seq(S)
    PROVE  Len(append(b, data).storage) <= 2 * readableBytes(b) + Len(data)
           \/ append(b, data) = b
<1>1. /\ b.storage \in Seq(S)
      /\ b.readOffset \in Nat /\ b.readOffset <= Len(b.storage)
      /\ Len(b.storage) \in Nat
      /\ Len(data) \in Nat
      /\ readableView(b) \in Seq(S)
      /\ Len(readableView(b)) = Len(b.storage) - b.readOffset
      /\ readableBytes(b) = Len(b.storage) - b.readOffset
  BY ViewFacts, LenProperties DEF readableBytes
<1>2. CASE data = <<>>
  BY <1>2 DEF append
<1>3. CASE data # <<>> /\ mustCompact(b)
  <2>1. append(b, data).storage = readableView(b) \o data
    BY <1>3 DEF append
  <2>2. Len(readableView(b) \o data) = Len(readableView(b)) + Len(data)
    BY <1>1, ConcatProperties
  <2> QED BY <1>1, <2>1, <2>2
<1>4. CASE data # <<>> /\ ~mustCompact(b)
  <2>1. append(b, data).storage = b.storage \o data
    BY <1>4 DEF append, WellFormed, BufferOf
  <2>2. Len(b.storage \o data) = Len(b.storage) + Len(data)
    BY <1>1, ConcatProperties
  <2>3. ~(b.readOffset > 0 /\ b.readOffset >= Len(b.storage) \div 2)
    BY <1>4 DEF mustCompact
  <2>4. Len(b.storage) <= 2 * (Len(b.storage) - b.readOffset)
    BY <1>1, <2>3, SlackBelowHalf, Zenon
  <2> QED BY <1>1, <2>1, <2>2, <2>4
<1> QED BY <1>2, <1>3, <1>4
=============================================================================
