----------------------------- MODULE Net_proofs -----------------------------
(***************************************************************************)
(* Proofs about the two self-contained classes of server/src/net: Buffer,  *)
(* for every alphabet, every set of pieces and every high-water mark, and  *)
(* ThreadPool, for any workers, clients and tasks that submit tasks.       *)
(***************************************************************************)
EXTENDS Buffer, ThreadPool, BufferLemmas

\* Buffer's inductive invariant: the two run invariants together.
Inv == CursorInside /\ StorageBounded

\* A buffer that satisfies the cursor invariant is well formed.
LEMMA InvWellFormed == CursorInside => WellFormed(Byte, buffer)
<1>1. EmptyBuffer.readOffset = Len(EmptyBuffer.storage)
  BY DEF EmptyBuffer
<1>2. ASSUME buffer \in BufferOf(Byte)
      PROVE  buffer.readOffset \in Nat /\ Len(buffer.storage) \in Nat
  BY <1>2, LenProperties DEF BufferOf
<1> QED BY <1>1, <1>2 DEF CursorInside, WellFormed

\* The invariant holds initially and is kept by every append and consume.
LEMMA InvInductive ==
    /\ Init => Inv
    /\ Inv /\ [Next]_buffer => Inv'
<1>1. Init => Inv
  BY HighWaterAssumption, PiecesAssumption
  DEF Init, Inv, CursorInside, StorageBounded, EmptyBuffer, BufferOf
<1>2. SUFFICES ASSUME Inv, [Next]_buffer PROVE Inv'
  BY <1>1
<1>3. WellFormed(Byte, buffer)
  BY <1>2, InvWellFormed DEF Inv
<1>4. ASSUME NEW data \in Pieces, AppendPiece(data)
      PROVE  Inv'
  <2>1. data \in Seq(Byte) /\ Len(data) \in Nat /\ Len(data) <= PieceMax
    BY PiecesAssumption, LenProperties
  <2>2. /\ WellFormed(Byte, append(buffer, data))
        /\ data # <<>> => append(buffer, data).readOffset < Len(append(buffer, data).storage)
    BY <1>3, <2>1, AppendFacts
  <2>3. data = <<>> => append(buffer, data) = buffer
    BY DEF append
  <2>4. CursorInside'
    BY <1>2, <1>4, <2>2, <2>3 DEF CursorInside, WellFormed, AppendPiece, Inv
  <2>5. /\ readableBytes(buffer) \in Nat
        /\ Len(append(buffer, data).storage) \in Nat
    BY <1>3, <2>2, ViewFacts
  <2>6. \/ Len(append(buffer, data).storage) <= 2 * readableBytes(buffer) + Len(data)
        \/ append(buffer, data) = buffer
    BY <1>3, <2>1, AppendGrowth
  <2>7. readableBytes(buffer) <= HighWater /\ buffer' = append(buffer, data)
    BY <1>4 DEF AppendPiece
  <2>8. Len(append(buffer, data).storage) <= 2 * HighWater + PieceMax
    <3>1. CASE append(buffer, data) = buffer
      BY <1>2, <3>1 DEF Inv, StorageBounded
    <3>2. CASE Len(append(buffer, data).storage) <= 2 * readableBytes(buffer) + Len(data)
      BY <2>1, <2>5, <2>7, <3>2, HighWaterAssumption, PiecesAssumption
    <3> QED BY <2>6, <3>1, <3>2
  <2> QED BY <2>4, <2>7, <2>8 DEF Inv, StorageBounded
<1>5. ASSUME NEW count \in 0 .. readableBytes(buffer), ConsumeSome(count)
      PROVE  Inv'
  <2>1. /\ WellFormed(Byte, consume(buffer, count))
        /\ \/ consume(buffer, count) = EmptyBuffer
           \/ /\ consume(buffer, count).storage = buffer.storage
              /\ consume(buffer, count).readOffset < Len(buffer.storage)
    BY <1>3, ConsumeFacts
  <2>2. CursorInside'
    BY <1>5, <2>1 DEF CursorInside, WellFormed, ConsumeSome
  <2>3. Len(EmptyBuffer.storage) <= 2 * HighWater + PieceMax
    BY HighWaterAssumption, PiecesAssumption DEF EmptyBuffer
  <2>4. StorageBounded'
    BY <1>2, <1>5, <2>1, <2>3 DEF StorageBounded, ConsumeSome, Inv
  <2> QED BY <2>2, <2>4 DEF Inv
<1>6. CASE UNCHANGED buffer
  BY <1>2, <1>6 DEF Inv, CursorInside, StorageBounded
<1> QED BY <1>2, <1>4, <1>5, <1>6 DEF Next

\* Buffer.cpp keeps its cursor inside its storage and its storage bounded by
\* twice the high-water mark plus one piece, for every sequence of append()
\* and consume() calls.
THEOREM BufferSafe == Spec => []BufferSound
<1>1. Init => Inv
  BY InvInductive
<1>2. Inv /\ [Next]_buffer => Inv'
  BY InvInductive
<1>3. Inv => BufferSound
  BY DEF Inv, BufferSound
<1> QED BY <1>1, <1>2, <1>3, PTL DEF Spec

\* Every append() and consume() of Buffer.cpp, compactions and resets included,
\* is a step of a plain FIFO queue on readableView().
THEOREM BufferIsFifo == Spec => RefinesFifo
<1>1. Init => Fifo!Init
  BY SubSeqEmpty DEF Init, Fifo!Init, readableView, EmptyBuffer
<1>2. Inv /\ [Next]_buffer => [Fifo!Next]_(readableView(buffer))
  <2> SUFFICES ASSUME Inv, [Next]_buffer
               PROVE  [Fifo!Next]_(readableView(buffer))
    OBVIOUS
  <2>1. WellFormed(Byte, buffer)
    BY InvWellFormed DEF Inv
  <2>2. Len(readableView(buffer)) = readableBytes(buffer)
    BY <2>1, ViewFacts
  <2>3. ASSUME NEW data \in Pieces, AppendPiece(data)
        PROVE  Fifo!Next
    <3>1. data \in Seq(Byte)
      BY PiecesAssumption
    <3>2. readableView(append(buffer, data)) = readableView(buffer) \o data
      BY <2>1, <3>1, AppendFacts
    <3>3. readableView(buffer)' = readableView(append(buffer, data))
      BY <2>3 DEF AppendPiece, readableView
    <3>4. Fifo!Append_(data)
      BY <2>2, <2>3, <3>2, <3>3 DEF Fifo!Append_, AppendPiece
    <3> QED BY <3>4 DEF Fifo!Next
  <2>4. ASSUME NEW count \in 0 .. readableBytes(buffer), ConsumeSome(count)
        PROVE  Fifo!Next
    <3>1. readableView(consume(buffer, count)) = Drop(readableView(buffer), count)
      BY <2>1, ConsumeFacts
    <3>2. readableView(buffer)' = readableView(consume(buffer, count))
      BY <2>4 DEF ConsumeSome, readableView
    <3>3. Fifo!Consume(count)
      BY <3>1, <3>2 DEF Fifo!Consume, Drop
    <3> QED BY <2>2, <3>3 DEF Fifo!Next
  <2>5. CASE UNCHANGED buffer
    BY <2>5 DEF readableView
  <2> QED BY <2>3, <2>4, <2>5 DEF Next
<1>3. Spec => []Inv
  BY InvInductive, PTL DEF Spec
<1> QED BY <1>1, <1>2, <1>3, PTL DEF Spec, RefinesFifo, Fifo!Spec

-----------------------------------------------------------------------------
(* ThreadPool.                                                              *)

In(t, s) == \E i \in DOMAIN s : s[i] = t

Different(s) == \A i, j \in DOMAIN s : s[i] = s[j] => i = j

\* Whose list thread h is submitting: the client's own, or that of the task
\* the worker runs.
Whose(h) == IF h \in Client THEN h ELSE cur[h][1]

\* A worker that runs no task has nothing to submit or to notify about.
Busy == \A w \in Worker :
    /\ pc[w] = "running" => cur[w] = <<cur[w][1]>> /\ cur[w][1] \in Task
    /\ pc[w] # "running" => cur[w] = <<>> /\ todo[w] = <<>> /\ ~owes[w]

\* The destructor: clients are gone before it starts, and workers leave only
\* once it has; the last to leave leaves nothing in the queue.
Ending ==
    /\ stopping <=> owner # "alive"
    /\ stopping => \A c \in Client : todo[c] = <<>> /\ ~owes[c]
    /\ \A w \in Worker : pc[w] = "exited" => stopping
    /\ (\A w \in Worker : pc[w] = "exited") => queue = <<>>
    /\ owner = "returned" => \A w \in Worker : pc[w] = "exited"

\* What is still to be submitted was never submitted.
Unsubmitted == \A h \in Thread :
    /\ Different(todo[h])
    /\ \A t \in Task : In(t, todo[h]) => In(t, Submits(Whose(h))) /\ future[t] = "none"

Queued == /\ Different(queue)
          /\ \A t \in Task : In(t, queue) => future[t] = "pending" /\ runs[t] = 0

Running == \A w \in Worker : pc[w] = "running" =>
    /\ future[cur[w][1]] = "pending" /\ runs[cur[w][1]] = 1
    /\ \A v \in Worker : pc[v] = "running" /\ cur[v][1] = cur[w][1] => v = w

\* A task that has not started has submitted nothing; one that is promised is
\* queued or being run.
Promises == \A t \in Task :
    /\ future[t] = "none" => runs[t] = 0
    /\ runs[t] = 0 => \A u \in Task : In(u, Children[t]) => future[u] = "none"
    /\ future[t] = "pending" =>
           In(t, queue) \/ \E w \in Worker : pc[w] = "running" /\ cur[w][1] = t

PoolTypes ==
    /\ queue \in Seq(Task) /\ stopping \in BOOLEAN
    /\ owner \in {"alive", "stopped", "notified", "returned"}
    /\ pc \in [Worker -> {"loop", "waiting", "running", "exited"}]
    /\ cur \in [Worker -> Seq(Task)]
    /\ todo \in [Thread -> Seq(Task)] /\ owes \in [Thread -> BOOLEAN]
    /\ runs \in [Task -> 0..1] /\ future \in [Task -> {"none", "pending", "ready"}]

PoolIInv ==
    /\ PoolTypes /\ Busy /\ Ending /\ Unsubmitted /\ Queued /\ Running /\ Promises
    /\ NoLostWakeup /\ NobodySleepsThroughStop

LEMMA AppendIn ==
    ASSUME NEW s \in Seq(Task), NEW t \in Task
    PROVE  /\ Append(s, t) \in Seq(Task) /\ Append(s, t) # <<>>
           /\ \A u : In(u, Append(s, t)) <=> u = t \/ In(u, s)
           /\ Different(s) /\ ~In(t, s) => Different(Append(s, t))
<1>1. /\ Append(s, t) \in Seq(Task) /\ Append(s, t) # <<>> /\ Len(s) \in Nat
      /\ DOMAIN s = 1..Len(s) /\ DOMAIN Append(s, t) = 1..(Len(s) + 1)
      /\ Append(s, t)[Len(s) + 1] = t
      /\ \A i \in 1..Len(s) : Append(s, t)[i] = s[i]
  BY AppendProperties, LenProperties
<1> QED BY <1>1 DEF In, Different

LEMMA TailIn ==
    ASSUME NEW s \in Seq(Task), s # <<>>
    PROVE  /\ Tail(s) \in Seq(Task) /\ Head(s) \in Task /\ In(Head(s), s)
           /\ \A u : In(u, Tail(s)) => In(u, s)
           /\ \A u : In(u, s) => u = Head(s) \/ In(u, Tail(s))
           /\ Different(s) => Different(Tail(s)) /\ ~In(Head(s), Tail(s))
<1>1. /\ Tail(s) \in Seq(Task) /\ Head(s) \in Task /\ Head(s) = s[1]
      /\ Len(s) \in Nat \ {0} /\ DOMAIN s = 1..Len(s)
      /\ DOMAIN Tail(s) = 1..(Len(s) - 1)
      /\ \A i \in 1..(Len(s) - 1) : Tail(s)[i] = s[i + 1]
  BY HeadTailProperties, LenProperties, EmptySeq
<1>2. ASSUME NEW i \in 1..Len(s), i # 1
      PROVE  i - 1 \in 1..(Len(s) - 1) /\ Tail(s)[i - 1] = s[i]
  <2>1. i - 1 \in 1..(Len(s) - 1) /\ (i - 1) + 1 = i
    BY <1>1, <1>2
  <2> QED BY <2>1, <1>1
<1>3. \A u : In(u, s) => u = Head(s) \/ In(u, Tail(s))
  BY <1>1, <1>2 DEF In
<1>4. \A u : In(u, Tail(s)) => In(u, s)
  BY <1>1 DEF In
<1>5. Different(s) => Different(Tail(s)) /\ ~In(Head(s), Tail(s))
  BY <1>1 DEF In, Different
<1>6. In(Head(s), s)
  BY <1>1 DEF In
<1> QED BY <1>1, <1>3, <1>4, <1>5, <1>6

LEMMA InEmpty == Different(<<>>) /\ \A u : ~In(u, <<>>)
  BY DEF In, Different

LEMMA InTask == \A s \in Seq(Task) : \A u : In(u, s) => u \in Task /\ s # <<>>
<1> SUFFICES ASSUME NEW s \in Seq(Task), NEW u, In(u, s) PROVE u \in Task /\ s # <<>>
  OBVIOUS
<1>1. s # <<>>
  BY InEmpty
<1>2. PICK i \in DOMAIN s : s[i] = u
  BY DEF In
<1> QED BY <1>1, <1>2

\* What is submitted by one is submitted by no other, and by him once.
LEMMA OneSubmitter ==
    /\ \A x, y \in Submitter : \A t : In(t, Submits(x)) /\ In(t, Submits(y)) => x = y
    /\ \A x \in Submitter : Different(Submits(x)) /\ Submits(x) \in Seq(Task)
    /\ \A t \in Task : Submits(t) = Children[t] /\ t \in Submitter
    /\ \A c \in Client : Submits(c) = ClientTasks[c] /\ c \in Submitter
<1>1. \A t \in Task : Submits(t) = Children[t] /\ t \in Submitter
  BY OneCallPerTask DEF Submits, Submitter
<1>2. \A c \in Client : Submits(c) = ClientTasks[c] /\ c \in Submitter
  BY DEF Submits, Submitter
<1>3. \A x \in Submitter : Submits(x) \in Seq(Task)
  BY <1>1, <1>2, PoolAssumption DEF Submitter
<1>4. \A x, y \in Submitter : \A t : In(t, Submits(x)) /\ In(t, Submits(y)) => x = y
  BY OneCallPerTask DEF In
<1>5. \A x \in Submitter : Different(Submits(x))
  BY OneCallPerTask DEF Different
<1> QED BY <1>1, <1>2, <1>3, <1>4, <1>5

LEMMA PoolInitIInv == PoolInit => PoolIInv
<1> SUFFICES ASSUME PoolInit PROVE PoolIInv
  OBVIOUS
<1>1. /\ \A c \in Client : todo[c] = ClientTasks[c] /\ c \in Thread
      /\ \A w \in Worker : todo[w] = <<>> /\ w \in Thread
      /\ \A h \in Thread : owes[h] = FALSE
  BY PoolAssumption DEF PoolInit, Thread
<1>2. todo \in [Thread -> Seq(Task)]
  <2>1. \A c \in Client : ClientTasks[c] \in Seq(Task)
    BY PoolAssumption
  <2>2. \A h \in Thread : todo[h] \in Seq(Task)
    BY <1>1, <2>1, EmptySeq DEF Thread
  <2> QED BY <2>2 DEF PoolInit
<1>3. PoolTypes
  <2>1. cur \in [Worker -> Seq(Task)] /\ queue \in Seq(Task)
    BY EmptySeq DEF PoolInit
  <2>2. owes \in [Thread -> BOOLEAN]
    BY DEF PoolInit
  <2>3. runs \in [Task -> 0..1] /\ future \in [Task -> {"none", "pending", "ready"}]
    BY DEF PoolInit
  <2>4. pc \in [Worker -> {"loop", "waiting", "running", "exited"}]
    BY DEF PoolInit
  <2> QED BY <1>2, <2>1, <2>2, <2>3, <2>4 DEF PoolInit, PoolTypes
<1>4. Busy
  BY <1>1 DEF PoolInit, Busy
<1>5. Ending
  BY PoolAssumption DEF PoolInit, Ending
<1>6. Unsubmitted
  <2> SUFFICES ASSUME NEW h \in Thread
               PROVE  /\ Different(todo[h])
                      /\ \A t \in Task : In(t, todo[h]) => In(t, Submits(Whose(h))) /\ future[t] = "none"
    BY DEF Unsubmitted
  <2>1. CASE h \in Client
    BY <2>1, <1>1, OneSubmitter DEF PoolInit, Whose
  <2>2. CASE h \in Worker
    BY <2>2, <1>1, InEmpty
  <2> QED BY <2>1, <2>2 DEF Thread
<1>7. Queued
  BY InEmpty DEF PoolInit, Queued
<1>8. Running
  BY DEF PoolInit, Running
<1>9. Promises
  BY DEF PoolInit, Promises
<1>10. NoLostWakeup /\ NobodySleepsThroughStop
  BY DEF PoolInit, NoLostWakeup, NobodySleepsThroughStop
<1> QED BY <1>3, <1>4, <1>5, <1>6, <1>7, <1>8, <1>9, <1>10 DEF PoolIInv

\* Two threads never submit from the same list.
LEMMA WhoseDiffers ==
    ASSUME PoolIInv, NEW h \in Thread, NEW g \in Thread, h # g,
           todo[h] # <<>>, todo[g] # <<>>
    PROVE  Whose(h) \in Submitter /\ Whose(g) \in Submitter /\ Whose(h) # Whose(g)
<1>1. \A k \in Thread : todo[k] # <<>> =>
          \/ k \in Client /\ Whose(k) = k /\ k \in Submitter
          \/ /\ k \in Worker /\ k \notin Client /\ pc[k] = "running"
             /\ Whose(k) = cur[k][1] /\ cur[k][1] \in Task /\ cur[k][1] \notin Client
             /\ cur[k][1] \in Submitter
  BY PoolAssumption, OneCallPerTask DEF PoolIInv, Busy, Whose, Thread, Submitter
<1> QED BY <1>1 DEF PoolIInv, Running

LEMMA SubmitStep ==
    ASSUME PoolIInv, NEW h \in Thread, submit(h)
    PROVE  PoolIInv'
<1> DEFINE t == Head(todo[h])
<1>1. /\ todo[h] \in Seq(Task) /\ todo[h] # <<>> /\ ~owes[h] /\ queue \in Seq(Task)
      /\ UNCHANGED <<stopping, owner, pc, cur, runs>>
  BY DEF submit, PoolIInv, PoolTypes
<1>2. /\ t \in Task /\ Tail(todo[h]) \in Seq(Task) /\ In(t, todo[h])
      /\ \A u : In(u, Tail(todo[h])) => In(u, todo[h])
      /\ Different(todo[h]) => Different(Tail(todo[h])) /\ ~In(t, Tail(todo[h]))
  BY <1>1, TailIn
<1> HIDE DEF t
<1>3. /\ Different(todo[h]) /\ In(t, Submits(Whose(h))) /\ future[t] = "none"
      /\ runs[t] = 0 /\ ~In(t, queue)
  BY <1>2 DEF PoolIInv, Unsubmitted, Queued, Promises
<1>4. /\ queue' \in Seq(Task) /\ queue' # <<>> /\ queue' = Append(queue, t)
      /\ \A u : In(u, queue') <=> u = t \/ In(u, queue)
      /\ Different(queue')
  BY <1>1, <1>2, <1>3, AppendIn DEF submit, t, PoolIInv, Queued
<1>5. /\ todo' \in [Thread -> Seq(Task)] /\ todo'[h] = Tail(todo[h])
      /\ \A g \in Thread : g # h => todo'[g] = todo[g]
  BY <1>2 DEF submit, PoolIInv, PoolTypes
<1>6. /\ future' \in [Task -> {"none", "pending", "ready"}] /\ future'[t] = "pending"
      /\ \A u \in Task : u # t => future'[u] = future[u]
  BY <1>2 DEF submit, t, PoolIInv, PoolTypes
<1>7. /\ owes' \in [Thread -> BOOLEAN] /\ owes'[h]
      /\ \A g \in Thread : g # h => owes'[g] = owes[g]
  BY DEF submit, PoolIInv, PoolTypes
<1>8. h \in Client \/ (h \in Worker /\ pc[h] = "running")
  BY <1>1 DEF PoolIInv, Busy, Thread
<1>9. PoolTypes'
  BY <1>1, <1>4, <1>5, <1>6, <1>7 DEF PoolIInv, PoolTypes
<1>10. Busy'
  <2>1. \A w \in Worker : w \in Thread /\ (pc[w] # "running" => w # h)
    BY <1>1 DEF Thread, PoolIInv, Busy
  <2> QED BY <2>1, <1>1, <1>5, <1>7 DEF PoolIInv, Busy
<1>11. Ending'
  <2>1. stopping => h \notin Client
    BY <1>1 DEF PoolIInv, Ending
  <2>2. ~ \A w \in Worker : pc[w] = "exited"
    BY <1>8, <2>1, PoolAssumption DEF PoolIInv, Ending
  <2>3. \A c \in Client : c \in Thread
    BY DEF Thread
  <2> QED BY <1>1, <1>5, <1>7, <2>1, <2>2, <2>3 DEF PoolIInv, Ending
<1>12. Unsubmitted'
  <2> SUFFICES ASSUME NEW g \in Thread
               PROVE  /\ Different(todo'[g])
                      /\ \A u \in Task : In(u, todo'[g]) =>
                             In(u, Submits(Whose(g)')) /\ future'[u] = "none"
    BY DEF Unsubmitted, Submits
  <2>0. Whose(g)' = Whose(g)
    BY <1>1 DEF Whose
  <2>1. CASE g = h
    BY <2>0, <2>1, <1>2, <1>3, <1>5, <1>6 DEF PoolIInv, Unsubmitted
  <2>2. CASE g # h
    <3>1. ~In(t, todo[g])
      <4> SUFFICES ASSUME In(t, todo[g]) PROVE FALSE
        OBVIOUS
      <4>1. In(t, Submits(Whose(g)))
        BY <1>2 DEF PoolIInv, Unsubmitted
      <4>2. todo[g] # <<>>
        BY InEmpty
      <4>3. Whose(h) \in Submitter /\ Whose(g) \in Submitter /\ Whose(h) # Whose(g)
        BY <2>2, <4>2, <1>1, WhoseDiffers
      <4> QED BY <4>1, <4>3, <1>3, OneSubmitter
    <3> QED BY <2>0, <2>2, <3>1, <1>5, <1>6 DEF PoolIInv, Unsubmitted
  <2> QED BY <2>1, <2>2
<1>13. Queued'
  BY <1>1, <1>3, <1>4, <1>6 DEF PoolIInv, Queued
<1>14. Running'
  BY <1>1, <1>3, <1>6 DEF PoolIInv, Running, Busy
<1>15. Promises'
  <2> SUFFICES ASSUME NEW u \in Task
               PROVE  /\ future'[u] = "none" => runs[u] = 0
                      /\ runs[u] = 0 => \A v \in Task : In(v, Children[u]) => future'[v] = "none"
                      /\ future'[u] = "pending" =>
                             In(u, queue') \/ \E w \in Worker : pc[w] = "running" /\ cur[w][1] = u
    BY <1>1 DEF Promises
  <2>1. future'[u] = "none" => runs[u] = 0
    BY <1>6 DEF PoolIInv, Promises
  <2>2. runs[u] = 0 => ~In(t, Children[u])
    <3> SUFFICES ASSUME runs[u] = 0, In(t, Children[u]) PROVE FALSE
      OBVIOUS
    <3>1. u \in Submitter /\ In(t, Submits(u))
      BY OneSubmitter
    <3>2. CASE h \in Client
      BY <3>1, <3>2, <1>3, OneSubmitter, OneCallPerTask DEF Whose
    <3>3. CASE h \in Worker /\ pc[h] = "running"
      <4>1. Whose(h) = cur[h][1] /\ cur[h][1] \in Task /\ runs[cur[h][1]] = 1
        BY <3>3, PoolAssumption DEF Whose, PoolIInv, Busy, Running
      <4> QED BY <4>1, <3>1, <1>3, OneSubmitter
    <3> QED BY <3>2, <3>3, <1>8
  <2>3. runs[u] = 0 => \A v \in Task : In(v, Children[u]) => future'[v] = "none"
    BY <2>2, <1>6 DEF PoolIInv, Promises
  <2>4. future'[u] = "pending" =>
            In(u, queue') \/ \E w \in Worker : pc[w] = "running" /\ cur[w][1] = u
    BY <1>4, <1>6 DEF PoolIInv, Promises
  <2> QED BY <2>1, <2>3, <2>4
<1>16. NoLostWakeup'
  BY <1>7 DEF NoLostWakeup
<1>17. NobodySleepsThroughStop'
  BY <1>1 DEF PoolIInv, NobodySleepsThroughStop, waiting
<1> QED BY <1>9, <1>10, <1>11, <1>12, <1>13, <1>14, <1>15, <1>16, <1>17 DEF PoolIInv

LEMMA NotifyStep ==
    ASSUME PoolIInv, NEW h \in Thread, notify_one(h)
    PROVE  PoolIInv'
<1>1. /\ owes[h] /\ owes' = [owes EXCEPT ![h] = FALSE]
      /\ UNCHANGED <<queue, stopping, owner, cur, todo, runs, future>>
  BY DEF notify_one
<1>2. \/ waiting = {} /\ pc' = pc
      \/ \E w \in waiting : pc' = [pc EXCEPT ![w] = "loop"]
  BY DEF notify_one
<1>3. /\ pc' \in [Worker -> {"loop", "waiting", "running", "exited"}]
      /\ \A w \in Worker : pc'[w] = pc[w] \/ (pc[w] = "waiting" /\ pc'[w] = "loop")
  BY <1>2 DEF PoolIInv, PoolTypes, waiting
<1>4. PoolTypes'
  BY <1>1, <1>3 DEF PoolIInv, PoolTypes
<1>5. Busy'
  BY <1>1, <1>3 DEF PoolIInv, PoolTypes, Busy, Thread
<1>6. Ending'
  <2>1. \A w \in Worker : pc'[w] = "exited" <=> pc[w] = "exited"
    BY <1>3
  <2>2. \A c \in Client : ~owes[c] => ~owes'[c]
    BY <1>1 DEF PoolIInv, PoolTypes, Thread
  <2> QED BY <1>1, <2>1, <2>2 DEF PoolIInv, Ending
<1>7. Unsubmitted' /\ Queued'
  BY <1>1 DEF PoolIInv, Unsubmitted, Queued, Whose
<1>8. Running' /\ Promises'
  <2>1. \A w \in Worker : pc'[w] = "running" <=> pc[w] = "running"
    BY <1>3
  <2> QED BY <1>1, <2>1 DEF PoolIInv, Running, Promises
<1>9. NoLostWakeup'
  <2> SUFFICES ASSUME queue # <<>> PROVE \E w \in Worker : pc'[w] \in {"loop", "running"}
    BY <1>1 DEF NoLostWakeup
  <2>1. CASE waiting = {} /\ pc' = pc
    BY <2>1 DEF PoolIInv, PoolTypes, Ending, waiting
  <2>2. CASE \E w \in waiting : pc' = [pc EXCEPT ![w] = "loop"]
    BY <2>2 DEF PoolIInv, PoolTypes, waiting
  <2> QED BY <2>1, <2>2, <1>2
<1>10. NobodySleepsThroughStop'
  BY <1>1, <1>3 DEF PoolIInv, NobodySleepsThroughStop, waiting
<1> QED BY <1>4, <1>5, <1>6, <1>7, <1>8, <1>9, <1>10 DEF PoolIInv

\* A step that only moves workers between waiting and looping, or from looping
\* to the exit of a pool that is stopping and drained.
LEMMA MoveStep ==
    ASSUME PoolIInv,
           UNCHANGED <<queue, cur, todo, owes, runs, future, stopping>>,
           owner' \in {"alive", "stopped", "notified", "returned"},
           stopping <=> owner' # "alive",
           pc' \in [Worker -> {"loop", "waiting", "running", "exited"}],
           \A w \in Worker : pc'[w] = "running" <=> pc[w] = "running",
           \A w \in Worker : pc[w] = "exited" => pc'[w] = "exited",
           \A w \in Worker : pc'[w] = "exited" => pc[w] = "exited" \/ mayLeave,
           queue # <<>> => \A w \in Worker : pc[w] = "loop" => pc'[w] = "loop",
           owner' \in {"notified", "returned"} => \A w \in Worker : pc'[w] # "waiting",
           owner' = "returned" => \A w \in Worker : pc'[w] = "exited"
    PROVE  PoolIInv'
<1>1. PoolTypes'
  BY DEF PoolIInv, PoolTypes
<1>2. Busy'
  BY DEF PoolIInv, Busy
<1>3. Ending'
  BY DEF PoolIInv, Ending, mayLeave
<1>4. Unsubmitted' /\ Queued'
  BY DEF PoolIInv, Unsubmitted, Queued, Whose
<1>5. Running' /\ Promises'
  BY DEF PoolIInv, Running, Promises
<1>6. NoLostWakeup'
  BY DEF PoolIInv, NoLostWakeup
<1>7. NobodySleepsThroughStop'
  BY DEF NobodySleepsThroughStop, waiting
<1> QED BY <1>1, <1>2, <1>3, <1>4, <1>5, <1>6, <1>7 DEF PoolIInv

\* A worker takes the first task of the queue.
LEMMA TakeStep ==
    ASSUME PoolIInv, NEW w \in Worker, pc[w] = "loop", queue # <<>>,
           pc' = [pc EXCEPT ![w] = "running"], pop,
           cur' = [cur EXCEPT ![w] = <<Head(queue)>>],
           todo' = [todo EXCEPT ![w] = Children[Head(queue)]],
           runs' = [runs EXCEPT ![Head(queue)] = @ + 1],
           UNCHANGED <<stopping, owner, owes, future>>
    PROVE  PoolIInv'
<1> DEFINE t == Head(queue)
<1>1. /\ t \in Task /\ Tail(queue) \in Seq(Task) /\ In(t, queue)
      /\ \A u : In(u, Tail(queue)) => In(u, queue)
      /\ \A u : In(u, queue) => u = t \/ In(u, Tail(queue))
      /\ Different(Tail(queue)) /\ ~In(t, Tail(queue))
  BY TailIn DEF PoolIInv, PoolTypes, Queued
<1>2. <<t>> \in Seq(Task) /\ <<t>>[1] = t
  BY <1>1
<1>3. /\ future[t] = "pending" /\ runs[t] = 0
      /\ \A u \in Task : In(u, Children[t]) => future[u] = "none"
  BY <1>1 DEF PoolIInv, Queued, Promises
<1>4. w \in Thread /\ Worker \subseteq Thread /\ w \notin Client
  BY PoolAssumption DEF Thread
<1>5. Children[t] \in Seq(Task) /\ Different(Children[t]) /\ Submits(t) = Children[t]
  BY <1>1, OneSubmitter, PoolAssumption
<1>6. ~owes[w] /\ todo[w] = <<>>
  BY DEF PoolIInv, Busy
<1> HIDE DEF t
<1>7. /\ queue' = Tail(queue)
      /\ pc' \in [Worker -> {"loop", "waiting", "running", "exited"}] /\ pc'[w] = "running"
      /\ \A v \in Worker : v # w => pc'[v] = pc[v]
      /\ cur' \in [Worker -> Seq(Task)] /\ cur'[w] = <<t>>
      /\ \A v \in Worker : v # w => cur'[v] = cur[v]
  BY <1>1, <1>2 DEF t, pop, PoolIInv, PoolTypes
<1>8. /\ todo' \in [Thread -> Seq(Task)] /\ todo'[w] = Children[t]
      /\ \A h \in Thread : h # w => todo'[h] = todo[h]
  BY <1>4, <1>5 DEF t, PoolIInv, PoolTypes
<1>9. /\ runs' \in [Task -> 0..1] /\ runs'[t] = 1
      /\ \A u \in Task : u # t => runs'[u] = runs[u]
  BY <1>1, <1>3 DEF t, PoolIInv, PoolTypes
<1>10. PoolTypes'
  BY <1>1, <1>7, <1>8, <1>9 DEF PoolIInv, PoolTypes
<1>11. Busy'
  BY <1>1, <1>2, <1>4, <1>7, <1>8 DEF PoolIInv, Busy
<1>12. Ending'
  <2>1. \A c \in Client : c \in Thread /\ c # w
    BY <1>4 DEF Thread
  <2>2. owner # "returned"
    BY DEF PoolIInv, Ending
  <2>3. \A v \in Worker : pc'[v] = "exited" => pc[v] = "exited"
    BY <1>7
  <2> QED BY <1>7, <1>8, <2>1, <2>2, <2>3 DEF PoolIInv, Ending
<1>13. Unsubmitted'
  <2> SUFFICES ASSUME NEW g \in Thread
               PROVE  /\ Different(todo'[g])
                      /\ \A u \in Task : In(u, todo'[g]) =>
                             In(u, Submits(Whose(g)')) /\ future[u] = "none"
    BY DEF Unsubmitted, Submits
  <2>1. CASE g = w
    <3>1. Whose(g)' = t
      BY <2>1, <1>2, <1>4, <1>7 DEF Whose
    <3> QED BY <2>1, <3>1, <1>3, <1>5, <1>8
  <2>2. CASE g # w
    <3>1. Whose(g)' = Whose(g)
      BY <2>2, <1>7 DEF Whose, Thread
    <3> QED BY <2>2, <3>1, <1>8 DEF PoolIInv, Unsubmitted
  <2> QED BY <2>1, <2>2
<1>14. Queued'
  BY <1>1, <1>7, <1>9 DEF PoolIInv, Queued
<1>15. Running'
  <2>1. \A v \in Worker : pc[v] = "running" => cur[v][1] # t /\ cur[v][1] \in Task
    BY <1>3 DEF PoolIInv, Running, Busy
  <2>2. ASSUME NEW v \in Worker, pc'[v] = "running"
        PROVE  /\ future[cur'[v][1]] = "pending" /\ runs'[cur'[v][1]] = 1
               /\ \A x \in Worker : pc'[x] = "running" /\ cur'[x][1] = cur'[v][1] => x = v
    <3>1. CASE v = w
      BY <3>1, <2>1, <1>2, <1>3, <1>7, <1>9
    <3>2. CASE v # w
      BY <3>2, <2>1, <2>2, <1>2, <1>7, <1>9 DEF PoolIInv, Running
    <3> QED BY <3>1, <3>2
  <2> QED BY <2>2 DEF Running
<1>16. Promises'
  <2> SUFFICES ASSUME NEW u \in Task
               PROVE  /\ future[u] = "none" => runs'[u] = 0
                      /\ runs'[u] = 0 => \A v \in Task : In(v, Children[u]) => future[v] = "none"
                      /\ future[u] = "pending" =>
                             In(u, queue') \/ \E v \in Worker : pc'[v] = "running" /\ cur'[v][1] = u
    BY DEF Promises
  <2>1. CASE u = t
    BY <2>1, <1>2, <1>3, <1>7, <1>9
  <2>2. CASE u # t
    <3>1. \A v \in Worker : pc[v] = "running" => v # w
      OBVIOUS
    <3> QED BY <2>2, <3>1, <1>1, <1>7, <1>9 DEF PoolIInv, Promises
  <2> QED BY <2>1, <2>2
<1>17. NoLostWakeup'
  BY <1>7 DEF NoLostWakeup
<1>18. NobodySleepsThroughStop'
  BY <1>7 DEF PoolIInv, NobodySleepsThroughStop, waiting
<1> QED BY <1>10, <1>11, <1>12, <1>13, <1>14, <1>15, <1>16, <1>17, <1>18 DEF PoolIInv

LEMMA FinishStep ==
    ASSUME PoolIInv, NEW w \in Worker, Finish(w)
    PROVE  PoolIInv'
<1> DEFINE t == Head(cur[w])
<1>1. /\ pc[w] = "running" /\ todo[w] = <<>> /\ ~owes[w]
      /\ UNCHANGED <<queue, stopping, owner, todo, owes, runs>>
      /\ t = cur[w][1] /\ t \in Task
  BY DEF Finish, PoolIInv, Busy
<1>2. w \notin Client /\ Client \subseteq Thread
  BY PoolAssumption DEF Thread
<1>3. future[t] = "pending" /\ runs[t] = 1 /\ ~In(t, queue)
  BY <1>1 DEF PoolIInv, Running, Queued
<1> HIDE DEF t
<1>4. /\ pc' \in [Worker -> {"loop", "waiting", "running", "exited"}] /\ pc'[w] = "loop"
      /\ \A v \in Worker : v # w => pc'[v] = pc[v]
      /\ cur' \in [Worker -> Seq(Task)] /\ cur'[w] = <<>>
      /\ \A v \in Worker : v # w => cur'[v] = cur[v]
  BY EmptySeq DEF Finish, PoolIInv, PoolTypes
<1>5. /\ future' \in [Task -> {"none", "pending", "ready"}] /\ future'[t] = "ready"
      /\ \A u \in Task : u # t => future'[u] = future[u]
  BY <1>1 DEF Finish, t, PoolIInv, PoolTypes
<1>6. PoolTypes'
  BY <1>1, <1>4, <1>5 DEF PoolIInv, PoolTypes
<1>7. Busy'
  BY <1>1, <1>4 DEF PoolIInv, Busy
<1>8. Ending'
  BY <1>1, <1>4 DEF PoolIInv, Ending
<1>9. Unsubmitted'
  <2> SUFFICES ASSUME NEW g \in Thread
               PROVE  /\ Different(todo[g])
                      /\ \A u \in Task : In(u, todo[g]) =>
                             In(u, Submits(Whose(g)')) /\ future'[u] = "none"
    BY <1>1 DEF Unsubmitted, Submits
  <2>1. CASE g = w
    BY <2>1, <1>1, InEmpty
  <2>2. CASE g # w
    <3>1. Whose(g)' = Whose(g)
      BY <2>2, <1>4 DEF Whose, Thread
    <3> QED BY <3>1, <1>3, <1>5 DEF PoolIInv, Unsubmitted
  <2> QED BY <2>1, <2>2
<1>10. Queued'
  BY <1>1, <1>3, <1>5 DEF PoolIInv, Queued
<1>11. Running'
  <2>1. \A v \in Worker : pc'[v] = "running" =>
            v # w /\ pc[v] = "running" /\ cur'[v] = cur[v] /\ cur[v][1] \in Task /\ cur[v][1] # t
    BY <1>1, <1>4 DEF PoolIInv, Running, Busy
  <2> QED BY <2>1, <1>1, <1>5 DEF PoolIInv, Running
<1>12. Promises'
  <2> SUFFICES ASSUME NEW u \in Task
               PROVE  /\ future'[u] = "none" => runs[u] = 0
                      /\ runs[u] = 0 => \A v \in Task : In(v, Children[u]) => future'[v] = "none"
                      /\ future'[u] = "pending" =>
                             In(u, queue) \/ \E v \in Worker : pc'[v] = "running" /\ cur'[v][1] = u
    BY <1>1 DEF Promises
  <2>1. future'[u] = "none" => runs[u] = 0
    BY <1>5 DEF PoolIInv, Promises
  <2>2. runs[u] = 0 => \A v \in Task : In(v, Children[u]) => future'[v] = "none"
    BY <1>3, <1>5 DEF PoolIInv, Promises
  <2>3. future'[u] = "pending" => u # t /\ future[u] = "pending"
    BY <1>5
  <2>4. future'[u] = "pending" =>
            In(u, queue) \/ \E v \in Worker : pc'[v] = "running" /\ cur'[v][1] = u
    BY <2>3, <1>1, <1>4 DEF PoolIInv, Promises
  <2> QED BY <2>1, <2>2, <2>4
<1>13. NoLostWakeup'
  BY <1>4 DEF NoLostWakeup
<1>14. NobodySleepsThroughStop'
  BY <1>1, <1>4 DEF PoolIInv, NobodySleepsThroughStop, waiting
<1> QED BY <1>6, <1>7, <1>8, <1>9, <1>10, <1>11, <1>12, <1>13, <1>14 DEF PoolIInv

LEMMA PoolNextIInv == PoolIInv /\ [PoolNext]_poolVars => PoolIInv'
<1> SUFFICES ASSUME PoolIInv, [PoolNext]_poolVars PROVE PoolIInv'
  OBVIOUS
<1>1. ASSUME NEW h \in Thread, submit(h) PROVE PoolIInv'
  BY <1>1, SubmitStep
<1>2. ASSUME NEW h \in Thread, notify_one(h) PROVE PoolIInv'
  BY <1>2, NotifyStep
<1>3. ASSUME NEW w \in Worker, workerLoop(w) PROVE PoolIInv'
  <2>1. CASE ~mayGo /\ pc' = [pc EXCEPT ![w] = "waiting"] /\ UNCHANGED <<queue, cur, todo, runs>>
    <3>1. /\ UNCHANGED <<queue, cur, todo, owes, runs, future, stopping>> /\ owner' = owner
          /\ pc[w] = "loop" /\ queue = <<>> /\ ~stopping /\ owner = "alive"
      BY <1>3, <2>1 DEF workerLoop, mayGo, PoolIInv, Ending
    <3> QED BY <2>1, <3>1, MoveStep DEF PoolIInv, PoolTypes
  <2>2. CASE mayLeave /\ pc' = [pc EXCEPT ![w] = "exited"] /\ UNCHANGED <<queue, cur, todo, runs>>
    <3>1. /\ UNCHANGED <<queue, cur, todo, owes, runs, future, stopping>> /\ owner' = owner
          /\ pc[w] = "loop" /\ queue = <<>> /\ stopping /\ owner \notin {"alive", "returned"}
      BY <1>3, <2>2 DEF workerLoop, mayLeave, PoolIInv, Ending
    <3>2. owner \in {"notified", "returned"} => \A v \in Worker : pc[v] # "waiting"
      BY DEF PoolIInv, NobodySleepsThroughStop, waiting
    <3> QED BY <2>2, <3>1, <3>2, MoveStep DEF PoolIInv, PoolTypes, Ending
  <2>3. CASE /\ mayGo /\ ~mayLeave
             /\ pc' = [pc EXCEPT ![w] = "running"] /\ pop
             /\ cur' = [cur EXCEPT ![w] = <<Head(queue)>>]
             /\ todo' = [todo EXCEPT ![w] = Children[Head(queue)]]
             /\ runs' = [runs EXCEPT ![Head(queue)] = @ + 1]
    BY <1>3, <2>3, TakeStep DEF workerLoop, mayGo, mayLeave
  <2> QED BY <1>3, <2>1, <2>2, <2>3 DEF workerLoop
<1>4. ASSUME NEW w \in Worker, SpuriousWake(w) PROVE PoolIInv'
  <2>1. owner \in {"notified", "returned"} => \A v \in Worker : pc[v] # "waiting"
    BY DEF PoolIInv, NobodySleepsThroughStop, waiting
  <2> QED BY <1>4, <2>1, MoveStep DEF SpuriousWake, PoolIInv, PoolTypes, Ending
<1>5. ASSUME NEW w \in Worker, Finish(w) PROVE PoolIInv'
  BY <1>5, FinishStep
<1>6. ASSUME Stop PROVE PoolIInv'
  <2>1. Ending'
    BY <1>6 DEF Stop, PoolIInv, Ending
  <2> QED BY <1>6, <2>1 DEF Stop, PoolIInv, PoolTypes, Busy, Unsubmitted, Whose, Queued,
                            Running, Promises, NoLostWakeup, NobodySleepsThroughStop
<1>7. ASSUME notify_all PROVE PoolIInv'
  <2>1. /\ UNCHANGED <<queue, cur, todo, owes, runs, future, stopping>>
        /\ owner = "stopped" /\ owner' = "notified" /\ stopping
        /\ \A w \in Worker : pc'[w] = IF pc[w] = "waiting" THEN "loop" ELSE pc[w]
        /\ pc' \in [Worker -> {"loop", "waiting", "running", "exited"}]
    BY <1>7 DEF notify_all, PoolIInv, PoolTypes, Ending
  <2> QED BY <2>1, MoveStep
<1>8. ASSUME Joined PROVE PoolIInv'
  <2>1. /\ UNCHANGED <<queue, cur, todo, owes, runs, future, stopping, pc>>
        /\ owner' = "returned" /\ stopping /\ \A w \in Worker : pc[w] = "exited"
    BY <1>8 DEF Joined, PoolIInv, Ending
  <2> QED BY <2>1, MoveStep DEF PoolIInv, PoolTypes
<1>9. CASE UNCHANGED poolVars
  BY <1>9 DEF poolVars, PoolIInv, PoolTypes, Busy, Ending, Unsubmitted, Whose, Queued,
              Running, Promises, NoLostWakeup, NobodySleepsThroughStop, waiting
<1> QED BY <1>1, <1>2, <1>3, <1>4, <1>5, <1>6, <1>7, <1>8, <1>9 DEF PoolNext

LEMMA PoolIInvImplies == PoolIInv => PoolSafe
<1> SUFFICES ASSUME PoolIInv PROVE PoolSafe
  OBVIOUS
<1>1. TypeOK
  <2>1. ASSUME NEW w \in Worker
        PROVE  cur[w] \in Seq(Task) /\ (pc[w] = "running" <=> Len(cur[w]) = 1)
    <3>1. cur[w] \in Seq(Task)
      BY DEF PoolIInv, PoolTypes
    <3>2. pc[w] = "running" => Len(cur[w]) = 1
      <4>1. \A x : Len(<<x>>) = 1
        OBVIOUS
      <4> QED BY <4>1 DEF PoolIInv, Busy
    <3>3. pc[w] # "running" => Len(cur[w]) = 0
      BY EmptySeq DEF PoolIInv, Busy
    <3> QED BY <3>1, <3>2, <3>3
  <2> QED BY <2>1 DEF PoolIInv, PoolTypes, TypeOK
<1>2. DrainedOnReturn
  <2> SUFFICES ASSUME owner = "returned"
               PROVE  /\ queue = <<>> /\ \A h \in Thread : todo[h] = <<>>
                      /\ \A t \in Task : future[t] # "pending"
    BY DEF DrainedOnReturn
  <2>1. stopping /\ queue = <<>> /\ \A w \in Worker : pc[w] = "exited"
    BY DEF PoolIInv, Ending
  <2>2. \A h \in Thread : todo[h] = <<>>
    BY <2>1 DEF PoolIInv, Ending, Busy, Thread
  <2>3. \A t \in Task : future[t] # "pending"
    BY <2>1, InEmpty DEF PoolIInv, Promises
  <2> QED BY <2>1, <2>2, <2>3
<1> QED BY <1>1, <1>2 DEF PoolSafe, PoolIInv

\* For any workers, clients and tasks, tasks that submit tasks included, and
\* any order of submissions, wake-ups, notifications and the destructor's
\* steps: no task is started twice, no wakeup is lost, no worker sleeps through
\* the stop, and when the destructor returns every task that was submitted has
\* been run (ThreadPool.cpp:12-50).
THEOREM ThreadPoolSafe == PoolSpec => []PoolSafe
  BY PoolInitIInv, PoolNextIInv, PoolIInvImplies, PTL DEF PoolSpec
=============================================================================
