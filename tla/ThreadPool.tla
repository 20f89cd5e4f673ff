----------------------------- MODULE ThreadPool ------------------------------
(***************************************************************************)
(* ThreadPool (server/src/net/ThreadPool.cpp and .hpp): workers drain a    *)
(* queue of tasks under a mutex and a condition variable; clients submit,  *)
(* and so may a task while it runs; the owner destroys the pool once no    *)
(* client will submit any more.                                            *)
(*                                                                         *)
(* Everything the mutex protects happens in one step, from lock to unlock, *)
(* and wait() gives up the mutex and starts waiting in the same step.      *)
(* Notifications come after the unlock and are steps of their own.         *)
(***************************************************************************)
EXTENDS Naturals, Sequences, FiniteSets

CONSTANTS
    Client,      \* threads that use the pool
    Worker,      \* workers_
    Task,        \* the tasks
    ClientTasks, \* what each client submits, in order
    Children     \* what each task submits while it runs, in order

ASSUME PoolAssumption ==
    /\ Worker # {} /\ Client \cap Worker = {}
    /\ ClientTasks \in [Client -> Seq(Task)] /\ Children \in [Task -> Seq(Task)]

\* Who submits, and what.
Submitter == Client \cup Task
Submits(x) == IF x \in Client THEN ClientTasks[x] ELSE Children[x]

\* A task is what one call of submit() makes: no two calls make the same one.
ASSUME OneCallPerTask ==
    /\ Client \cap Task = {}
    /\ \A x, y \in Submitter : \A i \in DOMAIN Submits(x), j \in DOMAIN Submits(y) :
           Submits(x)[i] = Submits(y)[j] => x = y /\ i = j

VARIABLES
    queue,       \* tasks_
    stopping,    \* stopping_
    owner,       \* the destructor: "alive", "stopped", "notified", "returned"
    pc,          \* worker -> "loop", "waiting", "running" or "exited"
    cur,         \* worker -> <<the task it runs>>, or <<>>
    todo,        \* thread -> the tasks it has still to submit
    owes,        \* thread -> it has pushed and not yet notified
    runs,        \* task -> how often it was started
    future       \* task -> "none", "pending" or "ready" (a value or an exception)

poolVars == <<queue, stopping, owner, pc, cur, todo, owes, runs, future>>

Thread == Client \cup Worker
waiting == {w \in Worker : pc[w] = "waiting"}

PoolInit ==
    /\ queue = <<>> /\ stopping = FALSE /\ owner = "alive"
    /\ pc = [w \in Worker |-> "loop"] /\ cur = [w \in Worker |-> <<>>]
    /\ todo = [h \in Thread |-> IF h \in Client THEN ClientTasks[h] ELSE <<>>]
    /\ owes = [h \in Thread |-> FALSE]
    /\ runs = [t \in Task |-> 0] /\ future = [t \in Task |-> "none"]

-----------------------------------------------------------------------------

\* submit() and enqueue() up to the unlock: the future exists, the task is queued.
submit(h) ==
    /\ ~owes[h] /\ todo[h] # <<>>
    /\ queue' = Append(queue, Head(todo[h]))
    /\ todo' = [todo EXCEPT ![h] = Tail(@)]
    /\ future' = [future EXCEPT ![Head(todo[h])] = "pending"]
    /\ owes' = [owes EXCEPT ![h] = TRUE]
    /\ UNCHANGED <<stopping, owner, pc, cur, runs>>

\* condition_.notify_one(): one of the waiting workers, if there is any.
notify_one(h) ==
    /\ owes[h] /\ owes' = [owes EXCEPT ![h] = FALSE]
    /\ \/ waiting = {} /\ pc' = pc
       \/ \E w \in waiting : pc' = [pc EXCEPT ![w] = "loop"]
    /\ UNCHANGED <<queue, stopping, owner, cur, todo, runs, future>>

-----------------------------------------------------------------------------

\* Mutant: only the end of the pool wakes a worker.
mayGo_Stopping == stopping

\* The predicate of condition_.wait().
mayGo == stopping \/ queue # <<>>

\* Mutant: whoever finds the pool stopping leaves.
mayLeave_Stopping == stopping

mayLeave == stopping /\ queue = <<>>

\* tasks_.pop().
pop == queue' = Tail(queue)

\* workerLoop() with the mutex: wait, leave, or take the first task.
workerLoop(w) ==
    /\ pc[w] = "loop"
    /\ \/ /\ ~mayGo
          /\ pc' = [pc EXCEPT ![w] = "waiting"]
          /\ UNCHANGED <<queue, cur, todo, runs>>
       \/ /\ mayGo /\ mayLeave
          /\ pc' = [pc EXCEPT ![w] = "exited"]
          /\ UNCHANGED <<queue, cur, todo, runs>>
       \/ /\ mayGo /\ ~mayLeave
          /\ pc' = [pc EXCEPT ![w] = "running"] /\ pop
          /\ cur' = [cur EXCEPT ![w] = <<Head(queue)>>]
          /\ todo' = [todo EXCEPT ![w] = Children[Head(queue)]]
          /\ runs' = [runs EXCEPT ![Head(queue)] = @ + 1]
    /\ UNCHANGED <<stopping, owner, owes, future>>

\* wait() returns without a notification.
SpuriousWake(w) ==
    /\ pc[w] = "waiting" /\ pc' = [pc EXCEPT ![w] = "loop"]
    /\ UNCHANGED <<queue, stopping, owner, cur, todo, owes, runs, future>>

\* task() returns: the packaged task has set its future, also if it threw.
Finish(w) ==
    /\ pc[w] = "running" /\ todo[w] = <<>> /\ ~owes[w]
    /\ pc' = [pc EXCEPT ![w] = "loop"] /\ cur' = [cur EXCEPT ![w] = <<>>]
    /\ future' = [future EXCEPT ![Head(cur[w])] = "ready"]
    /\ UNCHANGED <<queue, stopping, owner, todo, owes, runs>>

-----------------------------------------------------------------------------

\* ~ThreadPool() sets stopping_; no client is inside the pool or will be.
Stop ==
    /\ owner = "alive" /\ \A c \in Client : todo[c] = <<>> /\ ~owes[c]
    /\ owner' = "stopped" /\ stopping' = TRUE
    /\ UNCHANGED <<queue, pc, cur, todo, owes, runs, future>>

\* Mutant: one worker is woken, not all.
notify_all_One ==
    /\ owner = "stopped" /\ owner' = "notified"
    /\ \/ waiting = {} /\ pc' = pc
       \/ \E w \in waiting : pc' = [pc EXCEPT ![w] = "loop"]
    /\ UNCHANGED <<queue, stopping, cur, todo, owes, runs, future>>

\* condition_.notify_all().
notify_all ==
    /\ owner = "stopped" /\ owner' = "notified"
    /\ pc' = [w \in Worker |-> IF pc[w] = "waiting" THEN "loop" ELSE pc[w]]
    /\ UNCHANGED <<queue, stopping, cur, todo, owes, runs, future>>

\* Every worker has been joined.
Joined ==
    /\ owner = "notified" /\ \A w \in Worker : pc[w] = "exited"
    /\ owner' = "returned"
    /\ UNCHANGED <<queue, stopping, pc, cur, todo, owes, runs, future>>

PoolNext ==
    \/ \E h \in Thread : submit(h) \/ notify_one(h)
    \/ \E w \in Worker : workerLoop(w) \/ SpuriousWake(w) \/ Finish(w)
    \/ Stop \/ notify_all \/ Joined

\* Threads are scheduled, tasks end and critical sections are short; nobody has
\* to wake up for no reason, to go on submitting, or to destroy the pool.
PoolFairness ==
    /\ \A h \in Thread : WF_poolVars(notify_one(h))
    /\ \A w \in Worker : WF_poolVars(workerLoop(w)) /\ WF_poolVars(Finish(w)) /\ WF_poolVars(submit(w))
    /\ WF_poolVars(notify_all) /\ WF_poolVars(Joined)

PoolSpec == PoolInit /\ [][PoolNext]_poolVars /\ PoolFairness

-----------------------------------------------------------------------------

\* Types; that a task is never started twice (ThreadPool.cpp:42-43) is one of them.
TypeOK ==
    /\ queue \in Seq(Task) /\ stopping \in BOOLEAN
    /\ owner \in {"alive", "stopped", "notified", "returned"}
    /\ pc \in [Worker -> {"loop", "waiting", "running", "exited"}]
    /\ \A w \in Worker : cur[w] \in Seq(Task) /\ (pc[w] = "running" <=> Len(cur[w]) = 1)
    /\ todo \in [Thread -> Seq(Task)] /\ owes \in [Thread -> BOOLEAN]
    /\ runs \in [Task -> 0..1] /\ future \in [Task -> {"none", "pending", "ready"}]

\* When the destructor returns, nothing is left: every task anybody submitted
\* was run and its future is ready, also those that tasks submitted after
\* stopping_ was set (ThreadPool.cpp:18-22, 39).
DrainedOnReturn ==
    owner = "returned" =>
        /\ queue = <<>>
        /\ \A h \in Thread : todo[h] = <<>>
        /\ \A t \in Task : future[t] # "pending"

\* A queued task never waits for workers that all sleep: somebody has yet to
\* notify, or a worker is on its way to the queue (ThreadPool.cpp:25-31, 38).
NoLostWakeup ==
    queue # <<>> => \/ \E h \in Thread : owes[h]
                    \/ \E w \in Worker : pc[w] \in {"loop", "running"}

\* Once the destructor has notified, no worker sleeps, and none falls asleep
\* again (ThreadPool.cpp:13-17, 38): join() cannot wait for a sleeper.
NobodySleepsThroughStop == owner \in {"notified", "returned"} => waiting = {}

\* The pool is safe under any order of submissions, wake-ups and shutdown
\* (ThreadPool.cpp:12-50): no wakeup is lost, nobody sleeps through the stop,
\* and the destructor leaves nothing undone.
PoolSafe == TypeOK /\ DrainedOnReturn /\ NoLostWakeup /\ NobodySleepsThroughStop

\* A submitted task is run to its end, whether or not the pool is ever
\* destroyed (ThreadPool.hpp:30).
EveryTaskRuns == \A t \in Task : (future[t] = "pending") ~> (future[t] = "ready")

\* The destructor returns (ThreadPool.cpp:12-23).
DestructorReturns == (owner = "stopped") ~> (owner = "returned")
=============================================================================
