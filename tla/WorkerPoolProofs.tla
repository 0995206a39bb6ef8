-------------------------- MODULE WorkerPoolProofs --------------------------
(***************************************************************************)
(* Proofs about WorkerPool, for every number of workers, every number of   *)
(* items, every routing and every choice of the items that raise.          *)
(***************************************************************************)
EXTENDS WorkerPool, SequenceTheorems, TLAPS

-----------------------------------------------------------------------------
(* Facts about the operators of ThreadSafeQueue and about Elements.        *)

\* push keeps a queue a queue and adds one item and one unfinished task.
LEMMA PushType ==
  ASSUME NEW S, NEW q \in Queue(S), NEW x \in S
  PROVE  /\ push(q, x) \in Queue(S)
         /\ push(q, x).items = Append(q.items, x)
         /\ Len(push(q, x).items) = Len(q.items) + 1
         /\ push(q, x).unfinished = q.unfinished + 1
  BY DEF push, Queue

\* pop takes the oldest item of a queue that has one, and finishes no task.
LEMMA PopType ==
  ASSUME NEW S, NEW q \in Queue(S), ~empty(q)
  PROVE  /\ pop(q) \in Queue(S)
         /\ oldest(q) \in S
         /\ pop(q).items = Tail(q.items)
         /\ Len(pop(q).items) = Len(q.items) - 1
         /\ pop(q).unfinished = q.unfinished
<1>1. q.items \in Seq(S) /\ q.items # <<>> /\ q.unfinished \in Nat
  BY DEF Queue, empty
<1>2. /\ Tail(q.items) \in Seq(S) /\ Head(q.items) \in S
      /\ Len(Tail(q.items)) = Len(q.items) - 1
  BY <1>1
<1>3. pop(q) = [q EXCEPT !.items = Tail(q.items)] /\ oldest(q) = Head(q.items)
  BY DEF pop, oldest
<1>. QED BY <1>1, <1>2, <1>3 DEF Queue

\* task_done on a queue with an unfinished task takes one away.
LEMMA TaskDoneType ==
  ASSUME NEW S, NEW q \in Queue(S), q.unfinished > 0
  PROVE  /\ task_done(q) \in Queue(S)
         /\ task_done(q).items = q.items
         /\ task_done(q).unfinished = q.unfinished - 1
  BY DEF task_done, Queue

LEMMA ElementsOfAppend ==
  ASSUME NEW S, NEW s \in Seq(S), NEW x \in S
  PROVE  /\ Append(s, x) \in Seq(S)
         /\ Elements(Append(s, x)) = Elements(s) \cup {x}
<1>1. Len(Append(s, x)) = Len(s) + 1 /\ Append(s, x) \in Seq(S)
  OBVIOUS
<1>2. \A k \in 1 .. Len(s) : Append(s, x)[k] = s[k]
  OBVIOUS
<1>3. Append(s, x)[Len(s) + 1] = x
  OBVIOUS
<1>4. Elements(Append(s, x)) \subseteq Elements(s) \cup {x}
  BY <1>1, <1>2, <1>3 DEF Elements
<1>5. Elements(s) \cup {x} \subseteq Elements(Append(s, x))
  BY <1>1, <1>2, <1>3 DEF Elements
<1>. QED BY <1>1, <1>4, <1>5

LEMMA ElementsOfTail ==
  ASSUME NEW S, NEW s \in Seq(S), s # <<>>
  PROVE  /\ Head(s) \in S
         /\ Tail(s) \in Seq(S)
         /\ Elements(s) = {Head(s)} \cup Elements(Tail(s))
<1>1. /\ Len(Tail(s)) = Len(s) - 1 /\ Tail(s) \in Seq(S)
      /\ Head(s) = s[1] /\ Len(s) \in Nat \ {0}
  OBVIOUS
<1>2. \A k \in 1 .. Len(Tail(s)) : Tail(s)[k] = s[k + 1]
  OBVIOUS
<1>3. {Head(s)} \cup Elements(Tail(s)) \subseteq Elements(s)
  <2>1. Head(s) \in Elements(s)
    BY <1>1 DEF Elements
  <2>2. \A k \in 1 .. Len(Tail(s)) : k + 1 \in 1 .. Len(s)
    BY <1>1
  <2>. QED BY <1>2, <2>1, <2>2 DEF Elements
<1>4. Elements(s) \subseteq {Head(s)} \cup Elements(Tail(s))
  <2>. SUFFICES ASSUME NEW k \in 1 .. Len(s), k # 1
                PROVE  s[k] \in Elements(Tail(s))
    BY <1>1 DEF Elements
  <2>1. k - 1 \in 1 .. Len(Tail(s)) /\ (k - 1) + 1 = k
    BY <1>1
  <2>2. Tail(s)[k - 1] = s[k]
    BY <1>2, <2>1
  <2>. QED BY <2>1, <2>2 DEF Elements
<1>. QED BY <1>1, <1>3, <1>4

LEMMA ElementsOfEmpty == Elements(<<>>) = {}
  BY DEF Elements

-----------------------------------------------------------------------------
(* Types.                                                                  *)

LEMMA WorkerFacts == /\ Worker \subseteq Nat
                     /\ 0 \in Worker
                     /\ \A w \in Worker : w # worker_count - 1 => w + 1 \in Worker
  BY PoolAssumption DEF Worker

\* task_done() and join() are only used soundly if the count is exact, the count
\* stays exact only if threads start once, and threads start once because of the
\* client's phase: the three are one induction.
Core == TypeOK /\ UnfinishedIsExact /\ PhasesAgree

\* UnfinishedIsExact of one worker.
Exact(w) ==
  queues[w].unfinished = Len(queues[w].items) + (IF at[w] \in Busy THEN 1 ELSE 0)

LEMMA ExactFacts ==
  ASSUME Core, NEW w \in Worker
  PROVE  /\ Exact(w) /\ queues[w] \in Queue(Item)
         /\ Len(queues[w].items) \in Nat /\ queues[w].unfinished \in Nat
<1>1. Exact(w)
  BY DEF Core, UnfinishedIsExact, Exact
<1>2. queues[w] \in Queue(Item)
  BY DEF Core, TypeOK
<1>3. queues[w].items \in Seq(Item) /\ queues[w].unfinished \in Nat
  BY <1>2 DEF Queue
<1>. QED BY <1>1, <1>2, <1>3

LEMMA CoreInit == Init => Core
<1>. SUFFICES ASSUME Init PROVE Core
  OBVIOUS
<1>1. Empty \in Queue(Item) /\ Empty.unfinished = 0 /\ Len(Empty.items) = 0
  BY DEF Empty, Queue
<1>2. TypeOK
  BY <1>1, WorkerFacts DEF Init, TypeOK, ClientAt, ThreadAt, Busy
<1>3. UnfinishedIsExact
  BY <1>1 DEF Init, UnfinishedIsExact, Busy
<1>4. PhasesAgree
  BY WorkerFacts DEF Init, PhasesAgree, Drained, Worker
<1>. QED BY <1>2, <1>3, <1>4 DEF Core

\* A thread that moves on within its loop, by itself, between the same two
\* kinds of places: with an item in hand or without.
LEMMA CoreMove ==
  ASSUME Core, NEW w \in Worker, NEW from, NEW to \in ThreadAt \ {"new", "exited"},
         Goto(w, from, to), from \notin {"new", "exited"},
         from \in Busy <=> to \in Busy,
         UNCHANGED <<client, queues, stop_event>>,
         hand' = hand, results' \in [Worker -> Seq(Item)],
         processed' \in [Worker -> Nat], failures' \in [Worker -> Seq(Item)]
  PROVE  Core'
<1>1. TypeOK'
  BY DEF Core, TypeOK, Goto, client
<1>2. UnfinishedIsExact'
  BY DEF Core, TypeOK, UnfinishedIsExact, Goto, client
<1>3. PhasesAgree'
  BY DEF Core, TypeOK, PhasesAgree, Goto, client
<1>. QED BY <1>1, <1>2, <1>3 DEF Core

LEMMA CoreStep == Core /\ [Next]_vars => Core'
<1>. SUFFICES ASSUME Core, [Next]_vars PROVE Core'
  OBVIOUS
<1>. USE DEF Core
<1>1. CASE Start
  <2>1. TypeOK'
    BY <1>1, WorkerFacts DEF Start, NextWorker, TypeOK, ClientAt, ThreadAt, Busy
  <2>2. at[idx] = "new"
    BY <1>1, WorkerFacts DEF Start, PhasesAgree, TypeOK
  <2>3. UnfinishedIsExact'
    BY <1>1, <2>2 DEF Start, TypeOK, UnfinishedIsExact, Busy
  <2>4. PhasesAgree'
    BY <1>1, WorkerFacts DEF Start, NextWorker, TypeOK, PhasesAgree, Drained, Worker
  <2>. QED BY <2>1, <2>3, <2>4
<1>2. ASSUME NEW i \in Item, NEW w \in Worker, Submit(i, w) PROVE Core'
  <2>1. /\ push(queues[w], i) \in Queue(Item)
        /\ Len(push(queues[w], i).items) = Len(queues[w].items) + 1
        /\ push(queues[w], i).unfinished = queues[w].unfinished + 1
    BY PushType DEF TypeOK
  <2>2. TypeOK'
    BY <1>2, <2>1 DEF Submit, TypeOK, threads
  <2>3. UnfinishedIsExact'
    <3>. SUFFICES ASSUME NEW v \in Worker
                  PROVE  Exact(v)'
      BY DEF UnfinishedIsExact, Exact
    <3>. /\ Exact(v) /\ queues[v] \in Queue(Item)
         /\ Len(queues[v].items) \in Nat /\ queues[v].unfinished \in Nat
      BY ExactFacts
    <3>1. CASE v = w
      <4>1. queues'[v] = push(queues[v], i) /\ at'[v] = at[v]
        BY <1>2, <3>1 DEF Submit, TypeOK, threads
      <4>2. CASE at[v] \in Busy
        BY <4>1, <4>2, <2>1, <3>1 DEF Exact
      <4>3. CASE at[v] \notin Busy
        BY <4>1, <4>3, <2>1, <3>1 DEF Exact
      <4>. QED BY <4>2, <4>3
    <3>2. CASE v # w
      BY <1>2, <3>2 DEF Submit, TypeOK, Exact, threads
    <3>. QED BY <3>1, <3>2
  <2>4. PhasesAgree'
    BY <1>2 DEF Submit, TypeOK, PhasesAgree, threads, Drained
  <2>. QED BY <2>2, <2>3, <2>4
<1>3. CASE AllSubmitted \/ Raise
  <2>1. TypeOK' /\ UnfinishedIsExact'
    BY <1>3 DEF AllSubmitted, Raise, TypeOK, UnfinishedIsExact, threads, ClientAt
  <2>2. PhasesAgree'
    BY <1>3, WorkerFacts DEF AllSubmitted, Raise, TypeOK, PhasesAgree, threads, Drained
  <2>. QED BY <2>1, <2>2
<1>4. CASE WaitForQueue
  <2>1. TypeOK' /\ UnfinishedIsExact'
    BY <1>4, WorkerFacts DEF WaitForQueue, NextWorker, TypeOK, UnfinishedIsExact,
                             threads, ClientAt
  <2>2. PhasesAgree'
    <3>1. CASE idx = worker_count - 1
      <4>1. main' = "stats" /\ idx' = 0 /\ UNCHANGED <<queues, stop_event, at>>
        BY <1>4, <3>1 DEF WaitForQueue, NextWorker, threads
      <4>2. \A w \in Worker : w < idx \/ w = idx
        BY <3>1, PoolAssumption DEF Worker
      <4>. QED BY <1>4, <4>1, <4>2 DEF WaitForQueue, PhasesAgree, Drained
    <3>2. CASE idx # worker_count - 1
      <4>1. main' = "wait" /\ idx' = idx + 1 /\ UNCHANGED <<queues, stop_event, at>>
        BY <1>4, <3>2 DEF WaitForQueue, NextWorker, threads
      <4>2. \A w \in Worker : w < idx + 1 => w < idx \/ w = idx
        BY DEF Worker, TypeOK
      <4>. QED BY <1>4, <4>1, <4>2 DEF WaitForQueue, PhasesAgree, Drained
    <3>. QED BY <3>1, <3>2
  <2>. QED BY <2>1, <2>2
<1>5. CASE GetWorkerStats \/ GetResults \/ GetErrorStats
  <2>1. TypeOK' /\ UnfinishedIsExact'
    BY <1>5 DEF GetWorkerStats, GetResults, GetErrorStats, TypeOK, UnfinishedIsExact,
                threads, ClientAt
  <2>2. PhasesAgree'
    BY <1>5, WorkerFacts DEF GetWorkerStats, GetResults, GetErrorStats, TypeOK,
                             PhasesAgree, threads, Drained
  <2>. QED BY <2>1, <2>2
<1>6. CASE Stop
  <2>1. TypeOK' /\ UnfinishedIsExact'
    BY <1>6, WorkerFacts DEF Stop, NextWorker, TypeOK, UnfinishedIsExact, threads, ClientAt
  <2>2. PhasesAgree'
    <3>0. /\ UNCHANGED <<queues, at>> /\ main = "stop"
          /\ stop_event' = [stop_event EXCEPT ![idx] = TRUE]
      BY <1>6 DEF Stop, threads
    <3>1. CASE idx = worker_count - 1
      <4>1. main' = "join" /\ idx' = 0
        BY <1>6, <3>1 DEF Stop, NextWorker
      <4>2. \A w \in Worker : w < idx \/ w = idx
        BY <3>1, PoolAssumption DEF Worker
      <4>3. \A w \in Worker : stop_event'[w]
        BY <3>0, <4>2 DEF PhasesAgree, TypeOK
      <4>. QED BY <3>0, <4>1, <4>3 DEF PhasesAgree, Drained
    <3>2. CASE idx # worker_count - 1
      <4>1. main' = "stop" /\ idx' = idx + 1
        BY <1>6, <3>2 DEF Stop, NextWorker
      <4>2. \A w \in Worker : w < idx + 1 <=> (w < idx \/ w = idx)
        BY DEF Worker, TypeOK
      <4>3. \A w \in Worker : stop_event'[w] <=> (stop_event[w] \/ w = idx)
        BY <3>0 DEF TypeOK
      <4>. QED BY <3>0, <4>1, <4>2, <4>3 DEF PhasesAgree, Drained
    <3>. QED BY <3>1, <3>2
  <2>. QED BY <2>1, <2>2
<1>7. CASE Join
  <2>1. TypeOK' /\ UnfinishedIsExact'
    BY <1>7, WorkerFacts DEF Join, NextWorker, TypeOK, UnfinishedIsExact, threads, ClientAt
  <2>2. PhasesAgree'
    BY <1>7, WorkerFacts, PoolAssumption
       DEF Join, NextWorker, TypeOK, PhasesAgree, threads, Drained, Worker
  <2>. QED BY <2>1, <2>2
<1>8. ASSUME NEW w \in Worker, CheckStop(w) PROVE Core'
  <2>1. TypeOK' /\ UnfinishedIsExact'
    BY <1>8 DEF CheckStop, Goto, TypeOK, UnfinishedIsExact, client, ThreadAt, Busy
  <2>2. PhasesAgree'
    BY <1>8 DEF CheckStop, Goto, TypeOK, PhasesAgree, client
  <2>. QED BY <2>1, <2>2
<1>9. ASSUME NEW w \in Worker, Pop(w) PROVE Core'
  <2>1. /\ pop(queues[w]) \in Queue(Item)
        /\ oldest(queues[w]) \in Item
        /\ Len(pop(queues[w]).items) = Len(queues[w].items) - 1
        /\ pop(queues[w]).unfinished = queues[w].unfinished
    BY <1>9, PopType DEF TypeOK, Pop
  <2>2. TypeOK'
    BY <1>9, <2>1 DEF Pop, Goto, TypeOK, client, ThreadAt, Busy
  <2>3. UnfinishedIsExact'
    <3>. SUFFICES ASSUME NEW v \in Worker
                  PROVE  Exact(v)'
      BY DEF UnfinishedIsExact, Exact
    <3>. /\ Exact(v) /\ queues[v] \in Queue(Item)
         /\ Len(queues[v].items) \in Nat /\ queues[v].unfinished \in Nat
      BY ExactFacts
    <3>1. CASE v = w
      <4>1. queues'[v] = pop(queues[v]) /\ at[v] = "pop" /\ at'[v] = "process"
        BY <1>9, <3>1 DEF Pop, Goto, TypeOK
      <4>. QED BY <4>1, <2>1, <3>1 DEF Exact, Busy
    <3>2. CASE v # w
      BY <1>9, <3>2 DEF Pop, Goto, TypeOK, Exact
    <3>. QED BY <3>1, <3>2
  <2>4. PhasesAgree'
    BY <1>9, <2>1 DEF Pop, Goto, TypeOK, PhasesAgree, client, joined
  <2>. QED BY <2>2, <2>3, <2>4
<1>10. ASSUME NEW w \in Worker, PopTimeout(w) PROVE Core'
  BY <1>10, CoreMove DEF PopTimeout, ThreadAt, Busy, TypeOK
<1>11. ASSUME NEW w \in Worker, ProcessorReturns(w) PROVE Core'
  BY <1>11, CoreMove DEF ProcessorReturns, ThreadAt, Busy, TypeOK
<1>12. ASSUME NEW w \in Worker, ProcessorRaises(w) PROVE Core'
  BY <1>12, CoreMove DEF ProcessorRaises, ThreadAt, Busy, TypeOK
<1>13. ASSUME NEW w \in Worker, AppendResult(w) PROVE Core'
  <2>1. hand[w] \in Item
    BY <1>13 DEF AppendResult, Goto, TypeOK, Busy
  <2>2. Append(results[w], hand[w]) \in Seq(Item)
    BY <2>1 DEF TypeOK
  <2>3. results' \in [Worker -> Seq(Item)]
    BY <1>13, <2>2 DEF AppendResult, TypeOK
  <2>4. /\ hand' = hand /\ processed' \in [Worker -> Nat] /\ failures' \in [Worker -> Seq(Item)]
        /\ Goto(w, "append", "count") /\ UNCHANGED <<client, queues, stop_event>>
    BY <1>13 DEF AppendResult, TypeOK
  <2>. QED BY <2>3, <2>4, CoreMove DEF ThreadAt, Busy
<1>14. ASSUME NEW w \in Worker, CountProcessed(w) PROVE Core'
  <2>1. processed' \in [Worker -> Nat]
    BY <1>14 DEF CountProcessed, TypeOK
  <2>2. /\ hand' = hand /\ results' \in [Worker -> Seq(Item)] /\ failures' \in [Worker -> Seq(Item)]
        /\ Goto(w, "count", "task_done") /\ UNCHANGED <<client, queues, stop_event>>
    BY <1>14 DEF CountProcessed, TypeOK
  <2>. QED BY <2>1, <2>2, CoreMove DEF ThreadAt, Busy
<1>15. ASSUME NEW w \in Worker, CountError(w) PROVE Core'
  <2>1. hand[w] \in Item
    BY <1>15 DEF CountError, Goto, TypeOK, Busy
  <2>2. Append(failures[w], hand[w]) \in Seq(Item)
    BY <2>1 DEF TypeOK
  <2>3. failures' \in [Worker -> Seq(Item)]
    BY <1>15, <2>2 DEF CountError, TypeOK
  <2>4. /\ hand' = hand /\ processed' \in [Worker -> Nat] /\ results' \in [Worker -> Seq(Item)]
        /\ Goto(w, "error", "task_done") /\ UNCHANGED <<client, queues, stop_event>>
    BY <1>15 DEF CountError, TypeOK
  <2>. QED BY <2>3, <2>4, CoreMove DEF ThreadAt, Busy
<1>16. ASSUME NEW w \in Worker, TaskDone(w) PROVE Core'
  <2>1. queues[w].unfinished > 0
    <3>. /\ Exact(w) /\ queues[w] \in Queue(Item)
         /\ Len(queues[w].items) \in Nat /\ queues[w].unfinished \in Nat
      BY ExactFacts
    <3>. QED BY <1>16 DEF TaskDone, Goto, Exact, Busy
  <2>2. /\ task_done(queues[w]) \in Queue(Item)
        /\ task_done(queues[w]).items = queues[w].items
        /\ task_done(queues[w]).unfinished = queues[w].unfinished - 1
    BY <2>1, TaskDoneType DEF TypeOK
  <2>3. TypeOK'
    BY <1>16, <2>2 DEF TaskDone, Goto, TypeOK, client, ThreadAt, Busy
  <2>4. UnfinishedIsExact'
    <3>. SUFFICES ASSUME NEW v \in Worker
                  PROVE  Exact(v)'
      BY DEF UnfinishedIsExact, Exact
    <3>. /\ Exact(v) /\ queues[v] \in Queue(Item)
         /\ Len(queues[v].items) \in Nat /\ queues[v].unfinished \in Nat
      BY ExactFacts
    <3>1. CASE v = w
      <4>1. queues'[v] = task_done(queues[v]) /\ at[v] = "task_done" /\ at'[v] = "loop"
        BY <1>16, <3>1 DEF TaskDone, Goto, TypeOK
      <4>. QED BY <4>1, <2>2, <3>1 DEF Exact, Busy
    <3>2. CASE v # w
      BY <1>16, <3>2 DEF TaskDone, Goto, TypeOK, Exact
    <3>. QED BY <3>1, <3>2
  <2>5. PhasesAgree'
    BY <1>16, <2>1, <2>2 DEF TaskDone, Goto, TypeOK, PhasesAgree, client, joined
  <2>. QED BY <2>3, <2>4, <2>5
<1>17. CASE UNCHANGED vars
  BY <1>17 DEF vars, client, threads, TypeOK, UnfinishedIsExact, PhasesAgree
<1>. QED
  BY <1>1, <1>2, <1>3, <1>4, <1>5, <1>6, <1>7, <1>8, <1>9, <1>10, <1>11, <1>12,
     <1>13, <1>14, <1>15, <1>16, <1>17
  DEF Next, ClientStep, WorkerStep, Finished

LEMMA CoreInvariant == Spec => []Core
<1>. QED BY CoreInit, CoreStep, PTL DEF Spec

-----------------------------------------------------------------------------
(* Results about the queues and the threads.                               *)

\* The pool's variables keep their types (WorkerPool's whole state: worker.py,
\* worker_pool.py).
THEOREM TypeCorrect == Spec => []TypeOK
<1>. QED BY CoreInvariant, PTL DEF Core

\* The count of unfinished tasks is exact (worker.py: task_done in finally), so
\* task_done() never raises and join() never returns too early.
THEOREM UnfinishedCorrect == Spec => []UnfinishedIsExact
<1>. QED BY CoreInvariant, PTL DEF Core

\* After wait_until_empty() a worker has nothing waiting and nothing in hand.
LEMMA DrainedIsIdle ==
  ASSUME Core, main \in Drained, NEW w \in Worker
  PROVE  /\ at[w] \notin Busy
         /\ queues[w].items = <<>>
         /\ queues[w] = Empty
<1>1. queues[w].unfinished = 0
  BY DEF Core, PhasesAgree, joined
<1>2. /\ Exact(w) /\ queues[w] \in Queue(Item) /\ Len(queues[w].items) \in Nat
  BY ExactFacts
<1>3. at[w] \notin Busy
  <2>. SUFFICES ASSUME at[w] \in Busy PROVE FALSE
    OBVIOUS
  <2>1. queues[w].unfinished = Len(queues[w].items) + 1
    BY <1>2 DEF Exact
  <2>. QED BY <1>1, <1>2, <2>1
<1>4. Len(queues[w].items) = 0
  BY <1>1, <1>2, <1>3 DEF Exact
<1>5. queues[w].items \in Seq(Item)
  BY <1>2 DEF Queue
<1>6. queues[w].items = <<>>
  BY <1>4, <1>5
<1>7. queues[w] = [items |-> <<>>, unfinished |-> 0]
  BY <1>1, <1>2, <1>6 DEF Queue
<1>. QED BY <1>3, <1>6, <1>7 DEF Empty

\* No thread ends with an item waiting or in hand: stop() comes after
\* wait_until_empty() (worker_pool.py, pipeline.py).
THEOREM NothingStranded == Spec => []NothingIsStranded
<1>1. Core => NothingIsStranded
  <2>. SUFFICES ASSUME Core, NEW w \in Worker, at[w] = "exited"
                PROVE  queues[w] = Empty
    BY DEF NothingIsStranded
  <2>1. main \in Drained
    BY DEF Core, PhasesAgree, Drained
  <2>. QED BY <2>1, DrainedIsIdle
<1>. QED BY <1>1, CoreInvariant, PTL

-----------------------------------------------------------------------------
(* What a step does with the items.  Every step of the pool has one of     *)
(* four effects on where the items are; the item invariants are proved     *)
(* from the effects alone.                                                 *)

Waiting(w)  == Elements(queues[w].items)
Held(w)     == {i \in Item : InHand(i, w)}
Outcomes(w) == Elements(results[w]) \cup Elements(failures[w])

QueueKept(w) == queues'[w].items = queues[w].items
HeldKept(w)  == Held(w)' = Held(w)

\* An item newer than all others joins the queue of w.
Joins(i, w) ==
  /\ \A j \in DOMAIN route : j < i
  /\ DOMAIN route' = DOMAIN route \cup {i}
  /\ route'[i] = w
  /\ \A j \in DOMAIN route : j # i => route'[j] = route[j]
  /\ queues'[w].items = Append(queues[w].items, i)
  /\ \A v \in Worker : (v # w => QueueKept(v)) /\ HeldKept(v)
  /\ UNCHANGED <<results, failures>>

\* The oldest item of w's queue goes into its empty hand.
Taken(w) ==
  /\ queues[w].items # <<>>
  /\ queues'[w].items = Tail(queues[w].items)
  /\ Held(w) = {} /\ Held(w)' = {Head(queues[w].items)}
  /\ \A v \in Worker : v # w => QueueKept(v) /\ HeldKept(v)
  /\ UNCHANGED <<route, results, failures>>

\* The item in w's hand leaves it for the results or for the failures.
Leaves(x, w) ==
  /\ Held(w) = {x} /\ Held(w)' = {}
  /\ \/ results' = [results EXCEPT ![w] = Append(@, x)] /\ UNCHANGED failures
     \/ failures' = [failures EXCEPT ![w] = Append(@, x)] /\ UNCHANGED results
  /\ \A v \in Worker : QueueKept(v) /\ (v # w => HeldKept(v))
  /\ UNCHANGED route

\* No item moves.
NothingMoves ==
  /\ \A v \in Worker : QueueKept(v) /\ HeldKept(v)
  /\ UNCHANGED <<route, results, failures>>

LEMMA Effects ==
  ASSUME Core, [Next]_vars
  PROVE  \/ \E i \in Item, w \in Worker : Joins(i, w)
         \/ \E w \in Worker : Taken(w)
         \/ \E x \in Item, w \in Worker : Leaves(x, w)
         \/ NothingMoves
<1>. USE DEF QueueKept, HeldKept, Held, InHand
<1>1. CASE Start
  <2>1. at[idx] = "new" /\ idx \in Worker
    BY <1>1, WorkerFacts DEF Start, Core, PhasesAgree, TypeOK
  <2>2. NothingMoves
    BY <1>1, <2>1 DEF Start, NothingMoves, Core, TypeOK
  <2>. QED BY <2>2
<1>2. ASSUME NEW i \in Item, NEW w \in Worker, Submit(i, w) PROVE Joins(i, w)
  <2>1. queues' = [queues EXCEPT ![w] = push(@, i)] /\ queues[w] \in Queue(Item)
    BY <1>2 DEF Submit, Core, TypeOK
  <2>2. queues'[w].items = Append(queues[w].items, i)
    <3>1. queues'[w] = push(queues[w], i)
      BY <2>1 DEF Core, TypeOK
    <3>. QED BY <2>1, <3>1, PushType
  <2>3. \A v \in Worker : v # w => QueueKept(v)
    BY <2>1 DEF Core, TypeOK
  <2>. QED BY <1>2, <2>2, <2>3 DEF Submit, Joins, threads
<1>3. CASE AllSubmitted \/ Raise \/ WaitForQueue \/ GetWorkerStats \/ GetResults
           \/ GetErrorStats \/ Stop \/ Join \/ UNCHANGED vars
  <2>1. UNCHANGED <<route, queues, at, hand, results, failures>>
    BY <1>3 DEF AllSubmitted, Raise, WaitForQueue, GetWorkerStats, GetResults,
                GetErrorStats, Stop, Join, vars, threads, client
  <2>. QED BY <2>1 DEF NothingMoves
<1>4. ASSUME NEW w \in Worker,
             CheckStop(w) \/ PopTimeout(w) \/ ProcessorReturns(w)
               \/ ProcessorRaises(w) \/ CountProcessed(w)
      PROVE  NothingMoves
  <2>1. UNCHANGED <<route, queues, hand, results, failures>>
    BY <1>4 DEF CheckStop, PopTimeout, ProcessorReturns, ProcessorRaises,
                CountProcessed, client
  <2>2. PICK from, to : /\ Goto(w, from, to)
                        /\ from \in {"process", "append", "error"}
                             <=> to \in {"process", "append", "error"}
    BY <1>4 DEF CheckStop, PopTimeout, ProcessorReturns, ProcessorRaises, CountProcessed
  <2>3. \A v \in Worker : HeldKept(v)
    BY <2>1, <2>2 DEF Goto, Core, TypeOK
  <2>. QED BY <2>1, <2>3 DEF NothingMoves
<1>5. ASSUME NEW w \in Worker, Pop(w) PROVE Taken(w)
  <2>1. /\ queues' = [queues EXCEPT ![w] = pop(@)] /\ queues[w] \in Queue(Item)
        /\ hand' = [hand EXCEPT ![w] = oldest(queues[w])] /\ ~empty(queues[w])
        /\ Goto(w, "pop", "process") /\ UNCHANGED <<route, results, failures>>
    BY <1>5 DEF Pop, Core, TypeOK, client
  <2>2. /\ queues'[w].items = Tail(queues[w].items)
        /\ queues[w].items # <<>>
        /\ Head(queues[w].items) = oldest(queues[w])
        /\ oldest(queues[w]) \in Item
    BY <2>1, PopType DEF Core, TypeOK, empty, oldest
  <2>3. Held(w) = {}
    BY <2>1 DEF Goto
  <2>4. at'[w] = "process" /\ hand'[w] = oldest(queues[w])
    BY <2>1 DEF Goto, Core, TypeOK
  <2>5. Held(w)' = {Head(queues[w].items)}
    BY <2>2, <2>4
  <2>6. \A v \in Worker : v # w => QueueKept(v) /\ HeldKept(v)
    BY <2>1 DEF Goto, Core, TypeOK
  <2>. QED BY <2>1, <2>2, <2>3, <2>5, <2>6 DEF Taken
<1>6. ASSUME NEW w \in Worker, AppendResult(w) PROVE \E x \in Item : Leaves(x, w)
  <2>1. /\ Goto(w, "append", "count") /\ UNCHANGED <<route, queues, hand, failures>>
        /\ results' = [results EXCEPT ![w] = Append(@, hand[w])]
    BY <1>6 DEF AppendResult, client
  <2>2. hand[w] \in Item
    BY <2>1 DEF Goto, Core, TypeOK, Busy
  <2>3. Held(w) = {hand[w]} /\ Held(w)' = {}
    BY <2>1, <2>2 DEF Goto, Core, TypeOK
  <2>4. \A v \in Worker : QueueKept(v) /\ (v # w => HeldKept(v))
    BY <2>1 DEF Goto, Core, TypeOK
  <2>. QED BY <2>1, <2>2, <2>3, <2>4 DEF Leaves
<1>7. ASSUME NEW w \in Worker, CountError(w) PROVE \E x \in Item : Leaves(x, w)
  <2>1. /\ Goto(w, "error", "task_done") /\ UNCHANGED <<route, queues, hand, results>>
        /\ failures' = [failures EXCEPT ![w] = Append(@, hand[w])]
    BY <1>7 DEF CountError, client
  <2>2. hand[w] \in Item
    BY <2>1 DEF Goto, Core, TypeOK, Busy
  <2>3. Held(w) = {hand[w]} /\ Held(w)' = {}
    BY <2>1, <2>2 DEF Goto, Core, TypeOK
  <2>4. \A v \in Worker : QueueKept(v) /\ (v # w => HeldKept(v))
    BY <2>1 DEF Goto, Core, TypeOK
  <2>. QED BY <2>1, <2>2, <2>3, <2>4 DEF Leaves
<1>8. ASSUME NEW w \in Worker, TaskDone(w) PROVE NothingMoves
  <2>1. /\ Goto(w, "task_done", "loop") /\ UNCHANGED <<route, hand, results, failures>>
        /\ queues' = [queues EXCEPT ![w] = task_done(@)]
    BY <1>8 DEF TaskDone, client
  <2>2. task_done(queues[w]).items = queues[w].items
    BY DEF task_done, Core, TypeOK, Queue
  <2>3. \A v \in Worker : QueueKept(v)
    BY <2>1, <2>2 DEF Core, TypeOK
  <2>4. \A v \in Worker : HeldKept(v)
    BY <2>1 DEF Goto, Core, TypeOK
  <2>. QED BY <2>1, <2>3, <2>4 DEF NothingMoves
<1>9. CASE ClientStep \/ Raise \/ Finished
  BY <1>1, <1>2, <1>3, <1>9 DEF ClientStep, Finished
<1>10. ASSUME NEW w \in Worker, WorkerStep(w)
       PROVE  Taken(w) \/ (\E x \in Item : Leaves(x, w)) \/ NothingMoves
  BY <1>4, <1>5, <1>6, <1>7, <1>8, <1>10 DEF WorkerStep
<1>. QED BY <1>3, <1>9, <1>10 DEF Next

-----------------------------------------------------------------------------
(* Where the items are.                                                    *)

LEMMA IncreasingAppend ==
  ASSUME NEW s \in Seq(Item), NEW x \in Item, Increasing(s),
         \A e \in Elements(s) : e < x
  PROVE  Increasing(Append(s, x))
<1>1. Len(Append(s, x)) = Len(s) + 1 /\ Append(s, x)[Len(s) + 1] = x /\ Len(s) \in Nat
  OBVIOUS
<1>2. \A k \in 1 .. Len(s) : Append(s, x)[k] = s[k] /\ s[k] \in Elements(s)
  BY DEF Elements
<1>3. ASSUME NEW j \in 1 .. Len(s) + 1, NEW k \in 1 .. Len(s) + 1, j < k
      PROVE  Append(s, x)[j] < Append(s, x)[k]
  <2>1. CASE k = Len(s) + 1
    BY <1>1, <1>2, <1>3, <2>1
  <2>2. CASE k \in 1 .. Len(s)
    BY <1>1, <1>2, <1>3, <2>2 DEF Increasing
  <2>. QED BY <1>1, <2>1, <2>2
<1>. QED BY <1>1, <1>3 DEF Increasing

LEMMA IncreasingTail ==
  ASSUME NEW s \in Seq(Item), s # <<>>, Increasing(s)
  PROVE  /\ Increasing(Tail(s))
         /\ \A e \in Elements(Tail(s)) : Head(s) < e
<1>1. /\ Len(Tail(s)) = Len(s) - 1 /\ Head(s) = s[1] /\ Len(s) \in Nat \ {0}
  OBVIOUS
<1>2. \A k \in 1 .. Len(Tail(s)) : Tail(s)[k] = s[k + 1] /\ k + 1 \in 2 .. Len(s)
  BY <1>1
<1>. QED BY <1>1, <1>2 DEF Increasing, Elements

\* The four effects in terms of the sets of items.
LEMMA EffectSets ==
  ASSUME Core, Core'
  PROVE  /\ \A i \in Item, w \in Worker : Joins(i, w) =>
              /\ Waiting(w)' = Waiting(w) \cup {i}
              /\ \A v \in Worker : /\ v # w => Waiting(v)' = Waiting(v)
                                   /\ Outcomes(v)' = Outcomes(v)
         /\ \A w \in Worker : Taken(w) =>
              /\ Waiting(w) = Held(w)' \cup Waiting(w)'
              /\ Held(w) = {}
              /\ \A v \in Worker : /\ v # w => Waiting(v)' = Waiting(v)
                                   /\ Outcomes(v)' = Outcomes(v)
         /\ \A x \in Item, w \in Worker : Leaves(x, w) =>
              /\ Outcomes(w)' = Outcomes(w) \cup {x}
              /\ \A v \in Worker : /\ v # w => Outcomes(v)' = Outcomes(v)
                                   /\ Waiting(v)' = Waiting(v)
         /\ NothingMoves =>
              \A v \in Worker : Waiting(v)' = Waiting(v) /\ Outcomes(v)' = Outcomes(v)
<1>1. \A v \in Worker : /\ queues[v].items \in Seq(Item)
                        /\ results[v] \in Seq(Item) /\ failures[v] \in Seq(Item)
  BY DEF Core, TypeOK, Queue
<1>2. \A v \in Worker : QueueKept(v) => Waiting(v)' = Waiting(v)
  BY DEF QueueKept, Waiting, Elements
<1>3. ASSUME UNCHANGED <<results, failures>>
      PROVE  \A v \in Worker : Outcomes(v)' = Outcomes(v)
  BY <1>3 DEF Outcomes, Elements
<1>4. ASSUME NEW i \in Item, NEW w \in Worker, Joins(i, w)
      PROVE  Waiting(w)' = Waiting(w) \cup {i}
  <2>1. Waiting(w)' = Elements(Append(queues[w].items, i))
    BY <1>4 DEF Joins, Waiting, Elements
  <2>. QED BY <1>1, <2>1, ElementsOfAppend DEF Waiting
<1>5. ASSUME NEW w \in Worker, Taken(w)
      PROVE  Waiting(w) = Held(w)' \cup Waiting(w)'
  <2>1. Waiting(w)' = Elements(Tail(queues[w].items))
    BY <1>5 DEF Taken, Waiting, Elements
  <2>. QED BY <1>1, <1>5, <2>1, ElementsOfTail DEF Taken, Waiting
<1>6. ASSUME NEW x \in Item, NEW w \in Worker, Leaves(x, w)
      PROVE  /\ Outcomes(w)' = Outcomes(w) \cup {x}
             /\ \A v \in Worker : v # w => Outcomes(v)' = Outcomes(v)
  <2>1. CASE results' = [results EXCEPT ![w] = Append(@, x)] /\ UNCHANGED failures
    <3>1. results'[w] = Append(results[w], x) /\ \A v \in Worker : v # w => results'[v] = results[v]
      BY <2>1 DEF Core, TypeOK
    <3>2. Elements(results'[w]) = Elements(results[w]) \cup {x}
      BY <1>1, <3>1, ElementsOfAppend
    <3>3. Outcomes(w)' = Elements(results'[w]) \cup Elements(failures'[w])
      BY DEF Outcomes, Elements
    <3>4. \A v \in Worker : v # w => Outcomes(v)' = Outcomes(v)
      BY <2>1, <3>1 DEF Outcomes, Elements
    <3>. QED BY <2>1, <3>2, <3>3, <3>4 DEF Outcomes
  <2>2. CASE failures' = [failures EXCEPT ![w] = Append(@, x)] /\ UNCHANGED results
    <3>1. failures'[w] = Append(failures[w], x) /\ \A v \in Worker : v # w => failures'[v] = failures[v]
      BY <2>2 DEF Core, TypeOK
    <3>2. Elements(failures'[w]) = Elements(failures[w]) \cup {x}
      BY <1>1, <3>1, ElementsOfAppend
    <3>3. Outcomes(w)' = Elements(results'[w]) \cup Elements(failures'[w])
      BY DEF Outcomes, Elements
    <3>4. \A v \in Worker : v # w => Outcomes(v)' = Outcomes(v)
      BY <2>2, <3>1 DEF Outcomes, Elements
    <3>. QED BY <2>2, <3>2, <3>3, <3>4 DEF Outcomes
  <2>. QED BY <1>6, <2>1, <2>2 DEF Leaves
<1>7. ASSUME NEW w \in Worker, Taken(w) PROVE Held(w) = {}
  BY <1>7 DEF Taken
<1>8. ASSUME NEW i \in Item, NEW w \in Worker, Joins(i, w)
      PROVE  \A v \in Worker : /\ v # w => Waiting(v)' = Waiting(v)
                               /\ Outcomes(v)' = Outcomes(v)
  BY <1>2, <1>3, <1>8 DEF Joins
<1>9. ASSUME NEW w \in Worker, Taken(w)
      PROVE  \A v \in Worker : /\ v # w => Waiting(v)' = Waiting(v)
                               /\ Outcomes(v)' = Outcomes(v)
  BY <1>2, <1>3, <1>9 DEF Taken
<1>10. ASSUME NEW x \in Item, NEW w \in Worker, Leaves(x, w)
       PROVE  \A v \in Worker : Waiting(v)' = Waiting(v)
  BY <1>2, <1>10 DEF Leaves
<1>11. ASSUME NothingMoves
       PROVE  \A v \in Worker : Waiting(v)' = Waiting(v) /\ Outcomes(v)' = Outcomes(v)
  BY <1>2, <1>3, <1>11 DEF NothingMoves
<1>. QED BY <1>4, <1>5, <1>6, <1>7, <1>8, <1>9, <1>10, <1>11
OnRoute == \A w \in Worker : \A i \in Waiting(w) \cup Held(w) \cup Outcomes(w) :
             i \in DOMAIN route /\ route[i] = w

LEMMA RouteStep == Core /\ Core' /\ OnRoute /\ [Next]_vars => OnRoute'
<1>. SUFFICES ASSUME Core, Core', OnRoute, [Next]_vars,
                     NEW v \in Worker, NEW i \in Waiting(v)' \cup Held(v)' \cup Outcomes(v)'
              PROVE  i \in DOMAIN route' /\ route'[i] = v
  BY DEF OnRoute
<1>1. ASSUME NEW j \in Item, NEW w \in Worker, Joins(j, w)
      PROVE  i \in DOMAIN route' /\ route'[i] = v
  <2>1. \A k \in DOMAIN route : k \in DOMAIN route' /\ route'[k] = route[k]
    BY <1>1 DEF Joins, Core, TypeOK, Item
  <2>0. /\ Waiting(w)' = Waiting(w) \cup {j}
        /\ \A u \in Worker : /\ u # w => Waiting(u)' = Waiting(u)
                             /\ Outcomes(u)' = Outcomes(u) /\ Held(u)' = Held(u)
    <3>1. \A u \in Worker : Held(u)' = Held(u)
      BY <1>1 DEF Joins, HeldKept
    <3>. QED BY <1>1, <3>1, EffectSets
  <2>2. i \in Waiting(v) \cup Held(v) \cup Outcomes(v) \/ (i = j /\ v = w)
    BY <2>0
  <2>. QED BY <1>1, <2>1, <2>2 DEF OnRoute, Joins
<1>2. ASSUME NEW w \in Worker, Taken(w)
      PROVE  i \in DOMAIN route' /\ route'[i] = v
  <2>1. i \in Waiting(v) \cup Held(v) \cup Outcomes(v)
    BY <1>2, EffectSets DEF Taken, HeldKept
  <2>. QED BY <1>2, <2>1 DEF OnRoute, Taken
<1>3. ASSUME NEW x \in Item, NEW w \in Worker, Leaves(x, w)
      PROVE  i \in DOMAIN route' /\ route'[i] = v
  <2>1. i \in Waiting(v) \cup Held(v) \cup Outcomes(v)
    BY <1>3, EffectSets DEF Leaves, HeldKept
  <2>. QED BY <1>3, <2>1 DEF OnRoute, Leaves
<1>4. CASE NothingMoves
  <2>1. i \in Waiting(v) \cup Held(v) \cup Outcomes(v)
    BY <1>4, EffectSets DEF NothingMoves, HeldKept
  <2>. QED BY <1>4, <2>1 DEF OnRoute, NothingMoves
<1>. QED BY <1>1, <1>2, <1>3, <1>4, Effects

\* What is recorded is older than what is in hand, which is older than what
\* waits.
Ages ==
  \A w \in Worker :
    /\ \A i \in Outcomes(w), j \in Held(w) \cup Waiting(w) : i < j
    /\ \A i \in Held(w), j \in Waiting(w) : i < j
    /\ Increasing(queues[w].items)

LEMMA AgesStep ==
  Core /\ Core' /\ OnRoute /\ Ages /\ [Next]_vars => Ages'
<1>. SUFFICES ASSUME Core, Core', OnRoute, Ages, [Next]_vars PROVE Ages'
  OBVIOUS
<1>0. \A w \in Worker : queues[w].items \in Seq(Item) /\ Held(w) \subseteq Item
  BY DEF Core, TypeOK, Queue, Held
<1>a. \A v \in Worker : QueueKept(v) => Increasing(queues[v].items)'
  BY DEF Ages, QueueKept, Increasing
<1>1. ASSUME NEW j \in Item, NEW w \in Worker, Joins(j, w) PROVE Ages'
  <2>1. \A i \in Waiting(w) \cup Held(w) \cup Outcomes(w) : i < j
    BY <1>1 DEF OnRoute, Joins
  <2>2. Increasing(Append(queues[w].items, j))
    BY <1>0, <2>1, IncreasingAppend DEF Ages, Waiting
  <2>3. \A v \in Worker : Increasing(queues[v].items)'
    BY <1>1, <1>a, <2>2 DEF Joins, Increasing
  <2>0. /\ Waiting(w)' = Waiting(w) \cup {j}
        /\ \A u \in Worker : /\ u # w => Waiting(u)' = Waiting(u)
                             /\ Outcomes(u)' = Outcomes(u) /\ Held(u)' = Held(u)
    <3>1. \A u \in Worker : Held(u)' = Held(u)
      BY <1>1 DEF Joins, HeldKept
    <3>. QED BY <1>1, <3>1, EffectSets
  <2>. QED BY <2>0, <2>1, <2>3 DEF Ages
<1>2. ASSUME NEW w \in Worker, Taken(w) PROVE Ages'
  <2>1. /\ Increasing(Tail(queues[w].items))
        /\ \A e \in Elements(Tail(queues[w].items)) : Head(queues[w].items) < e
    BY <1>0, <1>2, IncreasingTail DEF Ages, Taken
  <2>2. Waiting(w)' = Elements(Tail(queues[w].items))
    BY <1>2 DEF Taken, Waiting, Elements
  <2>3. \A i \in Held(w)', j \in Waiting(w)' : i < j
    BY <1>2, <2>1, <2>2 DEF Taken
  <2>4. \A v \in Worker : Increasing(queues[v].items)'
    BY <1>2, <1>a, <2>1 DEF Taken, Increasing
  <2>5. \A i \in Outcomes(w)', j \in Held(w)' \cup Waiting(w)' : i < j
    BY <1>2, EffectSets DEF Ages
  <2>6. \A v \in Worker : v # w =>
          Outcomes(v)' = Outcomes(v) /\ Held(v)' = Held(v) /\ Waiting(v)' = Waiting(v)
    BY <1>2, EffectSets DEF Taken, HeldKept
  <2>. QED BY <2>3, <2>4, <2>5, <2>6 DEF Ages
<1>3. ASSUME NEW x \in Item, NEW w \in Worker, Leaves(x, w) PROVE Ages'
  <2>1. \A v \in Worker : Increasing(queues[v].items)'
    BY <1>3, <1>a DEF Leaves
  <2>2. /\ Outcomes(w)' = Outcomes(w) \cup {x} /\ Waiting(w)' = Waiting(w)
        /\ Held(w) = {x} /\ Held(w)' = {}
    BY <1>3, EffectSets DEF Leaves
  <2>3. \A v \in Worker : v # w =>
          Outcomes(v)' = Outcomes(v) /\ Held(v)' = Held(v) /\ Waiting(v)' = Waiting(v)
    BY <1>3, EffectSets DEF Leaves, HeldKept
  <2>4. \A i \in Outcomes(w)', j \in Waiting(w)' : i < j
    BY <2>2 DEF Ages
  <2>. QED BY <2>1, <2>2, <2>3, <2>4 DEF Ages
<1>4. CASE NothingMoves
  <2>1. \A v \in Worker :
          Outcomes(v)' = Outcomes(v) /\ Held(v)' = Held(v) /\ Waiting(v)' = Waiting(v)
    BY <1>4, EffectSets DEF NothingMoves, HeldKept
  <2>2. \A v \in Worker : Increasing(queues[v].items)'
    BY <1>4, <1>a DEF NothingMoves
  <2>. QED BY <2>1, <2>2 DEF Ages
<1>. QED BY <1>1, <1>2, <1>3, <1>4, Effects

\* Neither list of outcomes repeats an item or disturbs the order, and no item
\* is in both.
ListsInOrder ==
  \A w \in Worker :
    /\ Increasing(results[w]) /\ Increasing(failures[w])
    /\ Elements(results[w]) \cap Elements(failures[w]) = {}

LEMMA ListsStep ==
  Core /\ Core' /\ Ages /\ ListsInOrder /\ [Next]_vars => ListsInOrder'
<1>. SUFFICES ASSUME Core, Ages, ListsInOrder, [Next]_vars PROVE ListsInOrder'
  OBVIOUS
<1>1. ASSUME UNCHANGED <<results, failures>> PROVE ListsInOrder'
  BY <1>1 DEF ListsInOrder
<1>2. ASSUME NEW x \in Item, NEW w \in Worker, Leaves(x, w) PROVE ListsInOrder'
  <2>1. /\ results[w] \in Seq(Item) /\ failures[w] \in Seq(Item)
        /\ \A e \in Elements(results[w]) \cup Elements(failures[w]) : e < x
    BY <1>2 DEF Leaves, Ages, Core, TypeOK, Outcomes
  <2>2. /\ Elements(Append(results[w], x)) = Elements(results[w]) \cup {x}
        /\ Elements(Append(failures[w], x)) = Elements(failures[w]) \cup {x}
        /\ Increasing(Append(results[w], x)) /\ Increasing(Append(failures[w], x))
    BY <2>1, ElementsOfAppend, IncreasingAppend DEF ListsInOrder
  <2>3. x \notin Elements(results[w]) \cup Elements(failures[w])
    BY <2>1 DEF Item
  <2>4. CASE results' = [results EXCEPT ![w] = Append(@, x)] /\ UNCHANGED failures
    <3>1. /\ results'[w] = Append(results[w], x)
          /\ \A v \in Worker : v # w => results'[v] = results[v]
      BY <2>4 DEF Core, TypeOK
    <3>. QED BY <2>2, <2>3, <2>4, <3>1 DEF ListsInOrder
  <2>5. CASE failures' = [failures EXCEPT ![w] = Append(@, x)] /\ UNCHANGED results
    <3>1. /\ failures'[w] = Append(failures[w], x)
          /\ \A v \in Worker : v # w => failures'[v] = failures[v]
      BY <2>5 DEF Core, TypeOK
    <3>. QED BY <2>2, <2>3, <2>5, <3>1 DEF ListsInOrder
  <2>. QED BY <1>2, <2>4, <2>5 DEF Leaves
<1>. QED BY <1>1, <1>2, Effects DEF Joins, Taken, NothingMoves

\* Every submitted item is somewhere.
SomewhereOnRoute ==
  \A i \in DOMAIN route, w \in Worker :
    route[i] = w => i \in Waiting(w) \cup Held(w) \cup Outcomes(w)

LEMMA SomewhereStep ==
  Core /\ Core' /\ SomewhereOnRoute /\ [Next]_vars => SomewhereOnRoute'
<1>. SUFFICES ASSUME Core, Core', SomewhereOnRoute, [Next]_vars,
                     NEW i \in DOMAIN route', NEW v \in Worker, route'[i] = v
              PROVE  i \in Waiting(v)' \cup Held(v)' \cup Outcomes(v)'
  BY DEF SomewhereOnRoute
<1>1. ASSUME NEW j \in Item, NEW w \in Worker, Joins(j, w)
      PROVE  i \in Waiting(v)' \cup Held(v)' \cup Outcomes(v)'
  <2>0. /\ Waiting(w)' = Waiting(w) \cup {j}
        /\ \A u \in Worker : /\ u # w => Waiting(u)' = Waiting(u)
                             /\ Outcomes(u)' = Outcomes(u) /\ Held(u)' = Held(u)
    <3>1. \A u \in Worker : Held(u)' = Held(u)
      BY <1>1 DEF Joins, HeldKept
    <3>. QED BY <1>1, <3>1, EffectSets
  <2>1. CASE i = j
    BY <1>1, <2>0, <2>1 DEF Joins
  <2>2. CASE i # j
    <3>1. i \in DOMAIN route /\ route[i] = v
      BY <1>1, <2>2 DEF Joins
    <3>. QED BY <2>0, <3>1 DEF SomewhereOnRoute
  <2>. QED BY <2>1, <2>2
<1>2. ASSUME route' = route PROVE i \in Waiting(v) \cup Held(v) \cup Outcomes(v)
  BY <1>2 DEF SomewhereOnRoute
<1>3. ASSUME NEW w \in Worker, Taken(w)
      PROVE  i \in Waiting(v)' \cup Held(v)' \cup Outcomes(v)'
  <2>1. i \in Waiting(v) \cup Held(v) \cup Outcomes(v)
    BY <1>2, <1>3 DEF Taken
  <2>2. /\ Waiting(w) = Held(w)' \cup Waiting(w)' /\ Held(w) = {}
        /\ \A u \in Worker : /\ u # w => Waiting(u)' = Waiting(u)
                             /\ Outcomes(u)' = Outcomes(u)
    BY <1>3, EffectSets
  <2>3. \A u \in Worker : u # w => Held(u)' = Held(u)
    BY <1>3 DEF Taken, HeldKept
  <2>. QED BY <2>1, <2>2, <2>3
<1>4. ASSUME NEW x \in Item, NEW w \in Worker, Leaves(x, w)
      PROVE  i \in Waiting(v)' \cup Held(v)' \cup Outcomes(v)'
  <2>1. i \in Waiting(v) \cup Held(v) \cup Outcomes(v)
    BY <1>2, <1>4 DEF Leaves
  <2>2. /\ Outcomes(w)' = Outcomes(w) \cup {x} /\ Held(w) = {x}
        /\ \A u \in Worker : /\ u # w => Outcomes(u)' = Outcomes(u)
                             /\ Waiting(u)' = Waiting(u)
    BY <1>4, EffectSets DEF Leaves
  <2>3. \A u \in Worker : u # w => Held(u)' = Held(u)
    BY <1>4 DEF Leaves, HeldKept
  <2>. QED BY <2>1, <2>2, <2>3
<1>5. ASSUME NothingMoves PROVE i \in Waiting(v)' \cup Held(v)' \cup Outcomes(v)'
  <2>1. i \in Waiting(v) \cup Held(v) \cup Outcomes(v)
    BY <1>2, <1>5 DEF NothingMoves
  <2>2. \A u \in Worker : /\ Waiting(u)' = Waiting(u) /\ Outcomes(u)' = Outcomes(u)
                          /\ Held(u)' = Held(u)
    BY <1>5, EffectSets DEF NothingMoves, HeldKept
  <2>. QED BY <2>1, <2>2
<1>. QED BY <1>1, <1>3, <1>4, <1>5, Effects
Places == OnRoute /\ Ages /\ ListsInOrder /\ SomewhereOnRoute

LEMMA PlacesInit == Init => Places
<1>. SUFFICES ASSUME Init PROVE Places
  OBVIOUS
<1>1. \A w \in Worker : Waiting(w) = {} /\ Held(w) = {} /\ Outcomes(w) = {}
  BY ElementsOfEmpty DEF Init, Waiting, Held, InHand, Outcomes, Empty
<1>2. DOMAIN route = {}
  BY DEF Init
<1>3. \A w \in Worker : queues[w].items = <<>> /\ results[w] = <<>> /\ failures[w] = <<>>
  BY DEF Init, Empty
<1>4. Increasing(<<>>)
  BY DEF Increasing
<1>. QED BY <1>1, <1>2, <1>3, <1>4, ElementsOfEmpty
         DEF Places, OnRoute, Ages, ListsInOrder, SomewhereOnRoute

LEMMA PlacesInvariant == Spec => [](Core /\ Places)
<1>1. Core /\ Places /\ [Next]_vars => (Core /\ Places)'
  BY CoreStep, RouteStep, AgesStep, ListsStep, SomewhereStep DEF Places
<1>. QED BY <1>1, CoreInit, PlacesInit, PTL DEF Spec

\* A worker deals with its items in the order of their submission, and with
\* each of them once (thread_safe_queue.py is first in, first out; worker.py
\* takes one item at a time).
THEOREM SubmissionOrder == Spec => []InSubmissionOrder
<1>1. Core /\ Places => InSubmissionOrder
  <2>. SUFFICES ASSUME Core, Places PROVE InSubmissionOrder
    OBVIOUS
  <2>. QED BY DEF Places, Ages, ListsInOrder, InSubmissionOrder, Outcomes, Held, Waiting
<1>. QED BY <1>1, PlacesInvariant, PTL

\* A submitted item is in exactly one of the queue, the hand and the outcomes
\* of the worker submit() chose (worker.py: an exception costs the item an
\* error, never its task_done).
THEOREM NothingLost == Spec => []NoItemIsLost
<1>1. Core /\ Places => NoItemIsLost
  <2>. SUFFICES ASSUME Core, Places, NEW i \in DOMAIN route, NEW w \in Worker, w = route[i]
                PROVE  \/ i \in Waiting(w) /\ ~InHand(i, w) /\ ~Recorded(i, w)
                       \/ i \notin Waiting(w) /\ InHand(i, w) /\ ~Recorded(i, w)
                       \/ i \notin Waiting(w) /\ ~InHand(i, w) /\ Recorded(i, w)
    BY DEF NoItemIsLost, Waiting, Core, TypeOK
  <2>1. i \in Item
    BY DEF Core, TypeOK
  <2>2. Recorded(i, w) <=> i \in Outcomes(w)
    BY DEF Recorded, Outcomes
  <2>3. InHand(i, w) <=> i \in Held(w)
    BY <2>1 DEF Held
  <2>4. i \in Waiting(w) \cup Held(w) \cup Outcomes(w)
    BY DEF Places, SomewhereOnRoute
  <2>5. ~(i < i)
    BY <2>1 DEF Item
  <2>6. /\ i \in Outcomes(w) => i \notin Held(w) \cup Waiting(w)
        /\ i \in Held(w) => i \notin Waiting(w)
    BY <2>5 DEF Places, Ages
  <2>. QED BY <2>2, <2>3, <2>4, <2>6
<1>. QED BY <1>1, PlacesInvariant, PTL

-----------------------------------------------------------------------------
(* What the client reads.                                                  *)

Reads == CountersAgree /\ CollectedIsCurrent

LEMMA ReadsStep == Core /\ Reads /\ [Next]_vars => Reads'
<1>. SUFFICES ASSUME Core, Reads, [Next]_vars PROVE Reads'
  OBVIOUS
<1>0. \A w \in Worker : results[w] \in Seq(Item) /\ processed[w] \in Nat
  BY DEF Core, TypeOK
<1>1. CASE Start \/ (\E i \in Item, w \in Worker : Submit(i, w)) \/ AllSubmitted
           \/ Raise \/ WaitForQueue
  <2>1. /\ UNCHANGED <<results, processed, failures, got_stats, got_results, got_errors>>
        /\ main' \notin Drained \ {"stats"}
    BY <1>1 DEF Start, Submit, AllSubmitted, Raise, WaitForQueue, NextWorker, threads,
                got, Drained
  <2>2. \A w \in Worker : at'[w] = "count" <=> at[w] = "count"
    <3>1. CASE Start
      <4>1. idx \in Worker /\ at[idx] = "new"
        BY <3>1 DEF Start, Core, TypeOK, PhasesAgree, Worker
      <4>. QED BY <3>1, <4>1 DEF Start, Core, TypeOK
    <3>2. CASE UNCHANGED at
      BY <3>2
    <3>. QED BY <1>1, <3>1, <3>2 DEF Submit, AllSubmitted, Raise, WaitForQueue, threads
  <2>3. CountersAgree'
    BY <2>1, <2>2 DEF Reads, CountersAgree
  <2>. QED BY <2>1, <2>3 DEF Reads, CollectedIsCurrent, Drained
<1>2. CASE GetWorkerStats \/ GetResults \/ GetErrorStats \/ Stop \/ Join
  <2>1. UNCHANGED <<at, results, processed, failures>>
    BY <1>2 DEF GetWorkerStats, GetResults, GetErrorStats, Stop, Join, threads
  <2>2. CountersAgree'
    BY <2>1 DEF Reads, CountersAgree
  <2>3. CollectedIsCurrent'
    BY <1>2, <2>1 DEF GetWorkerStats, GetResults, GetErrorStats, Stop, Join, NextWorker,
                      got, Reads, CollectedIsCurrent, Drained
  <2>. QED BY <2>2, <2>3 DEF Reads
<1>3. ASSUME NEW w \in Worker, CheckStop(w) \/ Pop(w) \/ PopTimeout(w)
               \/ ProcessorReturns(w) \/ ProcessorRaises(w) \/ TaskDone(w)
      PROVE  Reads'
  <2>1. UNCHANGED <<main, results, processed, failures, got_stats, got_results, got_errors>>
    BY <1>3 DEF CheckStop, Pop, PopTimeout, ProcessorReturns, ProcessorRaises, TaskDone,
                client, got
  <2>2. \A v \in Worker : at'[v] = "count" <=> at[v] = "count"
    BY <1>3 DEF CheckStop, Pop, PopTimeout, ProcessorReturns, ProcessorRaises, TaskDone,
                Goto, Core, TypeOK
  <2>3. CountersAgree'
    BY <2>1, <2>2 DEF Reads, CountersAgree
  <2>. QED BY <2>1, <2>3 DEF Reads, CollectedIsCurrent
<1>4. ASSUME NEW w \in Worker, AppendResult(w) \/ CountProcessed(w) \/ CountError(w)
      PROVE  Reads'
  <2>1. at[w] \in Busy /\ UNCHANGED main
    BY <1>4 DEF AppendResult, CountProcessed, CountError, Goto, Busy, client
  <2>2. main \notin Drained
    BY <2>1, DrainedIsIdle
  <2>3. ASSUME AppendResult(w) PROVE CountersAgree'
    <3>1. /\ UNCHANGED processed /\ at[w] = "append"
          /\ at' = [at EXCEPT ![w] = "count"]
          /\ results' = [results EXCEPT ![w] = Append(@, hand[w])]
      BY <2>3 DEF AppendResult, Goto
    <3>2. Len(results'[w]) = Len(results[w]) + 1
      BY <1>0, <3>1 DEF Core, TypeOK, Busy
    <3>3. Len(results[w]) = processed[w]
      BY <1>0, <3>1 DEF Reads, CountersAgree
    <3>4. at'[w] = "count" /\ processed'[w] = processed[w]
      BY <3>1 DEF Core, TypeOK
    <3>5. \A v \in Worker : v # w =>
            at'[v] = at[v] /\ results'[v] = results[v] /\ processed'[v] = processed[v]
      BY <3>1 DEF Core, TypeOK
    <3>. QED BY <3>2, <3>3, <3>4, <3>5 DEF Reads, CountersAgree
  <2>4. ASSUME CountProcessed(w) PROVE CountersAgree'
    <3>1. /\ UNCHANGED results /\ at[w] = "count"
          /\ at' = [at EXCEPT ![w] = "task_done"]
          /\ processed' = [processed EXCEPT ![w] = @ + 1]
      BY <2>4 DEF CountProcessed, Goto
    <3>3. Len(results[w]) = processed[w] + 1
      BY <3>1 DEF Reads, CountersAgree
    <3>4. at'[w] = "task_done" /\ processed'[w] = processed[w] + 1 /\ processed'[w] \in Nat
      BY <1>0, <3>1 DEF Core, TypeOK
    <3>5. \A v \in Worker : v # w =>
            at'[v] = at[v] /\ results'[v] = results[v] /\ processed'[v] = processed[v]
      BY <3>1 DEF Core, TypeOK
    <3>. QED BY <3>1, <3>3, <3>4, <3>5 DEF Reads, CountersAgree
  <2>5. ASSUME CountError(w) PROVE CountersAgree'
    <3>1. /\ UNCHANGED <<results, processed>> /\ at[w] = "error"
          /\ at' = [at EXCEPT ![w] = "task_done"]
      BY <2>5 DEF CountError, Goto
    <3>2. \A v \in Worker : at'[v] = "count" <=> at[v] = "count"
      BY <3>1 DEF Core, TypeOK
    <3>. QED BY <3>1, <3>2 DEF Reads, CountersAgree
  <2>6. CountersAgree'
    BY <1>4, <2>3, <2>4, <2>5
  <2>. QED BY <2>1, <2>2, <2>6 DEF Reads, CollectedIsCurrent
<1>5. CASE UNCHANGED vars
  BY <1>5 DEF vars, client, got, threads, Reads, CountersAgree, CollectedIsCurrent
<1>6. CASE ClientStep \/ Raise \/ Finished
  BY <1>1, <1>2, <1>5, <1>6 DEF ClientStep, Finished
<1>7. ASSUME NEW w \in Worker, WorkerStep(w) PROVE Reads'
  BY <1>3, <1>4, <1>7 DEF WorkerStep
<1>. QED BY <1>5, <1>6, <1>7 DEF Next

LEMMA ReadsInit == Init => Reads
<1>. SUFFICES ASSUME Init PROVE Reads
  OBVIOUS
<1>1. \A w \in Worker : at[w] = "new" /\ results[w] = <<>> /\ processed[w] = 0
  BY DEF Init
<1>. QED BY <1>1 DEF Init, Reads, CountersAgree, CollectedIsCurrent, Drained

\* What the client reads after wait_until_empty() accounts for every submitted
\* item and is never outdated by a worker that still runs (pipeline.py reads
\* the statistics, the results and the errors before it stops the pool).
THEOREM ReadsFinal == Spec => []ReadsAreFinal
<1>1. Core /\ Reads /\ [Next]_vars => (Core /\ Reads)'
  BY CoreStep, ReadsStep
<1>2. Spec => [](Core /\ Reads)
  BY <1>1, CoreInit, ReadsInit, PTL DEF Spec
<1>3. Core /\ Places /\ Reads => ReadsAreFinal
  <2>. SUFFICES ASSUME Core, Places, Reads, main \in Drained
                PROVE  ReadsAreFinal
    BY DEF ReadsAreFinal
  <2>1. ASSUME NEW i \in DOMAIN route, NEW w \in Worker, route[i] = w
        PROVE  Recorded(i, w)
    <3>1. at[w] \notin Busy /\ queues[w].items = <<>>
      BY DrainedIsIdle
    <3>2. Waiting(w) = {} /\ Held(w) = {}
      BY <3>1, ElementsOfEmpty DEF Waiting, Held, InHand, Busy
    <3>. QED BY <2>1, <3>2 DEF Places, SomewhereOnRoute, Recorded, Outcomes
  <2>2. ASSUME NEW w \in Worker PROVE processed[w] = Len(results[w])
    <3>1. at[w] # "count"
      BY DrainedIsIdle DEF Busy
    <3>. QED BY <3>1 DEF Reads, CountersAgree, Core, TypeOK
  <2>3. \A i \in DOMAIN route : Recorded(i, route[i])
    BY <2>1 DEF Core, TypeOK
  <2>4. /\ main # "stats" => got_stats = processed
        /\ main \notin {"stats", "results"} => got_results = results
        /\ main \notin {"stats", "results", "errors"} =>
             got_errors = [w \in {v \in Worker : failures[v] # <<>>} |-> Len(failures[w])]
    BY DEF Reads, CollectedIsCurrent
  <2>. QED BY <2>2, <2>3, <2>4 DEF ReadsAreFinal
<1>. QED BY <1>2, <1>3, PlacesInvariant, PTL
=============================================================================
