----------------------------- MODULE WorkerPool -----------------------------
(***************************************************************************)
(* src/src/v2/worker_pool.py and src/src/v2/worker.py: one client thread   *)
(* and worker_count worker threads, each with a queue of its own.          *)
(*                                                                         *)
(* The client uses the pool the way V2Pipeline.run and the tests do:       *)
(* start, submit any number of items, wait_until_empty, read the           *)
(* statistics, the results and the errors, stop, join.  An exception in    *)
(* the client before stop() is the step Raise.                             *)
(*                                                                         *)
(* Items are numbered by the client in the order in which it meets them; a *)
(* number the client skips is never submitted.  What the processor does    *)
(* with an item is left open here: it returns or raises.                   *)
(***************************************************************************)
EXTENDS Integers, Sequences, ThreadSafeQueue

CONSTANTS worker_count,   \* WorkerPool(worker_count)
          MaxItems        \* bound: the client submits items 1..MaxItems at most

\* worker_pool.py raises ValueError unless worker_count is positive.
ASSUME PoolAssumption == /\ worker_count \in Nat \ {0}
                         /\ MaxItems \in Nat

Worker == 0 .. worker_count - 1
Item   == 1 .. MaxItems

VARIABLES
  main,       \* where the client thread is
  idx,        \* the worker its current loop over the workers has reached
  route,      \* submitted item |-> the worker id submit() returned
  queues,     \* worker |-> its ThreadSafeQueue
  stop_event, \* worker |-> DPIWorker._stop_event
  at,         \* worker |-> where its thread is
  hand,       \* worker |-> the local variable item; 0 before the first pop
  results,    \* worker |-> DPIWorker._results
  processed,  \* worker |-> DPIWorker._processed_count
  failures,   \* worker |-> the items whose processing raised: _error_count is
              \*            its length, _last_error belongs to its last element
  got_stats, got_results, got_errors  \* what the client read from the pool

got     == <<got_stats, got_results, got_errors>>
client  == <<main, idx, route, got>>
threads == <<at, hand, results, processed, failures>>
vars    == <<client, queues, stop_event, threads>>

ClientAt == {"start", "submit", "wait", "stats", "results", "errors",
             "stop", "join", "done", "raised"}
ThreadAt == {"new", "loop", "pop", "process", "append", "count", "error",
             "task_done", "exited"}

\* Between pop() and task_done() the worker has an item in hand.
Busy == {"process", "append", "count", "error", "task_done"}

Init ==
  /\ main = "start" /\ idx = 0
  /\ route = <<>>
  /\ got_stats = <<>> /\ got_results = <<>> /\ got_errors = <<>>
  /\ queues     = [w \in Worker |-> Empty]
  /\ stop_event = [w \in Worker |-> FALSE]
  /\ at         = [w \in Worker |-> "new"]
  /\ hand       = [w \in Worker |-> 0]
  /\ results    = [w \in Worker |-> <<>>]
  /\ processed  = [w \in Worker |-> 0]
  /\ failures   = [w \in Worker |-> <<>>]

-----------------------------------------------------------------------------
(* The client's thread.                                                    *)

\* A loop of the client over the workers goes on, or ends in the phase next.
NextWorker(next) ==
  IF idx = worker_count - 1 THEN main' = next /\ idx' = 0
                            ELSE idx' = idx + 1 /\ UNCHANGED main

\* start(): worker idx's thread begins to run.
Start ==
  /\ main = "start"
  /\ at' = [at EXCEPT ![idx] = "loop"]
  /\ NextWorker("submit")
  /\ UNCHANGED <<route, got, queues, stop_event,
                 hand, results, processed, failures>>

\* submit(): the balancer's choice w, then push on that worker's queue.
Submit(i, w) ==
  /\ main = "submit"
  /\ \A j \in DOMAIN route : j < i
  /\ queues' = [queues EXCEPT ![w] = push(@, i)]
  /\ route' = [j \in DOMAIN route \cup {i} |-> IF j = i THEN w ELSE route[j]]
  /\ UNCHANGED <<main, idx, got, stop_event, threads>>

\* Mutant: the client forgets to wait.
AllSubmittedNoWait ==
  /\ main = "submit" /\ main' = "stop"
  /\ UNCHANGED <<idx, route, got, queues, stop_event, threads>>

\* The client has nothing more to submit and calls wait_until_empty().
AllSubmitted ==
  /\ main = "submit" /\ main' = "wait"
  /\ UNCHANGED <<idx, route, got, queues, stop_event, threads>>

\* wait_until_empty(): queue.join() on one queue after the other.
WaitForQueue ==
  /\ main = "wait" /\ joined(queues[idx])
  /\ NextWorker("stats")
  /\ UNCHANGED <<route, got, queues, stop_event, threads>>

\* get_worker_stats()
GetWorkerStats ==
  /\ main = "stats" /\ main' = "results"
  /\ got_stats' = processed
  /\ UNCHANGED <<idx, route, got_results, got_errors, queues, stop_event, threads>>

\* get_results(): one worker's results after the other's.
GetResults ==
  /\ main = "results" /\ main' = "errors"
  /\ got_results' = results
  /\ UNCHANGED <<idx, route, got_stats, got_errors, queues, stop_event, threads>>

\* get_error_stats(): the count of each worker that saw an error.
GetErrorStats ==
  /\ main = "errors" /\ main' = "stop"
  /\ got_errors' = [w \in {v \in Worker : failures[v] # <<>>} |-> Len(failures[w])]
  /\ UNCHANGED <<idx, route, got_stats, got_results, queues, stop_event, threads>>

\* stop(): set worker idx's stop event.
Stop ==
  /\ main = "stop"
  /\ stop_event' = [stop_event EXCEPT ![idx] = TRUE]
  /\ NextWorker("join")
  /\ UNCHANGED <<route, got, queues, threads>>

\* join(): wait for worker idx's thread to end.
Join ==
  /\ main = "join" /\ at[idx] = "exited"
  /\ NextWorker("done")
  /\ UNCHANGED <<route, got, queues, stop_event, threads>>

\* An exception leaves the client's loop over its items.  Nothing catches it
\* and nothing calls stop(): the client thread is over.
Raise ==
  /\ main = "submit" /\ main' = "raised"
  /\ UNCHANGED <<idx, route, got, queues, stop_event, threads>>

-----------------------------------------------------------------------------
(* A worker's thread: DPIWorker._run.                                      *)

Goto(w, from, to) == at[w] = from /\ at' = [at EXCEPT ![w] = to]

\* Mutant: while True.
CheckStopNever(w) ==
  /\ Goto(w, "loop", "pop")
  /\ UNCHANGED <<client, queues, stop_event, hand, results, processed, failures>>

\* while not self._stop_event.is_set()
CheckStop(w) ==
  /\ Goto(w, "loop", IF stop_event[w] THEN "exited" ELSE "pop")
  /\ UNCHANGED <<client, queues, stop_event, hand, results, processed, failures>>

Pop(w) ==
  /\ Goto(w, "pop", "process")
  /\ ~empty(queues[w])
  /\ hand' = [hand EXCEPT ![w] = oldest(queues[w])]
  /\ queues' = [queues EXCEPT ![w] = pop(@)]
  /\ UNCHANGED <<client, stop_event, results, processed, failures>>

\* pop(timeout=0.1) on an empty queue raises queue.Empty: continue
PopTimeout(w) ==
  /\ Goto(w, "pop", "loop")
  /\ empty(queues[w])
  /\ UNCHANGED <<client, queues, stop_event, hand, results, processed, failures>>

\* result = self.processor(item)
ProcessorReturns(w) ==
  /\ Goto(w, "process", "append")
  /\ UNCHANGED <<client, queues, stop_event, hand, results, processed, failures>>

ProcessorRaises(w) ==
  /\ Goto(w, "process", "error")
  /\ UNCHANGED <<client, queues, stop_event, hand, results, processed, failures>>

\* self._results.append(result)
AppendResult(w) ==
  /\ Goto(w, "append", "count")
  /\ results' = [results EXCEPT ![w] = Append(@, hand[w])]
  /\ UNCHANGED <<client, queues, stop_event, hand, processed, failures>>

\* self._processed_count += 1
CountProcessed(w) ==
  /\ Goto(w, "count", "task_done")
  /\ processed' = [processed EXCEPT ![w] = @ + 1]
  /\ UNCHANGED <<client, queues, stop_event, hand, results, failures>>

\* Mutants: task_done() not in a finally; no except; except: pass.
CountErrorSkipsDone(w) ==
  /\ Goto(w, "error", "loop")
  /\ failures' = [failures EXCEPT ![w] = Append(@, hand[w])]
  /\ UNCHANGED <<client, queues, stop_event, hand, results, processed>>

CountErrorKillsThread(w) ==
  /\ Goto(w, "error", "exited")
  /\ queues' = [queues EXCEPT ![w] = task_done(@)]
  /\ UNCHANGED <<client, stop_event, hand, results, processed, failures>>

CountErrorForgets(w) ==
  /\ Goto(w, "error", "task_done")
  /\ UNCHANGED <<client, queues, stop_event, hand, results, processed, failures>>

\* except Exception as error
CountError(w) ==
  /\ Goto(w, "error", "task_done")
  /\ failures' = [failures EXCEPT ![w] = Append(@, hand[w])]
  /\ UNCHANGED <<client, queues, stop_event, hand, results, processed>>

\* finally: self.queue.task_done()
TaskDone(w) ==
  /\ Goto(w, "task_done", "loop")
  /\ queues' = [queues EXCEPT ![w] = task_done(@)]
  /\ UNCHANGED <<client, stop_event, hand, results, processed, failures>>

-----------------------------------------------------------------------------
ClientStep ==
  \/ Start
  \/ \E i \in Item, w \in Worker : Submit(i, w)
  \/ AllSubmitted
  \/ WaitForQueue
  \/ GetWorkerStats
  \/ GetResults
  \/ GetErrorStats
  \/ Stop
  \/ Join

WorkerStep(w) ==
  \/ CheckStop(w)
  \/ Pop(w)
  \/ PopTimeout(w)
  \/ ProcessorReturns(w)
  \/ ProcessorRaises(w)
  \/ AppendResult(w)
  \/ CountProcessed(w)
  \/ CountError(w)
  \/ TaskDone(w)

\* join() has returned for every worker: no thread is left to take a step.
Finished == main = "done" /\ UNCHANGED vars

Next == ClientStep \/ Raise \/ (\E w \in Worker : WorkerStep(w)) \/ Finished

Spec == Init /\ [][Next]_vars

\* Every thread that can run is scheduled again and again (the interpreter
\* hands its lock round), a blocked get() or join() returns once what it waits
\* for is there, and the processor returns or raises.  The client is finite:
\* it stops submitting.  Nothing says that it ever raises.
Fairness == /\ WF_vars(ClientStep)
            /\ \A w \in Worker : WF_vars(WorkerStep(w))

FairSpec == Spec /\ Fairness
-----------------------------------------------------------------------------
(* What the pool promises.                                                 *)

Elements(s) == {s[k] : k \in 1 .. Len(s)}

Increasing(s) == \A j, k \in 1 .. Len(s) : j < k => s[j] < s[k]

\* The client is past wait_until_empty().
Drained == {"stats", "results", "errors", "stop", "join", "done"}

\* Every variable stays in its type.
TypeOK ==
  /\ main \in ClientAt
  /\ idx \in Worker
  /\ DOMAIN route \subseteq Item
  /\ \A i \in DOMAIN route : route[i] \in Worker
  /\ queues \in [Worker -> Queue(Item)]
  /\ stop_event \in [Worker -> BOOLEAN]
  /\ at \in [Worker -> ThreadAt]
  /\ hand \in [Worker -> Item \cup {0}]
  /\ \A w \in Worker : at[w] \in Busy => hand[w] \in Item
  /\ results \in [Worker -> Seq(Item)]
  /\ processed \in [Worker -> Nat]
  /\ failures \in [Worker -> Seq(Item)]

\* The count join() waits on is exact at every moment: an item is unfinished
\* from its put() until the task_done() of the thread that took it, whether
\* the processor returned or raised.  So task_done() is never called once too
\* often (queue.Queue would raise and the worker would die of it) and join()
\* never returns while a worker still has an item in hand.
UnfinishedIsExact ==
  \A w \in Worker :
    queues[w].unfinished = Len(queues[w].items) + (IF at[w] \in Busy THEN 1 ELSE 0)

\* An item whose outcome the worker has recorded.
Recorded(i, w) == i \in Elements(results[w]) \cup Elements(failures[w])

\* An item is in hand and its outcome is not yet recorded.
InHand(i, w) == at[w] \in {"process", "append", "error"} /\ hand[w] = i

\* No item is lost on the way: a submitted item waits in the queue of the
\* worker it was routed to, or that worker has it in hand, or has recorded its
\* result or its error, and it is in one of these places only.
NoItemIsLost ==
  \A i \in DOMAIN route :
    LET w == route[i]
        waits == i \in Elements(queues[w].items)
    IN  \/ waits /\ ~InHand(i, w) /\ ~Recorded(i, w)
        \/ ~waits /\ InHand(i, w) /\ ~Recorded(i, w)
        \/ ~waits /\ ~InHand(i, w) /\ Recorded(i, w)

\* One worker deals with its items in the order of their submission: what is
\* recorded is older than what is in hand, which is older than what waits.  No
\* item is recorded twice.
InSubmissionOrder ==
  \A w \in Worker :
    LET older == Elements(results[w]) \cup Elements(failures[w])
        in_hand == {i \in Item : InHand(i, w)}
    IN  /\ Increasing(results[w]) /\ Increasing(failures[w])
        /\ Elements(results[w]) \cap Elements(failures[w]) = {}
        /\ Increasing(queues[w].items)
        /\ \A i \in older, j \in in_hand \cup Elements(queues[w].items) : i < j
        /\ \A i \in in_hand, j \in Elements(queues[w].items) : i < j

\* What the client reads after wait_until_empty() is final and complete, though
\* the workers still run and no lock guards the reads: every submitted item has
\* its outcome, the counters agree with the lists, and nothing changes later.
ReadsAreFinal ==
  main \in Drained =>
    /\ \A i \in DOMAIN route : Recorded(i, route[i])
    /\ \A w \in Worker : processed[w] = Len(results[w])
    /\ main # "stats" => got_stats = processed
    /\ main \notin {"stats", "results"} => got_results = results
    /\ main \notin {"stats", "results", "errors"} =>
         \A w \in Worker :
           IF failures[w] = <<>> THEN w \notin DOMAIN got_errors
                                 ELSE got_errors[w] = Len(failures[w])

\* stop() is called after the queues are drained, so no thread ends with an
\* item waiting or in hand.
NothingIsStranded ==
  \A w \in Worker : at[w] = "exited" => queues[w] = Empty

\* Liveness: every submitted item gets its outcome, even when the client's
\* thread dies of an exception right after submitting it.
EveryItemIsHandled ==
  \A i \in Item : (i \in DOMAIN route) ~> (i \in DOMAIN route /\ Recorded(i, route[i]))

\* Liveness: unless the client raises, wait_until_empty() and join() return and
\* the run ends with every thread ended.
RunEnds ==
  [](main # "raised") => <>(main = "done" /\ \A w \in Worker : at[w] = "exited")
-----------------------------------------------------------------------------
(* What makes these properties inductive; see WorkerPoolProofs.            *)

\* The phase of the client tells what is true of the threads: which run, which
\* are told to stop, whose queue is known to be drained.
PhasesAgree ==
  /\ main \notin {"start", "wait", "stop", "join"} => idx = 0
  /\ \A w \in Worker :
       /\ at[w] = "new" <=> (main = "start" /\ idx <= w)
       /\ at[w] = "exited" => stop_event[w]
       /\ stop_event[w] <=> (main \in {"join", "done"} \/ (main = "stop" /\ w < idx))
       /\ (main = "wait" /\ w < idx) \/ main \in Drained => joined(queues[w])

\* An item is only ever with the worker that it was routed to.
ItemsStayOnRoute ==
  \A w \in Worker :
    \A i \in Elements(queues[w].items) \cup Elements(results[w])
               \cup Elements(failures[w]) \cup {j \in Item : InHand(j, w)} :
      i \in DOMAIN route /\ route[i] = w

\* The counter lags behind the list by the step between them.
CountersAgree ==
  \A w \in Worker : Len(results[w]) = IF at[w] = "count" THEN processed[w] + 1
                                                         ELSE processed[w]

\* What the client has read so far is what the threads hold.
CollectedIsCurrent ==
  /\ main \in Drained \ {"stats"} => got_stats = processed
  /\ main \in Drained \ {"stats", "results"} => got_results = results
  /\ main \in Drained \ {"stats", "results", "errors"} =>
       got_errors = [w \in {v \in Worker : failures[v] # <<>>} |-> Len(failures[w])]
=============================================================================
