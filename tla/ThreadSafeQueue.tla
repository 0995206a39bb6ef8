-------------------------- MODULE ThreadSafeQueue --------------------------
(***************************************************************************)
(* src/src/v2/thread_safe_queue.py: a thin wrapper around queue.Queue.     *)
(* A queue is its waiting items, oldest first, and the count of unfinished *)
(* tasks that queue.Queue keeps beside them: put() adds one, task_done()   *)
(* takes one away, join() returns when none is left.  The count is a       *)
(* datum of its own and not the length of the items: an item that a worker *)
(* has taken stays unfinished until the worker says so.  The pool builds   *)
(* its queues with maxsize = 0, so put() never blocks.                     *)
(***************************************************************************)
EXTENDS Naturals, Sequences

Queue(Item) == [items : Seq(Item), unfinished : Nat]

Empty == [items |-> <<>>, unfinished |-> 0]

\* Mutant: a stack, like queue.LifoQueue.
push_newest_first(q, item) == [items      |-> <<item>> \o q.items,
                               unfinished |-> q.unfinished + 1]

push(q, item) == [items      |-> Append(q.items, item),
                  unfinished |-> q.unfinished + 1]

empty(q) == q.items = <<>>

\* get(timeout): defined on a queue that is not empty.  On an empty one the
\* caller waits for the timeout and gets queue.Empty.
oldest(q) == Head(q.items)
pop(q)    == [q EXCEPT !.items = Tail(@)]

\* task_done() raises ValueError when it is called more often than put().
may_be_done(q) == q.unfinished > 0
\* Mutant: one task_done() ends two tasks.
task_done_twice(q) == [q EXCEPT !.unfinished = @ - 2]

task_done(q)   == [q EXCEPT !.unfinished = @ - 1]

\* Mutant: join() waits until nothing waits, in hand or not.
joined_when_empty(q) == empty(q)

\* The condition join() waits for.
joined(q) == q.unfinished = 0
=============================================================================
