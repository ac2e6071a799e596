----------------------------- MODULE Workqueue ------------------------------
(***************************************************************************)
(* A kernel work queue, src/kernel/sched/workqueue.c: the pending list, the *)
(* pool of free nodes, the semaphore count and the one worker thread.      *)
(* Each section under wq->lock_flag is one step.  ExWorkItem extends it   *)
(* with the callers of the queue.                                          *)
(***************************************************************************)
EXTENDS Integers, Sequences

CONSTANT WQ_POOL_SIZE      \* nodes pre-allocated for one queue

ASSUME PoolAssumption == WQ_POOL_SIZE \in Nat \ {0}

VARIABLES pending,         \* head .. tail: the arguments of the queued nodes
          free_nodes,      \* length of the free_head list
          sem_count,       \* the count the worker waits on
          worker,          \* "wait", or where the worker is with its node
          item             \* the argument of the node it dequeued

wqvars == <<pending, free_nodes, sem_count, worker, item>>

NoItem == 0                \* the worker has no node

WqInit ==
    /\ pending = <<>>
    /\ free_nodes = WQ_POOL_SIZE
    /\ sem_count = 0
    /\ worker = "wait"
    /\ item = NoItem

\* The pool is exhausted: workqueue_enqueue returns 0 and changes nothing.
PoolExhausted == free_nodes = 0

\* Mutant: the worker is signalled only when the list was empty.
BugEnqueueSignalOnce(arg) ==
    /\ ~PoolExhausted
    /\ free_nodes' = free_nodes - 1
    /\ pending' = Append(pending, arg)
    /\ sem_count' = IF pending = <<>> THEN sem_count + 1 ELSE sem_count
    /\ UNCHANGED <<worker, item>>

workqueue_enqueue(arg) ==
    /\ ~PoolExhausted
    /\ free_nodes' = free_nodes - 1
    /\ pending' = Append(pending, arg)
    /\ sem_count' = sem_count + 1
    /\ UNCHANGED <<worker, item>>

\* The worker leaves its yield loop and unlinks the head.
WorkerDequeue ==
    /\ worker = "wait"
    /\ sem_count > 0
    /\ pending # <<>>
    /\ sem_count' = sem_count - 1
    /\ item' = Head(pending)
    /\ pending' = Tail(pending)
    /\ worker' = "call"
    /\ UNCHANGED free_nodes

\* After the callback, the node goes back to the pool.
WorkerReturnNode ==
    /\ worker = "return"
    /\ free_nodes' = free_nodes + 1
    /\ item' = NoItem
    /\ worker' = "wait"
    /\ UNCHANGED <<pending, sem_count>>

\* The two unlocked loads of workqueue_flush's loop condition.
CountZero == ~(sem_count > 0)
HeadNull == pending = <<>>
=============================================================================
