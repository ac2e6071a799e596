----------------------------- MODULE Semaphore ------------------------------
(***************************************************************************)
(* Counting semaphores, src/kernel/sched/semaphore.c, used from system     *)
(* calls and kernel threads of one processor.                              *)
(*                                                                         *)
(* Nothing in a semaphore is locked.  A call that came through INT 0x80    *)
(* runs with interrupts off and loses the processor only where it yields;  *)
(* one that came through SYSCALL (sti in syscall_entry.asm:58), or a        *)
(* kernel thread, can be preempted between any two accesses, so each test, *)
(* load and store below is a step of its own.                              *)
(***************************************************************************)
EXTENDS Integers

CONSTANTS Threads,         \* threads that use the semaphores
          Fast,            \* the ones whose calls can be preempted
          Semaphores,
          SEM_MAX_WAITERS, \* length of a wait queue, not exceeded by Threads
          Nobody           \* no thread

VARIABLES permits,         \* s->count
          num_waiters,     \* s->num_waiters; -1 stands for the wrapped 2^32 - 1
          slot,            \* the waiters of s, oldest in slot 1
          blocked,         \* threads in THREAD_BLOCKED
          cpu,             \* the thread that runs with interrupts off, or Nobody
          pc,              \* where a thread is
          reg              \* the value of s->count it has loaded

queuevars == <<num_waiters, slot>>
semvars == <<permits, queuevars, blocked, reg>>

SemInit(initial) ==
    /\ permits = initial
    /\ num_waiters = [s \in Semaphores |-> 0]
    /\ slot = [s \in Semaphores |-> [n \in 1 .. SEM_MAX_WAITERS |-> Nobody]]
    /\ blocked = {}
    /\ cpu = Nobody
    /\ pc = [t \in Threads |-> "idle"]
    /\ reg = [t \in Threads |-> 0]

\* Thread t is at label l and may be given the processor.
At(t, l) == pc[t] = l /\ t \notin blocked /\ cpu \in {t, Nobody}

\* It goes on to label l; only with interrupts off it is sure to go on at once.
Goto(t, l) ==
    /\ pc' = [pc EXCEPT ![t] = l]
    /\ cpu' = IF l = "idle" \/ t \in Fast THEN Nobody ELSE t

Yield(t, l) == pc' = [pc EXCEPT ![t] = l] /\ cpu' = Nobody

-----------------------------------------------------------------------------
(* sem_wait(s) of thread t, which begins at "wait" and returns to ret *)

SemTest(s, t) ==
    /\ At(t, "wait")
    /\ Goto(t, IF permits[s] > 0 THEN "load" ELSE "queue")
    /\ UNCHANGED semvars

SemPlace(s, t) ==
    /\ At(t, "queue")
    /\ IF num_waiters[s] \in 0 .. SEM_MAX_WAITERS - 1
       THEN Goto(t, "enqueue") ELSE Yield(t, "wait")
    /\ UNCHANGED semvars

SemEnqueue(s, t) ==
    /\ At(t, "enqueue")
    /\ slot' = [slot EXCEPT ![s][num_waiters[s] + 1] = t]
    /\ Goto(t, "enqueued")
    /\ UNCHANGED <<permits, num_waiters, blocked, reg>>

SemEnqueued(s, t) ==
    /\ At(t, "enqueued")
    /\ num_waiters' = [num_waiters EXCEPT ![s] = @ + 1]
    /\ Goto(t, "block")
    /\ UNCHANGED <<permits, slot, blocked, reg>>

\* THREAD_BLOCKED; preempted there, or in yield, it runs again once it is woken.
SemBlock(t) ==
    /\ At(t, "block")
    /\ blocked' = blocked \cup {t}
    /\ Yield(t, "wait")
    /\ UNCHANGED <<permits, queuevars, reg>>

SemLoad(s, t) ==
    /\ pc[t] \in {"load", "signal"} /\ At(t, pc[t])
    /\ reg' = [reg EXCEPT ![t] = permits[s]]
    /\ Goto(t, IF pc[t] = "load" THEN "take" ELSE "post")
    /\ UNCHANGED <<permits, queuevars, blocked>>

SemTake(s, t, ret) ==
    /\ At(t, "take")
    /\ permits' = [permits EXCEPT ![s] = reg[t] - 1]
    /\ Goto(t, ret)
    /\ UNCHANGED <<queuevars, blocked, reg>>

-----------------------------------------------------------------------------
(* sem_signal(s) of thread t, which begins at "signal" and returns to ret *)

SemPost(s, t) ==
    /\ At(t, "post")
    /\ permits' = [permits EXCEPT ![s] = reg[t] + 1]
    /\ Goto(t, "waiters")
    /\ UNCHANGED <<queuevars, blocked, reg>>

SemWaiters(s, t, ret) ==
    /\ At(t, "waiters")
    /\ Goto(t, IF num_waiters[s] = 0 THEN ret ELSE "dequeue")
    /\ UNCHANGED semvars

\* sem_wake_head; task_wake_thread does nothing to a thread that is not BLOCKED.
SemWakeHead(s, t, ret) ==
    /\ At(t, "dequeue") /\ num_waiters[s] >= 0
    /\ blocked' = blocked \ {slot[s][1]}
    /\ slot' = [slot EXCEPT ![s] =
                  [n \in 1 .. SEM_MAX_WAITERS |-> IF n < num_waiters[s] THEN @[n + 1] ELSE @[n]]]
    /\ num_waiters' = [num_waiters EXCEPT ![s] = @ - 1]
    /\ Goto(t, ret)
    /\ UNCHANGED <<permits, reg>>

SemWaitStep(s, t, ret) ==
    \/ SemTest(s, t) \/ SemPlace(s, t) \/ SemEnqueue(s, t) \/ SemEnqueued(s, t) \/ SemBlock(t)
    \/ pc[t] = "load" /\ SemLoad(s, t)
    \/ SemTake(s, t, ret)

SemSignalStep(s, t, ret) ==
    \/ pc[t] = "signal" /\ SemLoad(s, t)
    \/ SemPost(s, t) \/ SemWaiters(s, t, ret) \/ SemWakeHead(s, t, ret)
=============================================================================
