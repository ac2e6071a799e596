# A verification project for the Impossible OS kernel

TLA+ models of the concurrent core of the Impossible OS kernel (`src/kernel/`), TLC
configurations that check them on small instances, and TLAPS proofs of the results that
matter most. Paths below are relative to the repository; `ex_rundown.c:41` means line 41.

1. [The system](#1-the-system) – inventory: components, state, operations, interactions, what is hard
2. [The modules](#2-the-modules) – what each one models and how it corresponds to the code
3. [The runs](#3-the-runs) – what TLC checks, bounds, fairness
4. [What the code does otherwise than it says](#4-what-the-code-does-otherwise-than-it-says)
5. [The proofs](#5-the-proofs)
6. [Not modelled](#6-not-modelled)
7. [Plan](#7-plan)

## 1. The system

Impossible OS is a hobby-sized but very complete x86-64 kernel with an NT-like executive:
UEFI boot, a task table with threads, work queues and worker threads, an executive layer
(`ex/`: rundown, callbacks, work items, lists, tables), an object manager (`ob/`), IPC
(`ipc/`), an NT system-call layer (`nt/`), memory management, quota, file systems, drivers
and a desktop. The repository has 3,093 files, much of it vendored code (ACPICA, Mbed TLS,
…), documentation and tests. What is worth modelling is the part where several actors meet:

**Execution.** One processor dispatches. `current_task` is a global cursor; application
processors are started and parked. A system call through INT 0x80 keeps interrupts off, so between two
yields it is atomic. One through SYSCALL executes `sti` before it reaches the dispatcher
(`syscall_entry.asm:58`; `cli` comes at line 107), and `schedule()` preempts ring 0: like a kernel thread, it
can lose the processor between any two instructions. Interrupt handlers run between any two instructions of either; the unit of
atomicity is a section under `spin_lock_irqsave` or one atomic instruction. Each module says which kind its actors
are; where a routine is reached by both (Process, Semaphore, Pipe) its accesses are steps of their own, and
the INT 0x80 call is the case in which nobody comes in between.

| Component | State | Operations | Meets |
|---|---|---|---|
| Rundown protection, `ex/ex_rundown.c` | one 64-bit word: active bit and count | acquire, release, wait, completed, re-initialise | users of an object against its owner |
| Callback objects, `ex/ex_callback.c` | slots with state, generation, context and a rundown word each; `active_count` | register, unregister, notify | power management, object callbacks; uses rundown |
| Work queues, `sched/workqueue.c` | pending list, node pool, semaphore count, registry of queues | create, enqueue, flush, destroy; worker loop | `ex_workitem`, interrupt-time producers |
| Work items, `ex/ex_workitem.c` | five-valued `State` per item | queue, cancel, trampoline | the system work queue |
| Periodic worker, `sched/kworker.c` | entries with generation, period, deadline, `running`; start state | init, register, unregister, dispatch pass | monitors all over the kernel |
| Processes and dispatcher, `sched/task.c` | task table, cursor, wait and exit fields | dispatch, fork, exit, kill, waitpid, reap | everything |
| Signals, `ipc/signal.c` | pending set per task | send, Ctrl+C to a group | wakes waiting tasks |
| Job objects, `ob/ob_job.c` | members, `terminated` | terminate, limits, accounting | kills tasks |
| Semaphores, `sched/semaphore.c` | count, bounded wait queue | wait, trywait, signal | pipes, NT layer |
| Pipes, `ipc/pipe.c` | ring, cursors, count, two semaphores, open flags | create, read, write, close | readers and writers in system calls |
| Mutexes, events, rwlocks, condvars, `sched/` | owner, wait queues, priorities | lock/unlock, set/wait | env, FAT32, ACPI, NT layer |
| Interlocked lists, `ex/ex_slist.c` | header of two words: first entry, sequence and depth; link words in the callers' storage | push, pop, flush | lookaside lists, on several processors |
| Lookaside lists, `ex/ex_lookaside.c` | an interlocked list, depth limit, `initialized` | allocate, free, flush, delete | the heap, which needs a low IRQL |
| DPCs, `sched/dpc.c` | per processor a queue and a threaded list, `in_flight`; a worker | insert, remove, drain (nested), hand off, flush | interrupts, IRQL lowering, drivers that unload |
| Timers, `sched/ktimer.c` | one list; active, due, period per timer | set, cancel, expire | the timer interrupt, which queues DPCs |
| Objects and namespace, `ob/ob.c`, `ob/ob_ns.c` | reference and handle counts, permanence; directories | allocate, reference, insert, look up, remove | everything with a handle |
| Handle tables, `ob/handle_table.c` | entries, count, quota per process | allocate, close, duplicate, move, inherit, destroy, set limit | object callbacks (`ob_callback.c`), process rundown |
| APCs, fast references, `sched/apc.c`, `ex/ex_fastref.c` | – | – | not modelled |

`PROJECT.json` lists all components, the ones left out included.

**What is hard here.** Compare-and-swap loops that act on a copy of a word read earlier
(rundown, work items); locks that are dropped in the middle of an operation (unregister,
dispatch); slots reused under stale cookies and tokens; wake-ups that may be taken by
somebody else or sent for another reason (signals, semaphores); bounded pools and queues
that run full; lock-free lists whose entries are reused and overwritten under a late reader;
calls that move between queues while somebody samples them one by one; callbacks that close
the handle an operation is working on; start-up races; and teardown that must not return too early or hang.
Section "hazards" of `PROJECT.json` places each one at its line, with the properties
that would catch it.

**What makes each component correct.**

- *Rundown*: nobody uses the object after the wait has returned; the word counts the
  holders; a wait returns when the holders have let go; together, it is an atomic barrier.
- *Callbacks*: unregister returns only when the routine runs nowhere; a stale cookie does no
  harm; a live registration is never skipped; the cap counts what exists.
- *Work items*: one node per item; a cancelled item does not run; a drained item is
  unreferenced; every item drains, also when the enqueue failed. *Work queue*: nodes are
  conserved; flush waits for what was there, but for the item in the worker's hand.
- *Periodic worker*: no callback after unregister; no deadlock of a callback that
  unregisters itself; deadlines are neither overslept nor fired in bursts; exactly one worker.
- *Processes*: the task that runs is the one under the cursor; the dead stay dead;
  only the dead are reaped; round-robin starves nobody; a waiting parent hears of an exit.
- *Semaphores and pipes*: nobody sleeps on a permit or a byte that is there, or past the end of the stream;
  the byte count does not wrap. Of preemptible callers the code guarantees none of it (section 4).
- *Interlocked and lookaside lists*: push, pop and flush are atomic operations of a stack; an
  entry is on the list or held by one party; the cache is bounded and loses no block.
- *DPCs and timers*: a DPC is on one list once, or taken; a flush is a barrier; a driver that has
  stopped its producers and flushed may free its memory; what is queued on the boot processor runs.
- *Objects and handles*: every reference is accounted for, so an object dies with the last one and no
  earlier; a duplicate or transfer happens or does not; access is never widened; the whole quota can be used.

## 2. The modules

```
RundownBarrier  (abstract)
      ^ refines
RundownWord --> ExRundown             Semaphore --> Pipe
           \--> ExCallback            Workqueue --> ExWorkItem
LifoStack   (abstract)                Dpc --> KTimer
      ^ refines                       ObObject --> HandleTable
ExSList --> ExLookaside               KWorker   KWorkerInit   Process
Proofs: ExRundownProofs (ExCallback too), ExWorkItemProofs, KWorkerProofs (KWorkerInit too),
        ExLookasideProofs (ExSList too), KTimerProofs (Dpc too),
        ProcessProofs, HandleTableProofs (ObObject too)
```

`-->` is EXTENDS. `MC…` modules give the constants their values for TLC. Operators whose names
begin with `Bug` are mutated forms of the definition that follows them: a plausible mistake in that
code, under which the property named in `PROJECT.json` fails. Nothing else uses them.

- **RundownWord** – the layout of the word (`ex_rundown.c:22-24`): bit 0 is "active", a
  reference is +2. **ExRundown** models the five operations with every load and every
  compare-and-swap a step of its own; `cur` is the thread's local copy. A failed swap reloads
  `cur` as `__atomic_compare_exchange_n` does. The object that is protected is a variable of
  the model. `ExRundownCompleted` and re-initialisation carry the preconditions that
  `kernel/ex.h` puts on their callers. **RundownBarrier** is what it promises.
- **ExCallback** – register, unregister and notify on one callback object. Each section
  under the object's lock is a step; unregister is begin, mark, drain, end; notify is a
  snapshot under the lock and then one step per routine. Rundown operations are the atomic
  steps that ExRundown is shown to implement. Contexts are numbered by registration; the consumer
  frees its context once unregister has returned. Generations keep their modulus (2^56 in
  the code), with the code's skip of 0. The modulus is assumed to exceed the number of
  registrations: a cookie does not survive a wrap.
- **Workqueue** – list, pool, count and worker; **ExWorkItem** adds the items' state
  machine, the trampoline, cancels, owners that free drained items and threads that flush.
  A flush polls with two loads that no lock joins (`CountZero`, then `HeadNull`); `owed` (what was queued or in
  the worker's hand when the flush began and has not been processed) exists for the properties only.
- **KWorker** – entries, clients and the dispatch loop, section by section, with a clock.
  A callback may unregister any registration, its own included. The worker reads the clock twice, to measure
  how long to sleep (`Measure`, line 245) and to fix the wake time (`SetWake`, line 250); `late` is the time that passed between. **KWorkerInit** – the start
  state machine `STOPPED/STARTING/STARTED` with its bounded waits, which may give up at any
  poll: how often the worker is scheduled meanwhile is not known.
- **Process** – task table and cursor, signals and the job. `task_exit`, `task_waitpid`, the return of an entry function
  and `ob_job_terminate` are sequences of steps, one per store that another task can see; `pc` says where a task is in its
  call, and the tick (`Preempt`) may come between any two steps. `find_next_task` is the highest priority, first after the
  cursor within a tie. `task_exit` follows the code's order: THREAD_DEAD, TASK_DEAD, SIGCHLD to the parent, the scan for a waiter, the switch.
  `task_terminate_remote`, the return of an entry function (`task_wrapper`) and the bulk kill of a job are the other ways to die; any holder
  of the job's handle may terminate it, a member too. `woken_early`, `signalled` and `late` are history: a `task_waitpid`
  that returned with its child alive, the tasks that have sent their SIGCHLD, and the parents that
  marked themselves WAITING only after that. Processes have one thread; PID 0 neither exits nor waits.
- **Semaphore** – `sem_wait` and `sem_signal`, one load, test or store a step, since nothing in a
  semaphore is locked. Threads in `Fast` can be preempted between any two; the others (INT 0x80) keep the processor
  until they yield. A full wait queue makes the thread yield without blocking. A woken thread is only made ready and has to
  look again; `task_wake_thread` does nothing to a thread that is not BLOCKED.
  **Pipe** – `pipe_read`, `pipe_write` and `pipe_close` on one pipe, byte by byte, each test outside the mutex a step. The section
  under the mutex is one step: of what it writes only the count is read outside. Which bytes the ring holds is left out.
- **ExSList** – push, pop and flush, one load or `cmpxchg16b` a step. The two words of the
  header are read one after the other and replaced together; a failed swap reloads both.
  An entry's link word is the first word of the caller's storage: off the list its holder, or the
  heap, writes anything over it (`Data`) at any time, while a late pop still reads it. Sequence numbers are
  unbounded (48 bits in the code). `stack` is the list as the finished operations leave it;
  **LifoStack** is what is promised, and `stack` and `ret` are the mapping.
- **ExLookaside** – allocate, free with trimming, flush and delete over ExSList; a call is a sequence of list
  operations, so calls of two processors interleave inside them. Each call is made at a low or a high IRQL; `over` counts
  the frees that were too high to trim. Statistics and the verifier, which only tests turn
  on, are left out.
- **Dpc** – inserting (an unlocked look at `queued`, then the section under the queue's lock,
  which refreshes, retries or links; an interrupt on the same processor may insert the same DPC in between,
  `InsertNested`, as `dpc.c:669` foresees), removal, drains, the threaded worker and
  `KeFlushQueuedDpcs`. A drain is named by who drains: a processor that lowers its IRQL, or the timer
  interrupt (`Isr`) on top of it. `asked` and `old` are history: inserts that have returned and not been
  taken, and what was outstanding when the flush was called. Drains may happen on any processor,
  a superset of today's kernel. The worker polls, so its event is only a hint and is left out; so are the watchdog, the flush's
  spin cap (a bugcheck) and statistics. A drain may stop before its batch limit.
- **KTimer** – the timer list of the boot processor, the timer interrupt step by step (tick,
  unlink, insert the DPC, publish, drain), and the life of a driver that arms timers, gets
  DPCs queued by its device, stops, removes, flushes, frees and is loaded again. Due times are relative to the
  present tick; the order of the list is abstracted. `Endless` is a period for which `now + period` overflows. The device
  and the driver are external: they do what `dpc.c`'s comments ask of callers.
- **ObObject** – headers and one directory; `held` counts the references of kernel code. Permanent
  objects are made temporary before they are removed, as the callers do. **HandleTable** –
  tables, quota and growth, closing, inheritance and rundown. A system call on a table is one step:
  tables have no lock, and only their process's one thread (section 6) uses them; `NtDuplicateObject` is several steps (`op`): its pre-callbacks, the second look at
  the source, `on_open` and the opening of the destination, the closing of the source. Between any two of them
  callbacks, `on_open` or other threads may open handles (in the freed slot too), close them, set `OBJ_PROTECT_CLOSE` and raise the quota. Each callback of
  the chain is a step that is clamped to what the one before left (`Clamped`). `allowed`, in an entry, is the
  history of the rights it may have; `op.torn`, `op.lost` and `op.gone` record that `on_close` ran since the
  duplicate was called, that the source was closed by somebody else and the call cannot know (it was opened again in its slot, or it had been looked up
  already), and that the new handle was closed before the call was done.

## 3. The runs

All passing runs finish within four minutes on two cores and check the properties named in
their cfg; `about` in `PROJECT.json` says what each shows. Bounds are CONSTANTS with the comment
"bound:".

| Run | Instance | States | Why this is enough |
|---|---|---|---|
| `rundown` | 2 users, 2 owners | 39,648 | unbounded otherwise; a stale copy survives full cycles of the others, and two owners race to mark. Any number of threads: proved |
| `callback` | 2 slots, 3 consumers, 2 notifiers, 4 registrations | 65,864 | a third consumer reuses a slot while a stale cookie to it exists and two snapshots drain |
| `workitem` | 2 items, 2 callers, 1 flusher, pool of 2 | 164,272 | the pool runs out while the worker still holds a node; cancels land in every gap, enqueues and dequeues between the loads of a flush |
| `kworker` | 2 entries, 2 clients, 3 registrations, periods 1 and 2, time to 3 | 806,622 | slots are reused under a waiting unregister; overruns span a period; time passes between the two clock readings |
| `kworker_init` | 3 callers, 5 calls | 1,410 | loser, failure and retry overlap. Any number: proved |
| `process` | 4 slots, a job of two whose handle one member holds | 103,755 | the kernel, a parent and two children that exit, return, are killed, signalled and waited for, preempted between any two steps |
| `lookaside` | 2 processors, 3 blocks, depth limit 1, 6 calls | 1,903,219 | a late pop meets its block popped, given to the heap, allocated again and pushed back (ABA); both trim at once |
| `ktimer` | 2 processors, 3 DPCs (2 threaded, 1 of high importance), 1 timer, batches of 1, period of 2 and overflowing period (fires once) | 290,348 | the interrupt nests on a drain and on an insert, every batch limit is met, the flush samples two queues and the worker |
| `handles` | 1 object, 2 tables, 2 rights, inheritable handles, quota 1 raised to 2 | 639,744 | tables fill, grow and meet their ceiling; transfers within and between tables; between any two steps the source is closed, even the last handle, opened again in its slot, or protected |
| `process_wake` | as `process`, no foreground group | – | violated; see section 4 |
| `pipe_wakeup` | a reader and a writer of one byte, preemptible | – | violated; see section 4 |
| `pipe_eof` | 2 readers, a writer, ring of 2, all through INT 0x80 | – | violated; see section 4 |

**Symmetry** is used in `lookaside` (processors, blocks) and `handles` (tables), which check no
liveness.

**Deadlock** is checked for `rundown`, `ktimer` and `handles`. The other passing instances may stop: registrations, calls,
time and calls are bounded, processes may all be dead or waiting, and items may all be freed.

**Fairness.** Only steps of a thread that is already inside a call are fair, never the
decision to make one.

- ExRundown: releases under way, and the marking and polling of an owner. The wait's
  documented precondition is that holders can run while the waiter polls; a holder's call of
  release is assumed to come, as the API requires.
- ExCallback: unregisters under way; callback routines return.
- ExWorkItem: the worker is a runnable kernel thread; routines return; a caller that has
  claimed an item runs on; a flusher polls. `FlushReturnsEventually` excepts an endless stream of new work.
- KWorker: the worker runs and callbacks are bounded. `UnregisterDrained` is strongly fair: the
  worker yields after every pass with no callback running, so a client that polls in turn
  with it (round-robin) sees `running` clear. Time is not fair.
- KWorkerInit: the callers run; the worker need not.
- Process: the timer ticks, and a task inside a call goes on: strongly fair, since a time slice is several ticks and a task that is
  dispatched again and again gets its instructions done.
- Pipe: steps of a thread's call are strongly fair, as the dispatcher comes round to every
  ready thread; between its turns another thread may hold the processor.

- KTimer: ticks come and the routines they run return (`IsrStep`), and the worker thread is scheduled
  (`Works`). Nothing makes a processor lower its IRQL, a device interrupt or the driver go on; `QueuedRuns`
  therefore claims nothing of the queues of application processors, which the code says are
  drained only when they lower their IRQL (`ktimer.c:248`). A DPC of high importance goes to the head and may overtake
  another one for ever: `Overtaken`.

Several properties are conjunctions of named parts (`CallbackInv`, `NodesAccounted`, `LifetimeKept`,
`SlotOwned`, `KeepsTime`, `TasksConsistent`, `CacheInv`, `DuplicateIsAtomic`); TLC's trace and the parts' comments
tell which one fails.

`NoUseAfterFree` occurs in three modules (ExCallback, KWorker, KTimer); it is the property of the respective
contract. ExRundown's is `NoUseAfterRundown`.

## 4. What the code does otherwise than it says

Three of these are runs that TLC finds violated, with a trace; the quotations are in
`PROJECT.json`.

- **`process_wake`** – `task_waitpid` takes any wake-up for its child's death
  (`task.c:4828`), but `signal_send` wakes every waiting task: the exit of a sibling ends the wait with
  the status of a live child.
- **`pipe_wakeup`** – `sem_wait` tests the count (`semaphore.c:30`) and then queues and blocks (`:36-42`) with nothing
  locked. Preempted in between, it misses a whole `sem_signal`, which finds no waiter, and then blocks with the permit and the
  byte there, until somebody signals again. The comment at `:79` says that a thread racing into `sem_wait` sees the
  permit instead of blocking; `:119` and `task.h:1651` own up to neighbouring gaps (`sem_signal_n`, and the
  window between queue and THREAD_BLOCKED).
- **`pipe_eof`** – closing an end gives one permit (`pipe.c:399`, `:403`), so only one of
  several blocked threads sees the end. No preemption is needed for it.

Noted while modelling, without a run of its own:

- `include/kernel/sched/workqueue.h:112` says that flush waits until all pending work is
  processed. It polls for an empty list and count, and the item that the worker has unlinked is in neither: one
  callback may still be running, or not even begun. `FlushLeavesAtMostOne` states what does hold.
- The periodic worker computes how long to sleep from one reading of the clock and its wake time from the next
  (`kworker.c:245`, `:250`); preempted in between it oversleeps by as much. `WakesInTime` allows exactly that.
- `task_waitpid` through SYSCALL may be preempted between its test of the child (`task.c:4815`) and its store of WAITING
  (`:4822`): the exit that falls in between is missed and the parent waits for ever. A child preempted after
  THREAD_DEAD (`:4729`) is never dispatched again and stays READY; one preempted after TASK_DEAD (`:4734`) never sends its SIGCHLD.
  `task_terminate_remote` (`:4697`) and the return of an entry function (`:265`) wake nobody at all. In each case the parent
  waits for ever, although `nt/nt_sync.c:717` says that the call "blocks until the child dies and reaps it". `ExitWakesWaiter`
  states what does hold: a parent that is WAITING by the time its child comes to signal it returns.
- The scan for a waiter in `task_exit` (`:4755`) never finds one: the SIGCHLD before it has woken the parent.
- `job_kill_all_members` (`ob_job.c:96`) marks its caller DEAD too when it is a member of the job, and returns to it. It runs on while nothing
  preempts it; preempted inside the loop it leaves the other members alive; and its `task_waitpid`
  stores WAITING over DEAD and brings it back (`syscall.c:997` warns of it, `task.c:2562` relies on the opposite).
  `OneRunning` and `DeadStaysDead` except that caller by name (`SelfTerminated`), and nobody else.
- `workqueue_create` stores `worker_pid` (`workqueue.c:162`) after the worker is schedulable, and
  `boot_desktop.c:164` enables preemption around the only call. Schedule: `task_create` returns, a tick
  switches to the worker, which compares its PID with `worker_pid = -1`, finds no queue ("Should
  never happen", line 68) and exits; the queue then accepts work for ever and runs none.
- A free above APC_LEVEL may leave a lookaside list one block over its limit; later frees replace that block
  but do not reclaim it, although `ex_lookaside.c:186` says that a later free drains it;
  `CacheBounded` counts those frees.
- Inheritance (`handle_table.c:429`) checks no quota: a child may start above its limit. `QuotaReachable`
  is stated so that it holds of such tables.
- `NtDuplicateObject` recognises its source by the object (`ob.c:466`): when a callback or another thread closes the last
  handle and opens the same object again in the same slot, the duplicate goes through although `on_close` has run.
- After that second look the source may still be closed, by `on_open` (`handle_table.c:174`) or by a thread that preempts: the
  closing of the source then fails and the new handle is taken back by number, so that neither handle is left,
  or somebody else's handle, if the slots were used again meanwhile. `DuplicateIsAtomic` says that nothing else makes a duplicate
  torn or a transfer partial, and that protection (`ob.c:506`), at any time, never does.
- `signal_check`, which would run handlers and default actions (`signal.c:6`), has no caller.
- Pipes and semaphores under preemption. Two readers past their test of the count (`pipe.c:348`, `:353`) both move a byte when
  there is one, and the unsigned count wraps; a reader may also find the byte gone at `:361` and return 0, which `pipe.h` calls EOF,
  with the writing end open. `count++` and `count--` of a semaphore are a load and a store: an update in between is lost, and a permit with
  it, or gained, and a writer then stores into a full ring. Two signallers that see the same last waiter (`semaphore.c:83`)
  both dequeue it: `num_waiters` wraps, and the next shift of the queue (`:64`) runs off its end. `pipe.c:53` admits the unlocked reads.
- Also without preemption, a writer woken by the closing of the reading end stores into a ring that may be full (`pipe.c:399`), and a read
  still under way returns the overwritten byte.
- Mutexes under preemption. The owner record is written after the lock word (`mutex.c:114`) and cleared after it
  (`:151-153`): a late clearing wipes out the next owner's record, whose `mutex_unlock` is then refused (`:137`), and the mutex stays
  locked. A record of which only `owner_task` is written yet passes for thread 0 of the same task, which `mutex_lock`
  then lets in as if it held the lock (`:55`).

## 5. The proofs

`tlapm` checks every proof to its leaves, for any value of the constants that satisfies
their ASSUMEs.

**ExRundownProofs, about ExRundown** (from `RundownThreads`: users and owners are disjoint, users finite).
`RundownInvariant`: `RundownSpec => []RundownInv`. Safety is not inductive by itself: after a load, what a
compare-and-swap does depends on what the copy still implies. `RundownInv`
therefore says that the word counts the holders (`CountMatchesHolders`, by the cardinality
theorems), that an owner past its mark has the bit set, that a bit seen set
while marking is still set, that a releasing thread's copy has a reference, and that
behind a finished rundown the word is exactly 1. The last one carries the argument: an acquire
acts only on an even copy, and the word stays odd. From it follow `RundownSafety`
(`NoUseAfterRundown`), `RundownRefuses` (the action property) and `RundownRefinement`: every step maps
to a step of RundownBarrier or a stutter, with `Holders` and bit 0 for its variables. The arithmetic
of the word is one lemma, `WordArithmetic`.

**KWorkerProofs, about KWorkerInit** (`InitConstants`). `OneWorker` and `SuccessIsReady`. The invariant adds
`StartingIsOwned`: at most one caller is in the creation section, it owns STARTING, nothing
has been created before it, and STOPPED is never returned to once a task
exists – that is why a call that gave up and is retried cannot create a second worker.

**ExLookasideProofs** (`SListConstants`, `LookasideConstants`: finitely many blocks and processors, NULL
is no block, and the depth limit is below the counter's range, which `la_init` enforces). `SListInv` says what
memory looks like between steps; it is not inductive because it says nothing of what the callers have in
their hands. `SListInd` adds that: no copy of the header is ahead of it (`NotAhead`, what the sequence number is
for), an entry being pushed is held by its pusher (`PusherHolds`) and its link word is the copy's first entry
(`LinkReady`), and the `next` that a pop has read is the link of the first entry *if the pop's copy of the header is
still current* (`NextReady`). Nothing is claimed of the word a late pop reads from a block that has been reused; its
double-width swap then fails. `ListInMemoryIsTheStack` and `ListImplementsStack` are about `SListSpec`,
the list under any permitted use; each winning swap is the linearization point, so every step is one step of
LifoStack or a stutter. `LookasideInd` adds where each call may be (`CallAt`), that what a pop returned is its
caller's (`PoppedIsHeld`) and that a delete is alone; from it follow `ListSoundUnderLookaside`,
`LookasideImplementsStack` and `DeleteStrandsNothing`. `CacheStaysBounded` counts debts: `OwedBound` says that the list is longer
than `max_depth` by at most the frees that still owe it a pop, plus `over`. It has a hypothesis,
`Cardinality(Entry) <= SLIST_DEPTH_MAX`, because beyond 65,535 entries the 16-bit depth stays at its maximum, pops count down from there
and a free reads a depth below the true one: the bound is then not claimed.

**ExRundownProofs, about ExCallback** (`CallbackConstants`). `NoRoutineAfterFree`, `OldCookiesAreHarmless` and
`CallbackBookkeeping` (with `CallbackTypeCorrect`) rest on `CallbackInd`. A snapshot outlives the lock, so what it holds
must be tied to the slot: a context in a snapshot is still the slot's (`SnapshotIsLive`), which
survives because `RundownFollowsState` makes the slot's word count the snapshots, and a slot is cleared only when it counts
none (`ClearMeansDrained`). A cookie's generation is never ahead of its slot's, and a valid cookie names its own
consumer's registration (`CookieNamesOwn`): a reused slot has moved on. That needs the assumption that
generations do not wrap within the registrations considered.

**ExWorkItemProofs** (`PoolAssumption`, `ItemAssumption`). The properties count nodes and callers, and counts do not
say which step may go wrong; `ItemInd` says who *holds* an item instead: the pending list, the worker's hand, or a caller between its
claim and its return (`OneHolder`), one of them exactly while `State` is not a drained value
(`HeldIffActive`), and what `State` may be then (`StateByHolder`). A caller's stale load of `State`
is harmless, since it claims by compare-and-swap from a drained value and then nobody holds the item. `ItemsHaveOneNode`
turns holders back into counts; `DrainedMayBeFreed` follows too, and `FlushWaitsForAll`
(`FlushLeavesAtMostOne`): an item that a flush is owed is pending or in hand, and a flush whose first load found the count zero has none pending,
because what is enqueued between its two loads is not owed to it.

**KWorkerProofs, about KWorker** (`KWorkerConstants`). `OwnerInd` ties contexts, slots and tokens: a context is in the one slot that its
client's token names, the valid tokens are those of the registered clients, and only the entry under the worker's cursor
is `running`. It gives `FreedNeverRuns` and `SlotsHaveOneOwner`. `TimeInd`, on top of it, is the invariant of a
pass: the wake time found so far is no later than the deadline of any entry behind the cursor that was armed before
the pass. Entries that change behind the cursor are armed after `now` was read, hence the restriction to `Armed`. Between the two clock readings the wake time
moves by `late` and no more. It gives
`WorkerKeepsTime`.

**KTimerProofs** (`DpcConstants`, `KTimerConstants`: every timer has a DPC of its own), for any number of processors,
DPCs and timers. `DpcInd` is kept by every step on the queues, whoever takes it: lists and `queued` agree and no list has a DPC twice
(`ListsHold`, which needs the second look at `queued` under the lock: an interrupt may have linked the DPC since the first), `in_flight` counts the routines of the drain and of the interrupt on top of it (`RunsCounted`), and
`FlushProgress`: every processor below the flush's cursor is clear of what was outstanding at the call. A processor stays clear
because a DPC counted as outstanding never gets there again: an insert that finds it queued leaves it, one that links it is
new, and a hand-off to the worker stays on its processor until the worker, which is sampled last, has
it. `DriverInd` adds the timer interrupt (`ActiveIsHeld`: an active timer is on the list or is the one that fires) and what each stage of
unloading has put an end to (`Stopped`, `FlushOwned`): when the flush begins all that is the driver's is marked
as outstanding, and no new insert can start. `DpcsAreWhereTheySay`, `FlushBars` and `FreedDriverIsGone` follow.

**ProcessProofs** (`ProcessConstants`), for any size of the task table, any parents, foreground groups and members of the
job and holders of its handle, and priorities 0 to 31 (`THREAD_PRIO_REALTIME`). `TaskInd` adds to `TasksConsistent` that slots are used in order and never given
back, and that PID 0 can always run: `find_next_task` then always finds somebody, so that a switch from a task that
has just died or gone to sleep leaves a runnable task under the cursor. `Places` ties where a task is in a call to what the call has done:
a WAITING task under the cursor is on its way to its yield, a DEAD one past its last store or a member that has terminated its own job, and nobody
waits for itself, so that what is reaped is never what runs. That the scan returns a runnable task of the best
priority rests on the existence of a least element, which the library's well-foundedness of `<` gives (`LeastNatural`). `TablesAgree` and
`DeathIsFinal` (`DeadStaysDead`) have no hypothesis beyond the constants' types.

**HandleTableProofs** (`HandleTableConstants`, `ObObjectConstants`: finitely many tables, and the empty value is neither an object
nor an entry), for any number of objects, tables, slots and any quota. `ReferencesExact` (`RefsExact`) equates a counter in the
object with the handles that all tables together have on it; `PairsMove` and `HandlesMove` say how that number
changes when one slot of one table does, and every operation is reduced to such a change. `HandleInd` adds to it that each table's
`count` is the number of its used slots (`TablesCounted`); that a permanent object is in the directory (`PermanentNamed`), so that
its last reference is never a handle; that the access a duplication computes before its callbacks run was allowed
(`SnapshotAllowed`); and what each stage of a duplication has established (`DupProgress`): an object torn
down before the source is looked up again shows in the source, unless that was opened again in its slot; from there on, unless the source has been closed by
somebody else, it stands and the object has not been torn down, and once the destination exists the two are different handles. `AccessBounded`, `QuotaCanBeReached` and `DuplicateAtomic` follow. The table that a child grows to is the
recursive function `GrownTimes`. Induction over an operator is out of reach, so that it is well defined and only appends blank
slots is proved by a least counterexample (`GrowthExists`, `GrowthUnique`, `GrownTimesDef`, `GrownTimesBlank`).

The assumptions on constants that the proofs add to the models say only that distinct things are distinct (an
item's address is not NULL, a DPC activation is not the absence of one), that machines are finite, and the range of a priority.

**Only model-checked**: the liveness properties, since fairness and ENABLED are beyond the prover. They are `WaitReturns`, `UnregisterReturns`
(of ExCallback and of KWorker), `AlwaysDrains`, `FlushReturnsEventually`, `InitReturns`, `ReadyRuns`, `ExitWakesWaiter` and
`QueuedRuns`. Every invariant, action property and refinement of a passing run has a theorem.

## 6. Not modelled

- Weak memory: atomic operations are sequentially consistent, locks are mutual exclusion.
  x86-64 and the code's acquire/release orders justify it for what is modelled.
- Creation by name and deletion of callback objects; `workqueue_create` and the worker's lookup of its queue
  (section 4); `workqueue_destroy`, which has no caller and says itself that it is simplified.
- Threads other than the first of a process, joins, exec (its publication of a frame against the
  switch that consumes it, `task.c:1500`), address spaces; delivery of signals; limits and accounting of
  jobs. Creation of tasks other than by fork (`task_create`, `NtCreateProcess`), which through SYSCALL takes its slot (`num_tasks`) without a lock;
  fork itself is reached only through INT 0x80.
- Reuse of pipe slots (`pipe.c:408`), `sem_trywait`, `sem_signal_n`; killing a thread that is queued on a
  semaphore (`semaphore.c:60`), which then takes the wake-up of a live one.
- The inside of mutexes (section 4, and `mutex.c:102`: with a full wait queue a thread blocks without being in it).
- A list of more than 65,535 entries, whose depth saturates (`ex_slist.c:91`); the code to
  report slow DPCs; lowering a quota below what is in use (the run raises it only: with both, the
  state space is out of reach); two processors on one handle table, which the code assigns to a
  lock still to come (`handle_table.c:419`); more than one `NtDuplicateObject` at a time, and the destruction of a table or inheritance
  from it during one, of which the callers keep both processes.
- Paths, symbolic links and security in the object namespace; registration of object callbacks.
- Everything that `PROJECT.json` marks `not_modelled`, with the reason: device I/O, on-disk
  and image formats, memory layout, cryptography, pixels, vendored code.

## 7. Plan

The order is by how much of the kernel rests on the component.

1. *Done*: rundown, callbacks, work queue and work items, periodic worker, processes, semaphores and
   pipes, interlocked and lookaside lists, DPCs and timers, objects and handles; the proofs above, which cover
   every invariant, action property and refinement of the passing runs.
2. **Mutex** (`mutex.c`) with the thread states that Semaphore uses: full queue, owner record,
   priority inheritance; preemptible callers. With it, and with a repaired `sem_wait`, the promise of a pipe as a byte stream.
3. **Threads** as an extension of Process: `kthread_create`, `thread_exit`, `thread_join`; the kill of a thread
   that is queued on a semaphore or mutex; exec's publication of a new frame.
4. **Fast references** (`ex_fastref.c`) at the granularity of ExRundown; Pipe composed with HandleTable:
   slot reuse, close during a call.

New questions are to be asked by composing with an existing run, or by replacing a
weaker property, before a run is added: the project stays small enough to read.
