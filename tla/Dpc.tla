-------------------------------- MODULE Dpc ---------------------------------
(***************************************************************************)
(* Deferred procedure calls, src/kernel/sched/dpc.c.  Each processor has a *)
(* queue of DPCs and a list of threaded ones under one lock, DPC_QLOCK; a  *)
(* step here is one section of that lock, or one unlocked read.            *)
(*                                                                         *)
(* A queue is drained by whoever lowers the IRQL on its processor, and on  *)
(* the boot processor also by the timer interrupt, on top of such a drain. *)
(* Threaded DPCs are handed to one worker thread.  KeFlushQueuedDpcs waits *)
(* for what was outstanding when it was called, so that a driver that has  *)
(* stopped its producers can free its DPCs.                                *)
(*                                                                         *)
(* Statistics and the watchdog's warnings are left out.                    *)
(***************************************************************************)
EXTENDS Integers, Sequences, FiniteSets, SequencesExt

CONSTANTS MAX_CPUS,
          KDPC,                       \* DPC objects
          Threaded,                   \* those of KeInitializeThreadedDpc
          HighImportance,             \* those inserted at the head
          DPC_BATCH_LIMIT,
          DPC_THREADED_BATCH_LIMIT,
          Home,                       \* the processor KeFlushQueuedDpcs is called on
          Isr,                        \* the timer interrupt, as the one that drains
          None, Unread

Cpu == 0 .. MAX_CPUS - 1
BSP == 0

\* A running routine, and whether the flush has to wait for it.
Activation == [dpc : KDPC, old : BOOLEAN]

ASSUME DpcConstants ==
    /\ MAX_CPUS \in Nat \ {0} /\ Home \in Cpu
    /\ Threaded \subseteq KDPC /\ HighImportance \subseteq KDPC
    /\ DPC_BATCH_LIMIT \in Nat \ {0} /\ DPC_THREADED_BATCH_LIMIT \in Nat \ {0}
    /\ {None, Unread, Isr} \cap Cpu = {} /\ None # Unread /\ None \notin Activation

VARIABLES q,               \* cpu_queues: the DPCs of each processor
          tq,              \* threaded_q: those waiting for the worker
          pending,         \* threaded_q[].pending
          queued,          \* queued and queued_cpu: where the DPC is, or None
          ins,             \* an insert under way: its target and what it read
          run,             \* the routine each drain is in
          in_flight,       \* s_wd[].in_flight
          worker,          \* the worker's position: processor and budget
          wrun,            \* the routine the worker is in
          in_flight_threaded,
          flush,           \* KeFlushQueuedDpcs
          asked,           \* history: inserted since the DPC was last taken off a list
          old              \* history: queued since before the flush was called

dvars == <<q, tq, pending, queued, ins, run, in_flight, worker, wrun, in_flight_threaded,
           flush, asked, old>>

\* A drain of each processor, and the timer interrupt's own.
Drain == Cpu \cup {Isr}
CpuOf(x) == IF x = Isr THEN BSP ELSE x

NoInsert == [to |-> None, saw |-> None]
Inserting(d) == ins[d].to # None

DpcInit ==
    /\ q = [c \in Cpu |-> <<>>]
    /\ tq = [c \in Cpu |-> <<>>]
    /\ pending = [c \in Cpu |-> FALSE]
    /\ queued = [d \in KDPC |-> None]
    /\ ins = [d \in KDPC |-> NoInsert]
    /\ run = [x \in Drain |-> None]
    /\ in_flight = [c \in Cpu |-> 0]
    /\ worker = [cpu |-> 0, budget |-> 0]
    /\ wrun = None
    /\ in_flight_threaded = 0
    /\ flush = [at |-> "no", cpu |-> 0]
    /\ asked = {}
    /\ old = {}

Flag(d) == [dpc |-> d, old |-> d \in old]

\* The DPC leaves the lists: to run, or removed.
Taken(d) ==
    /\ queued' = [queued EXCEPT ![d] = None]
    /\ asked' = asked \ {d}
    /\ old' = old \ {d}

(* ------------------------------ KeInsertQueueDpc ------------------------ *)

\* The unlocked test of dpc->queued.  Two processors do not insert a DPC at the
\* same time (dpc.h:107); an interrupt on the same one may: InsertNested.
InsertCall(d, c) ==
    /\ ~Inserting(d)
    /\ ins' = [ins EXCEPT ![d] = [to |-> c, saw |-> queued[d]]]
    /\ UNCHANGED <<q, tq, pending, queued, run, in_flight, worker, wrun, in_flight_threaded,
                   flush, asked, old>>

\* Under the lock the DPC is still where it was seen: its arguments are replaced
\* and it stays where it is.
Confirmed(d) == queued[d] = IF ins[d].saw # None THEN ins[d].saw ELSE ins[d].to

InsertRefresh(d) ==
    /\ Inserting(d) /\ ins[d].saw # Unread
    /\ Confirmed(d)
    /\ ins' = [ins EXCEPT ![d] = NoInsert]
    /\ asked' = asked \cup {d}
    /\ UNCHANGED <<q, tq, pending, queued, run, in_flight, worker, wrun, in_flight_threaded, flush, old>>

\* It was drained, removed or queued elsewhere since: look again.
InsertRetry(d) ==
    /\ Inserting(d) /\ ins[d].saw # Unread
    /\ ~Confirmed(d)
    /\ ins[d].saw # None \/ queued[d] # None
    /\ ins' = [ins EXCEPT ![d].saw = Unread]
    /\ UNCHANGED <<q, tq, pending, queued, run, in_flight, worker, wrun, in_flight_threaded,
                   flush, asked, old>>

InsertLook(d) ==
    /\ Inserting(d) /\ ins[d].saw = Unread
    /\ ins' = [ins EXCEPT ![d].saw = queued[d]]
    /\ UNCHANGED <<q, tq, pending, queued, run, in_flight, worker, wrun, in_flight_threaded,
                   flush, asked, old>>

Link(d) ==
    LET c == ins[d].to
    IN  /\ q' = [q EXCEPT ![c] = IF d \in HighImportance THEN <<d>> \o @ ELSE Append(@, d)]
        /\ queued' = [queued EXCEPT ![d] = c]

\* Mutant: a DPC that was seen not queued is linked without looking again.
BugInsertLink(d) ==
    /\ Inserting(d) /\ ins[d].saw = None
    /\ Link(d)
    /\ ins' = [ins EXCEPT ![d] = NoInsert]
    /\ asked' = asked \cup {d}
    /\ UNCHANGED <<tq, pending, run, in_flight, worker, wrun, in_flight_threaded, flush, old>>

InsertLink(d) ==
    /\ Inserting(d) /\ ins[d].saw = None
    /\ queued[d] = None
    /\ Link(d)
    /\ ins' = [ins EXCEPT ![d] = NoInsert]
    /\ asked' = asked \cup {d}
    /\ UNCHANGED <<tq, pending, run, in_flight, worker, wrun, in_flight_threaded, flush, old>>

\* An interrupt on the inserter's processor inserts the same DPC, start to end,
\* between the inserter's look and its lock.  It takes effect under its lock.
InsertNested(d) ==
    /\ Inserting(d)
    /\ IF queued[d] = None THEN Link(d) ELSE UNCHANGED <<q, queued>>
    /\ asked' = asked \cup {d}
    /\ UNCHANGED <<tq, pending, ins, run, in_flight, worker, wrun, in_flight_threaded, flush, old>>

InsertStep(d) == InsertRefresh(d) \/ InsertRetry(d) \/ InsertLook(d) \/ InsertLink(d)

(* ------------------------------ KeRemoveQueueDpc ------------------------ *)

\* The locked part, on the processor c that was read in queued_cpu.
RemoveLocked(d, c) ==
    /\ IF queued[d] # c
       THEN UNCHANGED <<q, tq, pending, queued, asked, old>>
       ELSE /\ Taken(d)
            /\ IF d \in Range(q[c])
               THEN q' = [q EXCEPT ![c] = RemoveFirst(@, d)] /\ UNCHANGED <<tq, pending>>
               ELSE /\ tq' = [tq EXCEPT ![c] = RemoveFirst(@, d)]
                    /\ pending' = [pending EXCEPT ![c] = @ /\ tq'[c] # <<>>]
                    /\ UNCHANGED q
    /\ UNCHANGED <<ins, run, in_flight, worker, wrun, in_flight_threaded, flush>>

(* -------------------------------- drain_queue --------------------------- *)

\* A threaded DPC changes lists under one hold of the lock, and stays queued.
\* The worker's event is a hint: it polls.
HandOff(x, d) ==
    /\ tq' = [tq EXCEPT ![CpuOf(x)] = Append(@, d)]
    /\ pending' = [pending EXCEPT ![CpuOf(x)] = TRUE]
    /\ UNCHANGED <<run, in_flight, queued, asked, old>>

RunInline(x, d) ==
    /\ Taken(d)
    /\ run' = [run EXCEPT ![x] = Flag(d)]
    /\ in_flight' = [in_flight EXCEPT ![CpuOf(x)] = @ + 1]
    /\ UNCHANGED <<tq, pending>>

\* One turn of the loop.
DrainPop(x) ==
    /\ run[x] = None /\ q[CpuOf(x)] # <<>>
    /\ LET d == Head(q[CpuOf(x)])
       IN  IF d \in Threaded THEN HandOff(x, d) ELSE RunInline(x, d)
    /\ q' = [q EXCEPT ![CpuOf(x)] = Tail(@)]
    /\ UNCHANGED <<ins, worker, wrun, in_flight_threaded, flush>>

\* Mutant: in_flight is a flag, which the inner of two nested drains clears.
BugReturned(n) == 0

Returned(n) == n - 1

RoutineReturns(x) ==
    /\ run[x] # None
    /\ run' = [run EXCEPT ![x] = None]
    /\ in_flight' = [in_flight EXCEPT ![CpuOf(x)] = Returned(@)]
    /\ UNCHANGED <<q, tq, pending, queued, ins, worker, wrun, in_flight_threaded, flush, asked, old>>

(* ------------------------------- dpc_thread_fn -------------------------- *)

\* The worker goes on to the next processor.
NextCpu == [cpu |-> (worker.cpu + 1) % MAX_CPUS, budget |-> 0]

\* pending is read without the lock.
WorkerLooks ==
    /\ wrun = None /\ worker.budget = 0
    /\ worker' = IF pending[worker.cpu] THEN [worker EXCEPT !.budget = DPC_THREADED_BATCH_LIMIT]
                                        ELSE NextCpu
    /\ UNCHANGED <<q, tq, pending, queued, ins, run, in_flight, wrun, in_flight_threaded, flush, asked, old>>

WorkerFindsNone ==
    /\ wrun = None /\ worker.budget > 0 /\ tq[worker.cpu] = <<>>
    /\ pending' = [pending EXCEPT ![worker.cpu] = FALSE]
    /\ worker' = NextCpu
    /\ UNCHANGED <<q, tq, queued, ins, run, in_flight, wrun, in_flight_threaded, flush, asked, old>>

WorkerPops ==
    /\ wrun = None /\ worker.budget > 0 /\ tq[worker.cpu] # <<>>
    /\ LET d == Head(tq[worker.cpu])
       IN  Taken(d) /\ wrun' = Flag(d)
    /\ tq' = [tq EXCEPT ![worker.cpu] = Tail(@)]
    /\ in_flight_threaded' = in_flight_threaded + 1
    /\ UNCHANGED <<q, pending, ins, run, in_flight, worker, flush>>

\* Mutant: the worker stays with a processor as long as its list is not empty.
BugAfterOne == worker

\* The batch is spent one callback at a time.
AfterOne == IF worker.budget = 1 THEN NextCpu ELSE [worker EXCEPT !.budget = @ - 1]

WorkerReturns ==
    /\ wrun # None
    /\ wrun' = None
    /\ in_flight_threaded' = in_flight_threaded - 1
    /\ worker' = AfterOne
    /\ UNCHANGED <<q, tq, pending, queued, ins, run, in_flight, flush, asked, old>>

WorkerStep == WorkerLooks \/ WorkerFindsNone \/ WorkerPops \/ WorkerReturns

(* ----------------------------- KeFlushQueuedDpcs ------------------------ *)

\* The call; what is queued or running from here on is marked.
FlushCall ==
    /\ flush.at = "no"
    /\ flush' = [at |-> "dispatch", cpu |-> 0]
    /\ old' = {d \in KDPC : queued[d] # None}
    /\ run' = [x \in Drain |-> IF run[x] = None THEN None ELSE [run[x] EXCEPT !.old = TRUE]]
    /\ wrun' = IF wrun = None THEN None ELSE [wrun EXCEPT !.old = TRUE]
    /\ UNCHANGED <<q, tq, pending, queued, ins, in_flight, worker, in_flight_threaded, asked>>

\* KiDispatchDpc has drained a batch of the caller's own queue (DrainPop of
\* Home), which is empty or had more than the batch.
FlushDispatched ==
    /\ flush.at = "dispatch" /\ run[Home] = None
    /\ flush' = [flush EXCEPT !.at = "scan"]
    /\ UNCHANGED <<q, tq, pending, queued, ins, run, in_flight, worker, wrun, in_flight_threaded, asked, old>>

\* One processor, sampled under its lock; a busy one means yield and start over.
Busy(c) == q[c] # <<>> \/ tq[c] # <<>> \/ in_flight[c] # 0

FlushSamples ==
    /\ flush.at = "scan" /\ run[Home] = None
    /\ flush' = IF Busy(flush.cpu) THEN [flush EXCEPT !.cpu = 0]
                ELSE IF flush.cpu < MAX_CPUS - 1 THEN [flush EXCEPT !.cpu = @ + 1]
                ELSE [at |-> "threaded", cpu |-> 0]
    /\ UNCHANGED <<q, tq, pending, queued, ins, run, in_flight, worker, wrun, in_flight_threaded, asked, old>>

FlushEnds ==
    /\ flush.at = "threaded" /\ run[Home] = None
    /\ flush' = [flush EXCEPT !.at = IF in_flight_threaded = 0 THEN "returned" ELSE "scan"]
    /\ UNCHANGED <<q, tq, pending, queued, ins, run, in_flight, worker, wrun, in_flight_threaded, asked, old>>

FlushStep == FlushDispatched \/ FlushSamples \/ FlushEnds

(* --------------------------------- Properties ---------------------------- *)

Lists == {q[c] : c \in Cpu} \cup {tq[c] : c \in Cpu}

\* A DPC is on the lists of the processor it says it is queued on, on one of
\* them, once, and on no other; threaded DPCs never wait with pending clear;
\* an insert that has returned is on a list until it is taken; and in_flight
\* counts the routines running on the processor, nested drains included.
DpcInv ==
    /\ \A c \in Cpu :
         /\ IsInjective(q[c] \o tq[c])
         /\ Range(q[c] \o tq[c]) = {d \in KDPC : queued[d] = c}
         /\ tq[c] # <<>> => pending[c]
         /\ in_flight[c] = Cardinality({x \in Drain : CpuOf(x) = c /\ run[x] # None})
    /\ \A d \in asked : queued[d] # None

\* When KeFlushQueuedDpcs returns, nothing that was queued or running at the
\* call is queued or running: it slipped through neither on its way from a
\* queue to the worker, nor under a drain nested on another, nor through the
\* samples of one processor after the other.
FlushIsBarrier ==
    flush.at = "returned" =>
        /\ old = {}
        /\ \A x \in Drain : run[x] # None => ~run[x].old
        /\ wrun # None => ~wrun.old
=============================================================================
