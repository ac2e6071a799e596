------------------------------- MODULE KTimer --------------------------------
(***************************************************************************)
(* Kernel timers, src/kernel/sched/ktimer.c, with the timer interrupt that *)
(* expires them and drains the DPC queue, and the life of a driver that    *)
(* owns timers and DPCs: it arms and queues, stops its producers, flushes, *)
(* and frees its memory.                                                   *)
(*                                                                         *)
(* All timers are on the list of the boot processor.  Due times are kept   *)
(* relative to the present tick.                                           *)
(***************************************************************************)
EXTENDS Dpc

CONSTANTS Timer,
          TimerDpc,        \* the DPC each timer queues; no one else queues it
          Mine,            \* the driver's DPCs
          Irq,             \* the processors on which each DPC gets queued
          DueIn,           \* relative due times the driver asks for
          Period,          \* periods it asks for, 0 for a single shot
          Endless          \* a period so long that now + period overflows

ASSUME KTimerConstants ==
    /\ TimerDpc \in [Timer -> Mine] /\ Mine \subseteq KDPC /\ None \notin Timer
    /\ Irq \in [KDPC -> SUBSET Cpu]
    /\ DueIn \subseteq Int /\ Period \subseteq Nat \cup {Endless} /\ Endless \notin Nat
    /\ \A s, t \in Timer : TimerDpc[s] = TimerDpc[t] => s = t

VARIABLES timer,           \* on the list, active, due (relative), period
          isr,             \* the timer interrupt: where it is, what is left to do
          driver           \* the driver's thread

tvars == <<timer, isr, driver>>
vars == <<dvars, tvars>>

TimerDpcs == {TimerDpc[t] : t \in Timer}

Idle == [linked |-> FALSE, active |-> FALSE, due |-> 0, period |-> 0]

NoIsr == [at |-> "no", todo |-> {}, now |-> None, left |-> 0]

Init ==
    /\ DpcInit
    /\ timer = [t \in Timer |-> Idle]
    /\ isr = NoIsr
    /\ driver = [at |-> "run", on |-> None, cpu |-> None]

\* Mutant: the lock is dropped before the DPC is queued.
BugTimerLockFree == isr.at # "scan"

\* KTIMER_LOCK of the service processor is held across the whole expiry scan.
TimerLockFree == isr.at \notin {"scan", "queue"}

(* ------------------------- The timer interrupt (BSP) -------------------- *)

\* The tick.  With nothing armed the scan is skipped.
Tick ==
    /\ isr.at = "no"
    /\ timer' = [t \in Timer |-> IF timer[t].linked THEN [timer[t] EXCEPT !.due = @ - 1] ELSE timer[t]]
    /\ LET due == {t \in Timer : timer'[t].linked /\ timer'[t].due <= 0}
       IN  isr' = IF due = {} THEN [NoIsr EXCEPT !.at = "drain", !.left = DPC_BATCH_LIMIT]
                              ELSE [NoIsr EXCEPT !.at = "scan", !.todo = due]
    /\ UNCHANGED <<dvars, driver>>

\* Periodic timers stay armed, unless the next boundary does not fit.
Keeps(t) == timer[t].period \notin {0, Endless}

\* The next boundary of the period after the present tick.
NextDue(t) == timer[t].period - ((0 - timer[t].due) % timer[t].period)

\* One due timer is re-armed or unlinked, and its DPC insert begins.
Fire(t) ==
    /\ isr.at = "scan" /\ t \in isr.todo
    /\ timer' = [timer EXCEPT ![t] = IF Keeps(t) THEN [@ EXCEPT !.due = NextDue(t)]
                                                 ELSE [@ EXCEPT !.linked = FALSE]]
    /\ isr' = [isr EXCEPT !.at = "queue", !.todo = @ \ {t}, !.now = t]
    /\ InsertCall(TimerDpc[t], BSP)
    /\ UNCHANGED driver

FireInserts ==
    /\ isr.at = "queue"
    /\ InsertStep(TimerDpc[isr.now])
    /\ UNCHANGED tvars

\* active is cleared once the DPC is queued.
FirePublishes ==
    /\ isr.at = "queue" /\ ~Inserting(TimerDpc[isr.now])
    /\ timer' = [timer EXCEPT ![isr.now] = IF @.linked THEN @ ELSE Idle]
    /\ isr' = IF isr.todo # {} THEN [isr EXCEPT !.at = "scan", !.now = None]
                               ELSE [NoIsr EXCEPT !.at = "drain", !.left = DPC_BATCH_LIMIT]
    /\ UNCHANGED <<dvars, driver>>

\* dpc_drain_current_cpu: up to a batch.
IsrPops ==
    /\ isr.at = "drain" /\ isr.left > 0
    /\ DrainPop(Isr)
    /\ isr' = [isr EXCEPT !.left = @ - 1]
    /\ UNCHANGED <<timer, driver>>

IsrRoutineReturns == RoutineReturns(Isr) /\ UNCHANGED tvars

IsrEnds ==
    /\ isr.at = "drain" /\ run[Isr] = None
    /\ isr.left = 0 \/ q[BSP] = <<>>
    /\ isr' = NoIsr
    /\ UNCHANGED <<dvars, timer, driver>>

IsrStep == Tick \/ (\E t \in Timer : Fire(t)) \/ FireInserts \/ FirePublishes
           \/ IsrPops \/ IsrRoutineReturns \/ IsrEnds

(* ----------------------------- Other drains ----------------------------- *)

\* Under the timer interrupt the boot processor does nothing else.
Interrupted(c) == c = BSP /\ isr.at # "no"

\* KeLowerIrql and KiDispatchDpc, from any thread of processor c.
Lowers(c) == ~Interrupted(c) /\ DrainPop(c) /\ UNCHANGED tvars

LowersReturns(c) == ~Interrupted(c) /\ RoutineReturns(c) /\ UNCHANGED tvars

Works == WorkerStep /\ UNCHANGED tvars

(* ------------------------------- Producers ------------------------------ *)

\* A device interrupt on processor c, or a routine, queues d; the driver's own
\* only while it runs, and no timer's.
Produce(d, c) ==
    /\ d \notin TimerDpcs /\ c \in Irq[d]
    /\ d \in Mine => driver.at \in {"run", "arm"}
    /\ InsertCall(d, c)
    /\ UNCHANGED tvars

\* The device interrupts a thread that is queueing d itself.  The timer's inserts
\* run with interrupts off.
ProduceNested(d) ==
    /\ d \notin TimerDpcs
    /\ d \in Mine => driver.at \in {"run", "arm"}
    /\ InsertNested(d)
    /\ UNCHANGED tvars

ProduceStep(d) == d \notin TimerDpcs /\ InsertStep(d) /\ UNCHANGED tvars

(* -------------------------------- The driver ---------------------------- *)

\* The thread runs when no drain has its processor.
MayRun == run[Home] = None /\ ~Interrupted(Home)

\* The locked section of KeCancelTimer.
Cancelled(t) == timer' = [timer EXCEPT ![t] = IF @.active THEN Idle ELSE @]

\* KeSetTimerEx cancels first, under a hold of the lock of its own.
SetTimer(t) ==
    /\ driver.at = "run" /\ MayRun /\ TimerLockFree
    /\ Cancelled(t)
    /\ driver' = [driver EXCEPT !.at = "arm", !.on = t]
    /\ UNCHANGED <<dvars, isr>>

Arm(due, period) ==
    /\ driver.at = "arm" /\ MayRun /\ TimerLockFree
    /\ timer' = [timer EXCEPT ![driver.on] = [linked |-> TRUE, active |-> TRUE, due |-> due, period |-> period]]
    /\ driver' = [driver EXCEPT !.at = "run", !.on = None]
    /\ UNCHANGED <<dvars, isr>>

\* The device is quiet: its interrupt handler is out of the insert.
Stop ==
    /\ driver.at = "run" /\ MayRun
    /\ \A d \in Mine \ TimerDpcs : ~Inserting(d)
    /\ driver' = [driver EXCEPT !.at = "stop", !.on = Timer]
    /\ UNCHANGED <<dvars, timer, isr>>

CancelTimer(t) ==
    /\ driver.at = "stop" /\ t \in driver.on /\ MayRun /\ TimerLockFree
    /\ Cancelled(t)
    /\ driver' = [driver EXCEPT !.on = @ \ {t}]
    /\ UNCHANGED <<dvars, isr>>

\* KeRemoveQueueDpc of one of its DPCs: the unlocked look, then the lock.
RemoveLooks(d) ==
    /\ driver.at = "stop" /\ driver.on = {} /\ MayRun
    /\ queued[d] # None
    /\ driver' = [at |-> "remove", on |-> d, cpu |-> queued[d]]
    /\ UNCHANGED <<dvars, timer, isr>>

RemoveDone ==
    /\ driver.at = "remove" /\ MayRun
    /\ RemoveLocked(driver.on, driver.cpu)
    /\ driver' = [at |-> "stop", on |-> {}, cpu |-> None]
    /\ UNCHANGED <<timer, isr>>

Flush ==
    /\ driver.at = "stop" /\ driver.on = {} /\ MayRun
    /\ FlushCall
    /\ driver' = [driver EXCEPT !.at = "flush", !.on = None]
    /\ UNCHANGED <<timer, isr>>

Flushes == ~Interrupted(Home) /\ FlushStep /\ UNCHANGED tvars

Free ==
    /\ driver.at = "flush" /\ flush.at = "returned" /\ MayRun
    /\ driver' = [driver EXCEPT !.at = "freed"]
    /\ UNCHANGED <<dvars, timer, isr>>

\* Loaded again, it initialises its timers and DPCs.
Load ==
    /\ driver.at = "freed"
    /\ driver' = [driver EXCEPT !.at = "run"]
    /\ flush' = [flush EXCEPT !.at = "no"]
    /\ UNCHANGED <<q, tq, pending, queued, ins, run, in_flight, worker, wrun, in_flight_threaded,
                   asked, old, timer, isr>>

DriverStep ==
    \/ \E t \in Timer : SetTimer(t) \/ CancelTimer(t)
    \/ \E due \in DueIn, period \in Period : Arm(due, period)
    \/ \E d \in Mine : RemoveLooks(d)
    \/ Stop \/ RemoveDone \/ Flush \/ Flushes \/ Free \/ Load

Next ==
    \/ IsrStep
    \/ \E c \in Cpu : Lowers(c) \/ LowersReturns(c)
    \/ Works
    \/ \E d \in KDPC : ProduceStep(d) \/ ProduceNested(d) \/ \E c \in Cpu : Produce(d, c)
    \/ DriverStep

\* Ticks keep coming, the handlers and routines they run return, and the worker
\* is scheduled.  Nothing makes a processor lower its IRQL, a device interrupt,
\* or the driver go on.
Fairness == WF_vars(IsrStep) /\ WF_vars(Works)

Spec == Init /\ [][Next]_vars /\ Fairness

(* -------------------------------- Properties ---------------------------- *)

Running(d) ==
    \/ wrun # None /\ wrun.dpc = d
    \/ \E x \in Drain : run[x] # None /\ run[x].dpc = d

\* Once a driver that stopped its producers and flushed has freed its memory,
\* no list holds its timers or DPCs, no routine of it runs, and the timer
\* interrupt is not about to queue one of its DPCs.
NoUseAfterFree ==
    driver.at = "freed" =>
        /\ \A d \in Mine : queued[d] = None /\ ~Running(d) /\ ~Inserting(d)
        /\ \A t \in Timer : ~timer[t].linked /\ isr.now # t /\ t \notin isr.todo

\* A high-importance DPC went ahead of d on the boot processor.
Overtaken(d) == q[BSP] # <<>> /\ Head(q[BSP]) \in HighImportance \ {d}

\* A DPC queued on the boot processor leaves its queue, unless one of high
\* importance goes ahead of it, and a threaded DPC that was handed to the worker
\* runs or is removed, whichever processors keep the worker busy.  (A queue of
\* another processor may wait for ever.)
QueuedRuns ==
    \A d \in KDPC :
        /\ d \in Range(q[BSP]) ~> (d \notin Range(q[BSP]) \/ Overtaken(d))
        /\ (\E c \in Cpu : d \in Range(tq[c])) ~> queued[d] = None
=============================================================================
