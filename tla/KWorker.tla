------------------------------ MODULE KWorker -------------------------------
(***************************************************************************)
(* The periodic worker, src/kernel/sched/kworker.c: register, unregister   *)
(* and the dispatch loop of the one worker thread.                         *)
(*                                                                         *)
(* Each section under s_kworker_lock is one step; callbacks run outside it. *)
(* A callback may itself unregister any registration, its own included.    *)
(* Time is counted in units of which periods are multiples.                *)
(***************************************************************************)
EXTENDS Integers, FiniteSets

CONSTANTS MaxEntries,      \* KWORKER_MAX_ENTRIES
          GenMod,          \* 2^23: KWORKER_GEN_MASK + 1
          MaxSleep,        \* KWORKER_MAX_SLEEP_MS
          Periods,         \* the periods callers ask for
          Clients,         \* threads that register and unregister
          MaxRegistrations,\* bound: registrations made in a behaviour
          MaxTime          \* bound: uptime reached in a behaviour

ASSUME KWorkerConstants ==
    /\ MaxEntries \in Nat \ {0} /\ MaxSleep \in Nat /\ MaxTime \in Nat
    /\ Periods \subseteq Nat \ {0}
    /\ MaxRegistrations \in Nat /\ GenMod \in Nat /\ GenMod > MaxRegistrations

VARIABLES entries,         \* s_entries
          time,            \* uptime_ns
          worker,          \* "scan", "callback", "measure", "pace" or "sleep"
          slot,            \* the entry the worker looks at
          now,             \* uptime at the start of its pass
          next,            \* the earliest deadline it has seen, then the wake time
          sleep,           \* sleep_ms_val
          late,            \* history: time between its two clock readings
          running_ctx,     \* the context of the callback it runs
          pc,              \* where a client is
          token,           \* the last token a client was given
          ctx,             \* the context registered with it
          made,            \* registrations made so far
          freed            \* contexts that clients have freed

vars == <<entries, time, worker, slot, now, next, sleep, late, running_ctx,
          pc, token, ctx, made, freed>>
clients == <<pc, token, ctx, made, freed>>
pass == <<slot, now, next, sleep, late, running_ctx>>
loop == <<worker, slot, now, next, sleep, late, running_ctx>>

Slots == 0 .. MaxEntries - 1
Contexts == 1 .. MaxRegistrations
None == 0
NoToken == [slot |-> 0, gen |-> GenMod]      \* -1: no generation is that large
Earlier(a, b) == IF a < b THEN a ELSE b

Init ==
    /\ entries = [i \in Slots |-> [active |-> FALSE, running |-> FALSE, generation |-> 0,
                                   ctx |-> None, period |-> 0, last_fire |-> 0, deadline |-> 0]]
    /\ time = 0
    /\ worker = "scan" /\ slot = 0 /\ now = 0 /\ next = MaxSleep
    /\ sleep = 0 /\ late = 0
    /\ running_ctx = None
    /\ pc = [c \in Clients |-> "idle"]
    /\ token = [c \in Clients |-> NoToken]
    /\ ctx = [c \in Clients |-> None]
    /\ made = 0
    /\ freed = {}

Tick ==
    /\ time < MaxTime
    /\ time' = time + 1
    /\ late' = IF worker = "pace" THEN late + 1 ELSE late
    /\ UNCHANGED <<entries, clients, worker, slot, now, next, sleep, running_ctx>>

-----------------------------------------------------------------------------
(* kworker_register *)

Vacant(i) == ~entries[i].active /\ ~entries[i].running

kworker_register(c, period) ==
    /\ pc[c] = "idle"
    /\ made < MaxRegistrations
    /\ \E i \in Slots :
         LET gen == (entries[i].generation + 1) % GenMod IN
         /\ Vacant(i) /\ \A j \in Slots : Vacant(j) => i <= j
         /\ entries' = [entries EXCEPT ![i] =
                [@ EXCEPT !.active = TRUE, !.generation = gen, !.ctx = made + 1,
                          !.period = period, !.last_fire = 0, !.deadline = time + period]]
         /\ token' = [token EXCEPT ![c] = [slot |-> i, gen |-> gen]]
    /\ made' = made + 1
    /\ ctx' = [ctx EXCEPT ![c] = made + 1]
    /\ pc' = [pc EXCEPT ![c] = "registered"]
    /\ UNCHANGED <<time, loop, freed>>

-----------------------------------------------------------------------------
(* kworker_unregister *)

\* Mutant: the generation is not compared.
BugTokenValid(t) == t # NoToken /\ entries[t.slot].active

TokenValid(t) ==
    /\ t # NoToken
    /\ entries[t.slot].active
    /\ entries[t.slot].generation = t.gen

\* From an ordinary thread: deactivate, then wait for the slot to be quiet.
\* An idle client still has its old token and may pass it by mistake.
UnregisterBegin(c) ==
    /\ pc[c] \in {"registered", "idle"}
    /\ TokenValid(token[c])
    /\ entries' = [entries EXCEPT ![token[c].slot].active = FALSE]
    /\ pc' = [pc EXCEPT ![c] = "drain"]
    /\ UNCHANGED <<time, loop, token, ctx, made, freed>>

\* Mutant: the wait for the running callback is left out.
BugDrained(c) ==
    /\ pc[c] = "drain"
    /\ pc' = [pc EXCEPT ![c] = "returned"]
    /\ UNCHANGED <<entries, time, loop, token, ctx, made, freed>>

UnregisterDrained(c) ==
    /\ pc[c] = "drain"
    /\ ~entries[token[c].slot].running
    /\ pc' = [pc EXCEPT ![c] = "returned"]
    /\ UNCHANGED <<entries, time, loop, token, ctx, made, freed>>

\* Mutant: a callback that unregisters itself waits for its own end.
BugOnWorker(c) ==
    /\ worker = "callback"
    /\ pc[c] = "registered"
    /\ TokenValid(token[c])
    /\ entries' = [entries EXCEPT ![token[c].slot].active = FALSE]
    /\ pc' = [pc EXCEPT ![c] = "drain"]
    /\ worker' = IF token[c].slot = slot THEN "waits" ELSE worker
    /\ UNCHANGED <<time, pass, token, ctx, made, freed>>

\* From a callback, on the worker: no wait.  The registration may be that of
\* the running callback, which then finishes normally.
UnregisterOnWorker(c) ==
    /\ worker = "callback"
    /\ pc[c] = "registered"
    /\ TokenValid(token[c])
    /\ entries' = [entries EXCEPT ![token[c].slot].active = FALSE]
    /\ pc' = [pc EXCEPT ![c] = IF token[c].slot = slot THEN "self" ELSE "returned"]
    /\ UNCHANGED <<time, loop, token, ctx, made, freed>>

\* The context is freed: after the drain, or after the callback itself.
FreeContext(c) ==
    /\ pc[c] = "returned" \/ (pc[c] = "self" /\ running_ctx # ctx[c])
    /\ freed' = freed \cup {ctx[c]}
    /\ pc' = [pc EXCEPT ![c] = "idle"]
    /\ UNCHANGED <<entries, time, loop, token, ctx, made>>

-----------------------------------------------------------------------------
(* kworker_main *)

Due(i) == entries[i].active /\ now >= entries[i].deadline

\* The next entry of the pass, or the end of it.
Advance(seen) ==
    /\ next' = seen
    /\ IF slot + 1 < MaxEntries THEN slot' = slot + 1 /\ worker' = "scan"
                                ELSE slot' = 0 /\ worker' = "measure"

\* Mutant: an entry that is not yet due does not shorten the sleep.
BugScanSkips ==
    /\ worker = "scan"
    /\ ~Due(slot)
    /\ Advance(next)
    /\ UNCHANGED <<entries, time, now, sleep, late, running_ctx, clients>>

ScanSkips ==
    /\ worker = "scan"
    /\ ~Due(slot)
    /\ Advance(IF entries[slot].active THEN Earlier(next, entries[slot].deadline) ELSE next)
    /\ UNCHANGED <<entries, time, now, sleep, late, running_ctx, clients>>

\* running is set in the section that checks active and the deadline.
ScanFires ==
    /\ worker = "scan"
    /\ Due(slot)
    /\ entries' = [entries EXCEPT ![slot].running = TRUE]
    /\ running_ctx' = entries[slot].ctx
    /\ worker' = "callback"
    /\ UNCHANGED <<time, slot, now, next, sleep, late, clients>>

\* The entry after its callback: coalesced to one period from now.
Rearm(i) ==
    [entries[i] EXCEPT !.running = FALSE, !.last_fire = now,
                       !.deadline = time + entries[i].period]

CallbackReturns ==
    LET entry == IF entries[slot].active THEN Rearm(slot)
                 ELSE [entries[slot] EXCEPT !.running = FALSE] IN
    /\ worker = "callback"
    /\ entries' = [entries EXCEPT ![slot] = entry]
    /\ running_ctx' = None
    /\ Advance(IF entry.active THEN Earlier(next, entry.deadline) ELSE next)
    /\ UNCHANGED <<time, now, sleep, late, clients>>

\* The first clock reading after a pass: how long to sleep, at most MaxSleep.
Measure ==
    /\ worker = "measure"
    /\ worker' = "pace"
    /\ sleep' = IF next > time THEN Earlier(next - time, MaxSleep) ELSE 0
    /\ UNCHANGED <<entries, time, slot, now, next, late, running_ctx, clients>>

\* The second reading, some time later: when to wake.
SetWake ==
    /\ worker = "pace"
    /\ worker' = "sleep"
    /\ next' = time + sleep
    /\ sleep' = 0                      \* dead from here on
    /\ UNCHANGED <<entries, time, slot, now, late, running_ctx, clients>>

\* The yield loop ends at the wake time, and a new pass begins.
NewPass ==
    /\ worker = "sleep"
    /\ time >= next
    /\ worker' = "scan"
    /\ now' = time
    /\ next' = time + MaxSleep
    /\ late' = 0
    /\ UNCHANGED <<entries, time, slot, sleep, running_ctx, clients>>

-----------------------------------------------------------------------------
ClientNext(c) ==
    \/ \E p \in Periods : kworker_register(c, p)
    \/ UnregisterBegin(c) \/ UnregisterDrained(c)
    \/ UnregisterOnWorker(c) \/ FreeContext(c)

WorkerNext == ScanSkips \/ ScanFires \/ CallbackReturns \/ Measure \/ SetWake \/ NewPass

Next == Tick \/ WorkerNext \/ \E c \in Clients : ClientNext(c)

Spec == Init /\ [][Next]_vars

(* The worker is runnable and callbacks are bounded.  Each pass ends in at *)
(* least one yield with no callback running, so a client that polls in turn *)
(* with the worker (round-robin) sees running clear: strong fairness.       *)
Fairness == WF_vars(WorkerNext) /\ \A c \in Clients : SF_vars(UnregisterDrained(c))

FairSpec == Spec /\ Fairness

-----------------------------------------------------------------------------
EntryType ==
    [active : BOOLEAN, running : BOOLEAN, generation : 0 .. GenMod - 1,
     ctx : Contexts \cup {None}, period : Periods \cup {0},
     last_fire : 0 .. MaxTime, deadline : Nat]

TypeOK ==
    /\ entries \in [Slots -> EntryType]
    /\ time \in 0 .. MaxTime /\ now \in 0 .. MaxTime /\ next \in Nat
    /\ sleep \in 0 .. MaxSleep /\ late \in Nat
    /\ worker \in {"scan", "callback", "measure", "pace", "sleep"}
    /\ slot \in Slots
    /\ running_ctx \in Contexts \cup {None}
    /\ pc \in [Clients -> {"idle", "registered", "drain", "returned", "self"}]
    /\ ctx \in [Clients -> Contexts \cup {None}]
    /\ made \in 0 .. MaxRegistrations
    /\ freed \subseteq Contexts

(* kworker.h: after unregister returns the callback will not fire again    *)
(* and any in-flight call has drained, so its context may be freed; also    *)
(* when it is another callback that unregisters it.                         *)
NoUseAfterFree == running_ctx \notin freed

(* A callback that runs belongs to the entry it was taken from: its slot   *)
(* is not given to a new registration while it runs.                        *)
RunningSlotKept ==
    worker = "callback" => /\ entries[slot].running
                           /\ entries[slot].ctx = running_ctx

(* A stale token never cancels the registration that reused its slot: a    *)
(* client that still counts itself registered has a live entry.             *)
StaleTokenHarmless ==
    \A c \in Clients :
        pc[c] = "registered" =>
            /\ TokenValid(token[c])
            /\ entries[token[c].slot].ctx = ctx[c]

(* A slot belongs to one registration at a time: neither a running         *)
(* callback nor a live client loses its entry to a reuse of the slot.       *)
SlotOwned == RunningSlotKept /\ StaleTokenHarmless

(* Overruns are coalesced: a callback that fires again does so at least    *)
(* one period after the pass that fired it last.                            *)
NoBurst ==
    \A i \in Slots :
        entries[i].active /\ entries[i].last_fire > 0 /\ worker = "sleep"
            => entries[i].deadline >= entries[i].last_fire + entries[i].period

(* The worker oversleeps no entry it has scanned by more than it was        *)
(* preempted between its two clock readings (kworker.c:245 and 250): when  *)
(* it sleeps past now, its wake time is no later than that after the        *)
(* deadline of any entry registered before the pass began.                  *)
WakesInTime ==
    worker = "sleep" =>
        \A i \in Slots :
            entries[i].active /\ entries[i].deadline - entries[i].period < now
                => next <= entries[i].deadline + late \/ next <= time

(* The worker keeps time: it fires no callback in a burst after an         *)
(* overrun, and oversleeps none but for the time it was preempted while it  *)
(* worked out how long to sleep.                                            *)
KeepsTime == NoBurst /\ WakesInTime

(* Unregister returns, even when its slot has been reused meanwhile, and    *)
(* on the worker too, where waiting would be for its own end: every pass    *)
(* ends, whatever its callbacks unregister.                                 *)
UnregisterReturns ==
    /\ \A c \in Clients : pc[c] = "drain" ~> pc[c] = "returned"
    /\ []<>(worker = "sleep")
=============================================================================
