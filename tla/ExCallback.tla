----------------------------- MODULE ExCallback -----------------------------
(***************************************************************************)
(* Ex callback objects, src/kernel/ex/ex_callback.c: register, unregister  *)
(* and notify on one callback object.                                      *)
(*                                                                         *)
(* The body of each spin_lock_irqsave section is one step.  The rundown    *)
(* word of a slot is used outside the object lock as well, by the drain of *)
(* unregister and the releases of notify; its operations are the atomic    *)
(* steps that ExRundown implements.  Every registration has a context of   *)
(* its own, which its consumer frees when unregister has returned.         *)
(***************************************************************************)
EXTENDS RundownWord, FiniteSets

CONSTANTS MaxSlots,        \* EX_CALLBACK_MAX_SLOTS
          GenMod,          \* 2^56: EXPC_GEN_MASK + 1
          Consumers,       \* threads that register and unregister
          Notifiers,       \* threads that call ExNotifyCallback
          MaxRegistrations \* bound: registrations made in a behaviour

ASSUME CallbackConstants ==
    /\ MaxSlots \in Nat \ {0}
    /\ GenMod \in Nat /\ MaxRegistrations \in Nat /\ GenMod > MaxRegistrations
    /\ IsFiniteSet(Notifiers)

VARIABLES slots,           \* expc_slot_t: state, generation, context, rundown
          allow_multiple,  \* fixed when the object is created
          active_count,    \* active_count of the object
          pc,              \* where a consumer is in ExUnregisterCallback
          cookie,          \* the last cookie a consumer was given
          context,         \* the context it registered with that cookie
          snap,            \* per notifier: the contexts still to be called
          made,            \* registrations made so far
          freed            \* contexts that consumers have freed

vars == <<slots, allow_multiple, active_count, pc, cookie, context, snap, made, freed>>

Slots == 0 .. MaxSlots - 1
Contexts == 1 .. MaxRegistrations
None == 0                  \* no context

\* EXPC_COOKIE packs the two fields; a generation of 1 or more keeps a cookie
\* from being 0, the value that a refused registration returns.
Cookies == [slot : Slots, gen : 0 .. GenMod - 1]
NoCookie == [slot |-> 0, gen |-> 0]

FreeSlots == {i \in Slots : slots[i].state = "FREE"}
First(i, S) == i \in S /\ \A j \in S : i <= j

NextGeneration(g) ==
    LET n == (g + 1) % GenMod IN IF n = 0 THEN 1 ELSE n

Init ==
    /\ slots = [i \in Slots |-> [state |-> "FREE", generation |-> 0,
                                 context |-> None, rundown |-> 0]]
    /\ allow_multiple \in BOOLEAN
    /\ active_count = 0
    /\ pc = [c \in Consumers |-> "idle"]
    /\ cookie = [c \in Consumers |-> NoCookie]
    /\ context = [c \in Consumers |-> None]
    /\ snap = [n \in Notifiers |-> [i \in Slots |-> None]]
    /\ made = 0
    /\ freed = {}

-----------------------------------------------------------------------------
(* ExRegisterCallback *)

\* The single-registration cap, or no free slot: cookie 0 is returned.
RegisterRefused == (~allow_multiple /\ active_count > 0) \/ FreeSlots = {}

\* Mutant: a reused slot keeps the rundown word of its last registration.
BugRegisterNoRearm(c) ==
    /\ pc[c] = "idle"
    /\ made < MaxRegistrations
    /\ ~RegisterRefused
    /\ \E i \in Slots :
         LET gen == NextGeneration(slots[i].generation) IN
         /\ First(i, FreeSlots)
         /\ slots' = [slots EXCEPT ![i] = [state |-> "ACTIVE", generation |-> gen,
                                           context |-> made + 1, rundown |-> slots[i].rundown]]
         /\ cookie' = [cookie EXCEPT ![c] = [slot |-> i, gen |-> gen]]
    /\ active_count' = active_count + 1
    /\ made' = made + 1
    /\ context' = [context EXCEPT ![c] = made + 1]
    /\ pc' = [pc EXCEPT ![c] = "registered"]
    /\ UNCHANGED <<allow_multiple, snap, freed>>

\* The first free slot is re-armed, filled and published under the lock.
ExRegisterCallback(c) ==
    /\ pc[c] = "idle"
    /\ made < MaxRegistrations
    /\ ~RegisterRefused
    /\ \E i \in Slots :
         LET gen == NextGeneration(slots[i].generation) IN
         /\ First(i, FreeSlots)
         /\ slots' = [slots EXCEPT ![i] = [state |-> "ACTIVE", generation |-> gen,
                                           context |-> made + 1, rundown |-> 0]]
         /\ cookie' = [cookie EXCEPT ![c] = [slot |-> i, gen |-> gen]]
    /\ active_count' = active_count + 1
    /\ made' = made + 1
    /\ context' = [context EXCEPT ![c] = made + 1]
    /\ pc' = [pc EXCEPT ![c] = "registered"]
    /\ UNCHANGED <<allow_multiple, snap, freed>>

-----------------------------------------------------------------------------
(* ExUnregisterCallback *)

\* Mutant: the generation in the cookie is not compared.
BugCookieNoGeneration(k) == slots[k.slot].state = "ACTIVE"

CookieValid(k) ==
    /\ slots[k.slot].state = "ACTIVE"
    /\ slots[k.slot].generation = k.gen

\* The cookie is checked and the slot marked, under the lock.  A consumer
\* that is idle again still has its old cookie and may pass it by mistake.
UnregisterBegin(c) ==
    /\ pc[c] \in {"registered", "idle"}
    /\ cookie[c] # NoCookie
    /\ CookieValid(cookie[c])
    /\ slots' = [slots EXCEPT ![cookie[c].slot].state = "UNREGISTERING"]
    /\ pc' = [pc EXCEPT ![c] = "mark"]
    /\ UNCHANGED <<allow_multiple, active_count, cookie, context, snap, made, freed>>

\* ExWaitForRundownProtectionRelease, first half: set the active bit.
UnregisterMark(c) ==
    LET i == cookie[c].slot IN
    /\ pc[c] = "mark"
    /\ slots' = [slots EXCEPT ![i].rundown =
                    IF ExIsRundownActive(@) THEN @ ELSE @ + EXP_RUNDOWN_ACTIVE]
    /\ pc' = [pc EXCEPT ![c] = "drain"]
    /\ UNCHANGED <<allow_multiple, active_count, cookie, context, snap, made, freed>>

\* Mutant: the drain is not waited for.
BugDrainSkipped(c) ==
    /\ pc[c] = "drain"
    /\ pc' = [pc EXCEPT ![c] = "clear"]
    /\ UNCHANGED <<allow_multiple, slots, active_count, cookie, context, snap, made, freed>>

\* Second half: the poll finds no reference left.
UnregisterDrained(c) ==
    /\ pc[c] = "drain"
    /\ Refs(slots[cookie[c].slot].rundown) = 0
    /\ pc' = [pc EXCEPT ![c] = "clear"]
    /\ UNCHANGED <<allow_multiple, slots, active_count, cookie, context, snap, made, freed>>

\* The slot is given back under the lock, and unregister returns.
UnregisterEnd(c) ==
    LET i == cookie[c].slot IN
    /\ pc[c] = "clear"
    /\ slots' = [slots EXCEPT ![i].state = "FREE", ![i].context = None]
    /\ active_count' = IF active_count > 0 THEN active_count - 1 ELSE 0
    /\ pc' = [pc EXCEPT ![c] = "returned"]
    /\ UNCHANGED <<allow_multiple, cookie, context, snap, made, freed>>

\* The consumer frees its context, as the contract allows it to.
FreeContext(c) ==
    /\ pc[c] = "returned"
    /\ freed' = freed \cup {context[c]}
    /\ pc' = [pc EXCEPT ![c] = "idle"]
    /\ UNCHANGED <<allow_multiple, slots, active_count, cookie, context, snap, made>>

-----------------------------------------------------------------------------
(* ExNotifyCallback *)

Pending(n) == {i \in Slots : snap[n][i] # None}

\* The slots whose rundown the snapshot acquires.
Notified == {i \in Slots : slots[i].state = "ACTIVE" /\ ~ExIsRundownActive(slots[i].rundown)}

\* Under the lock, every active slot is referenced and copied.
NotifySnapshot(n) ==
    /\ Pending(n) = {}
    /\ Notified # {}
    /\ slots' = [i \in Slots |->
                    IF i \in Notified
                    THEN [slots[i] EXCEPT !.rundown = @ + EXP_RUNDOWN_REF_INC]
                    ELSE slots[i]]
    /\ snap' = [snap EXCEPT ![n] =
                    [i \in Slots |-> IF i \in Notified THEN slots[i].context ELSE None]]
    /\ UNCHANGED <<allow_multiple, active_count, pc, cookie, context, made, freed>>

\* Mutant: the reference is kept when the routine returns.
BugNotifyKeepsRef(n) ==
    \E i \in Slots :
        /\ First(i, Pending(n))
        /\ snap' = [snap EXCEPT ![n][i] = None]
        /\ UNCHANGED <<allow_multiple, slots, active_count, pc, cookie, context, made, freed>>

\* The routine that is running returns, and the slot's reference is dropped.
NotifyReturns(n) ==
    \E i \in Slots :
        /\ First(i, Pending(n))
        /\ slots' = [slots EXCEPT ![i].rundown = @ - EXP_RUNDOWN_REF_INC]
        /\ snap' = [snap EXCEPT ![n][i] = None]
        /\ UNCHANGED <<allow_multiple, active_count, pc, cookie, context, made, freed>>

-----------------------------------------------------------------------------
ConsumerNext(c) ==
    \/ ExRegisterCallback(c) \/ UnregisterBegin(c) \/ UnregisterMark(c)
    \/ UnregisterDrained(c) \/ UnregisterEnd(c) \/ FreeContext(c)

Next ==
    \/ \E c \in Consumers : ConsumerNext(c)
    \/ \E n \in Notifiers : NotifySnapshot(n) \/ NotifyReturns(n)

Spec == Init /\ [][Next]_vars

(* A thread inside a call keeps running, and callback routines return.     *)
Fairness ==
    /\ \A c \in Consumers :
         WF_vars(UnregisterMark(c) \/ UnregisterDrained(c) \/ UnregisterEnd(c))
    /\ \A n \in Notifiers : WF_vars(NotifyReturns(n))

FairSpec == Spec /\ Fairness

-----------------------------------------------------------------------------
SlotType ==
    [state : {"FREE", "ACTIVE", "UNREGISTERING"}, generation : 0 .. GenMod - 1,
     context : Contexts \cup {None}, rundown : Nat]

TypeOK ==
    /\ slots \in [Slots -> SlotType]
    /\ allow_multiple \in BOOLEAN
    /\ active_count \in Nat
    /\ pc \in [Consumers -> {"idle", "registered", "mark", "drain", "clear", "returned"}]
    /\ cookie \in [Consumers -> Cookies]
    /\ context \in [Consumers -> Contexts \cup {None}]
    /\ snap \in [Notifiers -> [Slots -> Contexts \cup {None}]]
    /\ made \in 0 .. MaxRegistrations
    /\ freed \subseteq Contexts

\* The notifiers that hold a reference on slot i.
SlotHolders(i) == {n \in Notifiers : snap[n][i] # None}

(* A routine is never called with a context that its consumer has freed:   *)
(* the drain of unregister waits for every snapshot that includes it.       *)
NoUseAfterFree ==
    \A n \in Notifiers, i \in Slots : snap[n][i] \notin freed

(* When unregister has drained the slot, no routine of that registration   *)
(* is running or still to be called on any CPU.                             *)
ReturnedMeansQuiet ==
    \A c \in Consumers, n \in Notifiers, i \in Slots :
        pc[c] \in {"clear", "returned"} => snap[n][i] # context[c]

(* A stale cookie never tears down the registration that reused its slot:  *)
(* a slot being unregistered holds the context of the consumer doing so,    *)
(* and no two consumers drain the same slot.                                *)
StaleCookieHarmless ==
    \A c \in Consumers :
        pc[c] \in {"mark", "drain", "clear"} =>
            /\ slots[cookie[c].slot].context = context[c]
            /\ slots[cookie[c].slot].state = "UNREGISTERING"
            /\ \A d \in Consumers \ {c} :
                 pc[d] \in {"mark", "drain", "clear"} => cookie[d].slot # cookie[c].slot

(* active_count counts the slots in use, so the single-registration cap    *)
(* refuses exactly while another registration exists or is draining.        *)
ActiveCountExact ==
    /\ active_count = Cardinality(Slots \ FreeSlots)
    /\ ~allow_multiple => active_count <= 1

(* Re-arming on reuse: an active slot's rundown admits references, so no   *)
(* notification skips a live registration; and a free slot has none left.   *)
RundownFollowsState ==
    \A i \in Slots :
        /\ slots[i].state = "ACTIVE" => ~ExIsRundownActive(slots[i].rundown)
        /\ Refs(slots[i].rundown) = Cardinality(SlotHolders(i))

(* The bookkeeping of the slots, which the lock is dropped and retaken     *)
(* over: unregister leaves nothing running, the count behind the cap is     *)
(* exact, and a reused slot admits notifications again.                     *)
CallbackInv == ReturnedMeansQuiet /\ ActiveCountExact /\ RundownFollowsState

(* Unregister returns once the running routines have.                       *)
UnregisterReturns ==
    \A c \in Consumers : pc[c] = "mark" ~> pc[c] = "returned"
=============================================================================
