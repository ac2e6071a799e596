----------------------------- MODULE ExWorkItem -----------------------------
(***************************************************************************)
(* EX_WORK_ITEM, src/kernel/ex/ex_workitem.c, over the system work queue.  *)
(*                                                                         *)
(* Callers queue and cancel items; the worker runs the trampoline on each  *)
(* node; the owner of an item frees it when it has seen a drained state.   *)
(* Each compare-and-swap of State is one step, as is each section under    *)
(* the work queue's lock, so a cancel can land anywhere between them.      *)
(* Other threads flush the queue meanwhile.                                *)
(***************************************************************************)
EXTENDS Workqueue, FiniteSets

CONSTANTS Items,           \* the work items
          Callers,         \* threads that call ExQueueWorkItem and ExCancelWorkItem
          Flushers         \* threads that call workqueue_flush

ASSUME ItemAssumption == NoItem \notin Items   \* an item has an address other than NULL

VARIABLES State,           \* EX_WORK_ITEM.State
          pc,              \* where a caller is in ExQueueWorkItem
          arg,             \* the item it is queueing
          cur,             \* its local variable cur
          expected,        \* the trampoline's local variable
          freed,           \* items whose owner has freed them
          flush,           \* "idle", "count", "head" or "returned", per flusher
          owed             \* history: what was queued when its flush began and is
                           \* not yet processed

vars == <<pending, free_nodes, sem_count, worker, item,
          State, pc, arg, cur, expected, freed, flush, owed>>
flushvars == <<flush, owed>>

States == {"IDLE", "QUEUED", "RUNNING", "DONE", "CANCELLED"}
Drained == {"IDLE", "DONE"}

\* Mutant: a cancelled item may be queued again at once.
BugQueueable == {"IDLE", "DONE", "CANCELLED"}

\* The states ExQueueWorkItem accepts.
Queueable == {"IDLE", "DONE"}

Init ==
    /\ WqInit
    /\ State = [w \in Items |-> "IDLE"]
    /\ pc = [t \in Callers |-> "idle"]
    /\ arg = [t \in Callers |-> NoItem]
    /\ cur = [t \in Callers |-> "IDLE"]
    /\ expected = "QUEUED"
    /\ freed = {}
    /\ flush = [f \in Flushers |-> "idle"]
    /\ owed = [f \in Flushers |-> {}]

\* State of item w is swung from one value to another if it has the first.
Cas(w, from, to) == State[w] = from /\ State' = [State EXCEPT ![w] = to]

-----------------------------------------------------------------------------
(* ExQueueWorkItem *)

QueueLoad(t, w) ==
    /\ pc[t] = "idle"
    /\ w \notin freed
    /\ pc' = [pc EXCEPT ![t] = "claim"]
    /\ arg' = [arg EXCEPT ![t] = w]
    /\ cur' = [cur EXCEPT ![t] = State[w]]
    /\ UNCHANGED <<wqvars, State, expected, freed, flushvars>>

QueueRefused(t) ==
    /\ pc[t] = "claim"
    /\ cur[t] \notin Queueable
    /\ pc' = [pc EXCEPT ![t] = "idle"]
    /\ arg' = [arg EXCEPT ![t] = NoItem]
    /\ UNCHANGED <<wqvars, State, cur, expected, freed, flushvars>>

QueueClaim(t) ==
    /\ pc[t] = "claim"
    /\ cur[t] \in Queueable
    /\ \/ /\ Cas(arg[t], cur[t], "QUEUED")
          /\ pc' = [pc EXCEPT ![t] = "enqueue"]
          /\ UNCHANGED cur
       \/ /\ State[arg[t]] # cur[t]
          /\ cur' = [cur EXCEPT ![t] = State[arg[t]]]
          /\ UNCHANGED <<State, pc>>
    /\ UNCHANGED <<wqvars, arg, expected, freed, flushvars>>

QueuePublish(t) ==
    /\ pc[t] = "enqueue"
    /\ workqueue_enqueue(arg[t])
    /\ pc' = [pc EXCEPT ![t] = "idle"]
    /\ arg' = [arg EXCEPT ![t] = NoItem]
    /\ UNCHANGED <<State, cur, expected, freed, flushvars>>

QueueFull(t) ==
    /\ pc[t] = "enqueue"
    /\ PoolExhausted
    /\ pc' = [pc EXCEPT ![t] = "rollback"]
    /\ UNCHANGED <<wqvars, State, arg, cur, expected, freed, flushvars>>

\* QUEUED -> IDLE, unless a cancel has raced the item to CANCELLED.
QueueRollback(t) ==
    /\ pc[t] = "rollback"
    /\ \/ /\ Cas(arg[t], "QUEUED", "IDLE")
          /\ pc' = [pc EXCEPT ![t] = "idle"]
          /\ arg' = [arg EXCEPT ![t] = NoItem]
       \/ /\ State[arg[t]] # "QUEUED"
          /\ pc' = [pc EXCEPT ![t] = "rollback_cancelled"]
          /\ UNCHANGED <<State, arg>>
    /\ UNCHANGED <<wqvars, cur, expected, freed, flushvars>>

\* Mutant: an item cancelled during a failed enqueue is left CANCELLED.
BugRollbackCancelled(t) ==
    /\ pc[t] = "rollback_cancelled"
    /\ pc' = [pc EXCEPT ![t] = "idle"]
    /\ arg' = [arg EXCEPT ![t] = NoItem]
    /\ UNCHANGED <<wqvars, State, cur, expected, freed, flushvars>>

QueueRollbackCancelled(t) ==
    /\ pc[t] = "rollback_cancelled"
    /\ State' = IF State[arg[t]] = "CANCELLED"
                THEN [State EXCEPT ![arg[t]] = "IDLE"] ELSE State
    /\ pc' = [pc EXCEPT ![t] = "idle"]
    /\ arg' = [arg EXCEPT ![t] = NoItem]
    /\ UNCHANGED <<wqvars, cur, expected, freed, flushvars>>

-----------------------------------------------------------------------------
\* ExCancelWorkItem wins only from QUEUED; otherwise it changes nothing.
ExCancelWorkItem(w) ==
    /\ w \notin freed
    /\ Cas(w, "QUEUED", "CANCELLED")
    /\ UNCHANGED <<wqvars, pc, arg, cur, expected, freed, flushvars>>

\* The lifetime contract of kernel/ex.h: the owner frees an item in a drained
\* state when no queueing of it is under way.
FreeItem(w) ==
    /\ w \notin freed
    /\ State[w] \in Drained
    /\ \A t \in Callers : arg[t] # w
    /\ freed' = freed \cup {w}
    /\ UNCHANGED <<wqvars, State, pc, arg, cur, expected, flushvars>>

-----------------------------------------------------------------------------
(* The worker and ex_work_trampoline *)

Dequeue == WorkerDequeue /\ UNCHANGED <<State, pc, arg, cur, expected, freed, flushvars>>

\* The callback of the worker's node is done: no flush is owed it any more.
Processed == owed' = [f \in Flushers |-> owed[f] \ {item}]

\* Mutant: DONE is stored before the routine is called.
BugClaimDone ==
    /\ worker = "call"
    /\ \/ /\ Cas(item, "QUEUED", "DONE")
          /\ worker' = "routine"
          /\ UNCHANGED expected
       \/ /\ State[item] # "QUEUED"
          /\ expected' = State[item]
          /\ worker' = "drain"
          /\ UNCHANGED State
    /\ UNCHANGED <<pending, free_nodes, sem_count, item, pc, arg, cur, freed, flushvars>>

TrampolineClaim ==
    /\ worker = "call"
    /\ \/ /\ Cas(item, "QUEUED", "RUNNING")
          /\ worker' = "routine"
          /\ UNCHANGED expected
       \/ /\ State[item] # "QUEUED"
          /\ expected' = State[item]
          /\ worker' = "drain"
          /\ UNCHANGED State
    /\ UNCHANGED <<pending, free_nodes, sem_count, item, pc, arg, cur, freed, flushvars>>

\* The routine has returned.
TrampolineDone ==
    /\ worker = "routine"
    /\ State' = [State EXCEPT ![item] = "DONE"]
    /\ worker' = "return"
    /\ Processed
    /\ UNCHANGED <<pending, free_nodes, sem_count, item, pc, arg, cur, expected, freed, flush>>

TrampolineDrain ==
    /\ worker = "drain"
    /\ State' = IF expected = "CANCELLED" /\ State[item] = expected
                THEN [State EXCEPT ![item] = "IDLE"] ELSE State
    /\ expected' = "QUEUED"
    /\ worker' = "return"
    /\ Processed
    /\ UNCHANGED <<pending, free_nodes, sem_count, item, pc, arg, cur, freed, flush>>

ReturnNode == WorkerReturnNode /\ UNCHANGED <<State, pc, arg, cur, expected, freed, flushvars>>

-----------------------------------------------------------------------------
(* workqueue_flush *)

InHand(w) == worker \in {"call", "routine", "drain"} /\ item = w

FlushBegin(f) ==
    /\ flush[f] \in {"idle", "returned"}
    /\ flush' = [flush EXCEPT ![f] = "count"]
    /\ owed' = [owed EXCEPT ![f] = {pending[k] : k \in 1 .. Len(pending)}
                                       \cup {w \in Items : InHand(w)}]
    /\ UNCHANGED <<wqvars, State, pc, arg, cur, expected, freed>>

\* Mutant: the count alone is tested, and off by one.
BugFlushPoll(f) ==
    /\ flush[f] = "count" /\ ~(sem_count > 1)
    /\ flush' = [flush EXCEPT ![f] = "returned"]
    /\ UNCHANGED <<wqvars, State, pc, arg, cur, expected, freed, owed>>

\* The count is loaded, and once it is zero the head; either may send the
\* flush round its loop again.
FlushPoll(f) ==
    /\ \/ /\ flush[f] = "count" /\ CountZero
          /\ flush' = [flush EXCEPT ![f] = "head"]
       \/ /\ flush[f] = "head"
          /\ flush' = [flush EXCEPT ![f] = IF HeadNull THEN "returned" ELSE "count"]
    /\ UNCHANGED <<wqvars, State, pc, arg, cur, expected, freed, owed>>

-----------------------------------------------------------------------------
CallerNext(t) ==
    \/ \E w \in Items : QueueLoad(t, w)
    \/ QueueRefused(t) \/ QueueClaim(t) \/ QueuePublish(t)
    \/ QueueFull(t) \/ QueueRollback(t) \/ QueueRollbackCancelled(t)

WorkerNext == Dequeue \/ TrampolineClaim \/ TrampolineDone \/ TrampolineDrain \/ ReturnNode

Next ==
    \/ \E t \in Callers : CallerNext(t)
    \/ \E w \in Items : ExCancelWorkItem(w) \/ FreeItem(w)
    \/ WorkerNext
    \/ \E f \in Flushers : FlushBegin(f) \/ FlushPoll(f)

Spec == Init /\ [][Next]_vars

(* The worker is a runnable kernel thread and routines return; a caller    *)
(* that has claimed an item runs on; a flusher polls between its yields.    *)
Fairness ==
    /\ WF_vars(WorkerNext)
    /\ \A f \in Flushers : WF_vars(FlushPoll(f))
    /\ \A t \in Callers :
         WF_vars(QueuePublish(t) \/ QueueFull(t) \/ QueueRollback(t)
                 \/ QueueRollbackCancelled(t))

FairSpec == Spec /\ Fairness

-----------------------------------------------------------------------------
TypeOK ==
    /\ pending \in Seq(Items)
    /\ free_nodes \in 0 .. WQ_POOL_SIZE
    /\ sem_count \in 0 .. WQ_POOL_SIZE
    /\ worker \in {"wait", "call", "routine", "drain", "return"}
    /\ item \in Items \cup {NoItem}
    /\ State \in [Items -> States]
    /\ pc \in [Callers -> {"idle", "claim", "enqueue", "rollback", "rollback_cancelled"}]
    /\ arg \in [Callers -> Items \cup {NoItem}]
    /\ cur \in [Callers -> States]
    /\ expected \in States
    /\ freed \subseteq Items
    /\ flush \in [Flushers -> {"idle", "count", "head", "returned"}]
    /\ owed \in [Flushers -> SUBSET Items]

\* The nodes that still refer to item w: pending, or being dispatched.
NodesOf(w) ==
    Cardinality({k \in 1 .. Len(pending) : pending[k] = w})
        + (IF InHand(w) THEN 1 ELSE 0)

\* The callers that have claimed w and not yet published or given it up.
Claiming(w) ==
    {t \in Callers : pc[t] \in {"enqueue", "rollback", "rollback_cancelled"} /\ arg[t] = w}

(* An item never has two nodes: a cancelled item cannot be queued again    *)
(* while its stale node is pending, and an active item has exactly one node *)
(* or one caller about to publish or withdraw it.                           *)
OneNodePerItem ==
    \A w \in Items :
        NodesOf(w) + Cardinality(Claiming(w)) = IF State[w] \in Drained THEN 0 ELSE 1

(* The lifetime contract: once an owner has freed a drained item, neither  *)
(* a node nor a caller of ExQueueWorkItem refers to it.                     *)
FreedIsUnreferenced ==
    \A w \in freed : NodesOf(w) = 0 /\ \A t \in Callers : arg[t] # w

(* The routine runs only in an item that no cancel has won, and a node is  *)
(* dropped only for an item that a cancel has: the trampoline's comment      *)
(* says that an item that is not QUEUED was cancelled while queued.         *)
RunsOnlyUncancelled ==
    /\ worker = "routine" => State[item] = "RUNNING"
    /\ worker = "drain" => expected = "CANCELLED" /\ State[item] = "CANCELLED"

(* The two halves of an item's lifetime: its routine runs only if no       *)
(* cancel won, and once it is freed nothing touches it.                     *)
LifetimeKept == FreedIsUnreferenced /\ RunsOnlyUncancelled

(* A queued or cancelled item reaches a drained state, so that its owner   *)
(* may poll for one; also when the enqueue failed and a cancel raced it.    *)
AlwaysDrains == \A w \in Items : State[w] \in {"QUEUED", "CANCELLED"} ~> State[w] \in Drained

(* Every node of the pool is free, pending or in the worker's hand, and    *)
(* the semaphore counts the pending ones: none is lost or handed out twice. *)
NodesConserved ==
    /\ free_nodes + Len(pending) + (IF worker = "wait" THEN 0 ELSE 1) = WQ_POOL_SIZE
    /\ sem_count = Len(pending)

(* Nodes and items account for each other: no item has two nodes, and no   *)
(* node is lost or handed out twice, whatever is cancelled or rolled back.  *)
NodesAccounted == OneNodePerItem /\ NodesConserved

(* When a flush has returned, everything queued or running at its call has  *)
(* been processed, except at most the one item that the worker has in hand: *)
(* its two loads (workqueue.c:220) are not under the lock, and neither sees *)
(* the node the worker has unlinked.                                        *)
FlushLeavesAtMostOne ==
    \A f \in Flushers : flush[f] = "returned" => \A w \in owed[f] : InHand(w)

(* A flush returns once producers pause; only an endless stream of new     *)
(* work can hold it.                                                        *)
FlushReturnsEventually ==
    \A f \in Flushers :
        \/ []<><<\E t \in Callers : QueuePublish(t)>>_vars
        \/ flush[f] = "count" ~> flush[f] = "returned"
=============================================================================
