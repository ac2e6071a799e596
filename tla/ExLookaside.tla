---------------------------- MODULE ExLookaside -----------------------------
(***************************************************************************)
(* Lookaside lists, src/kernel/ex/ex_lookaside.c: a cache of blocks in an  *)
(* interlocked list over a backing allocator.  Allocation pops, or grows   *)
(* from the heap; freeing pushes, and with more than max_depth blocks      *)
(* cached pops one, not necessarily its own, and gives it to the heap.     *)
(* The heap may be used at APC_LEVEL and below only.                       *)
(*                                                                         *)
(* The verifier, which only tests turn on, is off.                         *)
(***************************************************************************)
EXTENDS ExSList

CONSTANTS Depth,           \* the depth the list is initialised with
          EX_LOOKASIDE_DEFAULT_DEPTH,
          EX_LOOKASIDE_MAX_DEPTH,
          MaxCalls         \* bound on the number of calls

ASSUME LookasideConstants ==
    /\ Depth \in Nat /\ MaxCalls \in Nat /\ IsFiniteSet(Cpu)
    /\ EX_LOOKASIDE_DEFAULT_DEPTH \in Nat \ {0}
    /\ EX_LOOKASIDE_DEFAULT_DEPTH <= EX_LOOKASIDE_MAX_DEPTH
    /\ EX_LOOKASIDE_MAX_DEPTH \in Nat /\ EX_LOOKASIDE_MAX_DEPTH < SLIST_DEPTH_MAX

VARIABLES initialized,
          paged,
          call,            \* what each processor is doing with the list
          irql,            \* the level it does it at
          calls,           \* number of calls so far
          over             \* history: frees above APC_LEVEL that left the cache too deep

lvars == <<initialized, paged, call, irql, calls, over>>
vars == <<svars, lvars>>

Low == "<= APC_LEVEL"
High == "> APC_LEVEL"

\* la_init clamps the depth below the point where the list's own count stops.
max_depth ==
    IF Depth = 0 THEN EX_LOOKASIDE_DEFAULT_DEPTH
    ELSE IF Depth > EX_LOOKASIDE_MAX_DEPTH THEN EX_LOOKASIDE_MAX_DEPTH
    ELSE Depth

Init ==
    /\ SListInit
    /\ initialized = TRUE
    /\ paged \in BOOLEAN
    /\ call = [c \in Cpu |-> "none"]
    /\ irql = [c \in Cpu |-> Low]
    /\ calls = 0
    /\ over = 0

\* Delete is for lists whose users are done: nobody calls while it runs.
Deleting == \E c \in Cpu : call[c] = "delete"
Quiet == \A c \in Cpu : call[c] = "none"

\* A processor enters la_allocate, la_free or la_drain at level q.
Enter(c, what, q) ==
    /\ call[c] = "none" /\ calls < MaxCalls /\ ~Deleting
    /\ call' = [call EXCEPT ![c] = what]
    /\ irql' = [irql EXCEPT ![c] = q]
    /\ calls' = calls + 1

\* A paged list cannot be touched above APC_LEVEL, nor a list that is not there.
Usable(q) == initialized /\ ~(paged /\ q = High)

Leave(c) ==
    /\ call' = [call EXCEPT ![c] = "none"]
    /\ irql' = [irql EXCEPT ![c] = Low]
    /\ UNCHANGED <<initialized, paged, calls>>

(* -------------------------------- la_allocate --------------------------- *)

Allocate(c, q) ==
    /\ Usable(q)
    /\ Enter(c, "allocate", q)
    /\ PopCall(c)
    /\ UNCHANGED <<initialized, paged, over>>

AllocateHit(c) ==
    /\ call[c] = "allocate" /\ ret[c] \in Entry
    /\ Collect(c)
    /\ Leave(c)
    /\ UNCHANGED <<own, over>>

\* The cache was empty: the heap, which may have nothing, or NULL above APC_LEVEL.
AllocateMiss(c) ==
    /\ call[c] = "allocate" /\ ret[c] = NULL
    /\ Collect(c)
    /\ \/ UNCHANGED own
       \/ /\ irql[c] = Low
          /\ \E e \in Entry : own[e] = "heap" /\ own' = [own EXCEPT ![e] = c]
    /\ Leave(c)
    /\ UNCHANGED over

(* ---------------------------------- la_free ----------------------------- *)

Free(c, e, q) ==
    /\ Usable(q)
    /\ Enter(c, "free", q)
    /\ PushCall(c, e)
    /\ UNCHANGED <<initialized, paged, over>>

\* Mutant: the depth is the one from before the push.
BugTooDeep == head.Depth - 1 > max_depth

\* ExQueryDepthSList after the push.
TooDeep == head.Depth > max_depth

FreeTrims(c) ==
    /\ call[c] = "free" /\ TooDeep /\ irql[c] = Low
    /\ Collect(c)
    /\ call' = [call EXCEPT ![c] = "trim"]
    /\ UNCHANGED <<own, initialized, paged, irql, calls, over>>

FreeKeeps(c) ==
    /\ call[c] = "free" /\ ~(TooDeep /\ irql[c] = Low)
    /\ Collect(c)
    /\ Leave(c)
    /\ over' = IF TooDeep THEN over + 1 ELSE over
    /\ UNCHANGED own

TrimPop(c) ==
    /\ call[c] = "trim"
    /\ PopCall(c)
    /\ UNCHANGED lvars

\* backing_free of what the pop returned.
ToHeap(c) ==
    own' = IF ret[c] = NULL THEN own ELSE [own EXCEPT ![ret[c]] = "heap"]

TrimDone(c) ==
    /\ call[c] = "trim"
    /\ Collect(c)
    /\ ToHeap(c)
    /\ Leave(c)
    /\ UNCHANGED over

(* --------------------------------- la_drain ----------------------------- *)

\* ExDeleteLookasideListEx: the list is gone only when the drain ran.
Invalidate(drained) == initialized' = IF drained THEN FALSE ELSE initialized

Drain(c, how) ==
    /\ initialized
    /\ how = "delete" => Quiet
    /\ Enter(c, how, Low)
    /\ PopCall(c)
    /\ UNCHANGED <<initialized, paged, over>>

\* The loop of la_drain: pop and give to the heap until the list is empty.
DrainOne(c) ==
    /\ call[c] \in {"flush", "delete"} /\ ret[c] \in Entry
    /\ Collect(c)
    /\ ToHeap(c)
    /\ UNCHANGED lvars

DrainAgain(c) ==
    /\ call[c] \in {"flush", "delete"}
    /\ PopCall(c)
    /\ UNCHANGED lvars

DrainEnds(c) ==
    /\ call[c] \in {"flush", "delete"} /\ ret[c] = NULL
    /\ Collect(c)
    /\ call' = [call EXCEPT ![c] = "none"]
    /\ IF call[c] = "delete" THEN Invalidate(TRUE) ELSE UNCHANGED initialized
    /\ UNCHANGED <<own, paged, irql, calls, over>>

\* la_drain refuses above APC_LEVEL and leaves the cache alone.
DeleteRefused ==
    /\ Quiet /\ initialized /\ calls < MaxCalls
    /\ calls' = calls + 1
    /\ Invalidate(FALSE)
    /\ UNCHANGED <<svars, paged, call, irql, over>>

Next ==
    \/ \E c \in Cpu :
         \/ \E q \in {Low, High} : Allocate(c, q) \/ \E e \in Entry : Free(c, e, q)
         \/ \E how \in {"flush", "delete"} : Drain(c, how)
         \/ AllocateHit(c) \/ AllocateMiss(c)
         \/ FreeTrims(c) \/ FreeKeeps(c) \/ TrimPop(c) \/ TrimDone(c)
         \/ DrainOne(c) \/ DrainAgain(c) \/ DrainEnds(c)
         \/ SListStep(c) /\ UNCHANGED lvars
    \/ DeleteRefused
    \/ \E e \in Entry : Overwrite(e) /\ UNCHANGED lvars

Spec == Init /\ [][Next]_vars

(* -------------------------------- Properties ---------------------------- *)

\* The frees that have pushed a block and not yet decided about, or not yet
\* done, the trimming.
Trimming == {c \in Cpu : call[c] = "trim" \/ (call[c] = "free" /\ ret[c] # Pending)}

\* However frees interleave, the cache is never deeper than max_depth by more
\* than the frees still at work, plus one block for each free made above
\* APC_LEVEL, which later frees replace but do not reclaim.
CacheBounded == Len(stack) <= max_depth + Cardinality(Trimming) + over

\* A list that has been deleted holds no block: a delete that could not drain
\* leaves it usable, so that its blocks stay reachable.
DeletedIsEmpty == ~initialized => stack = <<>>

\* The cache neither grows without bound nor strands a block.
CacheInv == CacheBounded /\ DeletedIsEmpty
=============================================================================
