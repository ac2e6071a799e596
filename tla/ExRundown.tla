----------------------------- MODULE ExRundown ------------------------------
(***************************************************************************)
(* EX_RUNDOWN_REF, src/kernel/ex/ex_rundown.c.                             *)
(*                                                                         *)
(* One 64-bit word: bit 0 says that the rundown has begun, the bits above  *)
(* it count references, so that a reference is +2.  Acquire and release    *)
(* are a load followed by a compare-and-swap loop; the wait sets bit 0     *)
(* with the same kind of loop and then polls the word.  Each load and each *)
(* compare-and-swap is one step.  The protected object is state of this    *)
(* model only: it is freed by an owner whose wait has returned.            *)
(***************************************************************************)
EXTENDS RundownWord, FiniteSets

CONSTANTS Users,      \* threads that take and drop references
          Owners      \* threads that run the object down

ASSUME RundownThreads == Users \cap Owners = {} /\ IsFiniteSet(Users)

VARIABLES Count,      \* EX_RUNDOWN_REF.Count
          at,         \* where each thread is in ex_rundown.c
          cur,        \* its local variable cur
          object      \* "live" or "freed"

rvars == <<Count, at, cur, object>>

Threads == Users \cup Owners

UserPc  == {"idle", "acquire", "using", "release", "bugcheck"}
OwnerPc == {"idle", "mark", "poll", "returned"}

RundownInit ==
    /\ Count = 0
    /\ at = [t \in Threads |-> "idle"]
    /\ cur = [t \in Threads |-> 0]
    /\ object = "live"

Goto(t, l) == at' = [at EXCEPT ![t] = l]

\* __atomic_load_n(&r->Count) into the thread's cur, on the way to label l.
LoadCount(t, from, to) ==
    /\ at[t] = from
    /\ cur' = [cur EXCEPT ![t] = Count]
    /\ Goto(t, to)
    /\ UNCHANGED <<Count, object>>

\* __atomic_compare_exchange_n: on success go to label l, on failure cur is
\* reloaded and the loop goes round.
CompareExchange(t, want, l) ==
    \/ /\ Count = cur[t]
       /\ Count' = want
       /\ Goto(t, l)
       /\ UNCHANGED <<cur, object>>
    \/ /\ Count # cur[t]
       /\ cur' = [cur EXCEPT ![t] = Count]
       /\ UNCHANGED <<Count, at, object>>

-----------------------------------------------------------------------------
(* Users *)

AcquireLoad(u) == LoadCount(u, "idle", "acquire")

AcquireRefused(u) ==
    /\ at[u] = "acquire"
    /\ ExIsRundownActive(cur[u])
    /\ Goto(u, "idle")
    /\ UNCHANGED <<Count, cur, object>>

\* Mutant: the reference is added without comparing with the word tested.
BugAcquireAdd(u) ==
    /\ at[u] = "acquire"
    /\ ~ExIsRundownActive(cur[u])
    /\ Count' = Count + EXP_RUNDOWN_REF_INC
    /\ Goto(u, "using")
    /\ UNCHANGED <<cur, object>>

AcquireCas(u) ==
    /\ at[u] = "acquire"
    /\ ~ExIsRundownActive(cur[u])
    /\ CompareExchange(u, cur[u] + EXP_RUNDOWN_REF_INC, "using")

ReleaseLoad(u) == LoadCount(u, "using", "release")

\* KeBugCheckEx: the word has no reference to give back.
UnbalancedRelease(u) == Goto(u, "bugcheck") /\ UNCHANGED <<Count, cur, object>>

\* Mutant: the new word is stored without comparing.
BugReleaseStore(u) ==
    /\ at[u] = "release"
    /\ Refs(cur[u]) # 0
    /\ Count' = cur[u] - EXP_RUNDOWN_REF_INC
    /\ Goto(u, "idle")
    /\ UNCHANGED <<cur, object>>

ReleaseCas(u) ==
    /\ at[u] = "release"
    /\ IF Refs(cur[u]) = 0
       THEN UnbalancedRelease(u)
       ELSE CompareExchange(u, cur[u] - EXP_RUNDOWN_REF_INC, "idle")

-----------------------------------------------------------------------------
(* Owners *)

WaitLoad(o) == LoadCount(o, "idle", "mark")

WaitAlreadyActive(o) ==
    /\ at[o] = "mark"
    /\ ExIsRundownActive(cur[o])
    /\ Goto(o, "poll")
    /\ UNCHANGED <<Count, cur, object>>

WaitMark(o) ==
    /\ at[o] = "mark"
    /\ ~ExIsRundownActive(cur[o])
    /\ CompareExchange(o, cur[o] + EXP_RUNDOWN_ACTIVE, "poll")

\* Mutant: the poll tests the copy read before the mark, not the word.
BugPollStale(o) ==
    /\ at[o] = "poll"
    /\ Refs(cur[o]) = 0
    /\ Goto(o, "returned")
    /\ UNCHANGED <<Count, cur, object>>

\* The poll reads a word with no reference; otherwise it yields and reads again.
WaitPoll(o) ==
    /\ at[o] = "poll"
    /\ Refs(Count) = 0
    /\ Goto(o, "returned")
    /\ UNCHANGED <<Count, cur, object>>

OwnersIdle == \A o \in Owners : at[o] = "idle"

\* Mutant: completion leaves the active bit clear.
BugCompletedClear(o) ==
    /\ OwnersIdle
    /\ Refs(Count) = 0
    /\ Count' = 0
    /\ Goto(o, "returned")
    /\ UNCHANGED <<cur, object>>

\* Called when the owner knows that no reference is live (kernel/ex.h).
ExRundownCompleted(o) ==
    /\ OwnersIdle
    /\ Refs(Count) = 0
    /\ Count' = EXP_RUNDOWN_ACTIVE
    /\ Goto(o, "returned")
    /\ UNCHANGED <<cur, object>>

\* What the wait is for: the owner destroys the object.
FreeObject(o) ==
    /\ at[o] = "returned"
    /\ object' = "freed"
    /\ Goto(o, "idle")
    /\ UNCHANGED <<Count, cur>>

\* Re-arming is legal after a completed rundown only (kernel/ex.h).
ExReInitializeRundownProtection ==
    /\ object = "freed"
    /\ OwnersIdle
    /\ Count' = 0
    /\ object' = "live"
    /\ UNCHANGED <<at, cur>>

-----------------------------------------------------------------------------
UserNext(u) ==
    \/ AcquireLoad(u) \/ AcquireRefused(u) \/ AcquireCas(u)
    \/ ReleaseLoad(u) \/ ReleaseCas(u)

OwnerNext(o) ==
    \/ WaitLoad(o) \/ WaitAlreadyActive(o) \/ WaitMark(o) \/ WaitPoll(o)
    \/ ExRundownCompleted(o) \/ FreeObject(o)

RundownNext ==
    \/ \E u \in Users : UserNext(u)
    \/ \E o \in Owners : OwnerNext(o)
    \/ ExReInitializeRundownProtection

RundownSpec == RundownInit /\ [][RundownNext]_rvars

(* The scheduler keeps running a thread that is inside a rundown call; the  *)
(* wait's precondition (holders run at the waiter's priority or above) is   *)
(* what makes it true of the holders while the waiter polls.                *)
RundownFairness ==
    /\ \A u \in Users : WF_rvars(ReleaseLoad(u) \/ ReleaseCas(u))
    /\ \A o \in Owners : WF_rvars(WaitAlreadyActive(o) \/ WaitMark(o) \/ WaitPoll(o))

FairRundownSpec == RundownSpec /\ RundownFairness

-----------------------------------------------------------------------------
RundownTypeOK ==
    /\ Count \in Nat
    /\ at \in [Threads -> UserPc \cup OwnerPc]
    /\ \A u \in Users : at[u] \in UserPc
    /\ \A o \in Owners : at[o] \in OwnerPc
    /\ cur \in [Threads -> Nat]
    /\ object \in {"live", "freed"}

\* The threads between a successful acquire and the end of its release.
Holders == {u \in Users : at[u] \in {"using", "release"}}

(* An owner that has been told the rundown is over may free the object: no *)
(* user is using it, and none can start to (ex_rundown.c, the wait's poll   *)
(* against the acquire's compare-and-swap on a stale cur).                  *)
NoUseAfterRundown ==
    (object = "freed" \/ \E o \in Owners : at[o] = "returned")
        => Holders = {}

(* The checked subtract never finds a word without references, so a        *)
(* balanced caller never meets its bugcheck.                                *)
NoUnbalancedRelease == \A u \in Users : at[u] # "bugcheck"

(* Whatever the interleaving of the three loops, the word counts the live  *)
(* references: no compare-and-swap loses or invents one.                    *)
CountMatchesHolders == Refs(Count) = Cardinality(Holders)

\* An owner past its mark relies on the active bit.
PollIsActive == \A o \in Owners : at[o] = "poll" => ExIsRundownActive(Count)

\* The bit an owner saw set while marking is still set.
MarkSawActive ==
    \A o \in Owners :
        at[o] = "mark" /\ ExIsRundownActive(cur[o]) => ExIsRundownActive(Count)

\* A releasing user's copy of the word was read while it held a reference.
ReleaseSawReference == \A u \in Users : at[u] = "release" => Refs(cur[u]) # 0

\* Behind a finished rundown the word is active and empty until re-armed.
OverIsFinal ==
    (object = "freed" \/ \E o \in Owners : at[o] = "returned") => Count = 1

(* The inductive invariant: what the loops of ex_rundown.c may rely on     *)
(* between a load and the compare-and-swap that follows it.                 *)
RundownInv ==
    /\ RundownTypeOK
    /\ CountMatchesHolders
    /\ PollIsActive
    /\ MarkSawActive
    /\ ReleaseSawReference
    /\ OverIsFinal
    /\ NoUnbalancedRelease

(* Once the active bit is set, no step adds a reference, and only          *)
(* re-arming clears the bit.                                                *)
ActiveRefusesAcquire ==
    [][ExIsRundownActive(Count) /\ ~ExReInitializeRundownProtection
        => ExIsRundownActive(Count') /\ Refs(Count') <= Refs(Count)]_rvars

(* An owner that polls returns: no release can be missed, as it could be   *)
(* with the kernel event the source comment argues against.                 *)
WaitReturns == \A o \in Owners : at[o] = "poll" ~> at[o] = "returned"

-----------------------------------------------------------------------------
Barrier == INSTANCE RundownBarrier
    WITH holders <- Holders, closed <- ExIsRundownActive(Count), object <- object

(* The word implements the abstract barrier: every acquire, release, mark, *)
(* free and re-arm is one atomic step of it.                                *)
ImplementsBarrier == Barrier!BarrierSpec
=============================================================================
