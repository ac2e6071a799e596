--------------------------- MODULE ExRundownProofs --------------------------
(***************************************************************************)
(* Proofs about rundown protection and about the callback objects that     *)
(* rest on it: about ExRundown, for any finite set of users and any        *)
(* owners, and about ExCallback, for any number of slots, any consumers,   *)
(* any finite set of notifiers and any bound on the registrations below    *)
(* the range of the generation.                                            *)
(***************************************************************************)
EXTENDS ExRundown, ExCallback, FiniteSetTheorems, TLAPS

-----------------------------------------------------------------------------
(* The rundown word. *)

(* Bit 0 of the word and the count above it, under the three updates that *)
(* the code performs.                                                      *)
LEMMA WordArithmetic ==
    ASSUME NEW c \in Nat
    PROVE  /\ Refs(c) \in Nat
           /\ c % 2 \in {0, 1}
           /\ c = 2 * Refs(c) + (c % 2)
           /\ Refs(c + 2) = Refs(c) + 1 /\ (c + 2) % 2 = c % 2
           /\ Refs(c) # 0 => /\ c - 2 \in Nat
                             /\ Refs(c - 2) = Refs(c) - 1
                             /\ (c - 2) % 2 = c % 2
           /\ c % 2 = 0 => Refs(c + 1) = Refs(c) /\ (c + 1) % 2 = 1
BY DEF Refs

(* The set of holders is finite, and moving one user in or out changes its *)
(* size by one.                                                             *)
LEMMA HoldersFinite == IsFiniteSet(Holders)
  <1>1. Holders \subseteq Users
    BY DEF Holders
  <1> QED
    BY <1>1, RundownThreads, FS_Subset

(* A word without references has no holder. *)
LEMMA HoldersEmpty == RundownTypeOK /\ CountMatchesHolders /\ Refs(Count) = 0 => Holders = {}
  BY HoldersFinite, FS_EmptySet DEF CountMatchesHolders

(* A freshly initialised word satisfies the invariant. *)
THEOREM InitEstablishes == RundownInit => RundownInv
  <1> SUFFICES ASSUME RundownInit PROVE RundownInv
    OBVIOUS
  <1>1. RundownTypeOK
    BY DEF RundownInit, RundownTypeOK, Threads, UserPc, OwnerPc
  <1>2. Holders = {}
    BY DEF RundownInit, Holders, Threads
  <1>3. Refs(Count) = 0
    BY DEF RundownInit, Refs
  <1>4. CountMatchesHolders
    BY <1>2, <1>3, FS_EmptySet DEF CountMatchesHolders
  <1>5. PollIsActive /\ MarkSawActive /\ ReleaseSawReference /\ OverIsFinal /\ NoUnbalancedRelease
    BY DEF RundownInit, PollIsActive, ReleaseSawReference, OverIsFinal, NoUnbalancedRelease, MarkSawActive, Threads
  <1> QED
    BY <1>1, <1>4, <1>5 DEF RundownInv

(* Every step of ex_rundown.c preserves the invariant. *)
THEOREM NextPreserves == RundownInv /\ [RundownNext]_rvars => RundownInv'
  <1> SUFFICES ASSUME RundownInv, [RundownNext]_rvars PROVE RundownInv'
    OBVIOUS
  <1> USE RundownThreads DEF RundownInv, Threads
  <1> DEFINE Rest == PollIsActive /\ MarkSawActive /\ ReleaseSawReference /\ OverIsFinal /\ NoUnbalancedRelease
  <1>w. /\ Refs(Count) \in Nat
        /\ \A t \in Threads : cur[t] \in Nat /\ Refs(cur[t]) \in Nat
    BY WordArithmetic DEF RundownTypeOK
  \* A step that leaves the word and the holders alone keeps the count right.
  <1>h. Count' = Count /\ Holders' = Holders => CountMatchesHolders'
    BY DEF CountMatchesHolders
  <1>1. ASSUME NEW u \in Users, AcquireLoad(u) PROVE RundownInv'
    <2>1. RundownTypeOK'
      BY <1>1 DEF AcquireLoad, LoadCount, Goto, RundownTypeOK, UserPc
    <2>2. Holders' = Holders /\ Count' = Count
      BY <1>1 DEF AcquireLoad, LoadCount, Goto, RundownTypeOK, Holders
    <2>3. Rest'
      BY <1>1 DEF AcquireLoad, LoadCount, Goto, RundownTypeOK, PollIsActive,
                  ReleaseSawReference, OverIsFinal, NoUnbalancedRelease, MarkSawActive
    <2> QED BY <2>1, <2>2, <2>3, <1>h
  <1>2. ASSUME NEW u \in Users, AcquireRefused(u) PROVE RundownInv'
    <2>1. RundownTypeOK'
      BY <1>2 DEF AcquireRefused, Goto, RundownTypeOK, UserPc
    <2>2. Holders' = Holders /\ Count' = Count
      BY <1>2 DEF AcquireRefused, Goto, RundownTypeOK, Holders
    <2>3. Rest'
      BY <1>2 DEF AcquireRefused, Goto, RundownTypeOK, PollIsActive,
                  ReleaseSawReference, OverIsFinal, NoUnbalancedRelease, MarkSawActive
    <2> QED BY <2>1, <2>2, <2>3, <1>h
  <1>3. ASSUME NEW u \in Users, AcquireCas(u) PROVE RundownInv'
    <2>1. CASE Count = cur[u]
      <3>0. /\ at[u] = "acquire" /\ Count % 2 # 1
            /\ Count' = Count + 2 /\ at' = [at EXCEPT ![u] = "using"]
            /\ UNCHANGED <<cur, object>>
        BY <1>3, <2>1 DEF AcquireCas, CompareExchange, Goto, ExIsRundownActive, EXP_RUNDOWN_REF_INC
      <3>1. RundownTypeOK'
        BY <3>0 DEF RundownTypeOK, UserPc
      <3>2. Holders' = Holders \cup {u} /\ u \notin Holders
        BY <3>0 DEF RundownTypeOK, Holders
      <3>3. Cardinality(Holders') = Cardinality(Holders) + 1
        BY <3>2, HoldersFinite, FS_AddElement
      <3>4. Refs(Count') = Refs(Count) + 1
        BY <3>0, WordArithmetic DEF RundownTypeOK
      <3>5. CountMatchesHolders'
        BY <3>3, <3>4 DEF CountMatchesHolders
      <3>6. Rest'
        BY <3>0 DEF RundownTypeOK, PollIsActive, ReleaseSawReference, OverIsFinal,
                    NoUnbalancedRelease, ExIsRundownActive, MarkSawActive
      <3> QED BY <3>1, <3>5, <3>6
    <2>2. CASE Count # cur[u]
      <3>0. cur' = [cur EXCEPT ![u] = Count] /\ UNCHANGED <<Count, at, object>> /\ at[u] = "acquire"
        BY <1>3, <2>2 DEF AcquireCas, CompareExchange
      <3>1. RundownTypeOK' /\ Holders' = Holders /\ Rest'
        BY <3>0 DEF RundownTypeOK, Holders, PollIsActive, ReleaseSawReference, OverIsFinal,
                    NoUnbalancedRelease, MarkSawActive
      <3> QED BY <3>0, <3>1, <1>h
    <2> QED BY <2>1, <2>2
  <1>4. ASSUME NEW u \in Users, ReleaseLoad(u) PROVE RundownInv'
    <2>1. RundownTypeOK'
      BY <1>4 DEF ReleaseLoad, LoadCount, Goto, RundownTypeOK, UserPc
    <2>2. Holders' = Holders /\ Count' = Count
      BY <1>4 DEF ReleaseLoad, LoadCount, Goto, RundownTypeOK, Holders
    <2>3. u \in Holders
      BY <1>4 DEF ReleaseLoad, LoadCount, Holders
    <2>4. Refs(Count) # 0
      BY <2>3, HoldersEmpty
    <2>5. Rest'
      BY <1>4, <2>4 DEF ReleaseLoad, LoadCount, Goto, RundownTypeOK, PollIsActive,
                  ReleaseSawReference, OverIsFinal, NoUnbalancedRelease, MarkSawActive
    <2> QED BY <2>1, <2>2, <2>5, <1>h
  <1>6. ASSUME NEW u \in Users, ReleaseCas(u) PROVE RundownInv'
    <2>0. u \in Holders
      BY <1>6 DEF ReleaseCas, Holders
    <2>r. Refs(Count) # 0 /\ Refs(cur[u]) # 0
      BY <2>0, <1>6, HoldersEmpty DEF ReleaseCas, ReleaseSawReference
    <2>1. CASE Count = cur[u]
      <3>0. /\ at[u] = "release"
            /\ Count' = Count - 2 /\ at' = [at EXCEPT ![u] = "idle"]
            /\ UNCHANGED <<cur, object>>
        BY <1>6, <2>1, <2>r DEF ReleaseCas, CompareExchange, Goto, EXP_RUNDOWN_REF_INC
      <3>1. /\ Count' \in Nat /\ Refs(Count') = Refs(Count) - 1 /\ Count' % 2 = Count % 2
        BY <3>0, <2>r, WordArithmetic DEF RundownTypeOK
      <3>2. RundownTypeOK'
        BY <3>0, <3>1 DEF RundownTypeOK, UserPc
      <3>3. Holders' = Holders \ {u}
        BY <3>0 DEF RundownTypeOK, Holders
      <3>4. Cardinality(Holders') = Cardinality(Holders) - 1
        BY <3>3, <2>0, HoldersFinite, FS_RemoveElement
      <3>5. CountMatchesHolders'
        BY <3>1, <3>4 DEF CountMatchesHolders
      <3>6. Count # 1
        BY <2>r DEF Refs
      <3>7. Rest'
        BY <3>0, <3>1, <3>6 DEF RundownTypeOK, PollIsActive, ReleaseSawReference, OverIsFinal,
                    NoUnbalancedRelease, ExIsRundownActive, MarkSawActive
      <3> QED BY <3>2, <3>5, <3>7
    <2>2. CASE Count # cur[u]
      <3>0. cur' = [cur EXCEPT ![u] = Count] /\ UNCHANGED <<Count, at, object>>
        BY <1>6, <2>2, <2>r DEF ReleaseCas, CompareExchange
      <3>1. RundownTypeOK' /\ Holders' = Holders
        BY <3>0 DEF RundownTypeOK, Holders
      <3>2. Rest'
        BY <3>0, <2>r DEF RundownTypeOK, PollIsActive, ReleaseSawReference, OverIsFinal,
                    NoUnbalancedRelease, MarkSawActive
      <3> QED BY <3>0, <3>1, <3>2, <1>h
    <2> QED BY <2>1, <2>2
  <1>7. ASSUME NEW o \in Owners, WaitLoad(o) PROVE RundownInv'
    <2>1. RundownTypeOK' /\ Holders' = Holders /\ Count' = Count
      BY <1>7 DEF WaitLoad, LoadCount, Goto, RundownTypeOK, OwnerPc, Holders
    <2>2. Rest'
      BY <1>7 DEF WaitLoad, LoadCount, Goto, RundownTypeOK, PollIsActive,
                  ReleaseSawReference, OverIsFinal, NoUnbalancedRelease, MarkSawActive
    <2> QED BY <2>1, <2>2, <1>h
  <1>8. ASSUME NEW o \in Owners, WaitAlreadyActive(o) PROVE RundownInv'
    <2>1. RundownTypeOK' /\ Holders' = Holders /\ Count' = Count
      BY <1>8 DEF WaitAlreadyActive, Goto, RundownTypeOK, OwnerPc, Holders
    <2>2. ExIsRundownActive(Count)
      BY <1>8 DEF WaitAlreadyActive, MarkSawActive
    <2>3. Rest'
      BY <1>8, <2>2 DEF WaitAlreadyActive, Goto, RundownTypeOK, PollIsActive,
                  ReleaseSawReference, OverIsFinal, NoUnbalancedRelease, MarkSawActive
    <2> QED BY <2>1, <2>3, <1>h
  <1>9. ASSUME NEW o \in Owners, WaitMark(o) PROVE RundownInv'
    <2>1. CASE Count = cur[o]
      <3>0. /\ at[o] = "mark" /\ Count % 2 # 1
            /\ Count' = Count + 1 /\ at' = [at EXCEPT ![o] = "poll"]
            /\ UNCHANGED <<cur, object>>
        BY <1>9, <2>1 DEF WaitMark, EXP_RUNDOWN_ACTIVE, CompareExchange, Goto, ExIsRundownActive
      <3>1. Refs(Count') = Refs(Count) /\ Count' % 2 = 1
        BY <3>0, WordArithmetic DEF RundownTypeOK
      <3>2. RundownTypeOK' /\ Holders' = Holders
        BY <3>0 DEF RundownTypeOK, OwnerPc, Holders
      <3>3. CountMatchesHolders'
        BY <3>1, <3>2 DEF CountMatchesHolders
      <3>4. Rest'
        BY <3>0, <3>1 DEF RundownTypeOK, PollIsActive, ReleaseSawReference, OverIsFinal,
                    NoUnbalancedRelease, ExIsRundownActive, MarkSawActive
      <3> QED BY <3>2, <3>3, <3>4
    <2>2. CASE Count # cur[o]
      <3>0. cur' = [cur EXCEPT ![o] = Count] /\ UNCHANGED <<Count, at, object>>
        BY <1>9, <2>2 DEF WaitMark, CompareExchange
      <3>1. RundownTypeOK' /\ Holders' = Holders /\ at[o] = "mark"
        BY <3>0, <1>9 DEF RundownTypeOK, Holders, WaitMark
      <3>2. Rest'
        BY <3>0, <3>1 DEF RundownTypeOK, PollIsActive, ReleaseSawReference, OverIsFinal,
                    NoUnbalancedRelease, MarkSawActive
      <3> QED BY <3>0, <3>1, <3>2, <1>h
    <2> QED BY <2>1, <2>2
  <1>10. ASSUME NEW o \in Owners, WaitPoll(o) PROVE RundownInv'
    <2>1. RundownTypeOK' /\ Holders' = Holders /\ Count' = Count
      BY <1>10 DEF WaitPoll, Goto, RundownTypeOK, OwnerPc, Holders
    <2>2. Count = 1
      BY <1>10, WordArithmetic DEF WaitPoll, PollIsActive, ExIsRundownActive, RundownTypeOK
    <2>3. Rest'
      BY <1>10, <2>2 DEF WaitPoll, Goto, RundownTypeOK, PollIsActive,
                  ReleaseSawReference, OverIsFinal, NoUnbalancedRelease, MarkSawActive
    <2> QED BY <2>1, <2>3, <1>h
  <1>11. ASSUME NEW o \in Owners, ExRundownCompleted(o) PROVE RundownInv'
    <2>1. RundownTypeOK' /\ Holders' = Holders
      BY <1>11 DEF ExRundownCompleted, EXP_RUNDOWN_ACTIVE, Goto, RundownTypeOK, OwnerPc, Holders
    <2>2. Refs(Count') = Refs(Count)
      BY <1>11 DEF ExRundownCompleted, EXP_RUNDOWN_ACTIVE, Refs
    <2>3. CountMatchesHolders'
      BY <2>1, <2>2 DEF CountMatchesHolders
    <2>4. Rest'
      BY <1>11 DEF ExRundownCompleted, EXP_RUNDOWN_ACTIVE, OwnersIdle, Goto, RundownTypeOK, PollIsActive,
                  ReleaseSawReference, OverIsFinal, NoUnbalancedRelease, MarkSawActive, ExIsRundownActive
    <2> QED BY <2>1, <2>3, <2>4
  <1>12. ASSUME NEW o \in Owners, FreeObject(o) PROVE RundownInv'
    <2>1. RundownTypeOK' /\ Holders' = Holders /\ Count' = Count
      BY <1>12 DEF FreeObject, Goto, RundownTypeOK, OwnerPc, Holders
    <2>2. Rest'
      BY <1>12 DEF FreeObject, Goto, RundownTypeOK, PollIsActive,
                  ReleaseSawReference, OverIsFinal, NoUnbalancedRelease, MarkSawActive
    <2> QED BY <2>1, <2>2, <1>h
  <1>13. ASSUME ExReInitializeRundownProtection PROVE RundownInv'
    <2>1. RundownTypeOK' /\ Holders' = Holders
      BY <1>13 DEF ExReInitializeRundownProtection, RundownTypeOK, Holders
    <2>2. Refs(Count') = Refs(Count)
      BY <1>13 DEF ExReInitializeRundownProtection, OverIsFinal, Refs
    <2>3. CountMatchesHolders'
      BY <2>1, <2>2 DEF CountMatchesHolders
    <2>4. Rest'
      BY <1>13 DEF ExReInitializeRundownProtection, OwnersIdle, RundownTypeOK, PollIsActive,
                  ReleaseSawReference, OverIsFinal, NoUnbalancedRelease, MarkSawActive
    <2> QED BY <2>1, <2>3, <2>4
  <1>14. CASE UNCHANGED rvars
    BY <1>14 DEF rvars, RundownTypeOK, CountMatchesHolders, Holders, PollIsActive, MarkSawActive,
                 ReleaseSawReference, OverIsFinal, NoUnbalancedRelease
  <1> QED
    BY <1>1, <1>2, <1>3, <1>4, <1>6, <1>7, <1>8, <1>9, <1>10, <1>11, <1>12,
       <1>13, <1>14 DEF RundownNext, UserNext, OwnerNext

(* The invariant holds of every behaviour. *)
THEOREM RundownInvariant == RundownSpec => []RundownInv
  BY InitEstablishes, NextPreserves, PTL DEF RundownSpec

(* No user touches an object that an owner has been told it may free. *)
THEOREM RundownSafety == RundownSpec => []NoUseAfterRundown
  <1>1. RundownInv => NoUseAfterRundown
    <2> SUFFICES ASSUME RundownInv,
                        object = "freed" \/ \E o \in Owners : at[o] = "returned"
                 PROVE  Holders = {}
      BY DEF NoUseAfterRundown
    <2>1. Count = 1
      BY DEF RundownInv, OverIsFinal
    <2>2. Refs(Count) = 0
      BY <2>1 DEF Refs
    <2> QED
      BY <2>2, HoldersEmpty DEF RundownInv
  <1> QED
    BY <1>1, RundownInvariant, PTL

(* While the active bit is set, no step of the code clears it or adds a    *)
(* reference, re-arming excepted.                                           *)
THEOREM RundownRefuses == RundownSpec => ActiveRefusesAcquire
  <1>1. ASSUME RundownInv, RundownNext, ExIsRundownActive(Count), ~ExReInitializeRundownProtection
        PROVE  ExIsRundownActive(Count') /\ Refs(Count') <= Refs(Count)
    <2> USE <1>1 DEF RundownInv, Threads
    <2>t. Count \in Nat /\ Refs(Count) \in Nat
      BY WordArithmetic DEF RundownTypeOK
    <2>1. CASE \E u \in Users : UserNext(u)
      <3> PICK u \in Users : UserNext(u)
        BY <2>1
      <3>1. CASE Count' = Count
        BY <3>1, <2>t
      <3>2. CASE Count' # Count
        <4>1. ReleaseCas(u) /\ Count' = Count - 2
          BY <3>2 DEF UserNext, AcquireLoad, AcquireRefused, AcquireCas, ReleaseLoad,
             ReleaseCas, UnbalancedRelease, LoadCount, CompareExchange, EXP_RUNDOWN_REF_INC
        <4>2. Refs(Count) # 0
          BY <4>1, HoldersEmpty DEF ReleaseCas, Holders
        <4>3. Refs(Count - 2) = Refs(Count) - 1 /\ (Count - 2) % 2 = Count % 2
          BY <4>2, <2>t, WordArithmetic
        <4> QED
          BY <4>1, <4>3, <2>t DEF ExIsRundownActive
      <3> QED BY <3>1, <3>2
    <2>2. CASE \E o \in Owners : OwnerNext(o)
      <3> PICK o \in Owners : OwnerNext(o)
        BY <2>2
      <3>1. CASE Count' = Count
        BY <3>1, <2>t
      <3>2. CASE Count' # Count
        <4>1. ExRundownCompleted(o)
          BY <3>2 DEF OwnerNext, WaitLoad, WaitAlreadyActive, WaitMark, WaitPoll,
             FreeObject, LoadCount, CompareExchange
        <4> QED
          BY <4>1, <2>t, WordArithmetic DEF ExRundownCompleted, EXP_RUNDOWN_ACTIVE, ExIsRundownActive, Refs
      <3> QED BY <3>1, <3>2
    <2> QED
      BY <2>1, <2>2 DEF RundownNext
  <1>2. RundownInv /\ [RundownNext]_rvars
        => [ExIsRundownActive(Count) /\ ~ExReInitializeRundownProtection
             => ExIsRundownActive(Count') /\ Refs(Count') <= Refs(Count)]_rvars
    BY <1>1
  <1> QED
    BY <1>2, RundownInvariant, PTL DEF RundownSpec, ActiveRefusesAcquire

(* The lock-free word is an abstract rundown barrier: each step of the     *)
(* code is one step of RundownBarrier or leaves it unchanged.               *)
THEOREM RundownRefinement == RundownSpec => ImplementsBarrier
  <1>1. RundownInit => Barrier!BarrierInit
    BY DEF RundownInit, Barrier!BarrierInit, Holders, Threads, ExIsRundownActive
  <1>2. ASSUME RundownInv, [RundownNext]_rvars
        PROVE  [Barrier!BarrierNext]_(Barrier!bvars)
    <2> USE <1>2 DEF RundownInv, Threads
    <2> USE DEF Barrier!bvars
    <2>t. Count \in Nat
      BY DEF RundownTypeOK
    <2>1. CASE \E u \in Users : UserNext(u)
      <3> PICK u \in Users : UserNext(u)
        BY <2>1
      <3>1. CASE AcquireCas(u) /\ Count = cur[u]
        <4>1. /\ at[u] = "acquire" /\ Count % 2 # 1
              /\ Count' = Count + 2 /\ at' = [at EXCEPT ![u] = "using"] /\ object' = object
          BY <3>1 DEF AcquireCas, CompareExchange, Goto, ExIsRundownActive, EXP_RUNDOWN_REF_INC
        <4>2. Holders' = Holders \cup {u} /\ u \notin Holders
          BY <4>1 DEF RundownTypeOK, Holders
        <4>3. ~ExIsRundownActive(Count) /\ ExIsRundownActive(Count') = ExIsRundownActive(Count)
          BY <4>1, <2>t, WordArithmetic DEF ExIsRundownActive
        <4>4. Barrier!Take(u)
          BY <4>1, <4>2, <4>3 DEF Barrier!Take
        <4> QED BY <4>4 DEF Barrier!BarrierNext
      <3>2. CASE ReleaseCas(u) /\ Count = cur[u]
        <4>1. /\ at[u] = "release" /\ Refs(Count) # 0
              /\ Count' = Count - 2 /\ at' = [at EXCEPT ![u] = "idle"] /\ object' = object
          BY <3>2 DEF ReleaseCas, ReleaseSawReference, CompareExchange, Goto, EXP_RUNDOWN_REF_INC
        <4>2. Holders' = Holders \ {u} /\ u \in Holders
          BY <4>1 DEF RundownTypeOK, Holders
        <4>3. ExIsRundownActive(Count') = ExIsRundownActive(Count)
          BY <4>1, <2>t, WordArithmetic DEF ExIsRundownActive
        <4>4. Barrier!Drop(u)
          BY <4>1, <4>2, <4>3 DEF Barrier!Drop
        <4> QED BY <4>4 DEF Barrier!BarrierNext
      <3>3. CASE ~(AcquireCas(u) /\ Count = cur[u]) /\ ~(ReleaseCas(u) /\ Count = cur[u])
        <4>1. Count' = Count /\ object' = object
          BY <3>3 DEF UserNext, AcquireLoad, AcquireRefused, AcquireCas, ReleaseLoad,
             ReleaseCas, UnbalancedRelease, LoadCount, CompareExchange
        <4>2. Holders' = Holders
          BY <3>3 DEF UserNext, AcquireLoad, AcquireRefused, AcquireCas, ReleaseLoad, Goto,
             ReleaseCas, UnbalancedRelease, LoadCount, CompareExchange, Holders, RundownTypeOK, ReleaseSawReference
        <4> QED BY <4>1, <4>2
      <3> QED BY <3>1, <3>2, <3>3
    <2>2. CASE \E o \in Owners : OwnerNext(o)
      <3> PICK o \in Owners : OwnerNext(o)
        BY <2>2
      <3>h. Holders' = Holders
        BY RundownThreads DEF OwnerNext, WaitLoad, WaitAlreadyActive, WaitMark, WaitPoll, ExRundownCompleted, EXP_RUNDOWN_ACTIVE,
             FreeObject, LoadCount, CompareExchange, Goto, Holders, RundownTypeOK
      <3>1. CASE WaitMark(o) \/ ExRundownCompleted(o)
        <4>1. Count' = Count \/ (Count' % 2 = 1)
          <5>1. CASE Count' = 1
            BY <5>1
          <5>2. CASE Count % 2 # 1 /\ Count' = Count + 1
            BY <5>2, <2>t, WordArithmetic
          <5> QED
            BY <3>1, <5>1, <5>2
               DEF WaitMark, ExRundownCompleted, EXP_RUNDOWN_ACTIVE, CompareExchange, ExIsRundownActive
        <4>2. object' = object
          BY <3>1 DEF WaitMark, ExRundownCompleted, EXP_RUNDOWN_ACTIVE, CompareExchange
        <4> QED
          BY <4>1, <4>2, <3>h DEF Barrier!BarrierNext, Barrier!Close, ExIsRundownActive
      <3>2. CASE FreeObject(o)
        <4>1. Count = 1 /\ Count' = Count /\ object' = "freed"
          BY <3>2 DEF FreeObject, OverIsFinal
        <4>2. Holders = {}
          BY <4>1, HoldersEmpty DEF Refs
        <4> QED
          BY <4>1, <4>2, <3>h DEF Barrier!BarrierNext, Barrier!Retire, ExIsRundownActive
      <3>3. CASE WaitLoad(o) \/ WaitAlreadyActive(o) \/ WaitPoll(o)
        BY <3>3, <3>h DEF WaitLoad, WaitAlreadyActive, WaitPoll, LoadCount
      <3> QED BY <3>1, <3>2, <3>3 DEF OwnerNext
    <2>3. CASE ExReInitializeRundownProtection
      <3>1. /\ Count = 1 /\ Count' = 0 /\ object = "freed" /\ object' = "live"
            /\ at' = at
        BY <2>3 DEF ExReInitializeRundownProtection, OverIsFinal
      <3>2. Holders = {} /\ Holders' = Holders
        BY <3>1, HoldersEmpty DEF Refs, Holders
      <3> QED
        BY <3>1, <3>2 DEF Barrier!BarrierNext, Barrier!Rearm, ExIsRundownActive
    <2>4. CASE UNCHANGED rvars
      BY <2>4 DEF rvars, Holders
    <2> QED
      BY <2>1, <2>2, <2>3, <2>4 DEF RundownNext
  <1> QED
    BY <1>1, <1>2, RundownInvariant, PTL DEF RundownSpec, ImplementsBarrier, Barrier!BarrierSpec

-----------------------------------------------------------------------------
(* Callback objects: the inductive invariant. *)

\* A slot counts its registrations: the generation of one in use is not 0,
\* the field of a cookie that was never given.
GenerationCounts ==
    \A i \in Slots : /\ slots[i].generation <= made
                     /\ slots[i].state # "FREE" => slots[i].generation >= 1

\* A cookie comes from the past or the present of its slot, and one that is
\* still valid names the registration of its consumer.
CookieNamesOwn ==
    \A c \in Consumers :
        /\ cookie[c].gen <= slots[cookie[c].slot].generation
        /\ CookieValid(cookie[c]) => slots[cookie[c].slot].context = context[c]

\* Slots in use have contexts, all different, that were handed out and are
\* not freed.
ContextsLive ==
    /\ \A i \in Slots : /\ slots[i].state = "FREE" <=> slots[i].context = None
                        /\ slots[i].context <= made
                        /\ slots[i].context \notin freed
    /\ \A i, j \in Slots : slots[i].context = slots[j].context /\ slots[i].context # None => i = j

\* So do consumers, and what was freed was handed out.
ContextsOwned ==
    /\ \A c \in Consumers : context[c] <= made
    /\ \A c, d \in Consumers : context[c] = context[d] /\ context[c] # None => c = d
    /\ \A x \in freed : x <= made

\* A consumer that unregisters is alone in its slot, which keeps its context.
DrainsOwn ==
    \A c \in Consumers :
        pc[c] \in {"mark", "drain", "clear"} =>
            /\ slots[cookie[c].slot].context = context[c]
            /\ slots[cookie[c].slot].state = "UNREGISTERING"

\* The drain has finished, and no snapshot has taken the slot since.
ClearMeansDrained ==
    \A c \in Consumers : pc[c] = "clear" => Refs(slots[cookie[c].slot].rundown) = 0

\* A consumer that may free its context has left no slot with it.
ReturnedLeftNone ==
    \A c \in Consumers :
        pc[c] = "returned" => context[c] # None /\ \A i \in Slots : slots[i].context # context[c]

\* What a notifier still has to call is registered, if no longer active.
SnapshotIsLive ==
    \A n \in Notifiers, i \in Slots : snap[n][i] # None => slots[i].context = snap[n][i]

CallbackInd ==
    /\ TypeOK /\ GenerationCounts /\ CookieNamesOwn /\ ContextsLive /\ ContextsOwned
    /\ DrainsOwn /\ ClearMeansDrained /\ ReturnedLeftNone /\ SnapshotIsLive
    /\ ActiveCountExact /\ RundownFollowsState

-----------------------------------------------------------------------------
(* Lemmas. *)

\* The rundown word under the updates that the callback object makes.
LEMMA SlotWord ==
    ASSUME NEW w \in Nat
    PROVE  /\ Refs(w) \in Nat
           /\ w + EXP_RUNDOWN_REF_INC \in Nat /\ Refs(w + EXP_RUNDOWN_REF_INC) = Refs(w) + 1
           /\ ExIsRundownActive(w + EXP_RUNDOWN_REF_INC) <=> ExIsRundownActive(w)
           /\ Refs(w) # 0 => /\ w - EXP_RUNDOWN_REF_INC \in Nat
                             /\ Refs(w - EXP_RUNDOWN_REF_INC) = Refs(w) - 1
                             /\ ExIsRundownActive(w - EXP_RUNDOWN_REF_INC) <=> ExIsRundownActive(w)
           /\ w + EXP_RUNDOWN_ACTIVE \in Nat
           /\ ~ExIsRundownActive(w) => Refs(w + EXP_RUNDOWN_ACTIVE) = Refs(w)
BY DEF Refs, ExIsRundownActive, EXP_RUNDOWN_REF_INC, EXP_RUNDOWN_ACTIVE

\* Below the bound on registrations the generation does not come round.
LEMMA GenerationGrows ==
    ASSUME NEW g \in Nat, g < MaxRegistrations
    PROVE  NextGeneration(g) = g + 1 /\ g + 1 \in 0 .. GenMod - 1
BY CallbackConstants DEF NextGeneration

LEMMA SlotHoldersFinite == \A i \in Slots : IsFiniteSet(SlotHolders(i)) /\ Cardinality(SlotHolders(i)) \in Nat
  <1> SUFFICES ASSUME NEW i \in Slots
               PROVE  IsFiniteSet(SlotHolders(i)) /\ Cardinality(SlotHolders(i)) \in Nat
    OBVIOUS
  <1>1. SlotHolders(i) \subseteq Notifiers
    BY DEF SlotHolders
  <1> QED BY <1>1, CallbackConstants, FS_Subset, FS_CardinalityType

\* A slot without references has no notifier in it.
LEMMA NoRefsNoHolder ==
    ASSUME RundownFollowsState, NEW i \in Slots, Refs(slots[i].rundown) = 0
    PROVE  \A n \in Notifiers : snap[n][i] = None
  <1>1. Cardinality(SlotHolders(i)) = 0
    BY DEF RundownFollowsState
  <1>2. SlotHolders(i) = {}
    BY <1>1, SlotHoldersFinite, FS_EmptySet
  <1> QED BY <1>2 DEF SlotHolders

Used == Slots \ FreeSlots

LEMMA UsedFinite == IsFiniteSet(Used) /\ Cardinality(Used) \in Nat
  <1>1. IsFiniteSet(Slots)
    BY CallbackConstants, FS_Interval DEF Slots
  <1>2. Used \subseteq Slots
    BY DEF Used
  <1> QED BY <1>1, <1>2, FS_Subset, FS_CardinalityType

LEMMA SlotFields ==
    ASSUME TypeOK, NEW i \in Slots
    PROVE  /\ slots[i].state \in {"FREE", "ACTIVE", "UNREGISTERING"}
           /\ slots[i].generation \in Nat /\ slots[i].generation < GenMod
           /\ slots[i].context \in Nat /\ slots[i].rundown \in Nat
  BY CallbackConstants DEF TypeOK, SlotType, Contexts, None

LEMMA CallbackStarts == Init => CallbackInd
  <1> SUFFICES ASSUME Init PROVE CallbackInd
    OBVIOUS
  <1> USE CallbackConstants
  <1>1. TypeOK
    BY DEF Init, TypeOK, SlotType, Cookies, NoCookie, Slots, None
  <1>2. \A i \in Slots : SlotHolders(i) = {}
    BY DEF Init, SlotHolders
  <1>3. RundownFollowsState
    <2>1. Refs(0) = 0 /\ ~ExIsRundownActive(0) /\ Cardinality({}) = 0
      BY FS_EmptySet DEF Refs, ExIsRundownActive
    <2>2. \A i \in Slots : slots[i].rundown = 0
      BY DEF Init
    <2>3. ASSUME NEW i \in Slots
          PROVE  ~ExIsRundownActive(slots[i].rundown) /\ Refs(slots[i].rundown) = Cardinality(SlotHolders(i))
      <3>1. slots[i].rundown = 0 /\ SlotHolders(i) = {}
        BY <1>2, <2>2
      <3> QED BY <2>1, <3>1
    <2> QED BY <2>3 DEF RundownFollowsState
  <1>4. Slots \ FreeSlots = {}
    BY DEF Init, FreeSlots
  <1>5. ActiveCountExact
    BY <1>4, FS_EmptySet DEF Init, ActiveCountExact
  <1>6. 0 \in Slots
    BY DEF Slots
  <1>7. GenerationCounts /\ CookieNamesOwn /\ ContextsLive /\ ContextsOwned
    BY <1>6 DEF Init, GenerationCounts, CookieNamesOwn, CookieValid, NoCookie, ContextsLive, ContextsOwned, None
  <1>8. DrainsOwn /\ ClearMeansDrained /\ ReturnedLeftNone /\ SnapshotIsLive
    BY DEF Init, DrainsOwn, ClearMeansDrained, ReturnedLeftNone, SnapshotIsLive
  <1> QED BY <1>1, <1>3, <1>5, <1>7, <1>8 DEF CallbackInd

-----------------------------------------------------------------------------
(* ExRegisterCallback. *)

LEMMA RegisterKeeps ==
    ASSUME CallbackInd, NEW c \in Consumers, ExRegisterCallback(c)
    PROVE  CallbackInd'
  <1> USE CallbackConstants DEF CallbackInd
  <1>0. PICK i \in Slots :
          /\ First(i, FreeSlots)
          /\ slots' = [slots EXCEPT ![i] = [state |-> "ACTIVE", generation |-> NextGeneration(slots[i].generation),
                                            context |-> made + 1, rundown |-> 0]]
          /\ cookie' = [cookie EXCEPT ![c] = [slot |-> i, gen |-> NextGeneration(slots[i].generation)]]
    BY DEF ExRegisterCallback
  <1>1. /\ slots[i].state = "FREE" /\ slots[i].context = None /\ slots[i].generation \in Nat
        /\ slots[i].generation <= made /\ made \in Nat /\ made < MaxRegistrations
    BY <1>0, SlotFields DEF ExRegisterCallback, First, FreeSlots, ContextsLive, GenerationCounts, TypeOK
  <1> DEFINE g == slots[i].generation + 1
  <1>2. NextGeneration(slots[i].generation) = g /\ g \in 0 .. GenMod - 1 /\ g \in Nat
    BY <1>1, GenerationGrows
  <1>3. /\ slots'[i] = [state |-> "ACTIVE", generation |-> g, context |-> made + 1, rundown |-> 0]
        /\ \A j \in Slots \ {i} : slots'[j] = slots[j]
        /\ cookie'[c] = [slot |-> i, gen |-> g]
        /\ \A d \in Consumers \ {c} : cookie'[d] = cookie[d] /\ context'[d] = context[d] /\ pc'[d] = pc[d]
        /\ context'[c] = made + 1 /\ pc[c] = "idle" /\ pc'[c] = "registered"
        /\ made' = made + 1 /\ snap' = snap /\ freed' = freed
        /\ active_count' = active_count + 1 /\ allow_multiple' = allow_multiple
        /\ made + 1 # None
    BY <1>0, <1>1, <1>2 DEF ExRegisterCallback, TypeOK, None
  <1>4. TypeOK'
    <2>1. slots'[i] \in SlotType
      BY <1>1, <1>2, <1>3 DEF SlotType, Contexts
    <2>2. cookie'[c] \in Cookies
      BY <1>2, <1>3 DEF Cookies
    <2>3. slots' \in [Slots -> SlotType] /\ cookie' \in [Consumers -> Cookies]
      BY <1>0, <2>1, <2>2, <1>3 DEF TypeOK
    <2> QED BY <1>1, <2>3 DEF ExRegisterCallback, TypeOK, Contexts
  <1>5. GenerationCounts'
    BY <1>1, <1>3, SlotFields DEF GenerationCounts
  <1>6. CookieNamesOwn'
    <2> SUFFICES ASSUME NEW d \in Consumers
                 PROVE  /\ cookie'[d].gen <= slots'[cookie'[d].slot].generation
                        /\ CookieValid(cookie[d])' => slots'[cookie'[d].slot].context = context'[d]
      BY DEF CookieNamesOwn
    <2>1. CASE d = c
      BY <1>2, <1>3, <2>1
    <2>2. CASE d # c
      <3>1. cookie'[d] = cookie[d] /\ context'[d] = context[d]
        BY <1>3, <2>2
      <3>2. cookie[d].slot \in Slots /\ cookie[d].gen \in Nat /\ cookie[d].gen <= slots[cookie[d].slot].generation
        BY DEF CookieNamesOwn, TypeOK, Cookies
      <3>3. CASE cookie[d].slot = i
        <4>1. cookie[d].gen < g
          BY <1>1, <3>2, <3>3
        <4>2. slots'[i].generation = g
          BY <1>3
        <4> QED BY <1>2, <3>1, <3>2, <3>3, <4>1, <4>2 DEF CookieValid
      <3>4. CASE cookie[d].slot # i
        <4>1. slots'[cookie[d].slot] = slots[cookie[d].slot]
          BY <1>3, <3>2, <3>4
        <4> QED BY <3>1, <3>2, <4>1 DEF CookieValid, CookieNamesOwn
      <3> QED BY <3>3, <3>4
    <2> QED BY <2>1, <2>2
  <1>7. ContextsLive'
    <2>1. \A j \in Slots \ {i} : slots'[j].context # made + 1
      BY <1>1, <1>3, SlotFields DEF ContextsLive
    <2>2. made + 1 \notin freed
      BY <1>1 DEF ContextsOwned
    <2>3. \A j \in Slots : /\ slots'[j].state = "FREE" <=> slots'[j].context = None
                           /\ slots'[j].context <= made'
                           /\ slots'[j].context \notin freed'
      BY <1>1, <1>3, <2>2, SlotFields DEF ContextsLive
    <2>4. \A j, k \in Slots : slots'[j].context = slots'[k].context /\ slots'[j].context # None => j = k
      BY <1>3, <2>1 DEF ContextsLive
    <2> QED BY <2>3, <2>4 DEF ContextsLive
  <1>8. ContextsOwned'
    <2>1. \A d \in Consumers : context[d] \in Nat
      BY DEF TypeOK, Contexts, None
    <2>2. \A x \in freed : x \in Nat
      BY DEF TypeOK, Contexts
    <2> QED BY <1>1, <1>3, <2>1, <2>2 DEF ContextsOwned
  <1>9. DrainsOwn' /\ ClearMeansDrained'
    <2>1. ASSUME NEW d \in Consumers, pc'[d] \in {"mark", "drain", "clear"}
          PROVE  /\ d # c /\ cookie'[d] = cookie[d] /\ context'[d] = context[d]
                 /\ pc'[d] = pc[d] /\ slots'[cookie[d].slot] = slots[cookie[d].slot]
      <3>1. d # c
        BY <1>3, <2>1
      <3>2. slots[cookie[d].slot].state = "UNREGISTERING"
        BY <1>3, <2>1, <3>1 DEF DrainsOwn
      <3>3. cookie[d].slot # i /\ cookie[d].slot \in Slots
        BY <1>1, <3>2 DEF TypeOK, Cookies
      <3> QED BY <1>3, <3>1, <3>3
    <2>2. DrainsOwn'
      BY <2>1 DEF DrainsOwn
    <2>3. ClearMeansDrained'
      BY <2>1 DEF ClearMeansDrained
    <2> QED BY <2>2, <2>3
  <1>10. ReturnedLeftNone'
    BY <1>1, <1>3 DEF ReturnedLeftNone, ContextsOwned
  <1>11. SnapshotIsLive'
    BY <1>1, <1>3 DEF SnapshotIsLive
  <1>12. ActiveCountExact'
    <2>1. Used' = Used \cup {i} /\ i \notin Used
      BY <1>1, <1>3 DEF Used, FreeSlots
    <2>2. Cardinality(Used') = Cardinality(Used) + 1
      BY <2>1, UsedFinite, FS_AddElement
    <2>3. ~allow_multiple => active_count = 0
      BY UsedFinite DEF ExRegisterCallback, RegisterRefused, ActiveCountExact, Used
    <2> QED BY <1>3, <2>2, <2>3, UsedFinite DEF ActiveCountExact, Used
  <1>13. RundownFollowsState'
    <2>1. \A j \in Slots : SlotHolders(j)' = SlotHolders(j)
      BY <1>3 DEF SlotHolders
    <2>2. SlotHolders(i) = {}
      BY <1>1 DEF SnapshotIsLive, SlotHolders
    <2>3. Refs(0) = 0 /\ ~ExIsRundownActive(0) /\ Cardinality({}) = 0
      BY FS_EmptySet DEF Refs, ExIsRundownActive
    <2>4. ASSUME NEW j \in Slots
          PROVE  /\ slots'[j].state = "ACTIVE" => ~ExIsRundownActive(slots'[j].rundown)
                 /\ Refs(slots'[j].rundown) = Cardinality(SlotHolders(j)')
      <3>1. CASE j = i
        <4>1. slots'[j].rundown = 0 /\ SlotHolders(j)' = {}
          BY <1>3, <2>1, <2>2, <3>1
        <4> QED BY <2>3, <4>1
      <3>2. CASE j # i
        BY <1>3, <2>1, <3>2 DEF RundownFollowsState
      <3> QED BY <3>1, <3>2
    <2> QED BY <2>4 DEF RundownFollowsState
  <1> QED BY <1>4, <1>5, <1>6, <1>7, <1>8, <1>9, <1>10, <1>11, <1>12, <1>13

-----------------------------------------------------------------------------
(* ExUnregisterCallback. *)

LEMMA BeginKeeps ==
    ASSUME CallbackInd, NEW c \in Consumers, UnregisterBegin(c)
    PROVE  CallbackInd'
  <1> USE CallbackConstants DEF CallbackInd
  <1> DEFINE i == cookie[c].slot
  <1>0. i \in Slots /\ slots[i].state = "ACTIVE" /\ slots[i].context = context[c]
    BY DEF UnregisterBegin, CookieNamesOwn, CookieValid, TypeOK, Cookies
  <1>1. /\ \A j \in Slots : /\ slots'[j].generation = slots[j].generation
                            /\ slots'[j].context = slots[j].context
                            /\ slots'[j].rundown = slots[j].rundown
        /\ slots'[i].state = "UNREGISTERING" /\ \A j \in Slots \ {i} : slots'[j].state = slots[j].state
        /\ slots' \in [Slots -> SlotType]
        /\ pc'[c] = "mark" /\ pc' = [pc EXCEPT ![c] = "mark"] /\ \A d \in Consumers \ {c} : pc'[d] = pc[d]
        /\ UNCHANGED <<allow_multiple, active_count, cookie, context, snap, made, freed>>
    BY <1>0 DEF UnregisterBegin, TypeOK, SlotType
  <1> HIDE DEF i
  <1>2. TypeOK'
    BY <1>1 DEF TypeOK
  <1>3. GenerationCounts' /\ ContextsOwned'
    BY <1>0, <1>1 DEF GenerationCounts, ContextsOwned
  <1>4. CookieNamesOwn'
    <2>1. ASSUME NEW d \in Consumers
          PROVE  /\ cookie'[d].gen <= slots'[cookie'[d].slot].generation
                 /\ CookieValid(cookie[d])' => slots'[cookie'[d].slot].context = context'[d]
      <3>1. cookie[d].slot \in Slots
        BY DEF TypeOK, Cookies
      <3> QED BY <1>0, <1>1, <3>1 DEF CookieNamesOwn, CookieValid
    <2> QED BY <2>1 DEF CookieNamesOwn
  <1>5. ContextsLive'
    BY <1>0, <1>1 DEF ContextsLive
  <1>6. DrainsOwn'
    <2>1. \A d \in Consumers : cookie[d].slot \in Slots
      BY DEF TypeOK, Cookies
    <2> QED BY <1>0, <1>1, <2>1 DEF DrainsOwn, i
  <1>7. ClearMeansDrained' /\ ReturnedLeftNone' /\ SnapshotIsLive'
    <2>1. \A d \in Consumers : cookie[d].slot \in Slots
      BY DEF TypeOK, Cookies
    <2> QED BY <1>0, <1>1, <2>1 DEF ClearMeansDrained, ReturnedLeftNone, SnapshotIsLive
  <1>8. ActiveCountExact'
    <2>1. (Slots \ FreeSlots)' = Slots \ FreeSlots
      BY <1>0, <1>1 DEF FreeSlots
    <2> QED BY <1>1, <2>1 DEF ActiveCountExact
  <1>9. RundownFollowsState'
    <2>1. \A j \in Slots : SlotHolders(j)' = SlotHolders(j)
      BY <1>1 DEF SlotHolders
    <2> QED BY <1>0, <1>1, <2>1 DEF RundownFollowsState
  <1> QED BY <1>2, <1>3, <1>4, <1>5, <1>6, <1>7, <1>8, <1>9

LEMMA MarkKeeps ==
    ASSUME CallbackInd, NEW c \in Consumers, UnregisterMark(c)
    PROVE  CallbackInd'
  <1> USE CallbackConstants DEF CallbackInd
  <1> DEFINE i == cookie[c].slot
             w == slots[i].rundown
  <1>0. i \in Slots /\ slots[i].state = "UNREGISTERING" /\ slots[i].context = context[c] /\ pc[c] = "mark"
    BY DEF UnregisterMark, DrainsOwn, TypeOK, Cookies
  <1>a. w \in Nat
    BY <1>0, SlotFields
  <1>b. slots' = [slots EXCEPT ![i].rundown = IF ExIsRundownActive(w) THEN w ELSE w + EXP_RUNDOWN_ACTIVE]
    BY DEF UnregisterMark
  <1>c. PICK v \in Nat : /\ slots' = [slots EXCEPT ![i].rundown = v] /\ Refs(v) = Refs(w)
    BY <1>a, <1>b, SlotWord
  <1>1. /\ \A j \in Slots : /\ slots'[j].generation = slots[j].generation
                            /\ slots'[j].context = slots[j].context
                            /\ slots'[j].state = slots[j].state
        /\ slots'[i].rundown = v /\ \A j \in Slots \ {i} : slots'[j].rundown = slots[j].rundown
        /\ slots' \in [Slots -> SlotType]
        /\ pc'[c] = "drain" /\ pc' = [pc EXCEPT ![c] = "drain"] /\ \A d \in Consumers \ {c} : pc'[d] = pc[d]
        /\ UNCHANGED <<allow_multiple, active_count, cookie, context, snap, made, freed>>
    BY <1>0, <1>c DEF UnregisterMark, TypeOK, SlotType
  <1>2. \A j \in Slots : Refs(slots'[j].rundown) = Refs(slots[j].rundown)
    BY <1>1, <1>c
  <1>3. \A d \in Consumers : cookie[d].slot \in Slots
    BY DEF TypeOK, Cookies
  <1> HIDE DEF i, w
  <1>4. TypeOK'
    BY <1>1 DEF TypeOK
  <1>5. GenerationCounts' /\ ContextsOwned' /\ CookieNamesOwn'
    BY <1>1, <1>3 DEF GenerationCounts, ContextsOwned, CookieNamesOwn, CookieValid
  <1>6. ContextsLive' /\ SnapshotIsLive' /\ ReturnedLeftNone'
    BY <1>1, <1>3 DEF ContextsLive, ReturnedLeftNone, SnapshotIsLive
  <1>7. DrainsOwn'
    BY <1>0, <1>1, <1>3 DEF DrainsOwn
  <1>8. ClearMeansDrained'
    BY <1>1, <1>2, <1>3 DEF ClearMeansDrained
  <1>9. ActiveCountExact'
    <2>1. (Slots \ FreeSlots)' = Slots \ FreeSlots
      BY <1>1 DEF FreeSlots
    <2> QED BY <1>1, <2>1 DEF ActiveCountExact
  <1>10. RundownFollowsState'
    <2>1. \A j \in Slots : SlotHolders(j)' = SlotHolders(j)
      BY <1>1 DEF SlotHolders
    <2>2. \A j \in Slots : Refs(slots'[j].rundown) = Cardinality(SlotHolders(j)')
      BY <1>2, <2>1 DEF RundownFollowsState
    <2>3. \A j \in Slots : slots'[j].state = "ACTIVE" => ~ExIsRundownActive(slots'[j].rundown)
      BY <1>0, <1>1 DEF RundownFollowsState
    <2> QED BY <2>2, <2>3 DEF RundownFollowsState
  <1> QED BY <1>4, <1>5, <1>6, <1>7, <1>8, <1>9, <1>10

LEMMA DrainedKeeps ==
    ASSUME CallbackInd, NEW c \in Consumers, UnregisterDrained(c)
    PROVE  CallbackInd'
  <1> USE DEF CallbackInd
  <1>1. TypeOK' /\ DrainsOwn' /\ ClearMeansDrained' /\ ReturnedLeftNone'
    BY DEF UnregisterDrained, TypeOK, DrainsOwn, ClearMeansDrained, ReturnedLeftNone
  <1>2. GenerationCounts' /\ CookieNamesOwn' /\ ContextsLive' /\ ContextsOwned' /\ SnapshotIsLive'
    BY DEF UnregisterDrained, GenerationCounts, CookieNamesOwn, CookieValid, ContextsLive, ContextsOwned,
           SnapshotIsLive
  <1>3. ActiveCountExact' /\ RundownFollowsState'
    BY DEF UnregisterDrained, ActiveCountExact, FreeSlots, RundownFollowsState, SlotHolders
  <1> QED BY <1>1, <1>2, <1>3

\* The slot is given back: it is the only one with the consumer's context,
\* and no notifier is left in it.
LEMMA EndKeeps ==
    ASSUME CallbackInd, NEW c \in Consumers, UnregisterEnd(c)
    PROVE  CallbackInd'
  <1> USE CallbackConstants DEF CallbackInd
  <1> DEFINE i == cookie[c].slot
  <1>0. /\ i \in Slots /\ slots[i].state = "UNREGISTERING" /\ slots[i].context = context[c] /\ pc[c] = "clear"
        /\ Refs(slots[i].rundown) = 0
    BY DEF UnregisterEnd, DrainsOwn, ClearMeansDrained, TypeOK, Cookies
  <1>1. /\ \A j \in Slots : /\ slots'[j].generation = slots[j].generation
                            /\ slots'[j].rundown = slots[j].rundown
        /\ slots'[i].state = "FREE" /\ slots'[i].context = None
        /\ \A j \in Slots \ {i} : slots'[j] = slots[j]
        /\ pc'[c] = "returned" /\ pc' = [pc EXCEPT ![c] = "returned"] /\ \A d \in Consumers \ {c} : pc'[d] = pc[d]
        /\ UNCHANGED <<allow_multiple, cookie, context, snap, made, freed>>
    BY <1>0 DEF UnregisterEnd, TypeOK, SlotType
  <1>2. slots' \in [Slots -> SlotType]
    <2>1. [slots[i] EXCEPT !.state = "FREE", !.context = None] \in SlotType
      <3>1. slots[i] \in SlotType
        BY <1>0 DEF TypeOK
      <3> QED BY <3>1 DEF SlotType
    <2>2. slots' = [slots EXCEPT ![i] = [slots[i] EXCEPT !.state = "FREE", !.context = None]]
      BY <1>0 DEF UnregisterEnd, TypeOK
    <2> QED BY <2>1, <2>2 DEF TypeOK
  <1>3. \A d \in Consumers : cookie[d].slot \in Slots
    BY DEF TypeOK, Cookies
  <1>4. context[c] # None /\ \A j \in Slots \ {i} : slots[j].context # context[c]
    BY <1>0 DEF ContextsLive
  <1>5. \A n \in Notifiers : snap[n][i] = None
    BY <1>0, NoRefsNoHolder
  <1>6. \A d \in Consumers \ {c} : pc[d] \in {"mark", "drain", "clear"} => cookie[d].slot # i
    BY <1>0, <1>4 DEF DrainsOwn, ContextsOwned
  <1> HIDE DEF i
  <1>7. active_count \in Nat \ {0} /\ active_count' = active_count - 1 /\ ActiveCountExact'
    <2>1. Used' = Used \ {i} /\ i \in Used
      BY <1>0, <1>1 DEF Used, FreeSlots
    <2>2. Cardinality(Used') = Cardinality(Used) - 1
      BY <2>1, UsedFinite, FS_RemoveElement
    <2>3. active_count \in Nat \ {0}
      BY <2>1, UsedFinite, FS_EmptySet DEF ActiveCountExact, Used
    <2>4. active_count' = active_count - 1
      BY <2>3 DEF UnregisterEnd
    <2> QED BY <1>1, <2>2, <2>3, <2>4 DEF ActiveCountExact, Used
  <1>8. TypeOK'
    BY <1>1, <1>2, <1>7 DEF TypeOK
  <1>9. GenerationCounts' /\ ContextsOwned'
    BY <1>0, <1>1 DEF GenerationCounts, ContextsOwned
  <1>10. CookieNamesOwn'
    BY <1>0, <1>1, <1>3 DEF CookieNamesOwn, CookieValid
  <1>11. ContextsLive'
    <2>1. None \notin freed /\ made \in Nat /\ None <= made
      BY DEF TypeOK, Contexts, None
    <2> QED BY <1>0, <1>1, <2>1 DEF ContextsLive
  <1>12. DrainsOwn' /\ ClearMeansDrained'
    BY <1>1, <1>3, <1>6 DEF DrainsOwn, ClearMeansDrained
  <1>13. ReturnedLeftNone'
    BY <1>0, <1>1, <1>4 DEF ReturnedLeftNone
  <1>14. SnapshotIsLive'
    BY <1>1, <1>5 DEF SnapshotIsLive
  <1>15. RundownFollowsState'
    <2>1. \A j \in Slots : SlotHolders(j)' = SlotHolders(j)
      BY <1>1 DEF SlotHolders
    <2> QED BY <1>1, <2>1 DEF RundownFollowsState
  <1> QED BY <1>7, <1>8, <1>9, <1>10, <1>11, <1>12, <1>13, <1>14, <1>15

LEMMA FreeContextKeeps ==
    ASSUME CallbackInd, NEW c \in Consumers, FreeContext(c)
    PROVE  CallbackInd'
  <1> USE DEF CallbackInd
  <1>1. /\ context[c] # None /\ \A i \in Slots : slots[i].context # context[c]
        /\ context[c] <= made
    BY DEF FreeContext, ReturnedLeftNone, ContextsOwned
  <1>2. TypeOK'
    BY <1>1 DEF FreeContext, TypeOK, Contexts, None
  <1>3. ContextsLive' /\ ContextsOwned'
    BY <1>1 DEF FreeContext, ContextsLive, ContextsOwned
  <1>4. GenerationCounts' /\ CookieNamesOwn' /\ SnapshotIsLive' /\ DrainsOwn' /\ ClearMeansDrained' /\ ReturnedLeftNone'
    BY DEF FreeContext, GenerationCounts, CookieNamesOwn, CookieValid, SnapshotIsLive, DrainsOwn,
           ClearMeansDrained, ReturnedLeftNone, TypeOK
  <1>5. ActiveCountExact' /\ RundownFollowsState'
    BY DEF FreeContext, ActiveCountExact, FreeSlots, RundownFollowsState, SlotHolders
  <1> QED BY <1>2, <1>3, <1>4, <1>5

-----------------------------------------------------------------------------
(* ExNotifyCallback. *)

\* What follows from a step of a notifier, which changes rundown words only.
LEMMA NotifyFrame ==
    ASSUME CallbackInd,
           slots' \in [Slots -> SlotType],
           \A j \in Slots : /\ slots'[j].state = slots[j].state
                            /\ slots'[j].generation = slots[j].generation
                            /\ slots'[j].context = slots[j].context,
           UNCHANGED <<allow_multiple, active_count, pc, cookie, context, made, freed>>
    PROVE  /\ GenerationCounts' /\ CookieNamesOwn' /\ ContextsLive' /\ ContextsOwned'
           /\ DrainsOwn' /\ ReturnedLeftNone' /\ ActiveCountExact'
  <1> USE DEF CallbackInd
  <1>1. \A d \in Consumers : cookie[d].slot \in Slots
    BY DEF TypeOK, Cookies
  <1>2. GenerationCounts' /\ CookieNamesOwn' /\ DrainsOwn'
    BY <1>1 DEF GenerationCounts, CookieNamesOwn, CookieValid, DrainsOwn
  <1>3. ContextsLive' /\ ContextsOwned' /\ ReturnedLeftNone'
    BY DEF ContextsLive, ContextsOwned, ReturnedLeftNone
  <1>4. FreeSlots' = FreeSlots
    BY DEF FreeSlots
  <1>5. ActiveCountExact'
    BY <1>4 DEF ActiveCountExact
  <1> QED BY <1>2, <1>3, <1>5

LEMMA SnapshotKeeps ==
    ASSUME CallbackInd, NEW n \in Notifiers, NotifySnapshot(n)
    PROVE  CallbackInd'
  <1> USE CallbackConstants DEF CallbackInd
  <1>0. \A j \in Slots : slots[j] \in SlotType /\ slots[j].rundown \in Nat
    BY SlotFields DEF TypeOK
  <1>1. \A j \in Slots : snap[n][j] = None
    BY DEF NotifySnapshot, Pending
  <1>2. \A j \in Notified : j \in Slots /\ slots[j].state = "ACTIVE" /\ slots[j].context # None
    BY DEF Notified, ContextsLive
  <1>3. ASSUME NEW j \in Slots
        PROVE  /\ slots'[j] \in SlotType
               /\ slots'[j].state = slots[j].state /\ slots'[j].generation = slots[j].generation
               /\ slots'[j].context = slots[j].context
               /\ j \in Notified => slots'[j].rundown = slots[j].rundown + EXP_RUNDOWN_REF_INC
               /\ j \notin Notified => slots'[j].rundown = slots[j].rundown
    <2>1. CASE j \in Notified
      <3>1. slots'[j] = [slots[j] EXCEPT !.rundown = slots[j].rundown + EXP_RUNDOWN_REF_INC]
        BY <2>1 DEF NotifySnapshot
      <3> QED BY <1>0, <2>1, <3>1 DEF SlotType, EXP_RUNDOWN_REF_INC
    <2>2. CASE j \notin Notified
      BY <1>0, <2>2 DEF NotifySnapshot
    <2> QED BY <2>1, <2>2
  <1>4. slots' \in [Slots -> SlotType]
    BY <1>3 DEF NotifySnapshot
  <1>5. /\ \A j \in Slots : snap'[n][j] = IF j \in Notified THEN slots[j].context ELSE None
        /\ \A m \in Notifiers \ {n} : snap'[m] = snap[m]
        /\ snap' \in [Notifiers -> [Slots -> Contexts \cup {None}]]
        /\ UNCHANGED <<allow_multiple, active_count, pc, cookie, context, made, freed>>
    <2>1. [j \in Slots |-> IF j \in Notified THEN slots[j].context ELSE None] \in [Slots -> Contexts \cup {None}]
      BY <1>0 DEF SlotType
    <2> QED BY <2>1 DEF NotifySnapshot, TypeOK
  <1>6. TypeOK'
    BY <1>4, <1>5 DEF TypeOK
  <1>7. SnapshotIsLive'
    BY <1>1, <1>2, <1>3, <1>5 DEF SnapshotIsLive
  <1>8. ClearMeansDrained'
    <2>1. ASSUME NEW d \in Consumers, pc[d] = "clear"
          PROVE  cookie[d].slot \in Slots \ Notified
      BY <1>2, <2>1 DEF DrainsOwn, TypeOK, Cookies
    <2> QED BY <1>3, <1>5, <2>1 DEF ClearMeansDrained
  <1>9. RundownFollowsState'
    <2> SUFFICES ASSUME NEW j \in Slots
                 PROVE  /\ slots'[j].state = "ACTIVE" => ~ExIsRundownActive(slots'[j].rundown)
                        /\ Refs(slots'[j].rundown) = Cardinality(SlotHolders(j)')
      BY DEF RundownFollowsState
    <2>1. CASE j \in Notified
      <3>1. SlotHolders(j)' = SlotHolders(j) \cup {n} /\ n \notin SlotHolders(j)
        BY <1>1, <1>2, <1>5, <2>1 DEF SlotHolders
      <3>2. Cardinality(SlotHolders(j)') = Cardinality(SlotHolders(j)) + 1
        BY <3>1, SlotHoldersFinite, FS_AddElement
      <3> QED BY <1>0, <1>2, <1>3, <2>1, <3>2, SlotWord DEF RundownFollowsState
    <2>2. CASE j \notin Notified
      <3>1. SlotHolders(j)' = SlotHolders(j)
        BY <1>1, <1>5, <2>2 DEF SlotHolders
      <3> QED BY <1>3, <2>2, <3>1 DEF RundownFollowsState
    <2> QED BY <2>1, <2>2
  <1> QED BY <1>3, <1>4, <1>5, <1>6, <1>7, <1>8, <1>9, NotifyFrame

LEMMA ReturnsKeeps ==
    ASSUME CallbackInd, NEW n \in Notifiers, NotifyReturns(n)
    PROVE  CallbackInd'
  <1> USE CallbackConstants DEF CallbackInd
  <1>0. PICK i \in Slots :
          /\ First(i, Pending(n))
          /\ slots' = [slots EXCEPT ![i].rundown = slots[i].rundown - EXP_RUNDOWN_REF_INC]
          /\ snap' = [snap EXCEPT ![n][i] = None]
          /\ UNCHANGED <<allow_multiple, active_count, pc, cookie, context, made, freed>>
    BY DEF NotifyReturns
  <1>1. n \in SlotHolders(i)
    BY <1>0 DEF First, Pending, SlotHolders
  <1>2. Refs(slots[i].rundown) # 0 /\ slots[i].rundown \in Nat
    BY <1>1, SlotHoldersFinite, FS_EmptySet, SlotFields DEF RundownFollowsState
  <1>3. slots[i].rundown - EXP_RUNDOWN_REF_INC \in Nat
    BY <1>2, SlotWord
  <1>4. /\ \A j \in Slots : /\ slots'[j].state = slots[j].state
                            /\ slots'[j].generation = slots[j].generation
                            /\ slots'[j].context = slots[j].context
        /\ slots' \in [Slots -> SlotType]
        /\ slots'[i].rundown = slots[i].rundown - EXP_RUNDOWN_REF_INC
        /\ \A j \in Slots \ {i} : slots'[j].rundown = slots[j].rundown
    BY <1>0, <1>3 DEF TypeOK, SlotType
  <1>5. /\ snap' \in [Notifiers -> [Slots -> Contexts \cup {None}]]
        /\ snap'[n][i] = None /\ \A j \in Slots \ {i} : snap'[n][j] = snap[n][j]
        /\ \A m \in Notifiers \ {n} : snap'[m] = snap[m]
    BY <1>0 DEF TypeOK
  <1>6. TypeOK'
    BY <1>0, <1>4, <1>5 DEF TypeOK
  <1>7. SnapshotIsLive'
    BY <1>4, <1>5 DEF SnapshotIsLive
  <1>8. ClearMeansDrained'
    <2>1. ASSUME NEW d \in Consumers, pc[d] = "clear"
          PROVE  cookie[d].slot \in Slots \ {i}
      BY <1>2, <2>1 DEF ClearMeansDrained, TypeOK, Cookies
    <2> QED BY <1>0, <1>4, <2>1 DEF ClearMeansDrained
  <1>9. RundownFollowsState'
    <2> SUFFICES ASSUME NEW j \in Slots
                 PROVE  /\ slots'[j].state = "ACTIVE" => ~ExIsRundownActive(slots'[j].rundown)
                        /\ Refs(slots'[j].rundown) = Cardinality(SlotHolders(j)')
      BY DEF RundownFollowsState
    <2>1. CASE j = i
      <3>1. SlotHolders(j)' = SlotHolders(j) \ {n}
        BY <1>5, <2>1 DEF SlotHolders
      <3>2. Cardinality(SlotHolders(j)') = Cardinality(SlotHolders(j)) - 1
        BY <1>1, <2>1, <3>1, SlotHoldersFinite, FS_RemoveElement
      <3>3. /\ Refs(slots'[i].rundown) = Refs(slots[i].rundown) - 1
            /\ ExIsRundownActive(slots'[i].rundown) <=> ExIsRundownActive(slots[i].rundown)
        BY <1>2, <1>4, SlotWord
      <3>4. /\ slots[i].state = "ACTIVE" => ~ExIsRundownActive(slots[i].rundown)
            /\ Refs(slots[i].rundown) = Cardinality(SlotHolders(i))
        BY DEF RundownFollowsState
      <3> QED BY <1>4, <2>1, <3>2, <3>3, <3>4
    <2>2. CASE j # i
      <3>1. SlotHolders(j)' = SlotHolders(j)
        BY <1>5, <2>2 DEF SlotHolders
      <3> QED BY <1>4, <2>2, <3>1 DEF RundownFollowsState
    <2> QED BY <2>1, <2>2
  <1> QED BY <1>0, <1>4, <1>6, <1>7, <1>8, <1>9, NotifyFrame

-----------------------------------------------------------------------------

LEMMA CallbackNextKeeps == CallbackInd /\ [Next]_vars => CallbackInd'
  <1> SUFFICES ASSUME CallbackInd, [Next]_vars PROVE CallbackInd'
    OBVIOUS
  <1>1. CASE UNCHANGED vars
    <2> USE <1>1 DEF vars, CallbackInd
    <2>1. TypeOK' /\ GenerationCounts' /\ CookieNamesOwn' /\ ContextsLive' /\ ContextsOwned'
      BY DEF TypeOK, GenerationCounts, CookieNamesOwn, CookieValid, ContextsLive, ContextsOwned
    <2>2. DrainsOwn' /\ ClearMeansDrained' /\ ReturnedLeftNone' /\ SnapshotIsLive'
      BY DEF DrainsOwn, ClearMeansDrained, ReturnedLeftNone, SnapshotIsLive
    <2>3. ActiveCountExact' /\ RundownFollowsState'
      BY DEF ActiveCountExact, FreeSlots, RundownFollowsState, SlotHolders
    <2> QED BY <2>1, <2>2, <2>3
  <1> QED
    BY <1>1, RegisterKeeps, BeginKeeps, MarkKeeps, DrainedKeeps, EndKeeps, FreeContextKeeps,
       SnapshotKeeps, ReturnsKeeps DEF Next, ConsumerNext

(* The state of ExCallback keeps its type: generations and cookies fit      *)
(* their fields, and a rundown word never goes below zero.                  *)
THEOREM CallbackTypeCorrect == Spec => []TypeOK
  <1>1. CallbackInd => TypeOK
    BY DEF CallbackInd
  <1> QED BY <1>1, CallbackStarts, CallbackNextKeeps, PTL DEF Spec

(* ExNotifyCallback calls no routine with a context whose consumer, back    *)
(* from ExUnregisterCallback, has freed it.                                 *)
THEOREM NoRoutineAfterFree == Spec => []NoUseAfterFree
  <1>1. CallbackInd => NoUseAfterFree
    <2> SUFFICES ASSUME CallbackInd, NEW n \in Notifiers, NEW i \in Slots PROVE snap[n][i] \notin freed
      BY DEF NoUseAfterFree
    <2>1. None \notin freed
      BY CallbackConstants DEF CallbackInd, TypeOK, Contexts, None
    <2> QED BY <2>1 DEF CallbackInd, SnapshotIsLive, ContextsLive
  <1> QED BY <1>1, CallbackStarts, CallbackNextKeeps, PTL DEF Spec

(* A cookie whose slot has been reused does not tear down the registration  *)
(* that reused it, and no two consumers drain one slot.                     *)
THEOREM OldCookiesAreHarmless == Spec => []StaleCookieHarmless
  <1>1. CallbackInd => StaleCookieHarmless
    <2> SUFFICES ASSUME CallbackInd, NEW c \in Consumers, pc[c] \in {"mark", "drain", "clear"},
                        NEW d \in Consumers \ {c}, pc[d] \in {"mark", "drain", "clear"}
                 PROVE  cookie[d].slot # cookie[c].slot
      BY DEF StaleCookieHarmless, CallbackInd, DrainsOwn
    <2>1. cookie[c].slot \in Slots
      BY DEF CallbackInd, TypeOK, Cookies
    <2>2. context[c] # None
      BY <2>1 DEF CallbackInd, DrainsOwn, ContextsLive
    <2> QED BY <2>2 DEF CallbackInd, DrainsOwn, ContextsOwned
  <1> QED BY <1>1, CallbackStarts, CallbackNextKeeps, PTL DEF Spec

(* When ExUnregisterCallback returns, no routine of the registration runs   *)
(* or will run; active_count is exact and the single-registration cap holds; *)
(* and every active slot admits notifications.                              *)
THEOREM CallbackBookkeeping == Spec => []CallbackInv
  <1>1. CallbackInd => CallbackInv
    <2> SUFFICES ASSUME CallbackInd PROVE ReturnedMeansQuiet
      BY DEF CallbackInv, CallbackInd
    <2> SUFFICES ASSUME NEW c \in Consumers, NEW n \in Notifiers, NEW i \in Slots,
                        pc[c] \in {"clear", "returned"}, snap[n][i] = context[c]
                 PROVE  FALSE
      BY DEF ReturnedMeansQuiet
    <2> USE DEF CallbackInd
    <2>1. CASE pc[c] = "returned"
      BY <2>1 DEF ReturnedLeftNone, SnapshotIsLive
    <2>2. CASE pc[c] = "clear"
      <3>1. cookie[c].slot \in Slots
        BY DEF TypeOK, Cookies
      <3>2. context[c] # None /\ slots[cookie[c].slot].context = context[c]
        BY <2>2, <3>1 DEF DrainsOwn, ContextsLive
      <3>3. i = cookie[c].slot
        BY <3>1, <3>2 DEF SnapshotIsLive, ContextsLive
      <3>4. snap[n][i] = None
        BY <2>2, <3>1, <3>3, NoRefsNoHolder DEF ClearMeansDrained
      <3> QED BY <3>2, <3>4
    <2> QED BY <2>1, <2>2
  <1> QED BY <1>1, CallbackStarts, CallbackNextKeeps, PTL DEF Spec
=============================================================================
