-------------------------- MODULE ExWorkItemProofs --------------------------
(***************************************************************************)
(* Proofs about ExWorkItem for any set of items, callers and flushers and  *)
(* any size of the node pool.                                              *)
(*                                                                         *)
(* The properties count nodes and callers; the inductive invariant says    *)
(* instead who holds an item: it waits on the pending list, is in the      *)
(* worker's hand, or has been claimed by a caller, never two of these, and *)
(* one of them exactly while its State is not a drained one.  What State   *)
(* may then be follows from who holds it.                                  *)
(***************************************************************************)
EXTENDS ExWorkItem, FiniteSetTheorems, SequenceTheorems, TLAPS

\* The elements of a sequence, and that none occurs twice.
Elements(s) == {s[k] : k \in 1 .. Len(s)}
Once(s) == \A j, k \in 1 .. Len(s) : s[j] = s[k] => j = k

\* The three that may hold item w: the list, InHand(w), and a caller.
Waits(w) == w \in Elements(pending)
Claims(t, w) == pc[t] \in {"enqueue", "rollback", "rollback_cancelled"} /\ arg[t] = w

\* A caller has an item from its load of State until it returns.
ArgumentsSet ==
    \A t \in Callers : IF pc[t] = "idle" THEN arg[t] = NoItem ELSE arg[t] \in Items

\* No two hold the same item.
OneHolder ==
    /\ Once(pending)
    /\ \A w \in Items :
         /\ Waits(w) => ~InHand(w)
         /\ \A t \in Callers : Claims(t, w) => ~Waits(w) /\ ~InHand(w)
         /\ \A t, u \in Callers : Claims(t, w) /\ Claims(u, w) => t = u

\* An item is held exactly while it is not drained.
HeldIffActive ==
    \A w \in Items :
        State[w] \notin Drained <=> Waits(w) \/ InHand(w) \/ \E t \in Callers : Claims(t, w)

\* What State may be, by the holder.
StateByHolder ==
    /\ \A w \in Items : Waits(w) => State[w] \in {"QUEUED", "CANCELLED"}
    /\ \A t \in Callers :
         /\ pc[t] \in {"enqueue", "rollback"} => State[arg[t]] \in {"QUEUED", "CANCELLED"}
         /\ pc[t] = "rollback_cancelled" => State[arg[t]] = "CANCELLED"
    /\ worker \in {"call", "routine", "drain"} => item \in Items
    /\ worker = "call" => State[item] \in {"QUEUED", "CANCELLED"}
    /\ worker = "routine" => State[item] = "RUNNING"
    /\ worker = "drain" => State[item] = "CANCELLED" /\ expected = "CANCELLED"

\* A freed item is drained and no caller has it.
FreedIsLeft ==
    \A w \in freed : State[w] \in Drained /\ \A t \in Callers : arg[t] # w

\* What a flush is owed is on the list or in the worker's hand, and in its
\* hand once the flush has returned.
OwedIsHeld ==
    \A f \in Flushers : \A w \in owed[f] :
        InHand(w) \/ (Waits(w) /\ flush[f] # "returned")

\* The inductive invariant.
ItemInd ==
    /\ TypeOK /\ NodesConserved
    /\ ArgumentsSet /\ OneHolder /\ HeldIffActive /\ StateByHolder
    /\ FreedIsLeft /\ OwedIsHeld

-----------------------------------------------------------------------------
(* Sequences *)

\* An element added at the end.
LEMMA AppendElements ==
    ASSUME NEW S, NEW s \in Seq(S), NEW e \in S
    PROVE  /\ Append(s, e) \in Seq(S) /\ Len(Append(s, e)) = Len(s) + 1
           /\ Elements(Append(s, e)) = Elements(s) \cup {e}
           /\ Once(s) /\ e \notin Elements(s) => Once(Append(s, e))
<1> DEFINE a == Append(s, e)
           n == Len(s)
<1>1. /\ a \in Seq(S) /\ Len(a) = n + 1 /\ n \in Nat
      /\ a[n + 1] = e /\ \A k \in 1 .. n : a[k] = s[k]
    BY AppendProperties, LenProperties
<1> HIDE DEF a, n
<1>2. Elements(a) = Elements(s) \cup {e}
  <2>1. ASSUME NEW x PROVE x \in Elements(a) <=> x \in Elements(s) \/ x = e
    <3>1. x \in Elements(a) <=> \E k \in 1 .. n + 1 : x = a[k]
        BY <1>1, Zenon DEF Elements
    <3>2. x \in Elements(s) <=> \E k \in 1 .. n : x = s[k]
        BY Zenon DEF Elements, n
    <3> QED BY <1>1, <3>1, <3>2
  <2> QED BY <2>1
<1>3. ASSUME Once(s), e \notin Elements(s) PROVE Once(a)
  <2>1. \A k \in 1 .. n : s[k] # e
      BY <1>3, Zenon DEF Elements, n
  <2>2. \A j, k \in 1 .. n : s[j] = s[k] => j = k
      BY <1>3, Zenon DEF Once, n
  <2>3. \A j, k \in 1 .. n + 1 : a[j] = a[k] => j = k
      BY <1>1, <2>1, <2>2
  <2> QED BY <1>1, <2>3 DEF Once
<1> QED BY <1>1, <1>2, <1>3 DEF a, n

\* The head taken off.
LEMMA TailElements ==
    ASSUME NEW S, NEW s \in Seq(S), s # <<>>
    PROVE  /\ Head(s) \in S /\ Tail(s) \in Seq(S) /\ Len(Tail(s)) = Len(s) - 1
           /\ Head(s) \in Elements(s)
           /\ Once(s) => Once(Tail(s)) /\ Elements(Tail(s)) = Elements(s) \ {Head(s)}
<1> DEFINE a == Tail(s)
           n == Len(s)
           h == Head(s)
<1>1. /\ a \in Seq(S) /\ n \in Nat \ {0} /\ Len(a) = n - 1 /\ h \in S /\ h = s[1]
      /\ \A k \in 1 .. n - 1 : a[k] = s[k + 1]
    BY HeadTailProperties, LenProperties, EmptySeq
<1> HIDE DEF a, n, h
<1>2. h \in Elements(s)
  <2>1. 1 \in 1 .. n
      BY <1>1
  <2> QED BY <1>1, <2>1, Zenon DEF Elements, n
<1>3. ASSUME Once(s) PROVE Once(a) /\ Elements(a) = Elements(s) \ {h}
  <2>1. \A j, k \in 1 .. n : s[j] = s[k] => j = k
      BY <1>3, Zenon DEF Once, n
  <2>2. \A j, k \in 1 .. n - 1 : a[j] = a[k] => j = k
    <3> SUFFICES ASSUME NEW j \in 1 .. n - 1, NEW k \in 1 .. n - 1, a[j] = a[k] PROVE j = k
        OBVIOUS
    <3>1. j + 1 \in 1 .. n /\ k + 1 \in 1 .. n /\ s[j + 1] = s[k + 1]
        BY <1>1
    <3>2. j + 1 = k + 1
        BY <2>1, <3>1, Zenon
    <3> QED BY <1>1, <3>2
  <2>3. ASSUME NEW x PROVE x \in Elements(a) <=> x \in Elements(s) /\ x # h
    <3>1. x \in Elements(a) <=> \E k \in 1 .. n - 1 : x = a[k]
        BY <1>1, Zenon DEF Elements
    <3>2. x \in Elements(s) <=> \E k \in 1 .. n : x = s[k]
        BY Zenon DEF Elements, n
    <3>3. ASSUME x \in Elements(a) PROVE x \in Elements(s) /\ x # h
      <4>1. PICK k \in 1 .. n - 1 : x = a[k]
          BY <3>1, <3>3
      <4>2. k + 1 \in 1 .. n /\ 1 \in 1 .. n /\ k + 1 # 1 /\ x = s[k + 1]
          BY <1>1, <4>1
      <4>3. x \in Elements(s)
          BY <3>2, <4>2, Zenon
      <4>4. s[k + 1] # s[1]
          BY <2>1, <4>2, Zenon
      <4> QED BY <1>1, <4>2, <4>3, <4>4
    <3>4. ASSUME x \in Elements(s), x # h PROVE x \in Elements(a)
      <4>1. PICK k \in 1 .. n : x = s[k]
          BY <3>2, <3>4
      <4>2. k # 1
          BY <1>1, <3>4, <4>1
      <4>3. k - 1 \in 1 .. n - 1 /\ k = (k - 1) + 1
          BY <1>1, <4>2
      <4>4. a[k - 1] = s[k]
          BY <1>1, <4>3
      <4> QED BY <3>1, <4>1, <4>3, <4>4, Zenon
    <3> QED BY <3>3, <3>4
  <2> QED BY <1>1, <2>2, <2>3 DEF Once
<1> QED BY <1>1, <1>2, <1>3 DEF a, n, h

-----------------------------------------------------------------------------
(* The steps *)

\* A caller reads State; it holds nothing yet.
LEMMA QueueLoadKeeps ==
    ASSUME NEW t \in Callers, NEW w \in Items, ItemInd, QueueLoad(t, w) PROVE ItemInd'
<1> USE ItemAssumption, PoolAssumption DEF ItemInd
<1>1. TypeOK'
    BY DEF TypeOK, States, QueueLoad, wqvars, flushvars
<1>2. NodesConserved'
    BY DEF NodesConserved, QueueLoad, wqvars
<1>3. ArgumentsSet'
    BY DEF ArgumentsSet, QueueLoad, TypeOK
<1>4. OneHolder'
    BY DEF OneHolder, Waits, InHand, Claims, QueueLoad, wqvars
<1>5. HeldIffActive'
    BY DEF HeldIffActive, Waits, InHand, Claims, QueueLoad, wqvars
<1>6. StateByHolder'
    BY DEF StateByHolder, Waits, QueueLoad, wqvars
<1>7. FreedIsLeft'
    BY DEF FreedIsLeft, QueueLoad
<1>8. OwedIsHeld'
    BY DEF OwedIsHeld, Waits, InHand, QueueLoad, wqvars, flushvars
<1> QED BY <1>1, <1>2, <1>3, <1>4, <1>5, <1>6, <1>7, <1>8

\* It returns without having claimed the item.
LEMMA QueueRefusedKeeps ==
    ASSUME NEW t \in Callers, ItemInd, QueueRefused(t) PROVE ItemInd'
<1> USE ItemAssumption, PoolAssumption DEF ItemInd
<1>1. TypeOK'
    BY DEF TypeOK, States, QueueRefused, wqvars, flushvars
<1>2. NodesConserved'
    BY DEF NodesConserved, QueueRefused, wqvars
<1>3. ArgumentsSet'
    BY DEF ArgumentsSet, QueueRefused, TypeOK
<1>4. OneHolder'
    BY DEF OneHolder, Waits, InHand, Claims, QueueRefused, wqvars
<1>5. HeldIffActive'
    BY DEF HeldIffActive, Waits, InHand, Claims, QueueRefused, wqvars
<1>6. StateByHolder'
    BY DEF StateByHolder, Waits, QueueRefused, wqvars
<1>7. FreedIsLeft'
    BY DEF FreedIsLeft, QueueRefused, TypeOK
<1>8. OwedIsHeld'
    BY DEF OwedIsHeld, Waits, InHand, QueueRefused, wqvars, flushvars
<1> QED BY <1>1, <1>2, <1>3, <1>4, <1>5, <1>6, <1>7, <1>8

\* A drained item is held by no one, so the caller that swings it is its one holder.
LEMMA QueueClaimKeeps ==
    ASSUME NEW t \in Callers, ItemInd, QueueClaim(t) PROVE ItemInd'
<1> USE ItemAssumption, PoolAssumption DEF ItemInd
<1>1. TypeOK'
    BY DEF TypeOK, States, QueueClaim, Cas, Queueable, ArgumentsSet, wqvars, flushvars
<1>2. NodesConserved'
    BY DEF NodesConserved, QueueClaim, Cas, Queueable, wqvars
<1>3. ArgumentsSet'
    BY DEF ArgumentsSet, QueueClaim, Cas, Queueable, TypeOK
<1>4. OneHolder'
    BY DEF OneHolder, Waits, InHand, Claims, QueueClaim, Cas, Queueable, TypeOK,
       HeldIffActive, Drained, wqvars
<1>5. HeldIffActive'
    BY DEF HeldIffActive, Waits, Drained, InHand, Claims, QueueClaim, Cas, Queueable,
       TypeOK, wqvars
<1>6. StateByHolder'
    BY DEF StateByHolder, Waits, QueueClaim, Cas, Queueable, TypeOK, ArgumentsSet, wqvars
<1>7. FreedIsLeft'
    BY DEF FreedIsLeft, QueueClaim, Cas, Queueable, TypeOK
<1>8. OwedIsHeld'
    BY DEF OwedIsHeld, Waits, InHand, QueueClaim, Cas, Queueable, wqvars, flushvars
<1> QED BY <1>1, <1>2, <1>3, <1>4, <1>5, <1>6, <1>7, <1>8

\* The item passes from the caller to the list.
LEMMA QueuePublishKeeps ==
    ASSUME NEW t \in Callers, ItemInd, QueuePublish(t) PROVE ItemInd'
<1> USE ItemAssumption, PoolAssumption DEF ItemInd
<1>a. /\ arg[t] \in Items /\ arg[t] \notin Elements(pending)
      /\ pending \in Seq(Items) /\ Once(pending)
    BY DEF QueuePublish, TypeOK, ArgumentsSet, OneHolder, Waits, Claims
<1>b. /\ pending' \in Seq(Items) /\ Len(pending') = Len(pending) + 1 /\ Len(pending) \in Nat
      /\ Elements(pending') = Elements(pending) \cup {arg[t]} /\ Once(pending')
    BY <1>a, AppendElements, LenProperties DEF QueuePublish, workqueue_enqueue
<1>1. TypeOK'
    BY <1>a, <1>b DEF TypeOK, States, QueuePublish, workqueue_enqueue, PoolExhausted,
       NodesConserved, flushvars
<1>2. NodesConserved'
  <2>1. free_nodes' = free_nodes - 1 /\ sem_count' = sem_count + 1 /\ worker' = worker
      BY DEF QueuePublish, workqueue_enqueue
  <2> QED BY <1>b, <2>1 DEF NodesConserved, TypeOK
<1>3. ArgumentsSet'
    BY <1>a, <1>b DEF ArgumentsSet, QueuePublish, workqueue_enqueue, PoolExhausted, TypeOK
<1>4. OneHolder'
    BY <1>a, <1>b DEF OneHolder, Waits, InHand, Claims, QueuePublish, workqueue_enqueue,
       PoolExhausted, TypeOK
<1>5. HeldIffActive'
    BY <1>a, <1>b DEF HeldIffActive, Waits, InHand, Claims, QueuePublish,
       workqueue_enqueue, PoolExhausted, OneHolder
<1>6. StateByHolder'
    BY <1>a, <1>b DEF StateByHolder, Waits, QueuePublish, workqueue_enqueue,
       PoolExhausted, TypeOK
<1>7. FreedIsLeft'
    BY <1>a, <1>b DEF FreedIsLeft, QueuePublish, workqueue_enqueue, PoolExhausted, TypeOK
<1>8. OwedIsHeld'
    BY <1>a, <1>b DEF OwedIsHeld, Waits, InHand, QueuePublish, workqueue_enqueue, PoolExhausted,
       flushvars
<1> QED BY <1>1, <1>2, <1>3, <1>4, <1>5, <1>6, <1>7, <1>8

\* The caller keeps the item.
LEMMA QueueFullKeeps ==
    ASSUME NEW t \in Callers, ItemInd, QueueFull(t) PROVE ItemInd'
<1> USE ItemAssumption, PoolAssumption DEF ItemInd
<1>1. TypeOK'
    BY DEF TypeOK, States, QueueFull, wqvars, flushvars
<1>2. NodesConserved'
    BY DEF NodesConserved, QueueFull, wqvars
<1>3. ArgumentsSet'
    BY DEF ArgumentsSet, QueueFull
<1>4. OneHolder'
    BY DEF OneHolder, Waits, InHand, Claims, QueueFull, wqvars
<1>5. HeldIffActive'
    BY DEF HeldIffActive, Waits, InHand, Claims, QueueFull, wqvars
<1>6. StateByHolder'
    BY DEF StateByHolder, Waits, QueueFull, wqvars
<1>7. FreedIsLeft'
    BY DEF FreedIsLeft, QueueFull
<1>8. OwedIsHeld'
    BY DEF OwedIsHeld, Waits, InHand, QueueFull, wqvars, flushvars
<1> QED BY <1>1, <1>2, <1>3, <1>4, <1>5, <1>6, <1>7, <1>8

\* The caller gives the item back, unless it was cancelled.
LEMMA QueueRollbackKeeps ==
    ASSUME NEW t \in Callers, ItemInd, QueueRollback(t) PROVE ItemInd'
<1> USE ItemAssumption, PoolAssumption DEF ItemInd
<1>1. TypeOK'
    BY DEF TypeOK, States, QueueRollback, Cas, wqvars, flushvars
<1>2. NodesConserved'
    BY DEF NodesConserved, QueueRollback, Cas, wqvars
<1>3. ArgumentsSet'
    BY DEF ArgumentsSet, QueueRollback, Cas, TypeOK
<1>4. OneHolder'
    BY DEF OneHolder, Waits, InHand, Claims, QueueRollback, Cas, TypeOK, ArgumentsSet,
       wqvars
<1>5. HeldIffActive'
  <2>1. CASE Cas(arg[t], "QUEUED", "IDLE")
      BY <2>1 DEF HeldIffActive, OneHolder, Drained, Waits, InHand, Claims, QueueRollback, Cas,
                  TypeOK, ArgumentsSet, wqvars
  <2>2. CASE pc' = [pc EXCEPT ![t] = "rollback_cancelled"] /\ UNCHANGED <<State, arg>>
      BY <2>2 DEF HeldIffActive, Waits, InHand, Claims, QueueRollback, TypeOK, wqvars
  <2> QED BY <2>1, <2>2 DEF QueueRollback
<1>6. StateByHolder'
    BY DEF StateByHolder, Waits, QueueRollback, Cas, TypeOK, ArgumentsSet, OneHolder,
       InHand, Claims, wqvars
<1>7. FreedIsLeft'
    BY DEF FreedIsLeft, QueueRollback, Cas, TypeOK
<1>8. OwedIsHeld'
    BY DEF OwedIsHeld, Waits, InHand, QueueRollback, Cas, wqvars, flushvars
<1> QED BY <1>1, <1>2, <1>3, <1>4, <1>5, <1>6, <1>7, <1>8

\* The caller gives the cancelled item back.
LEMMA QueueRollbackCancelledKeeps ==
    ASSUME NEW t \in Callers, ItemInd, QueueRollbackCancelled(t) PROVE ItemInd'
<1> USE ItemAssumption, PoolAssumption DEF ItemInd
<1>a. /\ arg[t] \in Items /\ Claims(t, arg[t])
      /\ State' = [State EXCEPT ![arg[t]] = "IDLE"]
    BY DEF QueueRollbackCancelled, StateByHolder, ArgumentsSet, Claims
<1>1. TypeOK'
    BY <1>a DEF TypeOK, States, QueueRollbackCancelled, wqvars, flushvars
<1>2. NodesConserved'
    BY <1>a DEF NodesConserved, QueueRollbackCancelled, wqvars
<1>3. ArgumentsSet'
    BY <1>a DEF ArgumentsSet, QueueRollbackCancelled, TypeOK
<1>4. OneHolder'
    BY <1>a DEF OneHolder, Waits, InHand, Claims, QueueRollbackCancelled, wqvars
<1>5. HeldIffActive'
    BY <1>a DEF HeldIffActive, Waits, Drained, InHand, Claims, QueueRollbackCancelled,
       TypeOK, OneHolder, wqvars
<1>6. StateByHolder'
    BY <1>a DEF StateByHolder, Waits, QueueRollbackCancelled, TypeOK, OneHolder, InHand,
       Claims, wqvars
<1>7. FreedIsLeft'
    BY <1>a DEF FreedIsLeft, QueueRollbackCancelled, TypeOK
<1>8. OwedIsHeld'
    BY <1>a DEF OwedIsHeld, Waits, InHand, QueueRollbackCancelled, wqvars, flushvars
<1> QED BY <1>1, <1>2, <1>3, <1>4, <1>5, <1>6, <1>7, <1>8

\* A cancel leaves the item with its holder.
LEMMA ExCancelWorkItemKeeps ==
    ASSUME NEW w \in Items, ItemInd, ExCancelWorkItem(w) PROVE ItemInd'
<1> USE ItemAssumption, PoolAssumption DEF ItemInd
<1>1. TypeOK'
    BY DEF TypeOK, States, ExCancelWorkItem, Cas, wqvars, flushvars
<1>2. NodesConserved'
    BY DEF NodesConserved, ExCancelWorkItem, Cas, wqvars
<1>3. ArgumentsSet'
    BY DEF ArgumentsSet, ExCancelWorkItem, Cas
<1>4. OneHolder'
    BY DEF OneHolder, Waits, InHand, Claims, ExCancelWorkItem, Cas, wqvars
<1>5. HeldIffActive'
    BY DEF HeldIffActive, Waits, Drained, InHand, Claims, ExCancelWorkItem, Cas, wqvars
<1>6. StateByHolder'
    BY DEF StateByHolder, Waits, ExCancelWorkItem, Cas, wqvars
<1>7. FreedIsLeft'
    BY DEF FreedIsLeft, ExCancelWorkItem, Cas
<1>8. OwedIsHeld'
    BY DEF OwedIsHeld, Waits, InHand, ExCancelWorkItem, Cas, wqvars, flushvars
<1> QED BY <1>1, <1>2, <1>3, <1>4, <1>5, <1>6, <1>7, <1>8

\* A freed item has no holder and no caller.
LEMMA FreeItemKeeps ==
    ASSUME NEW w \in Items, ItemInd, FreeItem(w) PROVE ItemInd'
<1> USE ItemAssumption, PoolAssumption DEF ItemInd
<1>1. TypeOK'
    BY DEF TypeOK, States, FreeItem, wqvars, flushvars
<1>2. NodesConserved'
    BY DEF NodesConserved, FreeItem, wqvars
<1>3. ArgumentsSet'
    BY DEF ArgumentsSet, FreeItem
<1>4. OneHolder'
    BY DEF OneHolder, Waits, InHand, Claims, FreeItem, wqvars
<1>5. HeldIffActive'
    BY DEF HeldIffActive, Waits, InHand, Claims, FreeItem, wqvars
<1>6. StateByHolder'
    BY DEF StateByHolder, Waits, FreeItem, wqvars
<1>7. FreedIsLeft'
    BY DEF FreedIsLeft, FreeItem
<1>8. OwedIsHeld'
    BY DEF OwedIsHeld, Waits, InHand, FreeItem, wqvars, flushvars
<1> QED BY <1>1, <1>2, <1>3, <1>4, <1>5, <1>6, <1>7, <1>8

\* The head of the list passes to the worker.
LEMMA DequeueKeeps ==
    ASSUME ItemInd, Dequeue PROVE ItemInd'
<1> USE ItemAssumption, PoolAssumption DEF ItemInd
<1>a. /\ item' \in Items /\ item' \in Elements(pending) /\ item' = Head(pending)
      /\ pending' \in Seq(Items) /\ Len(pending') = Len(pending) - 1 /\ Len(pending) \in Nat
      /\ Elements(pending') = Elements(pending) \ {item'} /\ Once(pending')
    BY TailElements, LenProperties DEF Dequeue, WorkerDequeue, TypeOK, OneHolder
<1>1. TypeOK'
    BY <1>a DEF TypeOK, States, Dequeue, WorkerDequeue, flushvars
<1>2. NodesConserved'
    BY <1>a DEF NodesConserved, Dequeue, WorkerDequeue, TypeOK
<1>3. ArgumentsSet'
    BY <1>a DEF ArgumentsSet, Dequeue, WorkerDequeue
<1>4. OneHolder'
    BY <1>a DEF OneHolder, Waits, InHand, Claims, Dequeue, WorkerDequeue
<1>5. HeldIffActive'
    BY <1>a DEF HeldIffActive, Waits, InHand, Claims, Dequeue, WorkerDequeue, OneHolder
<1>6. StateByHolder'
    BY <1>a DEF StateByHolder, Waits, Dequeue, WorkerDequeue
<1>7. FreedIsLeft'
    BY <1>a DEF FreedIsLeft, Dequeue, WorkerDequeue
<1>8. OwedIsHeld'
    BY <1>a DEF OwedIsHeld, Waits, InHand, Dequeue, WorkerDequeue, flushvars
<1> QED BY <1>1, <1>2, <1>3, <1>4, <1>5, <1>6, <1>7, <1>8

\* The worker keeps the item, RUNNING or cancelled.
LEMMA TrampolineClaimKeeps ==
    ASSUME ItemInd, TrampolineClaim PROVE ItemInd'
<1> USE ItemAssumption, PoolAssumption DEF ItemInd
<1>a. /\ item \in Items /\ State[item] \notin Drained
      /\ State' = [State EXCEPT ![item] = "RUNNING"] \/ UNCHANGED State
    BY DEF TrampolineClaim, Cas, StateByHolder, Drained
<1>1. TypeOK'
    BY <1>a DEF TypeOK, States, TrampolineClaim, Cas, flushvars
<1>2. NodesConserved'
    BY <1>a DEF NodesConserved, TrampolineClaim, Cas
<1>3. ArgumentsSet'
    BY <1>a DEF ArgumentsSet, TrampolineClaim, Cas
<1>4. OneHolder'
    BY <1>a DEF OneHolder, Waits, InHand, Claims, TrampolineClaim, Cas
<1>5. HeldIffActive'
    BY <1>a DEF HeldIffActive, Waits, Drained, InHand, Claims, TrampolineClaim, Cas,
       TypeOK
<1>6. StateByHolder'
    BY <1>a DEF StateByHolder, Waits, TrampolineClaim, Cas, TypeOK, ArgumentsSet,
       OneHolder, InHand, Claims
<1>7. FreedIsLeft'
    BY <1>a DEF FreedIsLeft, TrampolineClaim, Cas, TypeOK
<1>8. OwedIsHeld'
    BY <1>a DEF OwedIsHeld, Waits, InHand, TrampolineClaim, Cas, flushvars
<1> QED BY <1>1, <1>2, <1>3, <1>4, <1>5, <1>6, <1>7, <1>8

\* The worker lets go of an item that is DONE.
LEMMA TrampolineDoneKeeps ==
    ASSUME ItemInd, TrampolineDone PROVE ItemInd'
<1> USE ItemAssumption, PoolAssumption DEF ItemInd
<1>a. item \in Items /\ item \notin freed
    BY DEF TrampolineDone, StateByHolder, FreedIsLeft, Drained
<1>1. TypeOK'
    BY <1>a DEF TypeOK, States, TrampolineDone, Processed
<1>2. NodesConserved'
    BY <1>a DEF NodesConserved, TrampolineDone
<1>3. ArgumentsSet'
    BY <1>a DEF ArgumentsSet, TrampolineDone
<1>4. OneHolder'
    BY <1>a DEF OneHolder, Waits, InHand, Claims, TrampolineDone
<1>5. HeldIffActive'
    BY <1>a DEF HeldIffActive, Waits, Drained, InHand, Claims, TrampolineDone, TypeOK,
       OneHolder
<1>6. StateByHolder'
    BY <1>a DEF StateByHolder, Waits, TrampolineDone
<1>7. FreedIsLeft'
    BY <1>a DEF FreedIsLeft, TrampolineDone
<1>8. OwedIsHeld'
    BY <1>a DEF OwedIsHeld, Waits, InHand, TrampolineDone, Processed
<1> QED BY <1>1, <1>2, <1>3, <1>4, <1>5, <1>6, <1>7, <1>8

\* The worker lets go of the cancelled item.
LEMMA TrampolineDrainKeeps ==
    ASSUME ItemInd, TrampolineDrain PROVE ItemInd'
<1> USE ItemAssumption, PoolAssumption DEF ItemInd
<1>a. item \in Items /\ item \notin freed /\ State' = [State EXCEPT ![item] = "IDLE"]
    BY DEF TrampolineDrain, StateByHolder, FreedIsLeft, Drained
<1>1. TypeOK'
    BY <1>a DEF TypeOK, States, TrampolineDrain, Processed
<1>2. NodesConserved'
    BY <1>a DEF NodesConserved, TrampolineDrain
<1>3. ArgumentsSet'
    BY <1>a DEF ArgumentsSet, TrampolineDrain
<1>4. OneHolder'
    BY <1>a DEF OneHolder, Waits, InHand, Claims, TrampolineDrain
<1>5. HeldIffActive'
    BY <1>a DEF HeldIffActive, Waits, Drained, InHand, Claims, TrampolineDrain, TypeOK,
       OneHolder
<1>6. StateByHolder'
    BY <1>a DEF StateByHolder, Waits, TrampolineDrain, OneHolder, InHand, Claims
<1>7. FreedIsLeft'
    BY <1>a DEF FreedIsLeft, TrampolineDrain
<1>8. OwedIsHeld'
    BY <1>a DEF OwedIsHeld, Waits, InHand, TrampolineDrain, Processed
<1> QED BY <1>1, <1>2, <1>3, <1>4, <1>5, <1>6, <1>7, <1>8

\* The node goes back; the worker held no item any more.
LEMMA ReturnNodeKeeps ==
    ASSUME ItemInd, ReturnNode PROVE ItemInd'
<1> USE ItemAssumption, PoolAssumption DEF ItemInd
<1>1. TypeOK'
    BY DEF TypeOK, States, ReturnNode, WorkerReturnNode, NodesConserved, flushvars
<1>2. NodesConserved'
    BY DEF NodesConserved, ReturnNode, WorkerReturnNode, TypeOK
<1>3. ArgumentsSet'
    BY DEF ArgumentsSet, ReturnNode, WorkerReturnNode
<1>4. OneHolder'
    BY DEF OneHolder, Waits, InHand, Claims, ReturnNode, WorkerReturnNode
<1>5. HeldIffActive'
    BY DEF HeldIffActive, Waits, InHand, Claims, ReturnNode, WorkerReturnNode
<1>6. StateByHolder'
    BY DEF StateByHolder, Waits, ReturnNode, WorkerReturnNode
<1>7. FreedIsLeft'
    BY DEF FreedIsLeft, ReturnNode, WorkerReturnNode
<1>8. OwedIsHeld'
    BY DEF OwedIsHeld, Waits, InHand, ReturnNode, WorkerReturnNode, flushvars
<1> QED BY <1>1, <1>2, <1>3, <1>4, <1>5, <1>6, <1>7, <1>8

\* A flush begins with what is on the list.
LEMMA FlushBeginKeeps ==
    ASSUME NEW f \in Flushers, ItemInd, FlushBegin(f) PROVE ItemInd'
<1> USE ItemAssumption, PoolAssumption DEF ItemInd
<1>1. TypeOK'
    BY DEF TypeOK, States, FlushBegin, wqvars
<1>2. NodesConserved'
    BY DEF NodesConserved, FlushBegin, wqvars
<1>3. ArgumentsSet'
    BY DEF ArgumentsSet, FlushBegin
<1>4. OneHolder'
    BY DEF OneHolder, Waits, InHand, Claims, FlushBegin, wqvars
<1>5. HeldIffActive'
    BY DEF HeldIffActive, Waits, InHand, Claims, FlushBegin, wqvars
<1>6. StateByHolder'
    BY DEF StateByHolder, Waits, FlushBegin, wqvars
<1>7. FreedIsLeft'
    BY DEF FreedIsLeft, FlushBegin
<1>8. OwedIsHeld'
    BY DEF OwedIsHeld, Waits, InHand, FlushBegin, TypeOK, Elements, wqvars
<1> QED BY <1>1, <1>2, <1>3, <1>4, <1>5, <1>6, <1>7, <1>8

\* A list that is empty when its head is loaded leaves only what the worker has.
LEMMA FlushPollKeeps ==
    ASSUME NEW f \in Flushers, ItemInd, FlushPoll(f) PROVE ItemInd'
<1> USE ItemAssumption, PoolAssumption DEF ItemInd
<1>1. TypeOK'
    BY DEF TypeOK, States, FlushPoll, wqvars
<1>2. NodesConserved'
    BY DEF NodesConserved, FlushPoll, wqvars
<1>3. ArgumentsSet'
    BY DEF ArgumentsSet, FlushPoll
<1>4. OneHolder'
    BY DEF OneHolder, Waits, InHand, Claims, FlushPoll, wqvars
<1>5. HeldIffActive'
    BY DEF HeldIffActive, Waits, InHand, Claims, FlushPoll, wqvars
<1>6. StateByHolder'
    BY DEF StateByHolder, Waits, FlushPoll, wqvars
<1>7. FreedIsLeft'
    BY DEF FreedIsLeft, FlushPoll
<1>8. OwedIsHeld'
    BY DEF OwedIsHeld, Waits, InHand, FlushPoll, HeadNull, TypeOK, Elements, wqvars
<1> QED BY <1>1, <1>2, <1>3, <1>4, <1>5, <1>6, <1>7, <1>8

-----------------------------------------------------------------------------
(* The invariant *)

\* Nothing is queued, claimed or freed at first.
LEMMA ItemIndInit == Init => ItemInd
<1> SUFFICES ASSUME Init PROVE ItemInd
    OBVIOUS
<1> USE ItemAssumption, PoolAssumption DEF Init, WqInit, ItemInd
<1>1. Elements(pending) = {} /\ Len(pending) = 0 /\ pending \in Seq(Items)
    BY DEF Elements
<1>2. TypeOK /\ NodesConserved
    BY <1>1 DEF TypeOK, States, NodesConserved
<1>3. ArgumentsSet /\ OneHolder
    BY <1>1 DEF ArgumentsSet, OneHolder, Once, Waits, InHand, Claims
<1>4. HeldIffActive /\ StateByHolder
    BY <1>1 DEF HeldIffActive, StateByHolder, Drained, Waits, InHand, Claims
<1>5. FreedIsLeft /\ OwedIsHeld
    BY <1>1 DEF FreedIsLeft, OwedIsHeld
<1> QED BY <1>2, <1>3, <1>4, <1>5

\* Every step keeps it.
LEMMA ItemIndNext == ItemInd /\ [Next]_vars => ItemInd'
<1> SUFFICES ASSUME ItemInd, [Next]_vars PROVE ItemInd'
    OBVIOUS
<1>1. ASSUME NEW t \in Callers, CallerNext(t) PROVE ItemInd'
    BY <1>1, QueueLoadKeeps, QueueRefusedKeeps, QueueClaimKeeps, QueuePublishKeeps, QueueFullKeeps,
       QueueRollbackKeeps, QueueRollbackCancelledKeeps DEF CallerNext
<1>2. ASSUME NEW w \in Items, ExCancelWorkItem(w) \/ FreeItem(w) PROVE ItemInd'
    BY <1>2, ExCancelWorkItemKeeps, FreeItemKeeps
<1>3. CASE WorkerNext
    BY <1>3, DequeueKeeps, TrampolineClaimKeeps, TrampolineDoneKeeps, TrampolineDrainKeeps,
       ReturnNodeKeeps DEF WorkerNext
<1>4. ASSUME NEW f \in Flushers, FlushBegin(f) \/ FlushPoll(f) PROVE ItemInd'
    BY <1>4, FlushBeginKeeps, FlushPollKeeps
<1>5. CASE UNCHANGED vars
    BY <1>5 DEF vars, ItemInd, TypeOK, NodesConserved, ArgumentsSet, OneHolder, HeldIffActive,
       StateByHolder, FreedIsLeft, OwedIsHeld, Waits, InHand, Claims
<1> QED BY <1>1, <1>2, <1>3, <1>4, <1>5 DEF Next

\* The inductive invariant holds throughout.
THEOREM ItemsHaveOneHolder == Spec => []ItemInd
  BY ItemIndInit, ItemIndNext, PTL DEF Spec

-----------------------------------------------------------------------------
(* From holders to the counts of the properties *)

\* A sequence in which nothing occurs twice has one position for each element.
LEMMA PositionsOf ==
    ASSUME NEW S, NEW s \in Seq(S), Once(s), NEW w
    PROVE  Cardinality({k \in 1 .. Len(s) : s[k] = w}) = IF w \in Elements(s) THEN 1 ELSE 0
<1> DEFINE P == {k \in 1 .. Len(s) : s[k] = w}
<1>1. CASE w \in Elements(s)
  <2>1. PICK k \in 1 .. Len(s) : w = s[k]
      BY <1>1, Zenon DEF Elements
  <2>2. P = {k}
      BY <2>1 DEF Once
  <2> QED BY <1>1, <2>2, FS_Singleton
<1>2. CASE w \notin Elements(s)
  <2>1. P = {}
      BY <1>2, Zenon DEF Elements
  <2> QED BY <1>2, <2>1, FS_EmptySet
<1> QED BY <1>1, <1>2

\* The nodes of an item: one if it waits or is in the worker's hand.
LEMMA NodesByHolder ==
    ASSUME ItemInd, NEW w \in Items
    PROVE  NodesOf(w) = IF Waits(w) \/ InHand(w) THEN 1 ELSE 0
<1>1. Cardinality({k \in 1 .. Len(pending) : pending[k] = w}) = IF Waits(w) THEN 1 ELSE 0
    BY PositionsOf DEF ItemInd, TypeOK, OneHolder, Waits
<1> QED BY <1>1 DEF NodesOf, InHand, ItemInd, OneHolder

\* The callers that have claimed an item: one or none.
LEMMA ClaimersByHolder ==
    ASSUME ItemInd, NEW w \in Items
    PROVE  Cardinality(Claiming(w)) = IF \E t \in Callers : Claims(t, w) THEN 1 ELSE 0
<1>1. Claiming(w) = {t \in Callers : Claims(t, w)}
    BY DEF Claiming, Claims
<1>2. CASE \E t \in Callers : Claims(t, w)
  <2>1. PICK t \in Callers : Claims(t, w)
      BY <1>2
  <2>2. Claiming(w) = {t}
      BY <1>1, <2>1 DEF ItemInd, OneHolder
  <2> QED BY <1>2, <2>2, FS_Singleton
<1>3. CASE ~ \E t \in Callers : Claims(t, w)
  <2>1. Claiming(w) = {}
      BY <1>1, <1>3
  <2> QED BY <1>3, <2>1, FS_EmptySet
<1> QED BY <1>2, <1>3

\* One holder means one node or one claiming caller, and none once drained.
LEMMA HoldersGiveNodes == ItemInd => NodesAccounted
<1> SUFFICES ASSUME ItemInd PROVE NodesAccounted
    OBVIOUS
<1>1. ASSUME NEW w \in Items
      PROVE  NodesOf(w) + Cardinality(Claiming(w)) = IF State[w] \in Drained THEN 0 ELSE 1
  <2>1. /\ NodesOf(w) = IF Waits(w) \/ InHand(w) THEN 1 ELSE 0
        /\ Cardinality(Claiming(w)) = IF \E t \in Callers : Claims(t, w) THEN 1 ELSE 0
      BY NodesByHolder, ClaimersByHolder
  <2>2. /\ State[w] \notin Drained <=> Waits(w) \/ InHand(w) \/ \E t \in Callers : Claims(t, w)
        /\ \A t \in Callers : Claims(t, w) => ~Waits(w) /\ ~InHand(w)
      BY DEF ItemInd, HeldIffActive, OneHolder
  <2> QED BY <2>1, <2>2
<1> QED BY <1>1 DEF NodesAccounted, OneNodePerItem, ItemInd

\* A freed item is drained, so no one holds it.
LEMMA HoldersKeepLifetime == ItemInd => LifetimeKept
<1> SUFFICES ASSUME ItemInd PROVE LifetimeKept
    OBVIOUS
<1>1. ASSUME NEW w \in freed PROVE NodesOf(w) = 0 /\ \A t \in Callers : arg[t] # w
    BY NodesByHolder DEF ItemInd, TypeOK, FreedIsLeft, HeldIffActive
<1> QED BY <1>1 DEF LifetimeKept, FreedIsUnreferenced, RunsOnlyUncancelled, ItemInd, StateByHolder

-----------------------------------------------------------------------------
(* The theorems *)

\* Whatever is cancelled, rolled back or requeued, an item that is not drained has
\* exactly one node or one caller about to publish or withdraw it, a drained one
\* has none, and no node of the pool is lost or handed out twice.
THEOREM ItemsHaveOneNode == Spec => []NodesAccounted
  BY ItemsHaveOneHolder, HoldersGiveNodes, PTL

\* The routine runs only in an item no cancel has won, a node is dropped only for
\* one that was cancelled, and after an owner that saw a drained state has freed the
\* item, neither the queue, the worker nor a caller refers to it.
THEOREM DrainedMayBeFreed == Spec => []LifetimeKept
  BY ItemsHaveOneHolder, HoldersKeepLifetime, PTL

\* When a flush has returned, all that was queued or running at its call has been
\* processed, but for at most the one item in the worker's hand.
THEOREM FlushWaitsForAll == Spec => []FlushLeavesAtMostOne
<1>1. ItemInd => FlushLeavesAtMostOne
    BY DEF ItemInd, OwedIsHeld, FlushLeavesAtMostOne
<1> QED BY <1>1, ItemsHaveOneHolder, PTL
=============================================================================
