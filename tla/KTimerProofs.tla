---------------------------- MODULE KTimerProofs ----------------------------
(***************************************************************************)
(* Proofs about KTimer and the DPCs under it, for any number of processors, *)
(* DPCs, timers and batch limits.                                          *)
(*                                                                         *)
(* DpcInd is inductive for every step on the DPC queues, whoever takes it: *)
(* to DpcInv it adds how far a flush has come, the processors it has       *)
(* sampled being clear of what was outstanding at the call.  DriverInd     *)
(* adds what the timer interrupt may still do with a timer, and what the   *)
(* driver has put an end to when it stops, flushes and frees.              *)
(***************************************************************************)
EXTENDS KTimer, FiniteSetTheorems, SequenceTheorems, TLAPS

-----------------------------------------------------------------------------
(* The invariants *)

\* The type invariant of Dpc.
DpcType ==
    /\ q \in [Cpu -> Seq(KDPC)] /\ tq \in [Cpu -> Seq(KDPC)]
    /\ pending \in [Cpu -> BOOLEAN]
    /\ queued \in [KDPC -> Cpu \cup {None}]
    /\ ins \in [KDPC -> [to : Cpu \cup {None}, saw : Cpu \cup {None, Unread}]]
    /\ run \in [Drain -> Activation \cup {None}]
    /\ in_flight \in [Cpu -> Int]
    /\ worker \in [cpu : Cpu, budget : Nat]
    /\ wrun \in Activation \cup {None}
    /\ in_flight_threaded \in Int
    /\ flush \in [at : {"no", "dispatch", "scan", "threaded", "returned"}, cpu : Cpu]
    /\ asked \subseteq KDPC /\ old \subseteq KDPC

\* A DPC is queued on processor c just when one of c's two lists has it, once.
ListsHold ==
    \A c \in Cpu :
        /\ IsInjective(q[c]) /\ IsInjective(tq[c])
        /\ \A d \in KDPC : /\ ~(d \in Range(q[c]) /\ d \in Range(tq[c]))
                           /\ queued[d] = c <=> d \in Range(q[c]) \/ d \in Range(tq[c])

\* Threaded DPCs do not wait with pending clear.
PendingSet == \A c \in Cpu : Range(tq[c]) # {} => pending[c]

\* What is outstanding is queued.
HistoryQueued == \A d \in asked \cup old : queued[d] # None

\* The routines running on processor c: its own drain's and the interrupt's.
One(x) == IF run[x] = None THEN 0 ELSE 1
RunsCounted ==
    /\ \A c \in Cpu : in_flight[c] = One(c) + IF c = BSP THEN One(Isr) ELSE 0
    /\ in_flight_threaded = IF wrun = None THEN 0 ELSE 1
    /\ wrun # None => worker.budget > 0

\* Nothing that was outstanding at the flush is left on processor c.
Clear(c) ==
    /\ \A d \in old : queued[d] # c
    /\ \A x \in Drain : CpuOf(x) = c /\ run[x] # None => ~run[x].old

\* How far the flush has come.
FlushProgress ==
    /\ flush.at \in {"dispatch", "threaded"} => flush.cpu = 0
    /\ flush.at = "scan" => \A c \in Cpu : c < flush.cpu => Clear(c)
    /\ flush.at \in {"threaded", "returned"} => \A c \in Cpu : Clear(c)
    /\ flush.at = "returned" /\ wrun # None => ~wrun.old

\* The inductive invariant of the DPC queues.
DpcInd ==
    /\ DpcType /\ ListsHold /\ PendingSet /\ HistoryQueued /\ RunsCounted /\ FlushProgress

\* The type invariant of the timers, the interrupt and the driver.
TimerRecord == [linked : BOOLEAN, active : BOOLEAN, due : Int, period : Nat \cup {Endless}]
IsrRecord == [at : {"no", "scan", "queue", "drain"}, todo : SUBSET Timer, now : Timer \cup {None}, left : Int]
DriverOn == Timer \cup (SUBSET Timer) \cup Mine \cup {None}
DriverRecord == [at : {"run", "arm", "stop", "remove", "flush", "freed"},
                 on : DriverOn, cpu : Cpu \cup {None}]
TimerType == timer \in [Timer -> TimerRecord] /\ isr \in IsrRecord /\ driver \in DriverRecord

\* The timer interrupt has its lock while it has timers left, and is queueing the
\* DPC of the one it is at.
InterruptHolds ==
    /\ IF isr.at = "queue" THEN isr.now \in Timer ELSE isr.now = None
    /\ isr.at \notin {"scan", "queue"} => isr.todo = {}
    /\ \A t \in isr.todo : timer[t].linked

\* An active timer is on the list or is the one that is firing, and only that one's
\* DPC is being inserted.
ActiveIsHeld ==
    \A t \in Timer :
        /\ timer[t].linked => timer[t].active
        /\ timer[t].active => timer[t].linked \/ isr.now = t
        /\ Inserting(TimerDpc[t]) => isr.now = t

\* A timer that will not fire.
Quiet(t) == ~timer[t].linked /\ isr.now # t /\ t \notin isr.todo

\* What the driver has put an end to.
Stopped ==
    /\ driver.at = "arm" => driver.on \in Timer
    /\ driver.at = "remove" => driver.on \in Mine /\ driver.cpu \in Cpu
    /\ driver.at = "stop" => driver.on \subseteq Timer /\ \A t \in Timer : t \notin driver.on => Quiet(t)
    /\ driver.at \in {"remove", "flush", "freed"} => \A t \in Timer : Quiet(t)
    /\ driver.at \notin {"run", "arm"} => \A d \in Mine \ TimerDpcs : ~Inserting(d)

\* The flush waits for DPC d, if it is outstanding.
Marked(d) ==
    /\ queued[d] # None => d \in old
    /\ \A x \in Drain : run[x] # None /\ run[x].dpc = d => run[x].old
    /\ wrun # None /\ wrun.dpc = d => wrun.old

\* It is not outstanding.
Gone(d) == queued[d] = None /\ ~Running(d)

\* The flush is the driver's, and waits for all that is the driver's.
FlushOwned ==
    /\ flush.at = "no" <=> driver.at \in {"run", "arm", "stop", "remove"}
    /\ driver.at = "flush" => \A d \in Mine : Marked(d)
    /\ driver.at = "freed" => \A d \in Mine : Gone(d)

\* The inductive invariant of the whole.
DriverInd == TimerType /\ InterruptHolds /\ ActiveIsHeld /\ Stopped /\ FlushOwned

-----------------------------------------------------------------------------
(* Sequences *)

\* The positions of a sequence, and what is in it.
LEMMA RangeOf ==
    ASSUME NEW S, NEW s \in Seq(S)
    PROVE  /\ Len(s) \in Nat /\ DOMAIN s = 1 .. Len(s)
           /\ Range(s) = {s[k] : k \in 1 .. Len(s)} /\ Range(s) \subseteq S
           /\ s = <<>> <=> Range(s) = {}
<1>1. Len(s) \in Nat /\ DOMAIN s = 1 .. Len(s) /\ \A k \in 1 .. Len(s) : s[k] \in S
    BY LenProperties, ElementOfSeq
<1>2. Range(s) = {s[k] : k \in 1 .. Len(s)} /\ Range(s) \subseteq S
    BY <1>1 DEF Range
<1>3. s # <<>> => Range(s) # {}
  <2>1. s # <<>> => 1 \in 1 .. Len(s)
      BY <1>1, EmptySeq
  <2> QED BY <1>2, <2>1
<1>4. s = <<>> => Range(s) = {}
  <2>1. s = <<>> => 1 .. Len(s) = {}
      BY <1>1, EmptySeq
  <2> QED BY <1>2, <2>1
<1> QED BY <1>1, <1>2, <1>3, <1>4

\* One sequence after another.
LEMMA ConcatRange ==
    ASSUME NEW S, NEW s \in Seq(S), NEW r \in Seq(S)
    PROVE  /\ s \o r \in Seq(S) /\ Range(s \o r) = Range(s) \cup Range(r)
           /\ IsInjective(s) /\ IsInjective(r) /\ Range(s) \cap Range(r) = {} => IsInjective(s \o r)
<1> DEFINE a == s \o r
           m == Len(s)
           n == Len(r)
<1>1. /\ a \in Seq(S) /\ Len(a) = m + n /\ m \in Nat /\ n \in Nat
      /\ DOMAIN s = 1 .. m /\ DOMAIN r = 1 .. n /\ DOMAIN a = 1 .. m + n
    BY ConcatProperties, RangeOf
<1>2. \A k \in 1 .. m + n : a[k] = IF k <= m THEN s[k] ELSE r[k - m]
    BY ConcatProperties
<1> HIDE DEF a, m, n
<1>3. /\ \A k \in 1 .. m : k \in 1 .. m + n /\ a[k] = s[k]
      /\ \A k \in 1 .. n : m + k \in 1 .. m + n /\ a[m + k] = r[k]
    BY <1>1, <1>2
<1>4. Range(a) = Range(s) \cup Range(r)
  <2>1. ASSUME NEW x \in Range(a) PROVE x \in Range(s) \cup Range(r)
    <3>1. PICK k \in 1 .. m + n : x = a[k]
        BY <1>1, Zenon DEF Range
    <3>2. CASE k <= m
      <4>1. k \in 1 .. m /\ x = s[k]
          BY <1>1, <1>2, <3>1, <3>2
      <4> QED BY <1>1, <4>1, Zenon DEF Range
    <3>3. CASE ~(k <= m)
      <4>1. k - m \in 1 .. n /\ x = r[k - m]
          BY <1>1, <1>2, <3>1, <3>3
      <4> QED BY <1>1, <4>1, Zenon DEF Range
    <3> QED BY <3>2, <3>3
  <2>2. ASSUME NEW x \in Range(s) PROVE x \in Range(a)
    <3>1. PICK k \in 1 .. m : x = s[k]
        BY <1>1, Zenon DEF Range
    <3> QED BY <1>1, <1>3, <3>1, Zenon DEF Range
  <2>3. ASSUME NEW x \in Range(r) PROVE x \in Range(a)
    <3>1. PICK k \in 1 .. n : x = r[k]
        BY <1>1, Zenon DEF Range
    <3> QED BY <1>1, <1>3, <3>1, Zenon DEF Range
  <2> QED BY <2>1, <2>2, <2>3
<1>5. ASSUME IsInjective(s), IsInjective(r), Range(s) \cap Range(r) = {} PROVE IsInjective(a)
  <2>1. /\ \A j, k \in 1 .. m : s[j] = s[k] => j = k
        /\ \A j, k \in 1 .. n : r[j] = r[k] => j = k
      BY <1>1, <1>5, Zenon DEF IsInjective
  <2>2. \A j \in 1 .. m, k \in 1 .. n : s[j] # r[k]
      BY <1>1, <1>5 DEF Range
  <2>3. ASSUME NEW j \in 1 .. m + n, NEW k \in 1 .. m + n, a[j] = a[k] PROVE j = k
    <3>1. CASE j <= m /\ k <= m
        BY <1>1, <1>2, <2>1, <2>3, <3>1
    <3>2. CASE j > m /\ k > m
      <4>1. j - m \in 1 .. n /\ k - m \in 1 .. n /\ r[j - m] = r[k - m]
          BY <1>1, <1>2, <2>3, <3>2
      <4>2. j - m = k - m
          BY <2>1, <4>1, Zenon
      <4> QED BY <1>1, <4>2
    <3>3. CASE j <= m /\ k > m
      <4>1. j \in 1 .. m /\ k - m \in 1 .. n /\ s[j] = r[k - m]
          BY <1>1, <1>2, <2>3, <3>3
      <4> QED BY <2>2, <4>1, Zenon
    <3>4. CASE j > m /\ k <= m
      <4>1. k \in 1 .. m /\ j - m \in 1 .. n /\ s[k] = r[j - m]
          BY <1>1, <1>2, <2>3, <3>4
      <4> QED BY <2>2, <4>1, Zenon
    <3> QED BY <1>1, <3>1, <3>2, <3>3, <3>4
  <2> QED BY <1>1, <2>3 DEF IsInjective
<1> QED BY <1>1, <1>4, <1>5 DEF a

\* A sequence of one.
LEMMA SingletonRange ==
    ASSUME NEW S, NEW e \in S
    PROVE  <<e>> \in Seq(S) /\ Range(<<e>>) = {e} /\ IsInjective(<<e>>)
<1>1. <<e>> \in Seq(S) /\ Len(<<e>>) = 1 /\ <<e>>[1] = e
    OBVIOUS
<1>2. DOMAIN <<e>> = 1 .. 1 /\ Range(<<e>>) = {<<e>>[k] : k \in 1 .. 1}
    BY <1>1, RangeOf
<1>3. 1 .. 1 = {1}
    OBVIOUS
<1> QED BY <1>1, <1>2, <1>3 DEF IsInjective

\* The head taken off.
LEMMA TailRange ==
    ASSUME NEW S, NEW s \in Seq(S), s # <<>>
    PROVE  /\ Head(s) \in S /\ Tail(s) \in Seq(S) /\ Head(s) \in Range(s)
           /\ IsInjective(s) => IsInjective(Tail(s)) /\ Range(Tail(s)) = Range(s) \ {Head(s)}
<1>1. /\ Head(s) \in S /\ Tail(s) \in Seq(S)
      /\ Len(s) \in Nat /\ Len(s) # 0 /\ Head(s) = s[1] /\ DOMAIN s = 1 .. Len(s)
      /\ DOMAIN Tail(s) = 1 .. Len(s) - 1 /\ \A k \in 1 .. Len(s) - 1 : Tail(s)[k] = s[k + 1]
    BY HeadTailProperties, EmptySeq, RangeOf
<1> DEFINE a == Tail(s)
           n == Len(s)
           h == Head(s)
<1> HIDE DEF a, n, h
<1>2. /\ n \in Nat /\ n # 0 /\ h = s[1] /\ DOMAIN s = 1 .. n /\ DOMAIN a = 1 .. n - 1
      /\ \A k \in 1 .. n - 1 : a[k] = s[k + 1]
    BY <1>1 DEF a, n, h
<1>3. h \in Range(s)
  <2>1. 1 \in 1 .. n
      BY <1>2
  <2> QED BY <1>2, <2>1, Zenon DEF Range
<1>4. ASSUME IsInjective(s) PROVE IsInjective(a) /\ Range(a) = Range(s) \ {h}
  <2>1. \A j, k \in 1 .. n : s[j] = s[k] => j = k
      BY <1>2, <1>4, Zenon DEF IsInjective
  <2>2. \A j, k \in 1 .. n - 1 : a[j] = a[k] => j = k
    <3> SUFFICES ASSUME NEW j \in 1 .. n - 1, NEW k \in 1 .. n - 1, a[j] = a[k] PROVE j = k
        OBVIOUS
    <3>1. j + 1 \in 1 .. n /\ k + 1 \in 1 .. n /\ s[j + 1] = s[k + 1]
        BY <1>2
    <3>2. j + 1 = k + 1
        BY <2>1, <3>1, Zenon
    <3> QED BY <1>2, <3>2
  <2>3. ASSUME NEW x \in Range(a) PROVE x \in Range(s) /\ x # h
    <3>1. PICK k \in 1 .. n - 1 : x = a[k]
        BY <1>2, Zenon DEF Range
    <3>2. k + 1 \in 1 .. n /\ 1 \in 1 .. n /\ k + 1 # 1 /\ x = s[k + 1]
        BY <1>2, <3>1
    <3>3. x \in Range(s)
        BY <1>2, <3>2, Zenon DEF Range
    <3>4. s[k + 1] # s[1]
        BY <2>1, <3>2, Zenon
    <3> QED BY <1>2, <3>2, <3>3, <3>4
  <2>4. ASSUME NEW x \in Range(s), x # h PROVE x \in Range(a)
    <3>1. PICK k \in 1 .. n : x = s[k]
        BY <1>2, Zenon DEF Range
    <3>2. k # 1
        BY <1>2, <2>4, <3>1
    <3>3. k - 1 \in 1 .. n - 1 /\ k = (k - 1) + 1
        BY <1>2, <3>2
    <3>4. a[k - 1] = x
        BY <1>2, <3>1, <3>3
    <3> QED BY <1>2, <3>3, <3>4, Zenon DEF Range
  <2> QED BY <1>2, <2>2, <2>3, <2>4 DEF IsInjective
<1> QED BY <1>1, <1>3, <1>4 DEF a, h

\* An element taken out of the middle.
LEMMA RemoveRange ==
    ASSUME NEW S, NEW s \in Seq(S), IsInjective(s), NEW e \in Range(s)
    PROVE  /\ RemoveFirst(s, e) \in Seq(S) /\ IsInjective(RemoveFirst(s, e))
           /\ Range(RemoveFirst(s, e)) = Range(s) \ {e}
<1> DEFINE n == Len(s)
<1>1. n \in Nat /\ DOMAIN s = 1 .. n /\ \A k \in 1 .. n : s[k] \in S
    BY RangeOf, ElementOfSeq
<1> HIDE DEF n
<1>2. PICK i \in 1 .. n : s[i] = e
    BY <1>1, Zenon DEF Range
<1>3. \A j, k \in 1 .. n : s[j] = s[k] => j = k
    BY <1>1, Zenon DEF IsInjective
<1>4. RemoveFirst(s, e) = SubSeq(s, 1, i - 1) \o SubSeq(s, i + 1, n)
  <2>1. {k \in 1 .. n : s[k] = e} = {i}
      BY <1>2, <1>3
  <2>2. Min({i}) = i
      BY <1>2 DEF Min
  <2>3. SelectInSeq(s, LAMBDA v : v = e) = i
      BY <2>1, <2>2 DEF SelectInSeq, n
  <2> QED BY <1>2, <2>3 DEF RemoveFirst, RemoveAt, n
<1> DEFINE l == SubSeq(s, 1, i - 1)
           r == SubSeq(s, i + 1, n)
<1>5. /\ l \in Seq(S) /\ DOMAIN l = 1 .. i - 1 /\ \A k \in 1 .. i - 1 : l[k] = s[k]
      /\ r \in Seq(S) /\ DOMAIN r = 1 .. n - i /\ \A k \in 1 .. n - i : r[k] = s[i + k]
    BY <1>1, <1>2, SubSeqProperties DEF n
<1> HIDE DEF l, r
<1>6. IsInjective(l) /\ IsInjective(r)
  <2>1. \A j, k \in 1 .. i - 1 : l[j] = l[k] => j = k
      BY <1>1, <1>2, <1>3, <1>5
  <2>2. \A j, k \in 1 .. n - i : r[j] = r[k] => j = k
    <3> SUFFICES ASSUME NEW j \in 1 .. n - i, NEW k \in 1 .. n - i, r[j] = r[k] PROVE j = k
        OBVIOUS
    <3>1. i + j \in 1 .. n /\ i + k \in 1 .. n /\ s[i + j] = s[i + k]
        BY <1>1, <1>2, <1>5
    <3>2. i + j = i + k
        BY <1>3, <3>1, Zenon
    <3> QED BY <1>1, <1>2, <3>2
  <2> QED BY <1>5, <2>1, <2>2 DEF IsInjective
<1>7. Range(l) \cup Range(r) = Range(s) \ {e} /\ Range(l) \cap Range(r) = {}
  <2>1. /\ \A x : x \in Range(s) <=> \E k \in 1 .. n : x = s[k]
        /\ \A x : x \in Range(l) <=> \E k \in 1 .. i - 1 : x = l[k]
        /\ \A x : x \in Range(r) <=> \E k \in 1 .. n - i : x = r[k]
      BY <1>1, <1>5, Zenon DEF Range
  <2>2. /\ \A x : x \in Range(l) <=> \E k \in 1 .. n : k < i /\ x = s[k]
        /\ \A x : x \in Range(r) => \E k \in 1 .. n : k > i /\ x = s[k]
    <3>1. ASSUME NEW x PROVE x \in Range(l) <=> \E k \in 1 .. n : k < i /\ x = s[k]
      <4>1. \A k : k \in 1 .. i - 1 <=> k \in 1 .. n /\ k < i
          BY <1>1, <1>2
      <4>2. x \in Range(l) <=> \E k \in 1 .. i - 1 : x = s[k]
        <5>1. \A k \in 1 .. i - 1 : l[k] = s[k]
            BY <1>5
        <5>2. x \in Range(l) <=> \E k \in 1 .. i - 1 : x = l[k]
            BY <2>1
        <5> QED BY <5>1, <5>2, Zenon
      <4> QED BY <4>1, <4>2, Zenon
    <3>2. ASSUME NEW x \in Range(r) PROVE \E k \in 1 .. n : k > i /\ x = s[k]
      <4>1. PICK k \in 1 .. n - i : x = r[k]
          BY <2>1, <3>2
      <4>2. i + k \in 1 .. n /\ i + k > i /\ x = s[i + k]
          BY <1>1, <1>2, <1>5, <4>1
      <4> QED BY <4>2
    <3> QED BY <3>1, <3>2
  <2>3. ASSUME NEW k \in 1 .. n, k > i PROVE s[k] \in Range(r)
    <3>1. k - i \in 1 .. n - i /\ i + (k - i) = k
        BY <1>1, <1>2, <2>3
    <3>2. s[k] = r[k - i]
        BY <1>5, <3>1
    <3> QED BY <2>1, <3>1, <3>2, Zenon
  <2> QED BY <1>1, <1>2, <1>3, <2>1, <2>2, <2>3
<1>8. l \o r \in Seq(S) /\ Range(l \o r) = Range(l) \cup Range(r) /\ IsInjective(l \o r)
    BY <1>5, <1>6, <1>7, ConcatRange
<1> QED BY <1>4, <1>7, <1>8 DEF l, r

-----------------------------------------------------------------------------
(* Steps on the DPC queues *)

\* The next flush may be called.
FlushReset ==
    /\ flush' = [flush EXCEPT !.at = "no"]
    /\ UNCHANGED <<q, tq, pending, queued, ins, run, in_flight, worker, wrun, in_flight_threaded,
                   asked, old>>

\* A step on the DPC queues that neither begins an insert nor begins or ends a flush.
CalmNext ==
    \/ \E d \in KDPC : InsertStep(d) \/ InsertNested(d) \/ \E c \in Cpu : RemoveLocked(d, c)
    \/ \E x \in Drain : DrainPop(x) \/ RoutineReturns(x)
    \/ WorkerStep \/ FlushStep

\* A step on the DPC queues, whoever takes it.
DpcNext ==
    \/ CalmNext
    \/ \E d \in KDPC, c \in Cpu : InsertCall(d, c)
    \/ FlushCall \/ FlushReset

\* An element added at either end.
LEMMA AddedRange ==
    ASSUME NEW S, NEW s \in Seq(S), NEW e \in S, IsInjective(s), e \notin Range(s)
    PROVE  /\ Append(s, e) \in Seq(S) /\ IsInjective(Append(s, e))
           /\ Range(Append(s, e)) = Range(s) \cup {e}
           /\ <<e>> \o s \in Seq(S) /\ IsInjective(<<e>> \o s)
           /\ Range(<<e>> \o s) = Range(s) \cup {e}
<1> DEFINE o == <<e>>
<1>1. o \in Seq(S) /\ Range(o) = {e} /\ IsInjective(o)
    BY SingletonRange
<1>2. Append(s, e) = s \o o
    BY AppendIsConcat
<1> HIDE DEF o
<1>3. Range(s) \cap Range(o) = {} /\ Range(o) \cap Range(s) = {}
    BY <1>1
<1>4. s \o o \in Seq(S) /\ Range(s \o o) = Range(s) \cup Range(o) /\ IsInjective(s \o o)
    BY <1>1, <1>3, ConcatRange
<1>5. o \o s \in Seq(S) /\ Range(o \o s) = Range(o) \cup Range(s) /\ IsInjective(o \o s)
    BY <1>1, <1>3, ConcatRange
<1>6. Range(s) \cup Range(o) = Range(s) \cup {e} /\ Range(o) \cup Range(s) = Range(s) \cup {e}
    BY <1>1
<1> QED BY <1>2, <1>4, <1>5, <1>6 DEF o

\* A drain is of one processor.
LEMMA CpuOfDrain ==
    /\ \A x \in Drain : CpuOf(x) \in Cpu /\ (x = Isr \/ x \in Cpu)
    /\ BSP \in Cpu /\ Isr \in Drain /\ Isr \notin Cpu /\ Cpu \subseteq Drain
    /\ CpuOf(Isr) = BSP /\ \A c \in Cpu : CpuOf(c) = c /\ c # None
  BY DpcConstants DEF CpuOf, Drain, Cpu, BSP

\* The type of an insert's locals.
LEMMA InsertField ==
    ASSUME DpcType, NEW d \in KDPC, NEW v \in Cpu \cup {None, Unread}
    PROVE  /\ ins[d].to \in Cpu \cup {None} /\ ins[d].saw \in Cpu \cup {None, Unread}
           /\ [ins EXCEPT ![d].saw = v] \in [KDPC -> [to : Cpu \cup {None}, saw : Cpu \cup {None, Unread}]]
<1> DEFINE R == [to : Cpu \cup {None}, saw : Cpu \cup {None, Unread}]
<1>1. ins \in [KDPC -> R] /\ ins[d] \in R
    BY DEF DpcType
<1>2. [ins[d] EXCEPT !.saw = v] \in R
    BY <1>1
<1>3. [ins EXCEPT ![d].saw = v] = [ins EXCEPT ![d] = [ins[d] EXCEPT !.saw = v]]
    BY <1>1
<1> QED BY <1>1, <1>2, <1>3

\* A routine under way, and whether the flush waits for it.
LEMMA FlagOf ==
    ASSUME NEW d \in KDPC
    PROVE  Flag(d) \in Activation /\ Flag(d) # None /\ Flag(d).dpc = d /\ (Flag(d).old <=> d \in old)
<1>1. Flag(d) \in Activation
    BY DEF Flag, Activation
<1>2. Flag(d).dpc = d
    BY DEF Flag
<1>3. Flag(d).old <=> d \in old
    BY Zenon DEF Flag
<1> QED BY <1>1, <1>2, <1>3, DpcConstants

\* The DPC has been unlinked from the list that had it.
Unlinked(d) ==
    /\ q' \in [Cpu -> Seq(KDPC)] /\ tq' \in [Cpu -> Seq(KDPC)]
    /\ \A c \in Cpu :
         /\ IsInjective(q'[c]) /\ IsInjective(tq'[c])
         /\ Range(q'[c]) = Range(q[c]) \ {d} /\ Range(tq'[c]) = Range(tq[c]) \ {d}
    /\ Taken(d)

\* What that leaves of the lists and of the history.
LEMMA UnlinkedKeeps ==
    ASSUME DpcInd, NEW d \in KDPC, Unlinked(d)
    PROVE  /\ queued' \in [KDPC -> Cpu \cup {None}] /\ asked' \subseteq KDPC /\ old' \subseteq KDPC
           /\ ListsHold' /\ HistoryQueued'
           /\ \A c \in Cpu : (\A e \in old : queued[e] # c) => \A e \in old' : queued'[e] # c
<1>1. /\ queued \in [KDPC -> Cpu \cup {None}] /\ asked \subseteq KDPC /\ old \subseteq KDPC
      /\ queued' = [queued EXCEPT ![d] = None] /\ asked' = asked \ {d} /\ old' = old \ {d}
    BY DEF DpcInd, DpcType, Unlinked, Taken
<1>2. /\ queued'[d] = None /\ \A e \in KDPC : e # d => queued'[e] = queued[e]
      /\ queued' \in [KDPC -> Cpu \cup {None}]
    BY <1>1
<1>3. \A c \in Cpu : c # None
    BY CpuOfDrain
<1>4. ListsHold'
    BY <1>2, <1>3 DEF ListsHold, Unlinked, DpcInd
<1>5. HistoryQueued'
    BY <1>1, <1>2 DEF HistoryQueued, DpcInd
<1> QED BY <1>1, <1>2, <1>4, <1>5

\* The head of processor c's queue, taken off it.
LEMMA PoppedQueue ==
    ASSUME DpcInd, NEW c \in Cpu, q[c] # <<>>, q' = [q EXCEPT ![c] = Tail(@)]
    PROVE  /\ Head(q[c]) \in KDPC /\ queued[Head(q[c])] = c
           /\ Head(q[c]) \in Range(q[c]) /\ Head(q[c]) \notin Range(tq[c])
           /\ q' \in [Cpu -> Seq(KDPC)]
           /\ \A b \in Cpu : IsInjective(q'[b]) /\ Range(q'[b]) = Range(q[b]) \ {Head(q[c])}
<1> DEFINE h == Head(q[c])
<1>1. /\ q \in [Cpu -> Seq(KDPC)] /\ q[c] \in Seq(KDPC)
      /\ \A b \in Cpu : q'[b] = IF b = c THEN Tail(q[c]) ELSE q[b]
    BY DEF DpcInd, DpcType
<1>2. IsInjective(q[c])
    BY DEF DpcInd, ListsHold
<1>3. /\ h \in KDPC /\ h \in Range(q[c]) /\ Tail(q[c]) \in Seq(KDPC)
      /\ IsInjective(Tail(q[c])) /\ Range(Tail(q[c])) = Range(q[c]) \ {h}
    BY <1>1, <1>2, TailRange
<1>4. q' \in [Cpu -> Seq(KDPC)]
    BY <1>1, <1>3
<1> HIDE DEF h
<1>5. queued[h] = c /\ h \notin Range(tq[c]) /\ \A b \in Cpu : b # c => h \notin Range(q[b])
    BY <1>3 DEF DpcInd, ListsHold
<1>6. ASSUME NEW b \in Cpu PROVE IsInjective(q'[b]) /\ Range(q'[b]) = Range(q[b]) \ {h}
  <2>1. CASE b = c
      BY <1>1, <1>3, <2>1
  <2>2. CASE b # c
    <3>1. q'[b] = q[b] /\ IsInjective(q[b]) /\ h \notin Range(q[b])
        BY <1>1, <1>5, <2>2 DEF DpcInd, ListsHold
    <3> QED BY <3>1
  <2> QED BY <2>1, <2>2
<1> QED BY <1>3, <1>4, <1>5, <1>6 DEF h

\* The same for the threaded list.
LEMMA PoppedThreaded ==
    ASSUME DpcInd, NEW c \in Cpu, tq[c] # <<>>, tq' = [tq EXCEPT ![c] = Tail(@)]
    PROVE  /\ Head(tq[c]) \in KDPC /\ queued[Head(tq[c])] = c
           /\ Head(tq[c]) \in Range(tq[c])
           /\ tq' \in [Cpu -> Seq(KDPC)]
           /\ \A b \in Cpu : IsInjective(tq'[b]) /\ Range(tq'[b]) = Range(tq[b]) \ {Head(tq[c])}
           /\ \A b \in Cpu : Head(tq[c]) \notin Range(q[b])
<1> DEFINE h == Head(tq[c])
<1>1. /\ tq \in [Cpu -> Seq(KDPC)] /\ tq[c] \in Seq(KDPC)
      /\ \A b \in Cpu : tq'[b] = IF b = c THEN Tail(tq[c]) ELSE tq[b]
    BY DEF DpcInd, DpcType
<1>2. IsInjective(tq[c])
    BY DEF DpcInd, ListsHold
<1>3. /\ h \in KDPC /\ h \in Range(tq[c]) /\ Tail(tq[c]) \in Seq(KDPC)
      /\ IsInjective(Tail(tq[c])) /\ Range(Tail(tq[c])) = Range(tq[c]) \ {h}
    BY <1>1, <1>2, TailRange
<1>4. tq' \in [Cpu -> Seq(KDPC)]
    BY <1>1, <1>3
<1> HIDE DEF h
<1>5. queued[h] = c /\ \A b \in Cpu : h \notin Range(q[b]) /\ (b # c => h \notin Range(tq[b]))
    BY <1>3 DEF DpcInd, ListsHold
<1>6. ASSUME NEW b \in Cpu PROVE IsInjective(tq'[b]) /\ Range(tq'[b]) = Range(tq[b]) \ {h}
  <2>1. CASE b = c
      BY <1>1, <1>3, <2>1
  <2>2. CASE b # c
    <3>1. tq'[b] = tq[b] /\ IsInjective(tq[b]) /\ h \notin Range(tq[b])
        BY <1>1, <1>5, <2>2 DEF DpcInd, ListsHold
    <3> QED BY <3>1
  <2> QED BY <2>1, <2>2
<1> QED BY <1>3, <1>4, <1>5, <1>6 DEF h

\* The worker stays on a processor of the machine.
LEMMA WorkerPosition ==
    ASSUME DpcType
    PROVE  /\ NextCpu \in [cpu : Cpu, budget : Nat]
           /\ \A n \in Nat : [worker EXCEPT !.budget = n] \in [cpu : Cpu, budget : Nat]
           /\ worker.cpu \in Cpu /\ worker.budget \in Nat
<1>1. worker.cpu \in Cpu /\ worker.budget \in Nat /\ MAX_CPUS \in Nat \ {0}
    BY DpcConstants DEF DpcType
<1>2. (worker.cpu + 1) % MAX_CPUS \in Cpu
    BY <1>1 DEF Cpu
<1> QED BY <1>1, <1>2 DEF NextCpu, DpcType

\* The unlocked look changes no list.
LEMMA InsertCallKeeps ==
    ASSUME NEW d \in KDPC, NEW c \in Cpu, DpcInd, InsertCall(d, c) PROVE DpcInd'
<1> USE DpcConstants DEF DpcInd
<1>1. DpcType'
    BY DEF DpcType, InsertCall
<1>2. ListsHold'
    BY DEF ListsHold, InsertCall, DpcType
<1>3. PendingSet'
    BY DEF PendingSet, InsertCall, DpcType
<1>4. HistoryQueued'
    BY DEF HistoryQueued, InsertCall, DpcType
<1>5. RunsCounted'
    BY DEF RunsCounted, One, InsertCall, DpcType
<1>6. FlushProgress'
    BY DEF FlushProgress, Clear, InsertCall, DpcType
<1> QED BY <1>1, <1>2, <1>3, <1>4, <1>5, <1>6

\* A refreshed DPC is where it was seen, so it is queued.
LEMMA InsertRefreshKeeps ==
    ASSUME NEW d \in KDPC, DpcInd, InsertRefresh(d) PROVE DpcInd'
<1> USE DpcConstants DEF DpcInd
<1>1. DpcType'
    BY DEF DpcType, InsertRefresh, Confirmed, Inserting, NoInsert
<1>2. ListsHold'
    BY DEF ListsHold, InsertRefresh, Confirmed, Inserting, NoInsert, DpcType
<1>3. PendingSet'
    BY DEF PendingSet, InsertRefresh, Confirmed, Inserting, NoInsert, DpcType
<1>4. HistoryQueued'
    BY DEF HistoryQueued, InsertRefresh, Confirmed, Inserting, NoInsert, DpcType
<1>5. RunsCounted'
    BY DEF RunsCounted, One, InsertRefresh, Confirmed, Inserting, NoInsert, DpcType
<1>6. FlushProgress'
    BY DEF FlushProgress, Clear, InsertRefresh, Confirmed, Inserting, NoInsert, DpcType
<1> QED BY <1>1, <1>2, <1>3, <1>4, <1>5, <1>6

\* The insert looks again.
LEMMA InsertRetryKeeps ==
    ASSUME NEW d \in KDPC, DpcInd, InsertRetry(d) PROVE DpcInd'
<1> USE DpcConstants DEF DpcInd
<1>1. DpcType'
  <2>1. Unread \in Cpu \cup {None, Unread}
      BY DEF DpcType
  <2> QED BY <2>1, InsertField DEF DpcType, InsertRetry
<1>2. ListsHold'
    BY DEF ListsHold, InsertRetry, DpcType
<1>3. PendingSet'
    BY DEF PendingSet, InsertRetry, DpcType
<1>4. HistoryQueued'
    BY DEF HistoryQueued, InsertRetry, DpcType
<1>5. RunsCounted'
    BY DEF RunsCounted, One, InsertRetry, DpcType
<1>6. FlushProgress'
    BY DEF FlushProgress, Clear, InsertRetry, DpcType
<1> QED BY <1>1, <1>2, <1>3, <1>4, <1>5, <1>6

\* Another unlocked look.
LEMMA InsertLookKeeps ==
    ASSUME NEW d \in KDPC, DpcInd, InsertLook(d) PROVE DpcInd'
<1> USE DpcConstants DEF DpcInd
<1>1. DpcType'
  <2>1. queued[d] \in Cpu \cup {None, Unread}
      BY DEF DpcType
  <2> QED BY <2>1, InsertField DEF DpcType, InsertLook
<1>2. ListsHold'
    BY DEF ListsHold, InsertLook, DpcType
<1>3. PendingSet'
    BY DEF PendingSet, InsertLook, DpcType
<1>4. HistoryQueued'
    BY DEF HistoryQueued, InsertLook, DpcType
<1>5. RunsCounted'
    BY DEF RunsCounted, One, InsertLook, DpcType
<1>6. FlushProgress'
    BY DEF FlushProgress, Clear, InsertLook, DpcType
<1> QED BY <1>1, <1>2, <1>3, <1>4, <1>5, <1>6

\* A DPC that is on no list goes on one; it is not one the flush waits for.
LEMMA LinkKeeps ==
    ASSUME NEW d \in KDPC, DpcInd, Inserting(d), queued[d] = None, Link(d), asked' = asked \cup {d},
           ins' \in [KDPC -> [to : Cpu \cup {None}, saw : Cpu \cup {None, Unread}]],
           UNCHANGED <<tq, pending, run, in_flight, worker, wrun, in_flight_threaded, flush, old>>
    PROVE  DpcInd'
<1> USE DpcConstants DEF DpcInd
<1> DEFINE c == ins[d].to
<1>a. /\ c \in Cpu /\ c # None /\ queued[d] = None /\ q \in [Cpu -> Seq(KDPC)] /\ q[c] \in Seq(KDPC)
      /\ d \notin old
    BY CpuOfDrain, InsertField DEF Inserting, DpcType, HistoryQueued
<1>b. /\ IsInjective(q[c]) /\ d \notin Range(q[c]) /\ \A b \in Cpu : d \notin Range(tq[b])
    BY <1>a, CpuOfDrain DEF ListsHold
<1>c. /\ q'[c] = IF d \in HighImportance THEN <<d>> \o q[c] ELSE Append(q[c], d)
      /\ \A b \in Cpu : b # c => q'[b] = q[b]
      /\ q' = [q EXCEPT ![c] = q'[c]]
      /\ queued' = [queued EXCEPT ![d] = c] /\ UNCHANGED <<tq, pending, run, in_flight, old>>
    BY <1>a DEF Link
<1>d. q'[c] \in Seq(KDPC) /\ IsInjective(q'[c]) /\ Range(q'[c]) = Range(q[c]) \cup {d}
    BY <1>a, <1>b, <1>c, AddedRange
<1> HIDE DEF c
<1>e. queued'[d] = c /\ \A e \in KDPC : e # d => queued'[e] = queued[e]
    BY <1>a, <1>c DEF DpcType
<1>1. DpcType'
  <2>1. q' \in [Cpu -> Seq(KDPC)] /\ queued' \in [KDPC -> Cpu \cup {None}]
      BY <1>a, <1>c, <1>d DEF DpcType
  <2> QED BY <2>1 DEF DpcType
<1>2. ListsHold'
  <2> SUFFICES ASSUME NEW b \in Cpu, NEW e \in KDPC
               PROVE  /\ IsInjective(q'[b]) /\ IsInjective(tq'[b])
                      /\ ~(e \in Range(q'[b]) /\ e \in Range(tq'[b]))
                      /\ queued'[e] = b <=> e \in Range(q'[b]) \/ e \in Range(tq'[b])
      BY DEF ListsHold
  <2>1. /\ IsInjective(q[b]) /\ IsInjective(tq[b]) /\ ~(e \in Range(q[b]) /\ e \in Range(tq[b]))
        /\ queued[e] = b <=> e \in Range(q[b]) \/ e \in Range(tq[b])
      BY DEF ListsHold
  <2>2. UNCHANGED tq /\ (b # c => q'[b] = q[b])
      BY <1>c
  <2>3. CASE b = c
      BY <1>a, <1>b, <1>d, <1>e, <2>1, <2>2, <2>3
  <2>4. CASE b # c
      BY <1>a, <1>b, <1>e, <2>1, <2>2, <2>4, CpuOfDrain
  <2> QED BY <2>3, <2>4
<1>3. PendingSet'
    BY <1>a, <1>b, <1>c, <1>d, <1>e DEF PendingSet, Link, Inserting, DpcType
<1>4. HistoryQueued'
    BY <1>a, <1>b, <1>c, <1>d, <1>e DEF HistoryQueued, Link, Inserting,
       DpcType
<1>5. RunsCounted'
    BY <1>a, <1>b, <1>c, <1>d, <1>e DEF RunsCounted, One, Link, Inserting,
       DpcType
<1>6. FlushProgress'
  <2>1. \A b \in Cpu : Clear(b) => Clear(b)'
      BY <1>a, <1>c, <1>e DEF Clear, DpcType
  <2> QED BY <2>1 DEF FlushProgress
<1> QED BY <1>1, <1>2, <1>3, <1>4, <1>5, <1>6

LEMMA InsertLinkKeeps ==
    ASSUME NEW d \in KDPC, DpcInd, InsertLink(d) PROVE DpcInd'
<1>1. ins' \in [KDPC -> [to : Cpu \cup {None}, saw : Cpu \cup {None, Unread}]]
    BY DEF InsertLink, NoInsert, DpcInd, DpcType
<1> QED BY <1>1, LinkKeeps DEF InsertLink

\* The interrupt's insert links the DPC before the one it interrupts, or refreshes it.
LEMMA InsertNestedKeeps ==
    ASSUME NEW d \in KDPC, DpcInd, InsertNested(d) PROVE DpcInd'
<1>1. CASE queued[d] = None
  <2>1. ins' \in [KDPC -> [to : Cpu \cup {None}, saw : Cpu \cup {None, Unread}]]
      BY DEF InsertNested, DpcInd, DpcType
  <2> QED BY <1>1, <2>1, LinkKeeps DEF InsertNested
<1>2. CASE queued[d] # None
  <2> USE <1>2 DEF DpcInd, InsertNested
  <2>1. DpcType' /\ ListsHold' /\ PendingSet'
      BY DEF DpcType, ListsHold, PendingSet
  <2>2. HistoryQueued' /\ RunsCounted'
      BY DEF HistoryQueued, RunsCounted, One, DpcType
  <2>3. FlushProgress'
      BY DEF FlushProgress, Clear
  <2> QED BY <2>1, <2>2, <2>3
<1> QED BY <1>1, <1>2

\* A queued DPC leaves the one list that has it.
LEMMA RemoveLockedKeeps ==
    ASSUME NEW d \in KDPC, NEW c \in Cpu, DpcInd, RemoveLocked(d, c) PROVE DpcInd'
<1> USE DpcConstants DEF DpcInd
<1>a. ASSUME queued[d] = c
      PROVE  /\ Unlinked(d) /\ pending' \in [Cpu -> BOOLEAN]
             /\ \A b \in Cpu : Range(tq'[b]) # {} /\ pending[b] => pending'[b]
  <2> DEFINE rq == RemoveFirst(q[c], d)
             rt == RemoveFirst(tq[c], d)
  <2>1. /\ q \in [Cpu -> Seq(KDPC)] /\ tq \in [Cpu -> Seq(KDPC)] /\ q[c] \in Seq(KDPC) /\ tq[c] \in Seq(KDPC)
        /\ pending \in [Cpu -> BOOLEAN]
      BY DEF DpcType
  <2>2. /\ IsInjective(q[c]) /\ IsInjective(tq[c])
        /\ d \in Range(q[c]) \/ d \in Range(tq[c])
        /\ ~(d \in Range(q[c]) /\ d \in Range(tq[c]))
        /\ \A b \in Cpu : b # c => d \notin Range(q[b]) /\ d \notin Range(tq[b])
        /\ \A b \in Cpu : IsInjective(q[b]) /\ IsInjective(tq[b])
      BY <1>a DEF ListsHold
  <2>3. Taken(d)
      BY <1>a DEF RemoveLocked
  <2>4. CASE d \in Range(q[c])
    <3>1. q' = [q EXCEPT ![c] = rq] /\ UNCHANGED <<tq, pending>>
        BY <1>a, <2>4 DEF RemoveLocked
    <3>2. rq \in Seq(KDPC) /\ IsInjective(rq) /\ Range(rq) = Range(q[c]) \ {d}
        BY <2>1, <2>2, <2>4, RemoveRange
    <3> HIDE DEF rq
    <3>3. q' \in [Cpu -> Seq(KDPC)] /\ q'[c] = rq /\ \A b \in Cpu : b # c => q'[b] = q[b]
        BY <2>1, <3>1, <3>2
    <3>4. \A b \in Cpu : IsInjective(q'[b]) /\ Range(q'[b]) = Range(q[b]) \ {d}
        BY <2>2, <3>2, <3>3
    <3>5. \A b \in Cpu : Range(tq[b]) = Range(tq[b]) \ {d}
        BY <2>2, <2>4
    <3> QED BY <2>1, <2>2, <2>3, <3>1, <3>3, <3>4, <3>5 DEF Unlinked
  <2>5. CASE d \notin Range(q[c])
    <3>1. /\ tq' = [tq EXCEPT ![c] = rt] /\ q' = q
          /\ pending' = [pending EXCEPT ![c] = pending[c] /\ tq'[c] # <<>>]
        BY <1>a, <2>5 DEF RemoveLocked
    <3>2. rt \in Seq(KDPC) /\ IsInjective(rt) /\ Range(rt) = Range(tq[c]) \ {d}
        BY <2>1, <2>2, <2>5, RemoveRange
    <3> HIDE DEF rt
    <3>3. tq' \in [Cpu -> Seq(KDPC)] /\ tq'[c] = rt /\ \A b \in Cpu : b # c => tq'[b] = tq[b]
        BY <2>1, <3>1, <3>2
    <3>4. \A b \in Cpu : IsInjective(tq'[b]) /\ Range(tq'[b]) = Range(tq[b]) \ {d}
        BY <2>2, <3>2, <3>3
    <3>5. \A b \in Cpu : Range(q[b]) = Range(q[b]) \ {d}
        BY <2>2, <2>5
    <3>6. Unlinked(d)
        BY <2>1, <2>2, <2>3, <3>1, <3>3, <3>4, <3>5 DEF Unlinked
    <3>7. rt # <<>> <=> Range(rt) # {}
        BY <3>2, RangeOf
    <3>8. /\ pending' \in [Cpu -> BOOLEAN] /\ pending'[c] = (pending[c] /\ rt # <<>>)
          /\ \A b \in Cpu : b # c => pending'[b] = pending[b]
        BY <2>1, <3>1, <3>3
    <3> QED BY <3>3, <3>6, <3>7, <3>8
  <2> QED BY <2>4, <2>5
<1>b. UNCHANGED <<ins, run, in_flight, worker, wrun, in_flight_threaded, flush>>
    BY DEF RemoveLocked
<1>c. queued[d] # c => UNCHANGED <<q, tq, pending, queued, asked, old>>
    BY DEF RemoveLocked
<1>1. DpcType'
  <2>1. CASE queued[d] = c
      BY <1>a, <1>b, <2>1, UnlinkedKeeps DEF DpcType, Unlinked
  <2>2. CASE queued[d] # c
      BY <1>b, <1>c, <2>2 DEF DpcType
  <2> QED BY <2>1, <2>2
<1>2. ListsHold'
  <2>1. CASE queued[d] = c
      BY <1>a, <2>1, UnlinkedKeeps
  <2>2. CASE queued[d] # c
      BY <1>c, <2>2 DEF ListsHold
  <2> QED BY <2>1, <2>2
<1>3. PendingSet'
  <2>1. CASE queued[d] = c
      BY <1>a, <2>1 DEF PendingSet, Unlinked
  <2>2. CASE queued[d] # c
      BY <1>c, <2>2 DEF PendingSet
  <2> QED BY <2>1, <2>2
<1>4. HistoryQueued'
  <2>1. CASE queued[d] = c
      BY <1>a, <2>1, UnlinkedKeeps
  <2>2. CASE queued[d] # c
      BY <1>c, <2>2 DEF HistoryQueued
  <2> QED BY <2>1, <2>2
<1>5. RunsCounted'
    BY <1>b DEF RunsCounted, One
<1>6. FlushProgress'
  <2>1. \A b \in Cpu : Clear(b) => Clear(b)'
      BY <1>a, <1>b, <1>c, UnlinkedKeeps DEF Clear
  <2> QED BY <1>b, <2>1 DEF FlushProgress
<1> QED BY <1>1, <1>2, <1>3, <1>4, <1>5, <1>6

\* A drain runs the head or hands it off, on the processor it is queued on.
LEMMA DrainPopKeeps ==
    ASSUME NEW x \in Drain, DpcInd, DrainPop(x) PROVE DpcInd'
<1> USE DpcConstants DEF DpcInd
<1> DEFINE c == CpuOf(x)
           d == Head(q[c])
<1>a. c \in Cpu /\ run[x] = None /\ q[c] # <<>> /\ q' = [q EXCEPT ![c] = Tail(@)]
    BY CpuOfDrain DEF DrainPop
<1>b. /\ d \in KDPC /\ queued[d] = c /\ d \in Range(q[c]) /\ d \notin Range(tq[c])
      /\ q' \in [Cpu -> Seq(KDPC)]
      /\ \A b \in Cpu : IsInjective(q'[b]) /\ Range(q'[b]) = Range(q[b]) \ {d}
    BY <1>a, PoppedQueue
<1>c. UNCHANGED <<ins, worker, wrun, in_flight_threaded, flush>>
    BY DEF DrainPop
<1>d. /\ d \in Threaded => HandOff(x, d)
      /\ d \notin Threaded => RunInline(x, d)
    BY DEF DrainPop
<1> HIDE DEF d
<1>e. ASSUME HandOff(x, d)
      PROVE  /\ UNCHANGED <<run, in_flight, queued, asked, old>>
             /\ tq' \in [Cpu -> Seq(KDPC)] /\ pending' \in [Cpu -> BOOLEAN] /\ pending'[c]
             /\ IsInjective(tq'[c]) /\ Range(tq'[c]) = Range(tq[c]) \cup {d}
             /\ \A b \in Cpu : b # c => tq'[b] = tq[b] /\ pending'[b] = pending[b]
  <2>1. /\ tq \in [Cpu -> Seq(KDPC)] /\ tq[c] \in Seq(KDPC) /\ IsInjective(tq[c])
        /\ pending \in [Cpu -> BOOLEAN]
      BY <1>a DEF DpcType, ListsHold
  <2> DEFINE t == tq[c]
             a == Append(t, d)
  <2>3. t \in Seq(KDPC) /\ IsInjective(t) /\ d \in KDPC /\ d \notin Range(t)
      BY <1>b, <2>1
  <2> HIDE DEF t
  <2>4. a \in Seq(KDPC) /\ IsInjective(a) /\ Range(a) = Range(t) \cup {d}
      BY <2>3, AddedRange
  <2>5. tq' = [tq EXCEPT ![c] = a] /\ pending' = [pending EXCEPT ![c] = TRUE]
        /\ UNCHANGED <<run, in_flight, queued, asked, old>>
      BY <1>e DEF HandOff, t
  <2> HIDE DEF a, c
  <2>6. tq' \in [Cpu -> Seq(KDPC)] /\ tq'[c] = a /\ \A b \in Cpu : b # c => tq'[b] = tq[b]
      BY <1>a, <2>1, <2>4, <2>5
  <2>7. pending' \in [Cpu -> BOOLEAN] /\ pending'[c] /\ \A b \in Cpu : b # c => pending'[b] = pending[b]
      BY <1>a, <2>1, <2>5
  <2> QED BY <2>4, <2>5, <2>6, <2>7 DEF t
<1>f. ASSUME RunInline(x, d)
      PROVE  /\ Unlinked(d) /\ UNCHANGED <<tq, pending>>
             /\ run' = [run EXCEPT ![x] = Flag(d)] /\ in_flight' = [in_flight EXCEPT ![c] = @ + 1]
  <2>1. UNCHANGED tq /\ Taken(d)
      BY <1>f DEF RunInline
  <2>2. /\ tq \in [Cpu -> Seq(KDPC)] /\ \A b \in Cpu : IsInjective(tq[b]) /\ d \notin Range(tq[b])
      BY <1>a, <1>b DEF DpcType, ListsHold
  <2>3. \A b \in Cpu : Range(tq[b]) = Range(tq[b]) \ {d}
      BY <2>2
  <2> QED BY <1>b, <1>f, <2>1, <2>2, <2>3 DEF Unlinked, RunInline
<1> HIDE DEF c
<1>1. DpcType'
  <2>1. CASE d \in Threaded
      BY <1>b, <1>c, <1>d, <1>e, <2>1 DEF DpcType
  <2>2. CASE d \notin Threaded
    <3>1. run' \in [Drain -> Activation \cup {None}] /\ in_flight' \in [Cpu -> Int]
      <4>1. /\ run \in [Drain -> Activation \cup {None}] /\ in_flight \in [Cpu -> Int]
            /\ run' = [run EXCEPT ![x] = Flag(d)] /\ in_flight' = [in_flight EXCEPT ![c] = in_flight[c] + 1]
          BY <1>d, <1>f, <2>2 DEF DpcType
      <4>2. Flag(d) \in Activation /\ in_flight[c] + 1 \in Int
          BY <1>a, <1>b, <4>1, FlagOf
      <4> QED BY <1>a, <4>1, <4>2
    <3>2. /\ queued' \in [KDPC -> Cpu \cup {None}] /\ asked' \subseteq KDPC /\ old' \subseteq KDPC
          /\ tq' \in [Cpu -> Seq(KDPC)] /\ UNCHANGED pending
        BY <1>b, <1>d, <1>f, <2>2, UnlinkedKeeps DEF Unlinked
    <3> QED BY <1>b, <1>c, <3>1, <3>2 DEF DpcType
  <2> QED BY <2>1, <2>2
<1>2. ListsHold'
  <2>1. CASE d \in Threaded
      BY <1>a, <1>b, <1>d, <1>e, <2>1 DEF ListsHold
  <2>2. CASE d \notin Threaded
      BY <1>b, <1>d, <1>f, <2>2, UnlinkedKeeps
  <2> QED BY <2>1, <2>2
<1>3. PendingSet'
  <2>1. CASE d \in Threaded
      BY <1>a, <1>d, <1>e, <2>1 DEF PendingSet
  <2>2. CASE d \notin Threaded
      BY <1>d, <1>f, <2>2 DEF PendingSet
  <2> QED BY <2>1, <2>2
<1>4. HistoryQueued'
  <2>1. CASE d \in Threaded
      BY <1>d, <1>e, <2>1 DEF HistoryQueued
  <2>2. CASE d \notin Threaded
      BY <1>b, <1>d, <1>f, <2>2, UnlinkedKeeps
  <2> QED BY <2>1, <2>2
<1>5. RunsCounted'
  <2>1. CASE d \in Threaded
      BY <1>c, <1>d, <1>e, <2>1 DEF RunsCounted, One
  <2>2. CASE d \notin Threaded
    <3>1. /\ One(x) = 0 /\ One(x)' = 1 /\ \A y \in Drain : y # x => One(y)' = One(y)
          /\ in_flight'[c] = in_flight[c] + 1 /\ \A b \in Cpu : b # c => in_flight'[b] = in_flight[b]
        BY <1>a, <1>b, <1>d, <1>f, <2>2, FlagOf DEF One, DpcType
    <3>2. (x = Isr /\ c = BSP) \/ (x \in Cpu /\ c = x)
        BY CpuOfDrain DEF c
    <3>3. \A b \in Cpu : in_flight'[b] = One(b)' + IF b = BSP THEN One(Isr)' ELSE 0
        BY <3>1, <3>2, CpuOfDrain DEF RunsCounted, One
    <3> QED BY <1>c, <3>3 DEF RunsCounted
  <2> QED BY <2>1, <2>2
<1>6. FlushProgress'
  <2>1. \A b \in Cpu : Clear(b) => Clear(b)'
    <3>1. CASE d \in Threaded
        BY <1>d, <1>e, <3>1 DEF Clear
    <3>2. CASE d \notin Threaded
      <4>1. run'[x].old <=> d \in old
          BY <1>b, <1>d, <1>f, <3>2, FlagOf DEF DpcType
      <4>2. \A y \in Drain : y # x => run'[y] = run[y]
          BY <1>d, <1>f, <3>2 DEF DpcType
      <4>3. \A b \in Cpu : (\A e \in old : queued[e] # b) => \A e \in old' : queued'[e] # b
          BY <1>b, <1>d, <1>f, <3>2, UnlinkedKeeps
      <4> QED BY <1>b, <4>1, <4>2, <4>3 DEF Clear, c
    <3> QED BY <3>1, <3>2
  <2> QED BY <1>c, <2>1 DEF FlushProgress
<1> QED BY <1>1, <1>2, <1>3, <1>4, <1>5, <1>6

\* A drain's routine returns.
LEMMA RoutineReturnsKeeps ==
    ASSUME NEW x \in Drain, DpcInd, RoutineReturns(x) PROVE DpcInd'
<1> USE DpcConstants DEF DpcInd
<1> DEFINE c == CpuOf(x)
<1>a. /\ c \in Cpu /\ ((x = Isr /\ c = BSP) \/ (x \in Cpu /\ c = x))
    BY CpuOfDrain
<1>b. /\ run[x] # None /\ run' = [run EXCEPT ![x] = None]
      /\ in_flight' = [in_flight EXCEPT ![c] = @ - 1]
    BY DEF RoutineReturns, Returned
<1> HIDE DEF c
<1>1. DpcType'
  <2>1. run' \in [Drain -> Activation \cup {None}] /\ in_flight' \in [Cpu -> Int]
      BY <1>a, <1>b DEF DpcType
  <2> QED BY <2>1 DEF DpcType, RoutineReturns
<1>2. ListsHold'
    BY DEF ListsHold, RoutineReturns, Returned, DpcType
<1>3. PendingSet'
    BY DEF PendingSet, RoutineReturns, Returned, DpcType
<1>4. HistoryQueued'
    BY DEF HistoryQueued, RoutineReturns, Returned, DpcType
<1>5. RunsCounted'
  <2>1. /\ One(x) = 1 /\ One(x)' = 0 /\ \A y \in Drain : y # x => One(y)' = One(y)
        /\ in_flight'[c] = in_flight[c] - 1 /\ \A b \in Cpu : b # c => in_flight'[b] = in_flight[b]
        /\ in_flight[c] \in Int
      BY <1>a, <1>b DEF One, DpcType
  <2>2. \A b \in Cpu : in_flight'[b] = One(b)' + IF b = BSP THEN One(Isr)' ELSE 0
      BY <1>a, <2>1, CpuOfDrain DEF RunsCounted, One
  <2> QED BY <2>2 DEF RunsCounted, RoutineReturns
<1>6. FlushProgress'
    BY <1>b DEF FlushProgress, Clear, RoutineReturns, Returned, DpcType
<1> QED BY <1>1, <1>2, <1>3, <1>4, <1>5, <1>6

\* The worker goes from processor to processor.
LEMMA WorkerLooksKeeps ==
    ASSUME DpcInd, WorkerLooks PROVE DpcInd'
<1> USE DpcConstants DEF DpcInd
<1>1. DpcType'
  <2>1. worker' \in [cpu : Cpu, budget : Nat]
      BY WorkerPosition DEF WorkerLooks
  <2> QED BY <2>1 DEF DpcType, WorkerLooks
<1>2. ListsHold'
    BY DEF ListsHold, WorkerLooks, NextCpu, DpcType
<1>3. PendingSet'
    BY DEF PendingSet, WorkerLooks, NextCpu, DpcType
<1>4. HistoryQueued'
    BY DEF HistoryQueued, WorkerLooks, NextCpu, DpcType
<1>5. RunsCounted'
    BY DEF RunsCounted, One, WorkerLooks, NextCpu, DpcType
<1>6. FlushProgress'
    BY DEF FlushProgress, Clear, WorkerLooks, NextCpu, DpcType
<1> QED BY <1>1, <1>2, <1>3, <1>4, <1>5, <1>6

\* pending is cleared under the lock, with the list empty.
LEMMA WorkerFindsNoneKeeps ==
    ASSUME DpcInd, WorkerFindsNone PROVE DpcInd'
<1> USE DpcConstants DEF DpcInd
<1>1. DpcType'
  <2>1. worker' \in [cpu : Cpu, budget : Nat] /\ pending' \in [Cpu -> BOOLEAN]
      BY WorkerPosition DEF WorkerFindsNone, DpcType
  <2> QED BY <2>1 DEF DpcType, WorkerFindsNone
<1>2. ListsHold'
    BY DEF ListsHold, WorkerFindsNone, NextCpu, DpcType
<1>3. PendingSet'
  <2>1. /\ worker.cpu \in Cpu /\ Range(tq[worker.cpu]) = {} /\ UNCHANGED tq
        /\ \A b \in Cpu : b # worker.cpu => pending'[b] = pending[b]
      BY WorkerPosition, RangeOf DEF WorkerFindsNone, DpcType
  <2> QED BY <2>1 DEF PendingSet
<1>4. HistoryQueued'
    BY DEF HistoryQueued, WorkerFindsNone, NextCpu, DpcType
<1>5. RunsCounted'
    BY DEF RunsCounted, One, WorkerFindsNone, NextCpu, DpcType
<1>6. FlushProgress'
    BY DEF FlushProgress, Clear, WorkerFindsNone, NextCpu, DpcType
<1> QED BY <1>1, <1>2, <1>3, <1>4, <1>5, <1>6

\* The worker takes the head of a list of threaded DPCs.
LEMMA WorkerPopsKeeps ==
    ASSUME DpcInd, WorkerPops PROVE DpcInd'
<1> USE DpcConstants DEF DpcInd
<1> DEFINE c == worker.cpu
           d == Head(tq[c])
<1>a. c \in Cpu /\ wrun = None /\ worker.budget > 0 /\ tq[c] # <<>> /\ tq' = [tq EXCEPT ![c] = Tail(@)]
    BY WorkerPosition DEF WorkerPops
<1>b. /\ d \in KDPC /\ queued[d] = c /\ d \in Range(tq[c]) /\ tq' \in [Cpu -> Seq(KDPC)]
      /\ \A b \in Cpu : /\ IsInjective(tq'[b]) /\ Range(tq'[b]) = Range(tq[b]) \ {d}
                        /\ d \notin Range(q[b])
    BY <1>a, PoppedThreaded
<1>c. /\ Taken(d) /\ wrun' = Flag(d) /\ in_flight_threaded' = in_flight_threaded + 1
      /\ UNCHANGED <<q, pending, ins, run, in_flight, worker, flush>>
    BY DEF WorkerPops
<1> HIDE DEF d, c
<1>d. Unlinked(d)
  <2>1. /\ q \in [Cpu -> Seq(KDPC)] /\ \A b \in Cpu : IsInjective(q[b])
      BY DEF DpcType, ListsHold
  <2>2. \A b \in Cpu : Range(q[b]) = Range(q[b]) \ {d}
      BY <1>b
  <2> QED BY <1>b, <1>c, <2>1, <2>2 DEF Unlinked
<1>e. Flag(d) \in Activation /\ Flag(d) # None /\ (Flag(d).old <=> d \in old)
    BY <1>b, FlagOf
<1>1. DpcType'
  <2>1. /\ queued' \in [KDPC -> Cpu \cup {None}] /\ asked' \subseteq KDPC /\ old' \subseteq KDPC
      BY <1>b, <1>d, UnlinkedKeeps
  <2>2. wrun' \in Activation /\ in_flight_threaded' \in Int
      BY <1>c, <1>e DEF DpcType
  <2> QED BY <1>b, <1>c, <2>1, <2>2 DEF DpcType
<1>2. ListsHold'
    BY <1>b, <1>d, UnlinkedKeeps
<1>3. PendingSet'
    BY <1>b, <1>c DEF PendingSet
<1>4. HistoryQueued'
    BY <1>b, <1>d, UnlinkedKeeps
<1>5. RunsCounted'
    BY <1>a, <1>c, <1>e DEF RunsCounted, One
<1>6. FlushProgress'
  <2>1. \A b \in Cpu : Clear(b) => Clear(b)'
      BY <1>b, <1>c, <1>d, UnlinkedKeeps DEF Clear
  <2>2. Clear(c) => d \notin old
      BY <1>b DEF Clear
  <2> QED BY <1>a, <1>c, <1>e, <2>1, <2>2 DEF FlushProgress
<1> QED BY <1>1, <1>2, <1>3, <1>4, <1>5, <1>6

\* The worker's routine returns.
LEMMA WorkerReturnsKeeps ==
    ASSUME DpcInd, WorkerReturns PROVE DpcInd'
<1> USE DpcConstants DEF DpcInd
<1>1. DpcType'
  <2>1. worker' \in [cpu : Cpu, budget : Nat]
    <3>1. worker.budget - 1 \in Nat
        BY WorkerPosition DEF WorkerReturns, RunsCounted
    <3> QED BY <3>1, WorkerPosition DEF WorkerReturns, AfterOne
  <2>2. wrun' = None /\ in_flight_threaded' \in Int
      BY DEF DpcType, WorkerReturns
  <2>3. UNCHANGED <<q, tq, pending, queued, ins, run, in_flight, flush, asked, old>>
      BY DEF WorkerReturns
  <2> QED BY <2>1, <2>2, <2>3 DEF DpcType
<1>2. ListsHold'
    BY DEF ListsHold, WorkerReturns, AfterOne, NextCpu, DpcType
<1>3. PendingSet'
    BY DEF PendingSet, WorkerReturns, AfterOne, NextCpu, DpcType
<1>4. HistoryQueued'
    BY DEF HistoryQueued, WorkerReturns, AfterOne, NextCpu, DpcType
<1>5. RunsCounted'
    BY DEF RunsCounted, One, WorkerReturns, AfterOne, NextCpu, DpcType
<1>6. FlushProgress'
    BY DEF FlushProgress, Clear, WorkerReturns, AfterOne, NextCpu, DpcType
<1> QED BY <1>1, <1>2, <1>3, <1>4, <1>5, <1>6

\* What is outstanding is marked, and no processor has been sampled.
LEMMA FlushCallKeeps ==
    ASSUME DpcInd, FlushCall PROVE DpcInd'
<1> USE DpcConstants DEF DpcInd
<1>a. ASSUME NEW a \in Activation \cup {None}, a # None
      PROVE  [a EXCEPT !.old = TRUE] \in Activation /\ [a EXCEPT !.old = TRUE] # None
  <2>1. [a EXCEPT !.old = TRUE] \in Activation
      BY <1>a DEF Activation
  <2> QED BY <2>1
<1>b. /\ wrun' \in Activation \cup {None} /\ (wrun' = None <=> wrun = None)
      /\ run' \in [Drain -> Activation \cup {None}] /\ \A x \in Drain : run'[x] = None <=> run[x] = None
    BY <1>a DEF FlushCall, DpcType
<1>c. /\ flush' \in [at : {"no", "dispatch", "scan", "threaded", "returned"}, cpu : Cpu]
      /\ flush'.at = "dispatch" /\ flush'.cpu = 0 /\ old' = {d \in KDPC : queued[d] # None}
      /\ UNCHANGED <<q, tq, pending, queued, ins, in_flight, worker, in_flight_threaded, asked>>
    BY CpuOfDrain DEF FlushCall, BSP
<1>1. DpcType'
    BY <1>b, <1>c DEF DpcType
<1>2. ListsHold'
    BY <1>c DEF ListsHold
<1>3. PendingSet'
    BY <1>c DEF PendingSet
<1>4. HistoryQueued'
    BY <1>c DEF HistoryQueued
<1>5. RunsCounted'
    BY <1>b, <1>c, CpuOfDrain DEF RunsCounted, One
<1>6. FlushProgress'
    BY <1>c DEF FlushProgress
<1> QED BY <1>1, <1>2, <1>3, <1>4, <1>5, <1>6

\* The scan starts at processor 0.
LEMMA FlushDispatchedKeeps ==
    ASSUME DpcInd, FlushDispatched PROVE DpcInd'
<1> USE DpcConstants DEF DpcInd
<1>1. DpcType'
    BY DEF DpcType, FlushDispatched
<1>2. ListsHold'
    BY DEF ListsHold, FlushDispatched, DpcType
<1>3. PendingSet'
    BY DEF PendingSet, FlushDispatched, DpcType
<1>4. HistoryQueued'
    BY DEF HistoryQueued, FlushDispatched, DpcType
<1>5. RunsCounted'
    BY DEF RunsCounted, One, FlushDispatched, DpcType
<1>6. FlushProgress'
  <2>1. flush'.at = "scan" /\ flush'.cpu = 0
      BY DEF FlushDispatched, DpcType, FlushProgress
  <2>2. \A b \in Cpu : ~(b < 0)
      BY DEF Cpu
  <2> QED BY <2>1, <2>2 DEF FlushProgress
<1> QED BY <1>1, <1>2, <1>3, <1>4, <1>5, <1>6

\* A processor with empty lists and nothing in flight is clear.
LEMMA FlushSamplesKeeps ==
    ASSUME DpcInd, FlushSamples PROVE DpcInd'
<1> USE DpcConstants DEF DpcInd
<1> DEFINE c == flush.cpu
<1>a. /\ c \in Cpu /\ flush.at = "scan" /\ MAX_CPUS \in Nat \ {0}
      /\ UNCHANGED <<q, tq, pending, queued, ins, run, in_flight, worker, wrun, in_flight_threaded, asked, old>>
    BY DEF FlushSamples, DpcType
<1>b. ~Busy(c) => Clear(c)
  <2> SUFFICES ASSUME ~Busy(c) PROVE Clear(c)
      OBVIOUS
  <2>1. Range(q[c]) = {} /\ Range(tq[c]) = {}
      BY <1>a, RangeOf DEF Busy, DpcType
  <2>2. in_flight[c] = 0
      BY DEF Busy
  <2>3. One(c) = 0 /\ (c = BSP => One(Isr) = 0)
      BY <1>a, <2>2 DEF RunsCounted, One
  <2>4. \A x \in Drain : CpuOf(x) = c => x = c \/ (x = Isr /\ c = BSP)
      BY CpuOfDrain
  <2>5. \A x \in Drain : CpuOf(x) = c => run[x] = None
      BY <2>3, <2>4 DEF One
  <2>6. \A d \in old : queued[d] # c
      BY <1>a, <2>1 DEF ListsHold, DpcType
  <2> QED BY <2>5, <2>6 DEF Clear
<1>c. /\ flush' = IF Busy(c) THEN [flush EXCEPT !.cpu = 0]
                  ELSE IF c < MAX_CPUS - 1 THEN [flush EXCEPT !.cpu = c + 1]
                  ELSE [at |-> "threaded", cpu |-> 0]
    BY DEF FlushSamples
<1>d. \A b \in Cpu : Clear(b)' <=> Clear(b)
    BY <1>a DEF Clear
<1> HIDE DEF c
<1>1. DpcType'
  <2>1. c \in Int /\ 0 \in Cpu /\ (c < MAX_CPUS - 1 => c + 1 \in Cpu)
      BY <1>a, CpuOfDrain DEF Cpu, BSP
  <2>2. flush \in [at : {"no", "dispatch", "scan", "threaded", "returned"}, cpu : Cpu]
      BY DEF DpcType
  <2>3. flush' \in [at : {"no", "dispatch", "scan", "threaded", "returned"}, cpu : Cpu]
      BY <1>c, <2>1, <2>2
  <2> QED BY <1>a, <2>3 DEF DpcType
<1>2. ListsHold'
    BY <1>a DEF ListsHold
<1>3. PendingSet'
    BY <1>a DEF PendingSet
<1>4. HistoryQueued'
    BY <1>a DEF HistoryQueued
<1>5. RunsCounted'
    BY <1>a DEF RunsCounted, One
<1>6. FlushProgress'
  <2>0. flush \in [at : {"no", "dispatch", "scan", "threaded", "returned"}, cpu : Cpu] /\ c = flush.cpu
      BY DEF DpcType, c
  <2>1. CASE Busy(c)
    <3>1. flush'.at = "scan" /\ flush'.cpu = 0
        BY <1>a, <1>c, <2>0, <2>1
    <3>2. \A b \in Cpu : ~(b < 0)
        BY DEF Cpu
    <3> QED BY <3>1, <3>2 DEF FlushProgress
  <2>2. CASE ~Busy(c) /\ c < MAX_CPUS - 1
    <3>1. flush'.at = "scan" /\ flush'.cpu = c + 1
        BY <1>a, <1>c, <2>0, <2>2
    <3>2. \A b \in Cpu : b < c + 1 => b < c \/ b = c
        BY <1>a DEF Cpu
    <3> QED BY <1>a, <1>b, <1>d, <2>0, <2>2, <3>1, <3>2 DEF FlushProgress
  <2>3. CASE ~Busy(c) /\ ~(c < MAX_CPUS - 1)
    <3>1. flush'.at = "threaded" /\ flush'.cpu = 0
        BY <1>c, <2>3
    <3>2. \A b \in Cpu : b < c \/ b = c
        BY <1>a, <2>3 DEF Cpu
    <3> QED BY <1>a, <1>b, <1>d, <2>0, <2>3, <3>1, <3>2 DEF FlushProgress
  <2> QED BY <2>1, <2>2, <2>3
<1> QED BY <1>1, <1>2, <1>3, <1>4, <1>5, <1>6

\* With every processor clear and the worker idle, nothing is left.
LEMMA FlushEndsKeeps ==
    ASSUME DpcInd, FlushEnds PROVE DpcInd'
<1> USE DpcConstants DEF DpcInd
<1>a. /\ flush.at = "threaded" /\ flush.cpu = 0 /\ flush'.cpu = 0
      /\ flush'.at = IF in_flight_threaded = 0 THEN "returned" ELSE "scan"
      /\ UNCHANGED <<run, wrun, queued, old>>
    BY DEF FlushEnds, DpcType, FlushProgress
<1>1. DpcType'
    BY DEF DpcType, FlushEnds
<1>2. ListsHold'
    BY DEF ListsHold, FlushEnds, DpcType
<1>3. PendingSet'
    BY DEF PendingSet, FlushEnds, DpcType
<1>4. HistoryQueued'
    BY DEF HistoryQueued, FlushEnds, DpcType
<1>5. RunsCounted'
    BY DEF RunsCounted, One, FlushEnds, DpcType
<1>6. FlushProgress'
  <2>1. \A b \in Cpu : Clear(b)'
      BY <1>a DEF Clear, FlushProgress
  <2> QED BY <1>a, <2>1 DEF FlushProgress, RunsCounted
<1> QED BY <1>1, <1>2, <1>3, <1>4, <1>5, <1>6

\* Another flush may be called.
LEMMA FlushResetKeeps ==
    ASSUME DpcInd, FlushReset PROVE DpcInd'
<1> USE DpcConstants DEF DpcInd
<1>1. DpcType'
    BY DEF DpcType, FlushReset
<1>2. ListsHold'
    BY DEF ListsHold, FlushReset, DpcType
<1>3. PendingSet'
    BY DEF PendingSet, FlushReset, DpcType
<1>4. HistoryQueued'
    BY DEF HistoryQueued, FlushReset, DpcType
<1>5. RunsCounted'
    BY DEF RunsCounted, One, FlushReset, DpcType
<1>6. FlushProgress'
    BY DEF FlushProgress, Clear, FlushReset, DpcType
<1> QED BY <1>1, <1>2, <1>3, <1>4, <1>5, <1>6

\* Any step on the DPC queues keeps the invariant.
LEMMA DpcIndNext == DpcInd /\ (DpcNext \/ UNCHANGED dvars) => DpcInd'
<1> SUFFICES ASSUME DpcInd, DpcNext \/ UNCHANGED dvars PROVE DpcInd'
    OBVIOUS
<1>1. ASSUME NEW d \in KDPC, InsertStep(d) \/ InsertNested(d) PROVE DpcInd'
    BY <1>1, InsertNestedKeeps, InsertRefreshKeeps, InsertRetryKeeps, InsertLookKeeps, InsertLinkKeeps DEF InsertStep
<1>2. ASSUME NEW d \in KDPC, NEW c \in Cpu, InsertCall(d, c) \/ RemoveLocked(d, c) PROVE DpcInd'
    BY <1>2, InsertCallKeeps, RemoveLockedKeeps
<1>3. ASSUME NEW x \in Drain, DrainPop(x) \/ RoutineReturns(x) PROVE DpcInd'
    BY <1>3, DrainPopKeeps, RoutineReturnsKeeps
<1>4. CASE WorkerStep
    BY <1>4, WorkerLooksKeeps, WorkerFindsNoneKeeps, WorkerPopsKeeps, WorkerReturnsKeeps DEF WorkerStep
<1>5. CASE FlushCall \/ FlushStep \/ FlushReset
    BY <1>5, FlushCallKeeps, FlushDispatchedKeeps, FlushSamplesKeeps, FlushEndsKeeps, FlushResetKeeps
    DEF FlushStep
<1>6. CASE UNCHANGED dvars
    BY <1>6 DEF dvars, DpcInd, DpcType, ListsHold, PendingSet, HistoryQueued, RunsCounted, One,
       FlushProgress, Clear
<1> QED BY <1>1, <1>2, <1>3, <1>4, <1>5, <1>6 DEF DpcNext, CalmNext

\* It holds at first.
LEMMA DpcIndInit == DpcInit => DpcInd
<1> SUFFICES ASSUME DpcInit PROVE DpcInd
    OBVIOUS
<1> USE DpcConstants DEF DpcInit, DpcInd
<1>1. DpcType
  <2>1. /\ <<>> \in Seq(KDPC) /\ 0 \in Cpu
        /\ NoInsert \in [to : Cpu \cup {None}, saw : Cpu \cup {None, Unread}]
      BY CpuOfDrain DEF NoInsert, BSP
  <2> QED BY <2>1 DEF DpcType
<1>2. ListsHold /\ PendingSet
  <2>1. <<>> \in Seq(KDPC) /\ Range(<<>>) = {} /\ IsInjective(<<>>)
      BY DEF Range, IsInjective
  <2>2. \A c \in Cpu : q[c] = <<>> /\ tq[c] = <<>> /\ c # None
      BY CpuOfDrain
  <2> QED BY <2>1, <2>2 DEF ListsHold, PendingSet
<1>3. HistoryQueued /\ RunsCounted /\ FlushProgress
    BY CpuOfDrain DEF HistoryQueued, RunsCounted, One, FlushProgress
<1> QED BY <1>1, <1>2, <1>3

\* The invariant gives the property that TLC checks: the counts of running routines
\* and the two lists of a processor taken together.
LEMMA DpcIndGives == DpcInd => DpcInv
<1> SUFFICES ASSUME DpcInd PROVE DpcInv
    OBVIOUS
<1>1. ASSUME NEW c \in Cpu
      PROVE  /\ IsInjective(q[c] \o tq[c])
             /\ Range(q[c] \o tq[c]) = {d \in KDPC : queued[d] = c}
             /\ tq[c] # <<>> => pending[c]
  <2>1. q[c] \in Seq(KDPC) /\ tq[c] \in Seq(KDPC)
      BY DEF DpcInd, DpcType
  <2>2. /\ IsInjective(q[c]) /\ IsInjective(tq[c])
        /\ \A d \in KDPC : /\ ~(d \in Range(q[c]) /\ d \in Range(tq[c]))
                           /\ queued[d] = c <=> d \in Range(q[c]) \/ d \in Range(tq[c])
        /\ Range(tq[c]) # {} => pending[c]
      BY DEF DpcInd, ListsHold, PendingSet
  <2>3. Range(q[c]) \subseteq KDPC /\ Range(tq[c]) \subseteq KDPC /\ (tq[c] = <<>> <=> Range(tq[c]) = {})
      BY <2>1, RangeOf
  <2>4. Range(q[c]) \cap Range(tq[c]) = {}
      BY <2>2, <2>3
  <2>5. Range(q[c] \o tq[c]) = Range(q[c]) \cup Range(tq[c]) /\ IsInjective(q[c] \o tq[c])
      BY <2>1, <2>2, <2>4, ConcatRange
  <2> QED BY <2>2, <2>3, <2>5
<1>2. ASSUME NEW c \in Cpu
      PROVE  in_flight[c] = Cardinality({x \in Drain : CpuOf(x) = c /\ run[x] # None})
  <2> DEFINE R == {x \in Drain : CpuOf(x) = c /\ run[x] # None}
             I == c = BSP /\ run[Isr] # None
  <2>1. in_flight[c] = (IF run[c] = None THEN 0 ELSE 1) + (IF I THEN 1 ELSE 0)
      BY DEF DpcInd, RunsCounted, One
  <2>2. \A x : x \in R <=> (x = c /\ run[c] # None) \/ (x = Isr /\ I)
      BY CpuOfDrain
  <2>3. c # Isr
      BY CpuOfDrain
  <2> HIDE DEF R, I
  <2>4. CASE run[c] # None /\ I
    <3>1. R = {c} \cup {Isr} /\ Isr \notin {c}
        BY <2>2, <2>3, <2>4
    <3>2. IsFiniteSet({c}) /\ Cardinality({c}) = 1
        BY FS_Singleton
    <3>3. Cardinality({c} \cup {Isr}) = 1 + 1
        BY <3>1, <3>2, FS_AddElement
    <3> QED BY <2>1, <2>4, <3>1, <3>3 DEF R
  <2>5. CASE run[c] # None /\ ~I
    <3>1. R = {c}
        BY <2>2, <2>5
    <3> QED BY <2>1, <2>5, <3>1, FS_Singleton DEF R
  <2>6. CASE run[c] = None /\ I
    <3>1. R = {Isr}
        BY <2>2, <2>6
    <3> QED BY <2>1, <2>6, <3>1, FS_Singleton DEF R
  <2>7. CASE run[c] = None /\ ~I
    <3>1. R = {}
        BY <2>2, <2>7
    <3> QED BY <2>1, <2>7, <3>1, FS_EmptySet DEF R
  <2> QED BY <2>4, <2>5, <2>6, <2>7
<1>3. \A d \in asked : queued[d] # None
    BY DEF DpcInd, HistoryQueued
<1> QED BY <1>1, <1>2, <1>3 DEF DpcInv

\* When the flush has returned every processor is clear, and what is old is queued on one.
LEMMA DpcIndBars == DpcInd => FlushIsBarrier
<1> SUFFICES ASSUME DpcInd, flush.at = "returned"
             PROVE  /\ old = {} /\ \A x \in Drain : run[x] # None => ~run[x].old
                    /\ wrun # None => ~wrun.old
    BY DEF FlushIsBarrier
<1>1. \A c \in Cpu : Clear(c)
    BY DEF DpcInd, FlushProgress
<1>2. \A d \in old : queued[d] \in Cpu
    BY DEF DpcInd, DpcType, HistoryQueued
<1>3. old = {}
    BY <1>1, <1>2 DEF Clear
<1>4. \A x \in Drain : run[x] # None => ~run[x].old
    BY <1>1, CpuOfDrain DEF Clear
<1> QED BY <1>3, <1>4 DEF DpcInd, FlushProgress

-----------------------------------------------------------------------------
(* What a step on the DPC queues may do to the driver's DPCs *)

\* A calm step begins no insert and leaves it to the caller whether there is a flush.
LEMMA CalmEffect ==
    ASSUME DpcInd, CalmNext
    PROVE  /\ \A e \in KDPC : Inserting(e)' => Inserting(e)
           /\ flush'.at = "no" <=> flush.at = "no"
<1>1. ASSUME NEW d \in KDPC, InsertStep(d)
      PROVE  (\A e \in KDPC : Inserting(e)' => Inserting(e)) /\ flush' = flush
    BY <1>1 DEF InsertStep, InsertRefresh, InsertRetry, InsertLook, InsertLink, Inserting, NoInsert,
       DpcInd, DpcType
<1>6. ASSUME NEW d \in KDPC, InsertNested(d) PROVE UNCHANGED <<ins, flush>>
    BY <1>6 DEF InsertNested
<1>2. ASSUME NEW d \in KDPC, NEW c \in Cpu, RemoveLocked(d, c) PROVE UNCHANGED <<ins, flush>>
    BY <1>2 DEF RemoveLocked
<1>3. ASSUME NEW x \in Drain, DrainPop(x) \/ RoutineReturns(x) PROVE UNCHANGED <<ins, flush>>
    BY <1>3 DEF DrainPop, RoutineReturns
<1>4. CASE WorkerStep
    BY <1>4 DEF WorkerStep, WorkerLooks, WorkerFindsNone, WorkerPops, WorkerReturns, Inserting
<1>5. CASE FlushStep
  <2>1. UNCHANGED ins /\ flush.at # "no"
      BY <1>5 DEF FlushStep, FlushDispatched, FlushSamples, FlushEnds
  <2>2. flush'.at # "no"
    <3>1. flush \in [at : {"no", "dispatch", "scan", "threaded", "returned"}, cpu : Cpu]
        BY DEF DpcInd, DpcType
    <3>2. CASE FlushDispatched
        BY <3>1, <3>2 DEF FlushDispatched
    <3>3. CASE FlushSamples
        BY <3>1, <3>3 DEF FlushSamples
    <3>4. CASE FlushEnds
        BY <3>1, <3>4 DEF FlushEnds
    <3> QED BY <1>5, <3>2, <3>3, <3>4 DEF FlushStep
  <2> QED BY <2>1, <2>2 DEF Inserting
<1> QED BY <1>1, <1>2, <1>3, <1>4, <1>5, <1>6 DEF CalmNext, Inserting

\* What is running on a drain or in the worker goes on, and nothing else changes.
LEMMA SameOutstanding ==
    ASSUME NEW d \in KDPC, UNCHANGED <<queued, old, run, wrun>>
    PROVE  (Marked(d) => Marked(d)') /\ (Gone(d) => Gone(d)')
  BY DEF Marked, Gone, Running

\* The call of the flush marks everything, and brings nothing back.
LEMMA FlushMarks ==
    ASSUME DpcInd, FlushCall, NEW d \in KDPC
    PROVE  Marked(d)' /\ (Gone(d) => Gone(d)')
<1>1. ASSUME NEW a \in Activation
      PROVE  [a EXCEPT !.old = TRUE].old /\ [a EXCEPT !.old = TRUE].dpc = a.dpc
    BY DEF Activation
<1>2. /\ UNCHANGED queued /\ old' = {e \in KDPC : queued[e] # None}
      /\ \A x \in Drain : run'[x] = IF run[x] = None THEN None ELSE [run[x] EXCEPT !.old = TRUE]
      /\ wrun' = IF wrun = None THEN None ELSE [wrun EXCEPT !.old = TRUE]
      /\ \A x \in Drain : run[x] # None => run[x] \in Activation
      /\ wrun # None => wrun \in Activation
    BY DEF FlushCall, DpcInd, DpcType
<1>3. /\ \A x \in Drain : run'[x] # None => run'[x].old /\ run[x] # None /\ run'[x].dpc = run[x].dpc
      /\ wrun' # None => wrun'.old /\ wrun # None /\ wrun'.dpc = wrun.dpc
    BY <1>1, <1>2
<1>4. Marked(d)'
    BY <1>2, <1>3 DEF Marked
<1>5. Gone(d) => Gone(d)'
    BY <1>2, <1>3 DEF Gone, Running
<1> QED BY <1>4, <1>5

\* A DPC that is not being inserted stays marked, or gone: it runs only from a list,
\* and takes its mark along.
LEMMA MarkedKeeps ==
    ASSUME DpcInd, DpcNext, NEW d \in KDPC, ~Inserting(d)
    PROVE  (Marked(d) => Marked(d)') /\ (Gone(d) => Gone(d)')
<1> USE DpcConstants DEF DpcInd
<1>1. ASSUME NEW e \in KDPC, InsertRefresh(e) \/ InsertRetry(e) \/ InsertLook(e)
      PROVE  UNCHANGED <<queued, old, run, wrun>>
    BY <1>1 DEF InsertRefresh, InsertRetry, InsertLook
<1>2. ASSUME NEW e \in KDPC, InsertLink(e) \/ InsertNested(e)
      PROVE  (Marked(d) => Marked(d)') /\ (Gone(d) => Gone(d)')
  <2>1. queued'[d] = queued[d] /\ UNCHANGED <<old, run, wrun>>
      BY <1>2 DEF InsertLink, InsertNested, Link, DpcType
  <2> QED BY <2>1 DEF Marked, Gone, Running
<1>3. ASSUME NEW e \in KDPC, NEW c \in Cpu, RemoveLocked(e, c)
      PROVE  (Marked(d) => Marked(d)') /\ (Gone(d) => Gone(d)')
  <2>1. UNCHANGED <<run, wrun>>
      BY <1>3 DEF RemoveLocked
  <2>2. CASE queued[e] # c
    <3>1. UNCHANGED <<queued, old>>
        BY <1>3, <2>2 DEF RemoveLocked
    <3> QED BY <2>1, <3>1, SameOutstanding
  <2>3. CASE queued[e] = c
    <3>1. queued'[d] = (IF d = e THEN None ELSE queued[d]) /\ old' = old \ {e}
        BY <1>3, <2>3 DEF RemoveLocked, Taken, DpcType
    <3> QED BY <2>1, <3>1 DEF Marked, Gone, Running
  <2> QED BY <2>2, <2>3
<1>4. ASSUME NEW x \in Drain, DrainPop(x) PROVE (Marked(d) => Marked(d)') /\ (Gone(d) => Gone(d)')
  <2> DEFINE h == Head(q[CpuOf(x)])
  <2>1. /\ CpuOf(x) \in Cpu /\ CpuOf(x) # None /\ run[x] = None /\ UNCHANGED wrun
        /\ h \in KDPC /\ queued[h] = CpuOf(x)
      BY <1>4, CpuOfDrain, PoppedQueue DEF DrainPop
  <2>2. CASE h \in Threaded
    <3>1. UNCHANGED <<queued, old, run>>
        BY <1>4, <2>2 DEF DrainPop, HandOff
    <3> QED BY <2>1, <3>1, SameOutstanding
  <2>3. CASE h \notin Threaded
    <3>1. RunInline(x, h)
        BY <1>4, <2>3 DEF DrainPop
    <3> HIDE DEF h
    <3>2. /\ queued'[d] = (IF d = h THEN None ELSE queued[d]) /\ old' = old \ {h}
          /\ run'[x] = Flag(h) /\ \A y \in Drain : y # x => run'[y] = run[y]
        BY <3>1 DEF RunInline, Taken, DpcType
    <3>3. Flag(h).dpc = h /\ (Flag(h).old <=> h \in old)
        BY <2>1, FlagOf
    <3>4. Marked(d) => Marked(d)'
        BY <2>1, <3>2, <3>3 DEF Marked
    <3>5. Gone(d) => Gone(d)'
        BY <2>1, <3>2, <3>3 DEF Gone, Running
    <3> QED BY <3>4, <3>5
  <2> QED BY <2>2, <2>3
<1>5. ASSUME NEW x \in Drain, RoutineReturns(x) PROVE (Marked(d) => Marked(d)') /\ (Gone(d) => Gone(d)')
  <2>1. /\ UNCHANGED <<queued, old, wrun>> /\ run'[x] = None
        /\ \A y \in Drain : y # x => run'[y] = run[y]
      BY <1>5 DEF RoutineReturns, DpcType
  <2> QED BY <2>1 DEF Marked, Gone, Running
<1>6. CASE WorkerStep
  <2>1. CASE WorkerLooks \/ WorkerFindsNone
      BY <2>1, SameOutstanding DEF WorkerLooks, WorkerFindsNone
  <2>2. CASE WorkerReturns
    <3>1. UNCHANGED <<queued, old, run>> /\ wrun' = None
        BY <2>2 DEF WorkerReturns
    <3> QED BY <3>1 DEF Marked, Gone, Running
  <2>3. CASE WorkerPops
    <3> DEFINE h == Head(tq[worker.cpu])
    <3>1. /\ h \in KDPC /\ queued[h] = worker.cpu /\ worker.cpu # None /\ UNCHANGED run
          /\ wrun = None /\ wrun' = Flag(h) /\ Taken(h)
        BY <2>3, WorkerPosition, CpuOfDrain, PoppedThreaded DEF WorkerPops
    <3> HIDE DEF h
    <3>2. queued'[d] = (IF d = h THEN None ELSE queued[d]) /\ old' = old \ {h}
        BY <3>1 DEF Taken, DpcType
    <3>3. Flag(h).dpc = h /\ (Flag(h).old <=> h \in old)
        BY <3>1, FlagOf
    <3>4. Marked(d) => Marked(d)'
        BY <3>1, <3>2, <3>3 DEF Marked
    <3>5. Gone(d) => Gone(d)'
        BY <3>1, <3>2, <3>3 DEF Gone, Running
    <3> QED BY <3>4, <3>5
  <2> QED BY <1>6, <2>1, <2>2, <2>3 DEF WorkerStep
<1>7. CASE FlushStep \/ FlushReset
    BY <1>7, SameOutstanding DEF FlushStep, FlushDispatched, FlushSamples, FlushEnds, FlushReset
<1>8. CASE FlushCall
    BY <1>8, FlushMarks
<1>9. ASSUME NEW e \in KDPC, NEW c \in Cpu, InsertCall(e, c) PROVE UNCHANGED <<queued, old, run, wrun>>
    BY <1>9 DEF InsertCall
<1> QED BY <1>1, <1>2, <1>3, <1>4, <1>5, <1>6, <1>7, <1>8, <1>9, SameOutstanding
        DEF DpcNext, CalmNext, InsertStep

-----------------------------------------------------------------------------
(* Steps of the timers, the interrupt and the driver *)

\* Once its timers are quiet, none of the driver's DPCs is being inserted.
LEMMA NoneInserting ==
    ASSUME DriverInd, driver.at \in {"remove", "flush", "freed"}
    PROVE  \A d \in Mine : ~Inserting(d)
<1> SUFFICES ASSUME NEW d \in Mine PROVE ~Inserting(d)
    OBVIOUS
<1>1. CASE d \in TimerDpcs
  <2>1. PICK t \in Timer : d = TimerDpc[t]
      BY <1>1 DEF TimerDpcs
  <2> QED BY <2>1 DEF DriverInd, ActiveIsHeld, Stopped, Quiet
<1>2. CASE d \notin TimerDpcs
    BY <1>2 DEF DriverInd, Stopped
<1> QED BY <1>1, <1>2

\* So what is marked, or gone, stays so.
LEMMA FlushKept ==
    ASSUME DpcInd, DriverInd, DpcNext \/ UNCHANGED dvars
    PROVE  /\ driver.at = "flush" => \A d \in Mine : Marked(d)'
           /\ driver.at = "freed" => \A d \in Mine : Gone(d)'
<1>1. Mine \subseteq KDPC
    BY KTimerConstants
<1>2. CASE DpcNext
    BY <1>1, <1>2, MarkedKeeps, NoneInserting DEF DriverInd, FlushOwned
<1>3. CASE UNCHANGED dvars
    BY <1>1, <1>3, SameOutstanding DEF DriverInd, FlushOwned, dvars
<1> QED BY <1>2, <1>3

\* The DPC of a timer is the driver's.
LEMMA TimerDpcOf == \A t \in Timer : TimerDpc[t] \in Mine /\ TimerDpc[t] \in TimerDpcs /\ TimerDpc[t] \in KDPC
  BY KTimerConstants DEF TimerDpcs

\* A calm step of anyone, while the timers, the interrupt and the driver stand still.
LEMMA CalmKeeps ==
    ASSUME DpcInd, DriverInd, CalmNext \/ UNCHANGED dvars, UNCHANGED tvars PROVE DriverInd'
<1>1. /\ UNCHANGED <<timer, isr, driver>> /\ Mine \subseteq KDPC
      /\ \A e \in KDPC : Inserting(e)' => Inserting(e)
      /\ flush'.at = "no" <=> flush.at = "no"
    BY CalmEffect, KTimerConstants DEF tvars, dvars, Inserting
<1>2. TimerType' /\ InterruptHolds'
    BY <1>1 DEF DriverInd, TimerType, InterruptHolds
<1>3. ActiveIsHeld'
    BY <1>1, TimerDpcOf DEF DriverInd, ActiveIsHeld
<1>4. Stopped'
    BY <1>1 DEF DriverInd, Stopped, Quiet
<1>5. FlushOwned'
    BY <1>1, FlushKept DEF DriverInd, FlushOwned, DpcNext
<1> QED BY <1>2, <1>3, <1>4, <1>5 DEF DriverInd

\* A device interrupt begins to queue a DPC that is no timer's, and is the driver's
\* only while it runs.
LEMMA ProduceKeeps ==
    ASSUME DpcInd, DriverInd, NEW d \in KDPC, NEW c \in Cpu, Produce(d, c) PROVE DriverInd'
<1>1. /\ UNCHANGED <<timer, isr, driver, flush>> /\ d \notin TimerDpcs
      /\ d \in Mine => driver.at \in {"run", "arm"}
      /\ \A e \in KDPC : e # d => (Inserting(e)' <=> Inserting(e))
      /\ Mine \subseteq KDPC /\ InsertCall(d, c)
    BY KTimerConstants DEF Produce, InsertCall, Inserting, tvars, DpcInd, DpcType
<1>2. TimerType' /\ InterruptHolds'
    BY <1>1 DEF DriverInd, TimerType, InterruptHolds
<1>3. ActiveIsHeld'
    BY <1>1, TimerDpcOf DEF DriverInd, ActiveIsHeld
<1>4. Stopped'
    BY <1>1 DEF DriverInd, Stopped, Quiet
<1>5. FlushOwned'
    BY <1>1, FlushKept DEF DriverInd, FlushOwned, DpcNext
<1> QED BY <1>2, <1>3, <1>4, <1>5 DEF DriverInd

\* The parts that a step which changes none of the DPC queues has to show.
LEMMA QueuesStill ==
    ASSUME DriverInd, UNCHANGED dvars
    PROVE  /\ \A e : Inserting(e)' = Inserting(e) /\ Marked(e)' = Marked(e) /\ Gone(e)' = Gone(e)
           /\ flush' = flush
  BY DEF dvars, Inserting, Marked, Gone, Running

\* The interrupt at its drain, and at its scan.
LEMMA IsrStates ==
    ASSUME NEW due \in SUBSET Timer
    PROVE  LET drains == [NoIsr EXCEPT !.at = "drain", !.left = DPC_BATCH_LIMIT]
               scans == [NoIsr EXCEPT !.at = "scan", !.todo = due]
           IN  /\ drains \in IsrRecord /\ drains.at = "drain" /\ drains.todo = {} /\ drains.now = None
               /\ scans \in IsrRecord /\ scans.at = "scan" /\ scans.todo = due /\ scans.now = None
<1>1. NoIsr \in IsrRecord /\ NoIsr.todo = {} /\ NoIsr.now = None
    BY DEF NoIsr, IsrRecord
<1>2. DPC_BATCH_LIMIT \in Int
    BY DpcConstants
<1> QED BY <1>1, <1>2 DEF IsrRecord

\* The tick: what is due is on the list.
LEMMA TickKeeps ==
    ASSUME DpcInd, DriverInd, Tick PROVE DriverInd'
<1>1. /\ isr.at = "no" /\ UNCHANGED <<dvars, driver>>
      /\ \A t \in Timer : timer[t] \in TimerRecord
      /\ timer' = [t \in Timer |-> IF timer[t].linked THEN [timer[t] EXCEPT !.due = timer[t].due - 1]
                                                      ELSE timer[t]]
    BY DEF Tick, DriverInd, TimerType
<1>2. ASSUME NEW t \in Timer
      PROVE  /\ timer'[t] \in TimerRecord /\ timer'[t].linked = timer[t].linked
             /\ timer'[t].active = timer[t].active
    BY <1>1 DEF TimerRecord
<1> DEFINE due == {t \in Timer : timer'[t].linked /\ timer'[t].due <= 0}
<1>3. /\ isr'.now = None /\ isr' \in IsrRecord /\ isr'.at \in {"drain", "scan"}
      /\ isr'.todo \subseteq due /\ (isr'.at = "drain" => isr'.todo = {})
  <2>1. isr' = IF due = {} THEN [NoIsr EXCEPT !.at = "drain", !.left = DPC_BATCH_LIMIT]
                           ELSE [NoIsr EXCEPT !.at = "scan", !.todo = due]
      BY DEF Tick
  <2>2. due \in SUBSET Timer
      OBVIOUS
  <2> HIDE DEF due
  <2> QED BY <2>1, <2>2, IsrStates
<1>4. isr'.todo \subseteq {t \in Timer : timer'[t].linked} /\ (isr'.at = "drain" => isr'.todo = {})
    BY <1>3
<1>5. isr.now = None /\ isr.todo = {} /\ None \notin Timer
    BY <1>1, KTimerConstants DEF DriverInd, InterruptHolds
<1>6. TimerType'
  <2>1. timer' \in [Timer -> TimerRecord]
      BY <1>1, <1>2
  <2> QED BY <1>1, <1>3, <2>1 DEF DriverInd, TimerType
<1>7. InterruptHolds'
    BY <1>3, <1>4 DEF InterruptHolds
<1>8. ActiveIsHeld'
    BY <1>1, <1>2, <1>3, <1>5, QueuesStill DEF DriverInd, ActiveIsHeld
<1>9. Stopped'
    BY <1>1, <1>2, <1>3, <1>4, <1>5, QueuesStill DEF DriverInd, Stopped, Quiet
<1>10. FlushOwned'
    BY <1>1, QueuesStill DEF DriverInd, FlushOwned
<1> QED BY <1>6, <1>7, <1>8, <1>9, <1>10 DEF DriverInd

\* A due timer fires: it was not quiet.
LEMMA FireKeeps ==
    ASSUME DpcInd, DriverInd, NEW t \in Timer, Fire(t) PROVE DriverInd'
<1>1. /\ isr.at = "scan" /\ t \in isr.todo /\ UNCHANGED driver /\ InsertCall(TimerDpc[t], BSP)
      /\ timer \in [Timer -> TimerRecord] /\ isr \in IsrRecord /\ isr.now = None
      /\ None \notin Timer /\ UNCHANGED flush /\ BSP \in Cpu
    BY KTimerConstants, CpuOfDrain DEF Fire, InsertCall, DriverInd, TimerType, InterruptHolds
<1>2. isr' \in IsrRecord /\ isr'.at = "queue" /\ isr'.todo = isr.todo \ {t} /\ isr'.now = t
    BY <1>1 DEF Fire, IsrRecord
<1>3. timer' = [timer EXCEPT ![t] = timer'[t]] /\ \A s \in Timer : s # t => timer'[s] = timer[s]
    BY <1>1 DEF Fire
<1>4. timer'[t] \in TimerRecord /\ timer'[t].active = timer[t].active
      /\ (timer'[t].linked => timer[t].linked)
  <2>1. timer'[t] = IF Keeps(t) THEN [timer[t] EXCEPT !.due = NextDue(t)]
                                ELSE [timer[t] EXCEPT !.linked = FALSE]
      BY <1>1 DEF Fire
  <2>2. timer[t] \in TimerRecord
      BY <1>1
  <2>3. Keeps(t) => NextDue(t) \in Int
    <3>1. Keeps(t) => timer[t].period \in Nat \ {0}
        BY <2>2 DEF Keeps, TimerRecord
    <3>2. timer[t].due \in Int
        BY <2>2 DEF TimerRecord
    <3> QED BY <3>1, <3>2 DEF NextDue
  <2> QED BY <2>1, <2>2, <2>3 DEF TimerRecord
<1>5. \A e \in KDPC : e # TimerDpc[t] => (Inserting(e)' <=> Inserting(e))
    BY <1>1 DEF InsertCall, Inserting, DpcInd, DpcType
<1>6. \A s \in Timer : TimerDpc[s] = TimerDpc[t] => s = t
    BY KTimerConstants
<1>7. TimerType'
    BY <1>1, <1>2, <1>3, <1>4 DEF DriverInd, TimerType
<1>8. InterruptHolds'
    BY <1>1, <1>2, <1>3 DEF DriverInd, InterruptHolds, TimerType, IsrRecord
<1>9. ActiveIsHeld'
  <2> SUFFICES ASSUME NEW s \in Timer
               PROVE  /\ timer'[s].linked => timer'[s].active
                      /\ timer'[s].active => timer'[s].linked \/ isr'.now = s
                      /\ Inserting(TimerDpc[s])' => isr'.now = s
      BY DEF ActiveIsHeld
  <2>1. CASE s = t
      BY <1>2, <1>4, <2>1 DEF DriverInd, ActiveIsHeld
  <2>2. CASE s # t
    <3>1. /\ timer'[s] = timer[s] /\ (Inserting(TimerDpc[s])' <=> Inserting(TimerDpc[s])) /\ isr.now # s
        BY <1>1, <1>3, <1>5, <1>6, <2>2, TimerDpcOf
    <3> QED BY <3>1 DEF DriverInd, ActiveIsHeld
  <2> QED BY <2>1, <2>2
<1>10. Stopped'
  <2>1. ~Quiet(t) /\ \A s \in Timer : s # t /\ Quiet(s) => Quiet(s)'
      BY <1>1, <1>2, <1>3 DEF Quiet
  <2>2. \A d \in Mine \ TimerDpcs : Inserting(d)' <=> Inserting(d)
      BY <1>5, TimerDpcOf, KTimerConstants
  <2>3. driver.at \notin {"remove", "flush", "freed"} /\ (driver.at = "stop" => t \in driver.on)
      BY <2>1 DEF DriverInd, Stopped
  <2> QED BY <1>1, <2>1, <2>2, <2>3 DEF DriverInd, Stopped
<1>11. FlushOwned'
    BY <1>1, FlushKept, TimerDpcOf DEF DriverInd, FlushOwned, DpcNext
<1> QED BY <1>7, <1>8, <1>9, <1>10, <1>11 DEF DriverInd

\* The DPC has been queued: the timer that fired is idle, or armed again.
LEMMA FirePublishesKeeps ==
    ASSUME DpcInd, DriverInd, FirePublishes PROVE DriverInd'
<1> DEFINE n == isr.now
<1>1. /\ n \in Timer /\ n # None /\ UNCHANGED <<dvars, driver>> /\ ~Inserting(TimerDpc[n])
      /\ timer \in [Timer -> TimerRecord] /\ isr \in IsrRecord /\ isr.at = "queue"
    BY KTimerConstants DEF FirePublishes, DriverInd, TimerType, InterruptHolds
<1>2. /\ timer' = [timer EXCEPT ![n] = IF timer[n].linked THEN timer[n] ELSE Idle]
      /\ Idle \in TimerRecord /\ ~Idle.linked /\ ~Idle.active
    BY DEF FirePublishes, Idle, TimerRecord
<1>3. /\ isr' \in IsrRecord /\ isr'.now = None /\ isr'.todo = isr.todo
      /\ isr'.at \in {"scan", "drain"} /\ (isr'.at = "drain" => isr'.todo = {})
  <2>1. CASE isr.todo # {}
      BY <1>1, <2>1 DEF FirePublishes, IsrRecord
  <2>2. CASE isr.todo = {}
    <3>1. isr' = [NoIsr EXCEPT !.at = "drain", !.left = DPC_BATCH_LIMIT] /\ {} \in SUBSET Timer
        BY <2>2 DEF FirePublishes
    <3> QED BY <2>2, <3>1, IsrStates
  <2> QED BY <2>1, <2>2
<1> HIDE DEF n
<1>4. /\ timer' \in [Timer -> TimerRecord]
      /\ \A s \in Timer : s # n => timer'[s] = timer[s]
      /\ timer'[n] = IF timer[n].linked THEN timer[n] ELSE Idle
    BY <1>1, <1>2
<1>5. TimerType'
    BY <1>1, <1>3, <1>4 DEF DriverInd, TimerType
<1>6. InterruptHolds'
  <2>1. \A t \in isr.todo : t \in Timer /\ timer[t].linked
      BY <1>1 DEF DriverInd, InterruptHolds, IsrRecord
  <2>2. \A t \in isr.todo : timer'[t].linked
      BY <1>4, <2>1
  <2> QED BY <1>3, <2>2 DEF InterruptHolds
<1>7. ActiveIsHeld'
    BY <1>1, <1>2, <1>3, <1>4, QueuesStill DEF DriverInd, ActiveIsHeld, n
<1>8. Stopped'
  <2>1. \A s \in Timer : Quiet(s) => Quiet(s)'
      BY <1>2, <1>3, <1>4, KTimerConstants DEF Quiet
  <2> QED BY <1>1, <2>1, QueuesStill DEF DriverInd, Stopped
<1>9. FlushOwned'
    BY <1>1, QueuesStill DEF DriverInd, FlushOwned
<1> QED BY <1>5, <1>6, <1>7, <1>8, <1>9 DEF DriverInd

\* The interrupt drains, having let go of its lock.
LEMMA IsrPopsKeeps ==
    ASSUME DpcInd, DriverInd, IsrPops PROVE DriverInd'
<1>1. /\ DrainPop(Isr) /\ UNCHANGED <<timer, driver>> /\ isr \in IsrRecord
      /\ isr' = [isr EXCEPT !.left = isr.left - 1]
    BY DEF IsrPops, DriverInd, TimerType
<1>2. isr' \in IsrRecord /\ isr'.at = isr.at /\ isr'.todo = isr.todo /\ isr'.now = isr.now
    BY <1>1 DEF IsrRecord
<1>3. CalmNext
    BY <1>1, CpuOfDrain DEF CalmNext
<1>4. /\ Mine \subseteq KDPC /\ \A e \in KDPC : Inserting(e)' => Inserting(e)
      /\ flush'.at = "no" <=> flush.at = "no"
    BY <1>3, CalmEffect, KTimerConstants
<1>5. TimerType' /\ InterruptHolds'
    BY <1>1, <1>2 DEF DriverInd, TimerType, InterruptHolds
<1>6. ActiveIsHeld'
    BY <1>1, <1>2, <1>4, TimerDpcOf DEF DriverInd, ActiveIsHeld
<1>7. Stopped'
    BY <1>1, <1>2, <1>4 DEF DriverInd, Stopped, Quiet
<1>8. FlushOwned'
    BY <1>1, <1>3, <1>4, FlushKept DEF DriverInd, FlushOwned, DpcNext
<1> QED BY <1>5, <1>6, <1>7, <1>8 DEF DriverInd

\* The interrupt returns.
LEMMA IsrEndsKeeps ==
    ASSUME DpcInd, DriverInd, IsrEnds PROVE DriverInd'
<1>1. /\ isr.at = "drain" /\ UNCHANGED <<dvars, timer, driver>> /\ isr' = NoIsr
      /\ isr.now = None /\ isr.todo = {}
    BY DEF IsrEnds, DriverInd, InterruptHolds
<1>2. isr' \in IsrRecord /\ isr'.at = "no" /\ isr'.todo = {} /\ isr'.now = None
    BY <1>1 DEF NoIsr, IsrRecord
<1>3. TimerType' /\ InterruptHolds'
    BY <1>1, <1>2 DEF DriverInd, TimerType, InterruptHolds
<1>4. ActiveIsHeld' /\ Stopped'
    BY <1>1, <1>2, QueuesStill DEF DriverInd, ActiveIsHeld, Stopped, Quiet
<1>5. FlushOwned'
    BY <1>1, QueuesStill DEF DriverInd, FlushOwned
<1> QED BY <1>3, <1>4, <1>5 DEF DriverInd

\* The locked section of KeCancelTimer: with the lock free, the timer will not fire.
LEMMA CancelledIsQuiet ==
    ASSUME DriverInd, NEW t \in Timer, Cancelled(t), TimerLockFree, UNCHANGED isr
    PROVE  /\ timer' \in [Timer -> TimerRecord] /\ Quiet(t)'
           /\ \A s \in Timer : s # t => timer'[s] = timer[s]
           /\ ~timer'[t].linked /\ ~timer'[t].active
           /\ isr.todo = {} /\ isr.now = None
<1>1. /\ isr.todo = {} /\ isr.now = None /\ None \notin Timer /\ timer \in [Timer -> TimerRecord]
    BY KTimerConstants DEF TimerLockFree, DriverInd, InterruptHolds, TimerType
<1>2. /\ timer' = [timer EXCEPT ![t] = IF timer[t].active THEN Idle ELSE timer[t]]
      /\ Idle \in TimerRecord /\ ~Idle.linked /\ ~Idle.active
    BY DEF Cancelled, Idle, TimerRecord
<1>3. /\ timer' \in [Timer -> TimerRecord] /\ \A s \in Timer : s # t => timer'[s] = timer[s]
      /\ timer'[t] = IF timer[t].active THEN Idle ELSE timer[t]
    BY <1>1, <1>2
<1>4. timer[t].linked => timer[t].active
    BY DEF DriverInd, ActiveIsHeld
<1> QED BY <1>1, <1>2, <1>3, <1>4 DEF Quiet

\* What the driver may be at.
LEMMA DriverOnHas ==
    /\ None \in DriverOn /\ \A t \in Timer : t \in DriverOn
    /\ \A T \in SUBSET Timer : T \in DriverOn
    /\ \A d \in Mine : d \in DriverOn
<1>1. None \in DriverOn
    BY DEF DriverOn
<1>2. \A t \in Timer : t \in DriverOn
    BY DEF DriverOn
<1>3. \A T \in SUBSET Timer : T \in DriverOn
    BY DEF DriverOn
<1>4. \A d \in Mine : d \in DriverOn
    BY DEF DriverOn
<1> QED BY <1>1, <1>2, <1>3, <1>4

\* KeSetTimerEx cancels.
LEMMA SetTimerKeeps ==
    ASSUME DpcInd, DriverInd, NEW t \in Timer, SetTimer(t) PROVE DriverInd'
<1>1. /\ driver.at = "run" /\ Cancelled(t) /\ TimerLockFree /\ UNCHANGED <<dvars, isr>>
      /\ driver \in DriverRecord /\ driver' = [driver EXCEPT !.at = "arm", !.on = t]
    BY DEF SetTimer, DriverInd, TimerType
<1>2. driver' \in DriverRecord /\ driver'.at = "arm" /\ driver'.on = t
    BY <1>1, DriverOnHas DEF DriverRecord
<1>3. TimerType' /\ InterruptHolds'
    BY <1>1, <1>2, CancelledIsQuiet DEF DriverInd, TimerType, InterruptHolds
<1>4. ActiveIsHeld'
    BY <1>1, CancelledIsQuiet, QueuesStill DEF DriverInd, ActiveIsHeld
<1>5. Stopped'
    BY <1>2 DEF Stopped
<1>6. FlushOwned'
    BY <1>1, <1>2, QueuesStill DEF DriverInd, FlushOwned
<1> QED BY <1>3, <1>4, <1>5, <1>6 DEF DriverInd

\* And arms.
LEMMA ArmKeeps ==
    ASSUME DpcInd, DriverInd, NEW due \in DueIn, NEW period \in Period, Arm(due, period) PROVE DriverInd'
<1> DEFINE n == driver.on
           r == [linked |-> TRUE, active |-> TRUE, due |-> due, period |-> period]
<1>1. /\ driver.at = "arm" /\ TimerLockFree /\ UNCHANGED <<dvars, isr>> /\ n \in Timer
      /\ timer \in [Timer -> TimerRecord] /\ timer' = [timer EXCEPT ![n] = r]
      /\ driver \in DriverRecord /\ driver' = [driver EXCEPT !.at = "run", !.on = None]
    BY DEF Arm, DriverInd, TimerType, Stopped
<1>2. r \in TimerRecord /\ r.linked /\ r.active
    BY KTimerConstants DEF TimerRecord
<1>3. driver' \in DriverRecord /\ driver'.at = "run"
    BY <1>1, DriverOnHas DEF DriverRecord
<1> HIDE DEF n, r
<1>4. /\ timer' \in [Timer -> TimerRecord] /\ timer'[n] = r
      /\ \A s \in Timer : s # n => timer'[s] = timer[s]
    BY <1>1, <1>2
<1>5. isr.todo = {} /\ isr.now = None
    BY <1>1 DEF TimerLockFree, DriverInd, InterruptHolds, TimerType, IsrRecord
<1>6. TimerType' /\ InterruptHolds'
    BY <1>1, <1>3, <1>4, <1>5 DEF DriverInd, TimerType, InterruptHolds
<1>7. ActiveIsHeld'
    BY <1>1, <1>2, <1>4, <1>5, QueuesStill DEF DriverInd, ActiveIsHeld
<1>8. Stopped'
    BY <1>3 DEF Stopped
<1>9. FlushOwned'
    BY <1>1, <1>3, QueuesStill DEF DriverInd, FlushOwned
<1> QED BY <1>6, <1>7, <1>8, <1>9 DEF DriverInd

\* The device is quiet.
LEMMA StopKeeps ==
    ASSUME DpcInd, DriverInd, Stop PROVE DriverInd'
<1>1. /\ driver.at = "run" /\ UNCHANGED <<dvars, timer, isr>> /\ driver \in DriverRecord
      /\ driver' = [driver EXCEPT !.at = "stop", !.on = Timer]
      /\ \A d \in Mine \ TimerDpcs : ~Inserting(d)
    BY DEF Stop, DriverInd, TimerType
<1>2. driver' \in DriverRecord /\ driver'.at = "stop" /\ driver'.on = Timer
    BY <1>1, DriverOnHas DEF DriverRecord
<1>3. TimerType' /\ InterruptHolds'
    BY <1>1, <1>2 DEF DriverInd, TimerType, InterruptHolds
<1>4. ActiveIsHeld'
    BY <1>1, QueuesStill DEF DriverInd, ActiveIsHeld
<1>5. Stopped'
    BY <1>1, <1>2, QueuesStill DEF Stopped
<1>6. FlushOwned'
    BY <1>1, <1>2, QueuesStill DEF DriverInd, FlushOwned
<1> QED BY <1>3, <1>4, <1>5, <1>6 DEF DriverInd

\* Each of its timers is cancelled.
LEMMA CancelTimerKeeps ==
    ASSUME DpcInd, DriverInd, NEW t \in Timer, CancelTimer(t) PROVE DriverInd'
<1>1. /\ driver.at = "stop" /\ Cancelled(t) /\ TimerLockFree /\ UNCHANGED <<dvars, isr>>
      /\ driver \in DriverRecord /\ driver' = [driver EXCEPT !.on = driver.on \ {t}]
      /\ driver.on \subseteq Timer
    BY DEF CancelTimer, DriverInd, TimerType, Stopped
<1>2. driver' \in DriverRecord /\ driver'.at = "stop" /\ driver'.on = driver.on \ {t}
    BY <1>1, DriverOnHas DEF DriverRecord
<1>3. TimerType' /\ InterruptHolds'
    BY <1>1, <1>2, CancelledIsQuiet DEF DriverInd, TimerType, InterruptHolds
<1>4. ActiveIsHeld'
    BY <1>1, CancelledIsQuiet, QueuesStill DEF DriverInd, ActiveIsHeld
<1>5. Stopped'
  <2>1. \A s \in Timer : Quiet(s) => Quiet(s)'
      BY <1>1, CancelledIsQuiet DEF Quiet
  <2>2. Quiet(t)'
      BY <1>1, CancelledIsQuiet
  <2> QED BY <1>1, <1>2, <2>1, <2>2, QueuesStill DEF DriverInd, Stopped
<1>6. FlushOwned'
    BY <1>1, <1>2, QueuesStill DEF DriverInd, FlushOwned
<1> QED BY <1>3, <1>4, <1>5, <1>6 DEF DriverInd

\* KeRemoveQueueDpc looks.
LEMMA RemoveLooksKeeps ==
    ASSUME DpcInd, DriverInd, NEW d \in Mine, RemoveLooks(d) PROVE DriverInd'
<1>1. /\ driver.at = "stop" /\ driver.on = {} /\ UNCHANGED <<dvars, timer, isr>>
      /\ driver' = [at |-> "remove", on |-> d, cpu |-> queued[d]] /\ queued[d] \in Cpu
    BY KTimerConstants DEF RemoveLooks, DpcInd, DpcType
<1>2. driver' \in DriverRecord /\ driver'.at = "remove" /\ driver'.on = d /\ driver'.cpu = queued[d]
    BY <1>1, DriverOnHas DEF DriverRecord
<1>3. TimerType' /\ InterruptHolds'
    BY <1>1, <1>2 DEF DriverInd, TimerType, InterruptHolds
<1>4. ActiveIsHeld'
    BY <1>1, QueuesStill DEF DriverInd, ActiveIsHeld
<1>5. Stopped'
    BY <1>1, <1>2, QueuesStill DEF DriverInd, Stopped, Quiet
<1>6. FlushOwned'
    BY <1>1, <1>2, QueuesStill DEF DriverInd, FlushOwned
<1> QED BY <1>3, <1>4, <1>5, <1>6 DEF DriverInd

\* And takes it off.
LEMMA RemoveDoneKeeps ==
    ASSUME DpcInd, DriverInd, RemoveDone PROVE DriverInd'
<1>1. /\ driver.at = "remove" /\ UNCHANGED <<timer, isr>> /\ RemoveLocked(driver.on, driver.cpu)
      /\ driver' = [at |-> "stop", on |-> {}, cpu |-> None]
      /\ driver.on \in KDPC /\ driver.cpu \in Cpu
    BY KTimerConstants DEF RemoveDone, DriverInd, Stopped
<1>2. driver' \in DriverRecord /\ driver'.at = "stop" /\ driver'.on = {}
    BY <1>1, DriverOnHas DEF DriverRecord
<1>3. CalmNext
    BY <1>1 DEF CalmNext
<1>4. /\ Mine \subseteq KDPC /\ \A e \in KDPC : Inserting(e)' => Inserting(e)
      /\ flush'.at = "no" <=> flush.at = "no"
    BY <1>3, CalmEffect, KTimerConstants
<1>5. TimerType' /\ InterruptHolds'
    BY <1>1, <1>2 DEF DriverInd, TimerType, InterruptHolds
<1>6. ActiveIsHeld'
    BY <1>1, <1>4, TimerDpcOf DEF DriverInd, ActiveIsHeld
<1>7. Stopped'
    BY <1>1, <1>2, <1>4 DEF DriverInd, Stopped, Quiet
<1>8. FlushOwned'
    BY <1>1, <1>2, <1>4 DEF DriverInd, FlushOwned
<1> QED BY <1>5, <1>6, <1>7, <1>8 DEF DriverInd

\* KeFlushQueuedDpcs is called with the timers quiet: it marks all that is left.
LEMMA FlushKeeps ==
    ASSUME DpcInd, DriverInd, Flush PROVE DriverInd'
<1>1. /\ driver.at = "stop" /\ driver.on = {} /\ UNCHANGED <<timer, isr, ins>> /\ FlushCall
      /\ driver \in DriverRecord /\ driver' = [driver EXCEPT !.at = "flush", !.on = None]
      /\ flush'.at = "dispatch" /\ Mine \subseteq KDPC
    BY KTimerConstants DEF Flush, FlushCall, DriverInd, TimerType
<1>2. driver' \in DriverRecord /\ driver'.at = "flush"
    BY <1>1, DriverOnHas DEF DriverRecord
<1>3. TimerType' /\ InterruptHolds'
    BY <1>1, <1>2 DEF DriverInd, TimerType, InterruptHolds
<1>4. ActiveIsHeld'
    BY <1>1 DEF DriverInd, ActiveIsHeld, Inserting
<1>5. Stopped'
    BY <1>1, <1>2 DEF DriverInd, Stopped, Quiet, Inserting
<1>6. FlushOwned'
    BY <1>1, <1>2, FlushMarks DEF FlushOwned
<1> QED BY <1>3, <1>4, <1>5, <1>6 DEF DriverInd

\* The flush has returned: what it marked is gone.
LEMMA FreeKeeps ==
    ASSUME DpcInd, DriverInd, Free PROVE DriverInd'
<1>1. /\ driver.at = "flush" /\ flush.at = "returned" /\ UNCHANGED <<dvars, timer, isr>>
      /\ driver \in DriverRecord /\ driver' = [driver EXCEPT !.at = "freed"]
    BY DEF Free, DriverInd, TimerType
<1>2. driver' \in DriverRecord /\ driver'.at = "freed"
    BY <1>1, DriverOnHas DEF DriverRecord
<1>3. TimerType' /\ InterruptHolds'
    BY <1>1, <1>2 DEF DriverInd, TimerType, InterruptHolds
<1>4. ActiveIsHeld' /\ Stopped'
    BY <1>1, <1>2, QueuesStill DEF DriverInd, ActiveIsHeld, Stopped, Quiet
<1>5. \A d \in Mine : Gone(d)
  <2>1. /\ old = {} /\ \A x \in Drain : run[x] # None => ~run[x].old
        /\ wrun # None => ~wrun.old
      BY <1>1, DpcIndBars DEF FlushIsBarrier
  <2>2. \A d \in Mine : Marked(d)
      BY <1>1 DEF DriverInd, FlushOwned
  <2> QED BY <2>1, <2>2 DEF Marked, Gone, Running
<1>6. FlushOwned'
    BY <1>1, <1>2, <1>5, QueuesStill DEF DriverInd, FlushOwned
<1> QED BY <1>3, <1>4, <1>6 DEF DriverInd

\* The driver is loaded again.
LEMMA LoadKeeps ==
    ASSUME DpcInd, DriverInd, Load PROVE DriverInd'
<1>1. /\ driver.at = "freed" /\ FlushReset /\ UNCHANGED <<timer, isr, ins>>
      /\ driver \in DriverRecord /\ driver' = [driver EXCEPT !.at = "run"]
      /\ flush'.at = "no"
    BY DEF Load, FlushReset, DriverInd, TimerType, DpcInd, DpcType
<1>2. driver' \in DriverRecord /\ driver'.at = "run"
    BY <1>1, DriverOnHas DEF DriverRecord
<1>3. TimerType' /\ InterruptHolds'
    BY <1>1, <1>2 DEF DriverInd, TimerType, InterruptHolds
<1>4. ActiveIsHeld'
    BY <1>1 DEF DriverInd, ActiveIsHeld, Inserting
<1>5. Stopped'
    BY <1>2 DEF Stopped
<1>6. FlushOwned'
    BY <1>1, <1>2 DEF FlushOwned
<1> QED BY <1>3, <1>4, <1>5, <1>6 DEF DriverInd

-----------------------------------------------------------------------------
(* The theorems *)

\* What both invariants say.
TimerInd == DpcInd /\ DriverInd

\* They hold at first.
LEMMA TimerIndInit == Init => TimerInd
<1> SUFFICES ASSUME Init PROVE TimerInd
    OBVIOUS
<1>1. DpcInd
    BY DpcIndInit DEF Init
<1>2. /\ \A t \in Timer : timer[t] = Idle
      /\ Idle \in TimerRecord /\ ~Idle.linked /\ ~Idle.active
    BY DEF Init, Idle, TimerRecord
<1>3. isr \in IsrRecord /\ isr.at = "no" /\ isr.now = None /\ isr.todo = {}
    BY DEF Init, NoIsr, IsrRecord
<1>4. driver \in DriverRecord /\ driver.at = "run"
    BY DriverOnHas DEF Init, DriverRecord
<1>5. flush.at = "no" /\ \A d \in KDPC : ~Inserting(d)
    BY DEF Init, DpcInit, Inserting, NoInsert
<1>6. TimerType
    BY <1>2, <1>3, <1>4 DEF TimerType, Init
<1>7. InterruptHolds /\ ActiveIsHeld
    BY <1>2, <1>3, <1>5, TimerDpcOf DEF InterruptHolds, ActiveIsHeld
<1>8. Stopped /\ FlushOwned
    BY <1>4, <1>5 DEF Stopped, FlushOwned
<1> QED BY <1>1, <1>6, <1>7, <1>8 DEF TimerInd, DriverInd

\* Whatever step is taken, the DPC queues see one of theirs.
LEMMA StepsOnQueues ==
    ASSUME TimerInd, [Next]_vars PROVE DpcNext \/ UNCHANGED dvars
<1>1. CASE IsrStep
  <2>1. CASE Tick \/ FirePublishes \/ IsrEnds
      BY <2>1 DEF Tick, FirePublishes, IsrEnds
  <2>2. ASSUME NEW t \in Timer, Fire(t) PROVE DpcNext
      BY <2>2, TimerDpcOf, CpuOfDrain DEF Fire, DpcNext
  <2>3. CASE FireInserts
    <3>1. isr.now \in Timer
        BY <2>3 DEF FireInserts, TimerInd, DriverInd, InterruptHolds
    <3> QED BY <2>3, <3>1, TimerDpcOf DEF FireInserts, DpcNext, CalmNext
  <2>4. CASE IsrPops \/ IsrRoutineReturns
      BY <2>4, CpuOfDrain DEF IsrPops, IsrRoutineReturns, DpcNext, CalmNext
  <2> QED BY <1>1, <2>1, <2>2, <2>3, <2>4 DEF IsrStep
<1>2. ASSUME NEW c \in Cpu, Lowers(c) \/ LowersReturns(c) PROVE DpcNext
    BY <1>2, CpuOfDrain DEF Lowers, LowersReturns, DpcNext, CalmNext
<1>3. CASE Works
    BY <1>3 DEF Works, DpcNext, CalmNext
<1>4. ASSUME NEW d \in KDPC, ProduceStep(d) \/ ProduceNested(d) \/ \E c \in Cpu : Produce(d, c) PROVE DpcNext
    BY <1>4 DEF ProduceStep, ProduceNested, Produce, DpcNext, CalmNext
<1>5. CASE DriverStep
  <2>1. ASSUME NEW t \in Timer, SetTimer(t) \/ CancelTimer(t) PROVE UNCHANGED dvars
      BY <2>1 DEF SetTimer, CancelTimer
  <2>2. ASSUME NEW due \in DueIn, NEW period \in Period, Arm(due, period) PROVE UNCHANGED dvars
      BY <2>2 DEF Arm
  <2>3. ASSUME NEW d \in Mine, RemoveLooks(d) PROVE UNCHANGED dvars
      BY <2>3 DEF RemoveLooks
  <2>4. CASE Stop \/ Free
      BY <2>4 DEF Stop, Free
  <2>5. CASE RemoveDone
    <3>1. driver.on \in KDPC /\ driver.cpu \in Cpu
        BY <2>5, KTimerConstants DEF RemoveDone, TimerInd, DriverInd, Stopped
    <3> QED BY <2>5, <3>1 DEF RemoveDone, DpcNext, CalmNext
  <2>6. CASE Flush \/ Flushes \/ Load
      BY <2>6 DEF Flush, Flushes, Load, DpcNext, CalmNext, FlushReset
  <2> QED BY <1>5, <2>1, <2>2, <2>3, <2>4, <2>5, <2>6 DEF DriverStep
<1>6. CASE UNCHANGED vars
    BY <1>6 DEF vars
<1> QED BY <1>1, <1>2, <1>3, <1>4, <1>5, <1>6 DEF Next

\* Every step keeps the invariant of the timers and the driver.
LEMMA DriverIndNext ==
    ASSUME TimerInd, [Next]_vars PROVE DriverInd'
<1> USE DEF TimerInd
<1>1. CASE IsrStep
  <2>1. CASE FireInserts
    <3>1. isr.now \in Timer
        BY <2>1 DEF FireInserts, DriverInd, InterruptHolds
    <3>2. CalmNext /\ UNCHANGED tvars
        BY <2>1, <3>1, TimerDpcOf DEF FireInserts, CalmNext
    <3> QED BY <3>2, CalmKeeps
  <2>2. CASE IsrRoutineReturns
    <3>1. CalmNext /\ UNCHANGED tvars
        BY <2>2, CpuOfDrain DEF IsrRoutineReturns, CalmNext
    <3> QED BY <3>1, CalmKeeps
  <2> QED BY <1>1, <2>1, <2>2, TickKeeps, FireKeeps, FirePublishesKeeps, IsrPopsKeeps, IsrEndsKeeps
          DEF IsrStep
<1>2. ASSUME NEW c \in Cpu, Lowers(c) \/ LowersReturns(c) PROVE DriverInd'
  <2>1. CalmNext /\ UNCHANGED tvars
      BY <1>2, CpuOfDrain DEF Lowers, LowersReturns, CalmNext
  <2> QED BY <2>1, CalmKeeps
<1>3. CASE Works
    BY <1>3, CalmKeeps DEF Works, CalmNext
<1>4. ASSUME NEW d \in KDPC, ProduceStep(d) \/ ProduceNested(d) PROVE DriverInd'
  <2>1. CalmNext /\ UNCHANGED tvars
      BY <1>4 DEF ProduceStep, ProduceNested, CalmNext
  <2> QED BY <2>1, CalmKeeps
<1>5. ASSUME NEW d \in KDPC, NEW c \in Cpu, Produce(d, c) PROVE DriverInd'
    BY <1>5, ProduceKeeps
<1>6. CASE DriverStep
  <2>1. CASE Flushes
      BY <2>1, CalmKeeps DEF Flushes, CalmNext
  <2> QED BY <1>6, <2>1, SetTimerKeeps, CancelTimerKeeps, ArmKeeps, RemoveLooksKeeps, StopKeeps,
             RemoveDoneKeeps, FlushKeeps, FreeKeeps, LoadKeeps DEF DriverStep
<1>7. CASE UNCHANGED vars
    BY <1>7, CalmKeeps DEF vars
<1> QED BY <1>1, <1>2, <1>3, <1>4, <1>5, <1>6, <1>7 DEF Next

\* The two invariants hold throughout.
THEOREM TimersAndQueuesHold == Spec => []TimerInd
<1>1. TimerInd /\ [Next]_vars => TimerInd'
    BY StepsOnQueues, DpcIndNext, DriverIndNext DEF TimerInd
<1> QED BY <1>1, TimerIndInit, PTL DEF Spec

\* Every DPC is on the lists of the processor it says it is queued on, once and
\* nowhere else; none waits for the worker with pending clear; none is lost between
\* an insert and its run; and in_flight counts the routines that run, drains nested
\* under the timer interrupt included: on any number of processors.
THEOREM DpcsAreWhereTheySay == Spec => []DpcInv
<1>1. TimerInd => DpcInv
    BY DpcIndGives DEF TimerInd
<1> QED BY <1>1, TimersAndQueuesHold, PTL

\* KeFlushQueuedDpcs is a barrier: when it returns, nothing that was queued or running
\* at the call is queued or running, although it samples the processors one by one
\* and the worker's count last.
THEOREM FlushBars == Spec => []FlushIsBarrier
<1>1. TimerInd => FlushIsBarrier
    BY DpcIndBars DEF TimerInd
<1> QED BY <1>1, TimersAndQueuesHold, PTL

\* A driver that stops its device, cancels its timers, flushes and then frees its
\* memory leaves nothing behind: no list, no routine and no step of the timer
\* interrupt refers to its timers or DPCs.
THEOREM FreedDriverIsGone == Spec => []NoUseAfterFree
<1>1. TimerInd => NoUseAfterFree
  <2> SUFFICES ASSUME TimerInd, driver.at = "freed"
               PROVE  /\ \A d \in Mine : queued[d] = None /\ ~Running(d) /\ ~Inserting(d)
                      /\ \A t \in Timer : ~timer[t].linked /\ isr.now # t /\ t \notin isr.todo
      BY DEF NoUseAfterFree
  <2>1. \A d \in Mine : queued[d] = None /\ ~Running(d)
      BY DEF TimerInd, DriverInd, FlushOwned, Gone
  <2>2. \A d \in Mine : ~Inserting(d)
      BY NoneInserting DEF TimerInd
  <2>3. \A t \in Timer : ~timer[t].linked /\ isr.now # t /\ t \notin isr.todo
      BY DEF TimerInd, DriverInd, Stopped, Quiet
  <2> QED BY <2>1, <2>2, <2>3
<1> QED BY <1>1, TimersAndQueuesHold, PTL
=============================================================================
