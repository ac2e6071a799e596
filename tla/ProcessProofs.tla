---------------------------- MODULE ProcessProofs ---------------------------
(***************************************************************************)
(* Proofs about Process, for any size of the task table, any priorities,   *)
(* foreground groups and members of the job.                               *)
(***************************************************************************)
EXTENDS Process, WellFoundedInduction, TLAPS

-----------------------------------------------------------------------------
(* The inductive invariant *)

States == {"NONE", "READY", "RUNNING", "WAITING", "DEAD"}

\* Slots are used in order and never given back.
SlotsInOrder == \A p \in Pids : state[p] = "NONE" <=> p >= num_tasks

\* PID 0 can always run, so a switch always has somebody to switch to.
KernelRunnable == state[0] \in {"READY", "RUNNING"}

\* Where a task is in a call fits with what the call has done so far.
Places ==
    /\ 0 \notin thread_dead /\ pc[0] \in {"user", "job"}
    /\ \A p \in Pids : pc[p] = "job" => terminated = p
    /\ \A p \in Pids : pc[p] \in {"look", "mark", "publish", "wait"} => child_pid[p] # p
    /\ \A t \in doomed : state[t] # "NONE"

TaskInd == TypeOK /\ SlotsInOrder /\ KernelRunnable /\ Places /\ OneRunning /\ ReapedIsDead

-----------------------------------------------------------------------------
(* The dispatcher *)

\* A set of naturals that is not empty has a least element.
LEMMA LeastNatural ==
    ASSUME NEW T, T \subseteq Nat, T # {}
    PROVE  \E x \in T : \A y \in T : x <= y
<1> DEFINE R == OpToRel(<, Nat)
<1>1. IsWellFoundedOn(R, Nat)
    BY NatLessThanWellFounded
<1>2. \A x, y \in Nat : x < y => <<x, y>> \in R
    BY DEF OpToRel
<1> HIDE DEF R
<1>3. PICK x \in T : \A y \in T : ~ (<<y, x>> \in R)
    BY <1>1, WFMin
<1>4. ASSUME NEW y \in T PROVE x <= y
  <2>1. x \in Nat /\ y \in Nat
    BY <1>3, Zenon
  <2>2. ~(y < x)
    BY <1>2, <1>3, <2>1, Zenon
  <2> QED BY <2>1, <2>2
<1> QED BY <1>3, <1>4, Zenon

\* A measure on a set of tasks has a least value.
LEMMA LeastTask ==
    ASSUME NEW S, S # {}, NEW f \in [S -> Nat]
    PROVE  \E p \in S : \A q \in S : f[p] <= f[q]
<1> DEFINE T == {f[p] : p \in S}
<1>1. T \subseteq Nat /\ T # {}
    OBVIOUS
<1>2. PICK x \in T : \A y \in T : x <= y
    BY <1>1, LeastNatural
<1> QED BY <1>2

\* The distance from the cursor is a number.
LEMMA DistanceType ==
    ASSUME TypeOK, NEW p \in Pids
    PROVE  Distance(p) \in Nat
  BY ProcessConstants DEF TypeOK, Pids, Distance

\* The scan of find_next_task finds a runnable task when there is one.
LEMMA FindsRunnable ==
    ASSUME TypeOK, NEW s, Runnable(s) # {}
    PROVE  find_next_task(s) \in Runnable(s)
<1> DEFINE S == Runnable(s)
           rank == [p \in S |-> THREAD_PRIO_REALTIME - Priority[p]]
<1>1. S \subseteq Pids /\ S # {}
    BY DEF Runnable
<1>2. \A p \in S : Priority[p] \in 0 .. THREAD_PRIO_REALTIME
    BY <1>1, ProcessConstants, Zenon
<1>3. rank \in [S -> Nat]
    BY <1>2 DEF THREAD_PRIO_REALTIME
<1> HIDE DEF S
<1>4. PICK b \in S : \A q \in S : rank[b] <= rank[q]
    BY <1>1, <1>3, LeastTask
<1>5. \A q \in S : Priority[b] >= Priority[q]
    BY <1>2, <1>4 DEF THREAD_PRIO_REALTIME
<1> DEFINE B == {p \in S : Priority[p] = Priority[b]}
           far == [p \in B |-> Distance(p)]
<1>6. far \in [B -> Nat] /\ B # {}
    BY <1>1, DistanceType
<1> HIDE DEF B
<1>7. PICK p \in B : \A q \in B : far[p] <= far[q]
    BY <1>6, LeastTask
<1>8. \A q \in B : Distance(p) <= Distance(q)
    BY <1>7
<1>9. p \in S /\ \A q \in S : \/ Priority[p] > Priority[q]
                              \/ Priority[p] = Priority[q] /\ Distance(p) <= Distance(q)
    BY <1>2, <1>5, <1>7, <1>8 DEF B
<1> QED BY <1>1, <1>9 DEF find_next_task, S

\* A switch from task states s: the cursor moves to a runnable task, and no other is
\* running; the dead, the waiting and the unused are left as they are.
LEMMA SwitchMoves ==
    ASSUME TypeOK, NEW s \in [Pids -> States], s[0] \in {"READY", "RUNNING"}, 0 \notin thread_dead,
           \A p \in Pids : s[p] = "RUNNING" => p = current_task,
           Switch(s)
    PROVE  /\ state' \in [Pids -> States] /\ current_task' \in Pids
           /\ \A p \in Pids : state'[p] = "RUNNING" => p = current_task'
           /\ state'[current_task'] \in {"READY", "RUNNING"}
           /\ \A p \in Pids : s[p] \in {"NONE", "DEAD", "WAITING"} \/ state'[p] \in {"NONE", "DEAD", "WAITING"}
                                => state'[p] = s[p]
<1>1. 0 \in Pids /\ current_task \in Pids
    BY ProcessConstants DEF Pids, TypeOK
<1>2. Runnable(s) # {}
    BY <1>1 DEF Runnable
<1> DEFINE n == find_next_task(s)
<1>3. n \in Pids /\ s[n] \in {"READY", "RUNNING"}
    BY <1>2, FindsRunnable DEF Runnable
<1>4. /\ current_task' = n
      /\ state' = IF n = current_task THEN s
                  ELSE [p \in Pids |-> IF p = n THEN "RUNNING"
                                       ELSE IF p = current_task /\ s[p] = "RUNNING" THEN "READY"
                                       ELSE s[p]]
    BY DEF Switch
<1> HIDE DEF n
<1>5. CASE n = current_task
    BY <1>1, <1>3, <1>4, <1>5
<1>6. CASE n # current_task
    BY <1>1, <1>3, <1>4, <1>6 DEF States
<1> QED BY <1>5, <1>6

-----------------------------------------------------------------------------
(* Steps *)

\* A dead task that calls task_waitpid: it has terminated its own job.
Rises(p) == SelfTerminated(p) /\ p = current_task /\ pc[p] = "look"

\* The dead stay dead but for that.
DeadKept == \A p \in Pids : state[p] = "DEAD" => state'[p] = "DEAD" \/ Rises(p)

\* The fields that only their own types are claimed of.
FieldsType ==
    /\ thread_dead \subseteq Pids
    /\ parent_pid \in [Pids -> Pids]
    /\ wait_pid \in [Pids -> Pids \cup {-1}]
    /\ pc \in [Pids -> {"user", "exit", "return", "dead", "scan", "job", "look", "mark", "publish",
                        "wait"}]
    /\ child_pid \in [Pids -> Pids]
    /\ terminated \in Pids \cup {-1}
    /\ doomed \subseteq JobMembers
    /\ woken_early \in BOOLEAN
    /\ signalled \subseteq Pids /\ late \subseteq Pids

\* What the dispatcher and the table need of the states s that a step leaves.
Leaves(s) ==
    /\ s \in [Pids -> States]
    /\ s[0] \in {"READY", "RUNNING"}
    /\ \A p \in Pids : s[p] = "NONE" <=> state[p] = "NONE"
    /\ \A p \in Pids : state[p] = "DEAD" => s[p] = "DEAD" \/ Rises(p)
    /\ \A p \in Pids : s[p] = "RUNNING" => p = current_task

\* A step that ends in a switch.
LEMMA StepSwitches ==
    ASSUME TaskInd, NEW s, Leaves(s), Switch(s),
           UNCHANGED <<thread_dead, num_tasks, reaped, doomed, terminated, child_pid>>,
           FieldsType', \A p \in Pids : pc'[p] = pc[p] \/ (pc[p] = "publish" /\ pc'[p] = "wait")
    PROVE  TaskInd' /\ DeadKept
<1>1. /\ TypeOK /\ s \in [Pids -> States] /\ s[0] \in {"READY", "RUNNING"} /\ 0 \in Pids
      /\ 0 \notin thread_dead /\ \A p \in Pids : s[p] = "RUNNING" => p = current_task
    BY ProcessConstants DEF Leaves, TaskInd, Places, Pids
<1>2. /\ state' \in [Pids -> States] /\ current_task' \in Pids
      /\ \A p \in Pids : state'[p] = "RUNNING" => p = current_task'
      /\ state'[current_task'] \in {"READY", "RUNNING"}
      /\ \A p \in Pids : s[p] \in {"NONE", "DEAD", "WAITING"} \/ state'[p] \in {"NONE", "DEAD", "WAITING"}
                            => state'[p] = s[p]
    BY <1>1, SwitchMoves
<1>3. DeadKept
    BY <1>2 DEF DeadKept, Leaves
<1>4. TypeOK'
    BY <1>1, <1>2 DEF TypeOK, FieldsType, States
<1>5. SlotsInOrder'
    BY <1>2 DEF SlotsInOrder, Leaves, TaskInd
<1>6. KernelRunnable'
    BY <1>1, <1>2 DEF KernelRunnable, States
<1>7. ReapedIsDead'
  <2> SUFFICES ASSUME NEW p \in reaped PROVE state'[p] = "DEAD" /\ p # current_task'
    BY DEF ReapedIsDead
  <2>1. p \in Pids /\ state[p] = "DEAD" /\ p # current_task
    BY <1>1 DEF TaskInd, ReapedIsDead, TypeOK
  <2>2. state'[p] = "DEAD"
    BY <1>3, <2>1 DEF DeadKept, Rises
  <2> QED BY <1>2, <2>2
<1>8. Places'
  <2>1. \A t \in doomed : t \in Pids /\ state'[t] # "NONE"
    BY <1>1, <1>2, ProcessConstants DEF TaskInd, Places, Leaves, TypeOK
  <2>2. pc'[0] \in {"user", "job"}
    BY <1>1 DEF TaskInd, Places
  <2>3. \A p \in Pids : pc'[p] = "job" => pc[p] = "job"
    OBVIOUS
  <2>4. \A p \in Pids : pc'[p] \in {"look", "mark", "publish", "wait"} => pc[p] \in {"look", "mark", "publish", "wait"}
    OBVIOUS
  <2> QED BY <2>1, <2>2, <2>3, <2>4 DEF TaskInd, Places
<1> QED BY <1>2, <1>3, <1>4, <1>5, <1>6, <1>7, <1>8 DEF TaskInd, OneRunning

\* A step that leaves the cursor where it is.
LEMMA StepStays ==
    ASSUME TaskInd, Leaves(state'), current_task' = current_task, num_tasks' = num_tasks,
           FieldsType', Places', OneRunning',
           reaped' \subseteq Pids,
           \A p \in reaped' \ reaped : state'[p] = "DEAD" /\ p # current_task
    PROVE  TaskInd' /\ DeadKept
<1>1. DeadKept
    BY DEF DeadKept, Leaves
<1>2. TypeOK'
    BY DEF TypeOK, FieldsType, States, Leaves, TaskInd
<1>3. SlotsInOrder' /\ KernelRunnable'
    BY DEF SlotsInOrder, KernelRunnable, Leaves, TaskInd
<1>4. ReapedIsDead'
  <2> SUFFICES ASSUME NEW p \in reaped' PROVE state'[p] = "DEAD" /\ p # current_task
    BY DEF ReapedIsDead
  <2>1. CASE p \in reaped
    <3>1. p \in Pids /\ state[p] = "DEAD" /\ p # current_task
      BY <2>1 DEF TaskInd, ReapedIsDead, TypeOK
    <3> QED BY <1>1, <3>1 DEF DeadKept, Rises
  <2>2. CASE p \notin reaped
    BY <2>2
  <2> QED BY <2>1, <2>2
<1> QED BY <1>1, <1>2, <1>3, <1>4 DEF TaskInd

\* What holds between steps of the states themselves.
LEMMA StatesStand ==
    ASSUME TaskInd
    PROVE  /\ Leaves(state) /\ FieldsType /\ 0 \in Pids /\ current_task \in Pids
           /\ state \in [Pids -> States] /\ reaped \subseteq Pids
           /\ OneRunning /\ Places /\ current_task # -1
<1>1. FieldsType /\ current_task \in Pids /\ state \in [Pids -> States] /\ reaped \subseteq Pids
    BY DEF TaskInd, TypeOK, FieldsType, States
<1>2. 0 \in Pids /\ current_task # -1
    BY <1>1, ProcessConstants DEF Pids
<1>3. OneRunning /\ Places
    BY DEF TaskInd
<1>4. Leaves(state)
    BY <1>1, <1>3 DEF TaskInd, Leaves, KernelRunnable, OneRunning
<1> QED BY <1>1, <1>2, <1>3, <1>4

LEMMA PreemptKeeps ==
    ASSUME TaskInd, Preempt PROVE TaskInd' /\ DeadKept
<1>1. /\ FieldsType' /\ Switch(state) /\ \A p \in Pids : pc'[p] = pc[p]
      /\ UNCHANGED <<thread_dead, num_tasks, reaped, doomed, terminated, child_pid>>
    BY StatesStand DEF Preempt, FieldsType
<1> QED BY <1>1, StatesStand, StepSwitches

\* Waking touches waiting tasks only.
LEMMA WakeLeaves ==
    ASSUME NEW s \in [Pids -> States], NEW targets
    PROVE  /\ WakeAll(s, targets) \in [Pids -> States]
           /\ \A p \in Pids : s[p] # "WAITING" => WakeAll(s, targets)[p] = s[p]
           /\ \A p \in Pids : s[p] = "WAITING" => WakeAll(s, targets)[p] \in {"WAITING", "READY"}
  BY DEF WakeAll, States

\* A wake-up that leaves the cursor where it is.
LEMMA WakeStays ==
    ASSUME TaskInd, NEW targets, state' = WakeAll(state, targets),
           UNCHANGED <<thread_dead, current_task, num_tasks, child_pid, terminated, doomed, reaped>>,
           FieldsType', \A p \in Pids : pc'[p] = pc[p] \/ (pc[p] = "dead" /\ pc'[p] = "scan")
    PROVE  TaskInd' /\ DeadKept
<1>1. /\ state' \in [Pids -> States]
      /\ \A p \in Pids : state[p] # "WAITING" => state'[p] = state[p]
      /\ \A p \in Pids : state[p] = "WAITING" => state'[p] \in {"WAITING", "READY"}
    BY StatesStand, WakeLeaves
<1>2. Leaves(state')
    BY <1>1, StatesStand DEF Leaves
<1>3. Places'
  <2>1. \A p \in Pids : pc'[p] = "job" => pc[p] = "job"
    OBVIOUS
  <2>2. \A p \in Pids : pc'[p] \in {"look", "mark", "publish", "wait"} => pc[p] \in {"look", "mark", "publish", "wait"}
    OBVIOUS
  <2>3. \A t \in doomed : state'[t] # "NONE"
    BY <1>1, StatesStand, ProcessConstants DEF Places, FieldsType
  <2>4. pc'[0] \in {"user", "job"}
    BY StatesStand DEF Places
  <2> QED BY <2>1, <2>2, <2>3, <2>4, StatesStand DEF Places
<1>4. OneRunning'
  <2>1. \A p \in Pids : state'[p] = "RUNNING" => p = current_task
    BY <1>1, StatesStand DEF OneRunning
  <2>2. current_task \in Pids /\ (pc'[current_task] = pc[current_task] \/ (pc[current_task] = "dead" /\ pc'[current_task] = "scan"))
    BY StatesStand
  <2> QED BY <1>1, <2>1, <2>2, StatesStand DEF OneRunning, SelfTerminated
<1> QED BY <1>2, <1>3, <1>4, StatesStand, StepStays

LEMMA CtrlCKeeps ==
    ASSUME TaskInd, NEW g \in Groups, signal_ctrl_c(g) PROVE TaskInd' /\ DeadKept
<1> DEFINE targets == Signalled(state, g)
<1>1. /\ FieldsType' /\ state' = WakeAll(state, targets) /\ \A p \in Pids : pc'[p] = pc[p]
      /\ UNCHANGED <<thread_dead, current_task, num_tasks, child_pid, terminated, doomed, reaped>>
    BY StatesStand DEF signal_ctrl_c, FieldsType
<1> HIDE DEF targets
<1> QED BY <1>1, WakeStays

LEMMA ForkKeeps ==
    ASSUME TaskInd, NEW p \in Pids, task_fork(p) PROVE TaskInd' /\ DeadKept
<1>1. /\ num_tasks \in Pids /\ state[num_tasks] = "NONE" /\ num_tasks' = num_tasks + 1 /\ num_tasks' \in 1 .. TASK_MAX
      /\ state \in [Pids -> States] /\ num_tasks \in Nat
    BY ProcessConstants DEF task_fork, TaskInd, TypeOK, SlotsInOrder, Pids, States
<1>2. /\ state' = [state EXCEPT ![num_tasks] = "READY"]
      /\ UNCHANGED <<thread_dead, current_task, wait_pid, pc, child_pid, terminated, doomed, reaped,
                     woken_early, signalled, late>>
    BY DEF task_fork
<1>3. FieldsType'
    BY <1>1, <1>2, StatesStand DEF FieldsType, task_fork
<1>4. TypeOK'
    BY <1>1, <1>2, <1>3, StatesStand DEF TypeOK, FieldsType, States, TaskInd
<1>5. SlotsInOrder'
  <2> SUFFICES ASSUME NEW q \in Pids PROVE state'[q] = "NONE" <=> q >= num_tasks + 1
    BY <1>1 DEF SlotsInOrder
  <2>1. q \in Int
    BY ProcessConstants DEF Pids
  <2> QED BY <1>1, <1>2, <2>1 DEF TaskInd, SlotsInOrder
<1>6. \A q \in Pids : state[q] # "NONE" => state'[q] = state[q]
    BY <1>1, <1>2
<1>7. OneRunning' /\ KernelRunnable'
    BY <1>1, <1>2, <1>6, StatesStand DEF OneRunning, SelfTerminated, KernelRunnable, TaskInd
<1>8. Places'
    BY <1>2, <1>6, StatesStand, ProcessConstants DEF Places, FieldsType
<1>9. DeadKept /\ ReapedIsDead'
    BY <1>1, <1>2, <1>6 DEF DeadKept, ReapedIsDead, TaskInd, TypeOK
<1> QED BY <1>4, <1>5, <1>7, <1>8, <1>9 DEF TaskInd

\* A step of the executing task that changes no state of a task.
LEMMA StateKept ==
    ASSUME TaskInd, NEW p \in Pids, p = current_task, NEW l, pc' = [pc EXCEPT ![p] = l],
           UNCHANGED <<state, current_task, num_tasks>>, FieldsType', Places',
           reaped' \subseteq Pids,
           \A q \in reaped' \ reaped : state[q] = "DEAD" /\ q # current_task,
           state[p] = "WAITING" => l \in {"mark", "publish"},
           state[p] = "DEAD" => SelfTerminated(p)'
    PROVE  TaskInd' /\ DeadKept
<1>1. pc'[p] = l
    BY StatesStand DEF FieldsType
<1>2. OneRunning'
    BY <1>1, StatesStand DEF OneRunning
<1> QED BY <1>2, StatesStand, StepStays

LEMMA DiesKeeps ==
    ASSUME TaskInd, NEW p \in Pids, NEW l \in {"exit", "return"}, Dies(p, l) PROVE TaskInd' /\ DeadKept
<1>1. /\ p = current_task /\ pc[p] = "user" /\ p # 0 /\ thread_dead' = thread_dead \cup {p}
      /\ pc' = [pc EXCEPT ![p] = l]
      /\ UNCHANGED <<state, current_task, num_tasks, parent_pid, wait_pid, child_pid, terminated,
                     doomed, reaped, woken_early, signalled, late>>
    BY DEF Dies, At, Goto
<1>2. FieldsType'
    BY <1>1, StatesStand DEF FieldsType
<1>3. Places'
    BY <1>1, StatesStand DEF Places, FieldsType
<1>4. (state[p] = "WAITING" => l \in {"mark", "publish"}) /\ (state[p] = "DEAD" => SelfTerminated(p)')
    BY <1>1, StatesStand DEF OneRunning, SelfTerminated
<1> QED BY <1>1, <1>2, <1>3, <1>4, StatesStand, StateKept

\* The store of DEAD into some task but PID 0, by the executing task p.
LEMMA DeathStays ==
    ASSUME TaskInd, NEW p \in Pids, p = current_task, NEW t \in Pids, t # 0, state[t] # "NONE",
           state' = [state EXCEPT ![t] = "DEAD"], UNCHANGED <<current_task, num_tasks, reaped, terminated>>,
           FieldsType', Places', pc'[p] = pc[p] \/ (pc[p] = "exit" /\ pc'[p] = "dead"),
           t = p => pc'[p] = "dead" \/ SelfTerminated(p)
    PROVE  TaskInd' /\ DeadKept
<1>1. Leaves(state')
    BY StatesStand DEF Leaves, States
<1>2. OneRunning'
  <2>1. \A q \in Pids : state'[q] = "RUNNING" => q = current_task
    BY StatesStand DEF OneRunning
  <2>2. CASE t = p
    BY <2>1, <2>2, StatesStand DEF OneRunning, SelfTerminated
  <2>3. CASE t # p
    BY <2>1, <2>3, StatesStand DEF OneRunning, SelfTerminated
  <2> QED BY <2>2, <2>3
<1> QED BY <1>1, <1>2, StatesStand, StepStays

LEMMA ExitDeadKeeps ==
    ASSUME TaskInd, NEW p \in Pids, ExitDead(p) PROVE TaskInd' /\ DeadKept
<1>1. /\ p = current_task /\ pc[p] = "exit" /\ state' = [state EXCEPT ![p] = "DEAD"]
      /\ pc' = [pc EXCEPT ![p] = "dead"]
      /\ UNCHANGED <<thread_dead, current_task, num_tasks, parent_pid, wait_pid, child_pid,
                     terminated, doomed, reaped, woken_early, signalled, late>>
    BY DEF ExitDead, At, Goto
<1>2. FieldsType' /\ pc'[p] = "dead"
    BY <1>1, StatesStand DEF FieldsType
<1>3. p # 0 /\ state[p] # "NONE"
    BY <1>1, StatesStand DEF Places, OneRunning
<1>4. Places'
    BY <1>1, <1>3, StatesStand, ProcessConstants DEF Places, FieldsType
<1> QED BY <1>1, <1>2, <1>3, <1>4, DeathStays

LEMMA ExitSignalsKeeps ==
    ASSUME TaskInd, NEW p \in Pids, ExitSignals(p) PROVE TaskInd' /\ DeadKept
<1>1. /\ p = current_task /\ pc[p] = "dead" /\ pc' = [pc EXCEPT ![p] = "scan"]
      /\ state' = WakeAll(state, Signalled(state, {parent_pid[p]})) /\ signalled' = signalled \cup {p}
      /\ UNCHANGED <<thread_dead, current_task, num_tasks, parent_pid, wait_pid, child_pid,
                     terminated, doomed, reaped, woken_early, late>>
    BY DEF ExitSignals, At, Goto
<1>2. FieldsType'
    BY <1>1, StatesStand DEF FieldsType
<1>3. \A q \in Pids : pc'[q] = pc[q] \/ (pc[q] = "dead" /\ pc'[q] = "scan")
    BY <1>1, StatesStand DEF FieldsType
<1> QED BY <1>1, <1>2, <1>3, WakeStays

LEMMA ExitScanKeeps ==
    ASSUME TaskInd, NEW p \in Pids, ExitScan(p) PROVE TaskInd' /\ DeadKept
<1> DEFINE waiters == {q \in Pids : state[q] = "WAITING" /\ wait_pid[q] = p}
           first   == {q \in waiters : \A r \in waiters : q <= r}
           woken   == WakeAll(state, first)
<1>1. /\ Switch(woken) /\ wait_pid' = [q \in Pids |-> IF q \in first THEN -1 ELSE wait_pid[q]]
      /\ UNCHANGED <<thread_dead, num_tasks, parent_pid, pc, child_pid, terminated, doomed, reaped,
                     woken_early, signalled, late>>
    BY DEF ExitScan
<1> HIDE DEF first
<1>2. FieldsType'
    BY <1>1, StatesStand DEF FieldsType
<1>3. /\ woken \in [Pids -> States]
      /\ \A q \in Pids : state[q] # "WAITING" => woken[q] = state[q]
      /\ \A q \in Pids : state[q] = "WAITING" => woken[q] \in {"WAITING", "READY"}
    BY StatesStand, WakeLeaves
<1> HIDE DEF woken
<1>4. Leaves(woken)
    BY <1>3, StatesStand DEF Leaves
<1>5. \A q \in Pids : pc'[q] = pc[q]
    BY <1>1
<1> QED BY <1>1, <1>2, <1>4, <1>5, StepSwitches

LEMMA WrapperDeadKeeps ==
    ASSUME TaskInd, NEW p \in Pids, WrapperDead(p) PROVE TaskInd' /\ DeadKept
<1> DEFINE dead == [state EXCEPT ![p] = "DEAD"]
<1>1. /\ p = current_task /\ pc[p] = "return" /\ Switch(dead)
      /\ UNCHANGED <<thread_dead, num_tasks, parent_pid, wait_pid, pc, child_pid, terminated,
                     doomed, reaped, woken_early, signalled, late>>
    BY DEF WrapperDead, At
<1>2. FieldsType'
    BY <1>1, StatesStand DEF FieldsType
<1>3. p # 0 /\ state[p] # "NONE"
    BY <1>1, StatesStand DEF Places, OneRunning
<1>4. Leaves(dead)
    BY <1>3, StatesStand DEF Leaves, States
<1> HIDE DEF dead
<1>5. \A q \in Pids : pc'[q] = pc[q]
    BY <1>1
<1> QED BY <1>1, <1>2, <1>4, <1>5, StepSwitches

LEMMA KillKeeps ==
    ASSUME TaskInd, NEW p \in Pids, NEW t \in Pids, Kill(p, t) PROVE TaskInd' /\ DeadKept
<1>1. /\ p = current_task /\ t # 0 /\ t # p /\ state[t] # "NONE" /\ state' = [state EXCEPT ![t] = "DEAD"]
      /\ UNCHANGED <<thread_dead, current_task, num_tasks, parent_pid, wait_pid, pc, child_pid,
                     terminated, doomed, reaped, woken_early, signalled, late>>
    BY DEF Kill, At, Live, task_terminate_remote
<1>2. FieldsType'
    BY <1>1, StatesStand DEF FieldsType
<1>3. Places'
    BY <1>1, StatesStand, ProcessConstants DEF Places, FieldsType
<1>4. pc'[p] = pc[p]
    BY <1>1
<1> QED BY <1>1, <1>2, <1>3, <1>4, DeathStays

LEMMA JobKeeps ==
    ASSUME TaskInd, NEW p \in Pids, ob_job_terminate(p) PROVE TaskInd' /\ DeadKept
<1>1. /\ p = current_task /\ pc[p] = "user" /\ terminated = -1 /\ terminated' = p
      /\ doomed' = JobMembers \cap Live(state) /\ pc' = [pc EXCEPT ![p] = "job"]
      /\ UNCHANGED <<state, thread_dead, current_task, num_tasks, parent_pid, wait_pid, child_pid,
                     reaped, woken_early, signalled, late>>
    BY DEF ob_job_terminate, At, Goto
<1>2. FieldsType'
    BY <1>1, StatesStand DEF FieldsType
<1>3. \A q \in Pids : q # -1
    BY ProcessConstants DEF Pids
<1>4. Places'
    BY <1>1, <1>3, StatesStand DEF Places, FieldsType, Live
<1>5. state[p] \in {"READY", "RUNNING"}
    BY <1>1, <1>3, StatesStand DEF OneRunning, SelfTerminated
<1> QED BY <1>1, <1>2, <1>4, <1>5, StatesStand, StateKept

LEMMA JobKillsKeeps ==
    ASSUME TaskInd, NEW p \in Pids, NEW t \in Pids, JobKills(p, t) PROVE TaskInd' /\ DeadKept
<1>1. /\ p = current_task /\ pc[p] = "job" /\ t \in doomed /\ doomed' = doomed \ {t}
      /\ state' = [state EXCEPT ![t] = "DEAD"]
      /\ UNCHANGED <<thread_dead, current_task, num_tasks, parent_pid, wait_pid, pc, child_pid,
                     terminated, reaped, woken_early, signalled, late>>
    BY DEF JobKills, At, task_terminate_remote
<1>2. FieldsType'
    BY <1>1, StatesStand DEF FieldsType
<1>3. t \in JobMembers /\ t # 0 /\ state[t] # "NONE"
    BY <1>1, StatesStand, ProcessConstants DEF Places, FieldsType
<1>4. Places'
    BY <1>1, StatesStand, ProcessConstants DEF Places, FieldsType
<1>5. t = p => SelfTerminated(p)
    BY <1>1, <1>3, StatesStand DEF Places, SelfTerminated
<1>6. pc'[p] = pc[p]
    BY <1>1
<1> QED BY <1>1, <1>2, <1>3, <1>4, <1>5, <1>6, DeathStays

LEMMA JobReturnsKeeps ==
    ASSUME TaskInd, NEW p \in Pids, JobReturns(p) PROVE TaskInd' /\ DeadKept
<1>1. /\ p = current_task /\ pc[p] = "job" /\ pc' = [pc EXCEPT ![p] = "user"]
      /\ UNCHANGED <<state, thread_dead, current_task, num_tasks, parent_pid, wait_pid, child_pid,
                     terminated, doomed, reaped, woken_early, signalled, late>>
    BY DEF JobReturns, At, Goto
<1>2. FieldsType' /\ Places'
    BY <1>1, StatesStand DEF FieldsType, Places
<1>3. state[p] # "WAITING" /\ (state[p] = "DEAD" => SelfTerminated(p)')
    BY <1>1, StatesStand DEF OneRunning, SelfTerminated
<1> QED BY <1>1, <1>2, <1>3, StatesStand, StateKept

LEMMA WaitDeadKeeps ==
    ASSUME TaskInd, NEW p \in Pids, NEW c \in Pids, WaitDead(p, c) PROVE TaskInd' /\ DeadKept
<1>1. /\ p = current_task /\ c # p /\ state[c] = "DEAD" /\ reaped' = reaped \cup {c}
      /\ UNCHANGED <<state, thread_dead, current_task, num_tasks, parent_pid, wait_pid, pc, child_pid,
                     terminated, doomed, woken_early, signalled, late>>
    BY DEF WaitDead, task_cleanup, At, IsChild
<1>2. FieldsType' /\ Places' /\ OneRunning' /\ Leaves(state')
    BY <1>1, StatesStand DEF FieldsType, Places, OneRunning, SelfTerminated, Leaves
<1>3. reaped' \subseteq Pids /\ \A q \in reaped' \ reaped : state'[q] = "DEAD" /\ q # current_task
    BY <1>1, StatesStand
<1> QED BY <1>1, <1>2, <1>3, StepStays

LEMMA WaitLookKeeps ==
    ASSUME TaskInd, NEW p \in Pids, NEW c \in Pids, WaitLook(p, c) PROVE TaskInd' /\ DeadKept
<1>1. /\ p = current_task /\ pc[p] = "user" /\ p # 0 /\ c # p
      /\ child_pid' = [child_pid EXCEPT ![p] = c] /\ pc' = [pc EXCEPT ![p] = "look"]
      /\ UNCHANGED <<state, thread_dead, current_task, num_tasks, parent_pid, wait_pid, terminated,
                     doomed, reaped, woken_early, signalled, late>>
    BY DEF WaitLook, At, Goto, IsChild
<1>2. FieldsType' /\ Places'
    BY <1>1, StatesStand DEF FieldsType, Places
<1>3. state[p] # "WAITING" /\ (state[p] = "DEAD" => SelfTerminated(p)')
    BY <1>1, StatesStand DEF OneRunning, SelfTerminated
<1> QED BY <1>1, <1>2, <1>3, StatesStand, StateKept

LEMMA WaitMarkKeeps ==
    ASSUME TaskInd, NEW p \in Pids, WaitMark(p) PROVE TaskInd' /\ DeadKept
<1>1. /\ p = current_task /\ pc[p] = "look" /\ state' = [state EXCEPT ![p] = "WAITING"]
      /\ late' \subseteq late \cup {p} /\ pc' = [pc EXCEPT ![p] = "mark"]
      /\ UNCHANGED <<thread_dead, current_task, num_tasks, parent_pid, wait_pid, child_pid,
                     terminated, doomed, reaped, woken_early, signalled>>
    BY DEF WaitMark, At, Goto
<1>2. FieldsType' /\ pc'[p] = "mark"
    BY <1>1, StatesStand DEF FieldsType
<1>3. p # 0 /\ state[p] # "NONE" /\ (state[p] = "DEAD" => Rises(p))
    BY <1>1, StatesStand DEF Places, OneRunning, Rises
<1>4. Places'
    BY <1>1, <1>3, StatesStand, ProcessConstants DEF Places, FieldsType
<1>5. Leaves(state')
    BY <1>1, <1>3, StatesStand DEF Leaves, States
<1>6. OneRunning'
    BY <1>1, <1>2, <1>5, StatesStand DEF OneRunning, Leaves
<1> QED BY <1>1, <1>2, <1>4, <1>5, <1>6, StatesStand, StepStays

LEMMA WaitPublishKeeps ==
    ASSUME TaskInd, NEW p \in Pids, WaitPublish(p) PROVE TaskInd' /\ DeadKept
<1>1. /\ p = current_task /\ pc[p] = "mark" /\ pc' = [pc EXCEPT ![p] = "publish"]
      /\ wait_pid' = [wait_pid EXCEPT ![p] = child_pid[p]]
      /\ UNCHANGED <<state, thread_dead, current_task, num_tasks, parent_pid, child_pid, terminated,
                     doomed, reaped, woken_early, signalled, late>>
    BY DEF WaitPublish, At, Goto
<1>2. FieldsType' /\ Places'
    BY <1>1, StatesStand DEF FieldsType, Places
<1>3. state[p] = "DEAD" => SelfTerminated(p)'
    BY <1>1, StatesStand DEF OneRunning, SelfTerminated
<1> QED BY <1>1, <1>2, <1>3, StatesStand, StateKept

LEMMA WaitYieldKeeps ==
    ASSUME TaskInd, NEW p \in Pids, WaitYield(p) PROVE TaskInd' /\ DeadKept
<1>1. /\ pc[p] = "publish" /\ pc' = [pc EXCEPT ![p] = "wait"] /\ Switch(state)
      /\ UNCHANGED <<thread_dead, num_tasks, parent_pid, wait_pid, child_pid, terminated, doomed,
                     reaped, woken_early, signalled, late>>
    BY DEF WaitYield, At, Goto
<1>2. FieldsType'
    BY <1>1, StatesStand DEF FieldsType
<1>3. \A q \in Pids : pc'[q] = pc[q] \/ (pc[q] = "publish" /\ pc'[q] = "wait")
    BY <1>1, StatesStand DEF FieldsType
<1> QED BY <1>1, <1>2, <1>3, StatesStand, StepSwitches

LEMMA WaitResumeKeeps ==
    ASSUME TaskInd, NEW p \in Pids, WaitResume(p) PROVE TaskInd' /\ DeadKept
<1>1. /\ p = current_task /\ pc[p] = "wait" /\ pc' = [pc EXCEPT ![p] = "user"]
      /\ reaped' = (IF state[child_pid[p]] = "DEAD" THEN reaped \cup {child_pid[p]} ELSE reaped)
      /\ woken_early' = (woken_early \/ state[child_pid[p]] # "DEAD")
      /\ child_pid' = [child_pid EXCEPT ![p] = 0] /\ late' = late \ {p}
      /\ UNCHANGED <<state, thread_dead, current_task, num_tasks, parent_pid, wait_pid, terminated,
                     doomed, signalled>>
    BY DEF WaitResume, task_cleanup, At, Goto
<1>2. FieldsType' /\ Places'
    BY <1>1, StatesStand DEF FieldsType, Places
<1>3. child_pid[p] \in Pids /\ child_pid[p] # p
    BY <1>1, StatesStand DEF FieldsType, Places
<1>4. reaped' \subseteq Pids /\ \A q \in reaped' \ reaped : state[q] = "DEAD" /\ q # current_task
    BY <1>1, <1>3, StatesStand
<1>5. state[p] # "WAITING" /\ (state[p] = "DEAD" => SelfTerminated(p)')
    BY <1>1, StatesStand DEF OneRunning, SelfTerminated
<1> QED BY <1>1, <1>2, <1>4, <1>5, StatesStand, StateKept

-----------------------------------------------------------------------------
(* Theorems *)

LEMMA TaskIndInit == Init => TaskInd
<1> SUFFICES ASSUME Init PROVE TaskInd
    OBVIOUS
<1>1. 0 \in Pids /\ \A p \in Pids : p \in Int /\ p >= 0
    BY ProcessConstants DEF Pids
<1>2. TypeOK
  <2>1. FieldsType
    BY <1>1 DEF Init, FieldsType
  <2>2. num_tasks \in 1 .. TASK_MAX /\ current_task \in Pids /\ reaped \subseteq Pids
    BY <1>1, ProcessConstants DEF Init
  <2>3. state \in [Pids -> States]
    BY DEF Init, States
  <2> QED BY <2>1, <2>2, <2>3 DEF TypeOK, FieldsType, States
<1>3. SlotsInOrder /\ KernelRunnable /\ Places /\ OneRunning /\ ReapedIsDead
    BY <1>1 DEF Init, SlotsInOrder, KernelRunnable, Places, OneRunning, ReapedIsDead
<1> QED BY <1>2, <1>3 DEF TaskInd

LEMMA TaskIndNext ==
    ASSUME TaskInd, [Next]_vars PROVE TaskInd' /\ DeadKept
<1>1. CASE UNCHANGED vars
  <2>1. FieldsType' /\ Places' /\ OneRunning' /\ reaped' \subseteq Pids /\ state' = state
    BY <1>1, StatesStand DEF FieldsType, Places, OneRunning, SelfTerminated, vars
  <2> QED BY <1>1, <2>1, StatesStand, StepStays DEF vars
<1>2. ASSUME NEW p \in Pids, Call(p) PROVE TaskInd' /\ DeadKept
    BY <1>2, ForkKeeps, DiesKeeps, JobKeeps, KillKeeps, WaitDeadKeeps, WaitLookKeeps
       DEF Call, task_exit, task_wrapper
<1>3. ASSUME NEW p \in Pids, Continue(p) PROVE TaskInd' /\ DeadKept
    BY <1>3, ExitDeadKeeps, ExitSignalsKeeps, ExitScanKeeps, WrapperDeadKeeps, JobKillsKeeps, JobReturnsKeeps,
       WaitMarkKeeps, WaitPublishKeeps, WaitYieldKeeps, WaitResumeKeeps DEF Continue
<1> QED BY <1>1, <1>2, <1>3, PreemptKeeps, CtrlCKeeps DEF Next

(* Through forks, exits, kills, signals, waits and switches, wherever the   *)
(* tick preempts them: only the task under the cursor is RUNNING, it is     *)
(* runnable but in the windows that OneRunning names, and the reaped are    *)
(* dead and do not execute.                                                 *)
THEOREM TablesAgree == Spec => []TasksConsistent
<1>1. TaskInd /\ [Next]_vars => TaskInd'
    BY TaskIndNext
<1>2. TaskInd => TasksConsistent
    BY DEF TaskInd, TasksConsistent
<1> QED BY <1>1, <1>2, TaskIndInit, PTL DEF Spec

(* task.c:2562, syscall.c:997: nothing brings a dead task back but its own  *)
(* task_waitpid after it has terminated its own job.                        *)
THEOREM DeathIsFinal == Spec => DeadStaysDead
<1>1. TaskInd /\ [Next]_vars => TaskInd'
    BY TaskIndNext
<1>2. TaskInd /\ [Next]_vars =>
        [\A p \in Pids :
            state[p] = "DEAD" =>
                state'[p] = "DEAD" \/ (SelfTerminated(p) /\ p = current_task /\ pc[p] = "look")]_vars
    BY TaskIndNext DEF DeadKept, Rises
<1> QED BY <1>1, <1>2, TaskIndInit, PTL DEF Spec, DeadStaysDead
=============================================================================
