------------------------------ MODULE Process -------------------------------
(***************************************************************************)
(* Processes and the dispatcher: src/kernel/sched/task.c (find_next_task,  *)
(* schedule, schedule_now, task_fork, task_exit, task_waitpid,             *)
(* task_terminate_remote, task_cleanup), the signal sends of ipc/signal.c  *)
(* and the bulk kill of ob/ob_job.c.                                       *)
(*                                                                         *)
(* One processor dispatches: current_task is a global cursor and the other *)
(* processors are parked.  A system call made with SYSCALL runs with       *)
(* interrupts on (syscall_entry.asm:58), so the tick may preempt it between *)
(* any two of its stores; a call made with INT 0x80 is the case in which it *)
(* does not.  Processes have one thread.  PID 0, the kernel, neither exits  *)
(* nor waits.  Exit statuses and pending signals are kept out: nothing that *)
(* runs tests them.                                                         *)
(***************************************************************************)
EXTENDS Integers

CONSTANTS TASK_MAX,        \* size of the task table
          Priority,        \* priority of each task's thread
          Groups,          \* what the console's foreground group may be
          JobMembers,      \* the tasks that are in the job while they live
          JobHolders       \* the tasks that hold a handle to the job

Pids == 0 .. TASK_MAX - 1
THREAD_PRIO_REALTIME == 31         \* the highest priority

ASSUME ProcessConstants ==
    /\ TASK_MAX \in Nat \ {0}
    /\ Priority \in [Pids -> 0 .. THREAD_PRIO_REALTIME]
    /\ Groups \subseteq SUBSET (Pids \ {0})
    /\ JobMembers \subseteq Pids \ {0} /\ JobHolders \subseteq Pids

VARIABLES state,           \* tasks[p].state, "NONE" for a slot never used
          thread_dead,     \* tasks whose threads[0] is THREAD_DEAD
          current_task,    \* the dispatcher's cursor
          num_tasks,       \* slots in use; a slot is never reused
          parent_pid,      \* tasks[p].parent_pid
          wait_pid,        \* tasks[p].wait_pid, or -1
          pc,              \* where p is in the kernel, "user" outside it
          child_pid,       \* the argument of p's task_waitpid, 0 outside it
          terminated,      \* who set the job's terminated flag, or -1
          doomed,          \* the rest of that call's snapshot of the members
          reaped,          \* tasks whose memory task_cleanup has freed
          woken_early,     \* history: task_waitpid has returned with its child alive
          signalled,       \* history: tasks that have sent their SIGCHLD
          late             \* history: tasks that marked themselves WAITING after it

vars == <<state, thread_dead, current_task, num_tasks, parent_pid, wait_pid, pc, child_pid,
          terminated, doomed, reaped, woken_early, signalled, late>>

Live(s) == {p \in Pids : s[p] \notin {"NONE", "DEAD"}}

Init ==
    /\ state = [p \in Pids |-> IF p = 0 THEN "RUNNING" ELSE "NONE"]
    /\ thread_dead = {}
    /\ current_task = 0
    /\ num_tasks = 1
    /\ parent_pid = [p \in Pids |-> 0]
    /\ wait_pid = [p \in Pids |-> -1]
    /\ pc = [p \in Pids |-> "user"]
    /\ child_pid = [p \in Pids |-> 0]
    /\ terminated = -1
    /\ doomed = {}
    /\ reaped = {}
    /\ woken_early = FALSE
    /\ signalled = {}
    /\ late = {}

-----------------------------------------------------------------------------
(* The dispatcher *)

Runnable(s) == {p \in Pids : s[p] \in {"READY", "RUNNING"} /\ p \notin thread_dead}

\* How far p is ahead of the cursor, in cyclic order; the cursor comes last.
Distance(p) ==
    IF p = current_task THEN num_tasks ELSE (p - current_task + num_tasks) % num_tasks

\* Mutant: the scan starts at slot 0 instead of after the cursor.
BugFindNext(s) ==
    IF Runnable(s) = {} THEN current_task
    ELSE CHOOSE p \in Runnable(s) :
            \A q \in Runnable(s) :
                \/ Priority[p] > Priority[q]
                \/ Priority[p] = Priority[q] /\ p <= q

\* The runnable task of highest priority, the first one after the cursor
\* within a tie; the cursor itself when nothing is runnable.
find_next_task(s) ==
    IF Runnable(s) = {} THEN current_task
    ELSE CHOOSE p \in Runnable(s) :
            \A q \in Runnable(s) :
                \/ Priority[p] > Priority[q]
                \/ Priority[p] = Priority[q] /\ Distance(p) <= Distance(q)

\* Mutant: the task that is switched out stays RUNNING.
BugSwitch(s) ==
    /\ current_task' = find_next_task(s)
    /\ state' = [s EXCEPT ![find_next_task(s)] = "RUNNING"]

\* schedule_now, from the task states that the caller leaves.  Nothing is
\* changed when the cursor does not move.
Switch(s) ==
    LET next == find_next_task(s) IN
    /\ current_task' = next
    /\ state' = IF next = current_task THEN s
                ELSE [p \in Pids |-> IF p = next THEN "RUNNING"
                                     ELSE IF p = current_task /\ s[p] = "RUNNING" THEN "READY"
                                     ELSE s[p]]

\* The timer interrupt ends the time slice, in user mode or in the kernel.
Preempt ==
    /\ find_next_task(state) # current_task
    /\ Switch(state)
    /\ UNCHANGED <<thread_dead, num_tasks, parent_pid, wait_pid, pc, child_pid, terminated,
                   doomed, reaped, woken_early, signalled, late>>

-----------------------------------------------------------------------------
(* Signals: signal_check, which would deliver them, is called from nowhere. *)

\* signal_send: a waiting task is woken; a dead one is not signalled.
Signalled(s, targets) == targets \cap Live(s)
WakeAll(s, targets) ==
    [p \in Pids |-> IF p \in targets /\ s[p] = "WAITING" THEN "READY" ELSE s[p]]

\* Ctrl+C, in the keyboard interrupt: SIGINT to the foreground group.
signal_ctrl_c(group) ==
    LET targets == Signalled(state, group) IN
    /\ targets # {}
    /\ state' = WakeAll(state, targets)
    /\ UNCHANGED <<thread_dead, current_task, num_tasks, parent_pid, wait_pid, pc, child_pid,
                   terminated, doomed, reaped, woken_early, signalled, late>>

-----------------------------------------------------------------------------
(* Process creation and death.  At(p, l): p executes, and is at l. *)

At(p, l) == p = current_task /\ pc[p] = l
Goto(p, l) == pc' = [pc EXCEPT ![p] = l]

\* SYS_FORK exists on INT 0x80 only.
task_fork(p) ==
    /\ At(p, "user")
    /\ num_tasks < TASK_MAX
    /\ num_tasks \in JobMembers => terminated = -1
    /\ state' = [state EXCEPT ![num_tasks] = "READY"]
    /\ parent_pid' = [parent_pid EXCEPT ![num_tasks] = p]
    /\ num_tasks' = num_tasks + 1
    /\ UNCHANGED <<thread_dead, current_task, wait_pid, pc, child_pid, terminated, doomed, reaped,
                   woken_early, signalled, late>>

\* A death begins with the thread, before the task is dead: task_exit, and the
\* end of a kernel task's entry function in task_wrapper.
Dies(p, next) ==
    /\ At(p, "user") /\ p # 0
    /\ thread_dead' = thread_dead \cup {p}
    /\ Goto(p, next)
    /\ UNCHANGED <<state, current_task, num_tasks, parent_pid, wait_pid, child_pid, terminated,
                   doomed, reaped, woken_early, signalled, late>>

task_exit(p) == Dies(p, "exit")
task_wrapper(p) == Dies(p, "return")

ExitDead(p) ==
    /\ At(p, "exit")
    /\ state' = [state EXCEPT ![p] = "DEAD"]
    /\ Goto(p, "dead")
    /\ UNCHANGED <<thread_dead, current_task, num_tasks, parent_pid, wait_pid, child_pid,
                   terminated, doomed, reaped, woken_early, signalled, late>>

\* Mutant: the parent is not signalled.
BugExitSignals(p) ==
    /\ At(p, "dead")
    /\ signalled' = signalled \cup {p}
    /\ Goto(p, "scan")
    /\ UNCHANGED <<state, thread_dead, current_task, num_tasks, parent_pid, wait_pid, child_pid,
                   terminated, doomed, reaped, woken_early, late>>

\* SIGCHLD to the parent, which wakes it if it is waiting.
ExitSignals(p) ==
    /\ At(p, "dead")
    /\ state' = WakeAll(state, Signalled(state, {parent_pid[p]}))
    /\ signalled' = signalled \cup {p}
    /\ Goto(p, "scan")
    /\ UNCHANGED <<thread_dead, current_task, num_tasks, parent_pid, wait_pid, child_pid,
                   terminated, doomed, reaped, woken_early, late>>

\* The scan for the first task that waits for p, and the yield for ever.  The
\* signal has already woken the parent, leaving its wait_pid set.
ExitScan(p) ==
    LET waiters == {q \in Pids : state[q] = "WAITING" /\ wait_pid[q] = p}
        first   == {q \in waiters : \A r \in waiters : q <= r}
    IN
    /\ At(p, "scan")
    /\ wait_pid' = [q \in Pids |-> IF q \in first THEN -1 ELSE wait_pid[q]]
    /\ Switch(WakeAll(state, first))
    /\ UNCHANGED <<thread_dead, num_tasks, parent_pid, pc, child_pid, terminated, doomed, reaped,
                   woken_early, signalled, late>>

\* The entry function has returned: no signal, no scan.
WrapperDead(p) ==
    /\ At(p, "return")
    /\ Switch([state EXCEPT ![p] = "DEAD"])
    /\ UNCHANGED <<thread_dead, num_tasks, parent_pid, wait_pid, pc, child_pid, terminated,
                   doomed, reaped, woken_early, signalled, late>>

\* task_terminate_remote of a task: no signal, no scan either.
task_terminate_remote(t) == state' = [state EXCEPT ![t] = "DEAD"]

\* Mutant: a task may mark itself dead this way and go on.
BugKill(p, t) ==
    /\ At(p, "user")
    /\ t # 0 /\ t \in Live(state)
    /\ task_terminate_remote(t)
    /\ UNCHANGED <<thread_dead, current_task, num_tasks, parent_pid, wait_pid, pc, child_pid,
                   terminated, doomed, reaped, woken_early, signalled, late>>

\* SYS_KILL and NtTerminateProcess on another task; on itself they are task_exit.
Kill(p, t) ==
    /\ At(p, "user")
    /\ t # 0 /\ t # p /\ t \in Live(state)
    /\ task_terminate_remote(t)
    /\ UNCHANGED <<thread_dead, current_task, num_tasks, parent_pid, wait_pid, pc, child_pid,
                   terminated, doomed, reaped, woken_early, signalled, late>>

\* NtTerminateJobObject: the flag and the snapshot of the members, once.
ob_job_terminate(p) ==
    /\ At(p, "user")
    /\ p \in JobHolders
    /\ terminated = -1
    /\ terminated' = p
    /\ doomed' = JobMembers \cap Live(state)
    /\ Goto(p, "job")
    /\ UNCHANGED <<state, thread_dead, current_task, num_tasks, parent_pid, wait_pid, child_pid,
                   reaped, woken_early, signalled, late>>

\* One member is terminated, the caller too if it is one.
JobKills(p, t) ==
    /\ At(p, "job")
    /\ t \in doomed
    /\ doomed' = doomed \ {t}
    /\ task_terminate_remote(t)
    /\ UNCHANGED <<thread_dead, current_task, num_tasks, parent_pid, wait_pid, pc, child_pid,
                   terminated, reaped, woken_early, signalled, late>>

JobReturns(p) ==
    /\ At(p, "job")
    /\ doomed = {}
    /\ Goto(p, "user")
    /\ UNCHANGED <<state, thread_dead, current_task, num_tasks, parent_pid, wait_pid, child_pid,
                   terminated, doomed, reaped, woken_early, signalled, late>>

-----------------------------------------------------------------------------
(* Waiting for a child *)

\* task_cleanup frees the memory of a dead task and does nothing to another.
task_cleanup(c) == reaped' = IF state[c] = "DEAD" THEN reaped \cup {c} ELSE reaped

IsChild(p, c) == c < num_tasks /\ c # p /\ parent_pid[c] = p

\* task_waitpid for a child that is already dead.
WaitDead(p, c) ==
    /\ At(p, "user") /\ p # 0
    /\ IsChild(p, c)
    /\ state[c] = "DEAD"
    /\ task_cleanup(c)
    /\ UNCHANGED <<state, thread_dead, current_task, num_tasks, parent_pid, wait_pid, pc, child_pid,
                   terminated, doomed, woken_early, signalled, late>>

\* For one that is not: the test of its state, ...
WaitLook(p, c) ==
    /\ At(p, "user") /\ p # 0
    /\ IsChild(p, c)
    /\ state[c] # "DEAD"
    /\ child_pid' = [child_pid EXCEPT ![p] = c]
    /\ Goto(p, "look")
    /\ UNCHANGED <<state, thread_dead, current_task, num_tasks, parent_pid, wait_pid, terminated,
                   doomed, reaped, woken_early, signalled, late>>

\* ... the store of WAITING, over whatever the state is by then, ...
WaitMark(p) ==
    /\ At(p, "look")
    /\ state' = [state EXCEPT ![p] = "WAITING"]
    /\ late' = IF child_pid[p] \in signalled THEN late \cup {p} ELSE late
    /\ Goto(p, "mark")
    /\ UNCHANGED <<thread_dead, current_task, num_tasks, parent_pid, wait_pid, child_pid,
                   terminated, doomed, reaped, woken_early, signalled>>

\* ... that of wait_pid, ...
WaitPublish(p) ==
    /\ At(p, "mark")
    /\ wait_pid' = [wait_pid EXCEPT ![p] = child_pid[p]]
    /\ Goto(p, "publish")
    /\ UNCHANGED <<state, thread_dead, current_task, num_tasks, parent_pid, child_pid, terminated,
                   doomed, reaped, woken_early, signalled, late>>

\* ... and the yield.
WaitYield(p) ==
    /\ At(p, "publish")
    /\ Goto(p, "wait")
    /\ Switch(state)
    /\ UNCHANGED <<thread_dead, num_tasks, parent_pid, wait_pid, child_pid, terminated, doomed,
                   reaped, woken_early, signalled, late>>

\* The yield returns: the status is read and the child cleaned up.
WaitResume(p) ==
    /\ At(p, "wait")
    /\ task_cleanup(child_pid[p])
    /\ woken_early' = (woken_early \/ state[child_pid[p]] # "DEAD")
    /\ child_pid' = [child_pid EXCEPT ![p] = 0]
    /\ late' = late \ {p}
    /\ Goto(p, "user")
    /\ UNCHANGED <<state, thread_dead, current_task, num_tasks, parent_pid, wait_pid, terminated,
                   doomed, signalled>>

-----------------------------------------------------------------------------
\* The start of a system call, and its later steps.
Call(p) ==
    \/ task_fork(p) \/ task_exit(p) \/ task_wrapper(p) \/ ob_job_terminate(p)
    \/ \E t \in Pids : Kill(p, t) \/ WaitDead(p, t) \/ WaitLook(p, t)

Continue(p) ==
    \/ ExitDead(p) \/ ExitSignals(p) \/ ExitScan(p) \/ WrapperDead(p)
    \/ JobReturns(p) \/ \E t \in Pids : JobKills(p, t)
    \/ WaitMark(p) \/ WaitPublish(p) \/ WaitYield(p) \/ WaitResume(p)

Next ==
    \/ Preempt
    \/ \E p \in Pids : Call(p) \/ Continue(p)
    \/ \E g \in Groups : signal_ctrl_c(g)

Spec == Init /\ [][Next]_vars

(* The timer keeps ticking, and a task that is dispatched time and again   *)
(* gets on with its call: a time slice is several ticks long.  Nothing      *)
(* obliges a process to make any system call.                               *)
Fairness == WF_vars(Preempt) /\ \A p \in Pids : SF_vars(Continue(p))

FairSpec == Spec /\ Fairness

-----------------------------------------------------------------------------
TypeOK ==
    /\ state \in [Pids -> {"NONE", "READY", "RUNNING", "WAITING", "DEAD"}]
    /\ thread_dead \subseteq Pids
    /\ current_task \in Pids
    /\ num_tasks \in 1 .. TASK_MAX
    /\ parent_pid \in [Pids -> Pids]
    /\ wait_pid \in [Pids -> Pids \cup {-1}]
    /\ pc \in [Pids -> {"user", "exit", "return", "dead", "scan", "job", "look", "mark", "publish",
                        "wait"}]
    /\ child_pid \in [Pids -> Pids]
    /\ terminated \in Pids \cup {-1}
    /\ doomed \subseteq JobMembers
    /\ woken_early \in BOOLEAN
    /\ reaped \subseteq Pids /\ signalled \subseteq Pids /\ late \subseteq Pids

\* A member of the job that has terminated its own job (ob_job.c:96).
SelfTerminated(p) == terminated = p /\ p \in JobMembers

(* The cursor and the task states agree: a task marked RUNNING is the one  *)
(* that executes, and the one that executes is runnable, or is between the *)
(* store of WAITING or DEAD and its yield, or has terminated its own job.  *)
OneRunning ==
    /\ \A p \in Pids : state[p] = "RUNNING" => p = current_task
    /\ \/ state[current_task] \in {"READY", "RUNNING"}
       \/ state[current_task] = "WAITING" /\ pc[current_task] \in {"mark", "publish"}
       \/ state[current_task] = "DEAD" /\ pc[current_task] \in {"dead", "scan"}
       \/ state[current_task] = "DEAD" /\ SelfTerminated(current_task)

(* The memory of a live task is never freed: not when task_waitpid returns  *)
(* before its child has died, nor of a task that comes back from the dead.  *)
ReapedIsDead == \A p \in reaped : state[p] = "DEAD" /\ p # current_task

(* The tables agree with who runs and who is gone: no task but the one     *)
(* under the cursor runs, and the reaped are dead and off the processor.    *)
TasksConsistent == OneRunning /\ ReapedIsDead

(* task.c:2562 calls the transition to TASK_DEAD monotonic, "a slot goes to *)
(* TASK_DEAD once"; syscall.c:997 says it is not.  No wake, signal, kill or *)
(* switch brings a dead task back: only the task_waitpid of a task that has *)
(* terminated its own job and was not preempted since does.                 *)
DeadStaysDead ==
    [][\A p \in Pids :
          state[p] = "DEAD" =>
              state'[p] = "DEAD" \/ (SelfTerminated(p) /\ p = current_task /\ pc[p] = "look")]_vars

\* No task outranks p.
Top(p) == \A q \in Pids : Priority[q] <= Priority[p]

(* Round-robin: a runnable task that no task outranks gets the processor.  *)
ReadyRuns ==
    \A p \in Pids :
        Top(p) => (p \in Runnable(state) ~> (p = current_task \/ state[p] = "DEAD"))

Waits(p) == pc[p] \in {"mark", "publish", "wait"}

(* Such a task that marked itself WAITING before its child's task_exit came *)
(* to signal it gets to return, wherever either of them was preempted.      *)
ExitWakesWaiter ==
    \A p \in Pids \ {0} :
        Top(p) => (Waits(p) /\ child_pid[p] \in signalled /\ p \notin late
                     ~> (pc[p] = "user" \/ state[p] = "DEAD"))

(* task.c:4828: "When we wake up, child has exited".                        *)
WokenMeansExited == ~woken_early
=============================================================================
