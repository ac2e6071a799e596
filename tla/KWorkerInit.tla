---------------------------- MODULE KWorkerInit -----------------------------
(***************************************************************************)
(* Starting the periodic worker: kworker_init and the first lines of       *)
(* kworker_main in src/kernel/sched/kworker.c.                             *)
(*                                                                         *)
(* Several threads may call kworker_init.  The two bounded waits yield up   *)
(* to KWORKER_START_YIELD_CAP times; how often the worker is scheduled in   *)
(* that time is not known here, so a wait may give up at any poll.         *)
(***************************************************************************)
EXTENDS Integers, FiniteSets

CONSTANTS Callers,         \* threads that call kworker_init
          MaxCalls         \* bound: calls made in a behaviour

ASSUME InitConstants == IsFiniteSet(Callers) /\ MaxCalls \in Nat

VARIABLES s_kworker_state, \* "STOPPED", "STARTING" or "STARTED"
          created,         \* worker tasks created so far
          worker_task,     \* "none", "created" or "running"
          caller,          \* where a caller is
          result,          \* what its last call returned, or "none"
          calls            \* calls made so far

svars == <<s_kworker_state, created, worker_task, caller, result, calls>>

StartInit ==
    /\ s_kworker_state = "STOPPED"
    /\ created = 0
    /\ worker_task = "none"
    /\ caller = [c \in Callers |-> "idle"]
    /\ result = [c \in Callers |-> "none"]
    /\ calls = 0

Return(c, r) == caller' = [caller EXCEPT ![c] = "idle"] /\ result' = [result EXCEPT ![c] = r]

Call(c) ==
    /\ caller[c] = "idle"
    /\ calls < MaxCalls
    /\ calls' = calls + 1
    /\ caller' = [caller EXCEPT ![c] = "cas"]
    /\ result' = [result EXCEPT ![c] = "none"]
    /\ UNCHANGED <<s_kworker_state, created, worker_task>>

\* Mutant: a worker that is still starting does not stop another creation.
BugWins == s_kworker_state # "STARTED"

\* The compare-and-swap succeeds from STOPPED only.
Wins == s_kworker_state = "STOPPED"

StartCas(c) ==
    /\ caller[c] = "cas"
    /\ caller' = [caller EXCEPT ![c] = IF Wins THEN "create" ELSE "lost"]
    /\ s_kworker_state' = IF Wins THEN "STARTING" ELSE s_kworker_state
    /\ UNCHANGED <<created, worker_task, result, calls>>

\* Mutant: the loser reports success as soon as somebody is starting.
BugLoserPolls(c) ==
    /\ caller[c] = "lost"
    /\ Return(c, IF s_kworker_state = "STOPPED" THEN "failed" ELSE "ok")
    /\ UNCHANGED <<s_kworker_state, created, worker_task, calls>>

\* The loser waits for a terminal state and reports it.
LoserPolls(c) ==
    /\ caller[c] = "lost"
    /\ s_kworker_state # "STARTING"
    /\ Return(c, IF s_kworker_state = "STARTED" THEN "ok" ELSE "failed")
    /\ UNCHANGED <<s_kworker_state, created, worker_task, calls>>

CreateTask(c) ==
    /\ caller[c] = "create"
    /\ created' = created + 1
    /\ worker_task' = "created"
    /\ caller' = [caller EXCEPT ![c] = "won"]
    /\ UNCHANGED <<s_kworker_state, result, calls>>

CreateFails(c) ==
    /\ caller[c] = "create"
    /\ s_kworker_state' = "STOPPED"
    /\ Return(c, "failed")
    /\ UNCHANGED <<created, worker_task, calls>>

WinnerPolls(c) ==
    /\ caller[c] = "won"
    /\ s_kworker_state = "STARTED"
    /\ Return(c, "ok")
    /\ UNCHANGED <<s_kworker_state, created, worker_task, calls>>

\* Mutant: only the loser's wait is bounded.
BugMayGiveUp(c) == caller[c] = "lost"

MayGiveUp(c) == caller[c] \in {"lost", "won"}

\* The cap is reached: fail closed, and leave the state to a late worker.
GiveUp(c) ==
    /\ MayGiveUp(c)
    /\ s_kworker_state # "STARTED"
    /\ caller[c] = "lost" => s_kworker_state = "STARTING"
    /\ Return(c, "failed")
    /\ UNCHANGED <<s_kworker_state, created, worker_task, calls>>

\* The worker is scheduled for the first time; it may never be.
WorkerPublishes ==
    /\ worker_task = "created"
    /\ worker_task' = "running"
    /\ s_kworker_state' = "STARTED"
    /\ UNCHANGED <<created, caller, result, calls>>

CallNext(c) ==
    \/ StartCas(c) \/ LoserPolls(c) \/ CreateTask(c) \/ CreateFails(c)
    \/ WinnerPolls(c) \/ GiveUp(c)

StartNext == WorkerPublishes \/ \E c \in Callers : Call(c) \/ CallNext(c)

StartSpec == StartInit /\ [][StartNext]_svars

(* A caller goes on executing; the worker need not be scheduled.           *)
StartFairness == \A c \in Callers : WF_svars(CallNext(c))

FairStartSpec == StartSpec /\ StartFairness

-----------------------------------------------------------------------------
StartTypeOK ==
    /\ s_kworker_state \in {"STOPPED", "STARTING", "STARTED"}
    /\ created \in Nat /\ calls \in Nat
    /\ worker_task \in {"none", "created", "running"}
    /\ caller \in [Callers -> {"idle", "cas", "lost", "create", "won"}]
    /\ result \in [Callers -> {"none", "ok", "failed"}]

(* One worker at most is ever created, over racing, failing, repeated and  *)
(* timed-out calls: its thread identity is what the unregister guard uses.  *)
AtMostOneWorker == created <= 1

(* A caller that is told "ok" has a worker that runs: monitors are armed   *)
(* on this return.                                                          *)
SuccessMeansRunning ==
    \A c \in Callers : result[c] = "ok" => worker_task = "running" /\ s_kworker_state = "STARTED"

(* Whoever is in the creation section owns STARTING, and no other does.    *)
StartingIsOwned ==
    /\ \A c \in Callers : caller[c] = "create" => s_kworker_state = "STARTING" /\ created = 0
    /\ \A c, d \in Callers : caller[c] = "create" /\ caller[d] \in {"create", "won"} => c = d
    /\ s_kworker_state = "STARTED" <=> worker_task = "running"
    /\ s_kworker_state = "STOPPED" => created = 0
    /\ (worker_task = "none") <=> (created = 0)
    /\ \A c \in Callers : caller[c] = "won" => created # 0

(* Every call returns, even when the worker is never scheduled.             *)
InitReturns == \A c \in Callers : caller[c] = "cas" ~> caller[c] = "idle"
=============================================================================
