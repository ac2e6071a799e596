-------------------------------- MODULE Pipe --------------------------------
(***************************************************************************)
(* A kernel pipe, src/kernel/ipc/pipe.c: a ring buffer with one semaphore  *)
(* for the bytes in it and one for the room left, from its creation until  *)
(* both ends are closed.  Which bytes are in the ring is left out.         *)
(*                                                                         *)
(* The tests of count and of the open flags are made outside the mutex and *)
(* are steps of their own.  A test of a flag and of count is one step,     *)
(* although it reads both: a flag once cleared stays so, and the outcome    *)
(* is always the one of either moment.                                      *)
(***************************************************************************)
EXTENDS Semaphore

CONSTANTS Readers,         \* threads that call pipe_read
          Writers,         \* threads that call pipe_write
          PIPE_BUF_SIZE,   \* bytes of the ring
          MaxLen,          \* bound: length of one transfer
          MaxBytes         \* bound: bytes whose writing is started

VARIABLES count,           \* p->count; -1 stands for the wrapped 2^32 - 1
          read_open, write_open,
          left,            \* bytes the call of a thread still has to transfer
          i,               \* bytes it has transferred
          ret,             \* where its sem_wait returns to
          asked            \* bytes of all writes begun

openvars == <<read_open, write_open>>
callvars == <<left, i, ret>>
vars == <<semvars, cpu, pc, count, openvars, callvars, asked>>

Init ==
    /\ SemInit([s \in Semaphores |-> IF s = "writable" THEN PIPE_BUF_SIZE ELSE 0])
    /\ count = 0
    /\ read_open = TRUE /\ write_open = TRUE
    /\ left = [t \in Threads |-> 0]
    /\ i = [t \in Threads |-> 0]
    /\ ret = [t \in Threads |-> "move"]
    /\ asked = 0

\* The semaphore a thread waits for, and the one it signals.
Awaited(t) == IF t \in Readers THEN "readable" ELSE "writable"
Signalled(t) == IF t \in Readers THEN "writable" ELSE "readable"

Begin(t, len) ==
    /\ At(t, "idle") /\ Goto(t, "loop")
    /\ left' = [left EXCEPT ![t] = len]
    /\ i' = [i EXCEPT ![t] = 0]
    /\ UNCHANGED <<semvars, count, openvars, ret>>

\* t goes from label l to label m and changes nothing else.
Steps(t, l, m) == At(t, l) /\ Goto(t, m) /\ UNCHANGED <<semvars, count, openvars, callvars, asked>>

\* t calls sem_wait, which is to return to label m.
Waits(t, l, m) ==
    /\ At(t, l) /\ Goto(t, "wait")
    /\ ret' = [ret EXCEPT ![t] = m]
    /\ UNCHANGED <<semvars, count, openvars, left, i, asked>>

(* The section under the mutex, which moves one byte.  Of what it changes  *)
(* only the store of count, its last one, is seen outside the mutex.        *)
Moves(t, change) ==
    /\ At(t, "move") /\ Goto(t, "signal")
    /\ count' = count + change
    /\ left' = [left EXCEPT ![t] = @ - 1]
    /\ i' = [i EXCEPT ![t] = @ + 1]
    /\ UNCHANGED <<semvars, openvars, ret, asked>>

\* The steps of a thread inside sem_wait and sem_signal.
Semaphoric(t) ==
    /\ \/ SemWaitStep(Awaited(t), t, ret[t])
       \/ SemSignalStep(Signalled(t), t, "loop")
    /\ UNCHANGED <<count, openvars, callvars, asked>>

-----------------------------------------------------------------------------
(* pipe_write *)

WriteCall(w, len) ==
    /\ write_open /\ read_open
    /\ asked + len <= MaxBytes
    /\ asked' = asked + len
    /\ Begin(w, len)

\* Everything is written, or the pipe is broken.
WriteReturns(w) == (left[w] = 0 \/ ~read_open) /\ Steps(w, "loop", "idle")

WriteWaits(w) == left[w] > 0 /\ read_open /\ Waits(w, "loop", "move")

WriteByte(w) == Moves(w, 1)

-----------------------------------------------------------------------------
(* pipe_read *)

ReadCall(r, len) == read_open /\ Begin(r, len) /\ UNCHANGED asked

ReadLoop(r) ==
    Steps(r, "loop", IF left[r] = 0 \/ (~write_open /\ count = 0) THEN "idle" ELSE "empty")

\* The ring is looked at again: a part of the request, or the wait for the first byte.
ReadEmpty(r) == count = 0 /\ Steps(r, "empty", IF i[r] > 0 THEN "idle" ELSE "while")

\* The permit of a byte that was there.
ReadToken(r) == count # 0 /\ Waits(r, "empty", "move")

ReadWaits(r) == count = 0 /\ write_open /\ Waits(r, "while", "recheck")

ReadGoesOn(r) == ~(count = 0 /\ write_open) /\ Steps(r, "while", "last")

ReadRecheck(r) == Steps(r, "recheck", IF ~write_open /\ count = 0 THEN "idle" ELSE "while")

\* Zero bytes are returned also when another reader took the byte meanwhile.
ReadLast(r) == Steps(r, "last", IF count = 0 THEN "idle" ELSE "move")

ReadByte(r) == Moves(r, -1)

-----------------------------------------------------------------------------
(* pipe_close, when the last handle of an end is closed; also while a call *)
(* of another thread on that end is under way.  The signal and the return   *)
(* are the ones of a call with nothing left to transfer.                    *)

Close(t) ==
    /\ At(t, "idle") /\ Goto(t, "signal")
    /\ left' = [left EXCEPT ![t] = 0]
    /\ UNCHANGED <<semvars, count, i, ret, asked>>

CloseRead(r) == read_open /\ read_open' = FALSE /\ Close(r) /\ UNCHANGED write_open

CloseWrite(w) == write_open /\ write_open' = FALSE /\ Close(w) /\ UNCHANGED read_open

-----------------------------------------------------------------------------
WriteStep(w) == WriteReturns(w) \/ WriteWaits(w) \/ WriteByte(w) \/ Semaphoric(w)
ReadStep(r) ==
    \/ ReadLoop(r) \/ ReadEmpty(r) \/ ReadToken(r) \/ ReadWaits(r) \/ ReadGoesOn(r)
    \/ ReadRecheck(r) \/ ReadLast(r) \/ ReadByte(r) \/ Semaphoric(r)

Next ==
    \/ \E w \in Writers :
         WriteStep(w) \/ CloseWrite(w) \/ \E len \in 1 .. MaxLen : WriteCall(w, len)
    \/ \E r \in Readers :
         ReadStep(r) \/ CloseRead(r) \/ \E len \in 1 .. MaxLen : ReadCall(r, len)

Spec == Init /\ [][Next]_vars

(* A ready thread is dispatched again and runs on; nobody has to call or   *)
(* close anything.                                                          *)
Fairness ==
    /\ \A w \in Writers : SF_vars(WriteStep(w))
    /\ \A r \in Readers : SF_vars(ReadStep(r))

FairSpec == Spec /\ Fairness

-----------------------------------------------------------------------------
\* r is inside a call that has to go on.
Reading(r) == pc[r] # "idle" /\ left[r] > 0

(* semaphore.c:79, of sem_signal: the count is raised before the waiters   *)
(* are looked at, "so a thread racing into sem_wait sees the permit instead *)
(* of blocking".  Then a reader is not left waiting while the pipe has      *)
(* bytes for it.                                                            *)
RacingReaderSeesPermit ==
    \A r \in Readers : Reading(r) /\ count > 0 ~> ~Reading(r) \/ count = 0

(* pipe.c:402, of the closing of the writing end: "Wake any blocked readers *)
(* so they see EOF".                                                        *)
EofReachesReaders == \A r \in Readers : Reading(r) /\ ~write_open ~> ~Reading(r)
=============================================================================
