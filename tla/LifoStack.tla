----------------------------- MODULE LifoStack ------------------------------
(***************************************************************************)
(* What an interlocked list promises: a stack on which pushes, pops and    *)
(* flushes take effect at one instant each.  A caller finds the result of  *)
(* its last operation in ret until it starts another one.                  *)
(***************************************************************************)
EXTENDS Sequences

CONSTANTS Cpu, Entry, NULL, Pending

VARIABLES stack,           \* the entries, top first
          ret              \* per caller: an entry, NULL, or Pending

Top(s) == IF s = <<>> THEN NULL ELSE Head(s)

Init == stack = <<>> /\ ret = [c \in Cpu |-> Pending]

Returns(c, v) == ret[c] = Pending /\ ret' = [ret EXCEPT ![c] = v]

\* A push returns the previous top.
Push(c, e) == stack' = <<e>> \o stack /\ Returns(c, Top(stack))

\* A pop returns the top, NULL when there is none.
Pop(c) == stack' = (IF stack = <<>> THEN <<>> ELSE Tail(stack)) /\ Returns(c, Top(stack))

\* A flush returns the whole chain, that is, its first entry.
Flush(c) == stack' = <<>> /\ Returns(c, Top(stack))

Collect(c) == ret' = [ret EXCEPT ![c] = Pending] /\ UNCHANGED stack

Next == \E c \in Cpu : (\E e \in Entry : Push(c, e)) \/ Pop(c) \/ Flush(c) \/ Collect(c)

Spec == Init /\ [][Next]_<<stack, ret>>
=============================================================================
