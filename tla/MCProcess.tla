------------------------------ MODULE MCProcess -----------------------------
(* Four slots: the kernel, and up to three processes that wait for, kill   *)
(* and outlive each other.  The kernel's thread and the last process have   *)
(* the lower priority.                                                      *)
EXTENDS Process
MCPriority == [p \in Pids |-> IF p \in {0, 3} THEN 1 ELSE 2]
MCGroups == {{1}, {2, 3}}
\* No foreground group: only children signal their parents.
MCNoGroups == {}
=============================================================================
