------------------------------- MODULE MCPipe -------------------------------
(* Two readers and a writer of a ring of two bytes whose calls all come    *)
(* through INT 0x80, and a reader and a writer of one byte whose calls can  *)
(* be preempted.                                                            *)
EXTENDS Pipe
CONSTANTS r1, r2, w1
MCSemaphores == {"readable", "writable"}
=============================================================================
