---------------------------- MODULE MCExLookaside ---------------------------
(* Two processors and three blocks: a late pop meets its block popped, given *)
(* to the heap, allocated again and pushed back.  The list asks for a depth  *)
(* of three, where its own count stops, and gets one.                        *)
EXTENDS ExLookaside, TLC
CONSTANTS p, q, b1, b2, b3
MCCpu == {p, q}
MCEntry == {b1, b2, b3}
Symmetric == Permutations(MCCpu) \cup Permutations(MCEntry)
=============================================================================
