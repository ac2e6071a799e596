--------------------------- MODULE MCHandleTable -----------------------------
(***************************************************************************)
(* Two tables that start with slot 0 only and a quota of one handle, which *)
(* may be raised to two: every table grows, fills up, and meets its        *)
(* ceiling.  Handles are inheritable, and protected by Protect.  The tables *)
(* are interchangeable.                                                    *)
(***************************************************************************)
EXTENDS HandleTable, TLC
CONSTANTS t1, t2, a, b
MCRequest == {{a, b}}
MCAttributes == {{OBJ_INHERIT}}
MCWritten == {{a}, {a, b}}
Sym == Permutations(Table)
=============================================================================
