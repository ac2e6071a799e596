---------------------------- MODULE RundownWord -----------------------------
(***************************************************************************)
(* The encoding of EX_RUNDOWN_REF.Count (src/kernel/ex/ex_rundown.c):      *)
(* bit 0 is the rundown-active flag, the bits above it count references.   *)
(***************************************************************************)
EXTENDS Integers

EXP_RUNDOWN_ACTIVE == 1
EXP_RUNDOWN_REF_INC == 2

ExIsRundownActive(c) == c % 2 = 1
Refs(c) == c \div 2
=============================================================================
