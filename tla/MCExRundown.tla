---------------------------- MODULE MCExRundown -----------------------------
(* Two users and two owners: a user can hold a stale copy of the word      *)
(* while the other runs whole acquire/release cycles and both owners wait.  *)
EXTENDS ExRundown
CONSTANTS u1, u2, o1, o2

MCUsers == {u1, u2}
MCOwners == {o1, o2}
=============================================================================
