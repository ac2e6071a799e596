--------------------------- MODULE RundownBarrier ---------------------------
(***************************************************************************)
(* What rundown protection promises (kernel/ex.h, "S3 -- Rundown           *)
(* Protection"): users hold references to an object while they touch it;   *)
(* its owner closes the barrier, and may destroy the object only once no   *)
(* reference is left.  Every step is atomic here; ExRundown shows that the *)
(* single-word lock-free implementation behaves this way.                  *)
(***************************************************************************)
CONSTANT Users             \* threads that take references

VARIABLES holders,         \* users holding a reference
          closed,          \* the rundown has begun: references are refused
          object           \* the protected object: "live" or "freed"

bvars == <<holders, closed, object>>

BarrierInit ==
    /\ holders = {}
    /\ closed = FALSE
    /\ object = "live"

\* A reference is granted only while the barrier is open.
Take(u) ==
    /\ ~closed
    /\ u \notin holders
    /\ holders' = holders \cup {u}
    /\ UNCHANGED <<closed, object>>

Drop(u) ==
    /\ u \in holders
    /\ holders' = holders \ {u}
    /\ UNCHANGED <<closed, object>>

Close ==
    /\ closed' = TRUE
    /\ UNCHANGED <<holders, object>>

\* The owner destroys the object behind a closed, drained barrier.
Retire ==
    /\ closed
    /\ holders = {}
    /\ object' = "freed"
    /\ UNCHANGED <<holders, closed>>

\* The barrier is opened again for a new object.
Rearm ==
    /\ object = "freed"
    /\ holders = {}
    /\ closed' = FALSE
    /\ object' = "live"
    /\ UNCHANGED holders

BarrierNext ==
    \/ \E u \in Users : Take(u) \/ Drop(u)
    \/ Close \/ Retire \/ Rearm

BarrierSpec == BarrierInit /\ [][BarrierNext]_bvars
=============================================================================
