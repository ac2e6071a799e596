------------------------------ MODULE MCKTimer -------------------------------
(***************************************************************************)
(* Two processors, a driver with one timer: dt is the timer's DPC, dw a    *)
(* threaded DPC of high importance that the driver's device queues on the  *)
(* boot processor, do a threaded DPC of someone else, on the other one.    *)
(* With batches of one, every drain and the worker meet their limit.  The  *)
(* single shot is the overflowing period: both leave the list (Keeps).     *)
(***************************************************************************)
EXTENDS KTimer
CONSTANTS t1, dt, dw, do
MCTimerDpc == t1 :> dt
MCIrq == dt :> {0} @@ dw :> {0} @@ do :> {1}
MCDueIn == {0}
MCPeriod == {2, Endless}
=============================================================================
