------------------------------ MODULE MCKWorker -----------------------------
(* Two entries, two clients and three registrations: slots are reused      *)
(* under a waiting unregister, and a callback cancels itself or the other.  *)
EXTENDS KWorker
CONSTANTS c1, c2
MCClients == {c1, c2}
=============================================================================
