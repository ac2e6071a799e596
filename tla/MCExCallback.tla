---------------------------- MODULE MCExCallback ----------------------------
(* Two slots, three consumers and two notifiers: slots are reused under      *)
(* draining snapshots, and old cookies meet new generations.                *)
EXTENDS ExCallback
CONSTANTS c1, c2, c3, n1, n2
MCConsumers == {c1, c2, c3}
MCNotifiers == {n1, n2}
=============================================================================
