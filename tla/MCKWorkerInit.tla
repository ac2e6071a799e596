--------------------------- MODULE MCKWorkerInit ----------------------------
(* Three callers and five calls: losers, failures and retries overlap.      *)
EXTENDS KWorkerInit
CONSTANTS c1, c2, c3
MCCallers == {c1, c2, c3}
=============================================================================
