---------------------------- MODULE MCExWorkItem ----------------------------
(* Two items, two callers and one flusher.  A pool of two nodes is          *)
(* exhausted when the worker still holds the node of an item that was       *)
(* queued again: the other item's enqueue then fails, with cancels anywhere. *)
EXTENDS ExWorkItem
CONSTANTS w1, w2, t1, t2, f1
MCItems == {w1, w2}
MCCallers == {t1, t2}
MCFlushers == {f1}
=============================================================================
