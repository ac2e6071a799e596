------------------------------ MODULE ExSList -------------------------------
(***************************************************************************)
(* Interlocked singly linked lists, src/kernel/ex/ex_slist.c.  The header  *)
(* is a pair of words, the first entry and a word of sequence number and   *)
(* depth.  They are read one after the other and replaced together by      *)
(* cmpxchg16b, which fails when either has changed and then reports both.  *)
(*                                                                         *)
(* An entry's link word is the first word of the caller's own storage:     *)
(* off the list its owner, or the heap, writes anything over it, while a   *)
(* pop that has fallen behind still reads it.                              *)
(***************************************************************************)
EXTENDS Integers, Sequences, FiniteSets

CONSTANTS Cpu,             \* the callers
          Entry,           \* storage for entries
          NULL,
          Data,            \* what an owner leaves in a link word
          Pending,         \* an operation that has not returned
          SLIST_DEPTH_MAX

ASSUME SListConstants ==
    /\ SLIST_DEPTH_MAX \in Nat \ {0}
    /\ NULL \notin Entry /\ Data \notin Entry /\ Data # NULL
    /\ Pending \notin Entry \cup {NULL}
    /\ IsFiniteSet(Entry)
    /\ "list" \notin Cpu /\ "heap" \notin Cpu

VARIABLES head,            \* Next and, in one word, Seq and Depth
          link,            \* entry->Next
          at,              \* where each caller is
          exp,             \* exp_lo and exp_hi of each caller
          arg,             \* the entry a push was given
          next,            \* what a pop read in node->Next
          ret,             \* what the operation returned
          own,             \* "list", "heap" or the caller that holds the entry
          stack            \* history: the list as the operations done so far leave it

svars == <<head, link, at, exp, arg, next, ret, own, stack>>

Header == [Next : Entry \cup {NULL, Data}, Seq : Nat, Depth : 0 .. SLIST_DEPTH_MAX]

Where == {"idle", "push_seq", "push_link", "push_dcas", "pop_seq", "pop_next", "pop_dcas",
          "flush_seq", "flush_dcas", "done"}

EmptyHead == [Next |-> NULL, Seq |-> 0, Depth |-> 0]

\* ExInitializeSListHead; the entries are with their owners or in the heap.
SListInit ==
    /\ head = EmptyHead
    /\ link = [e \in Entry |-> Data]
    /\ at = [c \in Cpu |-> "idle"]
    /\ exp = [c \in Cpu |-> EmptyHead]
    /\ arg = [c \in Cpu |-> NULL]
    /\ next = [c \in Cpu |-> NULL]
    /\ ret = [c \in Cpu |-> Pending]
    /\ own \in [Entry -> Cpu \cup {"heap"}]
    /\ stack = <<>>

Goto(c, place) == at' = [at EXCEPT ![c] = place]

\* The seed of an operation: exp_lo from Next, and later exp_hi from SeqDepth.
SeedNext(c) == exp' = [exp EXCEPT ![c].Next = head.Next]
SeedSeq(c)  == exp' = [exp EXCEPT ![c].Seq = head.Seq, ![c].Depth = head.Depth]

\* Mutant: the sequence number stays as it is.
BugNewHead(c, first, depth) == [Next |-> first, Seq |-> exp[c].Seq, Depth |-> depth]

\* The header an operation wants to install.
NewHead(c, first, depth) == [Next |-> first, Seq |-> exp[c].Seq + 1, Depth |-> depth]

\* dcas16b installs h, or fails and loads the header it found.
DcasWins(c, h) == head = exp[c] /\ head' = h
DcasFails(c) == head # exp[c] /\ exp' = [exp EXCEPT ![c] = head] /\ UNCHANGED head

Finish(c, v) == Goto(c, "done") /\ ret' = [ret EXCEPT ![c] = v]

(* ------------------------ ExInterlockedPushEntrySList ------------------- *)

PushCall(c, e) ==
    /\ at[c] = "idle" /\ own[e] = c
    /\ arg' = [arg EXCEPT ![c] = e]
    /\ SeedNext(c)
    /\ Goto(c, "push_seq")
    /\ UNCHANGED <<head, link, next, ret, own, stack>>

PushSeed(c) ==
    /\ at[c] = "push_seq"
    /\ SeedSeq(c)
    /\ Goto(c, "push_link")
    /\ UNCHANGED <<head, link, arg, next, ret, own, stack>>

PushLink(c) ==
    /\ at[c] = "push_link"
    /\ link' = [link EXCEPT ![arg[c]] = exp[c].Next]
    /\ Goto(c, "push_dcas")
    /\ UNCHANGED <<head, exp, arg, next, ret, own, stack>>

\* The depth saturates instead of wrapping to 0.
DepthUp(d) == IF d < SLIST_DEPTH_MAX THEN d + 1 ELSE SLIST_DEPTH_MAX

PushWins(c) ==
    /\ at[c] = "push_dcas"
    /\ DcasWins(c, NewHead(c, arg[c], DepthUp(exp[c].Depth)))
    /\ own' = [own EXCEPT ![arg[c]] = "list"]
    /\ stack' = <<arg[c]>> \o stack
    /\ Finish(c, exp[c].Next)
    /\ UNCHANGED <<link, exp, arg, next>>

PushFails(c) ==
    /\ at[c] = "push_dcas"
    /\ DcasFails(c)
    /\ Goto(c, "push_link")
    /\ UNCHANGED <<link, arg, next, ret, own, stack>>

(* ------------------------ ExInterlockedPopEntrySList -------------------- *)

\* The top of the loop: an empty list ends the pop.
PopLoop(c, first, place) ==
    IF first = NULL THEN Finish(c, NULL) ELSE Goto(c, place) /\ UNCHANGED ret

PopCall(c) ==
    /\ at[c] = "idle"
    /\ SeedNext(c)
    /\ PopLoop(c, head.Next, "pop_seq")
    /\ UNCHANGED <<head, link, arg, next, own, stack>>

PopSeed(c) ==
    /\ at[c] = "pop_seq"
    /\ SeedSeq(c)
    /\ Goto(c, "pop_next")
    /\ UNCHANGED <<head, link, arg, next, ret, own, stack>>

\* The node may be off the list by now: whatever its link word holds is read.
PopNext(c) ==
    /\ at[c] = "pop_next"
    /\ next' = [next EXCEPT ![c] = link[exp[c].Next]]
    /\ Goto(c, "pop_dcas")
    /\ UNCHANGED <<head, link, exp, arg, ret, own, stack>>

\* The depth is 0 with entries on the list once it has saturated.
DepthDown(d) == IF d > 0 THEN d - 1 ELSE 0

PopWins(c) ==
    /\ at[c] = "pop_dcas"
    /\ DcasWins(c, NewHead(c, next[c], DepthDown(exp[c].Depth)))
    /\ own' = [own EXCEPT ![exp[c].Next] = c]
    /\ stack' = IF stack = <<>> THEN <<>> ELSE Tail(stack)
    /\ Finish(c, exp[c].Next)
    /\ UNCHANGED <<link, exp, arg, next>>

\* Mutant: the next attempt keeps what node->Next of the first held.
BugPopFails(c) ==
    /\ at[c] = "pop_dcas"
    /\ DcasFails(c)
    /\ PopLoop(c, head.Next, "pop_dcas")
    /\ UNCHANGED <<link, arg, next, own, stack>>

PopFails(c) ==
    /\ at[c] = "pop_dcas"
    /\ DcasFails(c)
    /\ PopLoop(c, head.Next, "pop_next")
    /\ UNCHANGED <<link, arg, next, own, stack>>

(* ------------------------- ExInterlockedFlushSList ---------------------- *)

FlushCall(c) ==
    /\ at[c] = "idle"
    /\ SeedNext(c)
    /\ Goto(c, "flush_seq")
    /\ UNCHANGED <<head, link, arg, next, ret, own, stack>>

FlushSeed(c) ==
    /\ at[c] = "flush_seq"
    /\ SeedSeq(c)
    /\ Goto(c, "flush_dcas")
    /\ UNCHANGED <<head, link, arg, next, ret, own, stack>>

FlushWins(c) ==
    /\ at[c] = "flush_dcas"
    /\ DcasWins(c, NewHead(c, NULL, 0))
    /\ own' = [e \in Entry |-> IF own[e] = "list" THEN c ELSE own[e]]
    /\ stack' = <<>>
    /\ Finish(c, exp[c].Next)
    /\ UNCHANGED <<link, exp, arg, next>>

FlushFails(c) ==
    /\ at[c] = "flush_dcas"
    /\ DcasFails(c)
    /\ UNCHANGED <<link, at, arg, next, ret, own, stack>>

(* --------------------------------- Callers ------------------------------ *)

Pushing(c) == at[c] \in {"push_seq", "push_link", "push_dcas"}

\* The holder of an entry, or the heap, writes over its link word.
Overwrite(e) ==
    /\ own[e] # "list" /\ link[e] # Data
    /\ \A c \in Cpu : Pushing(c) => arg[c] # e
    /\ link' = [link EXCEPT ![e] = Data]
    /\ UNCHANGED <<head, at, exp, arg, next, ret, own, stack>>

\* The caller takes the result; the locals of the operation are gone.
Collect(c) ==
    /\ at[c] = "done"
    /\ Goto(c, "idle")
    /\ ret' = [ret EXCEPT ![c] = Pending]
    /\ exp' = [exp EXCEPT ![c] = EmptyHead]
    /\ arg' = [arg EXCEPT ![c] = NULL]
    /\ next' = [next EXCEPT ![c] = NULL]
    /\ UNCHANGED <<head, link, stack>>

\* The steps of an operation under way.
SListStep(c) ==
    \/ PushSeed(c) \/ PushLink(c) \/ PushWins(c) \/ PushFails(c)
    \/ PopSeed(c) \/ PopNext(c) \/ PopWins(c) \/ PopFails(c)

FlushStep(c) == FlushSeed(c) \/ FlushWins(c) \/ FlushFails(c)

SListNext ==
    \/ \E c \in Cpu : \/ \E e \in Entry : PushCall(c, e)
                      \/ PopCall(c) \/ FlushCall(c)
                      \/ SListStep(c) \/ FlushStep(c)
                      \/ Collect(c) /\ UNCHANGED own
    \/ \E e \in Entry : Overwrite(e)

SListSpec == SListInit /\ [][SListNext]_svars

(* -------------------------------- Properties ---------------------------- *)

\* Following the links from the header visits the entries of the stack in
\* order and ends: no push or pop, however late its compare-and-swap comes,
\* has installed a link word that was read before the entry was reused.
ChainMatches ==
    /\ head.Next = IF stack = <<>> THEN NULL ELSE stack[1]
    /\ \A i \in 1 .. Len(stack) :
         link[stack[i]] = IF i = Len(stack) THEN NULL ELSE stack[i + 1]

\* The entries on the list are the ones nobody holds, each of them once.
HeldOnce ==
    /\ \A i \in 1 .. Len(stack) : own[stack[i]] = "list"
    /\ \A e \in Entry : own[e] = "list" => \E i \in 1 .. Len(stack) : stack[i] = e
    /\ \A i, j \in 1 .. Len(stack) : stack[i] = stack[j] => i = j

\* The reported depth is exact while the list cannot outgrow its 16 bits, and
\* never promises more entries than there are.
DepthHonest ==
    IF Cardinality(Entry) <= SLIST_DEPTH_MAX THEN head.Depth = Len(stack)
                                             ELSE head.Depth <= Len(stack)

\* The list in memory is the stack that the finished operations describe, and
\* no entry is both on it and in the hands of a caller or of the heap.
SListInv == ChainMatches /\ HeldOnce /\ DepthHonest

Abstract == INSTANCE LifoStack

\* Each push, pop and flush takes effect at once, at its compare-and-swap or at
\* the load that finds the list empty, and returns what the stack held then.
ImplementsStack == Abstract!Spec
=============================================================================
