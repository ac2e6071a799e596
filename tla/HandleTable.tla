---------------------------- MODULE HandleTable ------------------------------
(***************************************************************************)
(* Handle tables, src/kernel/ob/handle_table.c, and the system calls on    *)
(* handles of src/kernel/ob/ob.c.  A handle is its slot number.            *)
(*                                                                         *)
(* The tables have no lock.  One call on a table is one step, except       *)
(* NtDuplicateObject: its callbacks, its on_open, and whoever preempts it  *)
(* may close, open and protect handles under it.  Trace, type statistics   *)
(* and the one-shot quota warning are left out.                            *)
(***************************************************************************)
EXTENDS ObObject, FiniteSetsExt

CONSTANTS Table,
          Right,                      \* access rights
          Request,                    \* masks callers ask for
          Written,                    \* masks callbacks write
          Attributes,                 \* attributes callers ask for
          HANDLE_TABLE_INIT_CAP,
          DEFAULT_LIMIT,              \* handle.quota_default
          Limit,                      \* quotas set later, 0 for unlimited
          HANDLE_TABLE_ABSOLUTE_MAX,
          OBJ_INHERIT, OBJ_PROTECT_CLOSE,
          None

Attr == {OBJ_INHERIT, OBJ_PROTECT_CLOSE}

\* HANDLE_TABLE_ENTRY, of a handle in use; `allowed' is history: the rights that
\* everyone who asked for the handle, or for one it descends from, asked for and
\* that no callback took out of any of them.
EntryType == [object : Object, granted_access : SUBSET Right, attributes : SUBSET Attr, allowed : SUBSET Right]

ASSUME HandleTableConstants ==
    /\ HANDLE_TABLE_INIT_CAP \in Nat \ {0} /\ DEFAULT_LIMIT \in Nat /\ Limit \subseteq Nat
    /\ HANDLE_TABLE_ABSOLUTE_MAX \in Nat \ {0}
    /\ Request \subseteq SUBSET Right /\ Written \subseteq SUBSET Right /\ Attributes \subseteq SUBSET Attr
    /\ IsFiniteSet(Table) /\ None \notin Object /\ None \notin EntryType

VARIABLES table,           \* entries, count and handle_limit of each HANDLE_TABLE
          op               \* NtDuplicateObject under way

hvars == <<table, op>>
vars == <<ovars, hvars>>

NoEntries == [i \in {} |-> None]
Fresh == [entries |-> [i \in 0 .. HANDLE_TABLE_INIT_CAP - 1 |-> None], count |-> 0,
          handle_limit |-> DEFAULT_LIMIT]
Destroyed == [entries |-> NoEntries, count |-> 0, handle_limit |-> DEFAULT_LIMIT]

Capacity(tab) == Cardinality(DOMAIN tab.entries)
Exists(t) == DOMAIN table[t].entries # {}

\* History: `torn', on_close of the object has run since the call; `lost', the
\* source was closed by somebody else and the call cannot know; `gone', the
\* destination was.
NoOp == [at |-> "no", src |-> None, slot |-> 0, object |-> None, ceiling |-> {}, access |-> {}, allowed |-> {},
         move |-> FALSE, dst |-> None, new |-> 0, torn |-> FALSE, lost |-> FALSE, gone |-> FALSE]

Init ==
    /\ ObInit
    /\ table \in {[t \in Table |-> IF t = p THEN Fresh ELSE Destroyed] : p \in Table}
    /\ op = NoOp

(* ------------------------------ Allocation ------------------------------- *)

\* The handles a table may have.
Quota(tab) == IF tab.handle_limit > 0 THEN tab.handle_limit ELSE HANDLE_TABLE_ABSOLUTE_MAX

\* Mutant: the ceiling forgets that slot 0 is reserved.
BugCeiling(tab) == Quota(tab)

\* The slots that takes, with the reserved slot 0.
Ceiling(tab) == Quota(tab) + 1

CanGrow(tab) == Capacity(tab) < Ceiling(tab)

\* handle_table_grow.
Grown(tab) ==
    LET new_cap == Min({2 * Capacity(tab), Ceiling(tab)})
    IN  [tab EXCEPT !.entries =
            [i \in 0 .. new_cap - 1 |-> IF i \in DOMAIN tab.entries THEN tab.entries[i] ELSE None]]

FreeSlots(tab) == {i \in DOMAIN tab.entries \ {0} : tab.entries[i] = None}
Used(tab) == {i \in DOMAIN tab.entries : tab.entries[i] # None}

WithinQuota(tab) == tab.handle_limit = 0 \/ tab.count < tab.handle_limit

\* Whether an allocation that is allowed, and gets its memory, succeeds.
MayAllocate(tab) == DOMAIN tab.entries # {} /\ WithinQuota(tab) /\ (FreeSlots(tab) # {} \/ CanGrow(tab))

\* The slot it takes, and the table with room for it.
NewSlot(tab) == IF FreeSlots(tab) # {} THEN Min(FreeSlots(tab)) ELSE Capacity(tab)
Roomy(tab) == IF FreeSlots(tab) # {} THEN tab ELSE Grown(tab)

Filled(tab, i, e) == [tab EXCEPT !.entries[i] = e, !.count = @ + 1]

Entry(o, access, attrs, allowed) ==
    [object |-> o, granted_access |-> access, attributes |-> attrs, allowed |-> allowed]

HandleAdded(h) == [Referenced(h) EXCEPT !.handle_count = @ + 1]

\* Mutant: each callback is clamped to the request, not to what it was shown.
BugClamped(request, prior, written) == written \cap request

\* The mask after a pre-callback that was shown `prior' wrote `written'.
Clamped(request, prior, written) == written \cap prior

\* The callback took the last right: the operation is denied.
Denies(prior, after) == after = {} /\ prior # {}

\* A handle to the object being duplicated takes the slot of its source: the call
\* will take it for the source.
Reopened(t, i, o) == op.at = "pre" /\ t = op.src /\ i = op.slot /\ o = op.object

\* ObpAllocateHandle, by kernel code that holds a reference, a callback of
\* NtDuplicateObject included; two pre-callbacks write their masks.
ObpAllocateHandle(t, o, access, w1, w2, attrs) ==
    LET first == Clamped(access, access, w1)
        second == Clamped(access, first, w2)
    IN  /\ held[o] > 0
        /\ ~Denies(access, first) /\ ~Denies(first, second)
        /\ MayAllocate(table[t])
        /\ table' = [table EXCEPT ![t] =
               Filled(Roomy(@), NewSlot(@), Entry(o, second, attrs, access \cap w1 \cap w2))]
        /\ obj' = [obj EXCEPT ![o] = HandleAdded(@)]
        /\ op' = [op EXCEPT !.lost = @ \/ Reopened(t, NewSlot(table[t]), o)]
        /\ UNCHANGED <<dir, held>>

(* -------------------------------- Closing -------------------------------- *)

\* The tables without the handles S of table t.
Emptied(t, S) ==
    [table EXCEPT ![t].entries = [i \in DOMAIN @ |-> IF i \in S THEN None ELSE @[i]],
                  ![t].count = @ - Cardinality(S)]

\* The headers once those handles are closed and the pin on object p, if it is
\* one, is dropped.
Closed(t, S, p) ==
    [o \in Object |->
       LET n == Cardinality({i \in S : table[t].entries[i].object = o})
           refs == IF o = p THEN n + 1 ELSE n
       IN  IF refs = 0 THEN obj[o]
           ELSE Dereferenced([obj[o] EXCEPT !.handle_count = @ - n], refs)]

Closable(t, i) == i \in Used(table[t]) /\ OBJ_PROTECT_CLOSE \notin table[t].entries[i].attributes

\* A duplicate under way after on_close, if this was the object's last handle.
Watched(f) == [f EXCEPT !.torn = @ \/ (f.at # "no" /\ obj'[f.object].handle_count = 0)]

\* A duplicate under way when somebody else closes handle i of table t.
Missed(t, i) == [op EXCEPT !.lost = @ \/ (op.at \in {"open", "close"} /\ t = op.src /\ i = op.slot),
                           !.gone = @ \/ (op.at = "close" /\ t = op.dst /\ i = op.new)]

\* NtClose, also while NtDuplicateObject is under way.
NtClose(t, i) ==
    /\ Closable(t, i)
    /\ table' = Emptied(t, {i}) /\ obj' = Closed(t, {i}, None)
    /\ op' = Watched(Missed(t, i))
    /\ UNCHANGED <<dir, held>>

\* Mutant: protected handles are left as they are.
BugSwept(t) == {i \in Used(table[t]) : Closable(t, i)}

\* Process rundown closes protected handles too.
Swept(t) == Used(table[t])

ob_handle_table_destroy(t) ==
    /\ op.at = "no" /\ Exists(t)
    /\ obj' = Closed(t, Swept(t), None)
    /\ table' = [table EXCEPT ![t] = Destroyed]
    /\ UNCHANGED <<dir, held, op>>

\* Kernel code sets the bit through the entry that ObpLookupHandle returns.
Protect(t, i) ==
    /\ i \in Used(table[t])
    /\ table' = [table EXCEPT ![t].entries[i].attributes = @ \cup {OBJ_PROTECT_CLOSE}]
    /\ UNCHANGED <<ovars, op>>

ob_handle_table_set_limit(t, new_limit) ==
    /\ Exists(t)
    /\ table' = [table EXCEPT ![t].handle_limit = Min({new_limit, HANDLE_TABLE_ABSOLUTE_MAX})]
    /\ UNCHANGED <<ovars, op>>

(* ------------------------------- Inheritance ------------------------------ *)

Inheritable(t) == {i \in Used(table[t]) : OBJ_INHERIT \in table[t].entries[i].attributes}

\* The child's table after n calls of handle_table_grow.
GrownTimes[n \in Nat] == IF n = 0 THEN Fresh ELSE Grown(GrownTimes[n - 1])

\* It grows until it covers slot i, cannot grow further, or runs out of memory.
MayHaveGrown(n, i) ==
    \A k \in 0 .. n - 1 : Capacity(GrownTimes[k]) <= i /\ CanGrow(GrownTimes[k])

\* A process is created: its table is initialised and takes over the inheritable
\* handles that fit, at the same slots, past quota and callbacks.
ob_handle_table_inherit(parent, child, n) ==
    /\ op.at = "no" /\ Exists(parent) /\ ~Exists(child)
    /\ MayHaveGrown(n, Max({0} \cup Inheritable(parent)))
    /\ LET new == GrownTimes[n]
           copied == Inheritable(parent) \cap DOMAIN new.entries
           copies(o) == Cardinality({i \in copied : table[parent].entries[i].object = o})
       IN  /\ table' = [table EXCEPT ![child] =
                 [new EXCEPT !.entries = [i \in DOMAIN @ |-> IF i \in copied THEN table[parent].entries[i] ELSE None],
                             !.count = Cardinality(copied)]]
           /\ obj' = [o \in Object |-> [obj[o] EXCEPT !.ref_count = @ + copies(o),
                                                     !.handle_count = @ + copies(o)]]
    /\ UNCHANGED <<dir, held, op>>

(* ----------------------------- NtDuplicateObject -------------------------- *)

\* The snapshot, the protected-source test, the ceiling on the access, and the
\* pin.  `desired' = Right stands for DUPLICATE_SAME_ACCESS and MAXIMUM_ALLOWED.
DupCall(t, i, desired, move) ==
    /\ op.at = "no" /\ i \in Used(table[t])
    /\ LET e == table[t].entries[i]
           access == e.granted_access \cap desired
       IN  /\ ~(move /\ OBJ_PROTECT_CLOSE \in e.attributes)
           /\ op' = [NoOp EXCEPT !.at = "pre", !.src = t, !.slot = i, !.object = e.object, !.move = move,
                       !.ceiling = access, !.access = access, !.allowed = e.allowed \cap desired]
           /\ obj' = [obj EXCEPT ![e.object] = Referenced(@)]
    /\ UNCHANGED <<dir, held, table>>

\* One pre-callback returns; what it does to handles are steps of their own.
DupCallback(written) ==
    LET after == Clamped(op.ceiling, op.access, written)
    IN  /\ op.at = "pre" /\ ~Denies(op.access, after)
        /\ op' = [op EXCEPT !.access = after, !.allowed = @ \cap written]
        /\ UNCHANGED <<ovars, table>>

SourceHolds == op.slot \in Used(table[op.src]) /\ table[op.src].entries[op.slot].object = op.object

\* Mutant: the source is not looked up again.
BugRevalidated == TRUE

\* The source after the pre-callbacks.
Revalidated == SourceHolds /\ (op.move => Closable(op.src, op.slot))

DupRevalidates ==
    /\ op.at = "pre" /\ Revalidated
    /\ op' = [op EXCEPT !.at = "open", !.access = @ \cap op.ceiling]
    /\ UNCHANGED <<ovars, table>>

Unpinned == [obj EXCEPT ![op.object] = Dereferenced(@, 1)]

\* Denied by a callback or by on_open, out of quota or memory, or the source gone.
DupFails ==
    /\ op.at \in {"pre", "open"}
    /\ obj' = Unpinned
    /\ op' = NoOp
    /\ UNCHANGED <<dir, held, table>>

\* The call once it has its result: what it no longer needs is forgotten.
Done(f) == [NoOp EXCEPT !.at = "post", !.object = f.object, !.torn = f.torn]

\* on_open has returned.  The destination comes first, so that handle_count does
\* not touch 0.  Its table and attributes, arguments of the call, matter from here
\* on; the access stored is cut to the ceiling again.
DupAllocates(u, attrs) ==
    /\ op.at = "open"
    /\ MayAllocate(table[u])
    /\ table' = [table EXCEPT ![u] =
           Filled(Roomy(@), NewSlot(@), Entry(op.object, op.access \cap op.ceiling, attrs, op.allowed))]
    /\ obj' = [obj EXCEPT ![op.object] = HandleAdded(@)]
    /\ op' = IF op.move
             THEN [op EXCEPT !.at = "close", !.dst = u, !.new = NewSlot(table[u]),
                             !.ceiling = {}, !.access = {}, !.allowed = {}]
             ELSE Done(op)
    /\ UNCHANGED <<dir, held>>

\* Whatever handle is in the source's slot by now.
DupCloses ==
    /\ op.at = "close" /\ Closable(op.src, op.slot)
    /\ table' = Emptied(op.src, {op.slot}) /\ obj' = Closed(op.src, {op.slot}, None)
    /\ op' = Watched(Done(op))
    /\ UNCHANGED <<dir, held>>

\* The source was protected or closed meanwhile: what is in the destination's slot
\* goes, protected or not.
DupRollsBack ==
    LET S == {op.new} \cap Used(table[op.dst])
    IN  /\ op.at = "close" /\ ~Closable(op.src, op.slot)
        /\ table' = Emptied(op.dst, S) /\ obj' = Closed(op.dst, S, op.object)
        /\ op' = NoOp
        /\ UNCHANGED <<dir, held>>

\* The post-callbacks have returned.
DupEnds ==
    /\ op.at = "post"
    /\ obj' = Unpinned
    /\ op' = NoOp
    /\ UNCHANGED <<dir, held, table>>

(* ------------------------------ Specification ----------------------------- *)

TableStep ==
    \/ \E t \in Table, o \in Object, access \in Request, w1, w2 \in Written, attrs \in Attributes :
           ObpAllocateHandle(t, o, access, w1, w2, attrs)
    \/ \E t \in Table : ob_handle_table_destroy(t)
    \/ \E t \in Table : \E i \in DOMAIN table[t].entries : NtClose(t, i) \/ Protect(t, i)
    \/ \E t \in Table, limit \in Limit : ob_handle_table_set_limit(t, limit)
    \/ \E parent, child \in Table, n \in 0 .. HANDLE_TABLE_ABSOLUTE_MAX : ob_handle_table_inherit(parent, child, n)

DupStep ==
    \/ \E t \in Table, desired \in Request \cup {Right}, move \in BOOLEAN :
           \E i \in DOMAIN table[t].entries : DupCall(t, i, desired, move)
    \/ DupFails
    \/ \E written \in Written : DupCallback(written)
    \/ DupRevalidates
    \/ \E u \in Table, attrs \in Attributes : DupAllocates(u, attrs)
    \/ DupCloses
    \/ DupRollsBack
    \/ DupEnds

Next == (ObStep /\ UNCHANGED hvars) \/ TableStep \/ DupStep

Spec == Init /\ [][Next]_vars

(* -------------------------------- Properties ------------------------------ *)

Handles(o) == Cardinality(UNION {{t} \X {i \in Used(table[t]) : table[t].entries[i].object = o} : t \in Table})

\* An object lives exactly as long as something refers to it: every reference is
\* a handle, the directory's, one held by kernel code or the pin of a duplicate,
\* handle_count counts the handles, and nothing refers to a freed object.
RefsExact ==
    \A o \in Object :
        /\ obj[o].handle_count = Handles(o)
        /\ obj[o].ref_count = Handles(o) + held[o] + (IF o \in dir THEN 1 ELSE 0)
                                + (IF op.object = o THEN 1 ELSE 0)
        /\ obj[o].live <=> obj[o].ref_count > 0

\* A table counts its handles, never uses slot 0 (handle NULL), and below its
\* quota always has a free slot or may grow.
QuotaReachable ==
    \A t \in Table : Exists(t) =>
        /\ table[t].count = Cardinality(Used(table[t]))
        /\ 0 \notin Used(table[t])
        /\ table[t].count < Quota(table[t]) => MayAllocate(table[t])

\* Through chains of callbacks, duplicates of duplicates and inheritance, whatever
\* the callbacks write, no handle carries a right that someone in its descent did
\* not ask for or that a callback took out: no later callback gives it back.
AccessNeverGrows ==
    \A t \in Table : \A i \in Used(table[t]) :
        table[t].entries[i].granted_access \subseteq table[t].entries[i].allowed

\* A duplicate that succeeds returns a handle to an object whose on_close has not
\* run since the call, unless the source was closed and re-opened in its slot
\* before the source is looked up again, or a handle was closed after that.
NoTornDuplicate == [][op.at # "post" /\ op'.at = "post" /\ op'.torn => op.lost \/ op.gone]_vars

\* A transfer never leaves both handles, and leaves neither only if somebody else
\* closed one of them after the source was looked up again.
TransferIsAtomic ==
    [][op.at = "close" /\ op'.at # "close" =>
         IF op'.at = "post"
         THEN op.slot \notin Used(table'[op.src]) /\ (op.new \in Used(table'[op.dst]) \/ op.lost \/ op.gone)
         ELSE op.new \notin Used(table'[op.dst]) /\ (op.slot \in Used(table'[op.src]) \/ op.lost)]_vars

\* NtDuplicateObject is all or nothing against whatever its callbacks do before
\* the source is looked up again, and against protection at any time.
DuplicateIsAtomic == NoTornDuplicate /\ TransferIsAtomic
=============================================================================
