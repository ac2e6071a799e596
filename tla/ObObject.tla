------------------------------ MODULE ObObject -------------------------------
(***************************************************************************)
(* Object headers and one directory of the namespace, src/kernel/ob/ob.c   *)
(* and ob_ns.c.  A step is one call; the directory's calls are sections of *)
(* its lock.  Bodies, types, names and security descriptors are left out:  *)
(* an object has one name.                                                 *)
(***************************************************************************)
EXTENDS Integers, FiniteSets

CONSTANTS Object,
          HELD_MAX         \* bound: references kernel code holds to an object

ASSUME ObObjectConstants == HELD_MAX \in Nat \ {0}

VARIABLES obj,             \* OBJECT_HEADER
          dir,             \* the objects the directory names
          held             \* history: references held by kernel code

ovars == <<obj, dir, held>>

Freed == [live |-> FALSE, ref_count |-> 0, handle_count |-> 0, permanent |-> FALSE]

ObInit ==
    /\ obj = [o \in Object |-> Freed]
    /\ dir = {}
    /\ held = [o \in Object |-> 0]

Referenced(h) == [h EXCEPT !.ref_count = @ + 1]

\* A header after n calls of ObDereferenceObject.  A permanent object gets a
\* standing reference back in place of being freed.
Dereferenced(h, n) ==
    IF h.ref_count > n THEN [h EXCEPT !.ref_count = @ - n]
    ELSE IF h.permanent THEN [h EXCEPT !.ref_count = 1]
    ELSE Freed

ob_alloc_object(o) ==
    /\ ~obj[o].live
    /\ obj' = [obj EXCEPT ![o] = [Freed EXCEPT !.live = TRUE, !.ref_count = 1]]
    /\ held' = [held EXCEPT ![o] = 1]
    /\ UNCHANGED dir

\* Inserted by its creator, which first marks it permanent where it is to
\* outlive its handles.
ObInsertObject(o, permanent) ==
    /\ held[o] > 0 /\ o \notin dir
    /\ obj' = [obj EXCEPT ![o] = [Referenced(@) EXCEPT !.permanent = permanent]]
    /\ dir' = dir \cup {o}
    /\ UNCHANGED held

ObLookupObjectByName(o) ==
    /\ o \in dir /\ held[o] < HELD_MAX
    /\ obj' = [obj EXCEPT ![o] = Referenced(@)]
    /\ held' = [held EXCEPT ![o] = @ + 1]
    /\ UNCHANGED dir

ObMakeTemporaryObject(o) ==
    /\ held[o] > 0 /\ obj[o].permanent
    /\ obj' = [obj EXCEPT ![o].permanent = FALSE]
    /\ UNCHANGED <<dir, held>>

\* Its callers make the object temporary first.
ObpRemoveFromDirectory(o) ==
    /\ held[o] > 0 /\ o \in dir /\ ~obj[o].permanent
    /\ dir' = dir \ {o}
    /\ obj' = [obj EXCEPT ![o] = Dereferenced(@, 1)]
    /\ UNCHANGED held

ObDereferenceObject(o) ==
    /\ held[o] > 0
    /\ obj' = [obj EXCEPT ![o] = Dereferenced(@, 1)]
    /\ held' = [held EXCEPT ![o] = @ - 1]
    /\ UNCHANGED dir

ObStep ==
    \E o \in Object :
        \/ ob_alloc_object(o)
        \/ \E permanent \in BOOLEAN : ObInsertObject(o, permanent)
        \/ ObLookupObjectByName(o)
        \/ ObMakeTemporaryObject(o)
        \/ ObpRemoveFromDirectory(o)
        \/ ObDereferenceObject(o)
=============================================================================
