------------------------- MODULE HandleTableProofs --------------------------
(***************************************************************************)
(* Proofs about HandleTable, for any objects, any finite set of tables,    *)
(* any rights, quotas and initial size.                                    *)
(***************************************************************************)
EXTENDS HandleTable, FiniteSetTheorems, TLAPS

-----------------------------------------------------------------------------
(* The inductive invariant *)

Header == [live : BOOLEAN, ref_count : Nat, handle_count : Nat, permanent : BOOLEAN]

\* The arrays of entries: slots 0 .. capacity - 1.
Arrays == UNION {[0 .. c - 1 -> EntryType \cup {None}] : c \in Nat}

TableType == [entries : Arrays, count : Nat, handle_limit : Nat]

OpType == [at : {"no", "pre", "open", "close", "post"}, src : Table \cup {None}, slot : Nat,
           object : Object \cup {None}, ceiling : SUBSET Right, access : SUBSET Right, allowed : SUBSET Right,
           move : BOOLEAN, dst : Table \cup {None}, new : Nat, torn : BOOLEAN, lost : BOOLEAN, gone : BOOLEAN]

\* Each variable has its type; an object is being duplicated when a call is
\* under way.
HandleTypeOK ==
    /\ obj \in [Object -> Header] /\ dir \subseteq Object /\ held \in [Object -> Nat]
    /\ table \in [Table -> TableType]
    /\ op \in OpType
    /\ op.at = "no" <=> op.object = None
    /\ op.at \in {"pre", "open", "close"} => op.src \in Table
    /\ op.at = "close" => op.dst \in Table

\* A table counts its handles and does not use slot 0.
Counted(tab) == tab.count = Cardinality(Used(tab)) /\ 0 \notin Used(tab)

TablesCounted == \A t \in Table : Counted(table[t])

\* A permanent object is in the directory: its last reference is never a handle.
PermanentNamed == \A o \in Object : obj[o].permanent => o \in dir

\* The access computed for a duplicate is allowed.
SnapshotAllowed == op.at \in {"pre", "open"} => op.access \subseteq op.allowed

\* Handle i of table t is a handle to object o.
Names(t, i, o) == i \in Used(table[t]) /\ table[t].entries[i].object = o

Source == Names(op.src, op.slot, op.object)
Destination == Names(op.dst, op.new, op.object)

\* Once its object was torn down, a duplicate finds its source only if it was
\* re-opened.  Past the look-up the source is there and its object was not torn
\* down, and so is the destination once it is open, another handle, unless the
\* source was lost or the destination gone.
DupProgress ==
    /\ op.at = "pre" /\ op.torn /\ Source => op.lost
    /\ op.at \in {"open", "close"} /\ ~op.lost => Source /\ ~op.torn
    /\ op.at = "close" /\ ~op.lost => <<op.src, op.slot>> # <<op.dst, op.new>> /\ (Destination \/ op.gone)

HandleInd == HandleTypeOK /\ TablesCounted /\ RefsExact /\ PermanentNamed /\ AccessNeverGrows
               /\ SnapshotAllowed /\ DupProgress

-----------------------------------------------------------------------------
(* Numbers *)

\* A set of naturals that is not empty has a least element.
LEMMA LeastNatural ==
    ASSUME NEW T, T \subseteq Nat, T # {}
    PROVE  \E x \in T : \A y \in T : x <= y
<1> DEFINE R == OpToRel(<, Nat)
<1>1. IsWellFoundedOn(R, Nat)
    BY NatLessThanWellFounded
<1>2. \A x, y \in Nat : x < y => <<x, y>> \in R
    BY DEF OpToRel
<1> HIDE DEF R
<1>3. PICK x \in T : \A y \in T : ~ (<<y, x>> \in R)
    BY <1>1, WFMin
<1>4. ASSUME NEW y \in T PROVE x <= y
  <2>1. x \in Nat /\ y \in Nat
    BY <1>3, Zenon
  <2>2. ~(y < x)
    BY <1>2, <1>3, <2>1, Zenon
  <2> QED BY <2>1, <2>2
<1> QED BY <1>3, <1>4, Zenon

\* Min picks an element.
LEMMA MinType ==
    ASSUME NEW T, T \subseteq Nat, T # {}
    PROVE  Min(T) \in T
  BY LeastNatural DEF Min

\* Min of two numbers.
LEMMA MinTwo ==
    ASSUME NEW a \in Nat, NEW b \in Nat
    PROVE  Min({a, b}) = IF a <= b THEN a ELSE b
  BY DEF Min

-----------------------------------------------------------------------------
(* One table *)

\* Its array, and how its capacity relates to it.
LEMMA ArrayOf ==
    ASSUME NEW tab \in TableType
    PROVE  /\ tab.count \in Nat /\ tab.handle_limit \in Nat
           /\ Capacity(tab) \in Nat
           /\ tab.entries \in [0 .. Capacity(tab) - 1 -> EntryType \cup {None}]
           /\ DOMAIN tab.entries = 0 .. Capacity(tab) - 1
<1>1. PICK c \in Nat : tab.entries \in [0 .. c - 1 -> EntryType \cup {None}]
    BY DEF TableType, Arrays
<1>2. DOMAIN tab.entries = 0 .. c - 1
    BY <1>1
<1>3. Cardinality(0 .. c - 1) = c
    BY <1>1, FS_Interval
<1> QED BY <1>1, <1>2, <1>3 DEF TableType, Capacity

\* The slots in use are finitely many and hold entries.
LEMMA UsedOf ==
    ASSUME NEW tab \in TableType
    PROVE  /\ IsFiniteSet(Used(tab)) /\ Used(tab) \subseteq DOMAIN tab.entries /\ Used(tab) \subseteq Nat
           /\ \A i \in Used(tab) : tab.entries[i] \in EntryType
<1>1. IsFiniteSet(0 .. Capacity(tab) - 1)
    BY ArrayOf, FS_Interval
<1>2. Used(tab) \subseteq DOMAIN tab.entries
    BY DEF Used
<1>3. IsFiniteSet(Used(tab))
    BY <1>1, <1>2, ArrayOf, FS_Subset
<1> QED BY <1>2, <1>3, ArrayOf DEF Used

\* The slots of a table that name an object.
Naming(tab, o) == {i \in Used(tab) : tab.entries[i].object = o}

LEMMA NamingFinite ==
    ASSUME NEW tab \in TableType, NEW o
    PROVE  IsFiniteSet(Naming(tab, o)) /\ Cardinality(Naming(tab, o)) \in Nat
<1>1. Naming(tab, o) \subseteq Used(tab)
    BY DEF Naming
<1>2. IsFiniteSet(Naming(tab, o))
    BY <1>1, UsedOf, FS_Subset
<1> QED BY <1>2, FS_CardinalityType

-----------------------------------------------------------------------------
(* All tables *)

Pairs(T, o) == UNION {{t} \X Naming(T[t], o) : t \in Table}

LEMMA HandlesPairs == \A o : Handles(o) = Cardinality(Pairs(table, o))
  BY DEF Handles, Pairs, Naming

LEMMA PairsFinite ==
    ASSUME NEW T \in [Table -> TableType], NEW o, NEW S \in SUBSET Table
    PROVE  IsFiniteSet(UNION {{t} \X Naming(T[t], o) : t \in S})
<1> DEFINE D(t) == {t} \X Naming(T[t], o)
<1>1. IsFiniteSet(S)
    BY HandleTableConstants, FS_Subset
<1>2. \A t \in S : IsFiniteSet(D(t))
    BY NamingFinite, FS_Product, FS_Singleton
<1>3. IsFiniteSet({D(t) : t \in S})
  <2> DEFINE f == [t \in S |-> D(t)]
  <2> HIDE DEF D
  <2>1. f \in Surjection(S, {D(t) : t \in S})
    BY DEF Surjection
  <2> HIDE DEF f
  <2> QED BY <1>1, <2>1, FS_Surjection
<1> QED BY <1>2, <1>3, FS_UNION

\* Where one table differs, the handles of an object differ by those in it.
LEMMA PairsMove ==
    ASSUME NEW T \in [Table -> TableType], NEW u \in Table, NEW new \in TableType, NEW o
    PROVE  /\ Cardinality(Pairs(T, o)) \in Nat
           /\ Cardinality(Naming(T[u], o)) <= Cardinality(Pairs(T, o))
           /\ Cardinality(Pairs([T EXCEPT ![u] = new], o))
                = Cardinality(Pairs(T, o)) - Cardinality(Naming(T[u], o)) + Cardinality(Naming(new, o))
<1> DEFINE Rest == UNION {{t} \X Naming(T[t], o) : t \in Table \ {u}}
           T2 == [T EXCEPT ![u] = new]
<1>1. IsFiniteSet(Rest) /\ Cardinality(Rest) \in Nat
    BY PairsFinite, FS_CardinalityType
<1>2. ASSUME NEW N, IsFiniteSet(N)
      PROVE  Cardinality(Rest \cup ({u} \X N)) = Cardinality(Rest) + Cardinality(N)
  <2>1. Rest \cap ({u} \X N) = {}
    OBVIOUS
  <2>2. IsFiniteSet({u}) /\ Cardinality({u}) = 1 /\ Cardinality(N) \in Nat
    BY <1>2, FS_Singleton, FS_CardinalityType
  <2>3. IsFiniteSet({u} \X N) /\ Cardinality({u} \X N) = Cardinality({u}) * Cardinality(N)
    BY <1>2, <2>2, FS_Product, Zenon
  <2>4. Cardinality({u} \X N) = Cardinality(N)
    BY <2>2, <2>3
  <2> HIDE DEF Rest
  <2>5. Cardinality(Rest \cup ({u} \X N))
          = Cardinality(Rest) + Cardinality({u} \X N) - Cardinality(Rest \cap ({u} \X N))
    BY <1>1, <2>3, FS_Union, Zenon
  <2>6. Cardinality(Rest \cap ({u} \X N)) = 0
    BY <2>1, FS_EmptySet
  <2> QED BY <1>1, <2>2, <2>4, <2>5, <2>6
<1>3. Pairs(T, o) = Rest \cup ({u} \X Naming(T[u], o))
    BY DEF Pairs
<1>4. Pairs(T2, o) = Rest \cup ({u} \X Naming(new, o))
  <2>1. \A t \in Table \ {u} : T2[t] = T[t]
    OBVIOUS
  <2>2. T2[u] = new
    OBVIOUS
  <2> HIDE DEF T2
  <2> QED BY <2>1, <2>2 DEF Pairs
<1>5. T[u] \in TableType
    OBVIOUS
<1> HIDE DEF Rest, T2
<1>6. /\ IsFiniteSet(Naming(T[u], o)) /\ Cardinality(Naming(T[u], o)) \in Nat
      /\ IsFiniteSet(Naming(new, o)) /\ Cardinality(Naming(new, o)) \in Nat
    BY <1>5, NamingFinite
<1>7. Cardinality(Pairs(T, o)) = Cardinality(Rest) + Cardinality(Naming(T[u], o))
    BY <1>2, <1>3, <1>6
<1>8. Cardinality(Pairs(T2, o)) = Cardinality(Rest) + Cardinality(Naming(new, o))
    BY <1>2, <1>4, <1>6
<1> QED BY <1>1, <1>6, <1>7, <1>8 DEF T2

-----------------------------------------------------------------------------
(* Allocation *)

\* The quota is a number, and so are the slots it takes.
LEMMA CeilingType ==
    ASSUME NEW tab \in TableType
    PROVE  Quota(tab) \in Nat \ {0} /\ Ceiling(tab) = Quota(tab) + 1
  BY HandleTableConstants, ArrayOf DEF Quota, Ceiling

\* handle_table_grow adds slots that are free, at least one where it may.
LEMMA GrownTable ==
    ASSUME NEW tab \in TableType, DOMAIN tab.entries # {}
    PROVE  /\ Grown(tab) \in TableType
           /\ Grown(tab).count = tab.count /\ Grown(tab).handle_limit = tab.handle_limit
           /\ DOMAIN Grown(tab).entries # {}
           /\ \A i \in DOMAIN Grown(tab).entries :
                 Grown(tab).entries[i] = IF i \in DOMAIN tab.entries THEN tab.entries[i] ELSE None
           /\ CanGrow(tab) => DOMAIN tab.entries \cup {Capacity(tab)} \subseteq DOMAIN Grown(tab).entries
<1> DEFINE c == Capacity(tab)
           new_cap == Min({2 * c, Ceiling(tab)})
           ents == [i \in 0 .. new_cap - 1 |-> IF i \in DOMAIN tab.entries THEN tab.entries[i] ELSE None]
<1>1. c \in Nat \ {0} /\ DOMAIN tab.entries = 0 .. c - 1
      /\ tab.entries \in [0 .. c - 1 -> EntryType \cup {None}]
    BY ArrayOf
<1>2. new_cap = IF 2 * c <= Ceiling(tab) THEN 2 * c ELSE Ceiling(tab)
    BY <1>1, CeilingType, MinTwo
<1>3. Grown(tab) = [tab EXCEPT !.entries = ents]
    BY DEF Grown
<1>4. new_cap \in Nat \ {0} /\ (c < Ceiling(tab) => c < new_cap)
    BY <1>1, <1>2, CeilingType
<1> HIDE DEF new_cap, c
<1>5. ents \in [0 .. new_cap - 1 -> EntryType \cup {None}]
    BY <1>1
<1>6. ents \in Arrays
    BY <1>4, <1>5 DEF Arrays
<1>7. Grown(tab) \in TableType /\ Grown(tab).count = tab.count /\ Grown(tab).handle_limit = tab.handle_limit
      /\ Grown(tab).entries = ents
  <2> HIDE DEF ents
  <2> QED BY <1>3, <1>6 DEF TableType
<1>8. 0 \in DOMAIN ents
    BY <1>4
<1>9. CanGrow(tab) => DOMAIN tab.entries \cup {c} \subseteq DOMAIN ents
    BY <1>1, <1>4 DEF CanGrow, c
<1> QED BY <1>7, <1>8, <1>9 DEF c

Allocated(tab, e) == Filled(Roomy(tab), NewSlot(tab), e)

\* An allocation that succeeds puts the entry into a slot that was free and is
\* not slot 0, and leaves the other handles as they were.
LEMMA AllocatedTable ==
    ASSUME NEW tab \in TableType, Counted(tab), MayAllocate(tab), NEW e \in EntryType
    PROVE  /\ Allocated(tab, e) \in TableType /\ Counted(Allocated(tab, e))
           /\ NewSlot(tab) \in Nat /\ NewSlot(tab) \notin Used(tab)
           /\ Used(Allocated(tab, e)) = Used(tab) \cup {NewSlot(tab)}
           /\ Allocated(tab, e).entries[NewSlot(tab)] = e
           /\ \A i \in Used(tab) : Allocated(tab, e).entries[i] = tab.entries[i]
<1> DEFINE s == NewSlot(tab)
           r == Roomy(tab)
<1>1. DOMAIN tab.entries # {} /\ (FreeSlots(tab) # {} \/ CanGrow(tab))
    BY DEF MayAllocate
<1>2. DOMAIN tab.entries = 0 .. Capacity(tab) - 1 /\ Capacity(tab) \in Nat \ {0}
    BY <1>1, ArrayOf
<1>3. /\ r \in TableType /\ r.count = tab.count /\ s \in Nat \ {0} /\ s \in DOMAIN r.entries /\ s \notin Used(tab)
      /\ Used(r) = Used(tab) /\ \A i \in Used(tab) : r.entries[i] = tab.entries[i]
  <2>1. CASE FreeSlots(tab) # {}
    <3>1. FreeSlots(tab) \subseteq Nat
        BY <1>2 DEF FreeSlots
    <3>2. s \in FreeSlots(tab)
        BY <2>1, <3>1, MinType DEF NewSlot
    <3>3. r = tab
        BY <2>1 DEF Roomy
    <3> HIDE DEF s, r
    <3> QED BY <1>2, <3>2, <3>3 DEF FreeSlots, Used
  <2>2. CASE FreeSlots(tab) = {}
    <3>1. r = Grown(tab) /\ s = Capacity(tab)
        BY <2>2 DEF Roomy, NewSlot
    <3>2. DOMAIN tab.entries \cup {Capacity(tab)} \subseteq DOMAIN r.entries
        BY <1>1, <2>2, <3>1, GrownTable
    <3>3. r \in TableType /\ r.count = tab.count
          /\ \A i \in DOMAIN r.entries : r.entries[i] = IF i \in DOMAIN tab.entries THEN tab.entries[i] ELSE None
        BY <1>1, <3>1, GrownTable
    <3> HIDE DEF s, r
    <3> QED BY <1>2, <3>1, <3>2, <3>3 DEF Used
  <2> QED BY <2>1, <2>2
<1> DEFINE new == Allocated(tab, e)
           ents == [r.entries EXCEPT ![s] = e]
<1>4. new = [r EXCEPT !.entries = ents, !.count = tab.count + 1]
    BY <1>3 DEF Allocated, Filled
<1> HIDE DEF s, r
<1>5. ents \in Arrays
  <2>1. PICK c \in Nat : r.entries \in [0 .. c - 1 -> EntryType \cup {None}]
    BY <1>3 DEF TableType, Arrays
  <2>2. ents \in [0 .. c - 1 -> EntryType \cup {None}]
    BY <2>1
  <2> QED BY <2>1, <2>2 DEF Arrays
<1>6. DOMAIN ents = DOMAIN r.entries /\ ents[s] = e /\ \A i \in DOMAIN r.entries \ {s} : ents[i] = r.entries[i]
    BY <1>3
<1> HIDE DEF ents
<1>7. new \in TableType /\ new.entries = ents /\ new.count = tab.count + 1
  <2>1. tab.count + 1 \in Nat
    BY ArrayOf
  <2> QED BY <1>3, <1>4, <1>5, <2>1 DEF TableType
<1>8. e # None
    BY HandleTableConstants
<1> HIDE DEF new
<1>9. Used(new) = Used(tab) \cup {s}
  <2>1. Used(new) = Used(r) \cup {s}
    BY <1>3, <1>6, <1>7, <1>8 DEF Used
  <2> QED BY <1>3, <2>1
<1>10. \A i \in Used(tab) : new.entries[i] = tab.entries[i]
  <2> SUFFICES ASSUME NEW i \in Used(tab) PROVE new.entries[i] = tab.entries[i]
    OBVIOUS
  <2>1. i \in DOMAIN r.entries /\ i # s
    BY <1>3 DEF Used
  <2> QED BY <1>3, <1>6, <1>7, <2>1
<1>11. Cardinality(Used(new)) = Cardinality(Used(tab)) + 1
    BY <1>3, <1>9, UsedOf, FS_AddElement
<1>12. Counted(new)
    BY <1>3, <1>7, <1>9, <1>11 DEF Counted
<1> QED BY <1>3, <1>6, <1>7, <1>9, <1>10, <1>12 DEF new, s

\* So its object has one more handle, and no other object has.
LEMMA AllocatedNaming ==
    ASSUME NEW tab \in TableType, Counted(tab), MayAllocate(tab), NEW e \in EntryType, NEW o
    PROVE  Cardinality(Naming(Allocated(tab, e), o))
             = Cardinality(Naming(tab, o)) + (IF o = e.object THEN 1 ELSE 0)
<1> DEFINE s == NewSlot(tab)
           new == Allocated(tab, e)
<1>1. /\ s \notin Used(tab) /\ Used(new) = Used(tab) \cup {s} /\ new.entries[s] = e
      /\ \A i \in Used(tab) : new.entries[i] = tab.entries[i]
    BY AllocatedTable
<1> HIDE DEF s, new
<1>2. s \notin Naming(tab, o)
    BY <1>1 DEF Naming
<1>3. CASE o = e.object
  <2>1. Naming(new, o) = Naming(tab, o) \cup {s}
    BY <1>1, <1>3 DEF Naming
  <2> QED BY <1>2, <1>3, <2>1, NamingFinite, FS_AddElement DEF new
<1>4. CASE o # e.object
  <2>1. Naming(new, o) = Naming(tab, o)
    BY <1>1, <1>4 DEF Naming
  <2> QED BY <1>4, <2>1, NamingFinite DEF new
<1> QED BY <1>3, <1>4

-----------------------------------------------------------------------------
(* Closing *)

\* A table without the handles S.
Cleared(tab, S) ==
    [tab EXCEPT !.entries = [i \in DOMAIN @ |-> IF i \in S THEN None ELSE @[i]],
                !.count = @ - Cardinality(S)]

LEMMA EmptiedCleared ==
    ASSUME table \in [Table -> TableType], NEW t \in Table, NEW S
    PROVE  Emptied(t, S) = [table EXCEPT ![t] = Cleared(table[t], S)]
<1>1. table[t] \in TableType
    OBVIOUS
<1> QED BY <1>1 DEF Emptied, Cleared, TableType

\* Closing handles of a table leaves the others as they were.
LEMMA ClearedTable ==
    ASSUME NEW tab \in TableType, Counted(tab), NEW S, S \subseteq Used(tab)
    PROVE  /\ Cleared(tab, S) \in TableType /\ Counted(Cleared(tab, S))
           /\ Used(Cleared(tab, S)) = Used(tab) \ S
           /\ \A i \in Used(tab) \ S : Cleared(tab, S).entries[i] = tab.entries[i]
<1> DEFINE ents == [i \in DOMAIN tab.entries |-> IF i \in S THEN None ELSE tab.entries[i]]
           new == Cleared(tab, S)
<1>1. new = [tab EXCEPT !.entries = ents, !.count = tab.count - Cardinality(S)]
    BY DEF Cleared, TableType
<1>2. ents \in Arrays
  <2>1. PICK c \in Nat : tab.entries \in [0 .. c - 1 -> EntryType \cup {None}]
    BY DEF TableType, Arrays
  <2>2. ents \in [0 .. c - 1 -> EntryType \cup {None}]
    BY <2>1
  <2> QED BY <2>1, <2>2 DEF Arrays
<1>3. /\ IsFiniteSet(Used(tab)) /\ Cardinality(Used(tab)) \in Nat
      /\ Cardinality(S) \in Nat /\ Cardinality(S) <= Cardinality(Used(tab))
    BY UsedOf, FS_Subset, FS_CardinalityType
<1>4. Cardinality(Used(tab) \ S) = Cardinality(Used(tab)) - Cardinality(S)
  <2>1. Used(tab) \cap S = S
    OBVIOUS
  <2> QED BY <1>3, <2>1, FS_Difference
<1>5. new \in TableType /\ new.entries = ents /\ new.count = tab.count - Cardinality(S)
  <2>1. tab.count - Cardinality(S) \in Nat
    BY <1>3 DEF Counted
  <2> HIDE DEF ents
  <2> QED BY <1>1, <1>2, <2>1 DEF TableType
<1>6. Used(new) = Used(tab) \ S
    BY <1>5 DEF Used
<1>7. Counted(new)
    BY <1>4, <1>5, <1>6 DEF Counted
<1>8. \A i \in Used(tab) \ S : new.entries[i] = tab.entries[i]
    BY <1>5 DEF Used
<1> QED BY <1>5, <1>6, <1>7, <1>8

\* How many of the handles S of a table are handles to object o.
Lost(tab, S, o) == Cardinality({i \in S : tab.entries[i].object = o})

\* An object loses the handles to it that were closed.
LEMMA FewerNaming ==
    ASSUME NEW tab \in TableType, NEW S, S \subseteq Used(tab), NEW o,
           NEW new, Used(new) = Used(tab) \ S, \A i \in Used(new) : new.entries[i] = tab.entries[i]
    PROVE  /\ Lost(tab, S, o) \in Nat /\ Lost(tab, S, o) <= Cardinality(Naming(tab, o))
           /\ Cardinality(Naming(new, o)) = Cardinality(Naming(tab, o)) - Lost(tab, S, o)
<1> DEFINE C == {i \in S : tab.entries[i].object = o}
           N == Naming(tab, o)
<1>1. C \subseteq N
    BY DEF Naming
<1>2. Naming(new, o) = N \ C
    BY DEF Naming
<1>3. IsFiniteSet(N)
    BY NamingFinite
<1> HIDE DEF C, N
<1>4. N \cap C = C
    BY <1>1
<1>5. Cardinality(N \ C) = Cardinality(N) - Cardinality(C)
    BY <1>3, <1>4, FS_Difference
<1>6. Cardinality(C) \in Nat /\ Cardinality(C) <= Cardinality(N)
    BY <1>1, <1>3, FS_Subset, FS_CardinalityType
<1> QED BY <1>2, <1>5, <1>6 DEF C, N, Lost

-----------------------------------------------------------------------------
(* Inheritance *)

\* What GrownTimes is defined by, for the first n calls.
Growth(g, n) == \A k \in 0 .. n : g[k] = IF k = 0 THEN Fresh ELSE Grown(g[k - 1])

LEMMA GrowthUnique ==
    ASSUME NEW g, NEW h, NEW n \in Nat, Growth(g, n), Growth(h, n)
    PROVE  \A k \in 0 .. n : g[k] = h[k]
<1> DEFINE Bad == {k \in 0 .. n : g[k] # h[k]}
<1> SUFFICES ASSUME Bad # {} PROVE FALSE
    OBVIOUS
<1>0. Bad \subseteq Nat
    OBVIOUS
<1>1. PICK x \in Bad : \A y \in Bad : x <= y
  <2> HIDE DEF Bad
  <2> QED BY <1>0, LeastNatural
<1>2. x # 0
    BY <1>1 DEF Growth
<1>3. x - 1 \in 0 .. n /\ ~(x <= x - 1)
    BY <1>1, <1>2
<1>4. g[x - 1] = h[x - 1]
    BY <1>1, <1>3
<1> QED BY <1>1, <1>2, <1>4 DEF Growth

LEMMA GrowthExists == \A n \in Nat : \E g : Growth(g, n)
<1> DEFINE Bad == {n \in Nat : ~ \E g : Growth(g, n)}
<1> SUFFICES ASSUME Bad # {} PROVE FALSE
    OBVIOUS
<1>1. PICK x \in Bad : \A y \in Bad : x <= y
    BY LeastNatural
<1>2. CASE x = 0
  <2> DEFINE g == [k \in 0 .. 0 |-> Fresh]
  <2>1. Growth(g, 0)
    BY DEF Growth
  <2> QED BY <1>1, <1>2, <2>1
<1>3. CASE x # 0
  <2>1. x - 1 \in Nat /\ ~(x <= x - 1)
    BY <1>1, <1>3
  <2>2. PICK g : Growth(g, x - 1)
    BY <1>1, <2>1
  <2> DEFINE h == [k \in 0 .. x |-> IF k = x THEN Grown(g[x - 1]) ELSE g[k]]
  <2>3. Growth(h, x)
    <3> SUFFICES ASSUME NEW k \in 0 .. x PROVE h[k] = IF k = 0 THEN Fresh ELSE Grown(h[k - 1])
        BY DEF Growth
    <3>1. CASE k = x
        BY <1>1, <1>3, <3>1
    <3>2. CASE k # x
      <4>1. k \in 0 .. x - 1 /\ h[k] = g[k]
        BY <1>1, <3>2
      <4>2. g[k] = IF k = 0 THEN Fresh ELSE Grown(g[k - 1])
        BY <2>2, <4>1 DEF Growth
      <4>3. k # 0 => h[k - 1] = g[k - 1]
        BY <1>1, <4>1
      <4> HIDE DEF h
      <4> QED BY <4>1, <4>2, <4>3
    <3> QED BY <3>1, <3>2
  <2> QED BY <1>1, <2>3
<1> QED BY <1>2, <1>3

\* So the recursive definition defines a function.
LEMMA GrownTimesDef == \A n \in Nat : GrownTimes[n] = IF n = 0 THEN Fresh ELSE Grown(GrownTimes[n - 1])
<1> DEFINE pick(n) == CHOOSE g : Growth(g, n)
           f == [n \in Nat |-> pick(n)[n]]
<1>1. \A n \in Nat : Growth(pick(n), n)
    BY GrowthExists
<1> HIDE DEF pick
<1>2. f = [n \in Nat |-> IF n = 0 THEN Fresh ELSE Grown(f[n - 1])]
  <2> SUFFICES ASSUME NEW n \in Nat PROVE f[n] = IF n = 0 THEN Fresh ELSE Grown(f[n - 1])
    OBVIOUS
  <2>1. f[n] = pick(n)[n] /\ n \in 0 .. n
    OBVIOUS
  <2>2. pick(n)[n] = IF n = 0 THEN Fresh ELSE Grown(pick(n)[n - 1])
    BY <1>1, <2>1 DEF Growth
  <2>3. CASE n # 0
    <3>1. n - 1 \in Nat /\ n - 1 \in 0 .. n - 1 /\ f[n - 1] = pick(n - 1)[n - 1]
        BY <2>3
    <3>2. Growth(pick(n), n - 1)
        BY <1>1, <2>3 DEF Growth
    <3>3. Growth(pick(n - 1), n - 1)
        BY <1>1, <3>1
    <3>4. pick(n)[n - 1] = pick(n - 1)[n - 1]
        BY <3>1, <3>2, <3>3, GrowthUnique
    <3> HIDE DEF f
    <3> QED BY <2>1, <2>2, <2>3, <3>1, <3>4
  <2> QED BY <2>1, <2>2, <2>3
<1> HIDE DEF f
<1>3. GrownTimes = [n \in Nat |-> IF n = 0 THEN Fresh ELSE Grown(GrownTimes[n - 1])]
    BY <1>2 DEF GrownTimes
<1> HIDE DEF GrownTimes
<1> QED BY <1>3

\* A table of no handles that has been initialised.
Blank(tab) ==
    /\ tab \in TableType /\ DOMAIN tab.entries # {} /\ tab.count = 0
    /\ \A i \in DOMAIN tab.entries : tab.entries[i] = None

LEMMA FreshBlank == Blank(Fresh)
<1> DEFINE ents == [i \in 0 .. HANDLE_TABLE_INIT_CAP - 1 |-> None]
<1>1. ents \in [0 .. HANDLE_TABLE_INIT_CAP - 1 -> EntryType \cup {None}] /\ 0 \in DOMAIN ents
    BY HandleTableConstants
<1>2. ents \in Arrays
    BY <1>1, HandleTableConstants DEF Arrays
<1>3. \A i \in DOMAIN ents : ents[i] = None
    OBVIOUS
<1> HIDE DEF ents
<1>4. Fresh = [entries |-> ents, count |-> 0, handle_limit |-> DEFAULT_LIMIT]
    BY DEF Fresh, ents
<1> QED BY <1>1, <1>2, <1>3, <1>4, HandleTableConstants DEF Blank, TableType

\* However often it grew, the child's table has no handle yet.
LEMMA GrownTimesBlank == \A n \in Nat : Blank(GrownTimes[n])
<1> DEFINE Bad == {n \in Nat : ~Blank(GrownTimes[n])}
<1> SUFFICES ASSUME Bad # {} PROVE FALSE
    OBVIOUS
<1>1. PICK x \in Bad : \A y \in Bad : x <= y
    BY LeastNatural
<1>2. x # 0
    BY <1>1, FreshBlank, GrownTimesDef
<1>3. x - 1 \in Nat /\ ~(x <= x - 1)
    BY <1>1, <1>2
<1>4. Blank(GrownTimes[x - 1])
    BY <1>1, <1>3
<1>5. GrownTimes[x] = Grown(GrownTimes[x - 1])
    BY <1>1, <1>2, GrownTimesDef
<1>6. ASSUME NEW tab, Blank(tab) PROVE Blank(Grown(tab))
    BY <1>6, GrownTable DEF Blank
<1> QED BY <1>1, <1>4, <1>5, <1>6

\* The child's table, with the handles C of a parent's table.
Inherited(new, tab, C) ==
    [new EXCEPT !.entries = [i \in DOMAIN @ |-> IF i \in C THEN tab.entries[i] ELSE None],
                !.count = Cardinality(C)]

LEMMA InheritedTable ==
    ASSUME NEW new, Blank(new), NEW tab \in TableType, Counted(tab),
           NEW C, C \subseteq Used(tab), C \subseteq DOMAIN new.entries
    PROVE  /\ Inherited(new, tab, C) \in TableType /\ Counted(Inherited(new, tab, C))
           /\ Used(Inherited(new, tab, C)) = C
           /\ \A i \in C : Inherited(new, tab, C).entries[i] = tab.entries[i]
<1> DEFINE ents == [i \in DOMAIN new.entries |-> IF i \in C THEN tab.entries[i] ELSE None]
           res == Inherited(new, tab, C)
<1>1. new \in TableType
    BY DEF Blank
<1>2. res = [new EXCEPT !.entries = ents, !.count = Cardinality(C)]
    BY <1>1 DEF Inherited, TableType
<1>3. \A i \in C : tab.entries[i] \in EntryType /\ tab.entries[i] # None
    BY UsedOf, HandleTableConstants
<1>4. ents \in Arrays
  <2>1. PICK c \in Nat : new.entries \in [0 .. c - 1 -> EntryType \cup {None}]
    BY <1>1 DEF TableType, Arrays
  <2>2. ents \in [0 .. c - 1 -> EntryType \cup {None}]
    BY <1>3, <2>1
  <2> QED BY <2>1, <2>2 DEF Arrays
<1>5. Cardinality(C) \in Nat
    BY UsedOf, FS_Subset, FS_CardinalityType
<1>6. DOMAIN ents = DOMAIN new.entries /\ \A i \in DOMAIN new.entries : ents[i] = IF i \in C THEN tab.entries[i] ELSE None
    OBVIOUS
<1> HIDE DEF ents
<1>7. res \in TableType /\ res.entries = ents /\ res.count = Cardinality(C)
    BY <1>1, <1>2, <1>4, <1>5 DEF TableType
<1> HIDE DEF res
<1>8. Used(res) = C
    BY <1>3, <1>6, <1>7 DEF Used
<1>9. \A i \in C : res.entries[i] = tab.entries[i]
    BY <1>6, <1>7
<1> QED BY <1>7, <1>8, <1>9 DEF res, Counted

-----------------------------------------------------------------------------
(* Steps on one table *)

\* Table t is replaced, and the others are as they were.
LEMMA Replaced ==
    ASSUME table \in [Table -> TableType], TablesCounted, NEW t \in Table, NEW new \in TableType, Counted(new),
           table' = [table EXCEPT ![t] = new]
    PROVE  /\ table' \in [Table -> TableType] /\ TablesCounted'
           /\ table'[t] = new /\ \A u \in Table \ {t} : table'[u] = table[u]
<1>1. table' \in [Table -> TableType] /\ table'[t] = new /\ \A u \in Table \ {t} : table'[u] = table[u]
    OBVIOUS
<1>2. TablesCounted'
    BY <1>1 DEF TablesCounted, Counted, Used
<1> QED BY <1>1, <1>2

\* The handles of an object then change by those of table t.
LEMMA HandlesMove ==
    ASSUME table \in [Table -> TableType], NEW t \in Table, NEW new \in TableType,
           table' = [table EXCEPT ![t] = new], NEW o
    PROVE  /\ Handles(o) \in Nat /\ Cardinality(Naming(table[t], o)) <= Handles(o)
           /\ Cardinality(Naming(table[t], o)) \in Nat
           /\ Handles(o)' = Handles(o) - Cardinality(Naming(table[t], o)) + Cardinality(Naming(new, o))
<1>1. table[t] \in TableType
    OBVIOUS
<1>2. Handles(o) = Cardinality(Pairs(table, o))
    BY HandlesPairs
<1>3. Handles(o)' = Cardinality(Pairs(table', o))
    BY DEF Handles, Pairs, Naming, Used
<1>4. Cardinality(Naming(table[t], o)) \in Nat
    BY <1>1, NamingFinite
<1> QED BY <1>2, <1>3, <1>4, PairsMove

\* Handles(o) counts the handles: with one it is positive.
LEMMA HandlesPositive ==
    ASSUME table \in [Table -> TableType], NEW t \in Table, NEW i \in Used(table[t]), NEW o,
           table[t].entries[i].object = o
    PROVE  Handles(o) \in Nat \ {0}
<1>1. i \in Naming(table[t], o) /\ table[t] \in TableType
    BY DEF Naming
<1>2. IsFiniteSet(Naming(table[t], o)) /\ Cardinality(Naming(table[t], o)) \in Nat
    BY <1>1, NamingFinite
<1>3. Cardinality(Naming(table[t], o)) # 0
    BY <1>1, <1>2, FS_EmptySet
<1>4. Handles(o) \in Nat /\ Cardinality(Naming(table[t], o)) <= Handles(o)
    BY <1>1, HandlesPairs, PairsMove
<1> QED BY <1>2, <1>3, <1>4

\* With a handle left to it, an object counts one.
LEMMA HandlesPositiveNext ==
    ASSUME table' \in [Table -> TableType], NEW t \in Table, NEW i \in Used(table'[t]), NEW o,
           table'[t].entries[i].object = o
    PROVE  Handles(o)' \in Nat \ {0}
<1>1. i \in Naming(table'[t], o) /\ table'[t] \in TableType
    BY DEF Naming
<1>2. IsFiniteSet(Naming(table'[t], o)) /\ Cardinality(Naming(table'[t], o)) \in Nat
    BY <1>1, NamingFinite
<1>3. Cardinality(Naming(table'[t], o)) # 0
    BY <1>1, <1>2, FS_EmptySet
<1>4. Handles(o)' = Cardinality(Pairs(table', o))
    BY DEF Handles, Pairs, Naming, Used
<1>5. Cardinality(Pairs(table', o)) \in Nat /\ Cardinality(Naming(table'[t], o)) <= Cardinality(Pairs(table', o))
    BY <1>1, PairsMove
<1> QED BY <1>2, <1>3, <1>4, <1>5

LEMMA HandlesNat ==
    ASSUME table \in [Table -> TableType], NEW o
    PROVE  Handles(o) \in Nat
<1>1. IsFiniteSet(Pairs(table, o))
    BY PairsFinite DEF Pairs
<1> QED BY <1>1, HandlesPairs, FS_CardinalityType

-----------------------------------------------------------------------------
(* References *)

\* The references to an object that are not handles.
Others(o) == held[o] + (IF o \in dir THEN 1 ELSE 0) + (IF op.object = o THEN 1 ELSE 0)

\* Header h accounts for k handles and r other references.
Accounts(h, k, r) ==
    h.handle_count = k /\ h.ref_count = k + r /\ (h.live <=> h.ref_count > 0)

LEMMA RefsAccount ==
    ASSUME HandleTypeOK
    PROVE  RefsExact <=> \A o \in Object : Accounts(obj[o], Handles(o), Others(o))
<1>1. \A o \in Object : held[o] \in Nat /\ Handles(o) \in Nat
    BY HandlesNat DEF HandleTypeOK
<1> QED BY <1>1 DEF RefsExact, Accounts, Others

\* Dropping n of an object's references: it dies with the last one, which the
\* directory's reference keeps from happening to a permanent object.
LEMMA DereferencedHeader ==
    ASSUME NEW h \in Header, NEW n \in Nat \ {0}, NEW k \in Nat, NEW r \in Nat,
           h.ref_count = n + k + r, h.handle_count = k, h.live, h.permanent => r > 0
    PROVE  /\ Dereferenced(h, n) \in Header /\ Accounts(Dereferenced(h, n), k, r)
           /\ Dereferenced(h, n).permanent => h.permanent
<1>1. CASE h.ref_count > n
  <2>1. Dereferenced(h, n) = [h EXCEPT !.ref_count = @ - n]
    BY <1>1 DEF Dereferenced
  <2> QED BY <1>1, <2>1 DEF Header, Accounts
<1>2. CASE ~(h.ref_count > n)
  <2>1. k = 0 /\ r = 0 /\ ~h.permanent
    BY <1>2
  <2>2. Dereferenced(h, n) = Freed
    BY <1>2, <2>1 DEF Dereferenced
  <2> QED BY <2>1, <2>2 DEF Header, Accounts, Freed
<1> QED BY <1>1, <1>2

\* Closing handles S of table t, and unpinning object p if it is one.
LEMMA ClosedHeaders ==
    ASSUME HandleTypeOK, TablesCounted, RefsExact, PermanentNamed, NEW t \in Table, NEW S, S \subseteq Used(table[t]),
           NEW p \in {None, op.object}, NEW o \in Object,
           NEW new \in TableType, Used(new) = Used(table[t]) \ S,
           \A i \in Used(new) : new.entries[i] = table[t].entries[i]
    PROVE  LET h == Closed(t, S, p)[o]
           IN  /\ h \in Header
               /\ Accounts(h, Handles(o) - Cardinality(Naming(table[t], o)) + Cardinality(Naming(new, o)),
                           Others(o) - (IF o = p THEN 1 ELSE 0))
               /\ h.permanent => obj[o].permanent
<1> DEFINE n == Lost(table[t], S, o)
           refs == IF o = p THEN n + 1 ELSE n
           k == Handles(o) - n
           r == Others(o) - (IF o = p THEN 1 ELSE 0)
           c == Cardinality(Naming(table[t], o))
<1>1. table \in [Table -> TableType] /\ table[t] \in TableType
    BY DEF HandleTypeOK
<1>2. n \in Nat /\ n <= c /\ Cardinality(Naming(new, o)) = c - n
    BY <1>1, FewerNaming
<1>3. Handles(o) \in Nat /\ c \in Nat /\ c <= Handles(o)
    BY <1>1, HandlesPairs, PairsMove, NamingFinite
<1> HIDE DEF n, c
<1>4. k \in Nat /\ Handles(o) - c + Cardinality(Naming(new, o)) = k
    BY <1>2, <1>3
<1>5. held[o] \in Nat /\ obj[o] \in Header
    BY DEF HandleTypeOK
<1>6. r \in Nat /\ Others(o) = r + (IF o = p THEN 1 ELSE 0) /\ (o \in dir => r > 0)
    BY <1>5, HandleTableConstants DEF Others
<1>7. Accounts(obj[o], Handles(o), Others(o))
    BY RefsAccount
<1>8. obj[o].permanent => r > 0
    BY <1>6 DEF PermanentNamed
<1> HIDE DEF k, r
<1>9. refs \in Nat /\ obj[o].ref_count = refs + k + r
    BY <1>2, <1>3, <1>6, <1>7 DEF Accounts, k
<1>10. Closed(t, S, p)[o] = IF refs = 0 THEN obj[o] ELSE Dereferenced([obj[o] EXCEPT !.handle_count = @ - n], refs)
    BY DEF Closed, n, Lost
<1>11. CASE refs = 0
  <2>1. n = 0 /\ o # p
    BY <1>2, <1>11
  <2>2. k = Handles(o) /\ r = Others(o)
    BY <1>3, <1>6, <2>1 DEF k
  <2> QED BY <1>4, <1>5, <1>7, <1>10, <1>11, <2>2 DEF r, c
<1>12. CASE refs # 0
  <2> DEFINE h == [obj[o] EXCEPT !.handle_count = @ - n]
  <2>1. obj[o].handle_count = Handles(o) /\ obj[o].live
    BY <1>4, <1>6, <1>7, <1>9, <1>12 DEF Accounts
  <2>2. h \in Header /\ h.ref_count = refs + k + r /\ h.handle_count = k /\ h.live /\ h.permanent = obj[o].permanent
    BY <1>4, <1>5, <1>9, <2>1 DEF Header, k
  <2>3. /\ Dereferenced(h, refs) \in Header /\ Accounts(Dereferenced(h, refs), k, r)
        /\ Dereferenced(h, refs).permanent => h.permanent
    <3> HIDE DEF h, refs
    <3> QED BY <1>4, <1>6, <1>8, <1>9, <1>12, <2>2, DereferencedHeader
  <2> QED BY <1>4, <1>10, <1>12, <2>2, <2>3 DEF r, c
<1> QED BY <1>11, <1>12

LEMMA RefsAccountNext ==
    ASSUME held' \in [Object -> Nat],
           \A o \in Object : Handles(o)' \in Nat /\ Accounts(obj'[o], Handles(o)', Others(o)')
    PROVE  RefsExact'
  BY DEF RefsExact, Accounts, Others

-----------------------------------------------------------------------------
(* Closing and rundown *)

\* Handles S of table t are closed, and object p unpinned if it is one.
LEMMA ClosingStep ==
    ASSUME HandleInd, NEW t \in Table, NEW S, S \subseteq Used(table[t]), NEW p \in {None, op.object},
           NEW new \in TableType, Counted(new), Used(new) = Used(table[t]) \ S,
           \A i \in Used(new) : new.entries[i] = table[t].entries[i],
           table' = [table EXCEPT ![t] = new], obj' = Closed(t, S, p), UNCHANGED <<dir, held>>,
           op'.object = IF p = None THEN op.object ELSE None
    PROVE  /\ obj' \in [Object -> Header] /\ table' \in [Table -> TableType] /\ TablesCounted'
           /\ RefsExact' /\ PermanentNamed' /\ AccessNeverGrows'
           /\ \A o \in Object : Handles(o) \in Nat /\ Handles(o)' \in Nat /\ Handles(o)' <= Handles(o)
           /\ table'[t] = new /\ \A u \in Table \ {t} : table'[u] = table[u]
<1>1. HandleTypeOK /\ TablesCounted /\ RefsExact /\ PermanentNamed /\ AccessNeverGrows
    BY DEF HandleInd
<1>2. table \in [Table -> TableType] /\ table[t] \in TableType
    BY <1>1 DEF HandleTypeOK
<1>3. /\ table' \in [Table -> TableType] /\ TablesCounted'
      /\ table'[t] = new /\ \A u \in Table \ {t} : table'[u] = table[u]
    BY <1>1, <1>2, Replaced
<1>4. ASSUME NEW o \in Object
      PROVE  /\ obj'[o] \in Header /\ (obj'[o].permanent => obj[o].permanent)
             /\ Handles(o) \in Nat /\ Handles(o)' \in Nat /\ Handles(o)' <= Handles(o)
             /\ Accounts(obj'[o], Handles(o)', Others(o)')
  <2> DEFINE c == Cardinality(Naming(table[t], o))
             d == Cardinality(Naming(new, o))
  <2>1. Handles(o) \in Nat /\ c <= Handles(o) /\ Handles(o)' = Handles(o) - c + d /\ c \in Nat
    BY <1>2, HandlesMove
  <2>2. d \in Nat
    BY NamingFinite
  <2>3. d <= c
    <3>1. Lost(table[t], S, o) \in Nat /\ d = c - Lost(table[t], S, o)
        BY <1>2, FewerNaming
    <3> HIDE DEF c, d
    <3> QED BY <2>1, <3>1
  <2>4. /\ obj'[o] \in Header /\ (obj'[o].permanent => obj[o].permanent)
        /\ Accounts(obj'[o], Handles(o) - c + d, Others(o) - (IF o = p THEN 1 ELSE 0))
    BY <1>1, ClosedHeaders
  <2>5. Others(o)' = Others(o) - (IF o = p THEN 1 ELSE 0)
    <3>1. held[o] \in Nat /\ held'[o] = held[o] /\ (o \in dir <=> o \in dir')
        BY <1>1 DEF HandleTypeOK
    <3>2. o # None
        BY HandleTableConstants
    <3>3. CASE p = None
        BY <3>1, <3>2, <3>3 DEF Others
    <3>4. CASE p # None
        BY <3>1, <3>2, <3>4 DEF Others
    <3> QED BY <3>3, <3>4
  <2> HIDE DEF c, d
  <2> QED BY <2>1, <2>2, <2>3, <2>4, <2>5
<1>5. obj' \in [Object -> Header]
  <2>1. obj' = [o \in Object |-> obj'[o]]
    BY DEF Closed
  <2> QED BY <1>4, <2>1
<1>6. RefsExact'
  <2>1. held' \in [Object -> Nat]
    BY <1>1 DEF HandleTypeOK
  <2> QED BY <1>4, <2>1, RefsAccountNext
<1>7. PermanentNamed'
    BY <1>1, <1>4 DEF PermanentNamed
<1>8. AccessNeverGrows'
  <2> SUFFICES ASSUME NEW u \in Table, NEW i \in Used(table'[u])
               PROVE  table'[u].entries[i].granted_access \subseteq table'[u].entries[i].allowed
    BY DEF AccessNeverGrows, Used
  <2>1. i \in Used(table[u]) /\ table'[u].entries[i] = table[u].entries[i]
    BY <1>3
  <2> QED BY <1>1, <2>1 DEF AccessNeverGrows
<1> QED BY <1>3, <1>4, <1>5, <1>6, <1>7, <1>8

\* The other parts for the closing actions, whose table is cleared of S.
LEMMA ClosesStep ==
    ASSUME HandleInd, NEW t \in Table, NEW S, S \subseteq Used(table[t]), NEW p \in {None, op.object},
           table' = Emptied(t, S), obj' = Closed(t, S, p), UNCHANGED <<dir, held>>,
           op'.object = IF p = None THEN op.object ELSE None
    PROVE  /\ obj' \in [Object -> Header] /\ table' \in [Table -> TableType] /\ TablesCounted'
           /\ RefsExact' /\ PermanentNamed' /\ AccessNeverGrows'
           /\ \A o \in Object : Handles(o) \in Nat /\ Handles(o)' \in Nat /\ Handles(o)' <= Handles(o)
           /\ Used(table'[t]) = Used(table[t]) \ S
           /\ \A i \in Used(table[t]) \ S : table'[t].entries[i] = table[t].entries[i]
           /\ \A u \in Table \ {t} : table'[u] = table[u]
<1> DEFINE new == Cleared(table[t], S)
<1>1. table \in [Table -> TableType] /\ table[t] \in TableType /\ Counted(table[t])
    BY DEF HandleInd, HandleTypeOK, TablesCounted
<1>2. /\ new \in TableType /\ Counted(new) /\ Used(new) = Used(table[t]) \ S
      /\ \A i \in Used(table[t]) \ S : new.entries[i] = table[t].entries[i]
    BY <1>1, ClearedTable
<1>3. table' = [table EXCEPT ![t] = new]
    BY <1>1, EmptiedCleared
<1> HIDE DEF new
<1> QED BY <1>2, <1>3, ClosingStep

\* What a close by somebody else does to the record of the call.
LEMMA MissedRecord ==
    ASSUME op \in OpType, NEW t, NEW i, op' = Watched(Missed(t, i))
    PROVE  /\ op' \in OpType /\ op'.at = op.at /\ op'.src = op.src /\ op'.slot = op.slot /\ op'.object = op.object
           /\ op'.access = op.access /\ op'.allowed = op.allowed /\ op'.dst = op.dst /\ op'.new = op.new
           /\ op'.torn = (op.torn \/ (op.at # "no" /\ obj'[op.object].handle_count = 0))
           /\ op'.lost = (op.lost \/ (op.at \in {"open", "close"} /\ t = op.src /\ i = op.slot))
           /\ op'.gone = (op.gone \/ (op.at = "close" /\ t = op.dst /\ i = op.new))
<1> DEFINE lost == op.lost \/ (op.at \in {"open", "close"} /\ t = op.src /\ i = op.slot)
           gone == op.gone \/ (op.at = "close" /\ t = op.dst /\ i = op.new)
           torn == op.torn \/ (op.at # "no" /\ obj'[op.object].handle_count = 0)
           f == Missed(t, i)
<1>1. lost \in BOOLEAN /\ gone \in BOOLEAN /\ torn \in BOOLEAN
    BY DEF OpType
<1>2. f = [op EXCEPT !.lost = lost, !.gone = gone]
    BY DEF Missed, OpType
<1> HIDE DEF lost, gone
<1>3. /\ f \in OpType /\ f.at = op.at /\ f.src = op.src /\ f.slot = op.slot /\ f.object = op.object
      /\ f.access = op.access /\ f.allowed = op.allowed /\ f.dst = op.dst /\ f.new = op.new
      /\ f.torn = op.torn /\ f.lost = lost /\ f.gone = gone
    BY <1>1, <1>2 DEF OpType
<1> HIDE DEF f
<1>4. op' = [f EXCEPT !.torn = torn]
  <2>1. op' = Watched(f)
    BY DEF f
  <2> QED BY <1>3, <2>1 DEF Watched, OpType
<1> HIDE DEF torn
<1>5. /\ op' \in OpType /\ op'.at = f.at /\ op'.src = f.src /\ op'.slot = f.slot /\ op'.object = f.object
      /\ op'.access = f.access /\ op'.allowed = f.allowed /\ op'.dst = f.dst /\ op'.new = f.new
      /\ op'.torn = torn /\ op'.lost = f.lost /\ op'.gone = f.gone
    BY <1>1, <1>3, <1>4 DEF OpType
<1> QED BY <1>3, <1>5 DEF lost, gone, torn

LEMMA NtCloseInd ==
    ASSUME HandleInd, NEW t \in Table, NEW i, NtClose(t, i)
    PROVE  HandleInd' /\ op'.at = op.at
<1>1. /\ i \in Used(table[t])
      /\ table' = Emptied(t, {i}) /\ obj' = Closed(t, {i}, None)
      /\ op' = Watched(Missed(t, i)) /\ UNCHANGED <<dir, held>>
    BY DEF NtClose, Closable
<1>2. HandleTypeOK /\ SnapshotAllowed /\ DupProgress /\ op \in OpType
    BY DEF HandleInd, HandleTypeOK
<1>3. /\ op' \in OpType /\ op'.at = op.at /\ op'.src = op.src /\ op'.slot = op.slot /\ op'.object = op.object
      /\ op'.access = op.access /\ op'.allowed = op.allowed /\ op'.dst = op.dst /\ op'.new = op.new
      /\ op'.torn = (op.torn \/ (op.at # "no" /\ obj'[op.object].handle_count = 0))
      /\ op'.lost = (op.lost \/ (op.at \in {"open", "close"} /\ t = op.src /\ i = op.slot))
      /\ op'.gone = (op.gone \/ (op.at = "close" /\ t = op.dst /\ i = op.new))
    BY <1>1, <1>2, MissedRecord
<1>4. /\ obj' \in [Object -> Header] /\ table' \in [Table -> TableType] /\ TablesCounted'
      /\ RefsExact' /\ PermanentNamed' /\ AccessNeverGrows'
      /\ Used(table'[t]) = Used(table[t]) \ {i}
      /\ \A k \in Used(table[t]) \ {i} : table'[t].entries[k] = table[t].entries[k]
      /\ \A u \in Table \ {t} : table'[u] = table[u]
  <2>1. {i} \subseteq Used(table[t]) /\ op'.object = IF None = None THEN op.object ELSE None
    BY <1>1, <1>3
  <2> QED BY <1>1, <2>1, ClosesStep
<1>5. HandleTypeOK'
    BY <1>1, <1>2, <1>3, <1>4 DEF HandleTypeOK
<1>6. SnapshotAllowed'
    BY <1>1, <1>2, <1>3 DEF SnapshotAllowed
<1>7. DupProgress'
  <2>1. ASSUME op.at \in {"pre", "open", "close"}, Source' PROVE Source /\ (op'.torn => op.torn)
    <3>1. op.src \in Table /\ op.object \in Object
        BY <1>2, <2>1, HandleTableConstants DEF HandleTypeOK, OpType
    <3>2. op.slot \in Used(table'[op.src]) /\ table'[op.src].entries[op.slot].object = op.object
        BY <1>3, <2>1 DEF Source, Names, Used
    <3>3. PICK o \in Object : o = op.object
        BY <3>1
    <3>4. Handles(o)' \in Nat \ {0}
        BY <1>4, <3>1, <3>2, <3>3, HandlesPositiveNext
    <3>5. obj'[o].handle_count = Handles(o)'
        BY <1>4 DEF RefsExact
    <3>6. obj'[op.object].handle_count # 0
        BY <3>3, <3>4, <3>5
    <3>7. Source
        BY <1>4, <3>1, <3>2 DEF Source, Names
    <3> QED BY <1>3, <3>6, <3>7
  <2>2. ASSUME op.at \in {"open", "close"}, ~op'.lost PROVE Source' /\ ~op'.torn
    <3>1. op.src \in Table /\ ~op.lost /\ ~(t = op.src /\ i = op.slot)
        BY <1>2, <1>3, <2>2 DEF HandleTypeOK
    <3>2. Source /\ ~op.torn
        BY <1>2, <2>2, <3>1 DEF DupProgress
    <3>3. op.slot \in Used(table'[op.src]) /\ table'[op.src].entries[op.slot].object = op.object
        BY <1>4, <3>1, <3>2 DEF Source, Names
    <3>4. Source'
        BY <1>3, <3>3 DEF Source, Names, Used
    <3> QED BY <2>1, <2>2, <3>2, <3>4
  <2>3. ASSUME op.at = "close", ~op'.lost
        PROVE  <<op'.src, op'.slot>> # <<op'.dst, op'.new>> /\ (Destination' \/ op'.gone)
    <3>1. op.dst \in Table /\ ~op.lost
        BY <1>2, <1>3, <2>3 DEF HandleTypeOK
    <3>2. <<op.src, op.slot>> # <<op.dst, op.new>> /\ (Destination \/ op.gone)
        BY <1>2, <2>3, <3>1 DEF DupProgress
    <3>5. CASE op'.gone
        BY <1>3, <3>2, <3>5
    <3> SUFFICES ASSUME ~op'.gone PROVE <<op'.src, op'.slot>> # <<op'.dst, op'.new>> /\ Destination'
        BY <3>5
    <3>6. ~op.gone /\ ~(t = op.dst /\ i = op.new)
        BY <1>3, <2>3
    <3>3. op.new \in Used(table'[op.dst]) /\ table'[op.dst].entries[op.new].object = op.object
        BY <1>4, <3>1, <3>2, <3>6 DEF Destination, Names
    <3>4. Destination'
        BY <1>3, <3>3 DEF Destination, Names, Used
    <3> QED BY <1>3, <3>2, <3>4
  <2>4. ASSUME op'.at = "pre", op'.torn, Source' PROVE op'.lost
    <3>1. Source /\ op.torn /\ op.at = "pre"
        BY <1>3, <2>1, <2>4
    <3> QED BY <1>2, <1>3, <3>1 DEF DupProgress
  <2> QED BY <1>3, <2>2, <2>3, <2>4 DEF DupProgress
<1> QED BY <1>3, <1>4, <1>5, <1>6, <1>7 DEF HandleInd

LEMMA DestroyInd ==
    ASSUME HandleInd, NEW t \in Table, ob_handle_table_destroy(t)
    PROVE  HandleInd'
<1>1. /\ op.at = "no" /\ obj' = Closed(t, Used(table[t]), None)
      /\ table' = [table EXCEPT ![t] = Destroyed] /\ UNCHANGED <<dir, held, op>>
    BY DEF ob_handle_table_destroy, Swept
<1>2. Destroyed \in TableType /\ DOMAIN Destroyed.entries = {} /\ Destroyed.count = 0
  <2>1. NoEntries \in [0 .. 0 - 1 -> EntryType \cup {None}] /\ DOMAIN NoEntries = {}
    BY DEF NoEntries
  <2>2. NoEntries \in Arrays
    BY <2>1 DEF Arrays
  <2> QED BY <2>1, <2>2, HandleTableConstants DEF Destroyed, TableType
<1>3. Used(Destroyed) = {} /\ Counted(Destroyed)
    BY <1>2, FS_EmptySet DEF Used, Counted
<1>4. HandleTypeOK /\ op.object = None
    BY <1>1 DEF HandleInd, HandleTypeOK
<1>5. /\ obj' \in [Object -> Header] /\ table' \in [Table -> TableType] /\ TablesCounted'
      /\ RefsExact' /\ PermanentNamed' /\ AccessNeverGrows'
  <2>1. None \in {None, op.object} /\ op'.object = IF None = None THEN op.object ELSE None
    BY <1>1
  <2>2. Used(Destroyed) = Used(table[t]) \ Used(table[t])
    BY <1>3
  <2>3. \A i \in Used(Destroyed) : Destroyed.entries[i] = table[t].entries[i]
    BY <1>3
  <2>4. Used(table[t]) \subseteq Used(table[t])
    OBVIOUS
  <2> HIDE DEF Destroyed
  <2> QED BY <1>1, <1>2, <1>3, <2>1, <2>2, <2>3, <2>4, ClosingStep
<1>6. HandleTypeOK'
    BY <1>1, <1>4, <1>5 DEF HandleTypeOK
<1>7. SnapshotAllowed' /\ DupProgress'
    BY <1>1 DEF SnapshotAllowed, DupProgress
<1> QED BY <1>5, <1>6, <1>7 DEF HandleInd

-----------------------------------------------------------------------------
(* Steps that change no handle's object or access *)

LEMMA SameHandlesInd ==
    ASSUME HandleInd, NEW t \in Table, NEW new \in TableType, new.count = table[t].count,
           Used(new) = Used(table[t]),
           \A i \in Used(new) : /\ new.entries[i].object = table[t].entries[i].object
                                /\ new.entries[i].granted_access = table[t].entries[i].granted_access
                                /\ new.entries[i].allowed = table[t].entries[i].allowed,
           table' = [table EXCEPT ![t] = new], UNCHANGED <<ovars, op>>
    PROVE  HandleInd'
<1>1. /\ HandleTypeOK /\ TablesCounted /\ RefsExact /\ PermanentNamed /\ AccessNeverGrows
      /\ SnapshotAllowed /\ DupProgress
    BY DEF HandleInd
<1>2. table \in [Table -> TableType] /\ table[t] \in TableType
    BY <1>1 DEF HandleTypeOK
<1>3. obj' = obj /\ dir' = dir /\ held' = held /\ op' = op
    BY DEF ovars
<1>4. Counted(new)
    BY <1>1 DEF TablesCounted, Counted
<1>5. /\ table' \in [Table -> TableType] /\ TablesCounted'
      /\ table'[t] = new /\ \A u \in Table \ {t} : table'[u] = table[u]
    BY <1>1, <1>2, <1>4, Replaced
<1>6. ASSUME NEW o PROVE Handles(o)' = Handles(o) /\ Handles(o) \in Nat
  <2>1. Naming(new, o) = Naming(table[t], o)
    BY DEF Naming
  <2>2. /\ Handles(o) \in Nat /\ Cardinality(Naming(table[t], o)) \in Nat
        /\ Handles(o)' = Handles(o) - Cardinality(Naming(table[t], o)) + Cardinality(Naming(new, o))
    BY <1>2, HandlesMove
  <2> QED BY <2>1, <2>2
<1>7. HandleTypeOK'
    BY <1>1, <1>3, <1>5 DEF HandleTypeOK
<1>8. RefsExact' /\ PermanentNamed'
    BY <1>1, <1>3, <1>6 DEF RefsExact, PermanentNamed
<1>9. \A u \in Table : /\ Used(table'[u]) = Used(table[u])
                       /\ \A i \in Used(table[u]) :
                             /\ table'[u].entries[i].object = table[u].entries[i].object
                             /\ table'[u].entries[i].granted_access = table[u].entries[i].granted_access
                             /\ table'[u].entries[i].allowed = table[u].entries[i].allowed
    BY <1>5
<1>10. AccessNeverGrows'
  <2> SUFFICES ASSUME NEW u \in Table, NEW i \in Used(table'[u])
               PROVE  table'[u].entries[i].granted_access \subseteq table'[u].entries[i].allowed
    BY <1>3 DEF AccessNeverGrows, Used
  <2> QED BY <1>1, <1>9 DEF AccessNeverGrows
<1>11. SnapshotAllowed'
    BY <1>1, <1>3 DEF SnapshotAllowed
<1>12. DupProgress'
  <2>1. op.at \in {"pre", "open", "close"} => (Source' <=> Source)
    BY <1>1, <1>3, <1>9 DEF HandleTypeOK, Source, Names, Used
  <2>2. op.at = "close" => (Destination' <=> Destination)
    BY <1>1, <1>3, <1>9 DEF HandleTypeOK, Destination, Names, Used
  <2> QED BY <1>1, <1>3, <2>1, <2>2 DEF DupProgress
<1> QED BY <1>5, <1>7, <1>8, <1>10, <1>11, <1>12 DEF HandleInd

LEMMA ProtectInd ==
    ASSUME HandleInd, NEW t \in Table, NEW i, Protect(t, i)
    PROVE  HandleInd'
<1> DEFINE tab == table[t]
           e == [tab.entries[i] EXCEPT !.attributes = @ \cup {OBJ_PROTECT_CLOSE}]
           ents == [tab.entries EXCEPT ![i] = e]
           new == [tab EXCEPT !.entries = ents]
<1>1. table \in [Table -> TableType] /\ tab \in TableType
    BY DEF HandleInd, HandleTypeOK
<1>2. i \in Used(tab) /\ i \in DOMAIN tab.entries /\ UNCHANGED <<ovars, op>>
    BY DEF Protect, Used
<1>3. table' = [table EXCEPT ![t] = new]
    BY <1>1, <1>2 DEF Protect, TableType
<1>4. tab.entries[i] \in EntryType
    BY <1>1, <1>2, UsedOf
<1>5. /\ e \in EntryType /\ e.object = tab.entries[i].object /\ e.granted_access = tab.entries[i].granted_access
      /\ e.allowed = tab.entries[i].allowed
    BY <1>4 DEF EntryType, Attr
<1>6. e # None
    BY <1>5, HandleTableConstants
<1> HIDE DEF e
<1>7. ents \in Arrays
  <2>1. PICK c \in Nat : tab.entries \in [0 .. c - 1 -> EntryType \cup {None}]
    BY <1>1 DEF TableType, Arrays
  <2>2. ents \in [0 .. c - 1 -> EntryType \cup {None}]
    BY <1>5, <2>1
  <2> QED BY <2>1, <2>2 DEF Arrays
<1>8. DOMAIN ents = DOMAIN tab.entries /\ ents[i] = e /\ \A j \in DOMAIN tab.entries \ {i} : ents[j] = tab.entries[j]
    BY <1>2
<1> HIDE DEF ents
<1>9. new \in TableType /\ new.entries = ents /\ new.count = tab.count
    BY <1>1, <1>7 DEF TableType
<1> HIDE DEF new, tab
<1>10. Used(new) = Used(tab)
    BY <1>2, <1>6, <1>8, <1>9 DEF Used
<1>11. \A j \in Used(new) : /\ new.entries[j].object = tab.entries[j].object
                            /\ new.entries[j].granted_access = tab.entries[j].granted_access
                            /\ new.entries[j].allowed = tab.entries[j].allowed
    BY <1>5, <1>8, <1>9 DEF Used
<1> QED BY <1>2, <1>3, <1>9, <1>10, <1>11, SameHandlesInd DEF tab

LEMMA SetLimitInd ==
    ASSUME HandleInd, NEW t \in Table, NEW limit \in Limit, ob_handle_table_set_limit(t, limit)
    PROVE  HandleInd'
<1> DEFINE m == Min({limit, HANDLE_TABLE_ABSOLUTE_MAX})
           new == [table[t] EXCEPT !.handle_limit = m]
<1>1. table \in [Table -> TableType] /\ table[t] \in TableType
    BY DEF HandleInd, HandleTypeOK
<1>2. m \in Nat
    BY HandleTableConstants, MinTwo
<1>3. table' = [table EXCEPT ![t] = new] /\ UNCHANGED <<ovars, op>>
    BY DEF ob_handle_table_set_limit
<1> HIDE DEF m
<1>4. new \in TableType /\ new.entries = table[t].entries /\ new.count = table[t].count
    BY <1>1, <1>2 DEF TableType
<1> HIDE DEF new
<1>5. Used(new) = Used(table[t])
    BY <1>4 DEF Used
<1> QED BY <1>3, <1>4, <1>5, SameHandlesInd

-----------------------------------------------------------------------------
(* Allocating steps *)

\* A header that counts k more handles.
LEMMA CountedHeader ==
    ASSUME NEW h \in Header, NEW k \in Nat, NEW g,
           g = [h EXCEPT !.ref_count = @ + k, !.handle_count = @ + k]
    PROVE  /\ g \in Header /\ g.permanent = h.permanent /\ g.live = h.live
           /\ g.ref_count = h.ref_count + k /\ g.handle_count = h.handle_count + k
<1>1. h.ref_count + k \in Nat /\ h.handle_count + k \in Nat
    BY DEF Header
<1>2. g = [h EXCEPT !.ref_count = h.ref_count + k, !.handle_count = h.handle_count + k]
    BY DEF Header
<1> DEFINE a == h.ref_count + k
           b == h.handle_count + k
<1> HIDE DEF a, b
<1>3. a \in Nat /\ b \in Nat /\ g = [h EXCEPT !.ref_count = a, !.handle_count = b]
    BY <1>1, <1>2 DEF a, b
<1>4. g \in Header /\ g.permanent = h.permanent /\ g.live = h.live /\ g.ref_count = a /\ g.handle_count = b
    BY <1>3 DEF Header
<1> QED BY <1>4 DEF a, b

\* HandleAdded counts one more.
LEMMA HandleAddedHeader ==
    ASSUME NEW h \in Header
    PROVE  HandleAdded(h) = [h EXCEPT !.ref_count = @ + 1, !.handle_count = @ + 1]
  BY DEF Header, HandleAdded, Referenced

\* A handle to a live object is put into table t, with rights allowed to it.
LEMMA AllocatingStep ==
    ASSUME HandleInd, NEW t \in Table, MayAllocate(table[t]), NEW e \in EntryType,
           Handles(e.object) + Others(e.object) > 0,
           table' = [table EXCEPT ![t] = Allocated(table[t], e)],
           obj' = [obj EXCEPT ![e.object] = HandleAdded(@)], UNCHANGED <<dir, held>>,
           op'.object = op.object, e.granted_access \subseteq e.allowed
    PROVE  /\ obj' \in [Object -> Header] /\ table' \in [Table -> TableType] /\ TablesCounted'
           /\ RefsExact' /\ PermanentNamed' /\ AccessNeverGrows'
           /\ NewSlot(table[t]) \in Nat /\ NewSlot(table[t]) \notin Used(table[t])
           /\ NewSlot(table[t]) \in Used(table'[t]) /\ table'[t].entries[NewSlot(table[t])] = e
           /\ \A u \in Table : \A i : i \in Used(table[u]) =>
                  i \in Used(table'[u]) /\ table'[u].entries[i] = table[u].entries[i]
           /\ \A u \in Table : \A i \in Used(table'[u]) :
                  i \in Used(table[u]) \/ (u = t /\ i = NewSlot(table[t]))
<1> DEFINE new == Allocated(table[t], e)
           s == NewSlot(table[t])
<1>1. HandleTypeOK /\ TablesCounted /\ RefsExact /\ PermanentNamed /\ AccessNeverGrows
    BY DEF HandleInd
<1>2. table \in [Table -> TableType] /\ table[t] \in TableType /\ Counted(table[t])
    BY <1>1 DEF HandleTypeOK, TablesCounted
<1>3. /\ new \in TableType /\ Counted(new) /\ s \in Nat /\ s \notin Used(table[t])
      /\ Used(new) = Used(table[t]) \cup {s} /\ new.entries[s] = e
      /\ \A i \in Used(table[t]) : new.entries[i] = table[t].entries[i]
    BY <1>2, AllocatedTable
<1>4. /\ table' \in [Table -> TableType] /\ TablesCounted'
      /\ table'[t] = new /\ \A u \in Table \ {t} : table'[u] = table[u]
    BY <1>1, <1>2, <1>3, Replaced
<1>5. e.object \in Object
    BY DEF EntryType
<1>6. ASSUME NEW o \in Object
      PROVE  /\ obj'[o] \in Header /\ obj'[o].permanent = obj[o].permanent
             /\ Handles(o)' \in Nat /\ Accounts(obj'[o], Handles(o)', Others(o)')
  <2> DEFINE c == Cardinality(Naming(table[t], o))
             d == Cardinality(Naming(new, o))
  <2>1. Handles(o) \in Nat /\ c \in Nat /\ Handles(o)' = Handles(o) - c + d
    BY <1>2, <1>3, HandlesMove
  <2>2. d = c + (IF o = e.object THEN 1 ELSE 0)
    BY <1>2, AllocatedNaming
  <2> HIDE DEF c, d
  <2>3. Handles(o)' = Handles(o) + (IF o = e.object THEN 1 ELSE 0)
    BY <2>1, <2>2
  <2>4. Others(o)' = Others(o) /\ Others(o) \in Nat
    BY <1>1 DEF Others, HandleTypeOK
  <2>5. Accounts(obj[o], Handles(o), Others(o)) /\ obj[o] \in Header
    BY <1>1, RefsAccount DEF HandleTypeOK
  <2>6. CASE o # e.object
    <3>1. obj'[o] = obj[o]
        BY <1>1, <2>6 DEF HandleTypeOK
    <3> QED BY <2>1, <2>3, <2>4, <2>5, <2>6, <3>1
  <2>7. CASE o = e.object
    <3>1. obj'[o] = [obj[o] EXCEPT !.ref_count = @ + 1, !.handle_count = @ + 1]
        BY <1>1, <1>5, <2>5, <2>7, HandleAddedHeader DEF HandleTypeOK
    <3>2. Handles(o) + Others(o) > 0
        BY <2>7
    <3>3. /\ obj[o].handle_count = Handles(o) /\ obj[o].ref_count = Handles(o) + Others(o)
          /\ obj[o].live = TRUE
        BY <2>1, <2>4, <2>5, <3>2 DEF Accounts, Header
    <3>4. /\ obj'[o] \in Header /\ obj'[o].permanent = obj[o].permanent /\ obj'[o].live = TRUE
          /\ obj'[o].handle_count = Handles(o) + 1 /\ obj'[o].ref_count = Handles(o) + Others(o) + 1
      <4>1. /\ obj'[o] \in Header /\ obj'[o].permanent = obj[o].permanent /\ obj'[o].live = obj[o].live
            /\ obj'[o].ref_count = obj[o].ref_count + 1 /\ obj'[o].handle_count = obj[o].handle_count + 1
        BY <2>5, <3>1, CountedHeader, 1 \in Nat
      <4> QED BY <3>3, <4>1
    <3> QED BY <2>1, <2>3, <2>4, <2>7, <3>4 DEF Accounts
  <2> QED BY <2>6, <2>7
<1>7. obj' \in [Object -> Header]
  <2>1. obj' = [o \in Object |-> obj'[o]]
    BY <1>1 DEF HandleTypeOK
  <2> QED BY <1>6, <2>1
<1>8. RefsExact' /\ PermanentNamed'
  <2>1. held' \in [Object -> Nat]
    BY <1>1 DEF HandleTypeOK
  <2>2. RefsExact'
    BY <1>6, <2>1, RefsAccountNext
  <2> QED BY <1>1, <1>6, <2>2 DEF PermanentNamed
<1> HIDE DEF new, s
<1>9. \A u \in Table : \A i : i \in Used(table[u]) =>
          i \in Used(table'[u]) /\ table'[u].entries[i] = table[u].entries[i]
    BY <1>3, <1>4
<1>11. \A u \in Table : \A i \in Used(table'[u]) : i \in Used(table[u]) \/ (u = t /\ i = s)
    BY <1>3, <1>4
<1>10. AccessNeverGrows'
  <2> SUFFICES ASSUME NEW u \in Table, NEW i \in Used(table'[u])
               PROVE  table'[u].entries[i].granted_access \subseteq table'[u].entries[i].allowed
    BY DEF AccessNeverGrows, Used
  <2>1. CASE i \in Used(table[u])
        BY <1>1, <1>9, <2>1 DEF AccessNeverGrows
  <2>2. CASE i \notin Used(table[u])
    <3>1. u = t /\ i = s /\ table'[u].entries[i] = e
        BY <1>3, <1>4, <2>2
    <3> QED BY <3>1
  <2> QED BY <2>1, <2>2
<1> QED BY <1>3, <1>4, <1>7, <1>8, <1>9, <1>10, <1>11 DEF s

LEMMA AllocateInd ==
    ASSUME HandleInd, NEW t \in Table, NEW o \in Object, NEW access \in SUBSET Right,
           NEW w1 \in SUBSET Right, NEW w2 \in SUBSET Right,
           NEW attrs \in SUBSET Attr, ObpAllocateHandle(t, o, access, w1, w2, attrs)
    PROVE  HandleInd' /\ op'.at = op.at
<1> DEFINE second == Clamped(access, Clamped(access, access, w1), w2)
           e == Entry(o, second, attrs, access \cap w1 \cap w2)
           s == NewSlot(table[t])
           lost == op.lost \/ Reopened(t, s, o)
<1>1. /\ held[o] > 0 /\ MayAllocate(table[t])
      /\ table' = [table EXCEPT ![t] = Allocated(table[t], e)]
      /\ obj' = [obj EXCEPT ![o] = HandleAdded(@)]
      /\ op' = [op EXCEPT !.lost = @ \/ Reopened(t, s, o)]
      /\ UNCHANGED <<dir, held>>
    BY DEF ObpAllocateHandle, Allocated
<1>2. HandleTypeOK /\ SnapshotAllowed /\ DupProgress /\ op \in OpType
    BY DEF HandleInd, HandleTypeOK
<1>3. e \in EntryType /\ e.object = o /\ e.granted_access \subseteq e.allowed
  <2>1. second \subseteq access \cap w1 \cap w2
    BY DEF Clamped
  <2> HIDE DEF second
  <2> QED BY <2>1 DEF Entry, EntryType
<1> HIDE DEF e
<1>4. Handles(e.object) + Others(e.object) > 0
  <2>1. Handles(o) \in Nat
    BY <1>2, HandlesNat DEF HandleTypeOK
  <2>2. held[o] \in Nat
    BY <1>2 DEF HandleTypeOK
  <2> QED BY <1>1, <1>3, <2>1, <2>2 DEF Others
<1>5. /\ op' \in OpType /\ op'.at = op.at /\ op'.src = op.src /\ op'.slot = op.slot /\ op'.object = op.object
      /\ op'.access = op.access /\ op'.allowed = op.allowed /\ op'.dst = op.dst /\ op'.new = op.new
      /\ op'.torn = op.torn /\ op'.lost = lost /\ op'.gone = op.gone
  <2>1. lost \in BOOLEAN
    BY <1>2 DEF OpType, Reopened
  <2>2. op' = [op EXCEPT !.lost = lost]
    BY <1>1, <1>2 DEF OpType
  <2> HIDE DEF lost
  <2> QED BY <1>2, <2>1, <2>2 DEF OpType
<1>6. /\ obj' \in [Object -> Header] /\ table' \in [Table -> TableType] /\ TablesCounted'
      /\ RefsExact' /\ PermanentNamed' /\ AccessNeverGrows'
      /\ s \in Used(table'[t]) /\ table'[t].entries[s] = e
      /\ \A u \in Table : \A i : i \in Used(table[u]) =>
                  i \in Used(table'[u]) /\ table'[u].entries[i] = table[u].entries[i]
      /\ \A u \in Table : \A i \in Used(table'[u]) : i \in Used(table[u]) \/ (u = t /\ i = s)
  <2>1. obj' = [obj EXCEPT ![e.object] = HandleAdded(@)] /\ op'.object = op.object
    BY <1>1, <1>3, <1>5
  <2> QED BY <1>1, <1>3, <1>4, <2>1, AllocatingStep
<1>7. HandleTypeOK'
    BY <1>1, <1>2, <1>5, <1>6 DEF HandleTypeOK
<1>8. SnapshotAllowed'
    BY <1>2, <1>5 DEF SnapshotAllowed
<1>9. DupProgress'
  <2>1. ASSUME op'.at = "pre", op'.torn, Source' PROVE op'.lost
    <3>1. op.at = "pre" /\ op.torn /\ op.src \in Table
        BY <1>2, <1>5, <2>1 DEF HandleTypeOK
    <3>2. op.slot \in Used(table'[op.src]) /\ table'[op.src].entries[op.slot].object = op.object
        BY <1>5, <2>1 DEF Source, Names, Used
    <3>3. CASE op.slot \in Used(table[op.src])
      <4>1. Source
        BY <1>6, <3>1, <3>2, <3>3 DEF Source, Names
      <4> QED BY <1>2, <1>5, <3>1, <4>1 DEF DupProgress
    <3>4. CASE op.slot \notin Used(table[op.src])
      <4>1. t = op.src /\ s = op.slot
        BY <1>6, <3>1, <3>2, <3>4
      <4>2. o = op.object
        BY <1>3, <1>6, <3>2, <4>1
      <4> QED BY <1>5, <3>1, <4>1, <4>2 DEF Reopened
    <3> QED BY <3>3, <3>4
  <2>2. ASSUME op'.at \in {"open", "close"}, ~op'.lost PROVE Source' /\ ~op'.torn
    <3>1. op.src \in Table /\ Source /\ ~op.torn
        BY <1>2, <1>5, <2>2 DEF HandleTypeOK, DupProgress
    <3>2. op.slot \in Used(table'[op.src]) /\ table'[op.src].entries[op.slot].object = op.object
        BY <1>6, <3>1 DEF Source, Names
    <3>3. Source'
        BY <1>5, <3>2 DEF Source, Names, Used
    <3> QED BY <1>5, <3>1, <3>3
  <2>3. ASSUME op'.at = "close", ~op'.lost
        PROVE  <<op'.src, op'.slot>> # <<op'.dst, op'.new>> /\ (Destination' \/ op'.gone)
    <3>1. op.dst \in Table /\ <<op.src, op.slot>> # <<op.dst, op.new>> /\ (Destination \/ op.gone)
        BY <1>2, <1>5, <2>3 DEF HandleTypeOK, DupProgress
    <3>4. CASE op.gone
        BY <1>5, <3>1, <3>4
    <3> SUFFICES ASSUME ~op.gone PROVE <<op'.src, op'.slot>> # <<op'.dst, op'.new>> /\ Destination'
        BY <1>5, <3>4
    <3>2. op.new \in Used(table'[op.dst]) /\ table'[op.dst].entries[op.new].object = op.object
        BY <1>6, <3>1 DEF Destination, Names
    <3>3. Destination'
        BY <1>5, <3>2 DEF Destination, Names, Used
    <3> QED BY <1>5, <3>1, <3>3
  <2> QED BY <2>1, <2>2, <2>3 DEF DupProgress
<1> QED BY <1>5, <1>6, <1>7, <1>8, <1>9 DEF HandleInd

LEMMA InheritInd ==
    ASSUME HandleInd, NEW parent \in Table, NEW child \in Table, NEW n \in Nat, 
           ob_handle_table_inherit(parent, child, n)
    PROVE  HandleInd'
<1> DEFINE tab == table[parent]
           copied == Inheritable(parent) \cap DOMAIN GrownTimes[n].entries
           new == Inherited(GrownTimes[n], tab, copied)
           copies(o) == Cardinality({i \in copied : tab.entries[i].object = o})
<1>1. /\ HandleTypeOK /\ TablesCounted /\ RefsExact /\ PermanentNamed /\ AccessNeverGrows
    BY DEF HandleInd
<1>2. /\ table \in [Table -> TableType] /\ tab \in TableType /\ Counted(tab)
      /\ table[child] \in TableType /\ op.object \in Object \cup {None}
    BY <1>1 DEF HandleTypeOK, TablesCounted, OpType
<1>3. /\ op.at = "no" /\ DOMAIN table[child].entries = {} /\ table' = [table EXCEPT ![child] = new]
      /\ obj' = [o \in Object |-> [obj[o] EXCEPT !.ref_count = @ + copies(o), !.handle_count = @ + copies(o)]]
      /\ UNCHANGED <<dir, held, op>>
    BY DEF ob_handle_table_inherit, Exists, Inherited
<1>4. copied \subseteq Used(tab) /\ copied \subseteq DOMAIN GrownTimes[n].entries
    BY DEF Inheritable
<1>5. Blank(GrownTimes[n])
    BY GrownTimesBlank
<1> HIDE DEF copied
<1>6. /\ new \in TableType /\ Counted(new) /\ Used(new) = copied
      /\ \A i \in copied : new.entries[i] = tab.entries[i]
    BY <1>2, <1>4, <1>5, InheritedTable
<1> HIDE DEF new
<1>7. /\ table' \in [Table -> TableType] /\ TablesCounted'
      /\ table'[child] = new /\ \A u \in Table \ {child} : table'[u] = table[u]
    BY <1>1, <1>2, <1>3, <1>6, Replaced
<1>8. ASSUME NEW o \in Object
      PROVE  /\ obj'[o] \in Header /\ obj'[o].permanent = obj[o].permanent
             /\ Handles(o)' \in Nat /\ Accounts(obj'[o], Handles(o)', Others(o)')
  <2>1. Naming(new, o) = {i \in copied : tab.entries[i].object = o}
    BY <1>6 DEF Naming
  <2>2. Cardinality(Naming(new, o)) = copies(o) /\ copies(o) \in Nat
    BY <1>6, <2>1, NamingFinite
  <2>3. Cardinality(Naming(table[child], o)) = 0
    BY <1>3, FS_EmptySet DEF Naming, Used
  <2>4. copies(o) > 0 => Handles(o) > 0
    <3>1. ASSUME copies(o) > 0 PROVE Handles(o) > 0
      <4>1. PICK i \in copied : tab.entries[i].object = o
        BY <3>1, FS_EmptySet
      <4>2. i \in Used(tab)
        BY <1>4, <4>1
      <4>3. Handles(o) \in Nat \ {0}
        BY <1>2, <4>1, <4>2, HandlesPositive
      <4> QED BY <4>3
    <3> QED BY <3>1
  <2> HIDE DEF copies
  <2>5. /\ Handles(o) \in Nat
        /\ Handles(o)' = Handles(o) - Cardinality(Naming(table[child], o)) + Cardinality(Naming(new, o))
    BY <1>2, <1>3, <1>6, HandlesMove
  <2>6. Handles(o)' = Handles(o) + copies(o)
    BY <2>2, <2>3, <2>5
  <2>7. Others(o)' = Others(o) /\ Others(o) \in Nat
    <3>1. dir' = dir /\ held' = held /\ op' = op /\ held[o] \in Nat
        BY <1>1, <1>3 DEF HandleTypeOK
    <3> QED BY <3>1 DEF Others
  <2>8. Accounts(obj[o], Handles(o), Others(o)) /\ obj[o] \in Header
    BY <1>1, RefsAccount DEF HandleTypeOK
  <2>9. obj'[o] = [obj[o] EXCEPT !.ref_count = @ + copies(o), !.handle_count = @ + copies(o)]
    BY <1>3
  <2>10. /\ obj'[o] \in Header /\ obj'[o].permanent = obj[o].permanent /\ obj'[o].live = obj[o].live
         /\ obj'[o].ref_count = obj[o].ref_count + copies(o)
         /\ obj'[o].handle_count = obj[o].handle_count + copies(o)
    BY <2>2, <2>8, <2>9, CountedHeader
  <2> QED BY <2>2, <2>4, <2>5, <2>6, <2>7, <2>8, <2>10 DEF Accounts
<1>9. obj' \in [Object -> Header]
  <2>1. obj' = [o \in Object |-> obj'[o]]
    BY <1>3
  <2> QED BY <1>8, <2>1
<1>10. RefsExact' /\ PermanentNamed'
  <2>1. held' \in [Object -> Nat]
    BY <1>1, <1>3 DEF HandleTypeOK
  <2>2. RefsExact'
    BY <1>8, <2>1, RefsAccountNext
  <2> QED BY <1>1, <1>3, <1>8, <2>2 DEF PermanentNamed
<1>11. AccessNeverGrows'
  <2> SUFFICES ASSUME NEW u \in Table, NEW i \in Used(table'[u])
               PROVE  table'[u].entries[i].granted_access \subseteq table'[u].entries[i].allowed
    BY <1>3 DEF AccessNeverGrows, Used
  <2>1. CASE u = child
    <3>1. i \in copied /\ table'[u].entries[i] = tab.entries[i] /\ i \in Used(tab)
        BY <1>4, <1>6, <1>7, <2>1
    <3> QED BY <1>1, <3>1 DEF AccessNeverGrows
  <2>2. CASE u # child
        BY <1>1, <1>7, <2>2 DEF AccessNeverGrows
  <2> QED BY <2>1, <2>2
<1>12. HandleTypeOK'
    BY <1>1, <1>3, <1>7, <1>9 DEF HandleTypeOK
<1>13. SnapshotAllowed' /\ DupProgress'
    BY <1>3 DEF SnapshotAllowed, DupProgress
<1> QED BY <1>7, <1>10, <1>11, <1>12, <1>13 DEF HandleInd

-----------------------------------------------------------------------------
(* Steps that leave the tables *)

\* The header of object o changes, with the references to it.
LEMMA HeaderStep ==
    ASSUME HandleInd, NEW o \in Object, NEW g \in Header, table' = table,
           obj' = [obj EXCEPT ![o] = g], held' \in [Object -> Nat],
           Accounts(g, Handles(o), Others(o)'), g.permanent => o \in dir',
           \A q \in Object \ {o} : Others(q)' = Others(q) /\ (q \in dir => q \in dir')
    PROVE  /\ obj' \in [Object -> Header] /\ table' \in [Table -> TableType] /\ TablesCounted'
           /\ RefsExact' /\ PermanentNamed' /\ AccessNeverGrows'
<1>1. HandleTypeOK /\ TablesCounted /\ RefsExact /\ PermanentNamed /\ AccessNeverGrows
    BY DEF HandleInd
<1>2. obj' \in [Object -> Header] /\ obj'[o] = g /\ \A q \in Object \ {o} : obj'[q] = obj[q]
    BY <1>1 DEF HandleTypeOK
<1>3. table' \in [Table -> TableType] /\ TablesCounted' /\ AccessNeverGrows'
    BY <1>1 DEF HandleTypeOK, TablesCounted, AccessNeverGrows, Counted, Used
<1>4. ASSUME NEW q \in Object PROVE Handles(q)' \in Nat /\ Accounts(obj'[q], Handles(q)', Others(q)')
  <2>1. Handles(q)' = Handles(q)
    BY DEF Handles, Used
  <2>2. Handles(q) \in Nat
    BY <1>1, HandlesNat DEF HandleTypeOK
  <2>3. CASE q = o
    BY <1>2, <2>1, <2>2, <2>3
  <2>4. CASE q # o
    BY <1>1, <1>2, <2>1, <2>2, <2>4, RefsAccount
  <2> QED BY <2>3, <2>4
<1>5. RefsExact'
    BY <1>4, RefsAccountNext
<1>6. PermanentNamed'
    BY <1>1, <1>2 DEF PermanentNamed
<1> QED BY <1>2, <1>3, <1>5, <1>6

\* An object's references are numbers that its header accounts for, and it is
\* alive when it has one.
LEMMA ObjectState ==
    ASSUME HandleInd, NEW o \in Object
    PROVE  /\ obj[o] \in Header /\ held[o] \in Nat /\ Handles(o) \in Nat /\ Others(o) \in Nat
           /\ Accounts(obj[o], Handles(o), Others(o))
           /\ obj[o].permanent => o \in dir
           /\ Others(o) > 0 => obj[o].live = TRUE
<1>1. HandleTypeOK /\ RefsExact /\ PermanentNamed
    BY DEF HandleInd
<1>2. obj[o] \in Header /\ held[o] \in Nat
    BY <1>1 DEF HandleTypeOK
<1>3. Handles(o) \in Nat
    BY <1>1, HandlesNat DEF HandleTypeOK
<1>4. Others(o) \in Nat
    BY <1>2 DEF Others
<1>5. Accounts(obj[o], Handles(o), Others(o))
    BY <1>1, RefsAccount
<1>6. Others(o) > 0 => obj[o].live = TRUE
    BY <1>2, <1>3, <1>4, <1>5 DEF Accounts, Header
<1> QED BY <1>1, <1>2, <1>3, <1>4, <1>5, <1>6 DEF PermanentNamed

\* One reference that is not a handle is taken on an object that has one.
LEMMA ReferenceStep ==
    ASSUME HandleInd, NEW o \in Object, NEW g \in Header, table' = table,
           obj' = [obj EXCEPT ![o] = g], held' \in [Object -> Nat], obj[o].live = TRUE,
           g.ref_count = obj[o].ref_count + 1, g.handle_count = obj[o].handle_count, g.live = obj[o].live,
           Others(o)' = Others(o) + 1, g.permanent => o \in dir',
           \A q \in Object \ {o} : Others(q)' = Others(q) /\ (q \in dir => q \in dir')
    PROVE  /\ obj' \in [Object -> Header] /\ table' \in [Table -> TableType] /\ TablesCounted'
           /\ RefsExact' /\ PermanentNamed' /\ AccessNeverGrows'
<1>1. Handles(o) \in Nat /\ Others(o) \in Nat /\ Accounts(obj[o], Handles(o), Others(o))
    BY ObjectState
<1>2. Accounts(g, Handles(o), Others(o) + 1)
    BY <1>1 DEF Accounts
<1> QED BY <1>2, HeaderStep

\* One reference that is not a handle is dropped.
LEMMA DereferenceStep ==
    ASSUME HandleInd, NEW o \in Object, table' = table,
           obj' = [obj EXCEPT ![o] = Dereferenced(@, 1)], held' \in [Object -> Nat],
           Others(o)' \in Nat, Others(o) = Others(o)' + 1, obj[o].permanent => o \in dir' /\ Others(o)' > 0,
           \A q \in Object \ {o} : Others(q)' = Others(q) /\ (q \in dir => q \in dir')
    PROVE  /\ obj' \in [Object -> Header] /\ table' \in [Table -> TableType] /\ TablesCounted'
           /\ RefsExact' /\ PermanentNamed' /\ AccessNeverGrows'
<1> DEFINE g == Dereferenced(obj[o], 1)
<1>1. PICK r \in Nat : r = Others(o)'
    OBVIOUS
<1>2. /\ obj[o] \in Header /\ Handles(o) \in Nat /\ Accounts(obj[o], Handles(o), Others(o))
      /\ Others(o) > 0 => obj[o].live = TRUE
    BY ObjectState
<1>3. obj[o].ref_count = 1 + Handles(o) + r /\ obj[o].handle_count = Handles(o) /\ obj[o].live
    BY <1>1, <1>2 DEF Accounts
<1>4. g \in Header /\ Accounts(g, Handles(o), r) /\ (g.permanent => obj[o].permanent)
  <2>1. obj[o].permanent => r > 0
    BY <1>1
  <2>2. 1 \in Nat \ {0}
    OBVIOUS
  <2> HIDE DEF g
  <2>3. \A n \in Nat \ {0} : n = 1 =>
            /\ Dereferenced(obj[o], n) \in Header /\ Accounts(Dereferenced(obj[o], n), Handles(o), r)
            /\ Dereferenced(obj[o], n).permanent => obj[o].permanent
    BY <1>1, <1>2, <1>3, <2>1, DereferencedHeader
  <2> QED BY <2>2, <2>3 DEF g
<1>5. obj' = [obj EXCEPT ![o] = g]
    OBVIOUS
<1> HIDE DEF g
<1> QED BY <1>1, <1>4, <1>5, HeaderStep

-----------------------------------------------------------------------------
(* Objects and the directory *)

\* The header of a new object, and of one that is inserted.
LEMMA NewHeader ==
    LET g == [Freed EXCEPT !.live = TRUE, !.ref_count = 1]
    IN  g \in Header /\ g.live = TRUE /\ g.ref_count = 1 /\ g.handle_count = 0 /\ g.permanent = FALSE
<1> DEFINE g == [Freed EXCEPT !.live = TRUE, !.ref_count = 1]
<1>1. Freed \in Header /\ Freed.handle_count = 0 /\ Freed.permanent = FALSE
    BY DEF Freed, Header
<1> HIDE DEF Freed
<1>2. g \in Header /\ g.live = TRUE /\ g.ref_count = 1 /\ g.handle_count = 0 /\ g.permanent = FALSE
    BY <1>1 DEF Header
<1> QED BY <1>2

LEMMA InsertedHeader ==
    ASSUME NEW h \in Header, NEW permanent \in BOOLEAN
    PROVE  LET g == [Referenced(h) EXCEPT !.permanent = permanent]
           IN  /\ g \in Header /\ g.ref_count = h.ref_count + 1 /\ g.handle_count = h.handle_count
               /\ g.live = h.live
<1> DEFINE k == Referenced(h)
           g == [k EXCEPT !.permanent = permanent]
<1>1. k \in Header /\ k.ref_count = h.ref_count + 1 /\ k.handle_count = h.handle_count /\ k.live = h.live
    BY DEF Header, Referenced
<1> HIDE DEF k
<1>2. g \in Header /\ g.ref_count = k.ref_count /\ g.handle_count = k.handle_count /\ g.live = k.live
    BY <1>1 DEF Header
<1> QED BY <1>1, <1>2 DEF k

LEMMA ObStepParts ==
    ASSUME HandleInd, ObStep, UNCHANGED hvars
    PROVE  /\ obj' \in [Object -> Header] /\ table' \in [Table -> TableType] /\ TablesCounted'
           /\ RefsExact' /\ PermanentNamed' /\ AccessNeverGrows'
           /\ dir' \subseteq Object /\ held' \in [Object -> Nat]
<1>1. table' = table /\ op' = op
    BY DEF hvars
<1>2. dir \subseteq Object /\ held \in [Object -> Nat] /\ obj \in [Object -> Header]
    BY DEF HandleInd, HandleTypeOK
<1>3. PICK o \in Object : \/ ob_alloc_object(o)
                          \/ \E permanent \in BOOLEAN : ObInsertObject(o, permanent)
                          \/ ObLookupObjectByName(o)
                          \/ ObMakeTemporaryObject(o)
                          \/ ObpRemoveFromDirectory(o)
                          \/ ObDereferenceObject(o)
    BY DEF ObStep
<1>4. /\ obj[o] \in Header /\ held[o] \in Nat /\ Handles(o) \in Nat /\ Others(o) \in Nat
      /\ Accounts(obj[o], Handles(o), Others(o)) /\ (obj[o].permanent => o \in dir)
      /\ Others(o) > 0 => obj[o].live = TRUE
    BY ObjectState
<1>5. held[o] > 0 => Others(o) > 0
    BY <1>4 DEF Others
<1>6. CASE ob_alloc_object(o)
  <2> DEFINE g == [Freed EXCEPT !.live = TRUE, !.ref_count = 1]
  <2>1. /\ ~obj[o].live /\ obj' = [obj EXCEPT ![o] = g] /\ held' = [held EXCEPT ![o] = 1] /\ dir' = dir
    BY <1>6 DEF ob_alloc_object
  <2>2. /\ g \in Header /\ g.live = TRUE /\ g.ref_count = 1 /\ g.handle_count = 0
        /\ g.permanent = FALSE
    BY NewHeader
  <2>3. Handles(o) = 0 /\ Others(o) = 0
    BY <1>4, <2>1 DEF Accounts
  <2>4. held[o] = 0 /\ o \notin dir /\ op.object # o
    BY <1>4, <2>3 DEF Others
  <2>5. held' \in [Object -> Nat]
    BY <1>2, <2>1
  <2>6. Others(o)' = 1
    BY <1>1, <1>2, <2>1, <2>4 DEF Others
  <2>7. \A q \in Object \ {o} : Others(q)' = Others(q) /\ (q \in dir => q \in dir')
    BY <1>1, <1>2, <2>1 DEF Others
  <2>8. g \in Header /\ g.permanent = FALSE /\ Accounts(g, Handles(o), Others(o)')
    <3> HIDE DEF g
    <3> QED BY <2>2, <2>3, <2>6 DEF Accounts
  <2> HIDE DEF g
  <2> QED BY <1>1, <1>2, <2>1, <2>5, <2>7, <2>8, HeaderStep
<1>7. CASE \E permanent \in BOOLEAN : ObInsertObject(o, permanent)
  <2>1. PICK permanent \in BOOLEAN : ObInsertObject(o, permanent)
    BY <1>7
  <2> DEFINE g == [Referenced(obj[o]) EXCEPT !.permanent = permanent]
  <2>2. /\ held[o] > 0 /\ o \notin dir /\ obj' = [obj EXCEPT ![o] = g]
        /\ dir' = dir \cup {o} /\ held' = held
    BY <2>1 DEF ObInsertObject
  <2>3. /\ g \in Header /\ g.ref_count = obj[o].ref_count + 1 /\ g.handle_count = obj[o].handle_count
        /\ g.live = obj[o].live
    BY <1>4, <2>1, InsertedHeader
  <2>4. Others(o)' = Others(o) + 1
    BY <1>1, <1>4, <2>2 DEF Others
  <2>5. \A q \in Object \ {o} : Others(q)' = Others(q) /\ (q \in dir => q \in dir')
    BY <1>1, <2>2 DEF Others
  <2>6. o \in dir' /\ obj[o].live = TRUE /\ held' \in [Object -> Nat] /\ dir' \subseteq Object
    BY <1>2, <1>4, <1>5, <2>2
  <2> HIDE DEF g
  <2> QED BY <1>1, <2>2, <2>3, <2>4, <2>5, <2>6, ReferenceStep
<1>8. CASE ObLookupObjectByName(o)
  <2> DEFINE g == Referenced(obj[o])
  <2>1. o \in dir /\ obj' = [obj EXCEPT ![o] = g] /\ held' = [held EXCEPT ![o] = @ + 1] /\ dir' = dir
    BY <1>8 DEF ObLookupObjectByName
  <2>2. /\ g \in Header /\ g.ref_count = obj[o].ref_count + 1 /\ g.handle_count = obj[o].handle_count
        /\ g.live = obj[o].live
    BY <1>4 DEF Header, Referenced
  <2>3. held' \in [Object -> Nat] /\ held'[o] = held[o] + 1
    BY <1>2, <2>1
  <2>4. Others(o)' = Others(o) + 1
    BY <1>1, <1>4, <2>1, <2>3 DEF Others
  <2>5. \A q \in Object \ {o} : Others(q)' = Others(q) /\ (q \in dir => q \in dir')
    BY <1>1, <1>2, <2>1 DEF Others
  <2>6. Others(o) > 0
    BY <1>4, <2>1 DEF Others
  <2> HIDE DEF g
  <2> QED BY <1>1, <1>2, <1>4, <2>1, <2>2, <2>3, <2>4, <2>5, <2>6, ReferenceStep
<1>9. CASE ObMakeTemporaryObject(o)
  <2> DEFINE g == [obj[o] EXCEPT !.permanent = FALSE]
  <2>1. obj' = [obj EXCEPT ![o] = g] /\ held' = held /\ dir' = dir
    BY <1>2, <1>9 DEF ObMakeTemporaryObject
  <2>2. /\ g \in Header /\ g.ref_count = obj[o].ref_count /\ g.handle_count = obj[o].handle_count
        /\ g.live = obj[o].live /\ g.permanent = FALSE
    BY <1>4 DEF Header
  <2>3. \A q \in Object : Others(q)' = Others(q)
    BY <1>1, <2>1 DEF Others
  <2> HIDE DEF g
  <2>4. Accounts(g, Handles(o), Others(o)')
    BY <1>4, <2>2, <2>3 DEF Accounts
  <2> QED BY <1>1, <1>2, <2>1, <2>2, <2>3, <2>4, HeaderStep
<1>10. CASE ObpRemoveFromDirectory(o)
  <2>1. /\ o \in dir /\ ~obj[o].permanent /\ dir' = dir \ {o}
        /\ obj' = [obj EXCEPT ![o] = Dereferenced(@, 1)] /\ held' = held
    BY <1>10 DEF ObpRemoveFromDirectory
  <2>2. Others(o)' \in Nat /\ Others(o) = Others(o)' + 1
    BY <1>1, <1>4, <2>1 DEF Others
  <2>3. \A q \in Object \ {o} : Others(q)' = Others(q) /\ (q \in dir => q \in dir')
    BY <1>1, <2>1 DEF Others
  <2> QED BY <1>1, <1>2, <2>1, <2>2, <2>3, DereferenceStep
<1>11. CASE ObDereferenceObject(o)
  <2>1. /\ held[o] > 0 /\ obj' = [obj EXCEPT ![o] = Dereferenced(@, 1)]
        /\ held' = [held EXCEPT ![o] = @ - 1] /\ dir' = dir
    BY <1>11 DEF ObDereferenceObject
  <2>2. held' \in [Object -> Nat] /\ held'[o] = held[o] - 1
    BY <1>2, <1>4, <2>1
  <2>3. Others(o)' \in Nat /\ Others(o) = Others(o)' + 1 /\ (o \in dir => Others(o)' > 0)
    BY <1>1, <1>4, <2>1, <2>2 DEF Others
  <2>4. \A q \in Object \ {o} : Others(q)' = Others(q) /\ (q \in dir => q \in dir')
    BY <1>1, <1>2, <2>1 DEF Others
  <2> QED BY <1>1, <1>2, <1>4, <2>1, <2>2, <2>3, <2>4, DereferenceStep
<1> QED BY <1>3, <1>6, <1>7, <1>8, <1>9, <1>10, <1>11

LEMMA ObStepInd ==
    ASSUME HandleInd, ObStep, UNCHANGED hvars
    PROVE  HandleInd'
<1>1. HandleTypeOK /\ SnapshotAllowed /\ DupProgress
    BY DEF HandleInd
<1>2. table' = table /\ op' = op
    BY DEF hvars
<1>3. /\ obj' \in [Object -> Header] /\ table' \in [Table -> TableType] /\ TablesCounted'
      /\ RefsExact' /\ PermanentNamed' /\ AccessNeverGrows'
      /\ dir' \subseteq Object /\ held' \in [Object -> Nat]
    BY ObStepParts
<1>4. HandleTypeOK'
    BY <1>1, <1>2, <1>3 DEF HandleTypeOK
<1>5. SnapshotAllowed'
    BY <1>1, <1>2 DEF SnapshotAllowed
<1>6. DupProgress'
    BY <1>1, <1>2 DEF DupProgress, Source, Destination, Names, Used
<1> QED BY <1>3, <1>4, <1>5, <1>6 DEF HandleInd

-----------------------------------------------------------------------------
(* NtDuplicateObject *)

\* What a step may do to a duplicate under way.
AtomicStep ==
    /\ op.at # "post" /\ op'.at = "post" /\ op'.torn => op.lost \/ op.gone
    /\ op.at = "close" /\ op'.at # "close" =>
         IF op'.at = "post"
         THEN op.slot \notin Used(table'[op.src]) /\ (op.new \in Used(table'[op.dst]) \/ op.lost \/ op.gone)
         ELSE op.new \notin Used(table'[op.dst]) /\ (op.slot \in Used(table'[op.src]) \/ op.lost)

\* The pin is a reference that is not a handle.
LEMMA Pinned ==
    ASSUME HandleInd, op.at # "no"
    PROVE  op.object \in Object /\ Others(op.object) > 0
<1>1. op.object \in Object
    BY DEF HandleInd, HandleTypeOK, OpType
<1>2. held[op.object] \in Nat
    BY <1>1 DEF HandleInd, HandleTypeOK
<1> QED BY <1>1, <1>2 DEF Others

\* The record of the call when none is under way, and once it is done.
LEMMA NoOpType == NoOp \in OpType /\ NoOp.at = "no" /\ NoOp.object = None
  BY DEF NoOp, OpType

LEMMA DoneType ==
    ASSUME op \in OpType
    PROVE  Done(op) \in OpType /\ Done(op).at = "post" /\ Done(op).object = op.object /\ Done(op).torn = op.torn
  BY DEF Done, NoOp, OpType

LEMMA DupCallInd ==
    ASSUME HandleInd, NEW t \in Table, NEW i, NEW desired \in SUBSET Right, NEW move \in BOOLEAN,
           DupCall(t, i, desired, move)
    PROVE  HandleInd' /\ op.at = "no" /\ op'.at = "pre"
<1>1. HandleTypeOK /\ AccessNeverGrows
    BY DEF HandleInd
<1>2. PICK e : e = table[t].entries[i]
    OBVIOUS
<1>8. PICK access : access = e.granted_access \cap desired
    OBVIOUS
<1>24. PICK allowed : allowed = e.allowed \cap desired
    OBVIOUS
<1>3. /\ op.at = "no" /\ i \in Used(table[t])
      /\ op' = [NoOp EXCEPT !.at = "pre", !.src = t, !.slot = i, !.object = e.object, !.move = move,
                  !.ceiling = access, !.access = access, !.allowed = allowed]
      /\ obj' = [obj EXCEPT ![e.object] = Referenced(@)]
      /\ UNCHANGED <<dir, held, table>>
    BY <1>2, <1>8, <1>24 DEF DupCall
<1>4. table[t] \in TableType
    BY <1>1 DEF HandleTypeOK
<1>5. e \in EntryType /\ i \in Nat
    BY <1>2, <1>3, <1>4, UsedOf
<1>6. PICK o \in Object : o = e.object
    BY <1>5 DEF EntryType
<1>7. e.granted_access \in SUBSET Right /\ e.allowed \in SUBSET Right /\ e.granted_access \subseteq e.allowed
    BY <1>1, <1>2, <1>3, <1>5, <1>6 DEF AccessNeverGrows, EntryType
<1>9. access \in SUBSET Right /\ allowed \in SUBSET Right /\ access \subseteq allowed
    BY <1>7, <1>8, <1>24
<1>10. op' = [at |-> "pre", src |-> t, slot |-> i, object |-> o, ceiling |-> access, access |-> access,
              allowed |-> allowed, move |-> move,
              dst |-> None, new |-> 0, torn |-> FALSE, lost |-> FALSE, gone |-> FALSE]
    BY <1>3, <1>6 DEF NoOp
<1>11. /\ op' \in OpType /\ op'.at = "pre" /\ op'.src = t /\ op'.object = o /\ op'.access = access
       /\ op'.allowed = allowed /\ op'.torn = FALSE
    BY <1>5, <1>9, <1>10 DEF OpType
<1>12. /\ obj[o] \in Header /\ held[o] \in Nat /\ Others(o) \in Nat /\ Handles(o) \in Nat
       /\ Accounts(obj[o], Handles(o), Others(o)) /\ (obj[o].permanent => o \in dir)
    BY ObjectState
<1>13. Handles(o) > 0
  <2>1. Handles(o) \in Nat \ {0}
    BY <1>1, <1>2, <1>3, <1>6, HandlesPositive DEF HandleTypeOK
  <2> QED BY <2>1
<1>14. obj[o].live = TRUE
    BY <1>12, <1>13 DEF Accounts, Header
<1>15. op.object = None /\ None \notin Object
    BY <1>1, <1>3, HandleTableConstants DEF HandleTypeOK
<1>16. Others(o)' = Others(o) + 1
    BY <1>3, <1>11, <1>12, <1>15 DEF Others
<1>17. \A q \in Object \ {o} : Others(q)' = Others(q) /\ (q \in dir => q \in dir')
    BY <1>3, <1>11, <1>15 DEF Others
<1> DEFINE g == Referenced(obj[o])
<1>18. /\ g \in Header /\ g.ref_count = obj[o].ref_count + 1 /\ g.handle_count = obj[o].handle_count
       /\ g.live = obj[o].live /\ g.permanent = obj[o].permanent
    BY <1>12 DEF Header, Referenced
<1>19. obj' = [obj EXCEPT ![o] = g] /\ held' \in [Object -> Nat] /\ table' = table /\ dir' = dir
    BY <1>1, <1>3, <1>6 DEF HandleTypeOK
<1> HIDE DEF g
<1>20. /\ obj' \in [Object -> Header] /\ table' \in [Table -> TableType] /\ TablesCounted'
       /\ RefsExact' /\ PermanentNamed' /\ AccessNeverGrows'
    BY <1>12, <1>14, <1>16, <1>17, <1>18, <1>19, ReferenceStep
<1>21. HandleTypeOK'
    BY <1>1, <1>11, <1>15, <1>19, <1>20 DEF HandleTypeOK
<1>22. SnapshotAllowed'
    BY <1>9, <1>11 DEF SnapshotAllowed
<1>23. DupProgress'
    BY <1>11 DEF DupProgress
<1> QED BY <1>3, <1>11, <1>20, <1>21, <1>22, <1>23 DEF HandleInd

\* Steps that change only the call's mask and stage.
LEMMA MaskStep ==
    ASSUME HandleInd, op.at = "pre", NEW at \in {"pre", "open"}, NEW access \in SUBSET Right,
           NEW allowed \in SUBSET Right, access \subseteq allowed,
           op' = [op EXCEPT !.at = at, !.access = access, !.allowed = allowed],
           at = "open" => SourceHolds, UNCHANGED <<ovars, table>>
    PROVE  HandleInd' /\ op'.at = at
<1>1. /\ HandleTypeOK /\ TablesCounted /\ RefsExact /\ PermanentNamed /\ AccessNeverGrows /\ DupProgress
      /\ op \in OpType /\ op.src \in Table /\ op.object # None
    BY DEF HandleInd, HandleTypeOK
<1>2. /\ op' \in OpType /\ op'.at = at /\ op'.src = op.src /\ op'.slot = op.slot /\ op'.object = op.object
      /\ op'.access = access /\ op'.allowed = allowed /\ op'.torn = op.torn /\ op'.lost = op.lost
    BY <1>1 DEF OpType
<1>3. obj' = obj /\ dir' = dir /\ held' = held /\ table' = table
    BY DEF ovars
<1>4. HandleTypeOK'
    BY <1>1, <1>2, <1>3 DEF HandleTypeOK
<1>5. TablesCounted' /\ AccessNeverGrows' /\ PermanentNamed'
    BY <1>1, <1>3 DEF TablesCounted, AccessNeverGrows, PermanentNamed, Counted, Used
<1>6. RefsExact'
    BY <1>1, <1>2, <1>3 DEF RefsExact, Handles, Used
<1>7. SnapshotAllowed'
    BY <1>2 DEF SnapshotAllowed
<1>8. DupProgress'
  <2>1. Source' <=> Source
    BY <1>2, <1>3 DEF Source, Names, Used
  <2>2. SourceHolds <=> Source
    BY DEF SourceHolds, Source, Names
  <2> QED BY <1>1, <1>2, <2>1, <2>2 DEF DupProgress
<1> QED BY <1>2, <1>4, <1>5, <1>6, <1>7, <1>8 DEF HandleInd

LEMMA DupCallbackInd ==
    ASSUME HandleInd, NEW written \in SUBSET Right, DupCallback(written)
    PROVE  HandleInd' /\ op.at = "pre" /\ op'.at = "pre"
<1>1. op \in OpType /\ op.at = "pre" /\ op.access \subseteq op.allowed /\ UNCHANGED <<ovars, table>>
    BY DEF HandleInd, HandleTypeOK, SnapshotAllowed, DupCallback
<1>2. PICK access \in SUBSET Right : access = written \cap op.access
    BY <1>1 DEF OpType
<1>3. PICK allowed \in SUBSET Right : allowed = op.allowed \cap written
    BY <1>1 DEF OpType
<1>4. op' = [op EXCEPT !.at = "pre", !.access = access, !.allowed = allowed]
    BY <1>1, <1>2, <1>3 DEF DupCallback, Clamped, OpType
<1>5. access \subseteq allowed
    BY <1>1, <1>2, <1>3
<1> QED BY <1>1, <1>4, <1>5, MaskStep

LEMMA DupRevalidatesInd ==
    ASSUME HandleInd, DupRevalidates
    PROVE  HandleInd' /\ op.at = "pre" /\ op'.at = "open"
<1>1. op \in OpType /\ op.at = "pre" /\ op.access \subseteq op.allowed /\ UNCHANGED <<ovars, table>> /\ SourceHolds
    BY DEF HandleInd, HandleTypeOK, SnapshotAllowed, DupRevalidates, Revalidated
<1>2. PICK access \in SUBSET Right : access = op.access \cap op.ceiling
    BY <1>1 DEF OpType
<1>3. PICK allowed \in SUBSET Right : allowed = op.allowed
    BY <1>1 DEF OpType
<1>4. op' = [op EXCEPT !.at = "open", !.access = access, !.allowed = allowed]
    BY <1>1, <1>2, <1>3 DEF DupRevalidates, OpType
<1>5. access \subseteq allowed
    BY <1>1, <1>2, <1>3
<1> QED BY <1>1, <1>4, <1>5, MaskStep

\* The call ends, with or without a handle, and drops the pin.
LEMMA UnpinInd ==
    ASSUME HandleInd, op.at # "no", obj' = Unpinned, op' = NoOp, UNCHANGED <<dir, held, table>>
    PROVE  HandleInd'
<1>1. HandleTypeOK
    BY DEF HandleInd
<1>2. PICK o \in Object : o = op.object
    BY Pinned
<1>3. obj' = [obj EXCEPT ![o] = Dereferenced(@, 1)]
    BY <1>2 DEF Unpinned
<1>4. /\ held[o] \in Nat /\ (obj[o].permanent => o \in dir)
    BY ObjectState
<1>5. op'.object = None /\ None \notin Object
    BY NoOpType, HandleTableConstants
<1>6. Others(o)' \in Nat /\ Others(o) = Others(o)' + 1 /\ (o \in dir => Others(o)' > 0)
    BY <1>2, <1>4, <1>5 DEF Others
<1>7. \A q \in Object \ {o} : Others(q)' = Others(q) /\ (q \in dir => q \in dir')
    BY <1>2, <1>5 DEF Others
<1>8. held' \in [Object -> Nat]
    BY <1>1 DEF HandleTypeOK
<1>9. /\ obj' \in [Object -> Header] /\ table' \in [Table -> TableType] /\ TablesCounted'
      /\ RefsExact' /\ PermanentNamed' /\ AccessNeverGrows'
    BY <1>3, <1>4, <1>6, <1>7, <1>8, DereferenceStep
<1>10. HandleTypeOK'
    BY <1>1, <1>9, NoOpType DEF HandleTypeOK
<1>11. SnapshotAllowed' /\ DupProgress'
    BY NoOpType DEF SnapshotAllowed, DupProgress
<1> QED BY <1>9, <1>10, <1>11 DEF HandleInd

\* The destination is another handle than the source, if that is still there; the
\* object was torn down only if the source was lost.
LEMMA DupAllocatesStep ==
    ASSUME HandleInd, NEW u \in Table, NEW attrs \in SUBSET Attr,
           DupAllocates(u, attrs)
    PROVE  HandleInd' /\ AtomicStep
<1>1. HandleTypeOK /\ SnapshotAllowed /\ DupProgress /\ op \in OpType
    BY DEF HandleInd, HandleTypeOK
<1>2. op.at = "open" /\ MayAllocate(table[u]) /\ UNCHANGED <<dir, held>>
    BY DEF DupAllocates
<1>3. PICK o \in Object : o = op.object
    BY <1>2, Pinned
<1>4. PICK e : e = Entry(op.object, op.access \cap op.ceiling, attrs, op.allowed)
    OBVIOUS
<1>5. op.access \in SUBSET Right /\ op.allowed \in SUBSET Right /\ op.access \subseteq op.allowed
    BY <1>1, <1>2, <1>3 DEF OpType, SnapshotAllowed
<1>6. e \in EntryType /\ e.object = o /\ e.granted_access \subseteq e.allowed
    BY <1>3, <1>4, <1>5 DEF Entry, EntryType
<1>8. PICK s : s = NewSlot(table[u])
    OBVIOUS
<1>7. op' = IF op.move
            THEN [op EXCEPT !.at = "close", !.dst = u, !.new = s, !.ceiling = {}, !.access = {}, !.allowed = {}]
            ELSE Done(op)
    BY <1>8 DEF DupAllocates
<1>10. table' = [table EXCEPT ![u] = Allocated(table[u], e)] /\ obj' = [obj EXCEPT ![o] = HandleAdded(@)]
    BY <1>3, <1>4 DEF DupAllocates, Allocated
<1>9. op'.object = op.object
  <2>1. CASE op.move
    BY <1>1, <1>7, <2>1 DEF OpType
  <2>2. CASE ~op.move
    BY <1>1, <1>7, <2>2, DoneType
  <2> QED BY <2>1, <2>2
<1>12. Handles(e.object) + Others(e.object) > 0
  <2>1. Others(o) \in Nat /\ Handles(o) \in Nat
    BY ObjectState
  <2>2. Others(o) > 0
    BY <1>2, <1>3, Pinned
  <2> QED BY <1>6, <2>1, <2>2
<1>14. /\ obj' \in [Object -> Header] /\ table' \in [Table -> TableType] /\ TablesCounted'
       /\ RefsExact' /\ PermanentNamed' /\ AccessNeverGrows'
       /\ s \in Nat /\ s \notin Used(table[u]) /\ s \in Used(table'[u]) /\ table'[u].entries[s] = e
       /\ \A v \in Table : \A i : i \in Used(table[v]) =>
                  i \in Used(table'[v]) /\ table'[v].entries[i] = table[v].entries[i]
  <2>1. obj' = [obj EXCEPT ![e.object] = HandleAdded(@)]
    BY <1>6, <1>10
  <2> QED BY <1>2, <1>6, <1>8, <1>9, <1>10, <1>12, <2>1, AllocatingStep
<1>15. op.src \in Table /\ op.object # None
    BY <1>1, <1>2 DEF HandleTypeOK
<1>16. CASE op.move
  <2>1. /\ op' \in OpType /\ op'.at = "close" /\ op'.src = op.src /\ op'.slot = op.slot
        /\ op'.object = op.object /\ op'.dst = u /\ op'.new = s /\ op'.torn = op.torn /\ op'.lost = op.lost
    BY <1>1, <1>7, <1>14, <1>16 DEF OpType
  <2>2. HandleTypeOK'
    BY <1>1, <1>2, <1>14, <1>15, <2>1 DEF HandleTypeOK
  <2>3. SnapshotAllowed'
    BY <2>1 DEF SnapshotAllowed
  <2>4. DupProgress'
    <3>1. ASSUME ~op.lost
          PROVE  /\ op.slot \in Used(table[op.src]) /\ table[op.src].entries[op.slot].object = o /\ ~op.torn
        BY <1>1, <1>2, <1>3, <3>1 DEF DupProgress, Source, Names
    <3>2. ASSUME ~op.lost
          PROVE  /\ op.slot \in Used(table'[op.src]) /\ table'[op.src].entries[op.slot].object = o
                 /\ <<op.src, op.slot>> # <<u, s>>
        BY <1>14, <1>15, <3>1, <3>2
    <3>3. ~op.lost => Source'
        BY <1>3, <2>1, <3>2 DEF Source, Names, Used
    <3>4. Destination'
        BY <1>3, <1>6, <1>14, <2>1 DEF Destination, Names, Used
    <3> QED BY <2>1, <3>1, <3>2, <3>3, <3>4 DEF DupProgress
  <2> QED BY <1>2, <1>14, <2>1, <2>2, <2>3, <2>4 DEF HandleInd, AtomicStep
<1>17. CASE ~op.move
  <2>1. op' \in OpType /\ op'.at = "post" /\ op'.object = op.object /\ op'.torn = op.torn
    BY <1>1, <1>7, <1>17, DoneType
  <2>2. HandleTypeOK'
    BY <1>1, <1>2, <1>14, <1>15, <2>1 DEF HandleTypeOK
  <2>3. SnapshotAllowed' /\ DupProgress'
    BY <2>1 DEF SnapshotAllowed, DupProgress
  <2>4. op.torn => op.lost
    BY <1>1, <1>2 DEF DupProgress
  <2> QED BY <1>2, <1>14, <2>1, <2>2, <2>3, <2>4 DEF HandleInd, AtomicStep
<1> QED BY <1>16, <1>17

\* The transfer's source is closed: the destination keeps the object in use.
LEMMA DupClosesStep ==
    ASSUME HandleInd, DupCloses
    PROVE  HandleInd' /\ AtomicStep
<1>1. HandleTypeOK /\ DupProgress /\ op \in OpType
    BY DEF HandleInd, HandleTypeOK
<1>2. /\ op.at = "close" /\ op' = Watched(Done(op)) /\ op.slot \in Used(table[op.src])
      /\ table' = Emptied(op.src, {op.slot}) /\ obj' = Closed(op.src, {op.slot}, None)
      /\ UNCHANGED <<dir, held>>
    BY DEF DupCloses, Closable
<1>3. PICK o \in Object : o = op.object
    BY <1>2, Pinned
<1>4. PICK t \in Table : t = op.src
    BY <1>1, <1>2 DEF HandleTypeOK
<1>5. PICK i : i = op.slot
    OBVIOUS
<1>6. PICK u \in Table : u = op.dst
    BY <1>1, <1>2 DEF HandleTypeOK
<1>7. PICK j : j = op.new
    OBVIOUS
<1>8. ASSUME ~op.lost, ~op.gone
      PROVE  j \in Used(table[u]) /\ table[u].entries[j].object = o /\ ~(t = u /\ i = j) /\ ~op.torn
    BY <1>1, <1>2, <1>3, <1>4, <1>5, <1>6, <1>7, <1>8 DEF DupProgress, Destination, Names
<1>9. /\ op' \in OpType /\ op'.object = op.object /\ op'.at = "post"
      /\ op'.torn = (op.torn \/ obj'[op.object].handle_count = 0)
  <2> DEFINE f == Done(op)
             torn == f.torn \/ (f.at # "no" /\ obj'[f.object].handle_count = 0)
  <2>1. f \in OpType /\ f.object = op.object /\ f.at = "post" /\ f.torn = op.torn
    BY <1>1, DoneType
  <2> HIDE DEF f
  <2>2. op' = [f EXCEPT !.torn = torn]
    BY <1>2, <2>1 DEF Watched, OpType, f
  <2>3. torn \in BOOLEAN
    BY <2>1 DEF OpType
  <2> HIDE DEF torn
  <2>4. op' \in OpType /\ op'.object = f.object /\ op'.at = f.at /\ op'.torn = torn
    BY <2>1, <2>2, <2>3 DEF OpType
  <2> QED BY <2>1, <2>4 DEF torn
<1>10. /\ obj' \in [Object -> Header] /\ table' \in [Table -> TableType] /\ TablesCounted'
       /\ RefsExact' /\ PermanentNamed' /\ AccessNeverGrows'
       /\ Used(table'[t]) = Used(table[t]) \ {i}
       /\ \A k \in Used(table[t]) \ {i} : table'[t].entries[k] = table[t].entries[k]
       /\ \A v \in Table \ {t} : table'[v] = table[v]
  <2>1. table' = Emptied(t, {i}) /\ obj' = Closed(t, {i}, None) /\ {i} \subseteq Used(table[t])
    BY <1>2, <1>4, <1>5
  <2>2. op'.object = IF None = None THEN op.object ELSE None
    BY <1>9
  <2> QED BY <1>2, <2>1, <2>2, ClosesStep
<1>11. ASSUME ~op.lost, ~op.gone PROVE j \in Used(table'[u]) /\ table'[u].entries[j].object = o
    BY <1>8, <1>10, <1>11
<1>12. ASSUME ~op.lost, ~op.gone PROVE ~op'.torn
  <2>1. Handles(o)' \in Nat \ {0}
    BY <1>10, <1>11, <1>12, HandlesPositiveNext
  <2>2. obj'[o].handle_count = Handles(o)'
    BY <1>10 DEF RefsExact
  <2> QED BY <1>3, <1>8, <1>9, <1>12, <2>1, <2>2
<1>13. HandleTypeOK'
    BY <1>1, <1>2, <1>9, <1>10 DEF HandleTypeOK
<1>14. SnapshotAllowed' /\ DupProgress'
    BY <1>9 DEF SnapshotAllowed, DupProgress
<1>15. HandleInd'
    BY <1>10, <1>13, <1>14 DEF HandleInd
<1>16. i \notin Used(table'[t])
    BY <1>10
<1>17. AtomicStep
    BY <1>2, <1>4, <1>5, <1>6, <1>7, <1>9, <1>11, <1>12, <1>16 DEF AtomicStep
<1> QED BY <1>15, <1>17

\* The transfer's source cannot be closed: the destination goes, the source stays.
LEMMA DupRollsBackStep ==
    ASSUME HandleInd, DupRollsBack
    PROVE  HandleInd' /\ AtomicStep
<1>1. HandleTypeOK /\ DupProgress /\ op \in OpType
    BY DEF HandleInd, HandleTypeOK
<1>2. PICK S : S = {op.new} \cap Used(table[op.dst])
    OBVIOUS
<1>3. /\ op.at = "close" /\ op' = NoOp
      /\ table' = Emptied(op.dst, S) /\ obj' = Closed(op.dst, S, op.object)
      /\ UNCHANGED <<dir, held>>
    BY <1>2 DEF DupRollsBack
<1>4. PICK o \in Object : o = op.object
    BY <1>3, Pinned
<1>5. PICK t \in Table : t = op.src
    BY <1>1, <1>3 DEF HandleTypeOK
<1>6. PICK u \in Table : u = op.dst
    BY <1>1, <1>3 DEF HandleTypeOK
<1>7. S \subseteq Used(table[u])
    BY <1>2, <1>6
<1>8. ~op.lost => op.slot \in Used(table[t]) /\ ~(t = u /\ op.slot = op.new)
    BY <1>1, <1>3, <1>5, <1>6 DEF DupProgress, Source, Names
<1>9. /\ obj' \in [Object -> Header] /\ table' \in [Table -> TableType] /\ TablesCounted'
      /\ RefsExact' /\ PermanentNamed' /\ AccessNeverGrows'
      /\ Used(table'[u]) = Used(table[u]) \ S
      /\ \A v \in Table \ {u} : table'[v] = table[v]
  <2>1. table' = Emptied(u, S) /\ obj' = Closed(u, S, o)
    BY <1>3, <1>4, <1>6
  <2>2. op'.object = IF o = None THEN op.object ELSE None
    BY <1>3, NoOpType, HandleTableConstants
  <2>3. o \in {None, op.object}
    BY <1>4
  <2> QED BY <1>3, <1>7, <2>1, <2>2, <2>3, ClosesStep
<1>10. op.new \notin Used(table'[u]) /\ (op.slot \in Used(table'[t]) \/ op.lost)
    BY <1>2, <1>6, <1>8, <1>9
<1>11. HandleTypeOK'
    BY <1>1, <1>3, <1>9, NoOpType DEF HandleTypeOK
<1>12. SnapshotAllowed' /\ DupProgress'
    BY <1>3, NoOpType DEF SnapshotAllowed, DupProgress
<1>13. HandleInd'
    BY <1>9, <1>11, <1>12 DEF HandleInd
<1>14. AtomicStep
    BY <1>3, <1>5, <1>6, <1>10, NoOpType DEF AtomicStep
<1> QED BY <1>13, <1>14

-----------------------------------------------------------------------------
(* The theorems *)

LEMMA HandleIndInit ==
    ASSUME Init
    PROVE  HandleInd
<1>1. PICK p \in Table : table = [t \in Table |-> IF t = p THEN Fresh ELSE Destroyed]
    BY DEF Init
<1>2. /\ obj = [o \in Object |-> Freed] /\ dir = {} /\ held = [o \in Object |-> 0]
      /\ op = NoOp
    BY DEF Init, ObInit
<1>3. Blank(Fresh)
    BY FreshBlank
<1>4. Destroyed \in TableType /\ DOMAIN Destroyed.entries = {} /\ Destroyed.count = 0
  <2>1. NoEntries \in [0 .. 0 - 1 -> EntryType \cup {None}] /\ DOMAIN NoEntries = {}
    BY DEF NoEntries
  <2>2. NoEntries \in Arrays
    BY <2>1 DEF Arrays
  <2> QED BY <2>1, <2>2, HandleTableConstants DEF Destroyed, TableType
<1>5. Fresh \in TableType /\ Fresh.count = 0 /\ Used(Fresh) = {} /\ Used(Destroyed) = {}
    BY <1>3, <1>4 DEF Blank, Used
<1>6. \A t \in Table : table[t] \in TableType /\ table[t].count = 0 /\ Used(table[t]) = {}
    BY <1>1, <1>4, <1>5
<1>7. table \in [Table -> TableType]
  <2>1. table = [t \in Table |-> table[t]]
    BY <1>1
  <2> QED BY <1>6, <2>1
<1>8. TablesCounted /\ AccessNeverGrows
    BY <1>6, FS_EmptySet DEF TablesCounted, Counted, AccessNeverGrows
<1>9. HandleTypeOK
  <2>1. Freed \in Header
    BY DEF Freed, Header
  <2> QED BY <1>2, <1>7, <2>1, NoOpType DEF HandleTypeOK
<1>10. RefsExact
  <2> SUFFICES ASSUME NEW o \in Object PROVE Accounts(obj[o], Handles(o), Others(o))
    BY <1>9, RefsAccount
  <2>1. Pairs(table, o) = {}
    BY <1>6 DEF Pairs, Naming
  <2>2. Handles(o) = 0
    BY <2>1, HandlesPairs, FS_EmptySet
  <2>3. Others(o) = 0
    BY <1>2, NoOpType, HandleTableConstants DEF Others
  <2>4. obj[o].handle_count = 0 /\ obj[o].ref_count = 0 /\ obj[o].live = FALSE
    BY <1>2 DEF Freed
  <2> QED BY <2>2, <2>3, <2>4 DEF Accounts
<1>11. PermanentNamed /\ SnapshotAllowed /\ DupProgress
    BY <1>2, NoOpType DEF PermanentNamed, SnapshotAllowed, DupProgress, Freed
<1> QED BY <1>8, <1>9, <1>10, <1>11 DEF HandleInd

LEMMA HandleIndStep ==
    ASSUME HandleInd, [Next]_vars
    PROVE  HandleInd' /\ AtomicStep
<1>1. CASE ObStep /\ UNCHANGED hvars
  <2>1. op' = op
    BY <1>1 DEF hvars
  <2> QED BY <1>1, <2>1, ObStepInd DEF AtomicStep
<1>2. CASE TableStep
  <2>1. CASE \E t \in Table, o \in Object, access \in Request, w1, w2 \in Written, attrs \in Attributes :
                ObpAllocateHandle(t, o, access, w1, w2, attrs)
    <3>1. PICK t \in Table, o \in Object, access \in Request, w1 \in Written, w2 \in Written, attrs \in Attributes :
                ObpAllocateHandle(t, o, access, w1, w2, attrs)
        BY <2>1
    <3>2. access \in SUBSET Right /\ w1 \in SUBSET Right /\ w2 \in SUBSET Right /\ attrs \in SUBSET Attr
        BY HandleTableConstants
    <3> QED BY <3>1, <3>2, AllocateInd DEF AtomicStep
  <2>2. CASE \E t \in Table : ob_handle_table_destroy(t)
    <3>1. PICK t \in Table : ob_handle_table_destroy(t)
        BY <2>2
    <3>2. op' = op
        BY <3>1 DEF ob_handle_table_destroy
    <3> QED BY <3>1, <3>2, DestroyInd DEF AtomicStep
  <2>3. CASE \E t \in Table : \E i \in DOMAIN table[t].entries : NtClose(t, i) \/ Protect(t, i)
    <3>1. PICK t \in Table : \E i \in DOMAIN table[t].entries : NtClose(t, i) \/ Protect(t, i)
        BY <2>3
    <3>2. PICK i : NtClose(t, i) \/ Protect(t, i)
        BY <3>1
    <3>3. CASE NtClose(t, i)
        BY <3>3, NtCloseInd DEF AtomicStep
    <3>4. CASE Protect(t, i)
      <4>1. op' = op
        BY <3>4 DEF Protect
      <4> QED BY <3>4, <4>1, ProtectInd DEF AtomicStep
    <3> QED BY <3>2, <3>3, <3>4
  <2>4. CASE \E t \in Table, limit \in Limit : ob_handle_table_set_limit(t, limit)
    <3>1. PICK t \in Table, limit \in Limit : ob_handle_table_set_limit(t, limit)
        BY <2>4
    <3>2. op' = op
        BY <3>1 DEF ob_handle_table_set_limit
    <3> QED BY <3>1, <3>2, SetLimitInd DEF AtomicStep
  <2>5. CASE \E parent, child \in Table, n \in 0 .. HANDLE_TABLE_ABSOLUTE_MAX :
                ob_handle_table_inherit(parent, child, n)
    <3>1. PICK parent \in Table, child \in Table, n \in 0 .. HANDLE_TABLE_ABSOLUTE_MAX :
                ob_handle_table_inherit(parent, child, n)
        BY <2>5
    <3>2. op' = op
        BY <3>1 DEF ob_handle_table_inherit
    <3>3. n \in Nat
        BY <3>1
    <3> QED BY <3>1, <3>2, <3>3, InheritInd DEF AtomicStep
  <2> QED BY <1>2, <2>1, <2>2, <2>3, <2>4, <2>5 DEF TableStep
<1>3. CASE DupStep
  <2>1. CASE \E t \in Table, desired \in Request \cup {Right}, move \in BOOLEAN :
                \E i \in DOMAIN table[t].entries : DupCall(t, i, desired, move)
    <3>1. PICK t \in Table, desired \in Request \cup {Right}, move \in BOOLEAN :
                \E i \in DOMAIN table[t].entries : DupCall(t, i, desired, move)
        BY <2>1
    <3>2. PICK i : DupCall(t, i, desired, move)
        BY <3>1
    <3>3. desired \in SUBSET Right
        BY HandleTableConstants
    <3> QED BY <3>1, <3>2, <3>3, DupCallInd DEF AtomicStep
  <2>2. CASE DupFails \/ DupEnds
    <3>1. /\ op.at \in {"pre", "open", "post"} /\ obj' = Unpinned /\ op' = NoOp
          /\ UNCHANGED <<dir, held, table>>
        BY <2>2 DEF DupFails, DupEnds
    <3> QED BY <3>1, UnpinInd, NoOpType DEF AtomicStep
  <2>3. CASE \E u \in Table, attrs \in Attributes : DupAllocates(u, attrs)
    <3>1. PICK u \in Table, attrs \in Attributes : DupAllocates(u, attrs)
        BY <2>3
    <3>2. attrs \in SUBSET Attr
        BY HandleTableConstants
    <3> QED BY <3>1, <3>2, DupAllocatesStep
  <2>6. CASE \E written \in Written : DupCallback(written)
    <3>1. PICK written \in Written : DupCallback(written)
        BY <2>6
    <3>2. written \in SUBSET Right
        BY HandleTableConstants
    <3> QED BY <3>1, <3>2, DupCallbackInd DEF AtomicStep
  <2>7. CASE DupRevalidates
        BY <2>7, DupRevalidatesInd DEF AtomicStep
  <2>4. CASE DupCloses
        BY <2>4, DupClosesStep
  <2>5. CASE DupRollsBack
        BY <2>5, DupRollsBackStep
  <2> QED BY <1>3, <2>1, <2>2, <2>3, <2>4, <2>5, <2>6, <2>7 DEF DupStep
<1>4. CASE UNCHANGED vars
  <2>1. UNCHANGED <<obj, dir, held, table, op>>
    BY <1>4 DEF vars, ovars, hvars
  <2>2. HandleInd'
    <3>1. HandleTypeOK' /\ PermanentNamed' /\ SnapshotAllowed'
        BY <2>1 DEF HandleInd, HandleTypeOK, PermanentNamed, SnapshotAllowed
    <3>2. TablesCounted' /\ AccessNeverGrows'
        BY <2>1 DEF HandleInd, TablesCounted, AccessNeverGrows, Counted, Used
    <3>3. RefsExact'
        BY <2>1 DEF HandleInd, RefsExact, Handles, Used
    <3>4. DupProgress'
        BY <2>1 DEF HandleInd, DupProgress, Source, Destination, Names, Used
    <3> QED BY <3>1, <3>2, <3>3, <3>4 DEF HandleInd
  <2> QED BY <2>1, <2>2 DEF AtomicStep
<1> QED BY <1>1, <1>2, <1>3, <1>4 DEF Next

\* The inductive invariant holds in every reachable state.
THEOREM HandleIndInvariant == Spec => []HandleInd
<1>1. Init => HandleInd
    BY HandleIndInit
<1>2. HandleInd /\ [Next]_vars => HandleInd'
    BY HandleIndStep
<1> QED BY <1>1, <1>2, PTL DEF Spec

\* Every reference to an object is a handle, the directory's, kernel code's or a
\* duplicate's pin; handle_count counts the handles, and the object lives exactly
\* as long as one of them is left.
THEOREM ReferencesExact == Spec => []RefsExact
  BY HandleIndInvariant, PTL DEF HandleInd

\* A table that has not reached its quota has a free slot or may grow, whatever
\* quotas were set and however it filled up.
THEOREM QuotaCanBeReached == Spec => []QuotaReachable
<1>1. HandleInd => QuotaReachable
  <2> SUFFICES ASSUME HandleInd, NEW t \in Table, Exists(t)
               PROVE  /\ table[t].count = Cardinality(Used(table[t]))
                      /\ 0 \notin Used(table[t])
                      /\ table[t].count < Quota(table[t]) => MayAllocate(table[t])
    BY DEF QuotaReachable
  <2> DEFINE tab == table[t]
  <2>1. tab \in TableType /\ Counted(tab)
    BY DEF HandleInd, HandleTypeOK, TablesCounted
  <2> HIDE DEF tab
  <2>2. DOMAIN tab.entries # {} /\ DOMAIN tab.entries = 0 .. Capacity(tab) - 1 /\ Capacity(tab) \in Nat
    BY <2>1, ArrayOf DEF Exists, tab
  <2>3. Capacity(tab) \in Nat \ {0}
    BY <2>2
  <2>4. ASSUME tab.count < Quota(tab) PROVE MayAllocate(tab)
    <3>1. WithinQuota(tab)
      <4>1. tab.handle_limit \in Nat
        BY <2>1, ArrayOf
      <4> QED BY <2>4, <4>1 DEF WithinQuota, Quota
    <3>2. ASSUME FreeSlots(tab) = {} PROVE CanGrow(tab)
      <4>1. Used(tab) = (0 .. Capacity(tab) - 1) \ {0}
        BY <2>1, <2>2, <3>2 DEF FreeSlots, Used, Counted
      <4>2. (0 .. Capacity(tab) - 1) \ {0} = 1 .. Capacity(tab) - 1
        BY <2>3
      <4>3. Cardinality(1 .. Capacity(tab) - 1) = Capacity(tab) - 1
        <5>1. 1 \in Int /\ Capacity(tab) - 1 \in Int
            BY <2>3
        <5>2. Cardinality(1 .. Capacity(tab) - 1)
                = IF 1 > Capacity(tab) - 1 THEN 0 ELSE (Capacity(tab) - 1) - 1 + 1
            BY <5>1, FS_Interval
        <5> QED BY <2>3, <5>2
      <4>4. tab.count = Capacity(tab) - 1
        BY <2>1, <4>1, <4>2, <4>3 DEF Counted
      <4> QED BY <2>1, <2>3, <2>4, <4>4, CeilingType DEF CanGrow
    <3> QED BY <2>2, <3>1, <3>2 DEF MayAllocate
  <2> QED BY <2>1, <2>4 DEF Counted, tab
<1> QED BY <1>1, HandleIndInvariant, PTL

\* No chain of callbacks, duplicates and inheritance gives a handle a right that
\* someone in its descent did not ask for or that a callback took out.
THEOREM AccessBounded == Spec => []AccessNeverGrows
  BY HandleIndInvariant, PTL DEF HandleInd

\* NtDuplicateObject is all or nothing.  What it returns was not torn down unless
\* the source was re-opened in its slot or closed after it was looked up again,
\* or the destination was closed; a transfer never leaves both handles, and
\* neither only if somebody else closed one of them.
THEOREM DuplicateAtomic == Spec => DuplicateIsAtomic
<1>1. HandleInd /\ [Next]_vars =>
         /\ [op.at # "post" /\ op'.at = "post" /\ op'.torn => op.lost \/ op.gone]_vars
         /\ [op.at = "close" /\ op'.at # "close" =>
               IF op'.at = "post"
               THEN op.slot \notin Used(table'[op.src]) /\ (op.new \in Used(table'[op.dst]) \/ op.lost \/ op.gone)
               ELSE op.new \notin Used(table'[op.dst]) /\ (op.slot \in Used(table'[op.src]) \/ op.lost)]_vars
    BY HandleIndStep DEF AtomicStep
<1> QED BY <1>1, HandleIndInvariant, PTL DEF Spec, DuplicateIsAtomic, NoTornDuplicate, TransferIsAtomic

=============================================================================
