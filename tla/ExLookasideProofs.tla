------------------------- MODULE ExLookasideProofs --------------------------
(***************************************************************************)
(* Proofs about ExSList and ExLookaside, for any processors, any finite    *)
(* set of blocks, and any depths.                                          *)
(***************************************************************************)
EXTENDS ExLookaside, FiniteSetTheorems, SequenceTheorems, TLAPS

-----------------------------------------------------------------------------
(* The inductive invariant of the interlocked list.  It holds of the list   *)
(* on its own and of the list under a lookaside list.                       *)

SListType ==
    /\ head \in Header
    /\ link \in [Entry -> Entry \cup {NULL, Data}]
    /\ at \in [Cpu -> Where]
    /\ exp \in [Cpu -> Header]
    /\ arg \in [Cpu -> Entry \cup {NULL}]
    /\ next \in [Cpu -> Entry \cup {NULL, Data}]
    /\ ret \in [Cpu -> Entry \cup {NULL, Pending}]
    /\ own \in [Entry -> Cpu \cup {"list", "heap"}]
    /\ stack \in Seq(Entry)

Popping(c) == at[c] \in {"pop_seq", "pop_next", "pop_dcas"}

\* A caller has a result exactly when it is done.
ResultWhenDone == \A c \in Cpu : ret[c] = Pending <=> at[c] # "done"

\* An entry being pushed is held by its pusher until the push has won.
PusherHolds == \A c \in Cpu : Pushing(c) => arg[c] \in Entry /\ own[arg[c]] = c

\* A pop under way has seen an entry.
PopperSaw == \A c \in Cpu : Popping(c) => exp[c].Next \in Entry

\* No caller is ahead of the header, so a header that changes is told from
\* every copy of it: this is what the sequence number is for.
NotAhead == \A c \in Cpu : exp[c].Seq <= head.Seq

\* What a caller is about to install is right if its copy of the header is
\* current; if it is not, the double-width compare-and-swap fails.
LinkReady == \A c \in Cpu : at[c] = "push_dcas" => link[arg[c]] = exp[c].Next
NextReady == \A c \in Cpu : at[c] = "pop_dcas" /\ exp[c] = head => next[c] = link[head.Next]

SListInd ==
    /\ SListType /\ ChainMatches /\ HeldOnce /\ DepthHonest
    /\ ResultWhenDone /\ PusherHolds /\ PopperSaw /\ NotAhead /\ LinkReady /\ NextReady

-----------------------------------------------------------------------------
(* Sequences: what pushing on the front and taking the tail do. *)

LEMMA ConsProps ==
    ASSUME NEW s \in Seq(Entry), NEW e \in Entry
    PROVE  /\ <<e>> \o s \in Seq(Entry)
           /\ Len(s) \in Nat
           /\ Len(<<e>> \o s) = Len(s) + 1
           /\ (<<e>> \o s)[1] = e
           /\ \A i \in 1 .. Len(s) : (<<e>> \o s)[i + 1] = s[i]
           /\ <<e>> \o s # <<>>
  <1> DEFINE one == <<e>>
  <1>1. one \in Seq(Entry) /\ Len(one) = 1 /\ one[1] = e
    OBVIOUS
  <1>2. Len(s) \in Nat
    BY LenProperties
  <1> HIDE DEF one
  <1>3. /\ one \o s \in Seq(Entry)
        /\ Len(one \o s) = Len(one) + Len(s)
        /\ \A i \in 1 .. Len(one) + Len(s) :
              (one \o s)[i] = IF i <= Len(one) THEN one[i] ELSE s[i - Len(one)]
    BY <1>1, ConcatProperties
  <1>4. one \o s # <<>>
    BY <1>1, <1>2, <1>3, EmptySeq
  <1>5. ASSUME NEW i \in 1 .. Len(s) PROVE (one \o s)[i + 1] = s[i]
    BY <1>1, <1>2, <1>3
  <1>6. (one \o s)[1] = e
    BY <1>1, <1>2, <1>3
  <1> QED
    BY <1>1, <1>2, <1>3, <1>4, <1>5, <1>6 DEF one

LEMMA TailProps ==
    ASSUME NEW s \in Seq(Entry), s # <<>>
    PROVE  /\ Tail(s) \in Seq(Entry)
           /\ Len(s) \in Nat \ {0}
           /\ Len(Tail(s)) = Len(s) - 1
           /\ \A i \in 1 .. Len(s) - 1 : Tail(s)[i] = s[i + 1]
           /\ Head(s) = s[1]
           /\ s[1] \in Entry
           /\ Tail(s) = <<>> <=> Len(s) = 1
  <1>1. Len(s) \in Nat \ {0}
    BY EmptySeq
  <1>2. Tail(s) \in Seq(Entry) /\ Len(Tail(s)) = Len(s) - 1
        /\ \A i \in 1 .. Len(Tail(s)) : Tail(s)[i] = s[i + 1]
    BY HeadTailProperties
  <1>3. Head(s) = s[1]
    OBVIOUS
  <1>4. s[1] \in Entry
    BY <1>1, ElementOfSeq
  <1>5. Tail(s) = <<>> <=> Len(s) = 1
    BY <1>1, <1>2, EmptySeq
  <1> QED
    BY <1>1, <1>2, <1>3, <1>4, <1>5

\* A list that visits each entry once is no longer than there are entries,
\* and shorter while some entry is elsewhere.
LEMMA StackFits ==
    ASSUME NEW s \in Seq(Entry), \A i, j \in 1 .. Len(s) : s[i] = s[j] => i = j
    PROVE  /\ Cardinality(Entry) \in Nat
           /\ Len(s) <= Cardinality(Entry)
           /\ \A e \in Entry : (\A i \in 1 .. Len(s) : s[i] # e) => Len(s) + 1 <= Cardinality(Entry)
  <1>1. IsFiniteSet(Entry) /\ Cardinality(Entry) \in Nat
    BY SListConstants, FS_CardinalityType
  <1>2. Len(s) \in Nat /\ s \in [1 .. Len(s) -> Entry]
    BY LenProperties
  <1>3. Cardinality(1 .. Len(s)) = Len(s)
    BY <1>2, FS_Interval
  <1>4. s \in Injection(1 .. Len(s), Entry)
    BY <1>2 DEF Injection, IsInjective
  <1>5. Len(s) <= Cardinality(Entry) /\ (Len(s) = Cardinality(Entry) => s \in Surjection(1 .. Len(s), Entry))
    BY <1>1, <1>3, <1>4, FS_Injection
  <1>6. ASSUME NEW e \in Entry, \A i \in 1 .. Len(s) : s[i] # e PROVE Len(s) + 1 <= Cardinality(Entry)
    <2>1. s \notin Surjection(1 .. Len(s), Entry)
      BY <1>6 DEF Surjection
    <2> QED BY <1>1, <1>2, <1>5, <2>1
  <1> QED
    BY <1>1, <1>5, <1>6

-----------------------------------------------------------------------------
(* The steps that leave the list as it is: they fill a caller's locals. *)

\* What the header and a re-read of its second word leave in a caller.
LEMMA HeadIsTop == SListInd => head.Next \in Entry \cup {NULL}
  <1> SUFFICES ASSUME SListInd PROVE head.Next \in Entry \cup {NULL}
    OBVIOUS
  <1>1. stack # <<>> => stack[1] \in Entry
    BY TailProps DEF SListInd, SListType
  <1> QED
    BY <1>1 DEF SListInd, ChainMatches

LEMMA SeedSeqType ==
    ASSUME SListType, NEW c \in Cpu, SeedSeq(c)
    PROVE  exp' \in [Cpu -> Header]
  <1>1. exp[c] \in Header /\ head \in Header
    BY DEF SListType
  <1>2. [exp[c] EXCEPT !.Seq = head.Seq, !.Depth = head.Depth] \in Header
    BY <1>1 DEF Header
  <1>3. exp' = [exp EXCEPT ![c] = [exp[c] EXCEPT !.Seq = head.Seq, !.Depth = head.Depth]]
    BY DEF SeedSeq, SListType
  <1> QED
    BY <1>2, <1>3 DEF SListType

LEMMA PushCallKeeps ==
    ASSUME SListInd, NEW c \in Cpu, NEW e \in Entry, PushCall(c, e)
    PROVE  SListInd'
  <1> USE SListConstants DEF SListInd
  <1>1. SListType'
    BY DEF PushCall, SeedNext, Goto, SListType, Header, Where
  <1>2. ChainMatches' /\ HeldOnce' /\ DepthHonest'
    BY DEF PushCall, SeedNext, Goto, ChainMatches, HeldOnce, DepthHonest
  <1>3. ResultWhenDone' /\ PusherHolds'
    BY DEF PushCall, SeedNext, Goto, SListType, Header, ResultWhenDone, PusherHolds, Pushing
  <1>4. PopperSaw'
    BY DEF PushCall, SeedNext, Goto, SListType, Header, PopperSaw, Popping
  <1>5. NotAhead'
    BY DEF PushCall, SeedNext, Goto, SListType, Header, NotAhead
  <1>6. LinkReady' /\ NextReady'
    BY DEF PushCall, SeedNext, Goto, SListType, Header, LinkReady, NextReady, PusherHolds, Pushing
  <1> QED BY <1>1, <1>2, <1>3, <1>4, <1>5, <1>6

LEMMA PushSeedKeeps ==
    ASSUME SListInd, NEW c \in Cpu, PushSeed(c)
    PROVE  SListInd'
  <1> USE SListConstants DEF SListInd
  <1>1. SListType'
    BY SeedSeqType DEF PushSeed, Goto, SListType, Where
  <1>2. ChainMatches' /\ HeldOnce' /\ DepthHonest'
    BY DEF PushSeed, SeedSeq, Goto, ChainMatches, HeldOnce, DepthHonest
  <1>3. ResultWhenDone' /\ PusherHolds'
    BY DEF PushSeed, SeedSeq, Goto, SListType, Header, ResultWhenDone, PusherHolds, Pushing
  <1>4. PopperSaw'
    BY DEF PushSeed, SeedSeq, Goto, SListType, Header, PopperSaw, Popping
  <1>5. NotAhead'
    BY DEF PushSeed, SeedSeq, Goto, SListType, Header, NotAhead
  <1>6. LinkReady' /\ NextReady'
    BY DEF PushSeed, SeedSeq, Goto, SListType, Header, LinkReady, NextReady, PusherHolds, Pushing
  <1> QED BY <1>1, <1>2, <1>3, <1>4, <1>5, <1>6

LEMMA PushFailsKeeps ==
    ASSUME SListInd, NEW c \in Cpu, PushFails(c)
    PROVE  SListInd'
  <1> USE SListConstants DEF SListInd
  <1>1. SListType'
    BY DEF PushFails, DcasFails, Goto, SListType, Header, Where
  <1>2. ChainMatches' /\ HeldOnce' /\ DepthHonest'
    BY DEF PushFails, DcasFails, Goto, ChainMatches, HeldOnce, DepthHonest
  <1>3. ResultWhenDone' /\ PusherHolds'
    BY DEF PushFails, DcasFails, Goto, SListType, Header, ResultWhenDone, PusherHolds, Pushing
  <1>4. PopperSaw'
    BY DEF PushFails, DcasFails, Goto, SListType, Header, PopperSaw, Popping
  <1>5. NotAhead'
    BY DEF PushFails, DcasFails, Goto, SListType, Header, NotAhead
  <1>6. LinkReady' /\ NextReady'
    BY DEF PushFails, DcasFails, Goto, SListType, Header, LinkReady, NextReady, PusherHolds, Pushing
  <1> QED BY <1>1, <1>2, <1>3, <1>4, <1>5, <1>6

LEMMA PopSeedKeeps ==
    ASSUME SListInd, NEW c \in Cpu, PopSeed(c)
    PROVE  SListInd'
  <1> USE SListConstants DEF SListInd
  <1>1. SListType'
    BY SeedSeqType DEF PopSeed, Goto, SListType, Where
  <1>2. ChainMatches' /\ HeldOnce' /\ DepthHonest'
    BY DEF PopSeed, SeedSeq, Goto, ChainMatches, HeldOnce, DepthHonest
  <1>3. ResultWhenDone' /\ PusherHolds'
    BY DEF PopSeed, SeedSeq, Goto, SListType, Header, ResultWhenDone, PusherHolds, Pushing
  <1>4. PopperSaw'
    BY DEF PopSeed, SeedSeq, Goto, SListType, Header, PopperSaw, Popping
  <1>5. NotAhead'
    BY DEF PopSeed, SeedSeq, Goto, SListType, Header, NotAhead
  <1>6. LinkReady' /\ NextReady'
    BY DEF PopSeed, SeedSeq, Goto, SListType, Header, LinkReady, NextReady, PusherHolds, Pushing
  <1> QED BY <1>1, <1>2, <1>3, <1>4, <1>5, <1>6

LEMMA FlushCallKeeps ==
    ASSUME SListInd, NEW c \in Cpu, FlushCall(c)
    PROVE  SListInd'
  <1> USE SListConstants DEF SListInd
  <1>1. SListType'
    BY DEF FlushCall, SeedNext, Goto, SListType, Header, Where
  <1>2. ChainMatches' /\ HeldOnce' /\ DepthHonest'
    BY DEF FlushCall, SeedNext, Goto, ChainMatches, HeldOnce, DepthHonest
  <1>3. ResultWhenDone' /\ PusherHolds'
    BY DEF FlushCall, SeedNext, Goto, SListType, Header, ResultWhenDone, PusherHolds, Pushing
  <1>4. PopperSaw'
    BY DEF FlushCall, SeedNext, Goto, SListType, Header, PopperSaw, Popping
  <1>5. NotAhead'
    BY DEF FlushCall, SeedNext, Goto, SListType, Header, NotAhead
  <1>6. LinkReady' /\ NextReady'
    BY DEF FlushCall, SeedNext, Goto, SListType, Header, LinkReady, NextReady, PusherHolds, Pushing
  <1> QED BY <1>1, <1>2, <1>3, <1>4, <1>5, <1>6

LEMMA FlushSeedKeeps ==
    ASSUME SListInd, NEW c \in Cpu, FlushSeed(c)
    PROVE  SListInd'
  <1> USE SListConstants DEF SListInd
  <1>1. SListType'
    BY SeedSeqType DEF FlushSeed, Goto, SListType, Where
  <1>2. ChainMatches' /\ HeldOnce' /\ DepthHonest'
    BY DEF FlushSeed, SeedSeq, Goto, ChainMatches, HeldOnce, DepthHonest
  <1>3. ResultWhenDone' /\ PusherHolds'
    BY DEF FlushSeed, SeedSeq, Goto, SListType, Header, ResultWhenDone, PusherHolds, Pushing
  <1>4. PopperSaw'
    BY DEF FlushSeed, SeedSeq, Goto, SListType, Header, PopperSaw, Popping
  <1>5. NotAhead'
    BY DEF FlushSeed, SeedSeq, Goto, SListType, Header, NotAhead
  <1>6. LinkReady' /\ NextReady'
    BY DEF FlushSeed, SeedSeq, Goto, SListType, Header, LinkReady, NextReady, PusherHolds, Pushing
  <1> QED BY <1>1, <1>2, <1>3, <1>4, <1>5, <1>6

LEMMA FlushFailsKeeps ==
    ASSUME SListInd, NEW c \in Cpu, FlushFails(c)
    PROVE  SListInd'
  <1> USE SListConstants DEF SListInd
  <1>1. SListType'
    BY DEF FlushFails, DcasFails, SListType, Header, Where
  <1>2. ChainMatches' /\ HeldOnce' /\ DepthHonest'
    BY DEF FlushFails, DcasFails, ChainMatches, HeldOnce, DepthHonest
  <1>3. ResultWhenDone' /\ PusherHolds'
    BY DEF FlushFails, DcasFails, SListType, Header, ResultWhenDone, PusherHolds, Pushing
  <1>4. PopperSaw'
    BY DEF FlushFails, DcasFails, SListType, Header, PopperSaw, Popping
  <1>5. NotAhead'
    BY DEF FlushFails, DcasFails, SListType, Header, NotAhead
  <1>6. LinkReady' /\ NextReady'
    BY DEF FlushFails, DcasFails, SListType, Header, LinkReady, NextReady, PusherHolds, Pushing
  <1> QED BY <1>1, <1>2, <1>3, <1>4, <1>5, <1>6

LEMMA PopCallKeeps ==
    ASSUME SListInd, NEW c \in Cpu, PopCall(c)
    PROVE  SListInd'
  <1> USE SListConstants DEF SListInd
  <1>1. SListType'
    BY DEF PopCall, SeedNext, PopLoop, Finish, Goto, SListType, Header, Where
  <1>2. ChainMatches' /\ HeldOnce' /\ DepthHonest'
    BY DEF PopCall, SeedNext, PopLoop, Finish, Goto, ChainMatches, HeldOnce, DepthHonest
  <1>0. head.Next \in Entry \cup {NULL}
    BY HeadIsTop
  <1>3. ResultWhenDone' /\ PusherHolds'
    <2>1. CASE head.Next = NULL
      BY <2>1 DEF PopCall, SeedNext, PopLoop, Finish, Goto, SListType, ResultWhenDone, PusherHolds, Pushing
    <2>2. CASE head.Next # NULL
      BY <2>2 DEF PopCall, SeedNext, PopLoop, Finish, Goto, SListType, ResultWhenDone, PusherHolds, Pushing
    <2> QED BY <2>1, <2>2
  <1>4. PopperSaw'
    <2>1. CASE head.Next = NULL
      BY <2>1 DEF PopCall, SeedNext, PopLoop, Finish, Goto, SListType, Header, PopperSaw, Popping
    <2>2. CASE head.Next # NULL
      BY <1>0, <2>2 DEF PopCall, SeedNext, PopLoop, Finish, Goto, SListType, Header, PopperSaw, Popping
    <2> QED BY <2>1, <2>2
  <1>5. NotAhead'
    BY DEF PopCall, SeedNext, PopLoop, Finish, Goto, SListType, Header, NotAhead
  <1>6. LinkReady' /\ NextReady'
    BY DEF PopCall, SeedNext, PopLoop, Finish, Goto, SListType, Header, LinkReady, NextReady, PusherHolds, Pushing
  <1> QED BY <1>1, <1>2, <1>3, <1>4, <1>5, <1>6

LEMMA PopFailsKeeps ==
    ASSUME SListInd, NEW c \in Cpu, PopFails(c)
    PROVE  SListInd'
  <1> USE SListConstants DEF SListInd
  <1>1. SListType'
    BY DEF PopFails, DcasFails, PopLoop, Finish, Goto, SListType, Header, Where
  <1>2. ChainMatches' /\ HeldOnce' /\ DepthHonest'
    BY DEF PopFails, DcasFails, PopLoop, Finish, Goto, ChainMatches, HeldOnce, DepthHonest
  <1>0. head.Next \in Entry \cup {NULL}
    BY HeadIsTop
  <1>3. ResultWhenDone' /\ PusherHolds'
    <2>1. CASE head.Next = NULL
      BY <2>1 DEF PopFails, DcasFails, PopLoop, Finish, Goto, SListType, ResultWhenDone, PusherHolds, Pushing
    <2>2. CASE head.Next # NULL
      BY <2>2 DEF PopFails, DcasFails, PopLoop, Finish, Goto, SListType, ResultWhenDone, PusherHolds, Pushing
    <2> QED BY <2>1, <2>2
  <1>4. PopperSaw'
    <2>1. CASE head.Next = NULL
      BY <2>1 DEF PopFails, DcasFails, PopLoop, Finish, Goto, SListType, Header, PopperSaw, Popping
    <2>2. CASE head.Next # NULL
      BY <1>0, <2>2 DEF PopFails, DcasFails, PopLoop, Finish, Goto, SListType, Header, PopperSaw, Popping
    <2> QED BY <2>1, <2>2
  <1>5. NotAhead'
    BY DEF PopFails, DcasFails, PopLoop, Finish, Goto, SListType, Header, NotAhead
  <1>6. LinkReady' /\ NextReady'
    BY DEF PopFails, DcasFails, PopLoop, Finish, Goto, SListType, Header, LinkReady, NextReady, PusherHolds, Pushing
  <1> QED BY <1>1, <1>2, <1>3, <1>4, <1>5, <1>6

LEMMA PopNextKeeps ==
    ASSUME SListInd, NEW c \in Cpu, PopNext(c)
    PROVE  SListInd'
  <1> USE SListConstants DEF SListInd
  <1>1. SListType'
    BY DEF PopNext, Goto, SListType, Where, PopperSaw, Popping
  <1>2. ChainMatches' /\ HeldOnce' /\ DepthHonest'
    BY DEF PopNext, Goto, ChainMatches, HeldOnce, DepthHonest
  <1>3. ResultWhenDone' /\ PusherHolds'
    BY DEF PopNext, Goto, SListType, Header, ResultWhenDone, PusherHolds, Pushing
  <1>4. PopperSaw'
    BY DEF PopNext, Goto, SListType, Header, PopperSaw, Popping
  <1>5. NotAhead'
    BY DEF PopNext, Goto, SListType, Header, NotAhead
  <1>6. LinkReady' /\ NextReady'
    BY DEF PopNext, Goto, SListType, Header, LinkReady, NextReady, PusherHolds, Pushing
  <1> QED BY <1>1, <1>2, <1>3, <1>4, <1>5, <1>6

-----------------------------------------------------------------------------
(* The steps that write a link word of an entry that is off the list. *)

LEMMA PushLinkKeeps ==
    ASSUME SListInd, NEW c \in Cpu, PushLink(c)
    PROVE  SListInd'
  <1> USE SListConstants DEF SListInd
  <1>0. arg[c] \in Entry /\ own[arg[c]] = c /\ c # "list"
    BY DEF PushLink, PusherHolds, Pushing
  <1>1. SListType'
    BY <1>0 DEF PushLink, Goto, SListType, Header, Where
  <1>2. \A i \in 1 .. Len(stack) : stack[i] # arg[c] /\ stack[i] \in Entry
    BY <1>0, ElementOfSeq DEF HeldOnce, SListType
  <1>3. ChainMatches' /\ HeldOnce' /\ DepthHonest'
    BY <1>2 DEF PushLink, ChainMatches, HeldOnce, DepthHonest, SListType
  <1>4. ResultWhenDone' /\ PusherHolds' /\ PopperSaw' /\ NotAhead'
    BY DEF PushLink, Goto, SListType, ResultWhenDone, PusherHolds, Pushing, PopperSaw, Popping, NotAhead
  <1>5. LinkReady'
    BY <1>0 DEF PushLink, Goto, SListType, LinkReady, PusherHolds, Pushing
  <1>6. NextReady'
    <2> SUFFICES ASSUME NEW d \in Cpu, at'[d] = "pop_dcas", exp'[d] = head'
                 PROVE  next'[d] = link'[head'.Next]
      BY DEF NextReady
    <2>1. at[d] = "pop_dcas" /\ exp[d] = head /\ next'[d] = next[d] /\ head' = head
      BY DEF PushLink, Goto, SListType
    <2>2. head.Next \in Entry
      BY <2>1 DEF PopperSaw, Popping
    <2>3. head.Next # arg[c]
      BY <1>2, <2>2, TailProps DEF ChainMatches, SListType
    <2> QED
      BY <2>1, <2>2, <2>3 DEF PushLink, NextReady, SListType
  <1> QED BY <1>1, <1>3, <1>4, <1>5, <1>6

LEMMA OverwriteKeeps ==
    ASSUME SListInd, NEW e \in Entry, Overwrite(e)
    PROVE  SListInd'
  <1> USE SListConstants DEF SListInd
  <1>1. SListType'
    BY DEF Overwrite, SListType, Header, Where
  <1>2. \A i \in 1 .. Len(stack) : stack[i] # e /\ stack[i] \in Entry
    BY ElementOfSeq DEF Overwrite, HeldOnce, SListType
  <1>3. ChainMatches' /\ HeldOnce' /\ DepthHonest'
    BY <1>2 DEF Overwrite, ChainMatches, HeldOnce, DepthHonest, SListType
  <1>4. ResultWhenDone' /\ PusherHolds' /\ PopperSaw' /\ NotAhead' /\ LinkReady'
    BY DEF Overwrite, SListType, ResultWhenDone, PusherHolds, Pushing, PopperSaw, Popping, NotAhead, LinkReady
  <1>5. NextReady'
    <2> SUFFICES ASSUME NEW d \in Cpu, at[d] = "pop_dcas", exp[d] = head
                 PROVE  next[d] = link'[head.Next]
      BY DEF NextReady, Overwrite
    <2>1. head.Next \in Entry
      BY DEF PopperSaw, Popping
    <2>2. head.Next # e
      BY <1>2, <2>1, TailProps DEF ChainMatches, SListType
    <2> QED
      BY <2>1, <2>2 DEF Overwrite, NextReady, SListType
  <1> QED BY <1>1, <1>3, <1>4, <1>5

\* A caller takes its result, and the entries it holds may change hands.
LEMMA CollectKeeps ==
    ASSUME SListInd, NEW c \in Cpu, Collect(c),
           own' \in [Entry -> Cpu \cup {"list", "heap"}],
           \A e \in Entry : own'[e] = "list" <=> own[e] = "list",
           \A d \in Cpu : Pushing(d) => own'[arg[d]] = own[arg[d]]
    PROVE  SListInd'
  <1> USE SListConstants DEF SListInd
  <1>1. SListType'
    BY DEF Collect, Goto, SListType, Header, EmptyHead, Where
  <1>2. \A i \in 1 .. Len(stack) : stack[i] \in Entry
    BY ElementOfSeq DEF SListType
  <1>3. ChainMatches' /\ HeldOnce' /\ DepthHonest'
    BY <1>2 DEF Collect, ChainMatches, HeldOnce, DepthHonest
  <1>4. ResultWhenDone' /\ PusherHolds' /\ PopperSaw'
    BY DEF Collect, Goto, SListType, ResultWhenDone, PusherHolds, Pushing, PopperSaw, Popping
  <1>5. NotAhead' /\ LinkReady' /\ NextReady'
    BY DEF Collect, Goto, EmptyHead, SListType, Header, NotAhead, LinkReady, NextReady
  <1> QED BY <1>1, <1>3, <1>4, <1>5

-----------------------------------------------------------------------------
(* The compare-and-swaps that succeed.  Each raises the sequence number, so *)
(* that no caller's copy of the header is current any more.                 *)

LEMMA PushWinsKeeps ==
    ASSUME SListInd, NEW c \in Cpu, PushWins(c)
    PROVE  SListInd'
  <1> USE SListConstants DEF SListInd
  <1> DEFINE e == arg[c]
  <1>0. /\ e \in Entry /\ own[e] = c /\ c # "list"
        /\ link[e] = head.Next /\ exp[c] = head
        /\ head \in Header
        /\ head' = [Next |-> e, Seq |-> head.Seq + 1, Depth |-> DepthUp(head.Depth)]
        /\ stack' = <<e>> \o stack
        /\ own' = [own EXCEPT ![e] = "list"]
        /\ link' = link
    BY DEF PushWins, DcasWins, NewHead, PusherHolds, Pushing, LinkReady, SListType
  <1> HIDE DEF e
  <1>1. /\ stack' \in Seq(Entry) /\ Len(stack) \in Nat /\ Len(stack') = Len(stack) + 1
        /\ stack'[1] = e /\ stack' # <<>>
        /\ \A i \in 1 .. Len(stack) : stack'[i + 1] = stack[i]
    BY <1>0, ConsProps DEF SListType
  <1>2. \A i \in 1 .. Len(stack) : stack[i] # e /\ stack[i] \in Entry
    BY <1>0, ElementOfSeq DEF HeldOnce, SListType
  <1>3. \A i \in 1 .. Len(stack') : i = 1 \/ (i - 1 \in 1 .. Len(stack) /\ stack'[i] = stack[i - 1])
    BY <1>1
  <1>4. SListType'
    <2>1. head' \in Header
      BY <1>0 DEF Header, DepthUp
    <2>2. ret' \in [Cpu -> Entry \cup {NULL, Pending}]
      BY HeadIsTop, <1>0 DEF PushWins, Finish, SListType
    <2> QED BY <1>0, <1>1, <2>1, <2>2 DEF PushWins, Finish, Goto, SListType, Where
  <1>5. ChainMatches'
    <2>1. head'.Next = stack'[1]
      BY <1>0, <1>1
    <2>2. ASSUME NEW i \in 1 .. Len(stack')
          PROVE  link'[stack'[i]] = IF i = Len(stack') THEN NULL ELSE stack'[i + 1]
      <3>1. CASE i = 1
        <4>1. CASE stack = <<>>
          BY <1>0, <1>1, <3>1, <4>1, EmptySeq DEF ChainMatches
        <4>2. CASE stack # <<>>
          <5>1. Len(stack) \in Nat \ {0}
            BY <4>2, TailProps DEF SListType
          <5>2. stack'[2] = stack[1]
            BY <1>1, <5>1
          <5> QED BY <1>0, <1>1, <3>1, <4>2, <5>1, <5>2 DEF ChainMatches
        <4> QED BY <4>1, <4>2
      <3>2. CASE i # 1
        <4> DEFINE j == i - 1
        <4>1. j \in 1 .. Len(stack) /\ stack'[i] = stack[j] /\ i = j + 1
          BY <1>3, <3>2
        <4>2. link[stack[j]] = IF j = Len(stack) THEN NULL ELSE stack[j + 1]
          BY <4>1 DEF ChainMatches
        <4>3. j # Len(stack) => stack'[i + 1] = stack[j + 1]
          BY <1>1, <4>1
        <4> QED BY <1>0, <1>1, <4>1, <4>2, <4>3
      <3> QED BY <3>1, <3>2
    <2> QED BY <1>1, <2>1, <2>2 DEF ChainMatches
  <1>6. HeldOnce'
    <2>1. \A i \in 1 .. Len(stack') : own'[stack'[i]] = "list"
      BY <1>0, <1>1, <1>2, <1>3 DEF HeldOnce, SListType
    <2>2. ASSUME NEW x \in Entry, own'[x] = "list" PROVE \E i \in 1 .. Len(stack') : stack'[i] = x
      <3>1. CASE x = e
        BY <1>1, <3>1
      <3>2. CASE x # e
        <4>1. own[x] = "list"
          BY <1>0, <2>2, <3>2 DEF SListType
        <4>2. PICK i \in 1 .. Len(stack) : stack[i] = x
          BY <4>1 DEF HeldOnce
        <4>3. i + 1 \in 1 .. Len(stack') /\ stack'[i + 1] = x
          BY <1>1, <4>2
        <4> QED BY <4>3
      <3> QED BY <3>1, <3>2
    <2>3. ASSUME NEW i \in 1 .. Len(stack'), NEW j \in 1 .. Len(stack'), stack'[i] = stack'[j]
          PROVE  i = j
      <3>1. i - 1 \in 1 .. Len(stack) /\ j - 1 \in 1 .. Len(stack) => i - 1 = j - 1 \/ i = 1 \/ j = 1
        BY <1>3, <2>3 DEF HeldOnce
      <3> QED BY <1>1, <1>2, <1>3, <2>3, <3>1
    <2> QED BY <2>1, <2>2, <2>3 DEF HeldOnce
  <1>7. DepthHonest'
    <2>1. Cardinality(Entry) \in Nat /\ Len(stack) + 1 <= Cardinality(Entry)
      BY <1>0, <1>2, StackFits DEF HeldOnce, SListType
    <2>2. head'.Depth = DepthUp(head.Depth) /\ head.Depth \in Nat
      BY <1>0 DEF Header
    <2> QED BY <1>1, <2>1, <2>2 DEF DepthHonest, DepthUp
  <1>8. NotAhead' /\ \A d \in Cpu : exp'[d] # head'
    BY <1>0 DEF PushWins, NotAhead, SListType, Header
  <1>9. ResultWhenDone'
    BY <1>0, HeadIsTop DEF PushWins, Finish, Goto, ResultWhenDone, SListType
  <1>10. PusherHolds' /\ PopperSaw' /\ LinkReady'
    BY <1>0 DEF PushWins, Finish, Goto, PusherHolds, Pushing, PopperSaw, Popping, LinkReady, SListType
  <1>11. NextReady'
    BY <1>8 DEF NextReady
  <1> QED BY <1>4, <1>5, <1>6, <1>7, <1>8, <1>9, <1>10, <1>11

\* The pop takes the first entry, although it read its link word long ago.
LEMMA PopWinsTakesTop ==
    ASSUME SListInd, NEW c \in Cpu, PopWins(c)
    PROVE  /\ stack # <<>> /\ exp[c] = head /\ head.Next = stack[1]
           /\ head' = [Next |-> IF Len(stack) = 1 THEN NULL ELSE stack[2],
                       Seq |-> head.Seq + 1, Depth |-> DepthDown(head.Depth)]
           /\ stack' = Tail(stack)
           /\ own' = [own EXCEPT ![stack[1]] = c]
           /\ ret' = [ret EXCEPT ![c] = stack[1]]
  <1> USE SListConstants DEF SListInd
  <1>1. exp[c] = head /\ head.Next \in Entry
    BY DEF PopWins, DcasWins, PopperSaw, Popping
  <1>2. stack # <<>> /\ head.Next = stack[1]
    BY <1>1 DEF ChainMatches
  <1>3. Len(stack) \in Nat \ {0}
    BY <1>2, TailProps DEF SListType
  <1>4. next[c] = IF Len(stack) = 1 THEN NULL ELSE stack[2]
    <2>1. next[c] = link[head.Next]
      BY <1>1 DEF PopWins, NextReady
    <2>2. 1 \in 1 .. Len(stack)
      BY <1>3
    <2>3. link[stack[1]] = IF 1 = Len(stack) THEN NULL ELSE stack[1 + 1]
      BY <2>2 DEF ChainMatches
    <2> QED BY <1>2, <2>1, <2>3
  <1> QED
    BY <1>1, <1>2, <1>4 DEF PopWins, DcasWins, NewHead, Finish

LEMMA PopWinsKeeps ==
    ASSUME SListInd, NEW c \in Cpu, PopWins(c)
    PROVE  SListInd'
  <1> USE SListConstants DEF SListInd
  <1> DEFINE e == stack[1]
  <1>0. /\ stack # <<>> /\ exp[c] = head /\ head.Next = e /\ head \in Header
        /\ head' = [Next |-> IF Len(stack) = 1 THEN NULL ELSE stack[2],
                    Seq |-> head.Seq + 1, Depth |-> DepthDown(head.Depth)]
        /\ stack' = Tail(stack)
        /\ own' = [own EXCEPT ![e] = c]
        /\ ret' = [ret EXCEPT ![c] = e]
        /\ link' = link /\ c # "list"
    BY PopWinsTakesTop DEF SListType, PopWins
  <1>1. /\ stack' \in Seq(Entry) /\ Len(stack) \in Nat \ {0} /\ Len(stack') = Len(stack) - 1
        /\ e \in Entry
        /\ \A i \in 1 .. Len(stack) - 1 : stack'[i] = stack[i + 1]
        /\ stack' = <<>> <=> Len(stack) = 1
    BY <1>0, TailProps DEF SListType
  <1>2. \A i \in 1 .. Len(stack) : stack[i] \in Entry /\ (i # 1 => stack[i] # e)
    <2>1. 1 \in 1 .. Len(stack)
      BY <1>1
    <2>2. \A i \in 1 .. Len(stack) : stack[i] = stack[1] => i = 1
      BY <2>1 DEF HeldOnce
    <2> QED BY <2>2, ElementOfSeq DEF SListType
  <1> HIDE DEF e
  <1>3. \A i \in 1 .. Len(stack') : i + 1 \in 1 .. Len(stack) /\ stack'[i] = stack[i + 1]
                                   /\ stack'[i] # e /\ stack'[i] \in Entry
    BY <1>1, <1>2
  <1>4. SListType'
    <2>1. head' \in Header
      <3>1. Len(stack) # 1 => stack[2] \in Entry
        BY <1>1, <1>2
      <3> QED BY <1>0, <3>1 DEF Header, DepthDown
    <2> QED BY <1>0, <1>1, <2>1 DEF PopWins, Finish, Goto, SListType, Where
  <1>5. ChainMatches'
    <2>1. head'.Next = IF stack' = <<>> THEN NULL ELSE stack'[1]
      BY <1>0, <1>1
    <2>2. ASSUME NEW i \in 1 .. Len(stack')
          PROVE  link'[stack'[i]] = IF i = Len(stack') THEN NULL ELSE stack'[i + 1]
      <3> DEFINE j == i + 1
      <3>1. j \in 1 .. Len(stack) /\ stack'[i] = stack[j]
        BY <1>3
      <3>2. link[stack[j]] = IF j = Len(stack) THEN NULL ELSE stack[j + 1]
        BY <3>1 DEF ChainMatches
      <3>3. i # Len(stack') => stack'[i + 1] = stack[j + 1]
        BY <1>1
      <3> QED BY <1>0, <1>1, <3>1, <3>2, <3>3
    <2> QED BY <2>1, <2>2 DEF ChainMatches
  <1>6. HeldOnce'
    <2>1. \A i \in 1 .. Len(stack') : own'[stack'[i]] = "list"
      BY <1>0, <1>1, <1>3 DEF HeldOnce, SListType
    <2>2. ASSUME NEW x \in Entry, own'[x] = "list" PROVE \E i \in 1 .. Len(stack') : stack'[i] = x
      <3>1. x # e /\ own[x] = "list"
        BY <1>0, <1>1, <2>2 DEF SListType
      <3>2. PICK j \in 1 .. Len(stack) : stack[j] = x
        BY <3>1 DEF HeldOnce
      <3>3. j # 1
        BY <3>1, <3>2 DEF e
      <3>4. j - 1 \in 1 .. Len(stack') /\ stack'[j - 1] = x
        BY <1>1, <3>2, <3>3
      <3> QED BY <3>4
    <2>3. ASSUME NEW i \in 1 .. Len(stack'), NEW j \in 1 .. Len(stack'), stack'[i] = stack'[j]
          PROVE  i = j
      <3>1. i + 1 = j + 1
        BY <1>3, <2>3 DEF HeldOnce
      <3> QED BY <1>1, <3>1
    <2> QED BY <2>1, <2>2, <2>3 DEF HeldOnce
  <1>7. DepthHonest'
    <2>1. head'.Depth = DepthDown(head.Depth) /\ head.Depth \in Nat
      BY <1>0 DEF Header
    <2> QED BY <1>1, <2>1 DEF DepthHonest, DepthDown
  <1>8. NotAhead' /\ \A d \in Cpu : exp'[d] # head'
    BY <1>0 DEF PopWins, NotAhead, SListType, Header
  <1>9. ResultWhenDone' /\ PusherHolds'
    <2>1. own[e] = "list"
      BY <1>1 DEF HeldOnce, e
    <2>2. ResultWhenDone'
      BY <1>0, <1>1 DEF PopWins, Finish, Goto, ResultWhenDone, SListType
    <2>3. PusherHolds'
      BY <1>0, <1>1, <2>1 DEF PopWins, Finish, Goto, PusherHolds, Pushing, SListType
    <2> QED BY <2>2, <2>3
  <1>10. PopperSaw' /\ LinkReady'
    BY <1>0 DEF PopWins, Finish, Goto, PopperSaw, Popping, LinkReady, SListType
  <1>11. NextReady'
    BY <1>8 DEF NextReady
  <1> QED BY <1>4, <1>5, <1>6, <1>7, <1>8, <1>9, <1>10, <1>11

LEMMA FlushWinsKeeps ==
    ASSUME SListInd, NEW c \in Cpu, FlushWins(c)
    PROVE  SListInd'
  <1> USE SListConstants DEF SListInd
  <1>0. /\ exp[c] = head /\ head \in Header /\ link' = link /\ c # "list"
        /\ head' = [Next |-> NULL, Seq |-> head.Seq + 1, Depth |-> 0]
        /\ stack' = <<>> /\ stack' \in Seq(Entry) /\ Len(stack') = 0
        /\ own' = [x \in Entry |-> IF own[x] = "list" THEN c ELSE own[x]]
        /\ ret' = [ret EXCEPT ![c] = head.Next]
        /\ head.Next \in Entry \cup {NULL}
    BY HeadIsTop, EmptySeq DEF FlushWins, DcasWins, NewHead, Finish, SListType
  <1>1. SListType'
    <2>1. head' \in Header
      BY <1>0 DEF Header
    <2> QED BY <1>0, <2>1 DEF FlushWins, Finish, Goto, SListType, Where
  <1>2. ChainMatches'
    BY <1>0 DEF ChainMatches
  <1>3. HeldOnce'
    BY <1>0 DEF HeldOnce, SListType
  <1>4. DepthHonest'
    BY <1>0 DEF DepthHonest
  <1>5. NotAhead' /\ \A d \in Cpu : exp'[d] # head'
    BY <1>0 DEF FlushWins, NotAhead, SListType, Header
  <1>6. ResultWhenDone' /\ PusherHolds' /\ PopperSaw' /\ LinkReady'
    BY <1>0 DEF FlushWins, Finish, Goto, ResultWhenDone, PusherHolds, Pushing, PopperSaw, Popping,
                LinkReady, SListType
  <1>7. NextReady'
    BY <1>5 DEF NextReady
  <1> QED BY <1>1, <1>2, <1>3, <1>4, <1>5, <1>6, <1>7

-----------------------------------------------------------------------------
(* The list on its own. *)

LEMMA SListStarts == SListInit => SListInd
  <1> SUFFICES ASSUME SListInit PROVE SListInd
    OBVIOUS
  <1> USE SListConstants DEF SListInit, EmptyHead
  <1>0. <<>> \in Seq(Entry) /\ Len(<<>>) = 0
    BY EmptySeq
  <1>1. SListType
    BY <1>0 DEF SListType, Header, Where
  <1>2. ChainMatches /\ HeldOnce /\ DepthHonest
    BY <1>0 DEF ChainMatches, HeldOnce, DepthHonest
  <1>3. ResultWhenDone /\ PusherHolds /\ PopperSaw /\ NotAhead /\ LinkReady /\ NextReady
    BY DEF ResultWhenDone, PusherHolds, Pushing, PopperSaw, Popping, NotAhead, LinkReady, NextReady
  <1> QED BY <1>1, <1>2, <1>3 DEF SListInd

LEMMA SListStepKeeps ==
    ASSUME SListInd, NEW c \in Cpu, SListStep(c)
    PROVE  SListInd'
  BY PushSeedKeeps, PushLinkKeeps, PushWinsKeeps, PushFailsKeeps,
     PopSeedKeeps, PopNextKeeps, PopWinsKeeps, PopFailsKeeps DEF SListStep

LEMMA FlushStepKeeps ==
    ASSUME SListInd, NEW c \in Cpu, FlushStep(c)
    PROVE  SListInd'
  BY FlushSeedKeeps, FlushWinsKeeps, FlushFailsKeeps DEF FlushStep

LEMMA SListUnchanged == SListInd /\ UNCHANGED svars => SListInd'
  <1> SUFFICES ASSUME SListInd, UNCHANGED svars PROVE SListInd'
    OBVIOUS
  <1> QED
    BY DEF SListInd, svars, SListType, ChainMatches, HeldOnce, DepthHonest, ResultWhenDone, PusherHolds,
           Pushing, PopperSaw, Popping, NotAhead, LinkReady, NextReady

LEMMA SListNextKeeps == SListInd /\ [SListNext]_svars => SListInd'
  <1> SUFFICES ASSUME SListInd, [SListNext]_svars PROVE SListInd'
    OBVIOUS
  <1>1. ASSUME NEW c \in Cpu, Collect(c), UNCHANGED own PROVE SListInd'
    <2>1. own \in [Entry -> Cpu \cup {"list", "heap"}]
      BY DEF SListInd, SListType
    <2> QED BY <1>1, <2>1, CollectKeeps
  <1> QED
    BY <1>1, PushCallKeeps, PopCallKeeps, FlushCallKeeps, SListStepKeeps, FlushStepKeeps,
       OverwriteKeeps, SListUnchanged DEF SListNext

(* However pushes, pops and flushes interleave, the links from the header   *)
(* lead through the entries that the finished operations left on the list,  *)
(* each held by nobody else, and the depth is what it claims: the sequence  *)
(* number in ex_slist.c makes every compare-and-swap with a stale next fail. *)
THEOREM ListInMemoryIsTheStack == SListSpec => []SListInv
  <1>1. SListInd => SListInv
    BY DEF SListInd, SListInv
  <1> QED
    BY <1>1, SListStarts, SListNextKeeps, PTL DEF SListSpec

-----------------------------------------------------------------------------
(* Every step of the list is a step of the stack, or leaves it alone.  The  *)
(* step that counts is the compare-and-swap that succeeds, or the load that *)
(* finds the list empty.                                                    *)

AbstractStep == [Abstract!Next]_<<stack, ret>>

LEMMA TopIsHead == SListInd => head.Next = Abstract!Top(stack)
  <1> SUFFICES ASSUME SListInd PROVE head.Next = Abstract!Top(stack)
    OBVIOUS
  <1>1. stack # <<>> => Head(stack) = stack[1]
    BY TailProps DEF SListInd, SListType
  <1> QED
    BY <1>1 DEF SListInd, ChainMatches, Abstract!Top

LEMMA PushWinsIsPush ==
    ASSUME SListInd, NEW c \in Cpu, PushWins(c)
    PROVE  AbstractStep
  <1>1. arg[c] \in Entry /\ ret[c] = Pending /\ exp[c] = head
    BY DEF SListInd, PusherHolds, Pushing, ResultWhenDone, PushWins, DcasWins
  <1>2. Abstract!Push(c, arg[c])
    BY <1>1, TopIsHead DEF PushWins, Finish, Abstract!Push, Abstract!Returns
  <1> QED
    BY <1>1, <1>2 DEF AbstractStep, Abstract!Next

LEMMA PopWinsIsPop ==
    ASSUME SListInd, NEW c \in Cpu, PopWins(c)
    PROVE  AbstractStep
  <1>1. ret[c] = Pending /\ exp[c] = head
    BY DEF SListInd, ResultWhenDone, PopWins, DcasWins
  <1>2. Abstract!Pop(c)
    BY <1>1, TopIsHead DEF PopWins, Finish, Abstract!Pop, Abstract!Returns
  <1> QED
    BY <1>2 DEF AbstractStep, Abstract!Next

\* The top of the loop with the list empty.
LEMMA PopEmptyIsPop ==
    ASSUME SListInd, NEW c \in Cpu, at[c] # "done", head.Next = NULL, UNCHANGED stack, Finish(c, NULL)
    PROVE  AbstractStep
  <1>1. ret[c] = Pending
    BY DEF SListInd, ResultWhenDone
  <1>2. stack = <<>>
    BY TailProps, SListConstants DEF SListInd, SListType, ChainMatches
  <1>3. Abstract!Pop(c)
    BY <1>1, <1>2, TopIsHead DEF Finish, Abstract!Pop, Abstract!Returns
  <1> QED
    BY <1>3 DEF AbstractStep, Abstract!Next

LEMMA FlushWinsIsFlush ==
    ASSUME SListInd, NEW c \in Cpu, FlushWins(c)
    PROVE  AbstractStep
  <1>1. ret[c] = Pending /\ exp[c] = head
    BY DEF SListInd, ResultWhenDone, FlushWins, DcasWins
  <1>2. Abstract!Flush(c)
    BY <1>1, TopIsHead DEF FlushWins, Finish, Abstract!Flush, Abstract!Returns
  <1> QED
    BY <1>2 DEF AbstractStep, Abstract!Next

LEMMA CollectIsCollect ==
    ASSUME NEW c \in Cpu, Collect(c)
    PROVE  AbstractStep
  BY DEF Collect, AbstractStep, Abstract!Next, Abstract!Collect

LEMMA PopCallRefines ==
    ASSUME SListInd, NEW c \in Cpu, PopCall(c)
    PROVE  AbstractStep
  <1>1. CASE head.Next = NULL
    <2>1. at[c] # "done" /\ UNCHANGED stack /\ Finish(c, NULL)
      BY <1>1 DEF PopCall, PopLoop
    <2> QED BY <1>1, <2>1, PopEmptyIsPop
  <1>2. CASE head.Next # NULL
    BY <1>2 DEF PopCall, PopLoop, AbstractStep
  <1> QED BY <1>1, <1>2

LEMMA PopFailsRefines ==
    ASSUME SListInd, NEW c \in Cpu, PopFails(c)
    PROVE  AbstractStep
  <1>1. CASE head.Next = NULL
    <2>1. at[c] # "done" /\ UNCHANGED stack /\ Finish(c, NULL)
      BY <1>1 DEF PopFails, PopLoop
    <2> QED BY <1>1, <2>1, PopEmptyIsPop
  <1>2. CASE head.Next # NULL
    BY <1>2 DEF PopFails, PopLoop, AbstractStep
  <1> QED BY <1>1, <1>2

LEMMA SListStepRefines ==
    ASSUME SListInd, NEW c \in Cpu, SListStep(c)
    PROVE  AbstractStep
  <1>1. CASE PushSeed(c) \/ PushLink(c) \/ PushFails(c) \/ PopSeed(c) \/ PopNext(c)
    BY <1>1 DEF PushSeed, PushLink, PushFails, PopSeed, PopNext, AbstractStep
  <1> QED
    BY <1>1, PushWinsIsPush, PopWinsIsPop, PopFailsRefines DEF SListStep

LEMMA SListNextRefines == SListInd /\ [SListNext]_svars => AbstractStep
  <1> SUFFICES ASSUME SListInd, [SListNext]_svars PROVE AbstractStep
    OBVIOUS
  <1>1. ASSUME NEW c \in Cpu, NEW e \in Entry, PushCall(c, e) PROVE AbstractStep
    BY <1>1 DEF PushCall, AbstractStep
  <1>2. ASSUME NEW c \in Cpu, FlushCall(c) \/ FlushSeed(c) \/ FlushFails(c) PROVE AbstractStep
    BY <1>2 DEF FlushCall, FlushSeed, FlushFails, AbstractStep
  <1>3. ASSUME NEW e \in Entry, Overwrite(e) PROVE AbstractStep
    BY <1>3 DEF Overwrite, AbstractStep
  <1>4. CASE UNCHANGED svars
    BY <1>4 DEF svars, AbstractStep
  <1> QED
    BY <1>1, <1>2, <1>3, <1>4, PopCallRefines, SListStepRefines, FlushWinsIsFlush, CollectIsCollect
    DEF SListNext, FlushStep

LEMMA StackStarts == SListInit => Abstract!Init
  BY DEF SListInit, Abstract!Init

(* Pushes, pops and flushes of ex_slist.c are linearizable: each takes      *)
(* effect at one instant and returns what the stack held then.              *)
THEOREM ListImplementsStack == SListSpec => ImplementsStack
  BY StackStarts, SListStarts, SListNextKeeps, SListNextRefines, PTL
  DEF SListSpec, ImplementsStack, AbstractStep, Abstract!Spec

-----------------------------------------------------------------------------
(* The inductive invariant of the lookaside list. *)

\* Which list operation a call may be in.
CallAt ==
    \A c \in Cpu :
        /\ call[c] = "none" => at[c] = "idle"
        /\ call[c] = "allocate" => Popping(c) \/ at[c] = "done"
        /\ call[c] = "free" => Pushing(c) \/ at[c] = "done"
        /\ call[c] \in {"trim", "flush", "delete"} => at[c] = "idle" \/ Popping(c) \/ at[c] = "done"

LookasideType ==
    /\ initialized \in BOOLEAN
    /\ call \in [Cpu -> {"none", "allocate", "free", "trim", "flush", "delete"}]
    /\ over \in Nat

\* What a pop returned is held by its caller, which may give it to the heap.
PoppedIsHeld ==
    \A c \in Cpu : call[c] # "free" /\ ret[c] \in Entry => own[ret[c]] = c

\* The frees that owe the list a pop.
Owing == {c \in Cpu : (call[c] = "trim" /\ ret[c] = Pending) \/ (call[c] = "free" /\ ret[c] # Pending)}

OwedBound == Len(stack) <= max_depth + Cardinality(Owing) + over

\* A delete is alone; when it has found the list empty, it stays empty.
DeleteAlone ==
    \A c \in Cpu : call[c] = "delete" =>
        /\ initialized
        /\ \A d \in Cpu \ {c} : call[d] = "none"
        /\ ret[c] = NULL => stack = <<>>

DeletedQuiet == ~initialized => Quiet /\ stack = <<>>

LookasideInd ==
    /\ SListInd /\ LookasideType /\ CallAt /\ PoppedIsHeld /\ DeleteAlone /\ DeletedQuiet

\* What a step of a push or pop under way does, as its caller and the others see it.
LEMMA SListStepEffect ==
    ASSUME SListInd, NEW c \in Cpu, SListStep(c)
    PROVE  /\ Pushing(c) \/ Popping(c)
           /\ \A d \in Cpu \ {c} : at'[d] = at[d] /\ ret'[d] = ret[d]
           /\ Pushing(c) => Pushing(c)' \/ at'[c] = "done"
           /\ Popping(c) => Popping(c)' \/ at'[c] = "done"
           /\ \A e \in Entry : own[e] \notin {"list", c} => own'[e] = own[e]
           /\ Popping(c) /\ ret'[c] \in Entry => own'[ret'[c]] = c
           /\ Popping(c) /\ ret'[c] = NULL => stack' = <<>>
           /\ Popping(c) /\ stack = <<>> => stack' = <<>>
  <1> USE SListConstants
  <1>1. ret[c] = Pending \/ at[c] = "done"
    BY DEF SListInd, ResultWhenDone
  <1>2. CASE PushSeed(c) \/ PushLink(c) \/ PushFails(c)
    BY <1>2 DEF PushSeed, PushLink, PushFails, Goto, Pushing, Popping, SListInd, SListType
  <1>3. CASE PopSeed(c) \/ PopNext(c)
    BY <1>1, <1>3 DEF PopSeed, PopNext, Goto, Pushing, Popping, SListInd, SListType
  <1>4. CASE PushWins(c)
    <2>1. own[arg[c]] = c
      BY <1>4 DEF PushWins, SListInd, PusherHolds, Pushing
    <2> QED BY <1>4, <2>1 DEF PushWins, Finish, Goto, Pushing, Popping, SListInd, SListType
  <1>5. CASE PopWins(c)
    <2>1. /\ stack # <<>> /\ own' = [own EXCEPT ![stack[1]] = c]
          /\ ret' = [ret EXCEPT ![c] = stack[1]]
      BY <1>5, PopWinsTakesTop
    <2>2. stack[1] \in Entry /\ own[stack[1]] = "list"
      BY <2>1, TailProps DEF SListInd, SListType, HeldOnce
    <2> QED BY <1>5, <2>1, <2>2 DEF PopWins, Finish, Goto, Pushing, Popping, SListInd, SListType
  <1>6. CASE PopFails(c)
    <2>1. CASE head.Next = NULL
      <3>1. stack = <<>>
        BY <2>1, TailProps DEF SListInd, SListType, ChainMatches
      <3> QED BY <1>6, <2>1, <3>1 DEF PopFails, PopLoop, Finish, Goto, Pushing, Popping, SListInd, SListType
    <2>2. CASE head.Next # NULL
      BY <1>1, <1>6, <2>2 DEF PopFails, PopLoop, Goto, Pushing, Popping, SListInd, SListType
    <2> QED BY <2>1, <2>2
  <1> QED BY <1>2, <1>3, <1>4, <1>5, <1>6 DEF SListStep

\* What a call to the pop does.
LEMMA PopCallEffect ==
    ASSUME SListInd, NEW c \in Cpu, PopCall(c)
    PROVE  /\ at[c] = "idle" /\ ret[c] = Pending /\ own' = own /\ stack' = stack
           /\ \A d \in Cpu \ {c} : at'[d] = at[d] /\ ret'[d] = ret[d]
           /\ \/ Popping(c)' /\ ret'[c] = Pending
              \/ at'[c] = "done" /\ ret'[c] = NULL /\ stack = <<>>
  <1> USE SListConstants
  <1>1. at[c] = "idle" /\ ret[c] = Pending
    BY DEF PopCall, SListInd, ResultWhenDone
  <1>2. CASE head.Next = NULL
    <2>1. stack = <<>>
      BY <1>2, TailProps DEF SListInd, SListType, ChainMatches
    <2> QED BY <1>1, <1>2, <2>1 DEF PopCall, PopLoop, Finish, Goto, Popping, SListInd, SListType
  <1>3. CASE head.Next # NULL
    BY <1>1, <1>3 DEF PopCall, PopLoop, Finish, Goto, Popping, SListInd, SListType
  <1> QED BY <1>2, <1>3

\* What taking a result does.
LEMMA CollectEffect ==
    ASSUME SListInd, NEW c \in Cpu, Collect(c)
    PROVE  /\ at[c] = "done" /\ at'[c] = "idle" /\ ret[c] \in Entry \cup {NULL} /\ ret'[c] = Pending
           /\ \A d \in Cpu \ {c} : at'[d] = at[d] /\ ret'[d] = ret[d]
           /\ stack' = stack
  BY DEF Collect, Goto, SListInd, SListType, ResultWhenDone

\* Giving what a pop returned to the heap disturbs neither the list nor a push.
LEMMA ToHeapKeeps ==
    ASSUME LookasideInd, NEW c \in Cpu, Collect(c), ToHeap(c), call[c] # "free"
    PROVE  /\ SListInd'
           /\ \A e \in Entry : own[e] # c => own'[e] = own[e]
  <1> USE SListConstants
  <1>1. ret[c] \in Entry \cup {NULL} /\ at[c] = "done"
    BY CollectEffect DEF LookasideInd
  <1>2. ret[c] \in Entry => own[ret[c]] = c
    BY DEF LookasideInd, PoppedIsHeld
  <1>3. own \in [Entry -> Cpu \cup {"list", "heap"}]
    BY DEF LookasideInd, SListInd, SListType
  <1>4. own' \in [Entry -> Cpu \cup {"list", "heap"}]
    BY <1>3 DEF ToHeap
  <1>5. \A e \in Entry : own'[e] = own[e] \/ (own[e] = c /\ own'[e] = "heap" /\ e = ret[c])
    BY <1>1, <1>2, <1>3 DEF ToHeap
  <1>6. \A d \in Cpu : Pushing(d) => own'[arg[d]] = own[arg[d]]
    BY <1>1, <1>5 DEF Pushing, LookasideInd, SListInd, PusherHolds
  <1>7. \A e \in Entry : own'[e] = "list" <=> own[e] = "list"
    BY <1>5
  <1> QED BY <1>4, <1>5, <1>6, <1>7, CollectKeeps DEF LookasideInd

LEMMA LookasideStarts == Init => LookasideInd
  <1> SUFFICES ASSUME Init PROVE LookasideInd
    OBVIOUS
  <1>1. SListInd
    BY SListStarts DEF Init
  <1>2. LookasideType /\ CallAt /\ PoppedIsHeld /\ DeleteAlone /\ DeletedQuiet
    BY SListConstants DEF Init, SListInit, LookasideType, CallAt, PoppedIsHeld, DeleteAlone, DeletedQuiet
  <1> QED BY <1>1, <1>2 DEF LookasideInd

LEMMA LookasideNextKeeps == LookasideInd /\ [Next]_vars => LookasideInd'
  <1> SUFFICES ASSUME LookasideInd, [Next]_vars PROVE LookasideInd'
    OBVIOUS
  <1> USE SListConstants
  <1>0. /\ SListInd /\ LookasideType /\ CallAt /\ PoppedIsHeld /\ DeleteAlone /\ DeletedQuiet
        /\ ret \in [Cpu -> Entry \cup {NULL, Pending}]
        /\ own \in [Entry -> Cpu \cup {"list", "heap"}]
        /\ \A d \in Cpu : ret[d] = Pending <=> at[d] # "done"
    BY DEF LookasideInd, SListInd, SListType, ResultWhenDone
  <1>1. ASSUME NEW c \in Cpu, NEW q \in {Low, High}, Allocate(c, q) PROVE LookasideInd'
    <2>1. SListInd'
      BY <1>0, <1>1, PopCallKeeps DEF Allocate
    <2>2. /\ at[c] = "idle" /\ ret[c] = Pending /\ own' = own /\ stack' = stack
          /\ \A d \in Cpu \ {c} : at'[d] = at[d] /\ ret'[d] = ret[d]
          /\ \/ Popping(c)' /\ ret'[c] = Pending
             \/ at'[c] = "done" /\ ret'[c] = NULL /\ stack = <<>>
      BY <1>1, <1>0, PopCallEffect DEF Allocate
    <2>3. LookasideType'
      BY <1>0, <1>1, <2>2 DEF Allocate, Usable, Enter, Deleting, LookasideType
    <2>4. CallAt'
      BY <1>0, <1>1, <2>2 DEF Allocate, Usable, Enter, Deleting, CallAt, Pushing, Popping, LookasideType
    <2>5. PoppedIsHeld'
      BY <1>0, <1>1, <2>2 DEF Allocate, Usable, Enter, Deleting, PoppedIsHeld, LookasideType
    <2>6. DeleteAlone'
      BY <1>0, <1>1, <2>2 DEF Allocate, Usable, Enter, Deleting, DeleteAlone, CallAt, Pushing, Popping, LookasideType
    <2>7. DeletedQuiet'
      BY <1>0, <1>1, <2>2 DEF Allocate, Usable, Enter, Deleting, DeletedQuiet, DeleteAlone, Quiet, LookasideType
    <2> QED BY <2>1, <2>2, <2>3, <2>4, <2>5, <2>6, <2>7 DEF LookasideInd
  <1>2. ASSUME NEW c \in Cpu, AllocateHit(c) PROVE LookasideInd'
    <2>1. SListInd'
      BY <1>0, <1>2, CollectKeeps DEF AllocateHit
    <2>2. /\ at[c] = "done" /\ at'[c] = "idle" /\ ret[c] \in Entry \cup {NULL} /\ ret'[c] = Pending
          /\ \A d \in Cpu \ {c} : at'[d] = at[d] /\ ret'[d] = ret[d]
          /\ stack' = stack
      BY <1>2, <1>0, CollectEffect DEF AllocateHit
    <2>3. LookasideType'
      BY <1>0, <1>2, <2>2 DEF AllocateHit, Leave, LookasideType
    <2>4. CallAt'
      BY <1>0, <1>2, <2>2 DEF AllocateHit, Leave, CallAt, Pushing, Popping, LookasideType
    <2>5. PoppedIsHeld'
      BY <1>0, <1>2, <2>2 DEF AllocateHit, Leave, PoppedIsHeld, LookasideType
    <2>6. DeleteAlone'
      BY <1>0, <1>2, <2>2 DEF AllocateHit, Leave, DeleteAlone, CallAt, Pushing, Popping, LookasideType
    <2>7. DeletedQuiet'
      BY <1>0, <1>2, <2>2 DEF AllocateHit, Leave, DeletedQuiet, DeleteAlone, Quiet, LookasideType
    <2> QED BY <2>1, <2>2, <2>3, <2>4, <2>5, <2>6, <2>7 DEF LookasideInd
  <1>3. ASSUME NEW c \in Cpu, AllocateMiss(c) PROVE LookasideInd'
    <2>0. own' = own \/ \E e \in Entry : own[e] = "heap" /\ own' = [own EXCEPT ![e] = c]
      BY <1>3 DEF AllocateMiss
    <2>1. SListInd'
      <3>1. own' \in [Entry -> Cpu \cup {"list", "heap"}]
        BY <1>0, <2>0
      <3>2. \A e \in Entry : own'[e] = "list" <=> own[e] = "list"
        BY <1>0, <2>0
      <3>3. \A d \in Cpu : Pushing(d) => own'[arg[d]] = own[arg[d]]
        BY <1>0, <2>0 DEF SListInd, PusherHolds
      <3> QED BY <1>0, <1>3, <3>1, <3>2, <3>3, CollectKeeps DEF AllocateMiss
    <2>2. /\ at[c] = "done" /\ at'[c] = "idle" /\ ret[c] \in Entry \cup {NULL} /\ ret'[c] = Pending
          /\ \A d \in Cpu \ {c} : at'[d] = at[d] /\ ret'[d] = ret[d]
          /\ stack' = stack
          /\ \A e \in Entry : own[e] # "heap" => own'[e] = own[e]
      BY <1>0, <1>3, <2>0, CollectEffect DEF AllocateMiss
    <2>3. LookasideType'
      BY <1>0, <1>3, <2>2 DEF AllocateMiss, Leave, LookasideType
    <2>4. CallAt'
      BY <1>0, <1>3, <2>2 DEF AllocateMiss, Leave, CallAt, Pushing, Popping, LookasideType
    <2>5. PoppedIsHeld'
      BY <1>0, <1>3, <2>2 DEF AllocateMiss, Leave, PoppedIsHeld, LookasideType
    <2>6. DeleteAlone'
      BY <1>0, <1>3, <2>2 DEF AllocateMiss, Leave, DeleteAlone, LookasideType
    <2>7. DeletedQuiet'
      BY <1>0, <1>3, <2>2 DEF AllocateMiss, Leave, DeletedQuiet, Quiet, LookasideType
    <2> QED BY <2>1, <2>2, <2>3, <2>4, <2>5, <2>6, <2>7 DEF LookasideInd
  <1>4. ASSUME NEW c \in Cpu, NEW e \in Entry, NEW q \in {Low, High}, Free(c, e, q) PROVE LookasideInd'
    <2>1. SListInd'
      BY <1>0, <1>4, PushCallKeeps DEF Free
    <2>2. /\ at[c] = "idle" /\ Pushing(c)' /\ ret' = ret /\ own' = own /\ stack' = stack
          /\ \A d \in Cpu \ {c} : at'[d] = at[d]
      BY <1>4, <1>0 DEF Free, PushCall, Goto, Pushing, SListInd, SListType
    <2>3. LookasideType'
      BY <1>0, <1>4, <2>2 DEF Free, Usable, Enter, Deleting, LookasideType
    <2>4. CallAt'
      BY <1>0, <1>4, <2>2 DEF Free, Usable, Enter, Deleting, CallAt, Pushing, Popping, LookasideType
    <2>5. PoppedIsHeld'
      BY <1>0, <1>4, <2>2 DEF Free, Usable, Enter, Deleting, PoppedIsHeld, LookasideType
    <2>6. DeleteAlone'
      BY <1>0, <1>4, <2>2 DEF Free, Usable, Enter, Deleting, DeleteAlone, CallAt, Pushing, Popping, LookasideType
    <2>7. DeletedQuiet'
      BY <1>0, <1>4, <2>2 DEF Free, Usable, Enter, Deleting, DeletedQuiet, DeleteAlone, Quiet, LookasideType
    <2> QED BY <2>1, <2>2, <2>3, <2>4, <2>5, <2>6, <2>7 DEF LookasideInd
  <1>5. ASSUME NEW c \in Cpu, FreeTrims(c) PROVE LookasideInd'
    <2>1. SListInd'
      BY <1>0, <1>5, CollectKeeps DEF FreeTrims
    <2>2. /\ at[c] = "done" /\ at'[c] = "idle" /\ ret[c] \in Entry \cup {NULL} /\ ret'[c] = Pending
          /\ \A d \in Cpu \ {c} : at'[d] = at[d] /\ ret'[d] = ret[d]
          /\ stack' = stack
      BY <1>5, <1>0, CollectEffect DEF FreeTrims
    <2>3. LookasideType'
      BY <1>0, <1>5, <2>2 DEF FreeTrims, LookasideType
    <2>4. CallAt'
      BY <1>0, <1>5, <2>2 DEF FreeTrims, CallAt, Pushing, Popping, LookasideType
    <2>5. PoppedIsHeld'
      BY <1>0, <1>5, <2>2 DEF FreeTrims, PoppedIsHeld, LookasideType
    <2>6. DeleteAlone'
      BY <1>0, <1>5, <2>2 DEF FreeTrims, DeleteAlone, CallAt, Pushing, Popping, LookasideType
    <2>7. DeletedQuiet'
      BY <1>0, <1>5, <2>2 DEF FreeTrims, DeletedQuiet, DeleteAlone, Quiet, LookasideType
    <2> QED BY <2>1, <2>2, <2>3, <2>4, <2>5, <2>6, <2>7 DEF LookasideInd
  <1>6. ASSUME NEW c \in Cpu, FreeKeeps(c) PROVE LookasideInd'
    <2>1. SListInd'
      BY <1>0, <1>6, CollectKeeps DEF FreeKeeps
    <2>2. /\ at[c] = "done" /\ at'[c] = "idle" /\ ret[c] \in Entry \cup {NULL} /\ ret'[c] = Pending
          /\ \A d \in Cpu \ {c} : at'[d] = at[d] /\ ret'[d] = ret[d]
          /\ stack' = stack
      BY <1>6, <1>0, CollectEffect DEF FreeKeeps
    <2>3. LookasideType'
      BY <1>0, <1>6, <2>2 DEF FreeKeeps, Leave, LookasideType
    <2>4. CallAt'
      BY <1>0, <1>6, <2>2 DEF FreeKeeps, Leave, CallAt, Pushing, Popping, LookasideType
    <2>5. PoppedIsHeld'
      BY <1>0, <1>6, <2>2 DEF FreeKeeps, Leave, PoppedIsHeld, LookasideType
    <2>6. DeleteAlone'
      BY <1>0, <1>6, <2>2 DEF FreeKeeps, Leave, DeleteAlone, CallAt, Pushing, Popping, LookasideType
    <2>7. DeletedQuiet'
      BY <1>0, <1>6, <2>2 DEF FreeKeeps, Leave, DeletedQuiet, DeleteAlone, Quiet, LookasideType
    <2> QED BY <2>1, <2>2, <2>3, <2>4, <2>5, <2>6, <2>7 DEF LookasideInd
  <1>7. ASSUME NEW c \in Cpu, TrimPop(c) PROVE LookasideInd'
    <2>1. SListInd'
      BY <1>0, <1>7, PopCallKeeps DEF TrimPop
    <2>2. /\ at[c] = "idle" /\ ret[c] = Pending /\ own' = own /\ stack' = stack
          /\ \A d \in Cpu \ {c} : at'[d] = at[d] /\ ret'[d] = ret[d]
          /\ \/ Popping(c)' /\ ret'[c] = Pending
             \/ at'[c] = "done" /\ ret'[c] = NULL /\ stack = <<>>
      BY <1>7, <1>0, PopCallEffect DEF TrimPop
    <2>3. LookasideType'
      BY <1>0, <1>7, <2>2 DEF TrimPop, lvars, LookasideType
    <2>4. CallAt'
      BY <1>0, <1>7, <2>2 DEF TrimPop, lvars, CallAt, Pushing, Popping, LookasideType
    <2>5. PoppedIsHeld'
      BY <1>0, <1>7, <2>2 DEF TrimPop, lvars, PoppedIsHeld, LookasideType
    <2>6. DeleteAlone'
      BY <1>0, <1>7, <2>2 DEF TrimPop, lvars, DeleteAlone, CallAt, Pushing, Popping, LookasideType
    <2>7. DeletedQuiet'
      BY <1>0, <1>7, <2>2 DEF TrimPop, lvars, DeletedQuiet, DeleteAlone, Quiet, LookasideType
    <2> QED BY <2>1, <2>2, <2>3, <2>4, <2>5, <2>6, <2>7 DEF LookasideInd
  <1>8. ASSUME NEW c \in Cpu, TrimDone(c) PROVE LookasideInd'
    <2>1. SListInd'
      BY <1>8, ToHeapKeeps DEF TrimDone
    <2>2. /\ at[c] = "done" /\ at'[c] = "idle" /\ ret[c] \in Entry \cup {NULL} /\ ret'[c] = Pending
          /\ \A d \in Cpu \ {c} : at'[d] = at[d] /\ ret'[d] = ret[d]
          /\ stack' = stack
          /\ \A e \in Entry : own[e] # c => own'[e] = own[e]
      BY <1>8, <1>0, CollectEffect, ToHeapKeeps DEF TrimDone
    <2>3. LookasideType'
      BY <1>0, <1>8, <2>2 DEF TrimDone, Leave, LookasideType
    <2>4. CallAt'
      BY <1>0, <1>8, <2>2 DEF TrimDone, Leave, CallAt, Pushing, Popping, LookasideType
    <2>5. PoppedIsHeld'
      BY <1>0, <1>8, <2>2 DEF TrimDone, Leave, PoppedIsHeld, LookasideType
    <2>6. DeleteAlone'
      BY <1>0, <1>8, <2>2 DEF TrimDone, Leave, DeleteAlone, CallAt, Pushing, Popping, LookasideType
    <2>7. DeletedQuiet'
      BY <1>0, <1>8, <2>2 DEF TrimDone, Leave, DeletedQuiet, DeleteAlone, Quiet, LookasideType
    <2> QED BY <2>1, <2>2, <2>3, <2>4, <2>5, <2>6, <2>7 DEF LookasideInd
  <1>9. ASSUME NEW c \in Cpu, NEW how \in {"flush", "delete"}, Drain(c, how) PROVE LookasideInd'
    <2>1. SListInd'
      BY <1>0, <1>9, PopCallKeeps DEF Drain
    <2>2. /\ at[c] = "idle" /\ ret[c] = Pending /\ own' = own /\ stack' = stack
          /\ \A d \in Cpu \ {c} : at'[d] = at[d] /\ ret'[d] = ret[d]
          /\ \/ Popping(c)' /\ ret'[c] = Pending
             \/ at'[c] = "done" /\ ret'[c] = NULL /\ stack = <<>>
      BY <1>9, <1>0, PopCallEffect DEF Drain
    <2>3. LookasideType'
      BY <1>0, <1>9, <2>2 DEF Drain, Enter, Deleting, Quiet, LookasideType
    <2>4. CallAt'
      BY <1>0, <1>9, <2>2 DEF Drain, Enter, Deleting, Quiet, CallAt, Pushing, Popping, LookasideType
    <2>5. PoppedIsHeld'
      BY <1>0, <1>9, <2>2 DEF Drain, Enter, Deleting, Quiet, PoppedIsHeld, LookasideType
    <2>6. DeleteAlone'
      BY <1>0, <1>9, <2>2 DEF Drain, Enter, Deleting, Quiet, DeleteAlone, CallAt, Pushing, Popping, LookasideType
    <2>7. DeletedQuiet'
      BY <1>0, <1>9, <2>2 DEF Drain, Enter, Deleting, Quiet, DeletedQuiet, DeleteAlone, Quiet, LookasideType
    <2> QED BY <2>1, <2>2, <2>3, <2>4, <2>5, <2>6, <2>7 DEF LookasideInd
  <1>10. ASSUME NEW c \in Cpu, DrainOne(c) PROVE LookasideInd'
    <2>1. SListInd'
      BY <1>10, ToHeapKeeps DEF DrainOne
    <2>2. /\ at[c] = "done" /\ at'[c] = "idle" /\ ret[c] \in Entry \cup {NULL} /\ ret'[c] = Pending
          /\ \A d \in Cpu \ {c} : at'[d] = at[d] /\ ret'[d] = ret[d]
          /\ stack' = stack
          /\ \A e \in Entry : own[e] # c => own'[e] = own[e]
      BY <1>10, <1>0, CollectEffect, ToHeapKeeps DEF DrainOne
    <2>3. LookasideType'
      BY <1>0, <1>10, <2>2 DEF DrainOne, lvars, LookasideType
    <2>4. CallAt'
      BY <1>0, <1>10, <2>2 DEF DrainOne, lvars, CallAt, Pushing, Popping, LookasideType
    <2>5. PoppedIsHeld'
      BY <1>0, <1>10, <2>2 DEF DrainOne, lvars, PoppedIsHeld, LookasideType
    <2>6. DeleteAlone'
      BY <1>0, <1>10, <2>2 DEF DrainOne, lvars, DeleteAlone, CallAt, Pushing, Popping, LookasideType
    <2>7. DeletedQuiet'
      BY <1>0, <1>10, <2>2 DEF DrainOne, lvars, DeletedQuiet, DeleteAlone, Quiet, LookasideType
    <2> QED BY <2>1, <2>2, <2>3, <2>4, <2>5, <2>6, <2>7 DEF LookasideInd
  <1>11. ASSUME NEW c \in Cpu, DrainAgain(c) PROVE LookasideInd'
    <2>1. SListInd'
      BY <1>0, <1>11, PopCallKeeps DEF DrainAgain
    <2>2. /\ at[c] = "idle" /\ ret[c] = Pending /\ own' = own /\ stack' = stack
          /\ \A d \in Cpu \ {c} : at'[d] = at[d] /\ ret'[d] = ret[d]
          /\ \/ Popping(c)' /\ ret'[c] = Pending
             \/ at'[c] = "done" /\ ret'[c] = NULL /\ stack = <<>>
      BY <1>11, <1>0, PopCallEffect DEF DrainAgain
    <2>3. LookasideType'
      BY <1>0, <1>11, <2>2 DEF DrainAgain, lvars, LookasideType
    <2>4. CallAt'
      BY <1>0, <1>11, <2>2 DEF DrainAgain, lvars, CallAt, Pushing, Popping, LookasideType
    <2>5. PoppedIsHeld'
      BY <1>0, <1>11, <2>2 DEF DrainAgain, lvars, PoppedIsHeld, LookasideType
    <2>6. DeleteAlone'
      BY <1>0, <1>11, <2>2 DEF DrainAgain, lvars, DeleteAlone, CallAt, Pushing, Popping, LookasideType
    <2>7. DeletedQuiet'
      BY <1>0, <1>11, <2>2 DEF DrainAgain, lvars, DeletedQuiet, DeleteAlone, Quiet, LookasideType
    <2> QED BY <2>1, <2>2, <2>3, <2>4, <2>5, <2>6, <2>7 DEF LookasideInd
  <1>12. ASSUME NEW c \in Cpu, DrainEnds(c) PROVE LookasideInd'
    <2>1. SListInd'
      BY <1>0, <1>12, CollectKeeps DEF DrainEnds
    <2>2. /\ at[c] = "done" /\ at'[c] = "idle" /\ ret[c] \in Entry \cup {NULL} /\ ret'[c] = Pending
          /\ \A d \in Cpu \ {c} : at'[d] = at[d] /\ ret'[d] = ret[d]
          /\ stack' = stack
      BY <1>12, <1>0, CollectEffect DEF DrainEnds
    <2>3. LookasideType'
      BY <1>0, <1>12, <2>2 DEF DrainEnds, Invalidate, LookasideType
    <2>4. CallAt'
      BY <1>0, <1>12, <2>2 DEF DrainEnds, Invalidate, CallAt, Pushing, Popping, LookasideType
    <2>5. PoppedIsHeld'
      BY <1>0, <1>12, <2>2 DEF DrainEnds, Invalidate, PoppedIsHeld, LookasideType
    <2>6. DeleteAlone'
      BY <1>0, <1>12, <2>2 DEF DrainEnds, Invalidate, DeleteAlone, CallAt, Pushing, Popping, LookasideType
    <2>7. DeletedQuiet'
      BY <1>0, <1>12, <2>2 DEF DrainEnds, Invalidate, DeletedQuiet, DeleteAlone, Quiet, LookasideType
    <2> QED BY <2>1, <2>2, <2>3, <2>4, <2>5, <2>6, <2>7 DEF LookasideInd
  <1>13. ASSUME NEW c \in Cpu, SListStep(c), UNCHANGED lvars PROVE LookasideInd'
    <2>1. SListInd'
      BY <1>0, <1>13, SListStepKeeps
    <2>2. /\ Pushing(c) \/ Popping(c)
          /\ \A d \in Cpu \ {c} : at'[d] = at[d] /\ ret'[d] = ret[d]
          /\ Pushing(c) => Pushing(c)' \/ at'[c] = "done"
          /\ Popping(c) => Popping(c)' \/ at'[c] = "done"
          /\ \A e \in Entry : own[e] \notin {"list", c} => own'[e] = own[e]
          /\ Popping(c) /\ ret'[c] \in Entry => own'[ret'[c]] = c
          /\ Popping(c) /\ ret'[c] = NULL => stack' = <<>>
          /\ Popping(c) /\ stack = <<>> => stack' = <<>>
      BY <1>0, <1>13, SListStepEffect
    <2>3. (Popping(c) /\ call[c] \in {"allocate", "trim", "flush", "delete"}) \/ (Pushing(c) /\ call[c] = "free")
      BY <1>0, <2>2 DEF CallAt, LookasideType, Pushing, Popping
    <2>4. LookasideType' /\ CallAt'
      BY <1>0, <1>13, <2>2, <2>3 DEF lvars, LookasideType, CallAt, Pushing, Popping, LookasideType
    <2>5. PoppedIsHeld'
      BY <1>0, <1>13, <2>2, <2>3 DEF lvars, PoppedIsHeld, LookasideType
    <2>6. DeleteAlone'
      BY <1>0, <1>13, <2>2, <2>3 DEF lvars, DeleteAlone, LookasideType
    <2>7. DeletedQuiet'
      BY <1>0, <1>13, <2>2, <2>3 DEF lvars, DeletedQuiet, Quiet, LookasideType
    <2> QED BY <2>1, <2>4, <2>5, <2>6, <2>7 DEF LookasideInd
  <1>14. CASE DeleteRefused
    <2>1. SListInd'
      BY <1>0, <1>14, SListUnchanged DEF DeleteRefused
    <2> QED
      BY <1>0, <1>14, <2>1 DEF DeleteRefused, Invalidate, svars, LookasideInd, LookasideType, CallAt, Pushing,
                               Popping, PoppedIsHeld, DeleteAlone, DeletedQuiet, Quiet
  <1>15. ASSUME NEW e \in Entry, Overwrite(e), UNCHANGED lvars PROVE LookasideInd'
    <2>1. SListInd'
      BY <1>0, <1>15, OverwriteKeeps
    <2> QED
      BY <1>0, <1>15, <2>1 DEF Overwrite, lvars, LookasideInd, LookasideType, CallAt, Pushing,
                               Popping, PoppedIsHeld, DeleteAlone, DeletedQuiet, Quiet
  <1>16. CASE UNCHANGED vars
    <2>1. SListInd'
      BY <1>0, <1>16, SListUnchanged DEF vars
    <2> QED
      BY <1>0, <1>16, <2>1 DEF vars, svars, lvars, LookasideInd, LookasideType, CallAt, Pushing,
                               Popping, PoppedIsHeld, DeleteAlone, DeletedQuiet, Quiet
  <1> QED
    BY <1>1, <1>2, <1>3, <1>4, <1>5, <1>6, <1>7, <1>8, <1>9, <1>10, <1>11, <1>12, <1>13, <1>14, <1>15, <1>16
    DEF Next

(* The list under a lookaside list, whose blocks come from and go to the    *)
(* heap while late pops still read their link words, stays well formed.     *)
THEOREM ListSoundUnderLookaside == Spec => []SListInv
  <1>1. LookasideInd => SListInv
    BY DEF LookasideInd, SListInd, SListInv
  <1> QED
    BY <1>1, LookasideStarts, LookasideNextKeeps, PTL DEF Spec

(* Under a lookaside list the interlocked list is still a stack. *)
THEOREM LookasideImplementsStack == Spec => ImplementsStack
  <1>1. LookasideInd /\ [Next]_vars => AbstractStep
    <2> SUFFICES ASSUME LookasideInd, [Next]_vars PROVE AbstractStep
      OBVIOUS
    <2>0. SListInd
      BY DEF LookasideInd
    <2>1. ASSUME NEW c \in Cpu, NEW q \in {Low, High}, Allocate(c, q) PROVE AbstractStep
      BY <2>0, <2>1, PopCallRefines DEF Allocate
    <2>2. ASSUME NEW c \in Cpu, NEW q \in {Low, High}, NEW e \in Entry, Free(c, e, q) PROVE AbstractStep
      BY <2>2 DEF Free, PushCall, AbstractStep
    <2>3. ASSUME NEW c \in Cpu, NEW how \in {"flush", "delete"}, Drain(c, how) PROVE AbstractStep
      BY <2>0, <2>3, PopCallRefines DEF Drain
    <2>4. ASSUME NEW c \in Cpu, AllocateHit(c) \/ AllocateMiss(c) \/ FreeTrims(c) \/ FreeKeeps(c)
                                \/ TrimDone(c) \/ DrainOne(c) \/ DrainEnds(c)
          PROVE  AbstractStep
      BY <2>4, CollectIsCollect DEF AllocateHit, AllocateMiss, FreeTrims, FreeKeeps, TrimDone, DrainOne, DrainEnds
    <2>5. ASSUME NEW c \in Cpu, TrimPop(c) \/ DrainAgain(c) PROVE AbstractStep
      BY <2>0, <2>5, PopCallRefines DEF TrimPop, DrainAgain
    <2>6. ASSUME NEW c \in Cpu, SListStep(c) PROVE AbstractStep
      BY <2>0, <2>6, SListStepRefines
    <2>7. CASE DeleteRefused \/ UNCHANGED vars \/ \E e \in Entry : Overwrite(e)
      BY <2>7 DEF DeleteRefused, vars, svars, Overwrite, AbstractStep
    <2> QED
      BY <2>1, <2>2, <2>3, <2>4, <2>5, <2>6, <2>7 DEF Next
  <1>2. Init => Abstract!Init
    BY StackStarts DEF Init
  <1> QED
    BY <1>1, <1>2, LookasideStarts, LookasideNextKeeps, PTL DEF Spec, ImplementsStack, AbstractStep, Abstract!Spec

(* ExDeleteLookasideListEx invalidates a list only when it has drained it:  *)
(* no block is stranded in a deleted list.                                  *)
THEOREM DeleteStrandsNothing == Spec => []DeletedIsEmpty
  <1>1. LookasideInd => DeletedIsEmpty
    BY DEF LookasideInd, DeletedQuiet, DeletedIsEmpty
  <1> QED
    BY <1>1, LookasideStarts, LookasideNextKeeps, PTL DEF Spec

-----------------------------------------------------------------------------
(* The bound on the cache.  A free owes the list a pop from the moment its  *)
(* push has won until its own pop has, or until it has seen the list within *)
(* its depth.                                                               *)

LEMMA OwingFinite == IsFiniteSet(Owing) /\ Cardinality(Owing) \in Nat
  <1>1. Owing \subseteq Cpu
    BY DEF Owing
  <1> QED BY <1>1, LookasideConstants, FS_Subset, FS_CardinalityType

\* The clamps of la_init.
LEMMA MaxDepthIsNat == max_depth \in Nat
  BY LookasideConstants, SListConstants DEF max_depth

\* A step that keeps the debts and does not lengthen the list.
LEMMA OwedFrame ==
    ASSUME OwedBound, LookasideInd, Owing' = Owing, stack' = stack,
           over' \in Nat, over' >= over, LookasideType
    PROVE  OwedBound'
  <1>1. Len(stack) \in Nat
    BY LenProperties DEF LookasideInd, SListInd, SListType
  <1> QED BY <1>1, OwingFinite, MaxDepthIsNat DEF OwedBound, LookasideType, max_depth

\* A push that has won lengthens the list and owes a pop.
LEMMA OwedGrows ==
    ASSUME OwedBound, LookasideInd, NEW c \in Cpu, c \notin Owing, Owing' = Owing \cup {c},
           Len(stack') = Len(stack) + 1, over' = over
    PROVE  OwedBound'
  <1>1. Len(stack) \in Nat /\ over \in Nat
    BY LenProperties DEF LookasideInd, LookasideType, SListInd, SListType
  <1>2. Cardinality(Owing') = Cardinality(Owing) + 1
    BY OwingFinite, FS_AddElement
  <1> QED BY <1>1, <1>2, OwingFinite, MaxDepthIsNat DEF OwedBound, max_depth

\* A caller that no longer owes a pop has made one, has seen the list within
\* its depth, or counts as one that could not.
LEMMA OwedShrinks ==
    ASSUME OwedBound, LookasideInd, NEW c \in Cpu, Owing' = Owing \ {c} \/ Owing' = Owing,
           \/ Len(stack') = Len(stack) - 1 /\ over' = over
           \/ Len(stack') \in Nat /\ Len(stack') <= max_depth /\ over' = over
           \/ stack' = stack /\ over' = over + 1
    PROVE  OwedBound'
  <1>1. Len(stack) \in Nat /\ over \in Nat
    BY LenProperties DEF LookasideInd, LookasideType, SListInd, SListType
  <1>2. Cardinality(Owing') \in Nat /\ Cardinality(Owing') >= Cardinality(Owing) - 1
    <2>1. IsFiniteSet(Owing \ {c})
          /\ Cardinality(Owing \ {c}) = IF c \in Owing THEN Cardinality(Owing) - 1 ELSE Cardinality(Owing)
      BY OwingFinite, FS_RemoveElement
    <2>2. Cardinality(Owing \ {c}) \in Nat
      BY <2>1, FS_CardinalityType
    <2>3. Cardinality(Owing) \in Nat
      BY OwingFinite
    <2>4. CASE Owing' = Owing
      BY <2>3, <2>4
    <2>5. CASE Owing' = Owing \ {c}
      <3>1. Cardinality(Owing') = Cardinality(Owing \ {c})
        BY <2>5
      <3>2. Cardinality(Owing \ {c}) >= Cardinality(Owing) - 1
        BY <2>1, <2>3
      <3> QED BY <2>2, <3>1, <3>2
    <2> QED BY <2>4, <2>5
  <1> QED BY <1>1, <1>2, OwingFinite, MaxDepthIsNat DEF OwedBound, max_depth

LEMMA OwedNextKeeps ==
    ASSUME Cardinality(Entry) <= SLIST_DEPTH_MAX, LookasideInd, OwedBound, [Next]_vars
    PROVE  OwedBound'
  <1> USE SListConstants
  <1>0. /\ SListInd /\ LookasideType /\ CallAt
        /\ \A d \in Cpu : ret[d] = Pending <=> at[d] # "done"
        /\ ret \in [Cpu -> Entry \cup {NULL, Pending}]
        /\ Len(stack) \in Nat /\ head.Depth = Len(stack)
        /\ over \in Nat /\ max_depth \in Nat
        /\ Len(<<>>) = 0
    BY LenProperties, EmptySeq, MaxDepthIsNat
    DEF LookasideInd, LookasideType, SListInd, SListType, ResultWhenDone, DepthHonest
  <1>pop. ASSUME NEW c \in Cpu, PopCall(c), over' = over,
                 \A d \in Cpu \ {c} : call'[d] = call[d],
                 call'[c] = call[c] \/ call[c] # "trim", call'[c] # "free",
                 call'[c] = "trim" => call[c] = "trim"
          PROVE  OwedBound'
    <2>1. /\ at[c] = "idle" /\ ret[c] = Pending /\ own' = own /\ stack' = stack
          /\ \A d \in Cpu \ {c} : at'[d] = at[d] /\ ret'[d] = ret[d]
          /\ \/ Popping(c)' /\ ret'[c] = Pending
             \/ at'[c] = "done" /\ ret'[c] = NULL /\ stack = <<>>
      BY <1>0, <1>pop, PopCallEffect
    <2>2. CASE ret'[c] = Pending
      <3>1. Owing' = Owing
        BY <1>pop, <2>1, <2>2 DEF Owing
      <3> QED BY <1>0, <1>pop, <2>1, <3>1, OwedFrame
    <2>3. CASE ret'[c] = NULL /\ stack = <<>>
      <3>1. Owing' = Owing \ {c}
        BY <1>pop, <2>1, <2>3 DEF Owing
      <3> QED BY <1>0, <1>pop, <2>1, <2>3, <3>1, OwedShrinks
    <2> QED BY <2>1, <2>2, <2>3
  <1>1. ASSUME NEW c \in Cpu, NEW q \in {Low, High}, Allocate(c, q) PROVE OwedBound'
    BY <1>0, <1>1, <1>pop DEF Allocate, Enter, LookasideType
  <1>2. ASSUME NEW c \in Cpu, NEW q \in {Low, High}, NEW e \in Entry, Free(c, e, q) PROVE OwedBound'
    <2>1. stack' = stack /\ over' = over /\ Owing' = Owing
      BY <1>0, <1>2 DEF Free, Enter, PushCall, Owing, LookasideType
    <2> QED BY <1>0, <2>1, OwedFrame
  <1>3. ASSUME NEW c \in Cpu, NEW how \in {"flush", "delete"}, Drain(c, how) PROVE OwedBound'
    BY <1>0, <1>3, <1>pop DEF Drain, Enter, LookasideType
  <1>4. ASSUME NEW c \in Cpu, AllocateHit(c) \/ AllocateMiss(c) \/ FreeTrims(c) \/ TrimDone(c)
                              \/ DrainOne(c) \/ DrainEnds(c)
        PROVE  OwedBound'
    <2>1. Collect(c)
      BY <1>4 DEF AllocateHit, AllocateMiss, FreeTrims, TrimDone, DrainOne, DrainEnds
    <2>2. /\ at[c] = "done" /\ at'[c] = "idle" /\ ret[c] \in Entry \cup {NULL} /\ ret'[c] = Pending
          /\ \A d \in Cpu \ {c} : at'[d] = at[d] /\ ret'[d] = ret[d]
          /\ stack' = stack
      BY <1>0, <2>1, CollectEffect
    <2>3. over' = over
      BY <1>4 DEF AllocateHit, AllocateMiss, FreeTrims, TrimDone, DrainOne, DrainEnds, lvars
    <2>4. Owing' = Owing
      BY <1>0, <1>4, <2>2 DEF AllocateHit, AllocateMiss, FreeTrims, TrimDone, DrainOne, DrainEnds, Leave,
                              lvars, Owing, LookasideType
    <2> QED BY <1>0, <2>2, <2>3, <2>4, OwedFrame
  <1>5. ASSUME NEW c \in Cpu, FreeKeeps(c) PROVE OwedBound'
    <2>1. /\ at[c] = "done" /\ at'[c] = "idle" /\ ret[c] \in Entry \cup {NULL} /\ ret'[c] = Pending
          /\ \A d \in Cpu \ {c} : at'[d] = at[d] /\ ret'[d] = ret[d]
          /\ stack' = stack
      BY <1>0, <1>5, CollectEffect DEF FreeKeeps
    <2>2. Owing' = Owing \ {c}
      BY <1>0, <1>5, <2>1 DEF FreeKeeps, Leave, Owing, LookasideType
    <2>3. CASE TooDeep
      BY <1>5, <2>1, <2>2, <2>3, OwedShrinks DEF FreeKeeps
    <2>4. CASE ~TooDeep
      <3>1. Len(stack) <= max_depth
        BY <1>0, <2>4 DEF TooDeep
      <3> QED BY <1>0, <1>5, <2>1, <2>2, <2>4, <3>1, OwedShrinks DEF FreeKeeps
    <2> QED BY <2>3, <2>4
  <1>6. ASSUME NEW c \in Cpu, TrimPop(c) \/ DrainAgain(c) PROVE OwedBound'
    BY <1>0, <1>6, <1>pop DEF TrimPop, DrainAgain, lvars, LookasideType
  <1>7. ASSUME NEW c \in Cpu, SListStep(c), UNCHANGED lvars PROVE OwedBound'
    <2>0. (Popping(c) /\ call[c] \in {"allocate", "trim", "flush", "delete"}) \/ (Pushing(c) /\ call[c] = "free")
      BY <1>0, <1>7, SListStepEffect DEF CallAt, LookasideType, Pushing, Popping
    <2>1. /\ ret[c] = Pending /\ call' = call /\ over' = over
          /\ \A d \in Cpu \ {c} : at'[d] = at[d] /\ ret'[d] = ret[d]
      BY <1>0, <1>7, <2>0, SListStepEffect DEF lvars, Pushing, Popping
    <2>2. CASE PushWins(c)
      <3>1. arg[c] \in Entry /\ call[c] = "free"
        BY <1>0, <2>0, <2>2 DEF SListInd, PusherHolds, PushWins, Pushing, Popping
      <3>2. Len(stack') = Len(stack) + 1
        BY <1>0, <2>2, <3>1, ConsProps DEF PushWins, SListInd, SListType
      <3>3. ret'[c] # Pending
        BY <1>0, <2>2, HeadIsTop DEF PushWins, DcasWins, Finish
      <3>4. c \notin Owing /\ Owing' = Owing \cup {c}
        BY <2>1, <3>1, <3>3 DEF Owing
      <3> QED BY <2>1, <3>2, <3>4, OwedGrows
    <2>3. CASE PopWins(c)
      <3>1. call[c] # "free"
        BY <2>0, <2>3 DEF PopWins, Pushing
      <3>2. stack # <<>> /\ stack' = Tail(stack) /\ ret' = [ret EXCEPT ![c] = stack[1]]
        BY <1>0, <2>3, PopWinsTakesTop
      <3>3. Len(stack') = Len(stack) - 1 /\ ret'[c] # Pending
        BY <1>0, <3>2, TailProps DEF SListInd, SListType
      <3>4. Owing' = Owing \ {c} \/ Owing' = Owing
        BY <2>1, <3>1, <3>3 DEF Owing
      <3> QED BY <2>1, <3>3, <3>4, OwedShrinks
    <2>4. CASE PopFails(c) /\ head.Next = NULL
      <3>1. stack = <<>> /\ stack' = stack /\ call[c] # "free" /\ ret'[c] = NULL
        BY <1>0, <2>0, <2>4, TailProps DEF PopFails, PopLoop, Finish, SListInd, SListType, ChainMatches, Pushing
      <3>2. Owing' = Owing \ {c}
        BY <2>1, <3>1 DEF Owing
      <3> QED BY <1>0, <2>1, <3>1, <3>2, OwedShrinks
    <2>5. CASE PushSeed(c) \/ PushLink(c) \/ PushFails(c) \/ PopSeed(c) \/ PopNext(c)
               \/ (PopFails(c) /\ head.Next # NULL)
      <3>1. stack' = stack /\ ret' = ret
        BY <2>5 DEF PushSeed, PushLink, PushFails, PopSeed, PopNext, PopFails, PopLoop
      <3>2. Owing' = Owing
        BY <2>1, <3>1 DEF Owing
      <3> QED BY <1>0, <2>1, <3>1, <3>2, OwedFrame
    <2> QED BY <1>7, <2>2, <2>3, <2>4, <2>5 DEF SListStep
  <1>8. CASE DeleteRefused \/ UNCHANGED vars \/ \E e \in Entry : Overwrite(e) /\ UNCHANGED lvars
    <2>1. stack' = stack /\ over' = over /\ Owing' = Owing
      BY <1>8 DEF DeleteRefused, vars, svars, lvars, Overwrite, Owing
    <2> QED BY <1>0, <2>1, OwedFrame
  <1> QED
    BY <1>1, <1>2, <1>3, <1>4, <1>5, <1>6, <1>7, <1>8 DEF Next

(* While the blocks cannot outnumber what the list's 16-bit depth counts,   *)
(* however frees, allocations and drains interleave, the cache is never     *)
(* deeper than max_depth by more than the frees still at work plus those    *)
(* made above APC_LEVEL; and a deleted list is empty.                       *)
THEOREM CacheStaysBounded ==
    ASSUME Cardinality(Entry) <= SLIST_DEPTH_MAX
    PROVE  Spec => []CacheInv
  <1>1. Init => OwedBound
    <2> SUFFICES ASSUME Init PROVE OwedBound
      OBVIOUS
    <2>1. Len(stack) = 0 /\ over = 0
      BY EmptySeq DEF Init, SListInit
    <2> QED BY <2>1, OwingFinite, MaxDepthIsNat DEF OwedBound
  <1>2. LookasideInd /\ OwedBound /\ [Next]_vars => OwedBound'
    BY OwedNextKeeps
  <1>3. LookasideInd /\ OwedBound => CacheInv
    <2> SUFFICES ASSUME LookasideInd, OwedBound PROVE CacheInv
      OBVIOUS
    <2>1. DeletedIsEmpty
      BY DEF LookasideInd, DeletedQuiet, DeletedIsEmpty
    <2>2. Owing \subseteq Trimming /\ Trimming \subseteq Cpu
      BY DEF Owing, Trimming
    <2>3. IsFiniteSet(Trimming)
      BY <2>2, LookasideConstants, FS_Subset
    <2>4. Cardinality(Owing) <= Cardinality(Trimming) /\ Cardinality(Trimming) \in Nat
      BY <2>2, <2>3, FS_Subset, FS_CardinalityType
    <2>5. CacheBounded
      <3>1. Len(stack) \in Nat /\ over \in Nat
        BY LenProperties DEF LookasideInd, LookasideType, SListInd, SListType
      <3> QED BY <2>4, <3>1, OwingFinite, MaxDepthIsNat DEF OwedBound, CacheBounded
    <2> QED BY <2>1, <2>5 DEF CacheInv
  <1> QED
    BY <1>1, <1>2, <1>3, LookasideStarts, LookasideNextKeeps, PTL DEF Spec
=============================================================================
