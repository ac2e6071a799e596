---------------------------- MODULE KWorkerProofs ---------------------------
(***************************************************************************)
(* Proofs about the periodic worker: about KWorker, for any number of      *)
(* entries and of clients, any periods, and any bounds on the uptime and,  *)
(* below the range of the generation, on the registrations; and about its  *)
(* start, KWorkerInit, for any callers and any number of calls.            *)
(***************************************************************************)
EXTENDS KWorker, KWorkerInit, TLAPS

-----------------------------------------------------------------------------
(* The inductive invariant. *)

Tokens == [slot : Slots, gen : 0 .. GenMod]

\* A slot counts its registrations, and a token is from its past or present.
GenerationCounts ==
    /\ token \in [Clients -> Tokens]
    /\ \A i \in Slots : entries[i].generation <= made
    /\ \A c \in Clients : token[c] = NoToken \/ token[c].gen <= entries[token[c].slot].generation

\* A context is handed out once, and found in one slot only, the one that the
\* token of its client names.
ContextsOnce ==
    /\ \A i \in Slots : entries[i].ctx <= made /\ (entries[i].active => entries[i].ctx # None)
    /\ \A c \in Clients : ctx[c] <= made
    /\ \A x \in freed : x <= made
    /\ \A c, d \in Clients : ctx[c] = ctx[d] /\ ctx[c] # None => c = d
    /\ \A c \in Clients, i \in Slots : entries[i].ctx = ctx[c] /\ ctx[c] # None => i = token[c].slot

\* The clients with a live registration are those whose tokens are valid.
TokensExact ==
    \A c \in Clients : /\ TokenValid(token[c]) <=> pc[c] = "registered"
                       /\ pc[c] = "registered" => entries[token[c].slot].ctx = ctx[c]

\* The worker runs the callback of the entry it looks at, and no other entry
\* is marked as running.
OneRuns ==
    /\ worker = "callback" => entries[slot].ctx = running_ctx /\ running_ctx # None
    /\ worker # "callback" => running_ctx = None
    /\ \A i \in Slots : entries[i].running <=> worker = "callback" /\ i = slot

\* Once unregister has begun, no active entry has the client's context; once
\* it has returned, the worker is not in the callback.
Unregistered ==
    /\ \A c \in Clients :
         pc[c] \in {"drain", "returned", "self"} =>
            ctx[c] # None /\ \A i \in Slots : entries[i].active => entries[i].ctx # ctx[c]
    /\ \A c \in Clients : pc[c] = "returned" => running_ctx # ctx[c]

\* What is freed is neither registered nor running.
FreedIsGone ==
    /\ \A i \in Slots : entries[i].active => entries[i].ctx \notin freed
    /\ running_ctx \notin freed

OwnerInd ==
    /\ TypeOK /\ GenerationCounts /\ ContextsOnce /\ TokensExact /\ OneRuns /\ Unregistered /\ FreedIsGone

\* The worker's pass: the clock it read is not ahead, an entry that has fired
\* is a period away from it, and the deadline seen so far is no later than
\* those of the entries behind it that were armed before the pass.  What it
\* then sleeps ends no later, but for the time since it measured.
Armed(i) == entries[i].active /\ entries[i].deadline - entries[i].period < now

TimeInd ==
    /\ now <= time
    /\ worker \in {"measure", "pace", "sleep"} => slot = 0
    /\ worker \notin {"pace", "sleep"} => late = 0
    /\ \A i \in Slots : entries[i].active /\ entries[i].last_fire > 0
                            => entries[i].deadline >= entries[i].last_fire + entries[i].period
    /\ worker \in {"scan", "callback"} =>
           \A i \in Slots : i < slot /\ Armed(i) => next <= entries[i].deadline
    /\ worker \in {"measure", "pace"} => \A i \in Slots : Armed(i) => next <= entries[i].deadline
    /\ worker = "pace" => time + sleep <= next + late \/ sleep = 0
    /\ worker = "sleep" =>
           \A i \in Slots : Armed(i) => next <= entries[i].deadline + late \/ next <= time

-----------------------------------------------------------------------------
(* Lemmas. *)

LEMMA EntryFields ==
    ASSUME TypeOK, NEW i \in Slots
    PROVE  /\ entries[i] \in EntryType
           /\ entries[i].active \in BOOLEAN /\ entries[i].running \in BOOLEAN
           /\ entries[i].generation \in Nat /\ entries[i].ctx \in Nat
           /\ entries[i].period \in Nat /\ entries[i].last_fire \in Nat /\ entries[i].deadline \in Nat
  <1>1. entries[i] \in EntryType
    BY DEF TypeOK
  <1>2. entries[i].active \in BOOLEAN /\ entries[i].running \in BOOLEAN
    BY <1>1 DEF EntryType
  <1>3. /\ entries[i].generation \in Nat /\ entries[i].last_fire \in Nat /\ entries[i].deadline \in Nat
        /\ entries[i].ctx \in Nat
    BY <1>1, KWorkerConstants DEF EntryType, Contexts, None
  <1>4. entries[i].period \in Nat
    <2>1. entries[i].period \in Periods \cup {0}
      BY <1>1 DEF EntryType
    <2>2. \A x \in Periods \cup {0} : x \in Nat
      BY KWorkerConstants
    <2> QED BY <2>1, <2>2, Zenon
  <1> QED BY <1>1, <1>2, <1>3, <1>4

LEMMA Numbers ==
    ASSUME TypeOK
    PROVE  /\ time \in Nat /\ now \in Nat /\ next \in Nat /\ made \in Nat /\ slot \in Nat
           /\ sleep \in Nat /\ late \in Nat
           /\ \A c \in Clients : ctx[c] \in Nat
           /\ \A x \in freed : x \in Nat
           /\ None \notin freed
  BY KWorkerConstants DEF TypeOK, Contexts, None, Slots

\* Below the bound on registrations the generation does not come round.
LEMMA GenerationGrows ==
    ASSUME NEW g \in Nat, g < MaxRegistrations
    PROVE  (g + 1) % GenMod = g + 1 /\ g + 1 \in 0 .. GenMod - 1
BY KWorkerConstants

\* What the end of a step of the pass does.
LEMMA AdvanceType ==
    ASSUME TypeOK, NEW seen \in Nat, Advance(seen)
    PROVE  slot' \in Slots /\ worker' \in {"scan", "measure"} /\ next' \in Nat
  BY KWorkerConstants, Numbers DEF Advance, Slots, TypeOK

LEMMA Starts == Init => OwnerInd /\ TimeInd
  <1> SUFFICES ASSUME Init PROVE OwnerInd /\ TimeInd
    OBVIOUS
  <1> USE KWorkerConstants
  <1>0. 0 \in Slots
    BY DEF Slots
  <1>1. TypeOK
    BY <1>0 DEF Init, TypeOK, EntryType, Contexts, None
  <1>2. GenerationCounts
    BY <1>0 DEF Init, GenerationCounts, Tokens, NoToken
  <1>3. ContextsOnce /\ OneRuns /\ Unregistered /\ FreedIsGone
    BY DEF Init, ContextsOnce, OneRuns, Unregistered, FreedIsGone, None
  <1>4. TokensExact
    BY DEF Init, TokensExact, TokenValid
  <1>5. TimeInd
    BY <1>0 DEF Init, TimeInd, Armed, Slots
  <1> QED BY <1>1, <1>2, <1>3, <1>4, <1>5 DEF OwnerInd

-----------------------------------------------------------------------------
(* kworker_register: a vacant slot, a generation and a context not seen before. *)

\* Slot i is filled, and the client's token names it.
Filled(c, p, i) ==
    LET g == entries[i].generation + 1 IN
    /\ ~entries[i].active /\ ~entries[i].running /\ entries'[i] \in EntryType
    /\ entries'[i].active /\ entries'[i].running = entries[i].running
    /\ entries'[i].generation = g /\ entries'[i].ctx = made + 1
    /\ entries'[i].period = p /\ entries'[i].last_fire = 0 /\ entries'[i].deadline = time + p
    /\ \A j \in Slots \ {i} : entries'[j] = entries[j]
    /\ entries' \in [Slots -> EntryType]
    /\ token'[c] = [slot |-> i, gen |-> g] /\ token' \in [Clients -> Tokens]
    /\ g \in Nat /\ g < GenMod

LEMMA RegisterEffect ==
    ASSUME OwnerInd, NEW c \in Clients, NEW p \in Periods, kworker_register(c, p)
    PROVE  \E i \in Slots : Filled(c, p, i)
  <1> USE KWorkerConstants
  <1>1. PICK i \in Slots :
          /\ Vacant(i)
          /\ entries' = [entries EXCEPT ![i] =
                [entries[i] EXCEPT !.active = TRUE, !.generation = (entries[i].generation + 1) % GenMod,
                     !.ctx = made + 1, !.period = p, !.last_fire = 0, !.deadline = time + p]]
          /\ token' = [token EXCEPT ![c] = [slot |-> i, gen |-> (entries[i].generation + 1) % GenMod]]
    BY DEF kworker_register
  <1> DEFINE g == entries[i].generation + 1
             e == [entries[i] EXCEPT !.active = TRUE, !.generation = g,
                     !.ctx = made + 1, !.period = p, !.last_fire = 0, !.deadline = time + p]
  <1>2. entries[i].generation \in Nat /\ entries[i].generation < MaxRegistrations /\ made \in Nat /\ made < MaxRegistrations
    BY EntryFields, Numbers DEF OwnerInd, GenerationCounts, kworker_register
  <1>3. (entries[i].generation + 1) % GenMod = g /\ g \in 0 .. GenMod - 1
    BY <1>2, GenerationGrows
  <1>4. entries' = [entries EXCEPT ![i] = e] /\ token' = [token EXCEPT ![c] = [slot |-> i, gen |-> g]]
    BY <1>1, <1>3
  <1>5. p \in Nat /\ time \in Nat
    BY Numbers DEF OwnerInd
  <1>6. entries[i] \in EntryType
    BY EntryFields DEF OwnerInd
  <1>7. e \in EntryType /\ e.active /\ e.running = entries[i].running /\ e.generation = g /\ e.ctx = made + 1
        /\ e.period = p /\ e.last_fire = 0 /\ e.deadline = time + p
    <2>1. made + 1 \in Contexts /\ time + p \in Nat /\ 0 \in 0 .. MaxTime
      BY <1>2, <1>5 DEF Contexts
    <2>2. p \in Periods \cup {0} /\ g \in 0 .. GenMod - 1
      BY <1>3
    <2> HIDE DEF g
    <2>3. e \in EntryType
      BY <1>6, <2>1, <2>2 DEF EntryType
    <2>4. e.generation = g /\ e.ctx = made + 1 /\ e.period = p /\ e.last_fire = 0 /\ e.deadline = time + p
      BY <1>6 DEF EntryType
    <2>5. e.active = TRUE /\ e.running = entries[i].running
      BY <1>6 DEF EntryType
    <2> QED BY <2>3, <2>4, <2>5
  <1> HIDE DEF e
  <1>8. entries'[i] = e /\ entries' \in [Slots -> EntryType] /\ \A j \in Slots \ {i} : entries'[j] = entries[j]
    BY <1>4, <1>7 DEF OwnerInd, TypeOK
  <1>9. token'[c] = [slot |-> i, gen |-> g] /\ token' \in [Clients -> Tokens]
    BY <1>3, <1>4 DEF OwnerInd, GenerationCounts, Tokens
  <1>10. ~entries[i].active /\ ~entries[i].running /\ g \in Nat /\ g < GenMod
    BY <1>1, <1>3 DEF Vacant
  <1>11. Filled(c, p, i)
    BY <1>7, <1>8, <1>9, <1>10 DEF Filled
  <1> QED BY <1>11

LEMMA RegisterKeeps ==
    ASSUME OwnerInd, NEW c \in Clients, NEW p \in Periods, kworker_register(c, p)
    PROVE  OwnerInd'
  <1> USE KWorkerConstants DEF OwnerInd
  <1>f. PICK i \in Slots : Filled(c, p, i)
    BY RegisterEffect
  <1>0. LET g == entries[i].generation + 1 IN
        /\ ~entries[i].active /\ ~entries[i].running /\ entries'[i] \in EntryType
        /\ entries'[i].active /\ entries'[i].running = entries[i].running
        /\ entries'[i].generation = g /\ entries'[i].ctx = made + 1
        /\ entries'[i].period = p /\ entries'[i].last_fire = 0 /\ entries'[i].deadline = time + p
        /\ \A j \in Slots \ {i} : entries'[j] = entries[j]
        /\ entries' \in [Slots -> EntryType]
        /\ token'[c] = [slot |-> i, gen |-> g] /\ token' \in [Clients -> Tokens]
        /\ g \in Nat /\ g < GenMod
    BY <1>f DEF Filled
  <1>1. /\ pc[c] = "idle" /\ pc'[c] = "registered" /\ ctx'[c] = made + 1 /\ made' = made + 1
        /\ \A d \in Clients \ {c} : pc'[d] = pc[d] /\ ctx'[d] = ctx[d] /\ token'[d] = token[d]
        /\ UNCHANGED <<time, worker, slot, now, next, sleep, late, running_ctx, freed>>
    BY DEF kworker_register, loop, TypeOK, GenerationCounts
  <1>2. /\ \A j \in Slots : entries[j].ctx \in Nat /\ entries[j].ctx <= made /\ entries[j].generation \in Nat
        /\ \A d \in Clients : ctx[d] \in Nat /\ ctx[d] <= made /\ token[d] \in Tokens /\ token[d].slot \in Slots
        /\ \A x \in freed : x \in Nat /\ x <= made
        /\ made \in Nat /\ made + 1 # None
    BY EntryFields, Numbers DEF ContextsOnce, GenerationCounts, Tokens, None
  <1>3. TypeOK'
    <2>1. made < MaxRegistrations
      BY DEF kworker_register
    <2> QED BY <1>0, <1>1, <1>2, <2>1 DEF TypeOK, kworker_register, Contexts
  <1>4. GenerationCounts'
    <2>1. \A j \in Slots : entries'[j].generation <= made'
      BY <1>0, <1>1, <1>2 DEF GenerationCounts
    <2>2. ASSUME NEW d \in Clients
          PROVE  token'[d] = NoToken \/ token'[d].gen <= entries'[token'[d].slot].generation
      <3>1. CASE d = c
        BY <1>0, <3>1
      <3>2. CASE d # c
        <4>1. token'[d] = token[d]
          BY <1>1, <3>2
        <4>2. entries[token[d].slot].generation <= entries'[token[d].slot].generation
          BY <1>0, <1>2
        <4>3. token[d].gen \in Nat /\ entries[token[d].slot].generation \in Nat
              /\ entries'[token[d].slot].generation \in Nat
          BY <1>0, <1>2 DEF Tokens
        <4> QED BY <4>1, <4>2, <4>3 DEF GenerationCounts
      <3> QED BY <3>1, <3>2
    <2> QED BY <1>0, <2>1, <2>2 DEF GenerationCounts
  <1>5. ContextsOnce'
    <2>1. \A j \in Slots : entries'[j].ctx <= made' /\ (entries'[j].active => entries'[j].ctx # None)
      BY <1>0, <1>1, <1>2 DEF ContextsOnce
    <2>2. (\A d \in Clients : ctx'[d] <= made') /\ (\A x \in freed' : x <= made')
      BY <1>1, <1>2
    <2>3. \A d, f \in Clients : ctx'[d] = ctx'[f] /\ ctx'[d] # None => d = f
      BY <1>1, <1>2 DEF ContextsOnce
    <2>4. \A d \in Clients, j \in Slots : entries'[j].ctx = ctx'[d] /\ ctx'[d] # None => j = token'[d].slot
      BY <1>0, <1>1, <1>2 DEF ContextsOnce
    <2> QED BY <2>1, <2>2, <2>3, <2>4 DEF ContextsOnce
  <1>6. TokensExact'
    <2> SUFFICES ASSUME NEW d \in Clients
                 PROVE  /\ TokenValid(token[d])' <=> pc'[d] = "registered"
                        /\ pc'[d] = "registered" => entries'[token'[d].slot].ctx = ctx'[d]
      BY DEF TokensExact
    <2>1. CASE d = c
      BY <1>0, <1>1, <2>1 DEF TokenValid, NoToken
    <2>2. CASE d # c /\ token[d].slot = i
      <3>1. pc[d] # "registered"
        BY <1>0, <2>2 DEF TokensExact, TokenValid
      <3>2. token[d] = NoToken \/ token[d].gen # entries'[i].generation
        BY <1>0, <1>2, <2>2 DEF GenerationCounts, Tokens
      <3> QED BY <1>1, <2>2, <3>1, <3>2 DEF TokenValid
    <2>3. CASE d # c /\ token[d].slot # i
      BY <1>0, <1>1, <1>2, <2>3 DEF TokensExact, TokenValid
    <2> QED BY <2>1, <2>2, <2>3
  <1>7. OneRuns'
    <2>1. worker = "callback" => slot # i /\ slot \in Slots
      BY <1>0 DEF OneRuns, TypeOK
    <2> QED BY <1>0, <1>1, <2>1 DEF OneRuns
  <1>8. Unregistered'
    <2>1. \A d \in Clients : pc'[d] \in {"drain", "returned", "self"} => d # c /\ pc[d] = pc'[d] /\ ctx'[d] = ctx[d]
      BY <1>1
    <2> QED BY <1>0, <1>1, <1>2, <2>1 DEF Unregistered
  <1>9. FreedIsGone'
    BY <1>0, <1>1, <1>2 DEF FreedIsGone
  <1> QED BY <1>3, <1>4, <1>5, <1>6, <1>7, <1>8, <1>9

-----------------------------------------------------------------------------
(* kworker_unregister. *)

\* Deactivating the entry of a live registration, as both ways to unregister do.
LEMMA Deactivate ==
    ASSUME OwnerInd, NEW c \in Clients, TokenValid(token[c]),
           entries' = [entries EXCEPT ![token[c].slot].active = FALSE],
           NEW where \in {"drain", "returned", "self"},
           pc' = [pc EXCEPT ![c] = where],
           where = "returned" => running_ctx # ctx[c],
           UNCHANGED <<time, loop, token, ctx, made, freed>>
    PROVE  OwnerInd'
  <1> USE KWorkerConstants DEF OwnerInd
  <1> DEFINE i == token[c].slot
  <1>0. i \in Slots /\ pc[c] = "registered" /\ entries[i].active /\ entries[i].ctx = ctx[c] /\ ctx[c] # None
    BY DEF TokensExact, TokenValid, GenerationCounts, Tokens, ContextsOnce
  <1>1. /\ entries' \in [Slots -> EntryType]
        /\ ~entries'[i].active /\ entries'[i].running = entries[i].running
        /\ entries'[i].generation = entries[i].generation /\ entries'[i].ctx = entries[i].ctx
        /\ \A j \in Slots \ {i} : entries'[j] = entries[j]
    <2> DEFINE e == [entries[i] EXCEPT !.active = FALSE]
    <2>1. entries[i] \in EntryType /\ entries' = [entries EXCEPT ![i] = e]
      BY <1>0 DEF TypeOK
    <2>2. e \in EntryType /\ e.active = FALSE /\ e.running = entries[i].running
          /\ e.generation = entries[i].generation /\ e.ctx = entries[i].ctx
      BY <2>1 DEF EntryType
    <2> HIDE DEF e
    <2>3. entries'[i] = e
      BY <1>0, <2>1 DEF TypeOK
    <2> QED BY <1>0, <2>1, <2>2, <2>3 DEF TypeOK
  <1>2. /\ pc'[c] = where /\ \A d \in Clients \ {c} : pc'[d] = pc[d]
        /\ UNCHANGED <<time, worker, slot, now, next, sleep, late, running_ctx, token, ctx, made, freed>>
    BY DEF TypeOK, loop
  <1>3. \A d \in Clients : token[d].slot \in Slots
    BY DEF GenerationCounts, Tokens
  <1> HIDE DEF i
  <1>4. TypeOK'
    BY <1>1, <1>2 DEF TypeOK
  <1>5. GenerationCounts' /\ ContextsOnce'
    BY <1>1, <1>2, <1>3 DEF GenerationCounts, ContextsOnce
  <1>6. TokensExact'
    <2> SUFFICES ASSUME NEW d \in Clients
                 PROVE  /\ TokenValid(token[d])' <=> pc'[d] = "registered"
                        /\ pc'[d] = "registered" => entries'[token'[d].slot].ctx = ctx'[d]
      BY DEF TokensExact
    <2>1. CASE d = c
      BY <1>0, <1>1, <1>2, <2>1 DEF TokenValid, i
    <2>2. CASE d # c /\ token[d].slot = i
      <3>1. pc[d] # "registered"
        BY <1>0, <2>2 DEF TokensExact, ContextsOnce
      <3> QED BY <1>1, <1>2, <2>2, <3>1 DEF TokenValid
    <2>3. CASE d # c /\ token[d].slot # i
      <3>1. entries'[token[d].slot] = entries[token[d].slot] /\ pc'[d] = pc[d] /\ token' = token /\ ctx' = ctx
        BY <1>1, <1>2, <1>3, <2>3
      <3>2. TokenValid(token[d])' <=> TokenValid(token[d])
        BY <3>1 DEF TokenValid
      <3>3. TokenValid(token[d]) <=> pc[d] = "registered"
        BY DEF TokensExact
      <3>4. pc[d] = "registered" => entries[token[d].slot].ctx = ctx[d]
        BY DEF TokensExact
      <3> QED BY <3>1, <3>2, <3>3, <3>4
    <2> QED BY <2>1, <2>2, <2>3
  <1>7. OneRuns'
    <2>1. slot \in Slots
      BY DEF TypeOK
    <2> QED BY <1>1, <1>2, <2>1 DEF OneRuns
  <1>8. Unregistered'
    <2>1. \A j \in Slots : entries'[j].active => entries[j].active /\ entries'[j].ctx = entries[j].ctx /\ j # i
      BY <1>1
    <2>2. \A j \in Slots : entries'[j].active => entries'[j].ctx # ctx[c]
      BY <1>0, <2>1 DEF ContextsOnce, i
    <2> QED BY <1>0, <1>2, <2>1, <2>2 DEF Unregistered
  <1>9. FreedIsGone'
    BY <1>1, <1>2 DEF FreedIsGone
  <1> QED BY <1>4, <1>5, <1>6, <1>7, <1>8, <1>9

LEMMA BeginKeeps ==
    ASSUME OwnerInd, NEW c \in Clients, UnregisterBegin(c)
    PROVE  OwnerInd'
  BY Deactivate DEF UnregisterBegin

\* A callback that unregisters another registration may return at once: the
\* worker, being in this callback, is not in that one.
LEMMA OnWorkerKeeps ==
    ASSUME OwnerInd, NEW c \in Clients, UnregisterOnWorker(c)
    PROVE  OwnerInd'
  <1>1. ctx[c] # None /\ entries[slot].ctx = running_ctx /\ slot \in Slots
    BY DEF UnregisterOnWorker, OwnerInd, TokensExact, TokenValid, ContextsOnce, OneRuns, TypeOK,
           GenerationCounts, Tokens
  <1>2. token[c].slot # slot => running_ctx # ctx[c]
    BY <1>1 DEF OwnerInd, ContextsOnce
  <1>3. CASE token[c].slot = slot
    BY <1>3, Deactivate DEF UnregisterOnWorker
  <1>4. CASE token[c].slot # slot
    BY <1>2, <1>4, Deactivate DEF UnregisterOnWorker
  <1> QED BY <1>3, <1>4

LEMMA DrainedKeeps ==
    ASSUME OwnerInd, NEW c \in Clients, UnregisterDrained(c)
    PROVE  OwnerInd'
  <1> USE DEF OwnerInd
  <1>1. running_ctx # ctx[c]
    <2>1. ctx[c] # None /\ slot \in Slots
      BY DEF UnregisterDrained, Unregistered, TypeOK
    <2>2. CASE worker = "callback"
      <3>1. entries[slot].running /\ entries[slot].ctx = running_ctx
        BY <2>1, <2>2 DEF OneRuns
      <3> QED BY <2>1, <3>1 DEF UnregisterDrained, ContextsOnce
    <2>3. CASE worker # "callback"
      BY <2>1, <2>3 DEF OneRuns
    <2> QED BY <2>2, <2>3
  <1>2. TypeOK' /\ GenerationCounts' /\ ContextsOnce' /\ OneRuns' /\ FreedIsGone'
    BY DEF UnregisterDrained, loop, TypeOK, GenerationCounts, ContextsOnce, OneRuns, FreedIsGone
  <1>3. TokensExact'
    BY DEF UnregisterDrained, TokensExact, TokenValid, TypeOK
  <1>4. Unregistered'
    BY <1>1 DEF UnregisterDrained, loop, Unregistered, TypeOK
  <1> QED BY <1>2, <1>3, <1>4

LEMMA FreeContextKeeps ==
    ASSUME OwnerInd, NEW c \in Clients, FreeContext(c)
    PROVE  OwnerInd'
  <1> USE DEF OwnerInd
  <1>1. /\ ctx[c] # None /\ running_ctx # ctx[c] /\ ctx[c] <= made
        /\ \A i \in Slots : entries[i].active => entries[i].ctx # ctx[c]
    BY DEF FreeContext, Unregistered, ContextsOnce
  <1>2. TypeOK'
    BY <1>1 DEF FreeContext, loop, TypeOK, Contexts, None
  <1>3. GenerationCounts' /\ ContextsOnce' /\ OneRuns'
    BY <1>1 DEF FreeContext, loop, GenerationCounts, ContextsOnce, OneRuns
  <1>4. TokensExact' /\ Unregistered'
    BY DEF FreeContext, loop, TokensExact, TokenValid, Unregistered, TypeOK
  <1>5. FreedIsGone'
    BY <1>1 DEF FreeContext, loop, FreedIsGone
  <1> QED BY <1>2, <1>3, <1>4, <1>5

-----------------------------------------------------------------------------
(* kworker_main. *)

\* Steps that leave the entries and the clients alone.
LEMMA LoopFrame ==
    ASSUME OwnerInd, TypeOK', UNCHANGED <<entries, pc, token, ctx, made, freed, running_ctx>>,
           worker # "callback", worker' # "callback"
    PROVE  OwnerInd'
  <1> USE DEF OwnerInd
  <1>1. GenerationCounts' /\ ContextsOnce' /\ FreedIsGone'
    BY DEF GenerationCounts, ContextsOnce, FreedIsGone
  <1>2. TokensExact' /\ Unregistered'
    BY DEF TokensExact, TokenValid, Unregistered
  <1>3. OneRuns'
    BY DEF OneRuns
  <1> QED BY <1>1, <1>2, <1>3

LEMMA ScanSkipsKeeps == ASSUME OwnerInd, ScanSkips PROVE OwnerInd'
  <1> DEFINE seen == IF entries[slot].active THEN Earlier(next, entries[slot].deadline) ELSE next
  <1>1. seen \in Nat
    BY EntryFields, Numbers DEF OwnerInd, Earlier, TypeOK
  <1>2. slot' \in Slots /\ worker' \in {"scan", "measure"} /\ next' \in Nat
    BY <1>1, AdvanceType DEF ScanSkips, OwnerInd
  <1>3. TypeOK'
    BY <1>2 DEF OwnerInd, ScanSkips, clients, TypeOK
  <1> QED BY <1>2, <1>3, LoopFrame DEF ScanSkips, clients

LEMMA NewPassKeeps == ASSUME OwnerInd, NewPass PROVE OwnerInd'
  <1>1. TypeOK'
    BY KWorkerConstants DEF NewPass, clients, OwnerInd, TypeOK
  <1> QED BY <1>1, LoopFrame DEF NewPass, clients

LEMMA MeasureKeeps == ASSUME OwnerInd, Measure PROVE OwnerInd'
  <1>1. TypeOK'
    <2>1. sleep' \in 0 .. MaxSleep
      BY KWorkerConstants, Numbers DEF Measure, Earlier, OwnerInd
    <2> QED BY <2>1 DEF Measure, clients, OwnerInd, TypeOK
  <1> QED BY <1>1, LoopFrame DEF Measure, clients

LEMMA SetWakeKeeps == ASSUME OwnerInd, SetWake PROVE OwnerInd'
  <1>1. TypeOK'
    <2>1. next' \in Nat /\ 0 \in 0 .. MaxSleep
      BY KWorkerConstants, Numbers DEF SetWake, OwnerInd
    <2> QED BY <2>1 DEF SetWake, clients, OwnerInd, TypeOK
  <1> QED BY <1>1, LoopFrame DEF SetWake, clients

LEMMA TickKeeps == ASSUME OwnerInd, Tick PROVE OwnerInd'
  <1> USE DEF OwnerInd
  <1>1. TypeOK'
    BY KWorkerConstants DEF Tick, clients, loop, TypeOK
  <1>2. GenerationCounts' /\ ContextsOnce' /\ FreedIsGone' /\ OneRuns'
    BY DEF Tick, clients, loop, GenerationCounts, ContextsOnce, FreedIsGone, OneRuns
  <1>3. TokensExact' /\ Unregistered'
    BY DEF Tick, clients, loop, TokensExact, TokenValid, Unregistered
  <1> QED BY <1>1, <1>2, <1>3

LEMMA ScanFiresKeeps == ASSUME OwnerInd, ScanFires PROVE OwnerInd'
  <1> USE KWorkerConstants DEF OwnerInd
  <1>0. slot \in Slots /\ entries[slot].active /\ entries[slot].ctx # None /\ worker = "scan"
    BY DEF ScanFires, Due, TypeOK, ContextsOnce
  <1>1. /\ entries' \in [Slots -> EntryType]
        /\ entries'[slot].running
        /\ \A j \in Slots : /\ entries'[j].active = entries[j].active
                            /\ entries'[j].generation = entries[j].generation
                            /\ entries'[j].ctx = entries[j].ctx
        /\ \A j \in Slots \ {slot} : entries'[j] = entries[j]
    BY <1>0 DEF ScanFires, TypeOK, EntryType
  <1>2. running_ctx' = entries[slot].ctx /\ worker' = "callback"
        /\ UNCHANGED <<time, slot, now, next, sleep, late, pc, token, ctx, made, freed>>
    BY DEF ScanFires, clients
  <1>3. \A d \in Clients : token[d].slot \in Slots
    BY DEF GenerationCounts, Tokens
  <1>4. TypeOK'
    <2>1. entries[slot].ctx \in Contexts \cup {None}
      BY <1>0 DEF TypeOK, EntryType
    <2> QED BY <1>1, <1>2, <2>1 DEF TypeOK
  <1>5. GenerationCounts' /\ ContextsOnce'
    BY <1>1, <1>2, <1>3 DEF GenerationCounts, ContextsOnce
  <1>6. TokensExact'
    BY <1>1, <1>2, <1>3 DEF TokensExact, TokenValid
  <1>7. OneRuns'
    BY <1>0, <1>1, <1>2 DEF OneRuns
  <1>8. Unregistered' /\ FreedIsGone'
    BY <1>0, <1>1, <1>2 DEF Unregistered, FreedIsGone
  <1> QED BY <1>4, <1>5, <1>6, <1>7, <1>8

\* The entry as the callback's return leaves it.
Returned == IF entries[slot].active THEN Rearm(slot) ELSE [entries[slot] EXCEPT !.running = FALSE]

LEMMA ReturnedFields ==
    ASSUME TypeOK
    PROVE  /\ Returned \in EntryType
           /\ Returned.active = entries[slot].active /\ Returned.running = FALSE
           /\ Returned.generation = entries[slot].generation /\ Returned.ctx = entries[slot].ctx
           /\ Returned.period = entries[slot].period
           /\ entries[slot].active => Returned.last_fire = now /\ Returned.deadline = time + entries[slot].period
  <1> USE KWorkerConstants
  <1>1. entries[slot] \in EntryType /\ now \in 0 .. MaxTime /\ time + entries[slot].period \in Nat
    BY EntryFields, Numbers DEF TypeOK
  <1>2. CASE entries[slot].active
    <2>1. Returned = [entries[slot] EXCEPT !.running = FALSE, !.last_fire = now,
                                           !.deadline = time + entries[slot].period]
      BY <1>2 DEF Returned, Rearm
    <2> QED BY <1>1, <1>2, <2>1 DEF EntryType
  <1>3. CASE ~entries[slot].active
    <2>1. Returned = [entries[slot] EXCEPT !.running = FALSE]
      BY <1>3 DEF Returned
    <2> QED BY <1>1, <1>3, <2>1 DEF EntryType
  <1> QED BY <1>2, <1>3

LEMMA CallbackReturnsKeeps == ASSUME OwnerInd, CallbackReturns PROVE OwnerInd'
  <1> USE KWorkerConstants DEF OwnerInd
  <1>0. slot \in Slots /\ worker = "callback" /\ entries' = [entries EXCEPT ![slot] = Returned]
        /\ Advance(IF Returned.active THEN Earlier(next, Returned.deadline) ELSE next)
    BY DEF CallbackReturns, TypeOK, Returned
  <1>1. /\ entries' \in [Slots -> EntryType]
        /\ entries'[slot].running = FALSE
        /\ \A j \in Slots : /\ entries'[j].active = entries[j].active
                            /\ entries'[j].generation = entries[j].generation
                            /\ entries'[j].ctx = entries[j].ctx
        /\ \A j \in Slots \ {slot} : entries'[j] = entries[j]
    BY <1>0, ReturnedFields DEF TypeOK
  <1>2. slot' \in Slots /\ worker' \in {"scan", "measure"} /\ next' \in Nat
    <2>1. Returned.deadline \in Nat /\ next \in Nat
      BY ReturnedFields, Numbers DEF EntryType
    <2>2. (IF Returned.active THEN Earlier(next, Returned.deadline) ELSE next) \in Nat
      BY <2>1 DEF Earlier
    <2> QED BY <1>0, <2>2, AdvanceType
  <1>3. running_ctx' = None /\ UNCHANGED <<time, now, sleep, late, pc, token, ctx, made, freed>>
    BY DEF CallbackReturns, clients
  <1>4. \A d \in Clients : token[d].slot \in Slots
    BY DEF GenerationCounts, Tokens
  <1>5. TypeOK'
    BY <1>1, <1>2, <1>3 DEF TypeOK
  <1>6. GenerationCounts' /\ ContextsOnce'
    BY <1>1, <1>3, <1>4 DEF GenerationCounts, ContextsOnce
  <1>7. TokensExact'
    BY <1>1, <1>3, <1>4 DEF TokensExact, TokenValid
  <1>8. OneRuns'
    BY <1>0, <1>1, <1>2, <1>3 DEF OneRuns
  <1>9. Unregistered' /\ FreedIsGone'
    BY <1>1, <1>3, Numbers DEF Unregistered, FreedIsGone
  <1> QED BY <1>5, <1>6, <1>7, <1>8, <1>9

LEMMA OwnerNextKeeps == OwnerInd /\ [Next]_vars => OwnerInd'
  <1> SUFFICES ASSUME OwnerInd, [Next]_vars PROVE OwnerInd'
    OBVIOUS
  <1>1. CASE UNCHANGED vars
    <2> USE <1>1 DEF vars, OwnerInd
    <2>1. TypeOK' /\ GenerationCounts' /\ ContextsOnce' /\ FreedIsGone' /\ OneRuns'
      BY DEF TypeOK, GenerationCounts, ContextsOnce, FreedIsGone, OneRuns
    <2>2. TokensExact' /\ Unregistered'
      BY DEF TokensExact, TokenValid, Unregistered
    <2> QED BY <2>1, <2>2
  <1> QED
    BY <1>1, TickKeeps, RegisterKeeps, BeginKeeps, DrainedKeeps, OnWorkerKeeps, FreeContextKeeps,
       ScanSkipsKeeps, ScanFiresKeeps, CallbackReturnsKeeps, MeasureKeeps, SetWakeKeeps, NewPassKeeps
    DEF Next, WorkerNext, ClientNext

(* kworker.h: a context freed after unregister has returned is not the one  *)
(* of a callback that runs.                                                 *)
THEOREM FreedNeverRuns == Spec => []NoUseAfterFree
  <1>1. OwnerInd => NoUseAfterFree
    BY DEF OwnerInd, FreedIsGone, NoUseAfterFree
  <1> QED BY <1>1, Starts, OwnerNextKeeps, PTL DEF Spec

(* A slot is not given away under a running callback, and an old token does *)
(* not cancel the registration that reused its slot.                        *)
THEOREM SlotsHaveOneOwner == Spec => []SlotOwned
  <1>1. OwnerInd => SlotOwned
    <2> SUFFICES ASSUME OwnerInd PROVE SlotOwned
      OBVIOUS
    <2>1. slot \in Slots
      BY DEF OwnerInd, TypeOK
    <2> QED BY <2>1 DEF OwnerInd, OneRuns, TokensExact, SlotOwned, RunningSlotKept, StaleTokenHarmless
  <1> QED BY <1>1, Starts, OwnerNextKeeps, PTL DEF Spec

-----------------------------------------------------------------------------
(* The worker's pass and its clock. *)

\* Entries that a step arms it arms at the present time: no pass under way,
\* and no sleep after it, owes them a wake-up.
LEMMA ArmedNow ==
    ASSUME NEW d \in Nat, NEW p \in Nat, NEW t \in Nat, NEW n \in Nat, n <= t, d = t + p
    PROVE  ~(d - p < n)
  OBVIOUS

\* The end of a step of the pass, when the wake time it has seen covers the
\* entries up to the one it looked at.
LEMMA AdvanceKeeps ==
    ASSUME TypeOK, TypeOK', NEW seen \in Nat, Advance(seen), now' = now, time' = time, late' = late,
           now <= time, late = 0,
           \A i \in Slots : i <= slot /\ Armed(i)' => seen <= entries'[i].deadline,
           \A i \in Slots : entries'[i].active /\ entries'[i].last_fire > 0
                               => entries'[i].deadline >= entries'[i].last_fire + entries'[i].period
    PROVE  TimeInd'
  <1> USE KWorkerConstants
  <1>1. /\ time \in Nat /\ now \in Nat /\ slot \in Nat /\ slot <= MaxEntries - 1 /\ MaxSleep \in Nat
        /\ \A i \in Slots : i \in Nat /\ i <= MaxEntries - 1 /\ entries'[i].deadline \in Nat
    <2>1. \A i \in Slots : entries'[i].deadline \in Nat
      BY DEF TypeOK, EntryType
    <2> QED BY <2>1, Numbers DEF TypeOK, Slots
  <1>2. CASE slot + 1 < MaxEntries
    <2>1. slot' = slot + 1 /\ worker' = "scan" /\ next' = seen
      BY <1>2 DEF Advance
    <2>2. \A i \in Slots : i < slot' => i <= slot
      BY <1>1, <2>1
    <2> QED BY <2>1, <2>2 DEF TimeInd
  <1>3. CASE ~(slot + 1 < MaxEntries)
    <2>1. slot' = 0 /\ worker' = "measure" /\ next' = seen
      BY <1>3 DEF Advance
    <2>2. \A i \in Slots : i <= slot
      BY <1>1, <1>3
    <2> QED BY <2>1, <2>2 DEF TimeInd
  <1> QED BY <1>2, <1>3

\* Clients only arm entries at the present time, or disarm them.
LEMMA ClientKeepsTime ==
    ASSUME OwnerInd, TimeInd, UNCHANGED <<time, loop>>,
           \A i \in Slots : \/ ~entries'[i].active
                            \/ entries'[i] = entries[i]
                            \/ /\ entries'[i].last_fire = 0 /\ entries'[i].period \in Nat
                               /\ entries'[i].deadline = time + entries'[i].period
    PROVE  TimeInd'
  <1>1. time \in Nat /\ now \in Nat /\ now <= time
    BY Numbers DEF OwnerInd, TimeInd
  <1>2. \A i \in Slots : Armed(i)' => Armed(i) /\ entries'[i] = entries[i]
    BY <1>1 DEF Armed, loop
  <1>3. \A i \in Slots : entries'[i].active /\ entries'[i].last_fire > 0
                            => entries'[i].deadline >= entries'[i].last_fire + entries'[i].period
    BY DEF TimeInd
  <1> QED BY <1>2, <1>3 DEF TimeInd, loop

LEMMA TimeNextKeeps == OwnerInd /\ OwnerInd' /\ TimeInd /\ [Next]_vars => TimeInd'
  <1> SUFFICES ASSUME OwnerInd, OwnerInd', TimeInd, [Next]_vars PROVE TimeInd'
    OBVIOUS
  <1> USE KWorkerConstants
  <1>0. /\ TypeOK /\ TypeOK' /\ slot \in Slots
        /\ time \in Nat /\ now \in Nat /\ next \in Nat /\ now <= time
        /\ sleep \in Nat /\ late \in Nat
        /\ \A i \in Slots : i \in Nat /\ entries[i].deadline \in Nat /\ entries[i].period \in Nat
    BY EntryFields, Numbers DEF OwnerInd, TimeInd, TypeOK, Slots
  <1>1. CASE Tick
    <2>1. /\ time' = time + 1 /\ UNCHANGED <<entries, worker, slot, now, next, sleep>>
          /\ late' = IF worker = "pace" THEN late + 1 ELSE late
      BY <1>1 DEF Tick
    <2>2. \A i \in Slots : Armed(i)' = Armed(i)
      BY <2>1 DEF Armed
    <2> QED BY <1>0, <2>1, <2>2 DEF TimeInd
  <1>2. ASSUME NEW c \in Clients, NEW p \in Periods, kworker_register(c, p) PROVE TimeInd'
    <2>1. \A i \in Slots : \/ entries'[i] = entries[i]
                           \/ /\ entries'[i].last_fire = 0 /\ entries'[i].period = p
                              /\ entries'[i].deadline = time + p
      <3>1. PICK i \in Slots : Filled(c, p, i)
        BY <1>2, RegisterEffect
      <3> QED BY <3>1 DEF Filled
    <2>2. p \in Nat
      OBVIOUS
    <2> QED BY <1>2, <2>1, <2>2, ClientKeepsTime DEF kworker_register
  <1>3. ASSUME NEW c \in Clients, UnregisterBegin(c) \/ UnregisterOnWorker(c) PROVE TimeInd'
    <2>1. entries' = [entries EXCEPT ![token[c].slot].active = FALSE] /\ UNCHANGED <<time, loop>>
      BY <1>3 DEF UnregisterBegin, UnregisterOnWorker
    <2>2. \A i \in Slots : ~entries'[i].active \/ entries'[i] = entries[i]
      BY <2>1 DEF OwnerInd, TypeOK, EntryType
    <2> QED BY <2>1, <2>2, ClientKeepsTime
  <1>4. ASSUME NEW c \in Clients, UnregisterDrained(c) \/ FreeContext(c) PROVE TimeInd'
    BY <1>4, ClientKeepsTime DEF UnregisterDrained, FreeContext
  <1>5. CASE ScanSkips
    <2> DEFINE seen == IF entries[slot].active THEN Earlier(next, entries[slot].deadline) ELSE next
    <2>1. seen \in Nat /\ seen <= next /\ (entries[slot].active => seen <= entries[slot].deadline)
      BY <1>0 DEF Earlier
    <2>2. /\ Advance(seen) /\ entries' = entries /\ now' = now /\ time' = time
          /\ worker = "scan" /\ late' = late /\ late = 0
      BY <1>5 DEF ScanSkips, TimeInd
    <2> HIDE DEF seen
    <2>3. \A i \in Slots : i < slot /\ Armed(i) => next <= entries[i].deadline
      BY <2>2 DEF TimeInd
    <2>4. \A i \in Slots : i <= slot /\ Armed(i)' => seen <= entries'[i].deadline
      BY <1>0, <2>1, <2>2, <2>3 DEF Armed, Slots
    <2>5. \A i \in Slots : entries'[i].active /\ entries'[i].last_fire > 0
                            => entries'[i].deadline >= entries'[i].last_fire + entries'[i].period
      BY <2>2 DEF TimeInd
    <2> QED BY <1>0, <2>1, <2>2, <2>4, <2>5, AdvanceKeeps
  <1>6. CASE ScanFires
    <2>1. /\ \A j \in Slots : /\ entries'[j].active = entries[j].active
                              /\ entries'[j].period = entries[j].period
                              /\ entries'[j].last_fire = entries[j].last_fire
                              /\ entries'[j].deadline = entries[j].deadline
          /\ worker = "scan" /\ worker' = "callback" /\ UNCHANGED <<time, slot, now, next, late>>
      BY <1>0, <1>6 DEF ScanFires, TypeOK, EntryType
    <2> QED BY <2>1 DEF TimeInd, Armed
  <1>7. CASE CallbackReturns
    <2> DEFINE seen == IF Returned.active THEN Earlier(next, Returned.deadline) ELSE next
    <2>1. /\ entries' = [entries EXCEPT ![slot] = Returned] /\ Advance(seen)
          /\ now' = now /\ time' = time /\ worker = "callback" /\ late' = late /\ late = 0
      BY <1>7 DEF CallbackReturns, Returned, TimeInd
    <2>2. entries'[slot] = Returned /\ \A i \in Slots \ {slot} : entries'[i] = entries[i]
      BY <1>0, <2>1 DEF TypeOK
    <2>3. seen \in Nat /\ seen <= next
      BY <1>0, ReturnedFields DEF Earlier, EntryType
    <2>4. \A i \in Slots : i < slot /\ Armed(i) => next <= entries[i].deadline
      BY <2>1 DEF TimeInd
    <2>5. ~(entries'[slot].active /\ entries'[slot].deadline - entries'[slot].period < now')
      <3>1. entries[slot].active => ~(Returned.deadline - Returned.period < now)
        BY <1>0, ReturnedFields, ArmedNow
      <3> QED BY <1>0, <2>1, <2>2, <3>1, ReturnedFields
    <2> HIDE DEF seen
    <2>6. \A i \in Slots : i <= slot /\ Armed(i)' => seen <= entries'[i].deadline
      <3> SUFFICES ASSUME NEW i \in Slots, i <= slot, Armed(i)' PROVE seen <= entries'[i].deadline
        OBVIOUS
      <3>1. i # slot
        BY <2>1, <2>5 DEF Armed
      <3>2. entries'[i] = entries[i] /\ Armed(i) /\ i < slot
        BY <1>0, <2>1, <2>2, <3>1 DEF Armed, Slots
      <3> QED BY <1>0, <2>3, <2>4, <3>2
    <2>7. \A i \in Slots : entries'[i].active /\ entries'[i].last_fire > 0
                            => entries'[i].deadline >= entries'[i].last_fire + entries'[i].period
      <3>1. entries[slot].active => Returned.deadline >= Returned.last_fire + Returned.period
        BY <1>0, ReturnedFields
      <3> QED BY <1>0, <2>2, <3>1, ReturnedFields DEF TimeInd
    <2> QED BY <1>0, <2>1, <2>3, <2>6, <2>7, AdvanceKeeps
  <1>8. CASE NewPass
    <2>1. worker = "sleep" /\ worker' = "scan" /\ now' = time /\ late' = 0 /\ UNCHANGED <<entries, time, slot>>
      BY <1>8 DEF NewPass
    <2>2. slot' = 0
      BY <2>1 DEF TimeInd
    <2>3. \A i \in Slots : ~(i < 0)
      BY <1>0
    <2> QED BY <1>0, <2>1, <2>2, <2>3 DEF TimeInd
  <1>10. CASE Measure
    <2>1. /\ worker = "measure" /\ worker' = "pace" /\ UNCHANGED <<entries, time, slot, now, next, late>>
          /\ sleep' = IF next > time THEN Earlier(next - time, MaxSleep) ELSE 0
      BY <1>10 DEF Measure
    <2>2. late = 0 /\ slot = 0
      BY <2>1 DEF TimeInd
    <2>3. time' + sleep' <= next' + late' \/ sleep' = 0
      BY <1>0, <2>1, <2>2 DEF Earlier
    <2>4. \A i \in Slots : Armed(i)' => next' <= entries'[i].deadline
      BY <2>1 DEF TimeInd, Armed
    <2> QED BY <1>0, <2>1, <2>2, <2>3, <2>4 DEF TimeInd
  <1>11. CASE SetWake
    <2>1. /\ worker = "pace" /\ worker' = "sleep" /\ UNCHANGED <<entries, time, slot, now, late>>
          /\ next' = time + sleep
      BY <1>11 DEF SetWake
    <2>2. slot = 0 /\ (next' <= next + late \/ next' = time)
      BY <1>0, <2>1 DEF TimeInd
    <2>3. \A i \in Slots : Armed(i)' => next <= entries'[i].deadline
      BY <2>1 DEF TimeInd, Armed
    <2>4. \A i \in Slots : Armed(i)' => next' <= entries'[i].deadline + late' \/ next' <= time'
      BY <1>0, <2>1, <2>2, <2>3
    <2> QED BY <1>0, <2>1, <2>2, <2>4 DEF TimeInd
  <1>9. CASE UNCHANGED vars
    BY <1>9 DEF vars, TimeInd, Armed
  <1> QED
    BY <1>1, <1>2, <1>3, <1>4, <1>5, <1>6, <1>7, <1>8, <1>9, <1>10, <1>11 DEF Next, WorkerNext, ClientNext

(* The worker coalesces overruns into one call per period, and when it      *)
(* sleeps it oversleeps no entry that was armed before its pass by more     *)
(* than it was preempted between its two clock readings, whatever callbacks *)
(* take and clients change while it passes over the table.                  *)
THEOREM WorkerKeepsTime == Spec => []KeepsTime
  <1>1. TimeInd => KeepsTime
    BY DEF TimeInd, KeepsTime, NoBurst, WakesInTime, Armed
  <1>2. OwnerInd /\ TimeInd /\ [Next]_vars => OwnerInd' /\ TimeInd'
    BY OwnerNextKeeps, TimeNextKeeps
  <1> QED BY <1>1, <1>2, Starts, PTL DEF Spec

-----------------------------------------------------------------------------
(* The start of the worker.  The inductive invariant adds to the two        *)
(* properties who owns STARTING.                                            *)

\* The inductive invariant.
InitInv == StartTypeOK /\ AtMostOneWorker /\ SuccessMeansRunning /\ StartingIsOwned

\* It holds before the first call.
LEMMA InitInvInit == StartInit => InitInv
  BY DEF StartInit, InitInv, StartTypeOK, AtMostOneWorker, SuccessMeansRunning, StartingIsOwned

\* Every step of kworker_init and of the worker preserves it.
LEMMA InitInvNext == InitInv /\ [StartNext]_svars => InitInv'
<1> SUFFICES ASSUME InitInv, [StartNext]_svars PROVE InitInv'
    OBVIOUS
<1> USE DEF InitInv, StartTypeOK, AtMostOneWorker, SuccessMeansRunning, StartingIsOwned
<1>1. CASE WorkerPublishes
    BY <1>1 DEF WorkerPublishes
<1>2. ASSUME NEW c \in Callers, Call(c) PROVE InitInv'
    BY <1>2 DEF Call
<1>3. ASSUME NEW c \in Callers, StartCas(c) PROVE InitInv'
    BY <1>3 DEF StartCas, Wins
<1>4. ASSUME NEW c \in Callers, LoserPolls(c) PROVE InitInv'
    BY <1>4 DEF LoserPolls, Return
<1>5. ASSUME NEW c \in Callers, CreateTask(c) PROVE InitInv'
    BY <1>5 DEF CreateTask
<1>6. ASSUME NEW c \in Callers, CreateFails(c) PROVE InitInv'
    BY <1>6 DEF CreateFails, Return
<1>7. ASSUME NEW c \in Callers, WinnerPolls(c) PROVE InitInv'
    BY <1>7 DEF WinnerPolls, Return
<1>8. ASSUME NEW c \in Callers, GiveUp(c) PROVE InitInv'
    BY <1>8 DEF GiveUp, MayGiveUp, Return
<1>9. CASE UNCHANGED svars
    BY <1>9 DEF svars
<1> QED
    BY <1>1, <1>2, <1>3, <1>4, <1>5, <1>6, <1>7, <1>8, <1>9 DEF StartNext, CallNext

\* It holds throughout.
LEMMA InitInvAlways == StartSpec => []InitInv
  BY InitInvInit, InitInvNext, PTL DEF StartSpec

(* kworker_init creates at most one worker task, however many threads call *)
(* it, whenever creations fail and waits give up.                           *)
THEOREM OneWorker == StartSpec => []AtMostOneWorker
<1>1. InitInv => AtMostOneWorker
    BY DEF InitInv
<1> QED
    BY <1>1, InitInvAlways, PTL

(* kworker_init returns success only when the worker task runs and has      *)
(* published STARTED, to its winner and to the losers alike.                *)
THEOREM SuccessIsReady == StartSpec => []SuccessMeansRunning
<1>1. InitInv => SuccessMeansRunning
    BY DEF InitInv
<1> QED
    BY <1>1, InitInvAlways, PTL
=============================================================================
