--------------------------- MODULE ChunkStreamProofs ---------------------------
(* Theorems of ChunkStream, for all queries, executions and adapters, any limit on the    *)
(* stream and all bounds.                                                                 *)
EXTENDS ChunkStream, RisingLists, SequenceTheorems, FiniteSetTheorems, TLAPS

-------------------------------------------------------------------------------
(* The inductive invariant.                                                *)

\* A chunk in the stream of a query, or on its way there, that is not of the query's own
\* executions.
Legit(to, chunk) ==
    run[chunk.run].query # to =>
        /\ chunk.n \notin {0, RunLength}
        /\ chunk.run \in overlapped
        /\ \E r \in overlapped : run[r].query = to
LegitItem == {it \in Item : it.chunk # Done => Legit(it.queryId, it.chunk)}
LegitPost == {p \in [to : Queries, chunk : Chunk] : Legit(p.to, p.chunk)}

\* The store, the executions and what is on the wire.
StoreTyped ==
    /\ items \in Seq(LegitItem) /\ nextSequence \in Nat
    /\ disk \in [items : Seq(LegitItem), nextSequence : Nat]
Typed ==
    /\ StoreTyped
    /\ run \in [Runs -> Run]
    /\ client \in [Adapters -> Runs \cup {None}]
    /\ wire \in [Runs -> Seq(LegitPost)]
    /\ overlapped \subseteq Runs

\* An adapter holds the client of an execution that is under way there.
Held == \A h \in Adapters : client[h] # None =>
            client[h] \in Runs /\ Executing(client[h]) /\ run[client[h]].host = h

\* Two executions that are under way in one adapter have been noted as such.
Noted == \A r, o \in Runs :
             (r # o /\ Executing(r) /\ Executing(o) /\ Awaits(r) /\ run[r].host = run[o].host)
             => r \in overlapped /\ o \in overlapped

Inv == Typed /\ SequencesRise /\ Held /\ Noted

-------------------------------------------------------------------------------
(* Lemmas.                                                                 *)

\* Executions keep their queries, and overlapped ones stay so: what was legitimate is.
Keeps == overlapped \subseteq overlapped' /\ \A r \in Runs : run'[r].query = run[r].query

LEMMA LegitGrows ==
    ASSUME Keeps, overlapped \subseteq Runs
    PROVE  LegitItem \subseteq LegitItem' /\ LegitPost \subseteq LegitPost'
<1>1. ASSUME NEW to, NEW chunk \in Chunk, Legit(to, chunk)
      PROVE  Legit(to, chunk)'
  <2>1. chunk.run \in Runs
    BY DEF Chunk
  <2>. QED  BY <1>1, <2>1 DEF Keeps, Legit
<1>2. ASSUME NEW it \in LegitItem PROVE it \in LegitItem'
  <2>1. it \in Item /\ (it.chunk # Done => it.chunk \in Chunk /\ Legit(it.queryId, it.chunk))
    BY DEF LegitItem, Item
  <2>2. it.chunk # Done => Legit(it.queryId, it.chunk)'
    BY <1>1, <2>1
  <2>. QED  BY <2>1, <2>2 DEF LegitItem
<1>3. ASSUME NEW p \in LegitPost PROVE p \in LegitPost'
  <2>1. p \in [to : Queries, chunk : Chunk] /\ p.chunk \in Chunk /\ Legit(p.to, p.chunk)
    BY DEF LegitPost
  <2>2. Legit(p.to, p.chunk)'
    BY <1>1, <2>1
  <2>. QED  BY <2>1, <2>2 DEF LegitPost
<1>. QED  BY <1>2, <1>3

\* The store as it was, when only executions and adapters change.
LEMMA StoreKept ==
    ASSUME Inv, Keeps, UNCHANGED store
    PROVE  StoreTyped' /\ SequencesRise'
<1>1. LegitItem \subseteq LegitItem'
  BY LegitGrows DEF Inv, Typed
<1>. PICK I : I = LegitItem'
  OBVIOUS
<1>2. items' \in Seq(I) /\ nextSequence' \in Nat /\ disk' \in [items : Seq(I), nextSequence : Nat]
  BY <1>1 DEF Inv, Typed, StoreTyped, store
<1>3. StoreTyped'
  BY <1>2 DEF StoreTyped
<1>. QED  BY <1>3 DEF Inv, SequencesRise, store

\* The wire as it was ...
LEMMA WireKept ==
    ASSUME Inv, Keeps, UNCHANGED wire
    PROVE  wire' \in [Runs -> Seq(LegitPost')]
<1>1. LegitPost \subseteq LegitPost'
  BY LegitGrows DEF Inv, Typed
<1>. PICK P : P = LegitPost'
  OBVIOUS
<1>. QED  BY <1>1 DEF Inv, Typed

\* ... or with a chunk sent that may be.
LEMMA WirePosted ==
    ASSUME Inv, Keeps, NEW r \in Runs, NEW q \in Queries, NEW n \in 0 .. RunLength,
           NEW e \in BOOLEAN, Post(r, q, n, e),
           Legit(q, [run |-> r, n |-> n, error |-> e])'
    PROVE  wire' \in [Runs -> Seq(LegitPost')]
<1>1. LegitPost \subseteq LegitPost'
  BY LegitGrows DEF Inv, Typed
<1>. PICK P : P = LegitPost'
  OBVIOUS
<1>. PICK p : p = [to |-> q, chunk |-> [run |-> r, n |-> n, error |-> e]]
  OBVIOUS
<1>2. [run |-> r, n |-> n, error |-> e] \in Chunk
  BY DEF Chunk
<1>3. p \in P
  BY <1>2 DEF LegitPost
<1>4. wire \in [Runs -> Seq(P)]
  BY <1>1 DEF Inv, Typed
<1>5. wire' = [wire EXCEPT ![r] = Append(@, p)]
  BY DEF Post
<1>. QED  BY <1>3, <1>4, <1>5

\* Nobody begins: who ran beside whom is still noted.
Settled == \A r \in Runs : /\ run'[r].host = run[r].host
                           /\ run'[r].pc = "executing" => run[r].pc = "executing"
LEMMA NotedKept ==
    ASSUME Inv, Settled, overlapped \subseteq overlapped'
    PROVE  Noted'
BY DEF Inv, Settled, Noted, Executing, Awaits

\* The items after an append, trimmed or not: of the same kind, and rising.
LEMMA AppendRises ==
    ASSUME NEW S, S \subseteq Item, items \in Seq(S), nextSequence \in Nat,
           Rising([items |-> items, nextSequence |-> nextSequence]),
           NEW q, NEW c,
           [sequenceNumber |-> nextSequence, queryId |-> q, chunk |-> c] \in S, append(q, c)
    PROVE  /\ items' \in Seq(S) /\ nextSequence' \in Nat
           /\ Rising([items |-> items', nextSequence |-> nextSequence'])
<1> DEFINE new == [sequenceNumber |-> nextSequence, queryId |-> q, chunk |-> c]
           all == Append(items, new)
           n   == Len(items)
<1>1. n \in Nat /\ DOMAIN items = 1 .. n
  OBVIOUS
<1>2. /\ all \in Seq(S) /\ Len(all) = n + 1 /\ DOMAIN all = 1 .. n + 1
      /\ all[n + 1] = new /\ \A i \in 1 .. n : all[i] = items[i]
  BY <1>1
<1>3. new.sequenceNumber = nextSequence
  OBVIOUS
<1>4. \A i \in 1 .. n : items[i].sequenceNumber < nextSequence /\ items[i].sequenceNumber \in Nat
  BY <1>1 DEF Rising, Item
<1>5. \A i, j \in 1 .. n : i < j => items[i].sequenceNumber < items[j].sequenceNumber
  BY <1>1 DEF Rising
<1>. HIDE DEF new, all
<1>6. \A i \in 1 .. n + 1 : all[i].sequenceNumber < nextSequence + 1
  BY <1>1, <1>2, <1>3, <1>4
<1>7. \A i, j \in 1 .. n + 1 : i < j => all[i].sequenceNumber < all[j].sequenceNumber
  <2>1. SUFFICES ASSUME NEW i \in 1 .. n + 1, NEW j \in 1 .. n + 1, i < j
                 PROVE  all[i].sequenceNumber < all[j].sequenceNumber
    OBVIOUS
  <2>2. i \in 1 .. n /\ all[i] = items[i]
    BY <1>1, <1>2, <2>1
  <2>3. CASE j = n + 1
    BY <1>2, <1>3, <1>4, <2>2, <2>3
  <2>4. CASE j # n + 1
    <3>1. j \in 1 .. n /\ all[j] = items[j]
      BY <1>1, <1>2, <2>4
    <3>. QED  BY <1>5, <2>1, <2>2, <3>1
  <2>. QED  BY <2>3, <2>4
<1>8. /\ nextSequence' = nextSequence + 1
      /\ items' = IF MaxItems # 0 /\ n + 1 > MaxItems
                  THEN SubSeq(all, n + 1 - MaxItems + 1, n + 1) ELSE all
  <2>1. Append(items, [sequenceNumber |-> nextSequence, queryId |-> q, chunk |-> c]) = all
    BY DEF all, new
  <2>2. items' = IF MaxItems # 0 /\ Len(all) > MaxItems
                 THEN SubSeq(all, Len(all) - MaxItems + 1, Len(all)) ELSE all
    BY <2>1 DEF append, Pushed
  <2>3. nextSequence' = nextSequence + 1
    BY DEF append
  <2>4. Len(all) = n + 1
    BY <1>2
  <2>5. items' = IF MaxItems # 0 /\ n + 1 > MaxItems
                 THEN SubSeq(all, n + 1 - MaxItems + 1, n + 1) ELSE all
    BY <1>1, <2>2, <2>4, LimitsAssumption
  <2>. QED  BY <2>3, <2>5
<1>9. CASE MaxItems # 0 /\ n + 1 > MaxItems
  <2>. PICK m : m = n + 1 - MaxItems
    OBVIOUS
  <2>1. m \in Nat /\ m < n + 1 /\ n + 1 - m = MaxItems /\ MaxItems \in Nat
    BY <1>1, <1>9, LimitsAssumption
  <2>2. items' = SubSeq(all, m + 1, n + 1)
    BY <1>8, <1>9
  <2>3. \A i \in m + 1 .. n + 1 : all[i] \in S
    BY <1>1, <1>2, <2>1
  <2>4. items' \in Seq(S)
    <3>1. /\ m + 1 \in Int /\ n + 1 \in Int /\ m + 1 <= n + 1
          /\ \A i \in m + 1 .. n + 1 : all[i] \in S
      BY <1>1, <2>1, <2>3
    <3>. PICK lo, hi : lo = m + 1 /\ hi = n + 1
      OBVIOUS
    <3>2. SubSeq(all, lo, hi) \in Seq(S)
      BY <3>1, SubSeqProperties
    <3>. QED  BY <2>2, <3>2
  <2>5. DOMAIN items' = 1 .. MaxItems /\ \A i \in 1 .. MaxItems : items'[i] = all[m + i]
    BY <1>1, <1>2, <2>1, <2>2
  <2>6. \A i \in 1 .. MaxItems : m + i \in 1 .. n + 1
    BY <1>1, <2>1
  <2>7. \A i \in 1 .. MaxItems : items'[i].sequenceNumber < nextSequence'
    BY <1>6, <1>8, <2>5, <2>6
  <2>8. \A i, j \in 1 .. MaxItems :
            i < j => items'[i].sequenceNumber < items'[j].sequenceNumber
    <3>1. \A i, j \in 1 .. MaxItems : i < j => m + i < m + j
      BY <2>1
    <3>. QED  BY <1>7, <2>5, <2>6, <3>1
  <2>9. Rising([items |-> items', nextSequence |-> nextSequence'])
    BY <2>5, <2>7, <2>8 DEF Rising
  <2>. QED  BY <1>1, <1>8, <2>4, <2>9
<1>10. CASE ~(MaxItems # 0 /\ n + 1 > MaxItems)
  <2>1. items' = all
    BY <1>8, <1>10
  <2>2. /\ DOMAIN items' = 1 .. n + 1
        /\ \A i \in 1 .. n + 1 : items'[i].sequenceNumber < nextSequence'
        /\ \A i, j \in 1 .. n + 1 :
               i < j => items'[i].sequenceNumber < items'[j].sequenceNumber
    BY <1>2, <1>6, <1>7, <1>8, <2>1
  <2>3. Rising([items |-> items', nextSequence |-> nextSequence'])
    BY <2>2 DEF Rising
  <2>4. items' \in Seq(S)
    BY <1>2, <2>1
  <2>5. nextSequence' \in Nat
    BY <1>8
  <2>. QED  BY <2>3, <2>4, <2>5
<1>. QED  BY <1>9, <1>10

-------------------------------------------------------------------------------
(* The steps.                                                              *)

LEMMA InitStep == Init => Inv
<1>1. SUFFICES ASSUME Init PROVE Inv
  OBVIOUS
<1>2. StoreTyped /\ SequencesRise
  <2>1. <<>> \in Seq(LegitItem) /\ DOMAIN <<>> = {}
    OBVIOUS
  <2>. QED  BY <1>1, <2>1 DEF Init, StoreTyped, SequencesRise, Rising
<1>3. run \in [Runs -> Run] /\ client = [h \in Adapters |-> None] /\ overlapped = {}
  BY <1>1 DEF Init
<1>4. wire \in [Runs -> Seq(LegitPost)]
  <2>1. <<>> \in Seq(LegitPost)
    OBVIOUS
  <2>. QED  BY <1>1, <2>1 DEF Init
<1>5. Held
  BY <1>3 DEF Held
<1>6. Noted
  BY <1>1 DEF Init, Noted, Executing, Awaits
<1>. QED  BY <1>2, <1>3, <1>4, <1>5, <1>6 DEF Inv, Typed

\* An execution gets on, and the rest stays.
LEMMA Advance ==
    ASSUME Inv, NEW r \in Runs, run' \in [Runs -> Run], UNCHANGED <<store, client, overlapped>>,
           \A o \in Runs : /\ run'[o].query = run[o].query /\ run'[o].host = run[o].host
                           /\ run'[o].pc = run[o].pc,
           Keeps => wire' \in [Runs -> Seq(LegitPost')]
    PROVE  Inv'
<1>1. Keeps
  BY DEF Keeps
<1>2. StoreTyped' /\ SequencesRise'
  BY <1>1, StoreKept
<1>3. Typed'
  BY <1>1, <1>2 DEF Inv, Typed
<1>4. Held'
  BY DEF Inv, Held, Executing
<1>5. Noted'
  BY NotedKept DEF Settled
<1>. QED  BY <1>2, <1>3, <1>4, <1>5 DEF Inv

LEMMA StreamChunkStep ==
    ASSUME Inv, NEW r \in Runs, NEW e \in BOOLEAN, StreamChunk(r, e)
    PROVE  Inv'
<1>1. run[r] \in Run /\ run[r].sent \in Nat /\ run[r].sent + 1 \in 0 .. RunLength
  BY LimitsAssumption DEF StreamChunk, Inv, Typed, Run
<1>2. /\ run' \in [Runs -> Run]
      /\ \A o \in Runs : /\ run'[o].query = run[o].query /\ run'[o].host = run[o].host
                         /\ run'[o].pc = run[o].pc
  BY <1>1 DEF StreamChunk, Inv, Typed, Run
<1>3. ASSUME Keeps PROVE wire' \in [Runs -> Seq(LegitPost')]
  <2>. PICK q, n : q = run[r].query /\ n = run[r].sent + 1
    OBVIOUS
  <2>1. q \in Queries /\ n \in 0 .. RunLength
    BY <1>1 DEF Run
  <2>2. Post(r, q, n, e)
    BY DEF StreamChunk
  <2>3. Legit(q, [run |-> r, n |-> n, error |-> e])'
    BY <1>2 DEF Legit
  <2>. QED  BY <1>3, <2>1, <2>2, <2>3, WirePosted
<1>4. UNCHANGED <<store, client, overlapped>>
  BY DEF StreamChunk, adapter
<1>. QED  BY <1>2, <1>3, <1>4, Advance

\* An adapter's client is of an execution that runs there: if it is not the one that
\* streams, both ran beside another one.
LEMMA StreamBySDKStep ==
    ASSUME Inv, NEW r \in Runs, StreamBySDK(r)
    PROVE  Inv'
<1>. PICK h, n : h = run[r].host /\ n = run[r].sent + 1
  OBVIOUS
<1>1. /\ run[r] \in Run /\ run[r].sent \in Nat /\ n \in 1 .. RunLength - 1
      /\ h \in Adapters /\ Executing(r) /\ Awaits(r)
  BY LimitsAssumption DEF StreamBySDK, Producing, Awaits, Inv, Typed, Run
<1>2. /\ run' \in [Runs -> Run]
      /\ \A o \in Runs : /\ run'[o].query = run[o].query /\ run'[o].host = run[o].host
                         /\ run'[o].pc = run[o].pc
  <2>1. run' = [run EXCEPT ![r].sent = @ + 1] /\ run \in [Runs -> Run]
    BY DEF StreamBySDK, Inv, Typed
  <2>2. run[r].sent + 1 \in 0 .. RunLength
    BY <1>1, LimitsAssumption
  <2>. QED  BY <1>1, <2>1, <2>2 DEF Run
<1>3. UNCHANGED <<store, client, overlapped>>
  BY DEF StreamBySDK
<1>4. ASSUME Keeps PROVE wire' \in [Runs -> Seq(LegitPost')]
  <2>1. CASE client[h] = None
    <3>1. UNCHANGED wire
      BY <2>1 DEF StreamBySDK
    <3>. QED  BY <1>4, <3>1, WireKept
  <2>2. CASE client[h] # None
    <3>. PICK o : o = client[h]
      OBVIOUS
    <3>. PICK q : q = run[o].query
      OBVIOUS
    <3>1. o \in Runs /\ Executing(o) /\ run[o].host = h
      BY <1>1, <2>2 DEF Inv, Held
    <3>2. q \in Queries
      BY <3>1 DEF Inv, Typed, Run
    <3>3. Post(r, q, n, FALSE)
      BY <2>2 DEF StreamBySDK
    <3>4. o # r => o \in overlapped /\ r \in overlapped
      BY <1>1, <3>1 DEF Inv, Noted
    <3>5. Legit(q, [run |-> r, n |-> n, error |-> FALSE])'
      <4>1. run'[r].query # q => o # r
        BY <1>2
      <4>2. run'[o].query = q /\ overlapped' = overlapped
        BY <1>2, <1>3, <3>1
      <4>3. n \notin {0, RunLength}
        BY <1>1, LimitsAssumption
      <4>. QED  BY <3>4, <4>1, <4>2, <4>3 DEF Legit
    <3>6. n \in 0 .. RunLength
      BY <1>1, LimitsAssumption
    <3>. QED  BY <1>4, <3>2, <3>3, <3>5, <3>6, WirePosted
  <2>. QED  BY <2>1, <2>2
<1>. QED  BY <1>2, <1>3, <1>4, Advance

LEMMA SilentStep ==
    ASSUME Inv, NEW r \in Runs, Silent(r)
    PROVE  Inv'
<1>1. RunLength - 1 \in 0 .. RunLength
  BY LimitsAssumption
<1>2. /\ run' \in [Runs -> Run]
      /\ \A o \in Runs : /\ run'[o].query = run[o].query /\ run'[o].host = run[o].host
                         /\ run'[o].pc = run[o].pc
  <2>1. run' = [run EXCEPT ![r].sent = RunLength - 1] /\ run \in [Runs -> Run]
    BY DEF Silent, Inv, Typed
  <2>2. run' \in [Runs -> Run]
    BY <1>1, <2>1 DEF Run
  <2>3. \A o \in Runs : run'[o] = IF o = r THEN [run[r] EXCEPT !.sent = RunLength - 1]
                                  ELSE run[o]
    BY <2>1
  <2>. QED  BY <2>1, <2>2, <2>3 DEF Run
<1>3. UNCHANGED <<store, client, overlapped, wire>>
  BY DEF Silent, adapter
<1>. QED  BY <1>2, <1>3, WireKept, Advance

\* The response itself goes to the execution's own query.
LEMMA RespondStep ==
    ASSUME Inv, NEW r \in Runs, SendWhole(r) \/ SendFinal(r)
    PROVE  Inv'
<1>1. RunLength \in 0 .. RunLength /\ 0 \in 0 .. RunLength
  BY LimitsAssumption
<1>2. /\ run' \in [Runs -> Run]
      /\ \A o \in Runs : /\ run'[o].query = run[o].query /\ run'[o].host = run[o].host
                         /\ run'[o].pc = run[o].pc
  <2>1. run \in [Runs -> Run]
    BY DEF Inv, Typed
  <2>2. CASE SendWhole(r)
    BY <2>1, <2>2 DEF SendWhole, Run
  <2>3. CASE SendFinal(r)
    BY <1>1, <2>1, <2>3 DEF SendFinal, Run
  <2>. QED  BY <2>2, <2>3
<1>3. UNCHANGED <<store, client, overlapped>>
  BY DEF SendWhole, SendFinal, adapter
<1>4. ASSUME Keeps PROVE wire' \in [Runs -> Seq(LegitPost')]
  <2>. PICK q : q = run[r].query
    OBVIOUS
  <2>1. PICK n \in {0, RunLength} : Post(r, q, n, FALSE)
    BY DEF SendWhole, SendFinal, OwnTarget
  <2>2. q \in Queries
    BY DEF Inv, Typed, Run
  <2>3. Legit(q, [run |-> r, n |-> n, error |-> FALSE])'
    BY <1>2 DEF Legit
  <2>. QED  BY <1>1, <1>4, <2>1, <2>2, <2>3, WirePosted
<1>. QED  BY <1>2, <1>3, <1>4, Advance

\* The request becomes the client's; those beside it are noted.
LEMMA BeginStep ==
    ASSUME Inv, NEW r \in Runs, BeginExecution(r)
    PROVE  Inv'
<1>. PICK h : h = run[r].host
  OBVIOUS
<1>. PICK beside : beside = {o \in Runs \ {r} : run[o].host = h /\ Executing(o)}
  OBVIOUS
<1>1. /\ run' = [run EXCEPT ![r].pc = "executing"] /\ client' = [client EXCEPT ![h] = r]
      /\ overlapped' = IF beside = {} THEN overlapped ELSE overlapped \cup beside \cup {r}
      /\ UNCHANGED store /\ UNCHANGED wire
  BY DEF BeginExecution
<1>2. run \in [Runs -> Run] /\ client \in [Adapters -> Runs \cup {None}]
      /\ overlapped \subseteq Runs /\ beside \subseteq Runs
  BY DEF Inv, Typed
<1>3. /\ run' \in [Runs -> Run]
      /\ \A o \in Runs : /\ run'[o].query = run[o].query /\ run'[o].host = run[o].host
                         /\ o # r => run'[o].pc = run[o].pc
      /\ run'[r].pc = "executing"
  BY <1>1, <1>2 DEF Run
<1>4. Keeps
  BY <1>1, <1>3 DEF Keeps
<1>5. StoreTyped' /\ SequencesRise'
  BY <1>1, <1>4, StoreKept
<1>6. wire' \in [Runs -> Seq(LegitPost')]
  BY <1>1, <1>4, WireKept
<1>7. client' \in [Adapters -> Runs \cup {None}] /\ overlapped' \subseteq Runs
  BY <1>1, <1>2
<1>8. Held'
  <2>1. SUFFICES ASSUME NEW g \in Adapters, client'[g] # None
                 PROVE  /\ client'[g] \in Runs /\ run'[client'[g]].pc = "executing"
                        /\ run'[client'[g]].host = g
    BY DEF Held, Executing
  <2>2. CASE g = h
    <3>1. client'[g] = r
      BY <1>1, <1>2, <2>2
    <3>. QED  BY <1>3, <2>2, <3>1
  <2>3. CASE g # h
    <3>1. client'[g] = client[g]
      BY <1>1, <1>2, <2>3
    <3>2. client[g] \in Runs /\ run[client[g]].pc = "executing" /\ run[client[g]].host = g
      BY <2>1, <3>1 DEF Inv, Held, Executing
    <3>. QED  BY <1>3, <3>1, <3>2
  <2>. QED  BY <2>2, <2>3
<1>9. Noted'
  <2>1. SUFFICES ASSUME NEW o \in Runs, NEW p \in Runs, o # p,
                        run'[o].pc = "executing", run'[p].pc = "executing",
                        run'[o].host # Engine, run'[o].host = run'[p].host
                 PROVE  o \in overlapped' /\ p \in overlapped'
    BY DEF Noted, Executing, Awaits
  <2>2. CASE o # r /\ p # r
    <3>1. o \in overlapped /\ p \in overlapped
      BY <1>3, <2>1, <2>2 DEF Inv, Noted, Executing, Awaits
    <3>. QED  BY <1>1, <3>1
  <2>3. CASE o = r
    <3>1. p \in beside
      BY <1>3, <2>1, <2>3 DEF Executing
    <3>. QED  BY <1>1, <2>3, <3>1
  <2>4. CASE p = r
    <3>1. o \in beside
      BY <1>3, <2>1, <2>4 DEF Executing
    <3>. QED  BY <1>1, <2>4, <3>1
  <2>. QED  BY <2>2, <2>3, <2>4
<1>. QED  BY <1>3, <1>5, <1>6, <1>7, <1>8, <1>9 DEF Inv, Typed

\* What the end of an execution leaves of the executions and the adapters.
LEMMA OverKeeps ==
    ASSUME Inv, NEW r \in Runs, NEW completed \in BOOLEAN, Executing(r), Over(r, completed),
           UNCHANGED overlapped
    PROVE  /\ Keeps /\ Held' /\ Noted'
           /\ run' \in [Runs -> Run] /\ client' \in [Adapters -> Runs \cup {None}]
           /\ overlapped' \subseteq Runs
<1>1. run \in [Runs -> Run] /\ client \in [Adapters -> Runs \cup {None}]
  BY DEF Inv, Typed
<1>2. run' = [run EXCEPT ![r].pc = "over", ![r].completed = completed]
  BY DEF Over
<1>3. /\ run' \in [Runs -> Run]
      /\ \A o \in Runs : /\ run'[o].query = run[o].query /\ run'[o].host = run[o].host
                         /\ o # r => run'[o].pc = run[o].pc
      /\ run'[r].pc = "over"
  <2>1. /\ \A o \in Runs : o # r => run'[o] = run[o]
        /\ run'[r] = [run[r] EXCEPT !.pc = "over", !.completed = completed]
    BY <1>1, <1>2
  <2>2. /\ run'[r].query = run[r].query /\ run'[r].host = run[r].host
        /\ run'[r].pc = "over" /\ run'[r] \in Run
    BY <1>1, <2>1 DEF Run
  <2>3. run' \in [Runs -> Run]
    BY <1>1, <1>2, <2>2
  <2>. QED  BY <2>1, <2>2, <2>3
<1>4. client' = IF Awaits(r) THEN [client EXCEPT ![run[r].host] = None] ELSE client
  BY DEF Over, Finally
<1>5. client' \in [Adapters -> Runs \cup {None}]
  BY <1>1, <1>4
<1>6. Held'
  <2>1. SUFFICES ASSUME NEW g \in Adapters, client'[g] # None
                 PROVE  /\ client'[g] \in Runs /\ run'[client'[g]].pc = "executing"
                        /\ run'[client'[g]].host = g
    BY DEF Held, Executing
  <2>2. client'[g] = client[g] /\ (Awaits(r) => g # run[r].host)
    BY <1>1, <1>4, <2>1
  <2>3. client[g] \in Runs /\ run[client[g]].pc = "executing" /\ run[client[g]].host = g
    BY <2>1, <2>2 DEF Inv, Held, Executing
  <2>4. client[g] # r
    BY <2>2, <2>3, OthersAssumption DEF Awaits
  <2>. QED  BY <1>3, <2>2, <2>3, <2>4
<1>7. Settled
  BY <1>3 DEF Settled
<1>8. Noted'
  BY <1>7, NotedKept
<1>9. Keeps
  BY <1>3 DEF Keeps
<1>. QED  BY <1>3, <1>5, <1>6, <1>8, <1>9 DEF Inv, Typed

LEMMA EndStep ==
    ASSUME Inv, NEW r \in Runs, Raise(r) \/ CompleteNotFound(r) \/ AlreadyCompleted(r)
    PROVE  Inv'
<1>1. /\ Executing(r) /\ Over(r, FALSE)
      /\ UNCHANGED overlapped /\ UNCHANGED wire /\ UNCHANGED store
  BY DEF Raise, CompleteNotFound, AlreadyCompleted, Producing, Completing
<1>2. FALSE \in BOOLEAN
  OBVIOUS
<1>3. /\ Keeps /\ Held' /\ Noted'
      /\ run' \in [Runs -> Run] /\ client' \in [Adapters -> Runs \cup {None}]
      /\ overlapped' \subseteq Runs
  BY <1>1, <1>2, OverKeeps
<1>4. wire' \in [Runs -> Seq(LegitPost')]
  BY <1>1, <1>3, WireKept
<1>5. StoreTyped' /\ SequencesRise'
  BY <1>1, <1>3, StoreKept
<1>. QED  BY <1>3, <1>4, <1>5 DEF Inv, Typed

LEMMA CrashStep ==
    ASSUME Inv, NEW h \in Adapters \cup {Engine}, Crash(h)
    PROVE  Inv'
<1>. PICK lost : lost = {r \in Runs : run[r].host = h /\ Executing(r)}
  OBVIOUS
<1>1. /\ run' = [r \in Runs |-> IF r \in lost THEN [run[r] EXCEPT !.pc = "over"] ELSE run[r]]
      /\ wire' = [r \in Runs |-> IF r \in lost THEN <<>> ELSE wire[r]]
      /\ client' = [g \in Adapters |-> IF g = h THEN None ELSE client[g]]
      /\ UNCHANGED overlapped /\ UNCHANGED store
  BY DEF Crash
<1>2. run \in [Runs -> Run] /\ client \in [Adapters -> Runs \cup {None}]
      /\ overlapped \subseteq Runs
  BY DEF Inv, Typed
<1>3. /\ run' \in [Runs -> Run]
      /\ \A o \in Runs : run'[o].query = run[o].query
      /\ \A o \in Runs : run'[o].host = run[o].host
      /\ \A o \in Runs : o \notin lost => run'[o].pc = run[o].pc
      /\ \A o \in Runs : o \in lost => run'[o].pc = "over"
  <2>1. ASSUME NEW o \in Runs
        PROVE  /\ run'[o] \in Run /\ run'[o].query = run[o].query /\ run'[o].host = run[o].host
               /\ o \notin lost => run'[o].pc = run[o].pc
               /\ o \in lost => run'[o].pc = "over"
    <3>1. run[o] \in Run /\ run'[o] = IF o \in lost THEN [run[o] EXCEPT !.pc = "over"] ELSE run[o]
      BY <1>1, <1>2
    <3>. QED  BY <3>1 DEF Run
  <2>2. run' \in [Runs -> Run]
    BY <1>1, <2>1
  <2>. QED  BY <2>1, <2>2
<1>4. Keeps
  BY <1>1, <1>3 DEF Keeps
<1>5. StoreTyped' /\ SequencesRise'
  BY <1>1, <1>4, StoreKept
<1>6. wire' \in [Runs -> Seq(LegitPost')]
  <2>1. LegitPost \subseteq LegitPost'
    BY <1>2, <1>4, LegitGrows
  <2>. PICK P : P = LegitPost'
    OBVIOUS
  <2>2. wire \in [Runs -> Seq(P)] /\ <<>> \in Seq(P)
    BY <2>1 DEF Inv, Typed
  <2>. QED  BY <1>1, <2>2
<1>7. client' \in [Adapters -> Runs \cup {None}] /\ overlapped' \subseteq Runs
  BY <1>1, <1>2
<1>8. Held'
  <2>1. SUFFICES ASSUME NEW g \in Adapters, client'[g] # None
                 PROVE  /\ client'[g] \in Runs /\ run'[client'[g]].pc = "executing"
                        /\ run'[client'[g]].host = g
    BY DEF Held, Executing
  <2>2. client'[g] = client[g] /\ g # h
    BY <1>1, <2>1
  <2>3. client[g] \in Runs /\ run[client[g]].pc = "executing" /\ run[client[g]].host = g
    BY <2>1, <2>2 DEF Inv, Held, Executing
  <2>4. client[g] \notin lost
    BY <2>2, <2>3
  <2>. QED  BY <1>3, <2>2, <2>3, <2>4
<1>9. Settled
  BY <1>3 DEF Settled
<1>10. Noted'
  BY <1>1, <1>9, NotedKept
<1>. QED  BY <1>3, <1>5, <1>6, <1>7, <1>8, <1>10 DEF Inv, Typed

\* The store after an append, of a chunk that may be there or a marker.
LEMMA StoreAppended ==
    ASSUME Inv, Keeps, NEW q \in Queries, NEW c \in Chunk \cup {Done},
           c # Done => Legit(q, c), append(q, c)
    PROVE  /\ items' \in Seq(LegitItem') /\ nextSequence' \in Nat
           /\ Rising([items |-> items', nextSequence |-> nextSequence'])
<1>. PICK I : I = LegitItem'
  OBVIOUS
<1>1. I \subseteq Item
  BY DEF LegitItem
<1>2. LegitItem \subseteq I
  BY LegitGrows DEF Inv, Typed
<1>3. items \in Seq(I) /\ nextSequence \in Nat
  BY <1>2 DEF Inv, Typed, StoreTyped
<1>4. Rising([items |-> items, nextSequence |-> nextSequence])
  BY DEF Inv, SequencesRise
<1>5. [sequenceNumber |-> nextSequence, queryId |-> q, chunk |-> c] \in LegitItem
  BY <1>3 DEF LegitItem, Item
<1>6. [sequenceNumber |-> nextSequence, queryId |-> q, chunk |-> c] \in I
  BY <1>2, <1>5
<1>. QED  BY <1>1, <1>3, <1>4, <1>6, AppendRises

LEMMA AddChunkStep ==
    ASSUME Inv, NEW r \in Runs, AddChunk(r)
    PROVE  Inv'
<1>1. /\ append(Head(wire[r]).to, Head(wire[r]).chunk) /\ wire[r] # <<>>
      /\ wire' = [wire EXCEPT ![r] = Tail(@)]
      /\ UNCHANGED disk /\ UNCHANGED run /\ UNCHANGED client /\ UNCHANGED overlapped
  BY DEF AddChunk, adapter
<1>2. Keeps
  BY <1>1 DEF Keeps
<1>3. wire[r] \in Seq(LegitPost)
  BY DEF Inv, Typed
<1>. PICK p : p = Head(wire[r])
  OBVIOUS
<1>4. p \in LegitPost
  BY <1>1, <1>3
<1>5. p.to \in Queries /\ p.chunk \in Chunk /\ Legit(p.to, p.chunk)
  BY <1>4 DEF LegitPost
<1>6. append(p.to, p.chunk)
  BY <1>1
<1>7. /\ items' \in Seq(LegitItem') /\ nextSequence' \in Nat
      /\ Rising([items |-> items', nextSequence |-> nextSequence'])
  BY <1>2, <1>5, <1>6, StoreAppended
<1>8. LegitItem \subseteq LegitItem' /\ LegitPost \subseteq LegitPost'
  BY <1>2, LegitGrows DEF Inv, Typed
<1>. PICK I, P : I = LegitItem' /\ P = LegitPost'
  OBVIOUS
<1>9. disk' \in [items : Seq(I), nextSequence : Nat]
  BY <1>1, <1>8 DEF Inv, Typed, StoreTyped
<1>10. StoreTyped' /\ SequencesRise'
  BY <1>1, <1>7, <1>9 DEF StoreTyped, SequencesRise, Inv
<1>11. wire' \in [Runs -> Seq(P)]
  <2>1. wire \in [Runs -> Seq(P)]
    BY <1>8 DEF Inv, Typed
  <2>2. Tail(wire[r]) \in Seq(P)
    BY <1>1, <2>1, HeadTailProperties
  <2>. QED  BY <1>1, <2>1, <2>2
<1>12. Typed'
  BY <1>1, <1>10, <1>11 DEF Inv, Typed
<1>13. Held'
  BY <1>1 DEF Inv, Held, Executing
<1>14. Noted'
  BY <1>1, NotedKept DEF Settled
<1>. QED  BY <1>10, <1>12, <1>13, <1>14 DEF Inv

LEMMA CompleteQueryStep ==
    ASSUME Inv, NEW r \in Runs, CompleteQuery(r)
    PROVE  Inv'
<1>. PICK q : q = run[r].query
  OBVIOUS
<1>1. /\ append(q, Done) /\ disk' = [items |-> items', nextSequence |-> nextSequence']
      /\ Executing(r) /\ Over(r, TRUE) /\ UNCHANGED wire /\ UNCHANGED overlapped
  BY DEF CompleteQuery, Completing
<1>2. TRUE \in BOOLEAN /\ q \in Queries
  BY DEF Inv, Typed, Run
<1>3. /\ Keeps /\ Held' /\ Noted'
      /\ run' \in [Runs -> Run] /\ client' \in [Adapters -> Runs \cup {None}]
      /\ overlapped' \subseteq Runs
  BY <1>1, <1>2, OverKeeps
<1>4. /\ items' \in Seq(LegitItem') /\ nextSequence' \in Nat
      /\ Rising([items |-> items', nextSequence |-> nextSequence'])
  BY <1>1, <1>2, <1>3, StoreAppended
<1>5. wire' \in [Runs -> Seq(LegitPost')]
  BY <1>1, <1>3, WireKept
<1>6. StoreTyped' /\ SequencesRise'
  BY <1>1, <1>4 DEF StoreTyped, SequencesRise
<1>. QED  BY <1>3, <1>5, <1>6 DEF Inv, Typed

LEMMA PurgeStep == ASSUME Inv, Purge PROVE Inv'
<1>1. /\ items' = <<>> /\ nextSequence' = 1 /\ disk' = [items |-> <<>>, nextSequence |-> 1]
      /\ UNCHANGED run /\ UNCHANGED client /\ UNCHANGED overlapped /\ UNCHANGED wire
  BY DEF Purge, adapter
<1>2. StoreTyped' /\ SequencesRise'
  <2>. PICK I : I = LegitItem'
    OBVIOUS
  <2>1. <<>> \in Seq(I) /\ DOMAIN <<>> = {}
    OBVIOUS
  <2>. QED  BY <1>1, <2>1 DEF StoreTyped, SequencesRise, Rising
<1>3. Keeps
  BY <1>1 DEF Keeps
<1>4. wire' \in [Runs -> Seq(LegitPost')]
  BY <1>1, <1>3, WireKept
<1>5. Typed'
  BY <1>1, <1>2, <1>4 DEF Inv, Typed
<1>6. Held' /\ Noted'
  BY <1>1, NotedKept DEF Settled, Inv, Held, Executing
<1>. QED  BY <1>2, <1>5, <1>6 DEF Inv

\* What is loaded was in memory or was saved.
LEMMA RestartStep == ASSUME Inv, NEW saved \in BOOLEAN, Restart(saved) PROVE Inv'
<1>. PICK from : from = IF saved THEN [items |-> items, nextSequence |-> nextSequence] ELSE disk
  OBVIOUS
<1>1. /\ disk' = from /\ items' = from.items /\ nextSequence' = from.nextSequence
      /\ wire' = [r \in Runs |-> <<>>]
      /\ UNCHANGED run /\ UNCHANGED client /\ UNCHANGED overlapped
  BY DEF Restart, adapter
<1>2. Keeps
  BY <1>1 DEF Keeps
<1>3. LegitItem \subseteq LegitItem'
  BY <1>2, LegitGrows DEF Inv, Typed
<1>. PICK I, P : I = LegitItem' /\ P = LegitPost'
  OBVIOUS
<1>4. from \in [items : Seq(I), nextSequence : Nat]
  BY <1>3 DEF Inv, Typed, StoreTyped
<1>5. Rising(from)
  BY DEF Inv, SequencesRise
<1>6. from = [items |-> from.items, nextSequence |-> from.nextSequence]
  BY <1>4
<1>7. StoreTyped' /\ SequencesRise'
  BY <1>1, <1>4, <1>5, <1>6 DEF StoreTyped, SequencesRise
<1>8. wire' \in [Runs -> Seq(P)]
  BY <1>1
<1>9. Typed'
  BY <1>1, <1>7, <1>8 DEF Inv, Typed
<1>10. Held' /\ Noted'
  BY <1>1, NotedKept DEF Settled, Inv, Held, Executing
<1>. QED  BY <1>7, <1>9, <1>10 DEF Inv

\* Clients read, and a stuttering step does nothing.
LEMMA ReaderStep == ASSUME Inv, UNCHANGED <<store, run, adapter, wire>> PROVE Inv'
<1>1. /\ UNCHANGED store /\ UNCHANGED run /\ UNCHANGED client /\ UNCHANGED overlapped
      /\ UNCHANGED wire
  BY DEF adapter
<1>2. Keeps
  BY <1>1 DEF Keeps
<1>3. StoreTyped' /\ SequencesRise'
  BY <1>1, <1>2, StoreKept
<1>4. wire' \in [Runs -> Seq(LegitPost')]
  BY <1>1, <1>2, WireKept
<1>5. Typed'
  BY <1>1, <1>3, <1>4 DEF Inv, Typed
<1>6. Held' /\ Noted'
  BY <1>1, NotedKept DEF Settled, Inv, Held, Executing
<1>. QED  BY <1>3, <1>5, <1>6 DEF Inv

LEMMA InvStep == Inv /\ [Next]_vars => Inv'
<1>1. SUFFICES ASSUME Inv, [Next]_vars PROVE Inv'
  OBVIOUS
<1>2. ASSUME NEW r \in Runs, Produce(r) \/ Raise(r) PROVE Inv'
  BY <1>1, <1>2, StreamChunkStep, BeginStep, StreamBySDKStep, SilentStep, RespondStep,
     AddChunkStep, EndStep, CompleteQueryStep DEF Produce
<1>3. ASSUME NEW h \in Adapters \cup {Engine}, Crash(h) PROVE Inv'
  BY <1>1, <1>3, CrashStep
<1>4. ASSUME NEW d \in Readers, Client(d) PROVE Inv'
  BY <1>1, <1>4, ReaderStep, Zenon DEF Client, handleQueryStream, onQueryTimeout, onStreamClose
<1>5. CASE UNCHANGED vars
  BY <1>1, <1>5, ReaderStep DEF vars, store, adapter
<1>. QED  BY <1>1, <1>2, <1>3, <1>4, <1>5, PurgeStep, RestartStep DEF Next

-------------------------------------------------------------------------------
(* The theorems.                                                           *)

LEMMA Invariance == Spec => []Inv
BY InitStep, InvStep, PTL DEF Spec

\* Sequence numbers rise along the stream, in memory and in the file, for any limit and
\* after any purges, restarts and deaths (in-memory-stream.ts append, save, load).
THEOREM RisesTheorem == Spec => []SequencesRise
<1>1. Inv => SequencesRise
  BY DEF Inv
<1>. QED  BY <1>1, Invariance, PTL

\* A chunk is only in the stream of another query if both queries had executions that
\* ran beside another one, and responses never are (executor_app.py, executor.py).
THEOREM OwnTheorem == Spec => []OnlyOwnChunks
<1>1. Inv => OnlyOwnChunks
  <2>1. SUFFICES ASSUME Inv, NEW i \in DOMAIN items, items[i].chunk # Done
                 PROVE  Legit(items[i].queryId, items[i].chunk)
    BY DEF OnlyOwnChunks, Legit
  <2>. PICK it : it = items[i]
    OBVIOUS
  <2>2. it \in LegitItem
    BY <2>1 DEF Inv, Typed, StoreTyped
  <2>. QED  BY <2>1, <2>2 DEF LegitItem
<1>. QED  BY <1>1, Invariance, PTL
-------------------------------------------------------------------------------
(* Places in a list, in their order (RisingLists).                         *)

LEMMA InOrderProperties ==
    ASSUME NEW n \in Nat, NEW P \in SUBSET (1 .. n)
    PROVE  /\ IsFiniteSet(P) /\ Cardinality(P) \in Nat
           /\ InOrder(P) \in [1 .. Cardinality(P) -> P]
           /\ Up(InOrder(P))
           /\ \A p \in P : \E i \in 1 .. Cardinality(P) : InOrder(P)[i] = p
<1>1. IsFiniteSet(P) /\ Cardinality(P) \in Nat
  BY FinitePlaces
<1>2. InOrder(P) \in [1 .. Cardinality(P) -> P] /\ Up(InOrder(P))
  BY Orderable DEF InOrder, Up
<1>. QED  BY <1>1, <1>2, RisingIsOnto

-------------------------------------------------------------------------------
(* Typing of the rest: the clients of the broker and the histories.        *)

RestOK ==
    /\ streamed \in [Adapters -> BOOLEAN]
    /\ reader \in [Readers -> Reader]
    /\ log \in [Queries -> Seq(Chunk)]
    /\ disturbed \in SUBSET Queries
    /\ faults \in 0 .. MaxFaults

\* What a list of items has at places of chunks.
LEMMA ChunksAtType ==
    ASSUME NEW s \in Seq(Item), NEW P \in SUBSET DOMAIN s, \A i \in P : s[i].chunk # Done
    PROVE  /\ ChunksAt(s, P) \in Seq(Chunk) /\ Len(ChunksAt(s, P)) = Cardinality(P)
           /\ Cardinality(P) \in Nat
           /\ \A j \in 1 .. Cardinality(P) : /\ InOrder(P)[j] \in P
                                            /\ ChunksAt(s, P)[j] = s[InOrder(P)[j]].chunk
<1>. PICK n, c, g : n = Len(s) /\ c = Cardinality(P) /\ g = InOrder(P)
  OBVIOUS
<1>1. n \in Nat /\ P \in SUBSET (1 .. n)
  OBVIOUS
<1>2. c \in Nat /\ g \in [1 .. c -> P]
  BY <1>1, InOrderProperties
<1>3. \A i \in P : s[i] \in Item /\ s[i].chunk \in Chunk
  <2>1. \A i \in P : s[i] \in Item
    OBVIOUS
  <2>2. \A x \in Item : x.chunk \in Chunk \cup {Done}
    BY DEF Item
  <2>. QED  BY <2>1, <2>2
<1>4. ChunksAt(s, P) = [j \in 1 .. c |-> s[g[j]].chunk]
  BY DEF ChunksAt
<1>5. [j \in 1 .. c |-> s[g[j]].chunk] \in [1 .. c -> Chunk]
  BY <1>2, <1>3
<1>6. ChunksAt(s, P) \in Seq(Chunk) /\ Len(ChunksAt(s, P)) = c
  <2>1. ASSUME NEW f \in [1 .. c -> Chunk] PROVE f \in Seq(Chunk) /\ Len(f) = c
    BY <1>2, LenProperties, SeqDef
  <2>. QED  BY <1>4, <1>5, <2>1
<1>. QED  BY <1>2, <1>4, <1>6

LEMMA AwayType == Away \in Reader /\ Away.pc = "away" /\ Away.got = <<>>
<1>1. (CHOOSE q \in Queries : TRUE) \in Queries
  BY QueriesAssumption
<1>2. <<>> \in Seq(Chunk)
  OBVIOUS
<1>. QED  BY <1>1, <1>2 DEF Away, Reader

LEMMA WriteLiveType ==
    ASSUME NEW rd \in Reader, NEW c \in Chunk \cup {Done}
    PROVE  WriteLive(rd, c) \in Reader /\ Ended(rd) \in Reader
<1>1. rd.got \in Seq(Chunk)
  BY DEF Reader
<1>2. c # Done => Append(rd.got, c) \in Seq(Chunk)
  BY <1>1
<1>3. [rd EXCEPT !.timer = FALSE] \in Reader /\ Ended(rd) \in Reader
  BY DEF Reader, Ended
<1>4. c # Done => [rd EXCEPT !.timer = FALSE, !.got = Append(@, c)] \in Reader
  BY <1>2 DEF Reader
<1>. QED  BY <1>3, <1>4, AwayType DEF WriteLive

LEMMA DeliveredType ==
    ASSUME RestOK, NEW q, NEW c \in Chunk \cup {Done}
    PROVE  Delivered(q, c) \in [Readers -> Reader] /\ ReadersTold(q) \in [Readers -> Reader]
<1>1. ASSUME NEW d \in Readers, NEW x \in Chunk \cup {Done}
      PROVE  /\ reader[d] \in Reader /\ WriteLive(reader[d], x) \in Reader
             /\ Delivered(q, x)[d] \in Reader
  <2>1. reader[d] \in Reader
    BY DEF RestOK
  <2>2. WriteLive(reader[d], x) \in Reader
    BY <2>1, WriteLiveType
  <2>. QED  BY <2>1, <2>2 DEF Delivered
<1>2. Delivered(q, c) \in [Readers -> Reader]
  BY <1>1 DEF Delivered
<1>3. ASSUME NEW d \in Readers
      PROVE  Ended(Delivered(q, Done)[d]) \in Reader
  BY <1>1, WriteLiveType
<1>. QED  BY <1>1, <1>2, <1>3 DEF ReadersTold

LEMMA RestInit == Init => RestOK
<1>1. SUFFICES ASSUME Init PROVE RestOK
  OBVIOUS
<1>2. <<>> \in Seq(Chunk) /\ 0 \in 0 .. MaxFaults
  BY BoundAssumption
<1>3. reader \in [Readers -> Reader]
  BY <1>1, AwayType DEF Init
<1>. QED  BY <1>1, <1>2, <1>3 DEF Init, RestOK

LEMMA FaultType ==
    ASSUME faults \in 0 .. MaxFaults, faults < MaxFaults, faults' = faults + 1
    PROVE  faults' \in 0 .. MaxFaults
BY BoundAssumption

LEMMA FinallyType ==
    ASSUME Inv, RestOK, NEW r \in Runs, Finally(r)
    PROVE  streamed' \in [Adapters -> BOOLEAN]
<1>1. CASE Awaits(r)
  BY <1>1 DEF Finally, RestOK
<1>2. CASE ~Awaits(r)
  BY <1>2 DEF Finally, RestOK
<1>. QED  BY <1>1, <1>2

LEMMA RunType ==
    ASSUME Inv, NEW r \in Runs
    PROVE  run[r] \in Run /\ run[r].query \in Queries
BY DEF Inv, Typed, Run

LEMMA TrimmedType ==
    ASSUME Inv, NEW q \in Queries
    PROVE  Trimmed(q) \in SUBSET Queries
<1>1. items # <<>> => Head(items).queryId \in Queries
  <2>1. items \in Seq(LegitItem) /\ LegitItem \subseteq Item
    BY DEF Inv, Typed, StoreTyped, LegitItem
  <2>2. items # <<>> => Head(items) \in Item
    BY <2>1
  <2>. QED  BY <2>2 DEF Item
<1>. QED  BY <1>1 DEF Trimmed

LEMMA ReplayedType ==
    ASSUME Inv, NEW q \in Queries
    PROVE  Replayed(q) \in Seq(Chunk)
<1>1. items \in Seq(Item)
  <2>1. LegitItem \subseteq Item
    BY DEF LegitItem
  <2>. QED  BY <2>1 DEF Inv, Typed, StoreTyped
<1>. PICK own, told : /\ own = PlacesOf(items, q)
                      /\ told = {i \in own : \A m \in own : items[m].chunk = Done => i < m}
  OBVIOUS
<1>2. told \in SUBSET DOMAIN items /\ \A i \in told : items[i].chunk # Done
  <2>1. \A i \in own : i \in DOMAIN items /\ i \in Nat
    BY <1>1 DEF PlacesOf
  <2>. QED  BY <2>1
<1>3. Replayed(q) = ChunksAt(items, told)
  BY DEF Replayed
<1>. QED  BY <1>1, <1>2, <1>3, ChunksAtType

LEMMA ChunksOfType ==
    ASSUME NEW s \in Seq(Item), NEW q
    PROVE  ChunksOf(s, q) \in Seq(Chunk)
<1>. PICK P : P = {i \in PlacesOf(s, q) : s[i].chunk # Done}
  OBVIOUS
<1>1. P \in SUBSET DOMAIN s /\ \A i \in P : s[i].chunk # Done
  BY DEF PlacesOf
<1>. QED  BY <1>1, ChunksAtType DEF ChunksOf

LEMMA RestProduce ==
    ASSUME Inv, RestOK, NEW r \in Runs,
           (\E e \in BOOLEAN : StreamChunk(r, e)) \/ BeginExecution(r) \/ StreamBySDK(r)
           \/ Silent(r) \/ SendWhole(r) \/ SendFinal(r)
    PROVE  RestOK'
<1>1. UNCHANGED <<reader, log, disturbed, faults>>
  BY DEF StreamChunk, BeginExecution, StreamBySDK, Silent, SendWhole, SendFinal
<1>2. streamed' \in [Adapters -> BOOLEAN]
  <2>1. streamed \in [Adapters -> BOOLEAN]
    BY DEF RestOK
  <2>2. CASE UNCHANGED streamed
    BY <2>1, <2>2
  <2>3. CASE \E h : streamed' = [streamed EXCEPT ![h] = FALSE]
    BY <2>1, <2>3
  <2>4. CASE \E h : streamed' = [streamed EXCEPT ![h] = TRUE]
    BY <2>1, <2>4
  <2>5. \/ UNCHANGED streamed
        \/ \E h : streamed' = [streamed EXCEPT ![h] = FALSE]
        \/ \E h : streamed' = [streamed EXCEPT ![h] = TRUE]
    BY DEF StreamChunk, BeginExecution, StreamBySDK, Silent, SendWhole, SendFinal, adapter
  <2>. QED  BY <2>2, <2>3, <2>4, <2>5
<1>. QED  BY <1>1, <1>2 DEF RestOK

LEMMA RestEnds ==
    ASSUME Inv, RestOK, NEW r \in Runs, Raise(r) \/ CompleteNotFound(r) \/ AlreadyCompleted(r)
    PROVE  RestOK'
<1>1. Finally(r) /\ UNCHANGED <<reader, log>>
  BY DEF Raise, CompleteNotFound, AlreadyCompleted, Over
<1>2. streamed' \in [Adapters -> BOOLEAN]
  BY <1>1, FinallyType
<1>3. disturbed' \in SUBSET Queries
  <2>1. run[r].query \in Queries
    BY RunType
  <2>2. disturbed' = disturbed \/ disturbed' = disturbed \cup {run[r].query}
    BY DEF Raise, CompleteNotFound, AlreadyCompleted
  <2>. QED  BY <2>1, <2>2 DEF RestOK
<1>4. faults' \in 0 .. MaxFaults
  BY FaultType DEF Raise, CompleteNotFound, AlreadyCompleted, RestOK
<1>. QED  BY <1>1, <1>2, <1>3, <1>4 DEF RestOK

LEMMA RestCrash ==
    ASSUME Inv, RestOK, NEW h \in Adapters \cup {Engine}, Crash(h)
    PROVE  RestOK'
<1>1. streamed' = [g \in Adapters |-> g # h /\ streamed[g]] /\ UNCHANGED <<reader, log>>
  BY DEF Crash
<1>2. streamed' \in [Adapters -> BOOLEAN]
  BY <1>1 DEF RestOK
<1>3. disturbed' \in SUBSET Queries
  <2>1. \A r \in Runs : run[r].query \in Queries
    BY RunType
  <2>. PICK lost : lost = {r \in Runs : run[r].host = h /\ Executing(r)}
    OBVIOUS
  <2>2. disturbed' = disturbed \cup {run[r].query : r \in lost}
    BY DEF Crash
  <2>3. disturbed \in SUBSET Queries
    BY DEF RestOK
  <2>. QED  BY <2>1, <2>2, <2>3
<1>4. faults' \in 0 .. MaxFaults
  BY FaultType DEF Crash, RestOK
<1>. QED  BY <1>1, <1>2, <1>3, <1>4 DEF RestOK

\* The chunk the broker reads next from an open POST.
LEMMA NextPost ==
    ASSUME Inv, NEW r \in Runs, wire[r] # <<>>
    PROVE  /\ Head(wire[r]).to \in Queries /\ Head(wire[r]).chunk \in Chunk
           /\ Legit(Head(wire[r]).to, Head(wire[r]).chunk)
<1>1. wire[r] \in Seq(LegitPost)
  BY DEF Inv, Typed
<1>2. Head(wire[r]) \in LegitPost
  BY <1>1
<1>. QED  BY <1>2 DEF LegitPost

LEMMA RestAddChunk ==
    ASSUME Inv, RestOK, NEW r \in Runs, AddChunk(r)
    PROVE  RestOK'
<1>. PICK q, c : q = Head(wire[r]).to /\ c = Head(wire[r]).chunk
  OBVIOUS
<1>1. /\ wire[r] # <<>> /\ reader' = Delivered(q, c)
      /\ log' = [log EXCEPT ![q] = Append(@, c)]
      /\ disturbed' = disturbed \cup Trimmed(q)
      /\ UNCHANGED <<adapter, faults>>
  BY DEF AddChunk
<1>2. q \in Queries /\ c \in Chunk
  BY <1>1, NextPost
<1>3. reader' \in [Readers -> Reader]
  BY <1>1, <1>2, DeliveredType
<1>4. log' \in [Queries -> Seq(Chunk)]
  <2>1. log \in [Queries -> Seq(Chunk)]
    BY DEF RestOK
  <2>. QED  BY <1>1, <1>2, <2>1
<1>5. disturbed' \in SUBSET Queries
  BY <1>1, <1>2, TrimmedType DEF RestOK
<1>. QED  BY <1>1, <1>3, <1>4, <1>5 DEF RestOK, adapter

LEMMA RestCompleteQuery ==
    ASSUME Inv, RestOK, NEW r \in Runs, CompleteQuery(r)
    PROVE  RestOK'
<1>. PICK q : q = run[r].query
  OBVIOUS
<1>1. /\ reader' = ReadersTold(q) /\ Finally(r)
      /\ disturbed' = disturbed \cup Trimmed(q)
      /\ UNCHANGED <<log, faults>>
  BY DEF CompleteQuery, Over
<1>2. q \in Queries
  BY RunType
<1>3. reader' \in [Readers -> Reader]
  BY <1>1, <1>2, DeliveredType
<1>4. streamed' \in [Adapters -> BOOLEAN]
  BY <1>1, FinallyType
<1>5. disturbed' \in SUBSET Queries
  BY <1>1, <1>2, TrimmedType DEF RestOK
<1>. QED  BY <1>1, <1>3, <1>4, <1>5 DEF RestOK

LEMMA RestPurge == ASSUME Inv, RestOK, Purge PROVE RestOK'
<1>1. UNCHANGED <<reader, log, streamed>> /\ disturbed' \in SUBSET Queries
  BY DEF Purge, RestOK, adapter
<1>2. faults' \in 0 .. MaxFaults
  BY FaultType DEF Purge, RestOK
<1>. QED  BY <1>1, <1>2 DEF RestOK

LEMMA RestRestart ==
    ASSUME Inv, RestOK, NEW saved \in BOOLEAN, Restart(saved)
    PROVE  RestOK'
<1>1. items \in Seq(Item) /\ disk.items \in Seq(Item)
  <2>1. LegitItem \subseteq Item
    BY DEF LegitItem
  <2>. QED  BY <2>1 DEF Inv, Typed, StoreTyped
<1>2. items' \in Seq(Item) /\ log' = [q \in Queries |-> ChunksOf(items', q)]
  BY <1>1 DEF Restart
<1>3. log' \in [Queries -> Seq(Chunk)]
  BY <1>2, ChunksOfType
<1>4. reader' \in [Readers -> Reader]
  BY AwayType DEF Restart, RestOK
<1>5. UNCHANGED streamed /\ disturbed' \in SUBSET Queries
  BY DEF Restart, RestOK, adapter
<1>6. faults' \in 0 .. MaxFaults
  BY FaultType DEF Restart, RestOK
<1>. QED  BY <1>3, <1>4, <1>5, <1>6 DEF RestOK

LEMMA RestClient ==
    ASSUME Inv, RestOK, NEW d \in Readers, Client(d)
    PROVE  RestOK'
<1>1. UNCHANGED <<log, disturbed, faults>> /\ UNCHANGED adapter
  BY Zenon DEF Client, handleQueryStream, onQueryTimeout, onStreamClose
<1>2. ASSUME NEW v \in Reader, reader' = [reader EXCEPT ![d] = v]
      PROVE  reader' \in [Readers -> Reader]
  BY <1>2 DEF RestOK
<1>3. ASSUME NEW q \in Queries, NEW beginning \in BOOLEAN, NEW wait \in BOOLEAN,
             handleQueryStream(d, q, beginning, wait)
      PROVE  reader' \in [Readers -> Reader]
  <2>. PICK opened, replay :
           /\ opened = [Away EXCEPT !.pc = "open", !.query = q, !.beginning = beginning,
                                    !.timer = wait]
           /\ replay = [opened EXCEPT !.got = Replayed(q)]
    OBVIOUS
  <2>1. opened \in Reader
    BY AwayType DEF Reader
  <2>2. replay \in Reader
    BY <2>1, ReplayedType DEF Reader
  <2>3. Ended(replay) \in Reader
    BY <2>2 DEF Reader, Ended
  <2>4. reader' = [reader EXCEPT ![d] =
             IF ~beginning THEN opened ELSE IF isComplete(q) THEN Ended(replay) ELSE replay]
    BY <1>3 DEF handleQueryStream
  <2>. QED  BY <1>2, <2>1, <2>2, <2>3, <2>4
<1>4. reader' \in [Readers -> Reader]
  <2>1. CASE onQueryTimeout(d) \/ onStreamClose(d)
    BY <1>2, <2>1, AwayType DEF onQueryTimeout, onStreamClose
  <2>. QED  BY <1>3, <2>1 DEF Client
<1>. QED  BY <1>1, <1>4 DEF RestOK, adapter

LEMMA RestStep == Inv /\ RestOK /\ [Next]_vars => RestOK'
<1>1. SUFFICES ASSUME Inv, RestOK, [Next]_vars PROVE RestOK'
  OBVIOUS
<1>2. ASSUME NEW r \in Runs, Produce(r) \/ Raise(r) PROVE RestOK'
  BY <1>1, <1>2, RestProduce, RestEnds, RestAddChunk, RestCompleteQuery DEF Produce
<1>3. ASSUME NEW h \in Adapters \cup {Engine}, Crash(h) PROVE RestOK'
  BY <1>1, <1>3, RestCrash
<1>4. ASSUME NEW d \in Readers, Client(d) PROVE RestOK'
  BY <1>1, <1>4, RestClient
<1>5. CASE UNCHANGED vars
  BY <1>1, <1>5 DEF vars, RestOK
<1>. QED  BY <1>1, <1>2, <1>3, <1>4, <1>5, RestPurge, RestRestart DEF Next

\* Every variable has its type: in particular, a client is only written chunks, and an
\* execution sends no more than its length (handlers.ts, executor_app.py).
THEOREM TypeCorrect == Spec => []TypeOK
<1>1. Inv /\ RestOK => TypeOK
  <2>1. SUFFICES ASSUME Inv, RestOK PROVE TypeOK
    OBVIOUS
  <2>2. LegitItem \subseteq Item /\ LegitPost \subseteq [to : Queries, chunk : Chunk]
    BY DEF LegitItem, LegitPost
  <2>3. items \in Seq(Item) /\ nextSequence \in Nat /\ disk \in Snapshot
    BY <2>1, <2>2 DEF Inv, Typed, StoreTyped, Snapshot
  <2>4. wire \in [Runs -> Seq([to : Queries, chunk : Chunk])]
    <3>1. PICK Q : Q = [to : Queries, chunk : Chunk]
      OBVIOUS
    <3>2. LegitPost \subseteq Q
      BY <2>2, <3>1
    <3>3. wire \in [Runs -> Seq(Q)]
      BY <2>1, <3>2 DEF Inv, Typed
    <3>. QED  BY <3>1, <3>3
  <2>. QED  BY <2>1, <2>3, <2>4 DEF TypeOK, Inv, Typed, RestOK
<1>. QED  BY <1>1, RestInit, RestStep, InitStep, InvStep, PTL DEF Spec

-------------------------------------------------------------------------------
(* The seam between replay and live chunks.                                *)

\* Where the chunks of a query are in the store.
Places(s, q) == {i \in PlacesOf(s, q) : s[i].chunk # Done}
\* at leads from them to the last chunks of a list ...
Spans(s, q, list, at) ==
    /\ at \in [Places(s, q) -> DOMAIN list]
    /\ \A i \in Places(s, q) : list[at[i]] = s[i].chunk
    /\ \A i, j \in Places(s, q) : i < j => at[i] < at[j]
    /\ \A i \in Places(s, q) : \A k \in DOMAIN list :
           at[i] <= k => \E j \in Places(s, q) : at[j] = k
\* ... and to all of them.
Whole(s, q, list, at) == \A k \in DOMAIN list : \E j \in Places(s, q) : at[j] = k

\* What is stored of a query is the last part of what was taken for it, and all of it
\* where the stream is not disturbed.
StreamOK ==
    \A q \in Queries : \E at : /\ Spans(items, q, log[q], at)
                               /\ q \notin disturbed => Whole(items, q, log[q], at)

Last(s, t) == Len(s) <= Len(t) /\ \A i \in 1 .. Len(s) : s[i] = t[Len(t) - Len(s) + i]

\* So is what a client has; from the beginning, it is all of it.
OpenOK ==
    \A d \in Readers : reader[d].pc = "open" =>
        /\ Last(reader[d].got, log[reader[d].query])
        /\ reader[d].beginning /\ reader[d].query \notin disturbed =>
               Len(reader[d].got) = Len(log[reader[d].query])

\* The store is within its limit.
Within(s) == MaxItems # 0 => Len(s) <= MaxItems
WithinOK == Within(items) /\ Within(disk.items)

Seam == RestOK /\ StreamOK /\ OpenOK /\ WithinOK

LEMMA LastIsTail ==
    ASSUME NEW s \in Seq(Chunk), NEW t \in Seq(Chunk), Last(s, t)
    PROVE  IsTail(s, t)
<1>. PICK m, n : m = Len(s) /\ n = Len(t)
  OBVIOUS
<1>1. /\ m \in Nat /\ n \in Nat /\ m <= n /\ n - m + 1 \in Int
      /\ s \in [1 .. m -> Chunk] /\ t \in [1 .. n -> Chunk]
      /\ \A i \in 1 .. m : s[i] = t[n - m + i]
  BY DEF Last
<1>2. \A i \in n - m + 1 .. n : t[i] \in Chunk
  BY <1>1
<1>. PICK lo, u : lo = n - m + 1 /\ u = SubSeq(t, lo, n)
  OBVIOUS
<1>3. u \in Seq(Chunk) /\ Len(u) = m /\ \A i \in 1 .. m : u[i] = t[n - m + i]
  <2>1. Len(u) = IF lo <= n THEN n - lo + 1 ELSE 0
    BY <1>1, <1>2, SubSeqProperties
  <2>2. Len(u) = m
    BY <1>1, <2>1
  <2>3. \A i \in 1 .. m : u[i] = t[lo + i - 1]
    BY <1>1, <1>2, <2>2, SubSeqProperties
  <2>4. u \in Seq(Chunk)
    BY <1>1, <1>2, SubSeqProperties
  <2>5. \A i \in 1 .. m : lo + i - 1 = n - m + i
    BY <1>1
  <2>. QED  BY <2>2, <2>3, <2>4, <2>5
<1>4. s = u
  <2>1. Len(s) = Len(u) /\ \A i \in 1 .. Len(s) : s[i] = u[i]
    BY <1>1, <1>3
  <2>. QED  BY <1>3, <2>1, SeqEqual
<1>. QED  BY <1>1, <1>4 DEF IsTail

LEMMA LastAppend ==
    ASSUME NEW s \in Seq(Chunk), NEW t \in Seq(Chunk), Last(s, t), NEW c \in Chunk
    PROVE  Last(Append(s, c), Append(t, c))
<1>0. PICK m, n, u, v : m = Len(s) /\ n = Len(t) /\ u = Append(s, c) /\ v = Append(t, c)
  OBVIOUS
<1>1. /\ m \in Nat /\ n \in Nat /\ m <= n
      /\ \A i \in 1 .. m : s[i] = t[n - m + i]
  BY <1>0 DEF Last
<1>2. /\ Len(u) = m + 1 /\ Len(v) = n + 1 /\ u[m + 1] = c /\ v[n + 1] = c
      /\ \A i \in 1 .. m : u[i] = s[i]
      /\ \A i \in 1 .. n : v[i] = t[i]
  BY <1>0
<1>3. ASSUME NEW i \in 1 .. m + 1 PROVE u[i] = v[n + 1 - (m + 1) + i]
  <2>1. CASE i = m + 1
    <3>1. n + 1 - (m + 1) + i = n + 1
      BY <1>1, <2>1
    <3>. QED  BY <1>2, <2>1, <3>1
  <2>2. CASE i # m + 1
    <3>1. i \in 1 .. m /\ n + 1 - (m + 1) + i = n - m + i /\ n - m + i \in 1 .. n
      BY <1>1, <2>2
    <3>. QED  BY <1>1, <1>2, <3>1
  <2>. QED  BY <2>1, <2>2
<1>4. Len(u) <= Len(v) /\ \A i \in 1 .. Len(u) : u[i] = v[Len(v) - Len(u) + i]
  <2>1. Len(u) <= Len(v)
    BY <1>1, <1>2
  <2>2. ASSUME NEW i \in 1 .. Len(u) PROVE u[i] = v[Len(v) - Len(u) + i]
    <3>1. i \in 1 .. m + 1 /\ Len(v) - Len(u) + i = n + 1 - (m + 1) + i
      BY <1>1, <1>2
    <3>. QED  BY <1>3, <3>1
  <2>. QED  BY <2>1, <2>2
<1>5. Last(u, v)
  BY <1>4 DEF Last
<1>. QED  BY <1>0, <1>5

\* What is stored of a query, in its order.
LEMMA SpansLast ==
    ASSUME NEW s \in Seq(Item), NEW q, NEW list \in Seq(Chunk), NEW at, Spans(s, q, list, at)
    PROVE  /\ Last(ChunksOf(s, q), list)
           /\ Whole(s, q, list, at) => Len(ChunksOf(s, q)) = Len(list)
<1>0. PICK P, c, g, n : /\ P = Places(s, q) /\ c = Cardinality(P) /\ g = InOrder(P)
                        /\ n = Len(list)
  OBVIOUS
<1>1. P \in SUBSET DOMAIN s /\ (\A i \in P : s[i].chunk # Done) /\ P \in SUBSET (1 .. Len(s))
      /\ Len(s) \in Nat /\ n \in Nat /\ DOMAIN list = 1 .. n
  BY <1>0 DEF Places, PlacesOf
<1>2. ChunksOf(s, q) = ChunksAt(s, P)
  BY <1>0 DEF ChunksOf, Places
<1>3. /\ Len(ChunksAt(s, P)) = c /\ c \in Nat
      /\ \A j \in 1 .. c : g[j] \in P /\ ChunksAt(s, P)[j] = s[g[j]].chunk
  BY <1>0, <1>1, ChunksAtType
<1>4. /\ g \in [1 .. c -> P] /\ Up(g)
      /\ \A p \in P : \E i \in 1 .. c : g[i] = p
  <2>1. PICK m \in Nat : m = Len(s) /\ P \in SUBSET (1 .. m)
    BY <1>1
  <2>2. InOrder(P) \in [1 .. Cardinality(P) -> P] /\ Up(InOrder(P))
    BY <2>1, InOrderProperties
  <2>3. \A p \in P : \E i \in 1 .. Cardinality(P) : InOrder(P)[i] = p
    BY <2>1, InOrderProperties
  <2>. QED  BY <1>0, <2>2, <2>3
<1>11. PICK h : h = [j \in 1 .. c |-> at[g[j]]]
  OBVIOUS
<1>5. h \in [1 .. c -> 1 .. n]
  BY <1>0, <1>1, <1>4, <1>11 DEF Spans
<1>6. Up(h)
  <2>1. SUFFICES ASSUME NEW i \in 1 .. c, NEW j \in 1 .. c, i < j PROVE h[i] < h[j]
    BY <1>5 DEF Up
  <2>2. g[i] < g[j] /\ g[i] \in P /\ g[j] \in P
    BY <1>4, <2>1 DEF Up
  <2>. QED  BY <1>0, <1>11, <2>2 DEF Spans
<1>7. ASSUME NEW i \in 1 .. c, NEW k \in h[i] .. n PROVE \E j \in 1 .. c : h[j] = k
  <2>1. g[i] \in P /\ h[i] = at[g[i]] /\ h[i] \in 1 .. n
    BY <1>4, <1>5, <1>11
  <2>2. k \in 1 .. n /\ at[g[i]] <= k
    BY <1>1, <2>1
  <2>3. PICK p \in P : at[p] = k
    BY <1>0, <1>1, <2>1, <2>2 DEF Spans
  <2>4. PICK j \in 1 .. c : g[j] = p
    BY <1>4
  <2>. QED  BY <1>11, <2>3, <2>4
<1>8. c <= n /\ \A i \in 1 .. c : h[i] = n - c + i
  <2>1. c \in Nat /\ n \in Nat
    BY <1>1, <1>3
  <2>2. \A i \in 1 .. c : \A k \in h[i] .. n : \E j \in 1 .. c : h[j] = k
    BY <1>7
  <2>. QED  BY <1>5, <1>6, <2>1, <2>2, RisingToEnd
<1>9. Last(ChunksOf(s, q), list)
  <2>1. ASSUME NEW i \in 1 .. c PROVE ChunksAt(s, P)[i] = list[n - c + i]
    <3>1. list[at[g[i]]] = s[g[i]].chunk
      BY <1>0, <1>3 DEF Spans
    <3>. QED  BY <1>3, <1>8, <1>11, <3>1
  <2>. QED  BY <1>0, <1>2, <1>3, <1>8, <2>1 DEF Last
<1>10. ASSUME Whole(s, q, list, at) PROVE c = n
  <2>1. CASE n = 0
    BY <1>3, <1>8, <2>1
  <2>2. CASE n # 0
    <3>1. 1 \in DOMAIN list
      BY <1>1, <2>2
    <3>2. PICK p \in P : at[p] = 1
      BY <1>0, <1>10, <3>1 DEF Whole
    <3>3. PICK j \in 1 .. c : g[j] = p
      BY <1>4
    <3>4. n - c + j = 1
      BY <1>8, <1>11, <3>2, <3>3
    <3>. QED  BY <1>1, <1>3, <1>8, <3>4
  <2>. QED  BY <2>1, <2>2
<1>. QED  BY <1>0, <1>2, <1>3, <1>9, <1>10

\* What a restart makes of the histories.
LEMMA SpansChunksOf ==
    ASSUME NEW s \in Seq(Item), NEW q
    PROVE  \E at : Spans(s, q, ChunksOf(s, q), at) /\ Whole(s, q, ChunksOf(s, q), at)
<1>. PICK P, c, g, list : /\ P = Places(s, q) /\ c = Cardinality(P) /\ g = InOrder(P)
                          /\ list = ChunksOf(s, q)
  OBVIOUS
<1>1. P \in SUBSET DOMAIN s /\ (\A i \in P : s[i].chunk # Done) /\ P \in SUBSET (1 .. Len(s))
      /\ Len(s) \in Nat
  BY DEF Places, PlacesOf
<1>2. list = ChunksAt(s, P)
  BY DEF ChunksOf, Places
<1>3. /\ c \in Nat /\ DOMAIN list = 1 .. c
      /\ \A j \in 1 .. c : g[j] \in P /\ list[j] = s[g[j]].chunk
  BY <1>1, <1>2, ChunksAtType
<1>4. /\ g \in [1 .. c -> P] /\ Up(g)
      /\ \A p \in P : \E i \in 1 .. c : g[i] = p
  BY <1>1, InOrderProperties
<1>5. \A i, j \in 1 .. c : /\ i < j => g[i] < g[j]
                           /\ g[i] < g[j] => i < j
                           /\ g[i] = g[j] => i = j
  <2>1. SUFFICES ASSUME NEW i \in 1 .. c, NEW j \in 1 .. c
                 PROVE  /\ i < j => g[i] < g[j]
                        /\ g[i] < g[j] => i < j
                        /\ g[i] = g[j] => i = j
    OBVIOUS
  <2>2. i \in Nat /\ j \in Nat /\ g[i] \in Nat /\ g[j] \in Nat
    BY <1>1, <1>3
  <2>3. (i < j => g[i] < g[j]) /\ (j < i => g[j] < g[i])
    BY <1>4 DEF Up
  <2>. QED  BY <2>2, <2>3
<1>6. PICK at : at = [p \in P |-> CHOOSE i \in 1 .. c : g[i] = p]
  OBVIOUS
<1>7. \A p \in P : at[p] \in 1 .. c /\ g[at[p]] = p
  BY <1>4, <1>6
<1>8. \A i \in 1 .. c : g[i] \in P /\ at[g[i]] = i
  BY <1>3, <1>5, <1>7
<1>9. at \in [P -> DOMAIN list]
  BY <1>3, <1>6, <1>7
<1>10. \A p \in P : list[at[p]] = s[p].chunk
  BY <1>3, <1>7
<1>11. \A p, r \in P : p < r => at[p] < at[r]
  BY <1>5, <1>7
<1>12. \A k \in DOMAIN list : \E p \in P : at[p] = k
  BY <1>3, <1>8
<1>. QED  BY <1>9, <1>10, <1>11, <1>12 DEF Spans, Whole

\* The items after an append: the new one behind the old ones, but for the m that are trimmed.
Pushes(m, q, c) ==
    /\ m \in 0 .. Len(items)
    /\ items' \in Seq(Item) /\ Len(items') = Len(items) + 1 - m
    /\ \A i \in 1 .. Len(items) - m : items'[i] = items[m + i]
    /\ items'[Len(items) + 1 - m].queryId = q /\ items'[Len(items) + 1 - m].chunk = c
    /\ m # 0 => MaxItems # 0 /\ m = Len(items) + 1 - MaxItems
    /\ m = 0 => (MaxItems # 0 => Len(items) + 1 <= MaxItems)

LEMMA PushedItems ==
    ASSUME Inv, Inv', NEW q, NEW c, append(q, c)
    PROVE  \E m : Pushes(m, q, c)
<1>. PICK new, n : /\ new = [sequenceNumber |-> nextSequence, queryId |-> q, chunk |-> c]
                   /\ n = Len(items)
  OBVIOUS
<1>1. items \in Seq(Item) /\ items' \in Seq(Item) /\ n \in Nat
  <2>1. LegitItem \subseteq Item
    BY DEF LegitItem
  <2>2. LegitItem' \subseteq Item
    BY DEF LegitItem
  <2>3. items \in Seq(Item)
    BY <2>1 DEF Inv, Typed, StoreTyped
  <2>4. PICK I : I = LegitItem'
    OBVIOUS
  <2>5. items' \in Seq(I)
    BY <2>4 DEF Inv, Typed, StoreTyped
  <2>6. items' \in Seq(Item)
    BY <2>2, <2>4, <2>5
  <2>. QED  BY <2>3, <2>6
<1>2. PICK all : all = Append(items, new)
  OBVIOUS
<1>3. /\ Len(all) = n + 1 /\ all[n + 1] = new /\ \A i \in 1 .. n : all[i] = items[i]
      /\ DOMAIN all = 1 .. n + 1
  BY <1>1, <1>2
<1>4. items' = IF MaxItems # 0 /\ n + 1 > MaxItems
               THEN SubSeq(all, n + 1 - MaxItems + 1, n + 1) ELSE all
  <2>1. items' = IF MaxItems # 0 /\ Len(all) > MaxItems
                 THEN SubSeq(all, Len(all) - MaxItems + 1, Len(all)) ELSE all
    BY <1>2 DEF append, Pushed
  <2>2. Len(all) = n + 1
    BY <1>3
  <2>. QED  BY <1>1, <2>1, <2>2, LimitsAssumption
<1>5. new.queryId = q /\ new.chunk = c
  OBVIOUS
<1>6. CASE MaxItems # 0 /\ n + 1 > MaxItems
  <2>1. PICK m : m = n + 1 - MaxItems
    OBVIOUS
  <2>2. /\ m \in 0 .. n /\ m # 0 /\ MaxItems \in Nat /\ n + 1 - m = MaxItems
        /\ n - m = MaxItems - 1
    BY <1>1, <1>6, <2>1, LimitsAssumption
  <2>3. items' = SubSeq(all, m + 1, n + 1)
    BY <1>4, <1>6, <2>1
  <2>4. Len(items') = n + 1 - m /\ \A i \in 1 .. n + 1 - m : items'[i] = all[m + i]
    BY <1>1, <1>3, <2>2, <2>3
  <2>5. \A i \in 1 .. n - m : i \in 1 .. n + 1 - m /\ m + i \in 1 .. n
    BY <1>1, <2>2
  <2>6. n + 1 - m \in 1 .. n + 1 - m /\ m + (n + 1 - m) = n + 1
    BY <1>1, <2>2
  <2>7. \A i \in 1 .. n - m : items'[i] = items[m + i]
    BY <1>3, <2>4, <2>5
  <2>8. items'[n + 1 - m] = new
    BY <1>3, <2>4, <2>6
  <2>9. items'[n + 1 - m].queryId = q /\ items'[n + 1 - m].chunk = c
    BY <1>5, <2>8
  <2>10. Pushes(m, q, c)
    BY <1>1, <2>1, <2>2, <2>4, <2>7, <2>9 DEF Pushes
  <2>. QED  BY <2>10
<1>7. CASE ~(MaxItems # 0 /\ n + 1 > MaxItems)
  <2>1. items' = all
    BY <1>4, <1>7
  <2>2. MaxItems # 0 => n + 1 <= MaxItems
    BY <1>1, <1>7, LimitsAssumption
  <2>3. 0 \in 0 .. n /\ n + 1 - 0 = n + 1 /\ n - 0 = n /\ \A i \in 1 .. n : 0 + i = i
    BY <1>1
  <2>4. \A i \in 1 .. n : items'[0 + i] = items[0 + i]
    BY <1>3, <2>1, <2>3
  <2>5. Pushes(0, q, c)
    BY <1>1, <1>3, <1>5, <2>1, <2>2, <2>3, <2>4 DEF Pushes
  <2>. QED  BY <2>5
<1>. QED  BY <1>6, <1>7

\* What was taken for p after an append for q.
Grown(list, p, q, c) == IF p = q /\ c # Done THEN Append(list, c) ELSE list

LEMMA PushSpans ==
    ASSUME items \in Seq(Item), NEW m, NEW q, NEW c, Pushes(m, q, c), c # Done => c \in Chunk,
           NEW p, NEW list \in Seq(Chunk), NEW at, Spans(items, p, list, at)
    PROVE  \E at2 :
               /\ Spans(items', p, Grown(list, p, q, c), at2)
               /\ (Whole(items, p, list, at) /\ \A i \in 1 .. m : items[i].queryId # p)
                  => Whole(items', p, Grown(list, p, q, c), at2)
<1>0. PICK list2 : list2 = Grown(list, p, q, c)
  OBVIOUS
<1>. PICK n, e, l, P, Q : /\ n = Len(items) /\ e = n + 1 - m /\ l = Len(list)
                          /\ P = Places(items, p) /\ Q = Places(items', p)
  OBVIOUS
<1>1. /\ n \in Nat /\ l \in Nat /\ m \in 0 .. n /\ m \in Nat /\ e \in Nat /\ e = n - m + 1
      /\ DOMAIN list = 1 .. l /\ DOMAIN items = 1 .. n /\ DOMAIN items' = 1 .. e
  BY DEF Pushes
<1>2. /\ \A i \in 1 .. n - m : items'[i] = items[m + i]
      /\ items'[e].queryId = q /\ items'[e].chunk = c
  BY DEF Pushes
<1>3. P \subseteq 1 .. n /\ Q \subseteq 1 .. e
  BY <1>1 DEF Places, PlacesOf
<1>4. \A i \in 1 .. e : i = e \/ (i \in 1 .. n - m /\ i < e /\ i # e /\ m + i \in 1 .. n)
  BY <1>1
<1>5. \A i \in 1 .. n - m : i \in 1 .. e /\ i # e /\ m + i \in 1 .. n /\ (i \in Q <=> m + i \in P)
  BY <1>1, <1>2 DEF Places, PlacesOf
<1>6. e \in Q <=> p = q /\ c # Done
  BY <1>1, <1>2 DEF Places, PlacesOf
<1>7. \A k \in P : k > m => k - m \in 1 .. n - m /\ k - m \in Q /\ m + (k - m) = k
  BY <1>1, <1>3, <1>5
<1>8. /\ e \in Q => list2 = Append(list, c)
      /\ e \notin Q => list2 = list
  BY <1>0, <1>6 DEF Grown
<1>9. /\ e \in Q => DOMAIN list2 = 1 .. l + 1 /\ list2[l + 1] = c
      /\ e \notin Q => DOMAIN list2 = 1 .. l
      /\ \A k \in 1 .. l : k \in DOMAIN list2 /\ list2[k] = list[k]
  <2>1. CASE e \in Q
    <3>1. list2 = Append(list, c)
      BY <1>8, <2>1
    <3>. QED  BY <1>1, <2>1, <3>1
  <2>2. CASE e \notin Q
    <3>1. list2 = list
      BY <1>8, <2>2
    <3>. QED  BY <1>1, <2>2, <3>1
  <2>. QED  BY <2>1, <2>2
<1>10. PICK at2 : at2 = [i \in Q |-> IF i = e THEN l + 1 ELSE at[m + i]]
  OBVIOUS
<1>11. /\ at \in [P -> 1 .. l] /\ \A i \in P : list[at[i]] = items[i].chunk
       /\ \A i, j \in P : i < j => at[i] < at[j]
       /\ \A i \in P : \A k \in 1 .. l : at[i] <= k => \E j \in P : at[j] = k
  BY <1>1 DEF Spans
<1>12. \A i \in Q : i # e => /\ i \in 1 .. n - m /\ m + i \in P /\ at2[i] = at[m + i]
                             /\ at2[i] \in 1 .. l
  BY <1>3, <1>4, <1>5, <1>10, <1>11
<1>13. e \in Q => at2[e] = l + 1
  BY <1>10
<1>14. at2 \in [Q -> DOMAIN list2]
  <2>1. \A i \in Q : at2[i] \in DOMAIN list2
    BY <1>1, <1>9, <1>12, <1>13
  <2>. QED  BY <1>10, <2>1
<1>15. ASSUME NEW i \in Q PROVE list2[at2[i]] = items'[i].chunk
  <2>1. CASE i = e
    BY <1>2, <1>9, <1>13, <2>1
  <2>2. CASE i # e
    <3>1. list[at[m + i]] = items[m + i].chunk /\ items'[i] = items[m + i]
      BY <1>2, <1>11, <1>12, <2>2
    <3>. QED  BY <1>9, <1>12, <2>2, <3>1
  <2>. QED  BY <2>1, <2>2
<1>16. ASSUME NEW i \in Q, NEW j \in Q, i < j PROVE at2[i] < at2[j]
  <2>1. i # e
    <3>1. i \in Nat /\ j \in Nat /\ j <= e
      BY <1>1, <1>3
    <3>. QED  BY <1>1, <1>16, <3>1
  <2>2. CASE j = e
    BY <1>1, <1>12, <1>13, <2>1, <2>2
  <2>3. CASE j # e
    <3>1. m + i < m + j
      BY <1>1, <1>12, <1>16, <2>1, <2>3
    <3>. QED  BY <1>11, <1>12, <2>1, <2>3, <3>1
  <2>. QED  BY <2>2, <2>3
<1>17. ASSUME NEW i \in Q, NEW k \in DOMAIN list2, at2[i] <= k
       PROVE  \E j \in Q : at2[j] = k
  <2>1. CASE e \in Q /\ k = l + 1
    BY <1>13, <2>1
  <2>2. CASE ~(e \in Q /\ k = l + 1)
    <3>1. k \in 1 .. l
      <4>1. CASE e \in Q
        <5>1. k \in 1 .. l + 1 /\ k # l + 1
          BY <1>9, <2>2, <4>1
        <5>. QED  BY <1>1, <5>1
      <4>2. CASE e \notin Q
        BY <1>9, <4>2
      <4>. QED  BY <4>1, <4>2
    <3>2. i # e
      BY <1>1, <1>13, <1>17, <3>1
    <3>3. PICK j \in P : at[j] = k
      BY <1>11, <1>12, <1>17, <3>1, <3>2
    <3>4. j > m
      <4>1. SUFFICES ASSUME j <= m PROVE FALSE
        BY <1>1, <1>3
      <4>2. j < m + i /\ m + i \in P
        BY <1>1, <1>3, <1>12, <3>2, <4>1
      <4>3. at[j] < at[m + i]
        BY <1>11, <4>2
      <4>. QED  BY <1>11, <1>12, <1>17, <3>1, <3>2, <3>3, <4>3
    <3>. QED  BY <1>7, <1>5, <1>12, <3>3, <3>4
  <2>. QED  BY <2>1, <2>2
<1>18. ASSUME Whole(items, p, list, at), \A i \in 1 .. m : items[i].queryId # p,
              NEW k \in DOMAIN list2
       PROVE  \E j \in Q : at2[j] = k
  <2>1. CASE e \in Q /\ k = l + 1
    BY <1>13, <2>1
  <2>2. CASE ~(e \in Q /\ k = l + 1)
    <3>1. k \in 1 .. l
      <4>1. CASE e \in Q
        <5>1. k \in 1 .. l + 1 /\ k # l + 1
          BY <1>9, <2>2, <4>1
        <5>. QED  BY <1>1, <5>1
      <4>2. CASE e \notin Q
        BY <1>9, <4>2
      <4>. QED  BY <4>1, <4>2
    <3>2. PICK j \in P : at[j] = k
      BY <1>1, <1>18, <3>1 DEF Whole
    <3>3. items[j].queryId = p /\ j \in 1 .. n
      BY <1>3 DEF Places, PlacesOf
    <3>4. j > m
      BY <1>1, <1>18, <3>3
    <3>. QED  BY <1>7, <1>5, <1>12, <3>2, <3>4
  <2>. QED  BY <2>1, <2>2
<1>19. Spans(items', p, list2, at2)
  BY <1>14, <1>15, <1>16, <1>17 DEF Spans
<1>20. (Whole(items, p, list, at) /\ \A i \in 1 .. m : items[i].queryId # p)
       => Whole(items', p, list2, at2)
  BY <1>18 DEF Whole
<1>. QED  BY <1>0, <1>19, <1>20

LEMMA SeamInit == Init => Seam
<1>1. SUFFICES ASSUME Init PROVE Seam
  OBVIOUS
<1>2. RestOK
  BY <1>1, RestInit
<1>3. ASSUME NEW q \in Queries
      PROVE  \E at : Spans(items, q, log[q], at) /\ Whole(items, q, log[q], at)
  <2>1. items = <<>> /\ log[q] = <<>>
    BY <1>1, <1>3 DEF Init
  <2>2. Places(items, q) = {} /\ DOMAIN log[q] = {}
    BY <2>1 DEF Places, PlacesOf
  <2>3. [i \in {} |-> 0] \in [{} -> {}]
    OBVIOUS
  <2>. QED  BY <2>2, <2>3 DEF Spans, Whole
<1>4. OpenOK
  <2>1. \A d \in Readers : reader[d].pc = "away"
    BY <1>1, AwayType DEF Init
  <2>. QED  BY <2>1 DEF OpenOK
<1>5. WithinOK
  <2>1. items = <<>> /\ disk.items = <<>>
    BY <1>1 DEF Init
  <2>. QED  BY <2>1, LimitsAssumption DEF WithinOK, Within
<1>. QED  BY <1>2, <1>3, <1>4, <1>5 DEF Seam, StreamOK

\* The store and what was taken stay; readers may leave.
LEMMA SeamKept ==
    ASSUME Inv, Seam, RestOK', UNCHANGED <<store, log>>, disturbed \subseteq disturbed',
           \A d \in Readers : reader'[d] = reader[d] \/ reader'[d].pc # "open"
    PROVE  Seam'
<1>1. StreamOK'
  <2>1. SUFFICES ASSUME NEW q \in Queries
                 PROVE  \E at : /\ Spans(items', q, log'[q], at)
                                /\ q \notin disturbed' => Whole(items', q, log'[q], at)
    BY DEF StreamOK
  <2>2. items' = items /\ log' = log
    BY DEF store
  <2>3. PICK at : /\ Spans(items, q, log[q], at)
                  /\ q \notin disturbed => Whole(items, q, log[q], at)
    BY DEF Seam, StreamOK
  <2>. QED  BY <2>2, <2>3
<1>2. OpenOK'
  <2>1. SUFFICES ASSUME NEW d \in Readers, reader'[d].pc = "open"
                 PROVE  /\ Last(reader'[d].got, log'[reader'[d].query])
                        /\ reader'[d].beginning /\ reader'[d].query \notin disturbed' =>
                               Len(reader'[d].got) = Len(log'[reader'[d].query])
    BY DEF OpenOK
  <2>2. reader'[d] = reader[d] /\ log' = log
    BY <2>1
  <2>. QED  BY <2>1, <2>2 DEF Seam, OpenOK
<1>3. WithinOK'
  BY DEF Seam, WithinOK, store
<1>. QED  BY <1>1, <1>2, <1>3 DEF Seam

LEMMA SeamQuiet ==
    ASSUME Inv, Seam, RestOK', NEW r \in Runs,
           \/ \E e \in BOOLEAN : StreamChunk(r, e)
           \/ BeginExecution(r) \/ StreamBySDK(r) \/ Silent(r) \/ SendWhole(r) \/ SendFinal(r)
           \/ Raise(r) \/ CompleteNotFound(r) \/ AlreadyCompleted(r)
    PROVE  Seam'
<1>1. /\ UNCHANGED store /\ UNCHANGED log /\ UNCHANGED reader
      /\ disturbed' = disturbed \/ \E q : disturbed' = disturbed \cup {q}
  BY DEF StreamChunk, BeginExecution, StreamBySDK, Silent, SendWhole, SendFinal,
     Raise, CompleteNotFound, AlreadyCompleted
<1>. QED  BY <1>1, SeamKept

LEMMA SeamCrash ==
    ASSUME Inv, Seam, RestOK', NEW h, Crash(h)
    PROVE  Seam'
<1>1. UNCHANGED store /\ UNCHANGED log /\ UNCHANGED reader /\ disturbed \subseteq disturbed'
  BY DEF Crash
<1>. QED  BY <1>1, SeamKept

\* A trimmed item's query is noted.
LEMMA TrimmedNoted ==
    ASSUME Inv, Seam, NEW m, NEW q, NEW c, Pushes(m, q, c)
    PROVE  /\ \A i \in 1 .. m : items[i].queryId \in Trimmed(q)
           /\ Within(items')
<1>. PICK n : n = Len(items)
  OBVIOUS
<1>1. n \in Nat /\ m \in 0 .. n /\ Len(items') = n + 1 - m /\ (MaxItems # 0 => n <= MaxItems)
  BY DEF Pushes, Seam, WithinOK, Within, Inv, Typed, StoreTyped
<1>2. m # 0 => MaxItems # 0 /\ m = n + 1 - MaxItems
  BY DEF Pushes
<1>3. m = 0 => (MaxItems # 0 => n + 1 <= MaxItems)
  BY DEF Pushes
<1>4. m # 0 => m = 1 /\ n = MaxItems /\ n # 0
  BY <1>1, <1>2, LimitsAssumption
<1>5. Within(items')
  BY <1>1, <1>2, <1>3, LimitsAssumption DEF Within
<1>6. ASSUME NEW i \in 1 .. m PROVE items[i].queryId \in Trimmed(q)
  <2>1. m # 0 /\ i = 1
    BY <1>1, <1>4
  <2>2. items # <<>> /\ items[1] = Head(items) /\ Len(items) >= MaxItems /\ MaxItems # 0
    <3>1. items \in Seq(LegitItem)
      BY DEF Inv, Typed, StoreTyped
    <3>. QED  BY <1>1, <1>2, <1>4, <2>1, <3>1
  <2>3. Trimmed(q) = {Head(items).queryId}
    BY <2>2 DEF Trimmed
  <2>. QED  BY <2>1, <2>2, <2>3
<1>. QED  BY <1>5, <1>6

LEMMA SeamStream ==
    ASSUME Inv, Inv', Seam, NEW q \in Queries, NEW c \in Chunk \cup {Done}, append(q, c),
           disturbed' = disturbed \cup Trimmed(q),
           log' = IF c = Done THEN log ELSE [log EXCEPT ![q] = Append(@, c)]
    PROVE  StreamOK' /\ Within(items')
<1>1. PICK m : Pushes(m, q, c)
  BY PushedItems
<1>2. \A i \in 1 .. m : items[i].queryId \in Trimmed(q)
  BY <1>1, TrimmedNoted
<1>3. ASSUME NEW p \in Queries
      PROVE  \E at : /\ Spans(items', p, log'[p], at)
                     /\ p \notin disturbed' => Whole(items', p, log'[p], at)
  <2>1. PICK at : /\ Spans(items, p, log[p], at)
                  /\ p \notin disturbed => Whole(items, p, log[p], at)
    BY DEF Seam, StreamOK
  <2>2. log[p] \in Seq(Chunk) /\ items \in Seq(Item) /\ (c # Done => c \in Chunk)
    <3>1. LegitItem \subseteq Item
      BY DEF LegitItem
    <3>. QED  BY <3>1 DEF Seam, RestOK, Inv, Typed, StoreTyped
  <2>3. log'[p] = Grown(log[p], p, q, c)
    BY DEF Seam, RestOK, Grown
  <2>4. PICK list : list = log[p]
    OBVIOUS
  <2>5. PICK at2 :
            /\ Spans(items', p, Grown(list, p, q, c), at2)
            /\ (Whole(items, p, list, at) /\ \A i \in 1 .. m : items[i].queryId # p)
               => Whole(items', p, Grown(list, p, q, c), at2)
    <3>1. /\ items \in Seq(Item) /\ Pushes(m, q, c) /\ (c # Done => c \in Chunk)
          /\ list \in Seq(Chunk) /\ Spans(items, p, list, at)
      BY <1>1, <2>1, <2>2, <2>4
    <3>. QED  BY <3>1, PushSpans
  <2>6. p \notin disturbed' => p \notin disturbed /\ \A i \in 1 .. m : items[i].queryId # p
    BY <1>2
  <2>. QED  BY <2>1, <2>3, <2>4, <2>5, <2>6
<1>. QED  BY <1>1, <1>3, TrimmedNoted DEF StreamOK

LEMMA SeamAddChunk ==
    ASSUME Inv, Inv', Seam, RestOK', NEW r \in Runs, AddChunk(r)
    PROVE  Seam'
<1>1. PICK q, c : q = Head(wire[r]).to /\ c = Head(wire[r]).chunk
  OBVIOUS
<1>2. /\ append(q, c) /\ reader' = Delivered(q, c) /\ UNCHANGED disk
      /\ log' = [log EXCEPT ![q] = Append(@, c)]
      /\ disturbed' = disturbed \cup Trimmed(q)
  BY <1>1 DEF AddChunk
<1>3. q \in Queries /\ c \in Chunk /\ c # Done
  <2>1. q \in Queries /\ c \in Chunk
    BY <1>1, NextPost DEF AddChunk
  <2>2. c # Done
    BY <2>1, DoneAssumption DEF Chunk
  <2>. QED  BY <2>1, <2>2
<1>4. StreamOK' /\ Within(items')
  BY <1>2, <1>3, SeamStream
<1>5. OpenOK'
  <2>1. SUFFICES ASSUME NEW d \in Readers, reader'[d].pc = "open"
                 PROVE  /\ Last(reader'[d].got, log'[reader'[d].query])
                        /\ reader'[d].beginning /\ reader'[d].query \notin disturbed' =>
                               Len(reader'[d].got) = Len(log'[reader'[d].query])
    BY DEF OpenOK
  <2>2. PICK rd, rn : rd = reader[d] /\ rn = reader'[d]
    OBVIOUS
  <2>3. rd \in Reader /\ rd.got \in Seq(Chunk) /\ rd.query \in Queries
        /\ log[rd.query] \in Seq(Chunk)
    BY <2>2 DEF Seam, RestOK, Reader
  <2>4. CASE ~Follows(rd, q)
    <3>1. rn = rd
      BY <1>2, <2>2, <2>4 DEF Delivered
    <3>2. rd.query # q /\ rd.pc = "open"
      BY <2>1, <2>2, <2>4, <3>1 DEF Follows
    <3>3. log'[rd.query] = log[rd.query]
      BY <1>2, <2>3, <3>2 DEF Seam, RestOK
    <3>. QED  BY <1>2, <2>2, <3>1, <3>2, <3>3 DEF Seam, OpenOK
  <2>5. CASE Follows(rd, q)
    <3>1. rn = WriteLive(rd, c) /\ rd.pc = "open" /\ rd.query = q
      BY <1>2, <2>2, <2>5 DEF Delivered, Follows
    <3>2. rn = [rd EXCEPT !.timer = FALSE, !.got = Append(@, c)]
      BY <1>3, <2>1, <2>2, <3>1, AwayType DEF WriteLive
    <3>3. rn.got = Append(rd.got, c) /\ rn.query = q /\ rn.beginning = rd.beginning
      BY <2>3, <3>1, <3>2 DEF Reader
    <3>4. log'[q] = Append(log[q], c)
      BY <1>2, <1>3 DEF Seam, RestOK
    <3>5. Last(rd.got, log[q])
      BY <2>2, <3>1 DEF Seam, OpenOK
    <3>6. Last(rn.got, log'[q])
      BY <1>3, <2>3, <3>1, <3>3, <3>4, <3>5, LastAppend
    <3>7. rn.beginning /\ q \notin disturbed' => Len(rn.got) = Len(log'[q])
      <4>1. rd.beginning /\ q \notin disturbed => Len(rd.got) = Len(log[q])
        BY <2>2, <3>1 DEF Seam, OpenOK
      <4>2. Len(rn.got) = Len(rd.got) + 1 /\ Len(log'[q]) = Len(log[q]) + 1
        BY <1>3, <2>3, <3>1, <3>3, <3>4
      <4>. QED  BY <1>2, <3>3, <4>1, <4>2
    <3>. QED  BY <2>2, <3>3, <3>6, <3>7
  <2>. QED  BY <2>4, <2>5
<1>6. WithinOK'
  BY <1>2, <1>4 DEF WithinOK, Seam
<1>. QED  BY <1>4, <1>5, <1>6 DEF Seam

LEMMA SeamCompleteQuery ==
    ASSUME Inv, Inv', Seam, RestOK', NEW r \in Runs, CompleteQuery(r)
    PROVE  Seam'
<1>1. PICK q : q = run[r].query
  OBVIOUS
<1>2. /\ append(q, Done) /\ disk'.items = items' /\ reader' = ReadersTold(q)
      /\ disturbed' = disturbed \cup Trimmed(q) /\ log' = log
  BY <1>1 DEF CompleteQuery
<1>3. q \in Queries
  BY <1>1, RunType
<1>4. StreamOK' /\ Within(items')
  BY <1>2, <1>3, SeamStream
<1>5. OpenOK'
  <2>1. SUFFICES ASSUME NEW d \in Readers, reader'[d].pc = "open"
                 PROVE  /\ Last(reader'[d].got, log'[reader'[d].query])
                        /\ reader'[d].beginning /\ reader'[d].query \notin disturbed' =>
                               Len(reader'[d].got) = Len(log'[reader'[d].query])
    BY DEF OpenOK
  <2>2. reader'[d] = reader[d]
    <3>1. CASE Follows(reader[d], q)
      <4>1. reader'[d] = Ended(Delivered(q, Done)[d])
        BY <1>2, <3>1 DEF ReadersTold
      <4>2. Delivered(q, Done)[d] \in Reader
        BY DeliveredType DEF Seam
      <4>3. reader'[d].pc = "done"
        BY <4>1, <4>2 DEF Ended, Reader
      <4>. QED  BY <2>1, <4>3
    <3>2. CASE ~Follows(reader[d], q)
      BY <1>2, <3>2 DEF ReadersTold
    <3>. QED  BY <3>1, <3>2
  <2>. QED  BY <1>2, <2>1, <2>2 DEF Seam, OpenOK
<1>6. WithinOK'
  BY <1>2, <1>4 DEF WithinOK
<1>. QED  BY <1>4, <1>5, <1>6 DEF Seam

\* A purge takes nothing from a query that has nothing stored.
LEMMA SeamPurge == ASSUME Inv, Seam, RestOK', Purge PROVE Seam'
<1>1. /\ items' = <<>> /\ disk'.items = <<>> /\ UNCHANGED reader /\ UNCHANGED log
      /\ disturbed' = disturbed \cup {q \in Queries : hasQuery(q)}
  BY DEF Purge
<1>2. ASSUME NEW q \in Queries
      PROVE  \E at : /\ Spans(items', q, log'[q], at)
                     /\ q \notin disturbed' => Whole(items', q, log'[q], at)
  <2>1. PICK at : /\ Spans(items, q, log[q], at)
                  /\ q \notin disturbed => Whole(items, q, log[q], at)
    BY DEF Seam, StreamOK
  <2>2. Places(items', q) = {} /\ [i \in {} |-> 0] \in [{} -> DOMAIN log'[q]]
    BY <1>1 DEF Places, PlacesOf
  <2>3. q \notin disturbed' => q \notin disturbed /\ Places(items, q) = {}
    BY <1>1 DEF hasQuery, Places, PlacesOf
  <2>4. q \notin disturbed' => DOMAIN log'[q] = {}
    BY <1>1, <2>1, <2>3 DEF Whole
  <2>. QED  BY <2>2, <2>4 DEF Spans, Whole
<1>3. OpenOK'
  <2>1. SUFFICES ASSUME NEW d \in Readers, reader'[d].pc = "open"
                 PROVE  /\ Last(reader'[d].got, log'[reader'[d].query])
                        /\ reader'[d].beginning /\ reader'[d].query \notin disturbed' =>
                               Len(reader'[d].got) = Len(log'[reader'[d].query])
    BY DEF OpenOK
  <2>. QED  BY <1>1, <2>1 DEF Seam, OpenOK
<1>4. WithinOK'
  BY <1>1, LimitsAssumption DEF WithinOK, Within
<1>. QED  BY <1>2, <1>3, <1>4 DEF Seam, StreamOK

LEMMA SeamRestart ==
    ASSUME Inv, Inv', Seam, RestOK', NEW saved \in BOOLEAN, Restart(saved)
    PROVE  Seam'
<1>1. /\ items' = IF saved THEN items ELSE disk.items
      /\ disk'.items = items' /\ log' = [q \in Queries |-> ChunksOf(items', q)]
      /\ reader' = [d \in Readers |-> IF reader[d].pc = "open" THEN Away ELSE reader[d]]
  BY DEF Restart
<1>2. items' \in Seq(Item)
  <2>1. LegitItem \subseteq Item
    BY DEF LegitItem
  <2>2. items \in Seq(Item) /\ disk.items \in Seq(Item)
    BY <2>1 DEF Inv, Typed, StoreTyped
  <2>. QED  BY <1>1, <2>2
<1>3. ASSUME NEW q \in Queries
      PROVE  \E at : /\ Spans(items', q, log'[q], at)
                     /\ q \notin disturbed' => Whole(items', q, log'[q], at)
  <2>1. PICK s : s = items'
    OBVIOUS
  <2>2. log'[q] = ChunksOf(s, q)
    BY <1>1, <2>1
  <2>3. \E at : Spans(s, q, ChunksOf(s, q), at) /\ Whole(s, q, ChunksOf(s, q), at)
    BY <1>2, <2>1, SpansChunksOf
  <2>. QED  BY <2>1, <2>2, <2>3
<1>4. \A d \in Readers : reader'[d].pc # "open"
  BY <1>1, AwayType
<1>5. WithinOK'
  BY <1>1 DEF Seam, WithinOK, Within
<1>. QED  BY <1>3, <1>4, <1>5 DEF Seam, StreamOK, OpenOK

\* A replay that meets no marker has everything that is stored.
LEMMA ReplayedAll ==
    ASSUME NEW q, ~isComplete(q)
    PROVE  Replayed(q) = ChunksOf(items, q)
<1>. PICK own, told : /\ own = PlacesOf(items, q)
                      /\ told = {i \in own : \A m \in own : items[m].chunk = Done => i < m}
  OBVIOUS
<1>1. \A m \in own : items[m].chunk # Done
  BY DEF isComplete, PlacesOf
<1>2. told = {i \in own : items[i].chunk # Done}
  BY <1>1
<1>3. Replayed(q) = ChunksAt(items, told)
  BY DEF Replayed
<1>. QED  BY <1>2, <1>3 DEF ChunksOf

LEMMA SeamClient ==
    ASSUME Inv, Seam, RestOK', NEW d \in Readers, Client(d)
    PROVE  Seam'
<1>1. UNCHANGED store /\ UNCHANGED log /\ UNCHANGED disturbed
  BY Zenon DEF Client, handleQueryStream, onQueryTimeout, onStreamClose
<1>2. CASE onQueryTimeout(d) \/ onStreamClose(d)
  <2>1. reader' = [reader EXCEPT ![d] = Away]
    BY <1>2 DEF onQueryTimeout, onStreamClose
  <2>2. \A e \in Readers : reader'[e] = reader[e] \/ reader'[e].pc # "open"
    BY <2>1, AwayType DEF Seam, RestOK
  <2>. QED  BY <1>1, <2>2, SeamKept
<1>3. ASSUME NEW q \in Queries, NEW beginning \in BOOLEAN, NEW wait \in BOOLEAN,
             handleQueryStream(d, q, beginning, wait)
      PROVE  Seam'
  <2>1. PICK opened, replay :
           /\ opened = [Away EXCEPT !.pc = "open", !.query = q, !.beginning = beginning,
                                    !.timer = wait]
           /\ replay = [opened EXCEPT !.got = Replayed(q)]
    OBVIOUS
  <2>2. /\ reader \in [Readers -> Reader]
        /\ reader' = [reader EXCEPT ![d] =
             IF ~beginning THEN opened ELSE IF isComplete(q) THEN Ended(replay) ELSE replay]
    BY <1>3, <2>1 DEF handleQueryStream, Seam, RestOK
  <2>3. opened \in Reader /\ opened.query = q /\ opened.beginning = beginning /\ opened.got = <<>>
    BY <2>1, AwayType DEF Reader
  <2>4. /\ replay.query = q /\ replay.got = Replayed(q) /\ replay.beginning = beginning
        /\ Ended(replay).pc = "done"
    BY <2>1, <2>3 DEF Reader, Ended
  <2>5. OpenOK'
    <3>1. SUFFICES ASSUME NEW e \in Readers, reader'[e].pc = "open"
                   PROVE  /\ Last(reader'[e].got, log'[reader'[e].query])
                          /\ reader'[e].beginning /\ reader'[e].query \notin disturbed' =>
                                 Len(reader'[e].got) = Len(log'[reader'[e].query])
      BY DEF OpenOK
    <3>2. CASE e # d
      <4>1. reader'[e] = reader[e]
        BY <2>2, <3>2
      <4>. QED  BY <1>1, <3>1, <4>1 DEF Seam, OpenOK
    <3>3. CASE e = d /\ ~beginning
      <4>1. reader'[e] = opened
        BY <2>2, <3>3
      <4>2. log[q] \in Seq(Chunk)
        BY DEF Seam, RestOK
      <4>3. Last(<<>>, log[q])
        BY <4>2 DEF Last
      <4>. QED  BY <1>1, <2>3, <3>3, <4>1, <4>3
    <3>4. CASE e = d /\ beginning
      <4>1. ~isComplete(q) /\ reader'[e] = replay
        BY <2>2, <2>4, <3>1, <3>4
      <4>2. replay.got = ChunksOf(items, q)
        BY <2>4, <4>1, ReplayedAll
      <4>3. PICK at : /\ Spans(items, q, log[q], at)
                      /\ q \notin disturbed => Whole(items, q, log[q], at)
        BY DEF Seam, StreamOK
      <4>4. items \in Seq(Item) /\ log[q] \in Seq(Chunk)
        <5>1. LegitItem \subseteq Item
          BY DEF LegitItem
        <5>. QED  BY <5>1 DEF Seam, RestOK, Inv, Typed, StoreTyped
      <4>5. /\ Last(ChunksOf(items, q), log[q])
            /\ q \notin disturbed => Len(ChunksOf(items, q)) = Len(log[q])
        BY <4>3, <4>4, SpansLast
      <4>. QED  BY <1>1, <2>4, <4>1, <4>2, <4>5
    <3>. QED  BY <3>2, <3>3, <3>4
  <2>6. StreamOK'
    <3>1. SUFFICES ASSUME NEW p \in Queries
                   PROVE  \E at : /\ Spans(items', p, log'[p], at)
                                  /\ p \notin disturbed' => Whole(items', p, log'[p], at)
      BY DEF StreamOK
    <3>2. items' = items /\ log' = log /\ disturbed' = disturbed
      BY <1>1 DEF store
    <3>3. PICK at : /\ Spans(items, p, log[p], at)
                    /\ p \notin disturbed => Whole(items, p, log[p], at)
      BY DEF Seam, StreamOK
    <3>. QED  BY <3>2, <3>3
  <2>7. WithinOK'
    BY <1>1 DEF Seam, WithinOK, store
  <2>. QED  BY <2>5, <2>6, <2>7 DEF Seam
<1>. QED  BY <1>2, <1>3 DEF Client

LEMMA SeamStep == Inv /\ Inv' /\ Seam /\ [Next]_vars => Seam'
<1>1. SUFFICES ASSUME Inv, Inv', Seam, [Next]_vars PROVE Seam'
  OBVIOUS
<1>2. RestOK'
  BY <1>1, RestStep DEF Seam
<1>3. ASSUME NEW r \in Runs, Produce(r) \/ Raise(r) PROVE Seam'
  BY <1>1, <1>2, <1>3, SeamQuiet, SeamAddChunk, SeamCompleteQuery DEF Produce
<1>4. ASSUME NEW h \in Adapters \cup {Engine}, Crash(h) PROVE Seam'
  BY <1>1, <1>2, <1>4, SeamCrash
<1>5. ASSUME NEW d \in Readers, Client(d) PROVE Seam'
  BY <1>1, <1>2, <1>5, SeamClient
<1>6. CASE UNCHANGED vars
  <2>1. UNCHANGED <<store, log>> /\ UNCHANGED disturbed /\ UNCHANGED reader
    BY <1>6 DEF vars, store
  <2>. QED  BY <1>1, <1>2, <2>1, SeamKept
<1>. QED  BY <1>1, <1>2, <1>3, <1>4, <1>5, <1>6, SeamPurge, SeamRestart DEF Next

\* What a client has of an open connection is the last part of what the broker took for
\* the query, whatever is replayed, trimmed, purged or completed (handlers.ts).
THEOREM SeamTheorem == Spec => []OpenIsTail
<1>1. Seam => OpenIsTail
  <2>1. SUFFICES ASSUME Seam, NEW d \in Readers, reader[d].pc = "open"
                 PROVE  IsTail(reader[d].got, log[reader[d].query])
    BY DEF OpenIsTail
  <2>2. reader[d].got \in Seq(Chunk) /\ log[reader[d].query] \in Seq(Chunk)
    BY <2>1 DEF Seam, RestOK, Reader
  <2>3. Last(reader[d].got, log[reader[d].query])
    BY <2>1 DEF Seam, OpenOK
  <2>. QED  BY <2>2, <2>3, LastIsTail
<1>. QED  BY <1>1, SeamInit, SeamStep, InitStep, InvStep, PTL DEF Spec

-------------------------------------------------------------------------------
(* The answer of an execution.                                             *)

\* An execution of an SDK executor that no other one ran beside; a query that has no
\* other and whose stream is not disturbed.
Alone(r) == Awaits(r) /\ r \notin overlapped
Clean(q) == q \notin disturbed /\ \A r \in Runs : run[r].query = q => Alone(r)

\* What is stored of a query, and of an execution.
Stored(q) == {items[i] : i \in PlacesOf(items, q)}
Own(I, r) == {it \in I : it.chunk # Done /\ it.chunk.run = r}

\* The chunks of an execution among some items are the ones numbered so, in order.
Has(I, r, numbers) ==
    /\ \A it \in Own(I, r) : ~it.chunk.error /\ it.chunk.n \in numbers
    /\ \A a, b \in Own(I, r) : a.sequenceNumber < b.sequenceNumber => a.chunk.n < b.chunk.n
    /\ \A n \in numbers : \E it \in Own(I, r) : it.chunk.n = n
Answered(I, r) == Has(I, r, 1 .. RunLength) \/ Has(I, r, {0, RunLength})

\* The numbers of the chunks an execution has sent.
SentBy(r) ==
    IF run[r].pc = "waiting" THEN {}
    ELSE IF run[r].whole THEN {n \in {0, RunLength} : n <= run[r].sent}
    ELSE IF streamed[run[r].host] THEN 1 .. run[r].sent ELSE {}

\* An execution that runs alone holds its adapter.
Holds(r) ==
    /\ run[r].pc = "waiting" => run[r].sent = 0 /\ ~run[r].whole
    /\ Executing(r) =>
           LET h == run[r].host
           IN /\ client[h] = r
              /\ streamed[h] => ~run[r].whole /\ run[r].sent > 0
              /\ ~streamed[h] => run[r].sent \in {0, RunLength - 1, RunLength}
              /\ run[r].whole => run[r].sent >= RunLength - 1
              /\ run[r].sent = RunLength => run[r].whole \/ streamed[h]
AloneOK == \A r \in Runs : Alone(r) => Holds(r)

\* A chunk on its way is of who sent it.
WireOK == \A r \in Runs : \A i \in DOMAIN wire[r] : wire[r][i].chunk.run = r

\* What an execution has sent is stored, but for the last chunk, which may be on its way.
Taken(r) ==
    \/ wire[r] = <<>> /\ Has(Stored(run[r].query), r, SentBy(r))
    \/ \E last \in SentBy(r) :
           /\ wire[r] = <<[to |-> run[r].query,
                           chunk |-> [run |-> r, n |-> last, error |-> FALSE]]>>
           /\ \A n \in SentBy(r) : n <= last
           /\ Has(Stored(run[r].query), r, SentBy(r) \ {last})
TakenOK == \A r \in Runs : Clean(run[r].query) /\ run[r].pc # "over" => Taken(r)

CompletedOK == \A r \in Runs : run[r].completed => run[r].pc = "over"

\* Before a marker is a whole answer of an execution that completed.
MarkedOK ==
    \A q \in Queries : Clean(q) =>
        \A m \in Stored(q) : m.chunk = Done =>
            \E r \in Runs :
                /\ run[r].query = q /\ run[r].completed
                /\ Answered({it \in Stored(q) : it.sequenceNumber < m.sequenceNumber}, r)

Told == CompletedOK /\ WireOK /\ AloneOK /\ TakenOK /\ MarkedOK /\ CompleteAnswer

LEMMA ItemsType == ASSUME Inv PROVE items \in Seq(Item) /\ disk.items \in Seq(Item)
<1>1. LegitItem \subseteq Item
  BY DEF LegitItem
<1>. QED  BY <1>1 DEF Inv, Typed, StoreTyped

\* The list of an execution's chunks, when they are the ones numbered so.
LEMMA AnswerOf ==
    ASSUME NEW s \in Seq(Item),
           \A i, j \in DOMAIN s : i < j => s[i].sequenceNumber < s[j].sequenceNumber,
           NEW P \in SUBSET DOMAIN s, \A i \in P : s[i].chunk # Done,
           NEW r \in Runs, Answered({s[i] : i \in P}, r)
    PROVE  HasAnswer(ChunksAt(s, P), r)
<1>1. PICK I, got, c, g : /\ I = {s[i] : i \in P} /\ got = ChunksAt(s, P)
                          /\ c = Cardinality(P) /\ g = InOrder(P)
  OBVIOUS
<1>2. P \in SUBSET (1 .. Len(s)) /\ Len(s) \in Nat
  OBVIOUS
<1>3. /\ got \in Seq(Chunk) /\ Len(got) = c /\ DOMAIN got = 1 .. c /\ c \in Nat
      /\ \A j \in 1 .. c : g[j] \in P /\ got[j] = s[g[j]].chunk /\ got[j] \in Chunk
  <2>1. \A i \in P : s[i].chunk # Done
    OBVIOUS
  <2>. QED  BY <1>1, <2>1, ChunksAtType
<1>4. /\ g \in [1 .. c -> P] /\ (\A i, j \in 1 .. c : i < j => g[i] < g[j])
      /\ \A p \in P : \E i \in 1 .. c : g[i] = p
  <2>1. PICK m \in Nat : m = Len(s) /\ P \in SUBSET (1 .. m)
    BY <1>2
  <2>2. InOrder(P) \in [1 .. Cardinality(P) -> P] /\ Up(InOrder(P))
    BY <2>1, InOrderProperties
  <2>3. \A p \in P : \E i \in 1 .. Cardinality(P) : InOrder(P)[i] = p
    BY <2>1, InOrderProperties
  <2>. QED  BY <1>1, <2>2, <2>3 DEF Up
<1>5. PICK J, d, G : /\ J = {i \in DOMAIN got : got[i].run = r}
                     /\ d = Cardinality(J) /\ G = InOrder(J)
  OBVIOUS
<1>6. J \in SUBSET (1 .. c)
  BY <1>3, <1>5
<1>7. /\ G \in [1 .. d -> J] /\ d \in Nat /\ (\A i, j \in 1 .. d : i < j => G[i] < G[j])
      /\ \A p \in J : \E i \in 1 .. d : G[i] = p
  <2>1. /\ Cardinality(J) \in Nat /\ InOrder(J) \in [1 .. Cardinality(J) -> J] /\ Up(InOrder(J))
        /\ \A p \in J : \E i \in 1 .. Cardinality(J) : InOrder(J)[i] = p
    BY <1>3, <1>6, InOrderProperties
  <2>2. d = Cardinality(J) /\ G = InOrder(J)
    BY <1>5
  <2>. QED  BY <2>1, <2>2 DEF Up
<1>8. PICK a : a = [k \in 1 .. d |-> got[G[k]]]
  OBVIOUS
<1>9. Kept(got, J) = a
  BY <1>5, <1>8 DEF Kept
<1>10. \A k \in 1 .. d : /\ G[k] \in 1 .. c /\ a[k] = got[G[k]] /\ a[k] \in Chunk /\ a[k].run = r
                         /\ g[G[k]] \in P /\ s[g[G[k]]] \in Own(I, r)
                         /\ a[k] = s[g[G[k]]].chunk
  <2>1. SUFFICES ASSUME NEW k \in 1 .. d
                 PROVE  /\ G[k] \in 1 .. c /\ a[k] = got[G[k]] /\ a[k] \in Chunk /\ a[k].run = r
                        /\ g[G[k]] \in P /\ s[g[G[k]]] \in Own(I, r)
                        /\ a[k] = s[g[G[k]]].chunk
    OBVIOUS
  <2>2. G[k] \in J /\ G[k] \in 1 .. c /\ a[k] = got[G[k]]
    BY <1>6, <1>7, <1>8
  <2>3. got[G[k]].run = r /\ got[G[k]] \in Chunk /\ g[G[k]] \in P
        /\ got[G[k]] = s[g[G[k]]].chunk
    BY <1>3, <1>5, <2>2
  <2>4. s[g[G[k]]] \in I /\ s[g[G[k]]].chunk # Done
    BY <1>1, <2>3
  <2>. QED  BY <2>2, <2>3, <2>4 DEF Own
<1>11. \A it \in Own(I, r) : \E k \in 1 .. d : a[k] = it.chunk
  <2>1. SUFFICES ASSUME NEW it \in Own(I, r) PROVE \E k \in 1 .. d : a[k] = it.chunk
    OBVIOUS
  <2>2. PICK p \in P : it = s[p]
    BY <1>1, <2>1 DEF Own
  <2>3. PICK j \in 1 .. c : g[j] = p
    BY <1>4
  <2>4. got[j] = it.chunk /\ j \in J
    BY <1>3, <1>5, <2>1, <2>2, <2>3 DEF Own
  <2>5. PICK k \in 1 .. d : G[k] = j
    BY <1>7, <2>4
  <2>. QED  BY <1>8, <2>4, <2>5
<1>12. \A i, j \in 1 .. d : i < j =>
           s[g[G[i]]].sequenceNumber < s[g[G[j]]].sequenceNumber
  <2>1. SUFFICES ASSUME NEW i \in 1 .. d, NEW j \in 1 .. d, i < j
                 PROVE  s[g[G[i]]].sequenceNumber < s[g[G[j]]].sequenceNumber
    OBVIOUS
  <2>2. G[i] \in 1 .. c /\ G[j] \in 1 .. c /\ G[i] < G[j]
    BY <1>7, <1>10, <2>1
  <2>3. g[G[i]] \in DOMAIN s /\ g[G[j]] \in DOMAIN s /\ g[G[i]] < g[G[j]]
    BY <1>4, <1>10, <2>2
  <2>. QED  BY <2>3
<1>13. ASSUME NEW N, Has(I, r, N)
       PROVE  /\ \A k \in 1 .. d : ~a[k].error /\ a[k].n \in N
              /\ \A i, j \in 1 .. d : i < j => a[i].n < a[j].n
              /\ \A n \in N : \E k \in 1 .. d : a[k].n = n
  <2>1. /\ \A it \in Own(I, r) : ~it.chunk.error /\ it.chunk.n \in N
        /\ \A x, y \in Own(I, r) : x.sequenceNumber < y.sequenceNumber => x.chunk.n < y.chunk.n
        /\ \A n \in N : \E it \in Own(I, r) : it.chunk.n = n
    BY <1>13 DEF Has
  <2>2. \A k \in 1 .. d : ~a[k].error /\ a[k].n \in N
    BY <1>10, <2>1
  <2>3. \A i, j \in 1 .. d : i < j => a[i].n < a[j].n
    BY <1>10, <1>12, <2>1
  <2>4. ASSUME NEW n \in N PROVE \E k \in 1 .. d : a[k].n = n
    <3>1. PICK it \in Own(I, r) : it.chunk.n = n
      BY <2>1
    <3>. QED  BY <1>11, <3>1
  <2>. QED  BY <2>2, <2>3, <2>4
<1>14. \A k \in 1 .. d : ~a[k].error => a[k] = [run |-> r, n |-> a[k].n, error |-> FALSE]
  <2>1. \A x \in Chunk : x.run = r /\ ~x.error => x = [run |-> r, n |-> x.n, error |-> FALSE]
    BY DEF Chunk
  <2>. QED  BY <1>10, <2>1
<1>15. CASE Has(I, r, 1 .. RunLength)
  <2>1. /\ \A k \in 1 .. d : ~a[k].error /\ a[k].n \in 1 .. RunLength
        /\ \A i, j \in 1 .. d : i < j => a[i].n < a[j].n
        /\ \A n \in 1 .. RunLength : \E k \in 1 .. d : a[k].n = n
    BY <1>13, <1>15
  <2>2. PICK h : h = [k \in 1 .. d |-> a[k].n]
    OBVIOUS
  <2>3. h \in [1 .. d -> 1 .. RunLength] /\ Up(h)
    BY <2>1, <2>2 DEF Up
  <2>4. \A n \in 1 .. RunLength : \E k \in 1 .. d : h[k] = n
    BY <2>1, <2>2
  <2>5. \A i \in 1 .. d : \A k \in h[i] .. RunLength : \E j \in 1 .. d : h[j] = k
    <3>1. \A i \in 1 .. d : \A k \in h[i] .. RunLength : k \in 1 .. RunLength
      BY <2>3, LimitsAssumption
    <3>. QED  BY <2>4, <3>1
  <2>6. d <= RunLength /\ \A i \in 1 .. d : h[i] = RunLength - d + i
    <3>1. RunLength \in Nat
      BY LimitsAssumption
    <3>. QED  BY <1>7, <2>3, <2>5, <3>1, RisingToEnd
  <2>7. d = RunLength
    <3>1. 1 \in 1 .. RunLength
      BY LimitsAssumption
    <3>2. PICK k \in 1 .. d : h[k] = 1
      BY <2>4, <3>1
    <3>. QED  BY <1>7, <2>6, <3>2, LimitsAssumption
  <2>8. \A k \in 1 .. d : a[k] = [run |-> r, n |-> k, error |-> FALSE]
    <3>1. \A k \in 1 .. d : a[k].n = k
      BY <1>7, <2>2, <2>6, <2>7
    <3>. QED  BY <1>14, <2>1, <3>1
  <2>9. a = [n \in 1 .. RunLength |-> [run |-> r, n |-> n, error |-> FALSE]]
    BY <1>8, <2>7, <2>8
  <2>. QED  BY <1>1, <1>5, <1>9, <2>9 DEF HasAnswer
<1>16. CASE Has(I, r, {0, RunLength})
  <2>1. /\ \A k \in 1 .. d : ~a[k].error /\ a[k].n \in {0, RunLength}
        /\ \A i, j \in 1 .. d : i < j => a[i].n < a[j].n
        /\ \A n \in {0, RunLength} : \E k \in 1 .. d : a[k].n = n
    BY <1>13, <1>16
  <2>2. PICK h : h = [k \in 1 .. d |-> IF a[k].n = 0 THEN 1 ELSE 2]
    OBVIOUS
  <2>3. h \in [1 .. d -> 1 .. 2]
    BY <2>2
  <2>4. Up(h)
    <3>1. SUFFICES ASSUME NEW i \in 1 .. d, NEW j \in 1 .. d, i < j PROVE h[i] < h[j]
      BY <2>3 DEF Up
    <3>2. a[i].n = 0 /\ a[j].n # 0
      BY <2>1, <3>1, LimitsAssumption
    <3>. QED  BY <2>2, <3>2
  <2>5. \A n \in 1 .. 2 : \E k \in 1 .. d : h[k] = n
    <3>1. PICK k \in 1 .. d : a[k].n = 0
      BY <2>1
    <3>2. PICK l \in 1 .. d : a[l].n = RunLength
      BY <2>1
    <3>3. h[k] = 1 /\ h[l] = 2
      BY <2>2, <3>1, <3>2, LimitsAssumption
    <3>. QED  BY <3>3
  <2>6. \A i \in 1 .. d : \A k \in h[i] .. 2 : \E j \in 1 .. d : h[j] = k
    <3>1. \A i \in 1 .. d : \A k \in h[i] .. 2 : k \in 1 .. 2
      BY <2>3
    <3>. QED  BY <2>5, <3>1
  <2>7. d <= 2 /\ \A i \in 1 .. d : h[i] = 2 - d + i
    BY <1>7, <2>3, <2>4, <2>6, RisingToEnd
  <2>8. d = 2
    <3>1. PICK k \in 1 .. d : h[k] = 1
      BY <2>5
    <3>. QED  BY <1>7, <2>7, <3>1
  <2>9. a[1].n = 0 /\ a[2].n = RunLength
    <3>1. h[1] = 1 /\ h[2] = 2 /\ 1 \in 1 .. d /\ 2 \in 1 .. d
      BY <2>7, <2>8
    <3>. QED  BY <2>1, <2>2, <3>1
  <2>10. /\ a[1] = [run |-> r, n |-> 0, error |-> FALSE]
         /\ a[2] = [run |-> r, n |-> RunLength, error |-> FALSE]
    <3>1. 1 \in 1 .. d /\ 2 \in 1 .. d /\ ~a[1].error /\ ~a[2].error
      BY <2>1, <2>8
    <3>. QED  BY <1>14, <2>9, <3>1
  <2>11. a = <<[run |-> r, n |-> 0, error |-> FALSE],
               [run |-> r, n |-> RunLength, error |-> FALSE]>>
    <3>1. PICK x, y : x = a[1] /\ y = a[2]
      OBVIOUS
    <3>2. a = <<x, y>>
      <4>1. a = [k \in 1 .. 2 |-> a[k]]
        BY <1>8, <2>8
      <4>2. \A k \in 1 .. 2 : a[k] = <<x, y>>[k]
        BY <3>1
      <4>. QED  BY <4>1, <4>2
    <3>. QED  BY <2>10, <3>1, <3>2
  <2>. QED  BY <1>1, <1>5, <1>9, <2>11 DEF HasAnswer
<1>. QED  BY <1>1, <1>15, <1>16 DEF Answered

\* What a set has of an execution is its own.
LEMMA HasSame ==
    ASSUME NEW I, NEW J, NEW r, NEW N, Own(I, r) = Own(J, r), Has(I, r, N)
    PROVE  Has(J, r, N)
BY DEF Has

\* The next chunk behind the others.
LEMMA HasNext ==
    ASSUME NEW I \in SUBSET Item, NEW r \in Runs, NEW N, NEW x \in Item, NEW n \in Nat,
           Has(I, r, N), \A it \in I : it.sequenceNumber < x.sequenceNumber,
           x.chunk = [run |-> r, n |-> n, error |-> FALSE], x.chunk # Done,
           \A k \in N : k < n
    PROVE  Has(I \cup {x}, r, N \cup {n})
<1>1. PICK J : J = I \cup {x}
  OBVIOUS
<1>2. Own(J, r) = Own(I, r) \cup {x} /\ x.chunk.n = n /\ ~x.chunk.error
  BY <1>1 DEF Own
<1>3. /\ \A it \in Own(I, r) : ~it.chunk.error /\ it.chunk.n \in N
      /\ \A a, b \in Own(I, r) : a.sequenceNumber < b.sequenceNumber => a.chunk.n < b.chunk.n
      /\ \A k \in N : \E it \in Own(I, r) : it.chunk.n = k
  BY DEF Has
<1>4. \A it \in Own(I, r) : it \in Item /\ it.sequenceNumber < x.sequenceNumber
                            /\ it.sequenceNumber \in Nat
  BY DEF Own, Item
<1>5. x.sequenceNumber \in Nat
  BY DEF Item
<1>6. \A a, b \in Own(J, r) : a.sequenceNumber < b.sequenceNumber => a.chunk.n < b.chunk.n
  <2>1. SUFFICES ASSUME NEW a \in Own(J, r), NEW b \in Own(J, r),
                        a.sequenceNumber < b.sequenceNumber
                 PROVE  a.chunk.n < b.chunk.n
    OBVIOUS
  <2>2. CASE a = x
    <3>1. FALSE
      BY <1>2, <1>4, <1>5, <2>1, <2>2
    <3>. QED  BY <3>1
  <2>3. CASE a # x /\ b = x
    BY <1>2, <1>3, <2>3
  <2>4. CASE a # x /\ b # x
    BY <1>2, <1>3, <2>1, <2>4
  <2>. QED  BY <2>2, <2>3, <2>4
<1>7. \A k \in N \cup {n} : \E it \in Own(J, r) : it.chunk.n = k
  BY <1>2, <1>3
<1>8. \A it \in Own(J, r) : ~it.chunk.error /\ it.chunk.n \in N \cup {n}
  BY <1>2, <1>3
<1>9. Has(J, r, N \cup {n})
  BY <1>6, <1>7, <1>8 DEF Has
<1>. QED  BY <1>1, <1>9

-------------------------------------------------------------------------------
(* What a step does to the executions.                                     *)

\* What becomes of an execution: it keeps its query and process, an execution that is
\* over stays as it is, and one that completed is over.
Goes(r) ==
    /\ run'[r].query = run[r].query /\ run'[r].host = run[r].host
    /\ run[r].pc = "over" => run'[r] = run[r]
    /\ run'[r].completed => run[r].completed \/ run'[r].pc = "over"

LEMMA OverGoes ==
    ASSUME Inv, NEW r \in Runs, NEW c, Over(r, c), run[r].pc = "executing", NEW o \in Runs
    PROVE  Goes(o) /\ (o # r => run'[o] = run[o]) /\ run'[r].pc = "over"
<1>1. run \in [Runs -> Run] /\ run[r] \in Run
  BY DEF Inv, Typed
<1>2. run' = [run EXCEPT ![r].pc = "over", ![r].completed = c]
  BY DEF Over
<1>3. o # r => run'[o] = run[o]
  BY <1>1, <1>2
<1>4. run'[r] = [run[r] EXCEPT !.pc = "over", !.completed = c]
  BY <1>1, <1>2
<1>5. run'[r].query = run[r].query /\ run'[r].host = run[r].host /\ run'[r].pc = "over"
  BY <1>1, <1>4 DEF Run
<1>. QED  BY <1>3, <1>5 DEF Goes

LEMMA ProduceGoes ==
    ASSUME Inv, NEW r \in Runs, Produce(r) \/ Raise(r), NEW o \in Runs
    PROVE  Goes(o) /\ (o # r => run'[o] = run[o])
<1>1. run \in [Runs -> Run] /\ run[r] \in Run
  BY DEF Inv, Typed
<1>2. CASE \/ \E e \in BOOLEAN : StreamChunk(r, e)
           \/ StreamBySDK(r) \/ Silent(r) \/ SendFinal(r)
  <2>1. run[r].pc = "executing" /\ \E n : run' = [run EXCEPT ![r].sent = n]
    BY <1>2 DEF StreamChunk, StreamBySDK, Silent, SendFinal, Producing, Executing
  <2>2. PICK n : run' = [run EXCEPT ![r].sent = n]
    BY <2>1
  <2>3. /\ o # r => run'[o] = run[o]
        /\ run'[r] = [run[r] EXCEPT !.sent = n]
    BY <1>1, <2>2
  <2>4. /\ run'[r].query = run[r].query /\ run'[r].host = run[r].host
        /\ run'[r].completed = run[r].completed
    BY <1>1, <2>3 DEF Run
  <2>. QED  BY <2>1, <2>3, <2>4 DEF Goes
<1>3. CASE SendWhole(r)
  <2>1. run[r].pc = "executing" /\ run' = [run EXCEPT ![r].whole = TRUE]
    BY <1>3 DEF SendWhole, Producing, Executing
  <2>3. /\ o # r => run'[o] = run[o]
        /\ run'[r] = [run[r] EXCEPT !.whole = TRUE]
    BY <1>1, <2>1
  <2>4. /\ run'[r].query = run[r].query /\ run'[r].host = run[r].host
        /\ run'[r].completed = run[r].completed
    BY <1>1, <2>3 DEF Run
  <2>. QED  BY <2>1, <2>3, <2>4 DEF Goes
<1>4. CASE BeginExecution(r)
  <2>1. run[r].pc = "waiting" /\ run' = [run EXCEPT ![r].pc = "executing"]
    BY <1>4 DEF BeginExecution
  <2>3. /\ o # r => run'[o] = run[o]
        /\ run'[r] = [run[r] EXCEPT !.pc = "executing"]
    BY <1>1, <2>1
  <2>4. /\ run'[r].query = run[r].query /\ run'[r].host = run[r].host
        /\ run'[r].completed = run[r].completed
    BY <1>1, <2>3 DEF Run
  <2>. QED  BY <2>1, <2>3, <2>4 DEF Goes
<1>5. CASE AddChunk(r)
  BY <1>5 DEF AddChunk, Goes
<1>6. CASE CompleteNotFound(r) \/ AlreadyCompleted(r) \/ CompleteQuery(r) \/ Raise(r)
  <2>1. run[r].pc = "executing" /\ \E c : Over(r, c)
    BY <1>6 DEF CompleteNotFound, AlreadyCompleted, CompleteQuery, Raise, Completing,
       Producing, Executing
  <2>. QED  BY <2>1, OverGoes
<1>. QED  BY <1>2, <1>3, <1>4, <1>5, <1>6 DEF Produce

LEMMA CrashGoes ==
    ASSUME Inv, NEW h, Crash(h), NEW o \in Runs
    PROVE  /\ Goes(o)
           /\ IF run[o].host = h /\ Executing(o) THEN run'[o].pc = "over"
              ELSE run'[o] = run[o] /\ wire'[o] = wire[o]
<1>1. run \in [Runs -> Run] /\ run[o] \in Run
  BY DEF Inv, Typed
<1>2. PICK lost : lost = {r \in Runs : run[r].host = h /\ Executing(r)}
  OBVIOUS
<1>3. /\ run' = [r \in Runs |-> IF r \in lost THEN [run[r] EXCEPT !.pc = "over"] ELSE run[r]]
      /\ wire' = [r \in Runs |-> IF r \in lost THEN <<>> ELSE wire[r]]
  BY <1>2 DEF Crash
<1>4. CASE o \in lost
  <2>1. run'[o] = [run[o] EXCEPT !.pc = "over"] /\ run[o].pc = "executing"
        /\ run[o].host = h /\ Executing(o)
    BY <1>2, <1>3, <1>4 DEF Executing
  <2>2. /\ run'[o].query = run[o].query /\ run'[o].host = run[o].host
        /\ run'[o].pc = "over"
    BY <1>1, <2>1 DEF Run
  <2>. QED  BY <2>1, <2>2 DEF Goes
<1>5. CASE o \notin lost
  <2>1. run'[o] = run[o] /\ wire'[o] = wire[o] /\ ~(run[o].host = h /\ Executing(o))
    BY <1>2, <1>3, <1>5
  <2>. QED  BY <2>1 DEF Goes
<1>. QED  BY <1>4, <1>5

LEMMA AllGo == ASSUME Inv, [Next]_vars, NEW o \in Runs PROVE Goes(o)
<1>1. CASE UNCHANGED run
  BY <1>1 DEF Goes
<1>2. ASSUME NEW d \in Readers, Client(d) PROVE UNCHANGED run
  BY <1>2, Zenon DEF Client, handleQueryStream, onQueryTimeout, onStreamClose
<1>3. Purge \/ (\E saved \in BOOLEAN : Restart(saved)) \/ UNCHANGED vars => UNCHANGED run
  BY DEF Purge, Restart, vars
<1>. QED  BY <1>1, <1>2, <1>3, ProduceGoes, CrashGoes DEF Next

\* What is clean was clean.
LEMMA WasClean ==
    ASSUME Inv, RestOK, [Next]_vars
    PROVE  /\ disturbed \subseteq disturbed' /\ overlapped \subseteq overlapped'
           /\ \A r \in Runs : Alone(r)' => Alone(r)
           /\ \A q : Clean(q)' => Clean(q)
<1>1. disturbed \subseteq disturbed' /\ overlapped \subseteq overlapped'
  <2>1. ASSUME NEW r \in Runs, Produce(r) \/ Raise(r)
        PROVE  disturbed \subseteq disturbed' /\ overlapped \subseteq overlapped'
    BY <2>1 DEF Produce, Raise, StreamChunk, BeginExecution, StreamBySDK, Silent, SendWhole,
       SendFinal, AddChunk, CompleteNotFound, AlreadyCompleted, CompleteQuery, adapter
  <2>2. ASSUME NEW h, Crash(h)
        PROVE  disturbed \subseteq disturbed' /\ overlapped \subseteq overlapped'
    BY <2>2 DEF Crash
  <2>3. ASSUME NEW d \in Readers, Client(d)
        PROVE  disturbed \subseteq disturbed' /\ overlapped \subseteq overlapped'
    BY <2>3, Zenon DEF Client, handleQueryStream, onQueryTimeout, onStreamClose, adapter
  <2>4. Purge \/ (\E saved \in BOOLEAN : Restart(saved)) \/ UNCHANGED vars
        => disturbed \subseteq disturbed' /\ overlapped \subseteq overlapped'
    BY DEF Purge, Restart, vars, adapter
  <2>. QED  BY <2>1, <2>2, <2>3, <2>4 DEF Next
<1>2. \A r \in Runs : Alone(r)' => Alone(r)
  BY <1>1, AllGo DEF Alone, Awaits, Goes
<1>3. \A q : Clean(q)' => Clean(q)
  BY <1>1, <1>2, AllGo DEF Clean, Goes
<1>. QED  BY <1>1, <1>2, <1>3

LEMMA CompletedStep ==
    ASSUME Inv, CompletedOK, [Next]_vars
    PROVE  CompletedOK' /\ \A r \in Runs : run[r].completed => run'[r].completed
BY AllGo DEF Goes, CompletedOK

\* An execution that an action leaves alone.
Untouched(r) ==
    /\ run'[r] = run[r]
    /\ Executing(r) => LET h == run[r].host
                       IN client'[h] = client[h] /\ streamed'[h] = streamed[h]

LEMMA UntouchedKept ==
    ASSUME Inv, NEW r \in Runs, Untouched(r), Holds(r)
    PROVE  Holds(r)' /\ (run[r].pc # "over" => SentBy(r)' = SentBy(r))
<1>1. run'[r] = run[r] /\ run[r].pc \in {"waiting", "executing", "over"}
  BY DEF Untouched, Inv, Typed, Run
<1>2. Executing(r) => client'[run[r].host] = client[run[r].host]
                      /\ streamed'[run[r].host] = streamed[run[r].host]
  BY DEF Untouched
<1>3. CASE Executing(r)
  <2>1. SentBy(r)' = SentBy(r)
    BY <1>1, <1>2, <1>3 DEF SentBy
  <2>. QED  BY <1>1, <1>2, <1>3, <2>1 DEF Holds, Executing
<1>4. CASE ~Executing(r)
  <2>1. run[r].pc # "over" => SentBy(r)' = SentBy(r)
    BY <1>1, <1>4 DEF SentBy, Executing
  <2>. QED  BY <1>1, <1>4, <2>1 DEF Holds, Executing
<1>. QED  BY <1>3, <1>4

\* Two executions in one adapter, of which one runs alone.
LEMMA Beside ==
    ASSUME Inv, NEW r \in Runs, NEW o \in Runs, r # o, Alone(r), Executing(r), Executing(o)
    PROVE  run[o].host # run[r].host
BY DEF Inv, Noted, Alone

\* An execution that runs alone is not touched by the others ...
LEMMA OthersLeave ==
    ASSUME Inv, RestOK, NEW o \in Runs, Produce(o) \/ Raise(o), NEW r \in Runs, r # o,
           Alone(r), Alone(r)'
    PROVE  Untouched(r) /\ wire'[r] = wire[r]
<1>1. run'[r] = run[r]
  BY ProduceGoes
<1>2. wire'[r] = wire[r]
  BY DEF Produce, Raise, StreamChunk, BeginExecution, StreamBySDK, Silent, SendWhole,
     SendFinal, AddChunk, CompleteNotFound, AlreadyCompleted, CompleteQuery, Post, Inv, Typed
<1>3. ASSUME Executing(r)
      PROVE  client'[run[r].host] = client[run[r].host]
             /\ streamed'[run[r].host] = streamed[run[r].host]
  <2>0. /\ run[r].host \in Adapters /\ client \in [Adapters -> Runs \cup {None}]
        /\ streamed \in [Adapters -> BOOLEAN]
    BY DEF Alone, Awaits, Inv, Typed, Run, RestOK
  <2>1. CASE BeginExecution(o)
    <3>1. run[o].host # run[r].host
      <4>1. SUFFICES ASSUME run[o].host = run[r].host PROVE FALSE
        OBVIOUS
      <4>2. r \in overlapped'
        BY <1>3, <2>1, <4>1 DEF BeginExecution
      <4>. QED  BY <4>2 DEF Alone
    <3>. QED  BY <2>0, <2>1, <3>1 DEF BeginExecution
  <2>2. CASE StreamBySDK(o)
    <3>1. run[o].host # run[r].host
      BY <1>3, <2>2, Beside DEF StreamBySDK, Producing
    <3>. QED  BY <2>0, <2>2, <3>1 DEF StreamBySDK
  <2>3. CASE CompleteNotFound(o) \/ AlreadyCompleted(o) \/ CompleteQuery(o) \/ Raise(o)
    <3>1. Executing(o) /\ Finally(o)
      BY <2>3 DEF CompleteNotFound, AlreadyCompleted, CompleteQuery, Raise, Completing,
         Producing, Over
    <3>2. run[o].host # run[r].host
      BY <1>3, <3>1, Beside
    <3>. QED  BY <2>0, <3>1, <3>2 DEF Finally
  <2>4. CASE \/ \E e \in BOOLEAN : StreamChunk(o, e)
             \/ Silent(o) \/ SendWhole(o) \/ SendFinal(o) \/ AddChunk(o)
    BY <2>4 DEF StreamChunk, Silent, SendWhole, SendFinal, AddChunk, adapter
  <2>. QED  BY <2>1, <2>2, <2>3, <2>4 DEF Produce
<1>. QED  BY <1>1, <1>2, <1>3 DEF Untouched

\* ... and not by the death of another process.
LEMMA CrashLeaves ==
    ASSUME Inv, RestOK, NEW h \in Adapters \cup {Engine}, Crash(h), NEW r \in Runs, Alone(r),
           run'[r].pc # "over"
    PROVE  Untouched(r) /\ wire'[r] = wire[r]
<1>1. ~(run[r].host = h /\ Executing(r)) /\ run'[r] = run[r] /\ wire'[r] = wire[r]
  BY CrashGoes
<1>2. run[r].host \in Adapters
  BY DEF Alone, Awaits, Inv, Typed, Run
<1>3. /\ client' = [g \in Adapters |-> IF g = h THEN None ELSE client[g]]
      /\ streamed' = [g \in Adapters |-> g # h /\ streamed[g]]
  BY DEF Crash
<1>4. Executing(r) => client'[run[r].host] = client[run[r].host]
                      /\ streamed'[run[r].host] = streamed[run[r].host]
  BY <1>1, <1>2, <1>3 DEF RestOK
<1>. QED  BY <1>1, <1>4 DEF Untouched

\* What the broker and its clients do touches no execution.
LEMMA ServedLeave ==
    ASSUME \/ \E d \in Readers : Client(d)
           \/ Purge \/ (\E saved \in BOOLEAN : Restart(saved)) \/ UNCHANGED vars,
           NEW r \in Runs
    PROVE  Untouched(r)
<1>1. UNCHANGED run /\ UNCHANGED client /\ UNCHANGED streamed
  BY Zenon DEF Client, handleQueryStream, onQueryTimeout, onStreamClose, Purge, Restart, vars,
               adapter
<1>. QED  BY <1>1 DEF Untouched

LEMMA SentByType ==
    ASSUME Inv, NEW r \in Runs
    PROVE  SentBy(r) \in SUBSET (0 .. RunLength)
<1>1. run[r].sent \in 0 .. RunLength
  BY DEF Inv, Typed, Run
<1>2. {n \in {0, RunLength} : n <= run[r].sent} \in SUBSET (0 .. RunLength)
      /\ 1 .. run[r].sent \in SUBSET (0 .. RunLength)
  BY <1>1, LimitsAssumption
<1>. QED  BY <1>2 DEF SentBy

\* What an execution that runs alone sends next.
LEMMA OwnSteps ==
    ASSUME Inv, RestOK, NEW r \in Runs, Alone(r), Alone(r)', Holds(r),
           BeginExecution(r) \/ StreamBySDK(r) \/ Silent(r) \/ SendWhole(r) \/ SendFinal(r)
    PROVE  /\ Holds(r)' /\ (wire[r] = <<>> \/ run[r].pc = "waiting")
           /\ \/ wire'[r] = wire[r] /\ SentBy(r)' = SentBy(r)
              \/ \E n \in Nat :
                     /\ \A k \in SentBy(r) : k < n
                     /\ SentBy(r)' = SentBy(r) \cup {n}
                     /\ n \in 0 .. RunLength
                     /\ wire'[r] = Append(wire[r],
                            [to |-> run[r].query,
                             chunk |-> [run |-> r, n |-> n, error |-> FALSE]])
<1>1. PICK h : h = run[r].host
  OBVIOUS
<1>2. /\ h \in Adapters /\ client \in [Adapters -> Runs \cup {None}]
      /\ streamed \in [Adapters -> BOOLEAN] /\ run \in [Runs -> Run] /\ run[r] \in Run
      /\ run[r].sent \in 0 .. RunLength /\ run[r].whole \in BOOLEAN
      /\ wire \in [Runs -> Seq(LegitPost)]
  BY <1>1 DEF Alone, Awaits, Inv, Typed, Run, RestOK
<1>3. RunLength \in Nat /\ RunLength # 0
  BY LimitsAssumption
<1>4. CASE BeginExecution(r)
  <2>1. /\ run[r].pc = "waiting" /\ run' = [run EXCEPT ![r].pc = "executing"]
        /\ client' = [client EXCEPT ![h] = r] /\ streamed' = [streamed EXCEPT ![h] = FALSE]
        /\ wire' = wire
    BY <1>1, <1>4 DEF BeginExecution
  <2>2. run'[r] = [run[r] EXCEPT !.pc = "executing"]
    BY <1>2, <2>1
  <2>3. /\ run'[r].pc = "executing" /\ run'[r].host = h /\ run'[r].sent = run[r].sent
        /\ run'[r].whole = run[r].whole
    BY <1>1, <1>2, <2>2 DEF Run
  <2>4. run[r].sent = 0 /\ ~run[r].whole
    BY <2>1 DEF Holds
  <2>5. client'[h] = r /\ streamed'[h] = FALSE
    BY <1>2, <2>1
  <2>6. SentBy(r) = {} /\ SentBy(r)' = {}
    BY <2>1, <2>3, <2>4, <2>5 DEF SentBy
  <2>7. Holds(r)'
    BY <1>3, <2>3, <2>4, <2>5 DEF Holds, Executing
  <2>. QED  BY <2>1, <2>6, <2>7
<1>5. ASSUME Producing(r)
      PROVE  /\ Executing(r) /\ wire[r] = <<>> /\ client[h] = r
             /\ run[r].pc = "executing"
             /\ streamed[h] => ~run[r].whole /\ run[r].sent > 0
             /\ ~streamed[h] => run[r].sent \in {0, RunLength - 1, RunLength}
             /\ run[r].whole => run[r].sent >= RunLength - 1
             /\ run[r].sent = RunLength => run[r].whole \/ streamed[h]
             /\ SentBy(r) = IF run[r].whole THEN {n \in {0, RunLength} : n <= run[r].sent}
                            ELSE IF streamed[h] THEN 1 .. run[r].sent ELSE {}
  BY <1>1, <1>5 DEF Producing, Holds, Executing, SentBy
<1>6. ASSUME NEW n, Post(r, run[r].query, n, FALSE)
      PROVE  wire'[r] = Append(wire[r], [to |-> run[r].query,
                                         chunk |-> [run |-> r, n |-> n, error |-> FALSE]])
  BY <1>2, <1>6 DEF Post
<1>7. CASE StreamBySDK(r)
  <2>1. Producing(r) /\ run[r].sent < RunLength - 1
    BY <1>7 DEF StreamBySDK
  <2>2. client[h] # None
    BY <1>5, <2>1, OthersAssumption
  <2>3. /\ run' = [run EXCEPT ![r].sent = @ + 1] /\ streamed' = [streamed EXCEPT ![h] = TRUE]
        /\ Post(r, run[r].query, run[r].sent + 1, FALSE) /\ client' = client
    BY <1>1, <1>5, <1>7, <2>1, <2>2 DEF StreamBySDK
  <2>4. run'[r] = [run[r] EXCEPT !.sent = run[r].sent + 1]
    BY <1>2, <2>3
  <2>5. /\ run'[r].pc = "executing" /\ run'[r].host = h /\ run'[r].sent = run[r].sent + 1
        /\ run'[r].whole = run[r].whole
    BY <1>1, <1>2, <1>5, <2>1, <2>4 DEF Run
  <2>6. streamed'[h] = TRUE /\ client'[h] = r
    BY <1>2, <1>5, <2>1, <2>3
  <2>7. ~run[r].whole
    BY <1>2, <1>3, <1>5, <2>1
  <2>8. SentBy(r) = 1 .. run[r].sent
    <3>1. CASE streamed[h]
      BY <1>5, <2>1, <2>7, <3>1
    <3>2. CASE ~streamed[h]
      <4>1. run[r].sent = 0 /\ SentBy(r) = {}
        BY <1>2, <1>3, <1>5, <2>1, <2>7, <3>2
      <4>. QED  BY <4>1
    <3>. QED  BY <3>1, <3>2
  <2>9. SentBy(r)' = 1 .. run[r].sent + 1
    BY <2>5, <2>6, <2>7 DEF SentBy
  <2>10. Holds(r)'
    BY <1>2, <1>3, <2>1, <2>5, <2>6, <2>7 DEF Holds, Executing
  <2>11. /\ run[r].sent + 1 \in Nat /\ run[r].sent + 1 \in 0 .. RunLength
         /\ \A k \in SentBy(r) : k < run[r].sent + 1
         /\ SentBy(r)' = SentBy(r) \cup {run[r].sent + 1}
    BY <1>2, <1>3, <2>1, <2>8, <2>9
  <2>. QED  BY <1>5, <1>6, <2>1, <2>3, <2>10, <2>11
<1>8. CASE Silent(r)
  <2>1. /\ Producing(r) /\ run[r].sent = 0 /\ RunLength > 1
        /\ run' = [run EXCEPT ![r].sent = RunLength - 1]
        /\ wire' = wire /\ client' = client /\ streamed' = streamed
    BY <1>8 DEF Silent, adapter
  <2>2. run'[r] = [run[r] EXCEPT !.sent = RunLength - 1]
    BY <1>2, <2>1
  <2>3. /\ run'[r].pc = "executing" /\ run'[r].host = h /\ run'[r].sent = RunLength - 1
        /\ run'[r].whole = run[r].whole
    BY <1>1, <1>2, <1>5, <2>1, <2>2 DEF Run
  <2>4. ~streamed[h] /\ ~run[r].whole
    BY <1>2, <1>3, <1>5, <2>1
  <2>5. SentBy(r) = {} /\ SentBy(r)' = {}
    BY <1>5, <2>1, <2>3, <2>4 DEF SentBy
  <2>6. Holds(r)'
    BY <1>3, <1>5, <2>1, <2>3, <2>4 DEF Holds, Executing
  <2>. QED  BY <1>5, <2>1, <2>5, <2>6
<1>9. CASE SendWhole(r)
  <2>1. /\ Producing(r) /\ run[r].sent = RunLength - 1 /\ ~run[r].whole /\ ~streamed[h]
        /\ run' = [run EXCEPT ![r].whole = TRUE]
        /\ client' = client /\ streamed' = streamed
        /\ Post(r, run[r].query, 0, FALSE)
    BY <1>1, <1>9 DEF SendWhole, OwnTarget, adapter
  <2>2. run'[r] = [run[r] EXCEPT !.whole = TRUE]
    BY <1>2, <2>1
  <2>3. /\ run'[r].pc = "executing" /\ run'[r].host = h /\ run'[r].sent = run[r].sent
        /\ run'[r].whole
    BY <1>1, <1>2, <1>5, <2>1, <2>2 DEF Run
  <2>4. SentBy(r) = {}
    BY <1>5, <2>1
  <2>5. SentBy(r)' = {0}
    <3>1. SentBy(r)' = {n \in {0, RunLength} : n <= RunLength - 1}
      BY <2>1, <2>3 DEF SentBy
    <3>. QED  BY <1>3, <3>1
  <2>6. Holds(r)'
    BY <1>2, <1>3, <1>5, <2>1, <2>3 DEF Holds, Executing
  <2>7. 0 \in 0 .. RunLength
    BY <1>3
  <2>. QED  BY <1>5, <1>6, <2>1, <2>4, <2>5, <2>6, <2>7
<1>10. CASE SendFinal(r)
  <2>1. /\ Producing(r) /\ run[r].sent = RunLength - 1 /\ (run[r].whole \/ streamed[h])
        /\ run' = [run EXCEPT ![r].sent = RunLength]
        /\ client' = client /\ streamed' = streamed
        /\ Post(r, run[r].query, RunLength, FALSE)
    BY <1>1, <1>10 DEF SendFinal, OwnTarget, adapter
  <2>2. run'[r] = [run[r] EXCEPT !.sent = RunLength]
    BY <1>2, <2>1
  <2>3. /\ run'[r].pc = "executing" /\ run'[r].host = h /\ run'[r].sent = RunLength
        /\ run'[r].whole = run[r].whole
    BY <1>1, <1>2, <1>5, <2>1, <2>2 DEF Run
  <2>4. (\A k \in SentBy(r) : k < RunLength) /\ SentBy(r)' = SentBy(r) \cup {RunLength}
    <3>1. CASE run[r].whole
      <4>1. SentBy(r) = {n \in {0, RunLength} : n <= RunLength - 1}
        BY <1>5, <2>1, <3>1
      <4>2. SentBy(r)' = {n \in {0, RunLength} : n <= RunLength}
        BY <2>3, <3>1 DEF SentBy
      <4>. QED  BY <1>3, <4>1, <4>2
    <3>2. CASE ~run[r].whole
      <4>1. SentBy(r) = 1 .. RunLength - 1
        BY <1>5, <2>1, <3>2
      <4>2. SentBy(r)' = 1 .. RunLength
        BY <2>1, <2>3, <3>2 DEF SentBy
      <4>. QED  BY <1>3, <4>1, <4>2
    <3>. QED  BY <3>1, <3>2
  <2>5. Holds(r)'
    BY <1>2, <1>3, <1>5, <2>1, <2>3 DEF Holds, Executing
  <2>6. RunLength \in 0 .. RunLength
    BY <1>3
  <2>. QED  BY <1>3, <1>5, <1>6, <2>1, <2>4, <2>5, <2>6
<1>. QED  BY <1>4, <1>7, <1>8, <1>9, <1>10

\* When all of it is sent it is an answer.
LEMMA AllSent ==
    ASSUME Inv, RestOK, NEW r \in Runs, Holds(r), Completing(r), NEW I, Has(I, r, SentBy(r))
    PROVE  Answered(I, r)
<1>1. run[r].pc = "executing" /\ run[r].sent = RunLength /\ Executing(r)
  BY DEF Completing, Executing
<1>2. run[r].whole \/ streamed[run[r].host]
  BY <1>1 DEF Holds
<1>3. SentBy(r) = {0, RunLength} \/ SentBy(r) = 1 .. RunLength
  <2>1. {n \in {0, RunLength} : n <= RunLength} = {0, RunLength}
    BY LimitsAssumption
  <2>. QED  BY <1>1, <1>2, <2>1 DEF SentBy
<1>. QED  BY <1>3 DEF Answered

-------------------------------------------------------------------------------
(* What is stored of a query that is clean.                                *)

LEMMA StoredType ==
    ASSUME Inv, NEW q
    PROVE  Stored(q) \in SUBSET Item
<1>1. items \in Seq(Item)
  BY ItemsType
<1>. QED  BY <1>1 DEF Stored, PlacesOf

\* An append puts one item behind what is stored.
LEMMA StoredPushed ==
    ASSUME Inv, Inv', Seam, NEW q, NEW c, append(q, c), disturbed' = disturbed \cup Trimmed(q)
    PROVE  \E x \in Item :
               /\ x.chunk = c
               /\ \A p : p \notin disturbed' =>
                      /\ Stored(p)' = IF p = q THEN Stored(p) \cup {x} ELSE Stored(p)
                      /\ \A it \in Stored(p) : it.sequenceNumber < x.sequenceNumber
<1>1. PICK m : Pushes(m, q, c)
  BY PushedItems
<1>2. PICK n, e, x : n = Len(items) /\ e = n + 1 - m /\ x = items'[e]
  OBVIOUS
<1>3. /\ n \in Nat /\ m \in 0 .. n /\ e \in Nat /\ e = n - m + 1
      /\ DOMAIN items = 1 .. n /\ DOMAIN items' = 1 .. e /\ items' \in Seq(Item)
  <2>1. items \in Seq(Item)
    BY ItemsType
  <2>. QED  BY <1>1, <1>2, <2>1 DEF Pushes
<1>4. /\ \A i \in 1 .. n - m : items'[i] = items[m + i]
      /\ x.queryId = q /\ x.chunk = c
  BY <1>1, <1>2 DEF Pushes
<1>5. x \in Item /\ e \in 1 .. e
  BY <1>2, <1>3
<1>6. \A i, j \in 1 .. e : i < j => items'[i].sequenceNumber < items'[j].sequenceNumber
  BY <1>3 DEF Inv, SequencesRise, Rising
<1>7. \A i \in 1 .. m : items[i].queryId \in Trimmed(q)
  BY <1>1, TrimmedNoted
<1>8. \A i \in 1 .. e : i = e \/ (i \in 1 .. n - m /\ i < e /\ m + i \in 1 .. n)
  BY <1>3
<1>9. ASSUME NEW p, p \notin disturbed'
      PROVE  /\ Stored(p)' = IF p = q THEN Stored(p) \cup {x} ELSE Stored(p)
             /\ \A it \in Stored(p) : it.sequenceNumber < x.sequenceNumber
  <2>1. ASSUME NEW it \in Stored(p)
        PROVE  it \in Stored(p)' /\ it.sequenceNumber < x.sequenceNumber
    <3>1. PICK k \in 1 .. n : items[k] = it /\ it.queryId = p
      BY <1>3 DEF Stored, PlacesOf
    <3>2. k \notin 1 .. m
      BY <1>7, <1>9, <3>1
    <3>3. k - m \in 1 .. n - m /\ m + (k - m) = k /\ k - m \in 1 .. e /\ k - m < e
      BY <1>3, <3>1, <3>2
    <3>4. items'[k - m] = it
      BY <1>4, <3>1, <3>3
    <3>5. it.sequenceNumber < x.sequenceNumber
      BY <1>2, <1>5, <1>6, <3>3, <3>4
    <3>6. k - m \in PlacesOf(items', p)
      BY <1>3, <3>1, <3>3, <3>4 DEF PlacesOf
    <3>. QED  BY <3>4, <3>5, <3>6 DEF Stored
  <2>2. ASSUME NEW it \in Stored(p)' PROVE it \in Stored(p) \/ (p = q /\ it = x)
    <3>1. PICK i \in 1 .. e : items'[i] = it /\ it.queryId = p
      BY <1>3 DEF Stored, PlacesOf
    <3>2. CASE i = e
      BY <1>2, <1>4, <3>1, <3>2
    <3>3. CASE i # e
      <4>1. m + i \in 1 .. n /\ items[m + i] = it
        BY <1>4, <1>8, <3>1, <3>3
      <4>2. m + i \in PlacesOf(items, p)
        BY <1>3, <3>1, <4>1 DEF PlacesOf
      <4>. QED  BY <4>1, <4>2 DEF Stored
    <3>. QED  BY <3>2, <3>3
  <2>3. p = q => x \in Stored(p)'
    <3>1. p = q => e \in PlacesOf(items', p)
      BY <1>2, <1>3, <1>4, <1>5 DEF PlacesOf
    <3>. QED  BY <1>2, <3>1 DEF Stored
  <2>. QED  BY <2>1, <2>2, <2>3
<1>. QED  BY <1>4, <1>5, <1>9

\* What a list has of a query, as a set.
LEMMA ByQuerySet ==
    ASSUME NEW s \in Seq(Item), NEW q
    PROVE  {s[i] : i \in PlacesOf(s, q)} = {ByQuery(s, q)[j] : j \in DOMAIN ByQuery(s, q)}
<1>1. PICK P, c, g : P = PlacesOf(s, q) /\ c = Cardinality(P) /\ g = InOrder(P)
  OBVIOUS
<1>2. P \in SUBSET (1 .. Len(s)) /\ Len(s) \in Nat
  BY <1>1 DEF PlacesOf
<1>3. g \in [1 .. c -> P] /\ \A p \in P : \E i \in 1 .. c : g[i] = p
  BY <1>1, <1>2, InOrderProperties
<1>4. ByQuery(s, q) = [j \in 1 .. c |-> s[g[j]]]
  BY <1>1 DEF ByQuery, Kept
<1>5. {s[i] : i \in P} = {s[g[j]] : j \in 1 .. c}
  BY <1>3
<1>6. PICK B : B = ByQuery(s, q)
  OBVIOUS
<1>7. DOMAIN B = 1 .. c /\ \A j \in 1 .. c : B[j] = s[g[j]]
  BY <1>4, <1>6
<1>8. {s[g[j]] : j \in 1 .. c} = {B[j] : j \in DOMAIN B}
  BY <1>7
<1>. QED  BY <1>1, <1>5, <1>6, <1>8

\* Nothing is taken from a query that is not noted.
LEMMA StoredKept ==
    ASSUME Inv, NEW q \in Queries, q \notin disturbed',
           UNCHANGED items \/ Purge \/ \E saved \in BOOLEAN : Restart(saved)
    PROVE  Stored(q)' = Stored(q)
<1>1. CASE UNCHANGED items
  BY <1>1 DEF Stored
<1>2. CASE Purge
  <2>1. items' = <<>> /\ ~hasQuery(q)
    BY <1>2 DEF Purge
  <2>2. PlacesOf(items', q) = {} /\ PlacesOf(items, q) = {}
    BY <2>1 DEF hasQuery, PlacesOf
  <2>. QED  BY <2>2 DEF Stored
<1>3. ASSUME NEW saved \in BOOLEAN, Restart(saved) PROVE Stored(q)' = Stored(q)
  <2>1. /\ items' = IF saved THEN items ELSE disk.items
        /\ ByQuery(items, q) = ByQuery(items', q)
    BY <1>3 DEF Restart
  <2>2. PICK s : s = items'
    OBVIOUS
  <2>3. items \in Seq(Item) /\ s \in Seq(Item)
    BY <2>1, <2>2, ItemsType
  <2>4. {items[i] : i \in PlacesOf(items, q)} = {s[i] : i \in PlacesOf(s, q)}
    <3>1. {items[i] : i \in PlacesOf(items, q)}
              = {ByQuery(items, q)[j] : j \in DOMAIN ByQuery(items, q)}
      BY <2>3, ByQuerySet
    <3>2. {s[i] : i \in PlacesOf(s, q)} = {ByQuery(s, q)[j] : j \in DOMAIN ByQuery(s, q)}
      BY <2>3, ByQuerySet
    <3>. QED  BY <2>1, <2>2, <3>1, <3>2
  <2>. QED  BY <2>2, <2>4 DEF Stored
<1>. QED  BY <1>1, <1>2, <1>3

LEMMA WireStep ==
    ASSUME Inv, WireOK, [Next]_vars
    PROVE  WireOK'
<1>1. wire \in [Runs -> Seq(LegitPost)]
  BY DEF Inv, Typed
<1>2. ASSUME NEW r \in Runs, NEW o \in Runs, NEW q, NEW n, NEW e, Post(o, q, n, e)
      PROVE  \A i \in DOMAIN wire'[r] : wire'[r][i].chunk.run = r
  <2>1. PICK p : p = [to |-> q, chunk |-> [run |-> o, n |-> n, error |-> e]]
    OBVIOUS
  <2>2. wire' = [wire EXCEPT ![o] = Append(@, p)]
    BY <1>2, <2>1 DEF Post
  <2>3. CASE r = o
    <3>1. wire'[r] = Append(wire[r], p) /\ p.chunk.run = r
      BY <1>1, <2>1, <2>2, <2>3
    <3>2. PICK w : w = wire[r]
      OBVIOUS
    <3>3. Len(w) \in Nat /\ DOMAIN w = 1 .. Len(w)
      BY <1>1, <3>2
    <3>4. ASSUME NEW i \in DOMAIN Append(w, p)
          PROVE  (i \in DOMAIN w /\ Append(w, p)[i] = w[i]) \/ Append(w, p)[i] = p
      BY <3>3
    <3>. QED  BY <3>1, <3>2, <3>4 DEF WireOK
  <2>4. CASE r # o
    BY <1>1, <2>2, <2>4 DEF WireOK
  <2>. QED  BY <2>3, <2>4
<1>3. ASSUME NEW r \in Runs, NEW o \in Runs, AddChunk(o)
      PROVE  \A i \in DOMAIN wire'[r] : wire'[r][i].chunk.run = r
  <2>1. wire' = [wire EXCEPT ![o] = Tail(@)] /\ wire[o] # <<>>
    BY <1>3 DEF AddChunk
  <2>2. CASE r = o
    <3>1. PICK w : w = wire[r]
      OBVIOUS
    <3>2. w \in Seq(LegitPost) /\ w # <<>> /\ wire'[r] = Tail(w)
      BY <1>1, <2>1, <2>2, <3>1
    <3>3. \A i \in DOMAIN Tail(w) : i + 1 \in DOMAIN w /\ Tail(w)[i] = w[i + 1]
      BY <3>2
    <3>. QED  BY <3>1, <3>2, <3>3 DEF WireOK
  <2>3. CASE r # o
    BY <1>1, <2>1, <2>3 DEF WireOK
  <2>. QED  BY <2>2, <2>3
<1>4. ASSUME NEW r \in Runs, wire'[r] = wire[r] \/ wire'[r] = <<>>
      PROVE  \A i \in DOMAIN wire'[r] : wire'[r][i].chunk.run = r
  BY <1>4 DEF WireOK
<1>5. ASSUME NEW o \in Runs, Produce(o) \/ Raise(o)
      PROVE  WireOK'
  <2>1. \/ \E q, n, e : Post(o, q, n, e)
        \/ AddChunk(o)
        \/ UNCHANGED wire
    BY <1>5 DEF Produce, Raise, StreamChunk, BeginExecution, StreamBySDK, Silent, SendWhole,
       SendFinal, CompleteNotFound, AlreadyCompleted, CompleteQuery
  <2>. QED  BY <1>2, <1>3, <1>4, <2>1 DEF WireOK
<1>6. ASSUME NEW h, Crash(h) PROVE WireOK'
  <2>1. \A r \in Runs : wire'[r] = wire[r] \/ wire'[r] = <<>>
    BY <1>6 DEF Crash
  <2>. QED  BY <1>4, <2>1 DEF WireOK
<1>7. \/ \E d \in Readers : Client(d)
      \/ Purge \/ (\E saved \in BOOLEAN : Restart(saved)) \/ UNCHANGED vars
      => WireOK'
  <2>1. \/ \E d \in Readers : Client(d)
        \/ Purge \/ (\E saved \in BOOLEAN : Restart(saved)) \/ UNCHANGED vars
        => \A r \in Runs : wire'[r] = wire[r] \/ wire'[r] = <<>>
    BY Zenon DEF Client, handleQueryStream, onQueryTimeout, onStreamClose, Purge, Restart, vars
  <2>. QED  BY <1>4, <2>1 DEF WireOK
<1>. QED  BY <1>5, <1>6, <1>7 DEF Next

\* Nothing but the chunk the broker reads becomes an execution's own.
LEMMA OwnStored ==
    ASSUME Inv, Inv', Seam, WireOK, NEW o \in Runs, Produce(o) \/ Raise(o),
           NEW r \in Runs, r # o \/ ~AddChunk(o), NEW q \in Queries, q \notin disturbed'
    PROVE  Own(Stored(q)', r) = Own(Stored(q), r)
<1>1. CASE AddChunk(o)
  <2>1. PICK p, c : p = Head(wire[o]).to /\ c = Head(wire[o]).chunk
    OBVIOUS
  <2>2. append(p, c) /\ disturbed' = disturbed \cup Trimmed(p) /\ wire[o] # <<>>
    BY <1>1, <2>1 DEF AddChunk
  <2>3. c.run = o
    <3>1. wire[o] \in Seq(LegitPost)
      BY DEF Inv, Typed
    <3>2. Head(wire[o]) = wire[o][1] /\ 1 \in DOMAIN wire[o]
      BY <2>2, <3>1
    <3>. QED  BY <2>1, <3>2 DEF WireOK
  <2>4. PICK x \in Item :
            /\ x.chunk = c
            /\ \A a : a \notin disturbed' =>
                   /\ Stored(a)' = IF a = p THEN Stored(a) \cup {x} ELSE Stored(a)
                   /\ \A it \in Stored(a) : it.sequenceNumber < x.sequenceNumber
    BY <2>2, StoredPushed
  <2>. QED  BY <1>1, <2>3, <2>4 DEF Own
<1>2. CASE CompleteQuery(o)
  <2>1. PICK p : p = run[o].query
    OBVIOUS
  <2>2. append(p, Done) /\ disturbed' = disturbed \cup Trimmed(p)
    BY <1>2, <2>1 DEF CompleteQuery
  <2>3. PICK x \in Item :
            /\ x.chunk = Done
            /\ \A a : a \notin disturbed' =>
                   /\ Stored(a)' = IF a = p THEN Stored(a) \cup {x} ELSE Stored(a)
                   /\ \A it \in Stored(a) : it.sequenceNumber < x.sequenceNumber
    BY <2>2, StoredPushed
  <2>. QED  BY <2>3 DEF Own
<1>3. CASE ~AddChunk(o) /\ ~CompleteQuery(o)
  <2>1. UNCHANGED items
    BY <1>3 DEF Produce, Raise, StreamChunk, BeginExecution, StreamBySDK, Silent, SendWhole,
       SendFinal, CompleteNotFound, AlreadyCompleted, store
  <2>2. Stored(q)' = Stored(q)
    BY <2>1, StoredKept
  <2>. QED  BY <2>2
<1>. QED  BY <1>1, <1>2, <1>3

LEMMA TakenKept ==
    ASSUME NEW r \in Runs, Taken(r), NEW q, q = run[r].query, run'[r].query = q,
           wire'[r] = wire[r], SentBy(r)' = SentBy(r),
           Own(Stored(q)', r) = Own(Stored(q), r)
    PROVE  Taken(r)'
<1>1. PICK I, J : I = Stored(q) /\ J = Stored(q)'
  OBVIOUS
<1>2. \A N : Has(I, r, N) => Has(J, r, N)
  BY <1>1, HasSame
<1>3. J = {items'[i] : i \in PlacesOf(items', run'[r].query)}
  BY <1>1 DEF Stored
<1>4. \/ wire[r] = <<>> /\ Has(J, r, SentBy(r))
      \/ \E last \in SentBy(r) :
             /\ wire[r] = <<[to |-> run[r].query,
                             chunk |-> [run |-> r, n |-> last, error |-> FALSE]]>>
             /\ \A n \in SentBy(r) : n <= last
             /\ Has(J, r, SentBy(r) \ {last})
  BY <1>1, <1>2 DEF Taken
<1>. QED  BY <1>3, <1>4 DEF Taken, Stored

\* An execution's own step takes it further.
LEMMA OwnTaken ==
    ASSUME Inv, Inv', Seam, WireOK, NEW r \in Runs, Produce(r) \/ Raise(r),
           NEW q, q = run[r].query, Clean(q), Clean(q)', run[r].pc # "over",
           run'[r].pc # "over", Holds(r), Taken(r)
    PROVE  Holds(r)' /\ Taken(r)'
<1>1. /\ run'[r].query = q /\ q \in Queries /\ Alone(r) /\ Alone(r)' /\ q \notin disturbed'
  BY ProduceGoes, RunType DEF Goes, Clean
<1>2. PICK I, J : I = Stored(q) /\ J = Stored(q)'
  OBVIOUS
<1>9. J = {items'[i] : i \in PlacesOf(items', run'[r].query)}
  BY <1>1, <1>2 DEF Stored
<1>3. RestOK
  BY DEF Seam
<1>4. wire \in [Runs -> Seq(LegitPost)]
  BY DEF Inv, Typed
<1>5. CASE BeginExecution(r) \/ StreamBySDK(r) \/ Silent(r) \/ SendWhole(r) \/ SendFinal(r)
  <2>1. UNCHANGED items
    BY <1>5 DEF BeginExecution, StreamBySDK, Silent, SendWhole, SendFinal, store
  <2>2. J = I
    BY <1>1, <1>2, <2>1, StoredKept
  <2>3. /\ Holds(r)' /\ (wire[r] = <<>> \/ run[r].pc = "waiting")
        /\ \/ wire'[r] = wire[r] /\ SentBy(r)' = SentBy(r)
           \/ \E n \in Nat :
                  /\ \A k \in SentBy(r) : k < n
                  /\ SentBy(r)' = SentBy(r) \cup {n}
                  /\ n \in 0 .. RunLength
                  /\ wire'[r] = Append(wire[r],
                         [to |-> run[r].query,
                          chunk |-> [run |-> r, n |-> n, error |-> FALSE]])
    BY <1>1, <1>3, <1>5, OwnSteps
  <2>4. CASE wire'[r] = wire[r] /\ SentBy(r)' = SentBy(r)
    <3>1. Own(Stored(q)', r) = Own(Stored(q), r)
      BY <1>2, <2>2
    <3>. QED  BY <1>1, <2>3, <2>4, <3>1, TakenKept
  <2>5. ASSUME NEW n \in Nat, \A k \in SentBy(r) : k < n, SentBy(r)' = SentBy(r) \cup {n},
               wire'[r] = Append(wire[r],
                         [to |-> run[r].query,
                          chunk |-> [run |-> r, n |-> n, error |-> FALSE]])
        PROVE  Taken(r)'
    <3>1. run[r].pc = "waiting" => SentBy(r) = {}
      BY DEF SentBy
    <3>2. wire[r] = <<>>
      BY <2>3, <3>1 DEF Taken
    <3>3. PICK p : p = [to |-> q, chunk |-> [run |-> r, n |-> n, error |-> FALSE]]
      OBVIOUS
    <3>4. wire'[r] = <<p>>
      BY <1>2, <2>5, <3>2, <3>3
    <3>5. Has(I, r, SentBy(r))
      BY <1>2, <3>2 DEF Taken
    <3>6. SentBy(r) \in SUBSET (0 .. RunLength)
      BY SentByType
    <3>7. n \notin SentBy(r) /\ SentBy(r)' \ {n} = SentBy(r) /\ \A k \in SentBy(r)' : k <= n
      BY <2>5, <3>6
    <3>8. Has(J, r, SentBy(r)' \ {n})
      BY <2>2, <3>5, <3>7
    <3>9. n \in SentBy(r)'
      BY <2>5
    <3>. QED  BY <1>1, <1>9, <3>3, <3>4, <3>7, <3>8, <3>9 DEF Taken, Stored
  <2>. QED  BY <2>3, <2>4, <2>5
<1>6. CASE AddChunk(r)
  <2>1. /\ wire[r] # <<>> /\ append(Head(wire[r]).to, Head(wire[r]).chunk)
        /\ wire' = [wire EXCEPT ![r] = Tail(@)]
        /\ disturbed' = disturbed \cup Trimmed(Head(wire[r]).to)
        /\ UNCHANGED run /\ UNCHANGED client /\ UNCHANGED streamed
    BY <1>6 DEF AddChunk, adapter
  <2>2. Untouched(r)
    BY <2>1 DEF Untouched
  <2>3. Holds(r)' /\ SentBy(r)' = SentBy(r)
    BY <2>2, UntouchedKept
  <2>4. PICK last \in SentBy(r) :
           /\ wire[r] = <<[to |-> run[r].query,
                           chunk |-> [run |-> r, n |-> last, error |-> FALSE]]>>
           /\ \A n \in SentBy(r) : n <= last
           /\ Has(Stored(run[r].query), r, SentBy(r) \ {last})
    BY <2>1 DEF Taken
  <2>5. PICK c : c = [run |-> r, n |-> last, error |-> FALSE]
    OBVIOUS
  <2>6. Head(wire[r]).to = q /\ Head(wire[r]).chunk = c /\ Tail(wire[r]) = <<>>
    <3>1. PICK p : p = [to |-> q, chunk |-> c]
      OBVIOUS
    <3>2. wire[r] = <<p>>
      BY <1>2, <2>4, <2>5, <3>1
    <3>3. Head(<<p>>) = p /\ Tail(<<p>>) = <<>>
      OBVIOUS
    <3>. QED  BY <3>1, <3>2, <3>3
  <2>7. append(q, c) /\ disturbed' = disturbed \cup Trimmed(q) /\ wire'[r] = <<>>
    BY <1>4, <2>1, <2>6
  <2>8. PICK x \in Item :
            /\ x.chunk = c
            /\ \A a : a \notin disturbed' =>
                   /\ Stored(a)' = IF a = q THEN Stored(a) \cup {x} ELSE Stored(a)
                   /\ \A it \in Stored(a) : it.sequenceNumber < x.sequenceNumber
    BY <2>7, StoredPushed
  <2>9. J = I \cup {x} /\ \A it \in I : it.sequenceNumber < x.sequenceNumber
    BY <1>1, <1>2, <2>8
  <2>10. SentBy(r) \in SUBSET (0 .. RunLength)
    BY SentByType
  <2>11. /\ last \in Nat /\ (\A k \in SentBy(r) \ {last} : k < last)
         /\ (SentBy(r) \ {last}) \cup {last} = SentBy(r)
    BY <2>4, <2>10
  <2>12. x.chunk # Done
    <3>1. last \in 0 .. RunLength /\ FALSE \in BOOLEAN
      BY <2>10
    <3>. QED  BY <2>5, <2>8, <3>1, DoneAssumption
  <2>13. I \in SUBSET Item
    BY <1>2, StoredType
  <2>14. Has(J, r, SentBy(r))
    <3>1. PICK N : N = SentBy(r) \ {last}
      OBVIOUS
    <3>2. Has(I, r, N) /\ N \cup {last} = SentBy(r) /\ \A k \in N : k < last
      BY <1>2, <2>4, <2>11, <3>1
    <3>3. x.chunk = [run |-> r, n |-> last, error |-> FALSE]
      BY <2>5, <2>8
    <3>4. Has(I \cup {x}, r, N \cup {last})
      BY <2>9, <2>11, <2>12, <2>13, <3>2, <3>3, HasNext
    <3>. QED  BY <2>9, <3>2, <3>4
  <2>15. Has(J, r, SentBy(r)')
    BY <2>3, <2>14
  <2>. QED  BY <1>9, <2>3, <2>7, <2>15 DEF Taken, Stored
<1>7. CASE \E e \in BOOLEAN : StreamChunk(r, e)
  BY <1>1, <1>7 DEF StreamChunk, Alone
<1>8. CASE CompleteNotFound(r) \/ AlreadyCompleted(r) \/ CompleteQuery(r) \/ Raise(r)
  <2>1. run[r].pc = "executing" /\ \E c : Over(r, c)
    BY <1>8 DEF CompleteNotFound, AlreadyCompleted, CompleteQuery, Raise, Completing,
       Producing, Executing
  <2>. QED  BY <2>1, OverGoes
<1>. QED  BY <1>5, <1>6, <1>7, <1>8 DEF Produce

LEMMA AloneStep ==
    ASSUME Inv, RestOK, AloneOK, [Next]_vars
    PROVE  AloneOK'
<1>1. SUFFICES ASSUME NEW r \in Runs, Alone(r)' PROVE Holds(r)'
  BY DEF AloneOK
<1>2. Alone(r) /\ Holds(r)
  BY <1>1, WasClean DEF AloneOK
<1>3. ASSUME run'[r].pc = "over" PROVE Holds(r)'
  BY <1>3 DEF Holds, Executing
<1>4. ASSUME Untouched(r) PROVE Holds(r)'
  BY <1>2, <1>4, UntouchedKept
<1>5. ASSUME NEW o \in Runs, Produce(o) \/ Raise(o), o # r PROVE Holds(r)'
  <2>1. Untouched(r)
    BY <1>1, <1>2, <1>5, OthersLeave
  <2>. QED  BY <1>4, <2>1
<1>6. ASSUME Produce(r) \/ Raise(r) PROVE Holds(r)'
  <2>1. CASE BeginExecution(r) \/ StreamBySDK(r) \/ Silent(r) \/ SendWhole(r) \/ SendFinal(r)
    BY <1>1, <1>2, <2>1, OwnSteps
  <2>2. CASE AddChunk(r)
    <3>1. Untouched(r)
      BY <2>2 DEF AddChunk, Untouched, adapter
    <3>. QED  BY <1>4, <3>1
  <2>3. CASE \E e \in BOOLEAN : StreamChunk(r, e)
    BY <1>2, <2>3 DEF StreamChunk, Alone
  <2>4. CASE CompleteNotFound(r) \/ AlreadyCompleted(r) \/ CompleteQuery(r) \/ Raise(r)
    <3>1. run[r].pc = "executing" /\ \E c : Over(r, c)
      BY <2>4 DEF CompleteNotFound, AlreadyCompleted, CompleteQuery, Raise, Completing,
         Producing, Executing
    <3>2. run'[r].pc = "over"
      BY <3>1, OverGoes
    <3>. QED  BY <1>3, <3>2
  <2>. QED  BY <1>6, <2>1, <2>2, <2>3, <2>4 DEF Produce
<1>7. ASSUME NEW h \in Adapters \cup {Engine}, Crash(h) PROVE Holds(r)'
  BY <1>2, <1>3, <1>4, <1>7, CrashLeaves
<1>8. ASSUME \/ \E d \in Readers : Client(d)
             \/ Purge \/ (\E saved \in BOOLEAN : Restart(saved)) \/ UNCHANGED vars
      PROVE  Holds(r)'
  BY <1>4, <1>8, ServedLeave
<1>. QED  BY <1>5, <1>6, <1>7, <1>8 DEF Next

LEMMA TakenStep ==
    ASSUME Inv, Inv', Seam, WireOK, AloneOK, TakenOK, [Next]_vars
    PROVE  TakenOK'
<1>1. SUFFICES ASSUME NEW r \in Runs, Clean(run[r].query)', run'[r].pc # "over"
               PROVE  Taken(r)'
  BY DEF TakenOK
<1>2. PICK q : q = run[r].query
  OBVIOUS
<1>3. q \in Queries /\ run'[r].query = q /\ run[r].pc # "over" /\ RestOK
  BY <1>1, <1>2, RunType, AllGo DEF Goes, Seam
<1>4. Clean(q)'
  BY <1>1, <1>3 DEF Clean
<1>5. Clean(q) /\ Alone(r)' /\ Alone(r) /\ q \notin disturbed'
  <2>1. Clean(q) /\ (Alone(r)' => Alone(r))
    BY <1>3, <1>4, WasClean
  <2>. QED  BY <1>3, <1>4, <2>1 DEF Clean
<1>6. Holds(r) /\ Taken(r)
  BY <1>2, <1>3, <1>5 DEF AloneOK, TakenOK
<1>7. ASSUME NEW o \in Runs, Produce(o) \/ Raise(o), o # r PROVE Taken(r)'
  <2>1. Untouched(r) /\ wire'[r] = wire[r]
    BY <1>3, <1>5, <1>7, OthersLeave
  <2>2. SentBy(r)' = SentBy(r)
    BY <1>3, <1>6, <2>1, UntouchedKept
  <2>3. Own(Stored(q)', r) = Own(Stored(q), r)
    BY <1>3, <1>5, <1>7, OwnStored
  <2>. QED  BY <1>2, <1>3, <1>6, <2>1, <2>2, <2>3, TakenKept
<1>8. ASSUME Produce(r) \/ Raise(r) PROVE Taken(r)'
  BY <1>1, <1>2, <1>3, <1>4, <1>5, <1>6, <1>8, OwnTaken
<1>9. ASSUME Untouched(r), wire'[r] = wire[r],
             UNCHANGED items \/ Purge \/ \E saved \in BOOLEAN : Restart(saved)
      PROVE  Taken(r)'
  <2>1. SentBy(r)' = SentBy(r)
    BY <1>3, <1>6, <1>9, UntouchedKept
  <2>2. Stored(q)' = Stored(q)
    BY <1>3, <1>5, <1>9, StoredKept
  <2>3. Own(Stored(q)', r) = Own(Stored(q), r)
    BY <2>2
  <2>. QED  BY <1>2, <1>3, <1>6, <1>9, <2>1, <2>3, TakenKept
<1>10. ASSUME NEW h \in Adapters \cup {Engine}, Crash(h) PROVE Taken(r)'
  <2>1. Untouched(r) /\ wire'[r] = wire[r]
    BY <1>1, <1>3, <1>5, <1>10, CrashLeaves
  <2>2. UNCHANGED items
    BY <1>10 DEF Crash, store
  <2>. QED  BY <1>9, <2>1, <2>2
<1>11. ASSUME (\E d \in Readers : Client(d)) \/ Purge \/ UNCHANGED vars PROVE Taken(r)'
  <2>1. Untouched(r)
    BY <1>11, ServedLeave
  <2>2. wire' = wire /\ (UNCHANGED items \/ Purge)
    BY <1>11, Zenon DEF Client, handleQueryStream, onQueryTimeout, onStreamClose, Purge, vars, store
  <2>. QED  BY <1>9, <2>1, <2>2
<1>12. ASSUME NEW saved \in BOOLEAN, Restart(saved) PROVE Taken(r)'
  <2>1. Untouched(r)
    BY <1>12, ServedLeave
  <2>2. wire[r] = <<>>
    <3>1. SUFFICES ASSUME wire[r] # <<>> PROVE FALSE
      OBVIOUS
    <3>2. PICK p : p = [to |-> q, chunk |-> Head(wire[r]).chunk]
      OBVIOUS
    <3>3. Head(wire[r]).to = q
      <4>1. PICK last \in SentBy(r) :
               wire[r] = <<[to |-> run[r].query,
                            chunk |-> [run |-> r, n |-> last, error |-> FALSE]]>>
        BY <1>6, <3>1 DEF Taken
      <4>. QED  BY <1>2, <4>1
    <3>4. q \in disturbed'
      BY <1>3, <1>12, <3>1, <3>3 DEF Restart
    <3>. QED  BY <1>5, <3>4
  <2>3. wire'[r] = wire[r]
    BY <1>12, <2>2 DEF Restart
  <2>. QED  BY <1>9, <1>12, <2>1, <2>3
<1>. QED  BY <1>7, <1>8, <1>10, <1>11, <1>12 DEF Next

LEMMA MarkedStep ==
    ASSUME Inv, Inv', Seam, WireOK, AloneOK, TakenOK, CompletedOK, MarkedOK, [Next]_vars
    PROVE  MarkedOK'
<1>1. SUFFICES ASSUME NEW q \in Queries, Clean(q)', NEW m \in Stored(q)', m.chunk = Done
               PROVE  \E r \in Runs :
                   /\ run'[r].query = q /\ run'[r].completed
                   /\ Answered({it \in Stored(q)' : it.sequenceNumber < m.sequenceNumber}, r)
  BY DEF MarkedOK
<1>2. RestOK
  BY DEF Seam
<1>3. Clean(q) /\ q \notin disturbed'
  BY <1>1, <1>2, WasClean DEF Clean
<1>4. \A r \in Runs : /\ run'[r].query = run[r].query
                      /\ run[r].completed => run'[r].completed
  BY AllGo, CompletedStep DEF Goes
<1>5. ASSUME m \in Stored(q),
             {it \in Stored(q)' : it.sequenceNumber < m.sequenceNumber}
                 = {it \in Stored(q) : it.sequenceNumber < m.sequenceNumber}
      PROVE  \E r \in Runs :
                 /\ run'[r].query = q /\ run'[r].completed
                 /\ Answered({it \in Stored(q)' : it.sequenceNumber < m.sequenceNumber}, r)
  <2>1. PICK r \in Runs :
            /\ run[r].query = q /\ run[r].completed
            /\ Answered({it \in Stored(q) : it.sequenceNumber < m.sequenceNumber}, r)
    BY <1>1, <1>3, <1>5 DEF MarkedOK
  <2>. QED  BY <1>4, <1>5, <2>1
<1>6. CASE UNCHANGED items \/ Purge \/ \E saved \in BOOLEAN : Restart(saved)
  <2>1. Stored(q)' = Stored(q)
    BY <1>3, <1>6, StoredKept
  <2>. QED  BY <1>1, <1>5, <2>1
<1>7. ASSUME NEW p, NEW c, NEW x \in Item, x.chunk = c,
             \A a : a \notin disturbed' =>
                 /\ Stored(a)' = IF a = p THEN Stored(a) \cup {x} ELSE Stored(a)
                 /\ \A it \in Stored(a) : it.sequenceNumber < x.sequenceNumber,
             m \in Stored(q)
      PROVE  {it \in Stored(q)' : it.sequenceNumber < m.sequenceNumber}
                 = {it \in Stored(q) : it.sequenceNumber < m.sequenceNumber}
  <2>1. Stored(q)' = Stored(q) \/ Stored(q)' = Stored(q) \cup {x}
    BY <1>3, <1>7
  <2>2. m.sequenceNumber < x.sequenceNumber
    BY <1>3, <1>7
  <2>3. m \in Item /\ m.sequenceNumber \in Nat /\ x.sequenceNumber \in Nat
    BY <1>7, StoredType DEF Item
  <2>4. ~(x.sequenceNumber < m.sequenceNumber)
    BY <2>2, <2>3
  <2>. QED  BY <2>1, <2>4
<1>8. ASSUME NEW o \in Runs, AddChunk(o)
      PROVE  \E r \in Runs :
                 /\ run'[r].query = q /\ run'[r].completed
                 /\ Answered({it \in Stored(q)' : it.sequenceNumber < m.sequenceNumber}, r)
  <2>1. PICK p, c : p = Head(wire[o]).to /\ c = Head(wire[o]).chunk
    OBVIOUS
  <2>2. append(p, c) /\ disturbed' = disturbed \cup Trimmed(p) /\ wire[o] # <<>>
    BY <1>8, <2>1 DEF AddChunk
  <2>3. c # Done
    <3>1. c \in Chunk
      BY <2>1, <2>2, NextPost
    <3>. QED  BY <3>1, DoneAssumption DEF Chunk
  <2>4. PICK x \in Item :
            /\ x.chunk = c
            /\ \A a : a \notin disturbed' =>
                   /\ Stored(a)' = IF a = p THEN Stored(a) \cup {x} ELSE Stored(a)
                   /\ \A it \in Stored(a) : it.sequenceNumber < x.sequenceNumber
    BY <2>2, StoredPushed
  <2>5. m \in Stored(q)
    BY <1>1, <1>3, <2>3, <2>4
  <2>. QED  BY <1>5, <1>7, <2>4, <2>5
<1>9. ASSUME NEW o \in Runs, CompleteQuery(o)
      PROVE  \E r \in Runs :
                 /\ run'[r].query = q /\ run'[r].completed
                 /\ Answered({it \in Stored(q)' : it.sequenceNumber < m.sequenceNumber}, r)
  <2>1. PICK p : p = run[o].query
    OBVIOUS
  <2>2. append(p, Done) /\ disturbed' = disturbed \cup Trimmed(p) /\ Completing(o) /\ Over(o, TRUE)
    BY <1>9, <2>1 DEF CompleteQuery
  <2>3. PICK x \in Item :
            /\ x.chunk = Done
            /\ \A a : a \notin disturbed' =>
                   /\ Stored(a)' = IF a = p THEN Stored(a) \cup {x} ELSE Stored(a)
                   /\ \A it \in Stored(a) : it.sequenceNumber < x.sequenceNumber
    BY <2>2, StoredPushed
  <2>4. CASE m \in Stored(q)
    BY <1>5, <1>7, <2>3, <2>4
  <2>5. CASE m \notin Stored(q)
    <3>1. p = q /\ m = x /\ Stored(q)' = Stored(q) \cup {x}
      BY <1>1, <1>3, <2>3, <2>5
    <3>2. {it \in Stored(q)' : it.sequenceNumber < m.sequenceNumber} = Stored(q)
      <4>1. ~(x.sequenceNumber < x.sequenceNumber)
        <5>1. x.sequenceNumber \in Nat
          BY DEF Item
        <5>. QED  BY <5>1
      <4>. QED  BY <1>3, <2>3, <3>1, <4>1
    <3>3. Alone(o) /\ Holds(o) /\ run[o].query = q
      BY <1>3, <2>1, <3>1 DEF Clean, AloneOK
    <3>4. run[o].pc = "executing" /\ wire[o] = <<>>
      BY <2>2, <3>3 DEF Completing, Executing, Alone
    <3>5. Has(Stored(q), o, SentBy(o))
      <4>1. Clean(run[o].query) /\ run[o].pc # "over"
        BY <1>3, <3>3, <3>4
      <4>2. Taken(o)
        BY <4>1 DEF TakenOK
      <4>3. \A y : wire[o] # <<y>>
        BY <3>4
      <4>. QED  BY <3>3, <4>2, <4>3 DEF Taken
    <3>6. Answered(Stored(q), o)
      BY <1>2, <2>2, <3>3, <3>5, AllSent
    <3>7. run'[o].query = q /\ run'[o].completed
      <4>1. run' = [run EXCEPT ![o].pc = "over", ![o].completed = TRUE] /\ run \in [Runs -> Run]
        BY <2>2 DEF Over, Inv, Typed
      <4>2. run'[o] = [run[o] EXCEPT !.pc = "over", !.completed = TRUE] /\ run[o] \in Run
        BY <4>1
      <4>3. run'[o].completed
        BY <4>2 DEF Run
      <4>. QED  BY <1>4, <3>3, <4>3
    <3>. QED  BY <3>2, <3>6, <3>7
  <2>. QED  BY <2>4, <2>5
<1>10. \/ UNCHANGED items \/ Purge \/ (\E saved \in BOOLEAN : Restart(saved))
       \/ \E o \in Runs : AddChunk(o) \/ CompleteQuery(o)
  <2>1. ASSUME NEW o \in Runs, Produce(o) \/ Raise(o), ~AddChunk(o), ~CompleteQuery(o)
        PROVE  UNCHANGED items
    BY <2>1 DEF Produce, Raise, StreamChunk, BeginExecution, StreamBySDK, Silent, SendWhole,
       SendFinal, CompleteNotFound, AlreadyCompleted, store
  <2>2. ASSUME \/ \E h : Crash(h)
               \/ (\E d \in Readers : Client(d)) \/ UNCHANGED vars
        PROVE  UNCHANGED items
    BY <2>2, Zenon DEF Crash, Client, handleQueryStream, onQueryTimeout, onStreamClose, vars, store
  <2>. QED  BY <2>1, <2>2 DEF Next
<1>. QED  BY <1>6, <1>8, <1>9, <1>10

-------------------------------------------------------------------------------
(* What a client was told.                                                 *)

\* A client from the beginning has what is stored.
LEMMA GotStored ==
    ASSUME Inv, Seam, NEW d \in Readers, reader[d].pc = "open", reader[d].beginning,
           reader[d].query \notin disturbed
    PROVE  reader[d].got = ChunksOf(items, reader[d].query)
<1>1. PICK rd, q, got, list, own :
          /\ rd = reader[d] /\ q = rd.query /\ got = rd.got /\ list = log[q]
          /\ own = ChunksOf(items, q)
  OBVIOUS
<1>2. q \in Queries /\ got \in Seq(Chunk) /\ list \in Seq(Chunk) /\ items \in Seq(Item)
  BY <1>1, ItemsType DEF Seam, RestOK, Reader
<1>3. Last(got, list) /\ Len(got) = Len(list)
  BY <1>1 DEF Seam, OpenOK
<1>4. Last(own, list) /\ Len(own) = Len(list)
  <2>1. PICK at : /\ Spans(items, q, list, at)
                  /\ q \notin disturbed => Whole(items, q, list, at)
    BY <1>1, <1>2 DEF Seam, StreamOK
  <2>. QED  BY <1>1, <1>2, <2>1, SpansLast
<1>5. own \in Seq(Chunk)
  BY <1>1, <1>2, ChunksOfType
<1>6. \A i \in 1 .. Len(got) : got[i] = own[i]
  BY <1>3, <1>4 DEF Last
<1>7. got = own
  BY <1>2, <1>3, <1>4, <1>5, <1>6, SeqEqual
<1>. QED  BY <1>1, <1>7

\* What is stored of an answer, and what of it is in front of a marker, is the answer.
LEMMA StoredAnswer ==
    ASSUME Inv, NEW q \in Queries, NEW r \in Runs, Answered(Stored(q), r)
    PROVE  HasAnswer(ChunksOf(items, q), r)
<1>1. PICK P, I : /\ P = {i \in PlacesOf(items, q) : items[i].chunk # Done}
                  /\ I = {items[i] : i \in P}
  OBVIOUS
<1>2. items \in Seq(Item) /\ P \in SUBSET DOMAIN items /\ \A i \in P : items[i].chunk # Done
  BY <1>1, ItemsType DEF PlacesOf
<1>3. Own(I, r) = Own(Stored(q), r)
  BY <1>1 DEF Own, Stored
<1>4. Answered(I, r)
  BY <1>3, HasSame DEF Answered
<1>5. \A i, j \in DOMAIN items : i < j => items[i].sequenceNumber < items[j].sequenceNumber
  BY DEF Inv, SequencesRise, Rising
<1>6. HasAnswer(ChunksAt(items, P), r)
  BY <1>1, <1>2, <1>4, <1>5, AnswerOf
<1>. QED  BY <1>1, <1>6 DEF ChunksOf

LEMMA ReplayedAnswer ==
    ASSUME Inv, NEW q \in Queries, isComplete(q), MarkedOK, Clean(q)
    PROVE  \E r \in Runs : /\ run[r].query = q /\ run[r].completed
                           /\ HasAnswer(Replayed(q), r)
<1>1. PICK own, marks, P :
          /\ own = PlacesOf(items, q) /\ marks = {i \in own : items[i].chunk = Done}
          /\ P = {i \in own : \A m \in own : items[m].chunk = Done => i < m}
  OBVIOUS
<1>2. items \in Seq(Item) /\ own \in SUBSET (1 .. Len(items)) /\ Len(items) \in Nat
  BY <1>1, ItemsType DEF PlacesOf
<1>3. marks \subseteq Nat /\ marks # {}
  BY <1>1, <1>2 DEF isComplete, PlacesOf
<1>4. PICK m \in marks : \A n \in marks : m <= n
  BY <1>3, Least
<1>5. PICK x : x = items[m]
  OBVIOUS
<1>6. m \in own /\ m \in DOMAIN items /\ x \in Stored(q) /\ x.chunk = Done
  BY <1>1, <1>2, <1>4, <1>5 DEF Stored
<1>7. P = {i \in own : i < m}
  <2>1. ASSUME NEW i \in own, i < m, NEW n \in own, items[n].chunk = Done PROVE i < n
    <3>1. n \in marks /\ m <= n /\ i \in Nat /\ n \in Nat /\ m \in Nat
      BY <1>1, <1>2, <1>4, <2>1
    <3>. QED  BY <2>1, <3>1
  <2>. QED  BY <1>1, <1>5, <1>6, <2>1
<1>8. \A i, j \in DOMAIN items : i < j => items[i].sequenceNumber < items[j].sequenceNumber
  BY DEF Inv, SequencesRise, Rising
<1>9. {items[i] : i \in P} = {it \in Stored(q) : it.sequenceNumber < x.sequenceNumber}
  <2>1. ASSUME NEW i \in own PROVE i < m <=> items[i].sequenceNumber < x.sequenceNumber
    <3>1. i \in DOMAIN items /\ i \in Nat /\ m \in Nat
          /\ items[i].sequenceNumber \in Nat /\ x.sequenceNumber \in Nat
      <4>1. items[i] \in Item /\ x \in Item
        BY <1>2, <1>5, <1>6
      <4>. QED  BY <1>2, <1>6, <4>1 DEF Item
    <3>2. i < m => items[i].sequenceNumber < x.sequenceNumber
      BY <1>5, <1>6, <1>8, <3>1
    <3>3. m < i => x.sequenceNumber < items[i].sequenceNumber
      BY <1>5, <1>6, <1>8, <3>1
    <3>4. i = m => items[i].sequenceNumber = x.sequenceNumber
      BY <1>5
    <3>. QED  BY <3>1, <3>2, <3>3, <3>4
  <2>. QED  BY <1>1, <1>7, <2>1 DEF Stored
<1>10. PICK r \in Runs :
          /\ run[r].query = q /\ run[r].completed
          /\ Answered({it \in Stored(q) : it.sequenceNumber < x.sequenceNumber}, r)
  BY <1>6 DEF MarkedOK
<1>11. P \in SUBSET DOMAIN items /\ \A i \in P : items[i].chunk # Done
  <2>1. \A i \in P : items[i].chunk # Done
    <3>1. \A i \in P : i \in Nat /\ ~(i < i)
      BY <1>1, <1>2
    <3>. QED  BY <1>1, <3>1
  <2>. QED  BY <1>1, <1>2, <2>1
<1>12. HasAnswer(ChunksAt(items, P), r)
  <2>1. Answered({items[i] : i \in P}, r)
    BY <1>9, <1>10
  <2>. QED  BY <1>2, <1>8, <1>11, <2>1, AnswerOf
<1>13. Replayed(q) = ChunksAt(items, P)
  BY <1>1 DEF Replayed
<1>. QED  BY <1>10, <1>12, <1>13

\* A client is told the end by a completion or by a replay.
LEMMA WhoIsTold ==
    ASSUME Inv, RestOK, [Next]_vars, NEW d \in Readers, reader'[d].pc = "done"
    PROVE  \/ reader'[d] = reader[d]
           \/ \E o \in Runs : CompleteQuery(o) /\ Follows(reader[d], run[o].query)
           \/ \E q \in Queries, beginning, wait \in BOOLEAN :
                  handleQueryStream(d, q, beginning, wait)
<1>1. reader \in [Readers -> Reader] /\ reader[d] \in Reader
  BY DEF RestOK
<1>2. ASSUME NEW o \in Runs, AddChunk(o) PROVE reader'[d] = reader[d]
  <2>1. PICK p, c : p = Head(wire[o]).to /\ c = Head(wire[o]).chunk
    OBVIOUS
  <2>2. reader' = Delivered(p, c) /\ wire[o] # <<>>
    BY <1>2, <2>1 DEF AddChunk
  <2>3. CASE Follows(reader[d], p)
    <3>1. reader'[d] = WriteLive(reader[d], c) /\ reader[d].pc = "open"
      BY <2>2, <2>3 DEF Delivered, Follows
    <3>2. WriteLive(reader[d], c) = Away \/ WriteLive(reader[d], c).pc = reader[d].pc
      BY <1>1 DEF WriteLive, Reader
    <3>. QED  BY <3>1, <3>2, AwayType
  <2>4. CASE ~Follows(reader[d], p)
    BY <2>2, <2>4 DEF Delivered
  <2>. QED  BY <2>3, <2>4
<1>3. ASSUME NEW o \in Runs, CompleteQuery(o)
      PROVE  reader'[d] = reader[d] \/ Follows(reader[d], run[o].query)
  <2>1. PICK p : p = run[o].query
    OBVIOUS
  <2>2. reader' = ReadersTold(p)
    BY <1>3, <2>1 DEF CompleteQuery
  <2>. QED  BY <2>1, <2>2 DEF ReadersTold
<1>4. ASSUME NEW o \in Runs, Produce(o) \/ Raise(o), ~AddChunk(o), ~CompleteQuery(o)
      PROVE  reader' = reader
  BY <1>4 DEF Produce, Raise, StreamChunk, BeginExecution, StreamBySDK, Silent, SendWhole,
     SendFinal, CompleteNotFound, AlreadyCompleted
<1>5. ASSUME NEW e \in Readers, Client(e)
      PROVE  \/ reader'[d] = reader[d]
             \/ \E q \in Queries, beginning, wait \in BOOLEAN :
                    handleQueryStream(d, q, beginning, wait)
  <2>1. CASE e = d
    <3>1. CASE onQueryTimeout(d) \/ onStreamClose(d)
      <4>1. reader'[d] = Away
        BY <1>1, <3>1 DEF onQueryTimeout, onStreamClose
      <4>. QED  BY <4>1, AwayType
    <3>. QED  BY <1>5, <2>1, <3>1 DEF Client
  <2>2. CASE e # d
    <3>1. \E v : reader' = [reader EXCEPT ![e] = v]
      BY <1>5, Zenon DEF Client, handleQueryStream, onQueryTimeout, onStreamClose
    <3>. QED  BY <1>1, <2>2, <3>1
  <2>. QED  BY <2>1, <2>2
<1>6. ASSUME NEW saved \in BOOLEAN, Restart(saved) PROVE reader'[d] = reader[d]
  <2>1. reader'[d] = IF reader[d].pc = "open" THEN Away ELSE reader[d]
    BY <1>6 DEF Restart
  <2>. QED  BY <2>1, AwayType
<1>7. (\E h : Crash(h)) \/ Purge \/ UNCHANGED vars => reader' = reader
  BY DEF Crash, Purge, vars
<1>. QED  BY <1>2, <1>3, <1>4, <1>5, <1>6, <1>7 DEF Next

LEMMA CompleteStep ==
    ASSUME Inv, Inv', Seam, WireOK, AloneOK, TakenOK, CompletedOK, MarkedOK, CompleteAnswer,
           [Next]_vars
    PROVE  CompleteAnswer'
<1>1. SUFFICES ASSUME NEW d \in Readers, reader'[d].pc = "done", reader'[d].beginning,
                      Clean(reader[d].query)'
               PROVE  \E r \in Runs : /\ run'[r].query = reader'[d].query /\ run'[r].completed
                                      /\ HasAnswer(reader'[d].got, r)
  BY DEF CompleteAnswer, Clean, Alone
<1>2. PICK q : q = reader'[d].query
  OBVIOUS
<1>3. RestOK /\ Clean(q)'
  BY <1>1, <1>2 DEF Seam, Clean
<1>4. Clean(q)
  BY <1>3, WasClean
<1>5. \A r \in Runs : /\ run'[r].query = run[r].query
                      /\ run[r].completed => run'[r].completed
  BY AllGo, CompletedStep DEF Goes
<1>6. CASE reader'[d] = reader[d]
  <2>1. PICK r \in Runs : /\ run[r].query = q /\ run[r].completed
                          /\ HasAnswer(reader[d].got, r)
    BY <1>1, <1>2, <1>4, <1>6 DEF CompleteAnswer, Clean, Alone
  <2>. QED  BY <1>2, <1>5, <1>6, <2>1
<1>7. ASSUME NEW o \in Runs, CompleteQuery(o), Follows(reader[d], run[o].query)
      PROVE  \E r \in Runs : /\ run'[r].query = reader'[d].query /\ run'[r].completed
                             /\ HasAnswer(reader'[d].got, r)
  <2>1. PICK rd, p : rd = reader[d] /\ p = run[o].query
    OBVIOUS
  <2>2. rd \in Reader /\ rd.pc = "open" /\ rd.query = p /\ p \in Queries
    BY <1>3, <1>7, <2>1, RunType DEF Follows, RestOK
  <2>3. reader'[d] = Ended(WriteLive(rd, Done))
    BY <1>7, <2>1 DEF CompleteQuery, ReadersTold, Delivered
  <2>4. /\ reader'[d].got = rd.got /\ reader'[d].query = p
        /\ reader'[d].beginning = rd.beginning
    BY <2>2, <2>3 DEF WriteLive, Ended, Reader
  <2>5. p = q /\ rd.beginning /\ q \notin disturbed
    BY <1>1, <1>2, <1>4, <2>4 DEF Clean
  <2>6. rd.got = ChunksOf(items, q)
    BY <2>1, <2>2, <2>5, GotStored
  <2>7. Completing(o) /\ Over(o, TRUE)
    BY <1>7 DEF CompleteQuery
  <2>8. Alone(o) /\ Holds(o)
    BY <1>4, <2>1, <2>5 DEF Clean, AloneOK
  <2>9. Has(Stored(q), o, SentBy(o))
    <3>1. run[o].pc # "over" /\ wire[o] = <<>> /\ run[o].query = q
      BY <2>1, <2>5, <2>7, <2>8 DEF Completing, Executing, Alone
    <3>2. Taken(o)
      <4>1. Clean(run[o].query)
        BY <1>4, <3>1
      <4>. QED  BY <3>1, <4>1 DEF TakenOK
    <3>3. \A y : wire[o] # <<y>>
      BY <3>1
    <3>. QED  BY <3>1, <3>2, <3>3 DEF Taken
  <2>10. Answered(Stored(q), o)
    BY <1>3, <2>7, <2>8, <2>9, AllSent
  <2>11. HasAnswer(reader'[d].got, o)
    BY <2>2, <2>4, <2>5, <2>6, <2>10, StoredAnswer
  <2>12. run'[o].completed
    <3>1. run' = [run EXCEPT ![o].pc = "over", ![o].completed = TRUE] /\ run \in [Runs -> Run]
      BY <2>7 DEF Over, Inv, Typed
    <3>2. run'[o] = [run[o] EXCEPT !.pc = "over", !.completed = TRUE] /\ run[o] \in Run
      BY <3>1
    <3>. QED  BY <3>2 DEF Run
  <2>. QED  BY <1>5, <2>1, <2>4, <2>11, <2>12
<1>8. ASSUME NEW p \in Queries, NEW beginning \in BOOLEAN, NEW wait \in BOOLEAN,
             handleQueryStream(d, p, beginning, wait)
      PROVE  \E r \in Runs : /\ run'[r].query = reader'[d].query /\ run'[r].completed
                             /\ HasAnswer(reader'[d].got, r)
  <2>1. PICK opened, replay :
           /\ opened = [Away EXCEPT !.pc = "open", !.query = p, !.beginning = beginning,
                                    !.timer = wait]
           /\ replay = [opened EXCEPT !.got = Replayed(p)]
    OBVIOUS
  <2>2. /\ reader \in [Readers -> Reader]
        /\ reader' = [reader EXCEPT ![d] =
             IF ~beginning THEN opened ELSE IF isComplete(p) THEN Ended(replay) ELSE replay]
    BY <1>3, <1>8, <2>1 DEF handleQueryStream, RestOK
  <2>3. opened \in Reader /\ opened.pc = "open" /\ opened.query = p
    BY <2>1, AwayType DEF Reader
  <2>4. replay.pc = "open" /\ replay \in Reader /\ replay.query = p /\ replay.got = Replayed(p)
    BY <2>1, <2>3, ReplayedType DEF Reader
  <2>5. isComplete(p) /\ reader'[d] = Ended(replay)
    BY <1>1, <2>2, <2>3, <2>4
  <2>6. reader'[d].query = p /\ reader'[d].got = Replayed(p) /\ p = q
    BY <1>2, <2>4, <2>5 DEF Ended, Reader
  <2>7. PICK r \in Runs : /\ run[r].query = p /\ run[r].completed
                          /\ HasAnswer(Replayed(p), r)
    BY <1>4, <2>5, <2>6, ReplayedAnswer
  <2>. QED  BY <1>5, <2>6, <2>7
<1>. QED  BY <1>1, <1>3, <1>6, <1>7, <1>8, WhoIsTold

LEMMA ToldStep == Inv /\ Inv' /\ Seam /\ Told /\ [Next]_vars => Told'
<1>1. SUFFICES ASSUME Inv, Inv', Seam, Told, [Next]_vars PROVE Told'
  OBVIOUS
<1>2. RestOK /\ CompletedOK /\ WireOK /\ AloneOK /\ TakenOK /\ MarkedOK /\ CompleteAnswer
  BY <1>1 DEF Seam, Told
<1>3. CompletedOK' /\ WireOK' /\ AloneOK'
  BY <1>1, <1>2, CompletedStep, WireStep, AloneStep
<1>4. TakenOK' /\ MarkedOK' /\ CompleteAnswer'
  BY <1>1, <1>2, TakenStep, MarkedStep, CompleteStep
<1>. QED  BY <1>3, <1>4 DEF Told

LEMMA ToldInit == Init => Told
<1>1. SUFFICES ASSUME Init PROVE Told
  OBVIOUS
<1>2. /\ items = <<>> /\ wire = [r \in Runs |-> <<>>] /\ reader = [d \in Readers |-> Away]
      /\ \A r \in Runs : /\ run[r].pc = IF run[r].host = Engine THEN "executing" ELSE "waiting"
                         /\ run[r].sent = 0 /\ ~run[r].whole /\ ~run[r].completed
  BY <1>1 DEF Init
<1>3. \A q : Stored(q) = {}
  BY <1>2 DEF Stored, PlacesOf
<1>4. CompletedOK /\ WireOK
  BY <1>2 DEF CompletedOK, WireOK
<1>5. \A r \in Runs : Alone(r) => run[r].pc = "waiting" /\ SentBy(r) = {}
  BY <1>2 DEF Alone, Awaits, SentBy
<1>6. AloneOK
  BY <1>2, <1>5 DEF AloneOK, Holds, Executing
<1>7. TakenOK
  <2>1. SUFFICES ASSUME NEW r \in Runs, Clean(run[r].query) PROVE Taken(r)
    BY DEF TakenOK
  <2>2. wire[r] = <<>> /\ SentBy(r) = {} /\ Stored(run[r].query) = {}
    BY <1>2, <1>3, <1>5, <2>1 DEF Clean
  <2>3. Has({}, r, {})
    BY DEF Has, Own
  <2>. QED  BY <2>2, <2>3 DEF Taken
<1>8. MarkedOK
  BY <1>3 DEF MarkedOK
<1>9. CompleteAnswer
  <2>1. \A d \in Readers : reader[d].pc = "away"
    BY <1>2, AwayType
  <2>. QED  BY <2>1 DEF CompleteAnswer
<1>. QED  BY <1>4, <1>6, <1>7, <1>8, <1>9 DEF Told

\* A client that followed a query from the beginning and was told its end has a whole answer
\* of an execution that completed, if the stream was not disturbed and the executions are of
\* SDK executors and ran beside no other (executor_app.py, handlers.ts).
THEOREM AnswerTheorem == Spec => []CompleteAnswer
<1>1. Told => CompleteAnswer
  BY DEF Told
<1>. QED  BY <1>1, ToldInit, ToldStep, SeamInit, SeamStep, InitStep, InvStep, PTL DEF Spec
===============================================================================
