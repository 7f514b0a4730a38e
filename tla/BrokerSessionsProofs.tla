-------------------------- MODULE BrokerSessionsProofs --------------------------
(* Theorems of BrokerSessions, for all sets of names and all bounds. *)
EXTENDS BrokerSessions, SequenceTheorems, TLAPS

-------------------------------------------------------------------------------
(* The inductive invariant.                                                *)

\* The entry of a query, and what holds of a set of sessions, in memory or in the file:
\* each session was inserted once, and its status is the one of its queries, so that
\* loading the file, which recalculates it, changes nothing.
Strong(query) == IF query.known THEN query.phase = Strongest(query.seen) ELSE query.seen = {}
OnceEach(st)  == \A i, j \in DOMAIN st.order : st.order[i] = st.order[j] => i = j
Settled(st)   == \A s \in Sessions :
    st.session[s] = IF Has(st, s) THEN Recalculated(st.session[s].queries) ELSE NoSession
AllStrong(st) == \A s \in Sessions, q \in Queries : Strong(st.session[s].queries[q])
GoodStore(st) == st \in Store /\ OnceEach(st) /\ Settled(st) /\ AllStrong(st)

Inv == /\ TypeOK /\ GoodStore(store) /\ GoodStore(disk)
       /\ UnsavedIsScheduled /\ WatcherSeesPhases /\ IndexFindsQuery

-------------------------------------------------------------------------------
(* Lemmas on the operators.                                                *)

LEMMA NoQueryType == NoQuery \in Query /\ Strong(NoQuery) /\ ~NoQuery.known
BY DEF NoQuery, Query, Phases, Strong

LEMMA NoSessionType ==
    NoSession \in Session /\ \A q \in Queries : NoSession.queries[q] = NoQuery
BY NoQueryType DEF NoSession, Session

LEMMA EmptyGood == GoodStore(Empty) /\ \A s \in Sessions : ~Has(Empty, s)
<1>1. Empty \in Store
  BY NoSessionType DEF Empty, Store
<1>2. Empty.order = <<>> /\ \A s \in Sessions : Empty.session[s] = NoSession
  BY DEF Empty
<1>3. \A s \in Sessions : ~Has(Empty, s)
  BY <1>2 DEF Has
<1>4. OnceEach(Empty) /\ Settled(Empty) /\ AllStrong(Empty)
  BY <1>2, <1>3, NoSessionType, NoQueryType DEF OnceEach, Settled, AllStrong
<1>. QED  BY <1>1, <1>3, <1>4 DEF GoodStore

\* The three ways to show the strongest phase agree: kept up event by event, and all at once.
LEMMA AppliedStrong ==
    ASSUME NEW query \in Query, Strong(query), NEW phase \in Phases,
           NEW conv \in Conversations \cup {None}
    PROVE  Applied(query, phase, conv) \in Query /\ Applied(query, phase, conv).known
           /\ Strong(Applied(query, phase, conv))
<1> DEFINE new == Applied(query, phase, conv)
<1>1. /\ new.known = TRUE /\ new.seen = query.seen \cup {phase}
      /\ new.phase = IF query.known THEN UpdatedPhase(query.phase, phase) ELSE phase
  BY DEF Applied
<1>2. UpdatedPhase(query.phase, phase) \in Phases
  BY DEF UpdatedPhase, Query, Phases
<1>3. First(query.conversationId, conv) \in Conversations \cup {None}
  BY DEF First, Query
<1>4. new \in Query
  BY <1>2, <1>3 DEF Applied, Query
<1>5. new.phase = Strongest(new.seen)
  <2>1. CASE query.known
    <3>1. query.phase = Strongest(query.seen) /\ new.phase = UpdatedPhase(query.phase, phase)
      BY <1>1, <2>1 DEF Strong
    <3>2. CASE phase = "error"
      BY <1>1, <3>1, <3>2 DEF UpdatedPhase, Strongest
    <3>3. CASE phase = "canceled"
      BY <1>1, <3>1, <3>3 DEF UpdatedPhase, Strongest
    <3>4. CASE phase = "done"
      BY <1>1, <3>1, <3>4 DEF UpdatedPhase, Strongest
    <3>5. CASE phase = "running"
      BY <1>1, <3>1, <3>5 DEF UpdatedPhase, Strongest
    <3>. QED  BY <3>2, <3>3, <3>4, <3>5 DEF Phases
  <2>2. CASE ~query.known
    BY <1>1, <2>2 DEF Strong, Strongest, Phases
  <2>. QED  BY <2>1, <2>2
<1>. QED  BY <1>1, <1>4, <1>5 DEF Strong

LEMMA RecalculatedType ==
    ASSUME NEW queries \in [Queries -> Query]
    PROVE  Recalculated(queries) \in Session /\ Recalculated(queries).queries = queries
BY DEF Recalculated, Session

\* A session with another entry for a query is put back.
LEMMA PutGood ==
    ASSUME GoodStore(store), NEW s \in Sessions, NEW q \in Queries,
           NEW query \in Query, Strong(query),
           Put(s, Recalculated([store.session[s].queries EXCEPT ![q] = query]))
    PROVE  /\ GoodStore(store') /\ Has(store', s)
           /\ \A t \in Sessions \ {s} : /\ store'.session[t] = store.session[t]
                                        /\ Has(store', t) <=> Has(store, t)
           /\ \A p \in Queries : store'.session[s].queries[p] =
                  IF p = q THEN query ELSE store.session[s].queries[p]
<1> DEFINE queries == [store.session[s].queries EXCEPT ![q] = query]
           order   == IF Has(store, s) THEN store.order ELSE Append(store.order, s)
<1>1. store.order \in Seq(Sessions) /\ store.session \in [Sessions -> Session]
      /\ store.session[s].queries \in [Queries -> Query]
  BY DEF GoodStore, Store, Session
<1>2. queries \in [Queries -> Query]
  BY <1>1
<1>3. Recalculated(queries) \in Session /\ Recalculated(queries).queries = queries
  BY <1>2, RecalculatedType
<1>4. store'.order = order
      /\ store'.session = [store.session EXCEPT ![s] = Recalculated(queries)]
      /\ store' = [order |-> store'.order, session |-> store'.session]
  BY DEF Put
<1>5. /\ order \in Seq(Sessions)
      /\ \A i, j \in DOMAIN order : order[i] = order[j] => i = j
      /\ \E i \in DOMAIN order : order[i] = s
      /\ \A t \in Sessions \ {s} : (\E i \in DOMAIN order : order[i] = t) <=> Has(store, t)
  <2>1. CASE Has(store, s)
    BY <1>1, <2>1 DEF GoodStore, OnceEach, Has
  <2>2. CASE ~Has(store, s)
    <3>1. order = Append(store.order, s)
      BY <2>2
    <3>2. /\ order \in Seq(Sessions) /\ DOMAIN order = 1 .. Len(store.order) + 1
          /\ DOMAIN store.order = 1 .. Len(store.order) /\ Len(store.order) \in Nat
          /\ \A i \in 1 .. Len(store.order) : order[i] = store.order[i]
          /\ order[Len(store.order) + 1] = s
      BY <1>1, <3>1
    <3>3. \A i \in DOMAIN store.order : store.order[i] # s
      BY <2>2 DEF Has
    <3>. HIDE DEF order
    <3>4. \A i, j \in DOMAIN order : order[i] = order[j] => i = j
      <4>1. \A i, j \in 1 .. Len(store.order) : order[i] = order[j] => i = j
        BY <3>2 DEF GoodStore, OnceEach
      <4>2. \A i \in 1 .. Len(store.order) : order[i] # s
        BY <3>2, <3>3
      <4>3. \A i \in DOMAIN order : i \in 1 .. Len(store.order) \/ i = Len(store.order) + 1
        BY <3>2
      <4>. QED  BY <3>2, <4>1, <4>2, <4>3
    <3>5. \A t \in Sessions \ {s} : (\E i \in DOMAIN order : order[i] = t) <=> Has(store, t)
      BY <3>2 DEF Has
    <3>. QED  BY <3>2, <3>4, <3>5
  <2>. QED  BY <2>1, <2>2
<1>6. Has(store', s) /\ \A t \in Sessions \ {s} : Has(store', t) <=> Has(store, t)
  BY <1>4, <1>5 DEF Has
<1>. HIDE DEF order, queries
<1>7. store' \in Store /\ OnceEach(store')
  BY <1>1, <1>3, <1>4, <1>5 DEF Store, OnceEach
<1>8. /\ store'.session[s] = Recalculated(queries)
      /\ \A t \in Sessions \ {s} : store'.session[t] = store.session[t]
  BY <1>1, <1>4
<1>9. Settled(store')
  BY <1>3, <1>6, <1>8 DEF GoodStore, Settled
<1>10. \A p \in Queries : store'.session[s].queries[p] =
                             IF p = q THEN query ELSE store.session[s].queries[p]
  BY <1>1, <1>3, <1>8 DEF queries
<1>11. AllStrong(store')
  BY <1>8, <1>10 DEF GoodStore, AllStrong
<1>. QED  BY <1>6, <1>7, <1>8, <1>9, <1>10, <1>11 DEF GoodStore

\* A conversation noted on an entry changes nothing else.
LEMMA NotedGood ==
    ASSUME GoodStore(store), NEW s \in Sessions, NEW q \in Queries, Has(store, s),
           NEW conv \in Conversations \cup {None},
           store' = [store EXCEPT !.session[s].queries[q].conversationId = conv]
    PROVE  /\ GoodStore(store')
           /\ \A t \in Sessions : /\ Has(store', t) <=> Has(store, t)
                                  /\ Shown(store'.session[t]) = Shown(store.session[t])
                                  /\ \A p \in Queries : store'.session[t].queries[p].known
                                                          = store.session[t].queries[p].known
<1> DEFINE query   == [store.session[s].queries[q] EXCEPT !.conversationId = conv]
           queries == [store.session[s].queries EXCEPT ![q] = query]
           session == [store.session[s] EXCEPT !.queries = queries]
<1>1. store.order \in Seq(Sessions) /\ store.session \in [Sessions -> Session]
      /\ store.session[s] \in Session /\ store.session[s].queries \in [Queries -> Query]
      /\ store.session[s].queries[q] \in Query
  BY DEF GoodStore, Store, Session
<1>2. /\ query \in Query /\ query.known = store.session[s].queries[q].known
      /\ query.phase = store.session[s].queries[q].phase
      /\ query.seen = store.session[s].queries[q].seen
  BY <1>1 DEF Query
<1>. HIDE DEF query
<1>3. /\ queries \in [Queries -> Query]
      /\ \A p \in Queries : /\ queries[p].known = store.session[s].queries[p].known
                            /\ queries[p].phase = store.session[s].queries[p].phase
                            /\ queries[p].seen = store.session[s].queries[p].seen
  BY <1>1, <1>2
<1>. HIDE DEF queries
<1>4. /\ session \in Session /\ session.queries = queries
      /\ session.active = store.session[s].active
      /\ session = [queries |-> queries, active |-> store.session[s].active]
  <2>1. PICK old \in Session : old = store.session[s]
    BY <1>1
  <2>2. session = [old EXCEPT !.queries = queries]
    BY <2>1
  <2>. QED  BY <1>3, <2>1, <2>2 DEF Session
<1>5. /\ store'.order = store.order
      /\ store'.session = [store.session EXCEPT ![s] = session]
      /\ store' = [order |-> store'.order, session |-> store'.session]
  BY <1>1 DEF GoodStore, Store, query, queries
<1>. HIDE DEF session
<1>6. store'.session[s] = session
      /\ \A t \in Sessions \ {s} : store'.session[t] = store.session[t]
  BY <1>1, <1>5
<1>7. store' \in Store /\ OnceEach(store') /\ \A t \in Sessions : Has(store', t) <=> Has(store, t)
  BY <1>1, <1>4, <1>5 DEF GoodStore, Store, OnceEach, Has
<1>8. Settled(store')
  <2>1. store.session[s] = Recalculated(store.session[s].queries)
    BY DEF GoodStore, Settled
  <2>2. Recalculated(queries).active = Recalculated(store.session[s].queries).active
    BY <1>3 DEF Recalculated
  <2>3. session = Recalculated(queries)
    BY <1>4, <2>1, <2>2 DEF Recalculated
  <2>. QED  BY <1>4, <1>6, <1>7, <2>3 DEF GoodStore, Settled
<1>9. AllStrong(store')
  <2>1. ASSUME NEW p \in Queries PROVE Strong(store'.session[s].queries[p])
    <3>1. Strong(store.session[s].queries[p])
      BY DEF GoodStore, AllStrong
    <3>2. Strong(queries[p])
      BY <1>3, <3>1 DEF Strong
    <3>. QED  BY <1>4, <1>6, <3>2
  <2>. QED  BY <1>6, <2>1 DEF GoodStore, AllStrong
<1>10. Shown(store'.session[s]) = Shown(store.session[s])
  <2> DEFINE phases(entries) == [p \in Queries |-> IF entries[p].known THEN {entries[p].phase}
                                                                       ELSE {}]
  <2>1. phases(queries) = phases(store.session[s].queries)
    BY <1>3
  <2>2. /\ Shown(session) = [active |-> session.active, phases |-> phases(session.queries)]
        /\ Shown(store.session[s]) = [active |-> store.session[s].active,
                                      phases |-> phases(store.session[s].queries)]
    BY DEF Shown
  <2>. HIDE DEF phases
  <2>. QED  BY <1>4, <1>6, <2>1, <2>2
<1>11. GoodStore(store')
  BY <1>7, <1>8, <1>9 DEF GoodStore
<1>12. ASSUME NEW t \in Sessions
       PROVE  /\ Shown(store'.session[t]) = Shown(store.session[t])
              /\ \A p \in Queries : store'.session[t].queries[p].known
                                       = store.session[t].queries[p].known
  <2>1. CASE t = s
    BY <1>3, <1>4, <1>6, <1>10, <2>1
  <2>2. CASE t # s
    BY <1>6, <2>2
  <2>. QED  BY <2>1, <2>2
<1>. QED  BY <1>7, <1>11, <1>12

\* Loading the file changes no session, and the index it builds finds a query that one
\* session knows.
LEMMA LoadedGood ==
    ASSUME NEW st, GoodStore(st)
    PROVE  /\ [st EXCEPT !.session = [s \in Sessions |-> IF Has(st, s)
                                        THEN Recalculated(st.session[s].queries)
                                        ELSE NoSession]] = st
           /\ RebuiltIndex(st) \in [Queries -> Sessions \cup {None}]
           /\ \A s \in Sessions, q \in Queries :
                 (/\ st.session[s].queries[q].known
                  /\ \A t \in Sessions \ {s} : ~st.session[t].queries[q].known)
                 => RebuiltIndex(st)[q] = s
<1>1. st.order \in Seq(Sessions) /\ st.session \in [Sessions -> Session]
      /\ st = [order |-> st.order, session |-> st.session]
  BY DEF GoodStore, Store
<1>2. st.session = [s \in Sessions |-> IF Has(st, s) THEN Recalculated(st.session[s].queries)
                                                     ELSE NoSession]
  BY <1>1 DEF GoodStore, Settled
<1> DEFINE having(q) == {i \in DOMAIN st.order : st.session[st.order[i]].queries[q].known}
           last(q)   == {i \in having(q) : \A j \in having(q) : j <= i}
<1>3. RebuiltIndex(st) = [q \in Queries |-> IF last(q) = {} THEN None
                                            ELSE st.order[CHOOSE i \in last(q) : TRUE]]
  BY DEF RebuiltIndex
<1>4. ASSUME NEW s \in Sessions, NEW q \in Queries, st.session[s].queries[q].known,
             \A t \in Sessions \ {s} : ~st.session[t].queries[q].known
      PROVE  RebuiltIndex(st)[q] = s
  <2>1. Has(st, s)
    <3>1. CASE ~Has(st, s)
      <4>1. st.session[s] = NoSession
        BY <3>1 DEF GoodStore, Settled
      <4>. QED  BY <1>4, <4>1, NoSessionType, NoQueryType
    <3>. QED  BY <3>1
  <2>2. PICK i \in DOMAIN st.order : st.order[i] = s
    BY <2>1 DEF Has
  <2>3. having(q) = {i}
    <3>1. i \in having(q)
      BY <1>4, <2>2
    <3>2. ASSUME NEW j \in having(q) PROVE j = i
      <4>1. st.order[j] \in Sessions
        BY <1>1
      <4>2. st.order[j] = s
        BY <1>4, <4>1
      <4>. QED  BY <2>2, <4>2 DEF GoodStore, OnceEach
    <3>. QED  BY <3>1, <3>2
  <2>4. i \in Nat
    BY <1>1
  <2>. HIDE DEF having
  <2>5. last(q) = {i}
    BY <2>3, <2>4
  <2>. HIDE DEF last
  <2>6. (CHOOSE j \in last(q) : TRUE) = i
    BY <2>5
  <2>. QED  BY <1>3, <2>2, <2>5, <2>6
<1>5. RebuiltIndex(st) \in [Queries -> Sessions \cup {None}]
  <2>1. ASSUME NEW q \in Queries, last(q) # {}
        PROVE  st.order[CHOOSE i \in last(q) : TRUE] \in Sessions
    <3>1. (CHOOSE i \in last(q) : TRUE) \in DOMAIN st.order
      BY <2>1
    <3>. HIDE DEF last
    <3>. QED  BY <1>1, <3>1
  <2>. HIDE DEF last
  <2>. QED  BY <1>3, <2>1
<1>. QED  BY <1>1, <1>2, <1>4, <1>5

-------------------------------------------------------------------------------
(* The steps.                                                              *)

LEMMA InitInv == Init => Inv
<1>. SUFFICES ASSUME Init PROVE Inv
  OBVIOUS
<1>1. store = Empty /\ disk = Empty /\ GoodStore(Empty)
  BY EmptyGood DEF Init
<1>2. Shown(NoSession) \in [active : BOOLEAN, phases : [Queries -> SUBSET Phases]]
  BY NoSessionType, NoQueryType DEF Shown, NoSession
<1>3. TypeOK
  <2>1. view \in [Watchers -> [Sessions -> [active : BOOLEAN,
                                            phases : [Queries -> SUBSET Phases]]]]
    BY <1>2 DEF Init
  <2>2. requests \in 0 .. MaxRequests /\ faults \in 0 .. MaxFaults
    BY BoundsAssumption DEF Init
  <2>3. queryToSession \in [Queries -> Sessions \cup {None}] /\ watching \in SUBSET Watchers
    BY DEF Init
  <2>. QED  BY <1>1, <2>1, <2>2, <2>3 DEF Init, TypeOK, GoodStore
<1>4. IndexFindsQuery
  <2>1. \A s \in Sessions, q \in Queries : ~store.session[s].queries[q].known
    BY <1>1, NoSessionType, NoQueryType DEF Empty
  <2>. QED  BY <2>1 DEF IndexFindsQuery
<1>5. UnsavedIsScheduled /\ WatcherSeesPhases
  BY <1>1 DEF Init, UnsavedIsScheduled, WatcherSeesPhases
<1>. QED  BY <1>1, <1>3, <1>4, <1>5 DEF Inv

LEMMA ShownType ==
    ASSUME NEW session \in Session
    PROVE  Shown(session) \in [active : BOOLEAN, phases : [Queries -> SUBSET Phases]]
BY DEF Shown, Session, Query

LEMMA PhaseType ==
    ASSUME NEW reason \in Reasons, NEW failed \in BOOLEAN
    PROVE  resolveQueryPhase(reason, failed) \in Phases
BY DEF Reasons, resolveQueryPhase, Phases

\* An event in memory: the session is sound, found and shown to every watcher.
LEMMA EventApplied ==
    ASSUME Inv, NEW s \in Sessions, NEW q \in Queries, NEW reason \in Reasons,
           NEW failed \in BOOLEAN, NEW conv \in Conversations \cup {None},
           applyEvent(s, q, reason, failed, conv), UNCHANGED watching
    PROVE  /\ GoodStore(store')
           /\ queryToSession' \in [Queries -> Sessions \cup {None}]
           /\ view' \in [Watchers -> [Sessions -> [active : BOOLEAN,
                                                   phases : [Queries -> SUBSET Phases]]]]
           /\ WatcherSeesPhases' /\ IndexFindsQuery'
<1> DEFINE old   == store.session[s].queries[q]
           query == Applied(old, resolveQueryPhase(reason, failed), conv)
<1>1. GoodStore(store) /\ store.session[s].queries \in [Queries -> Query] /\ old \in Query
      /\ Strong(old)
  BY DEF Inv, GoodStore, Store, Session, AllStrong
<1>2. query \in Query /\ query.known /\ Strong(query)
  BY <1>1, PhaseType, AppliedStrong
<1>3. /\ Put(s, Recalculated([store.session[s].queries EXCEPT ![q] = query]))
      /\ queryToSession' = IF old.known THEN queryToSession
                                        ELSE [queryToSession EXCEPT ![q] = s]
      /\ Upsert(s)
  BY DEF applyEvent
<1>. HIDE DEF query
<1>4. /\ GoodStore(store') /\ Has(store', s)
      /\ \A t \in Sessions \ {s} : /\ store'.session[t] = store.session[t]
                                   /\ Has(store', t) <=> Has(store, t)
      /\ \A p \in Queries : store'.session[s].queries[p] =
             IF p = q THEN query ELSE store.session[s].queries[p]
  BY <1>1, <1>2, <1>3, PutGood
<1>5. queryToSession' \in [Queries -> Sessions \cup {None}]
  BY <1>3 DEF Inv, TypeOK
<1>6. /\ view' = [w \in Watchers |-> IF w \in watching
                                     THEN [view[w] EXCEPT ![s] = Shown(store'.session[s])]
                                     ELSE view[w]]
      /\ Shown(store'.session[s]) \in [active : BOOLEAN, phases : [Queries -> SUBSET Phases]]
  BY <1>3, <1>4, ShownType DEF Upsert, GoodStore, Store
<1>7. view' \in [Watchers -> [Sessions -> [active : BOOLEAN,
                                           phases : [Queries -> SUBSET Phases]]]]
  BY <1>6 DEF Inv, TypeOK
<1>8. WatcherSeesPhases'
  <2>. SUFFICES ASSUME NEW w \in watching, NEW t \in Sessions, Has(store', t)
                PROVE  view'[w][t] = Shown(store'.session[t])
    BY DEF WatcherSeesPhases
  <2>1. w \in Watchers /\ view'[w] = [view[w] EXCEPT ![s] = Shown(store'.session[s])]
        /\ view[w] \in [Sessions -> [active : BOOLEAN, phases : [Queries -> SUBSET Phases]]]
    BY <1>6 DEF Inv, TypeOK
  <2>2. CASE t = s
    BY <2>1, <2>2
  <2>3. CASE t # s
    BY <1>4, <2>1, <2>3 DEF Inv, WatcherSeesPhases
  <2>. QED  BY <2>2, <2>3
<1>9. IndexFindsQuery'
  <2>. SUFFICES ASSUME NEW t \in Sessions, NEW p \in Queries,
                       store'.session[t].queries[p].known,
                       \A u \in Sessions \ {t} : ~store'.session[u].queries[p].known
                PROVE  queryToSession'[p] = t
    BY DEF IndexFindsQuery
  <2>1. CASE p = q
    <3>1. t = s
      BY <1>2, <1>4, <2>1
    <3>2. CASE old.known
      BY <1>3, <1>4, <2>1, <3>1, <3>2 DEF Inv, IndexFindsQuery
    <3>3. CASE ~old.known
      BY <1>3, <2>1, <3>1, <3>3 DEF Inv, TypeOK
    <3>. QED  BY <3>2, <3>3
  <2>2. CASE p # q
    <3>1. queryToSession'[p] = queryToSession[p]
      BY <1>3, <2>2 DEF Inv, TypeOK
    <3>2. \A u \in Sessions : store'.session[u].queries[p].known
                                = store.session[u].queries[p].known
      BY <1>4, <2>2
    <3>. QED  BY <3>1, <3>2 DEF Inv, IndexFindsQuery
  <2>. QED  BY <2>1, <2>2
<1>. QED  BY <1>4, <1>5, <1>7, <1>8, <1>9

LEMMA PostType == ASSUME TypeOK, Posted PROVE requests' \in 0 .. MaxRequests
BY BoundsAssumption DEF TypeOK, Posted

\* The two ways events come in; the second saves as well.
LEMMA PostEventStep ==
    ASSUME Inv, NEW s \in Sessions, NEW q \in Queries, NEW reason \in Reasons,
           NEW failed \in BOOLEAN, NEW conv \in Conversations \cup {None},
           PostEvent(s, q, reason, failed, conv)
    PROVE  Inv'
<1>1. /\ applyEvent(s, q, reason, failed, conv) /\ saveTimer' = TRUE /\ dirty' = TRUE /\ Posted
      /\ UNCHANGED <<disk, saveFailed, watching, faults>>
  BY DEF PostEvent, deferredSave
<1>2. /\ GoodStore(store') /\ WatcherSeesPhases' /\ IndexFindsQuery'
      /\ queryToSession' \in [Queries -> Sessions \cup {None}]
      /\ view' \in [Watchers -> [Sessions -> [active : BOOLEAN,
                                              phases : [Queries -> SUBSET Phases]]]]
  BY <1>1, EventApplied
<1>3. TypeOK'
  BY <1>1, <1>2, PostType DEF Inv, TypeOK, GoodStore
<1>4. UnsavedIsScheduled'
  BY <1>1 DEF UnsavedIsScheduled
<1>. QED  BY <1>1, <1>2, <1>3, <1>4 DEF Inv

LEMMA SaveGood ==
    ASSUME Inv, NEW ok \in BOOLEAN, save(ok), GoodStore(store')
    PROVE  /\ GoodStore(disk') /\ saveFailed' \in BOOLEAN /\ faults' \in 0 .. MaxFaults
           /\ disk' = store' \/ saveFailed'
<1>1. CASE ok
  BY <1>1 DEF save, Inv, TypeOK
<1>2. CASE ~ok
  <2>1. saveFailed' /\ disk' = disk /\ faults' = faults + 1 /\ faults < MaxFaults
    BY <1>2 DEF save
  <2>2. faults' \in 0 .. MaxFaults
    BY <2>1, BoundsAssumption DEF Inv, TypeOK
  <2>3. saveFailed' = TRUE
    BY <1>2 DEF save
  <2>. QED  BY <2>1, <2>2, <2>3 DEF Inv
<1>. QED  BY <1>1, <1>2

LEMMA PostSessionStep ==
    ASSUME Inv, NEW s \in Sessions, NEW q \in Queries, NEW reason \in Reasons,
           NEW failed \in BOOLEAN, NEW conv \in Conversations \cup {None}, NEW ok \in BOOLEAN,
           PostSession(s, q, reason, failed, conv, ok)
    PROVE  Inv'
<1>1. /\ applyEvent(s, q, reason, failed, conv) /\ saveTimer' = TRUE /\ dirty' = TRUE /\ Posted
      /\ save(ok) /\ UNCHANGED watching
  BY DEF PostSession, deferredSave
<1>2. /\ GoodStore(store') /\ WatcherSeesPhases' /\ IndexFindsQuery'
      /\ queryToSession' \in [Queries -> Sessions \cup {None}]
      /\ view' \in [Watchers -> [Sessions -> [active : BOOLEAN,
                                              phases : [Queries -> SUBSET Phases]]]]
  BY <1>1, EventApplied
<1>3. GoodStore(disk') /\ saveFailed' \in BOOLEAN /\ faults' \in 0 .. MaxFaults
  BY <1>1, <1>2, SaveGood
<1>4. TypeOK'
  BY <1>1, <1>2, <1>3, PostType DEF Inv, TypeOK, GoodStore
<1>5. UnsavedIsScheduled'
  BY <1>1 DEF UnsavedIsScheduled
<1>. QED  BY <1>2, <1>3, <1>4, <1>5 DEF Inv

LEMMA PostMessageStep ==
    ASSUME Inv, NEW q \in Queries, NEW conv \in Conversations, PostMessage(q, conv)
    PROVE  Inv'
<1> DEFINE s == queryToSession[q]
<1>1. /\ Posted /\ UNCHANGED <<queryToSession, disk, saveFailed, watching, view, faults>>
  BY DEF PostMessage
<1>2. CASE s # None /\ Has(store, s) /\ store.session[s].queries[q].known
  <2> DEFINE new == First(store.session[s].queries[q].conversationId, conv)
  <2>1. /\ store' = [store EXCEPT !.session[s].queries[q].conversationId = new]
        /\ saveTimer' = TRUE /\ dirty' = TRUE
    BY <1>2 DEF PostMessage, deferredSave
  <2>2. s \in Sessions
    BY <1>2 DEF Inv, TypeOK
  <2>3. new \in Conversations \cup {None}
    BY <2>2 DEF First, Inv, TypeOK, Store, Session, Query
  <2>. HIDE DEF new, s
  <2>4. /\ GoodStore(store')
        /\ \A t \in Sessions : /\ Has(store', t) <=> Has(store, t)
                               /\ Shown(store'.session[t]) = Shown(store.session[t])
                               /\ \A p \in Queries : store'.session[t].queries[p].known
                                                       = store.session[t].queries[p].known
    BY <1>2, <2>1, <2>2, <2>3, NotedGood DEF Inv
  <2>5. TypeOK'
    BY <1>1, <2>1, <2>4, PostType DEF Inv, TypeOK, GoodStore
  <2>6. WatcherSeesPhases'
    <3>1. ASSUME NEW w \in watching, NEW t \in Sessions, Has(store', t)
          PROVE  view[w][t] = Shown(store'.session[t])
      <4>1. Has(store, t) /\ Shown(store'.session[t]) = Shown(store.session[t])
        BY <2>4, <3>1
      <4>. QED  BY <4>1 DEF Inv, WatcherSeesPhases
    <3>. QED  BY <1>1, <3>1 DEF WatcherSeesPhases
  <2>7. IndexFindsQuery'
    <3>1. ASSUME NEW t \in Sessions, NEW p \in Queries,
                 store'.session[t].queries[p].known,
                 \A u \in Sessions \ {t} : ~store'.session[u].queries[p].known
          PROVE  queryToSession[p] = t
      <4>1. \A u \in Sessions : store'.session[u].queries[p].known
                                  = store.session[u].queries[p].known
        BY <2>4
      <4>. QED  BY <3>1, <4>1 DEF Inv, IndexFindsQuery
    <3>. QED  BY <1>1, <3>1 DEF IndexFindsQuery
  <2>8. UnsavedIsScheduled'
    BY <2>1 DEF UnsavedIsScheduled
  <2>. QED  BY <1>1, <2>4, <2>5, <2>6, <2>7, <2>8 DEF Inv
<1>3. CASE ~(s # None /\ Has(store, s) /\ store.session[s].queries[q].known)
  <2>1. UNCHANGED <<store, saveTimer, dirty>>
    BY <1>3 DEF PostMessage
  <2>2. TypeOK'
    BY <1>1, <2>1, PostType DEF Inv, TypeOK
  <2>. QED
    BY <1>1, <2>1, <2>2 DEF Inv, UnsavedIsScheduled, WatcherSeesPhases, IndexFindsQuery
<1>. QED  BY <1>2, <1>3

LEMMA SaveTimerStep == ASSUME Inv, NEW ok \in BOOLEAN, SaveTimer(ok) PROVE Inv'
<1>1. /\ saveTimer' = FALSE /\ dirty' = FALSE
      /\ UNCHANGED <<store, queryToSession, watching, view, requests>>
      /\ IF dirty THEN save(ok) ELSE UNCHANGED <<disk, saveFailed, faults>>
  BY DEF SaveTimer
<1>2. /\ GoodStore(disk') /\ saveFailed' \in BOOLEAN /\ faults' \in 0 .. MaxFaults
      /\ UnsavedIsScheduled'
  <2>1. CASE dirty
    BY <1>1, <2>1, SaveGood DEF Inv, UnsavedIsScheduled
  <2>2. CASE ~dirty
    BY <1>1, <2>2 DEF Inv, TypeOK, UnsavedIsScheduled
  <2>. QED  BY <2>1, <2>2
<1>3. TypeOK'
  BY <1>1, <1>2 DEF Inv, TypeOK, GoodStore
<1>. QED  BY <1>1, <1>2, <1>3 DEF Inv, WatcherSeesPhases, IndexFindsQuery

LEMMA DeleteStep == ASSUME Inv, NEW ok \in BOOLEAN, DeleteSessions(ok) PROVE Inv'
<1>1. /\ faults < MaxFaults /\ faults' = faults + 1
      /\ store' = Empty /\ disk' = (IF ok THEN Empty ELSE disk) /\ saveFailed' = ~ok
      /\ UNCHANGED <<queryToSession, saveTimer, dirty, watching, view, requests>>
  BY DEF DeleteSessions
<1>2. GoodStore(store') /\ GoodStore(disk') /\ \A s \in Sessions : ~Has(store', s)
  BY <1>1, EmptyGood DEF Inv
<1>3. faults' \in 0 .. MaxFaults
  BY <1>1, BoundsAssumption DEF Inv, TypeOK
<1>4. TypeOK'
  BY <1>1, <1>2, <1>3 DEF Inv, TypeOK, GoodStore
<1>5. \A s \in Sessions, q \in Queries : ~store'.session[s].queries[q].known
  BY <1>1, NoSessionType, NoQueryType DEF Empty
<1>. QED
  BY <1>1, <1>2, <1>4, <1>5 DEF Inv, UnsavedIsScheduled, WatcherSeesPhases, IndexFindsQuery

LEMMA RestartStep == ASSUME Inv, NEW graceful \in BOOLEAN, Restart(graceful) PROVE Inv'
<1>. PICK loaded : loaded = IF graceful THEN store ELSE disk
  OBVIOUS
<1>1. GoodStore(loaded)
  BY DEF Inv
<1>2. /\ faults < MaxFaults /\ faults' = faults + 1
      /\ disk' = loaded /\ queryToSession' = RebuiltIndex(loaded)
      /\ store' = [loaded EXCEPT !.session =
                       [s \in Sessions |-> IF Has(loaded, s)
                                           THEN Recalculated(loaded.session[s].queries)
                                           ELSE NoSession]]
      /\ saveTimer' = FALSE /\ dirty' = FALSE /\ saveFailed' = FALSE
      /\ watching' = {} /\ UNCHANGED <<view, requests>>
  BY DEF Restart
<1>3. store' = loaded
  BY <1>1, <1>2, LoadedGood
<1>4. faults' \in 0 .. MaxFaults
  BY <1>2, BoundsAssumption DEF Inv, TypeOK
<1>5. queryToSession' \in [Queries -> Sessions \cup {None}]
  BY <1>1, <1>2, LoadedGood
<1>6. TypeOK'
  BY <1>1, <1>2, <1>3, <1>4, <1>5 DEF Inv, TypeOK, GoodStore
<1>7. IndexFindsQuery'
  <2>. SUFFICES ASSUME NEW s \in Sessions, NEW q \in Queries,
                       loaded.session[s].queries[q].known,
                       \A t \in Sessions \ {s} : ~loaded.session[t].queries[q].known
                PROVE  RebuiltIndex(loaded)[q] = s
    BY <1>2, <1>3 DEF IndexFindsQuery
  <2>. QED  BY <1>1, LoadedGood
<1>. QED
  BY <1>1, <1>2, <1>3, <1>6, <1>7 DEF Inv, UnsavedIsScheduled, WatcherSeesPhases

LEMMA WatchStep == ASSUME Inv, NEW w \in Watchers, Watch(w) \/ Unwatch(w) PROVE Inv'
<1>1. UNCHANGED <<store, queryToSession, disk, saveTimer, dirty, saveFailed, requests, faults>>
  BY DEF Watch, Unwatch, files
<1>2. CASE Watch(w)
  <2> DEFINE told == [s \in Sessions |-> IF Has(store, s) THEN Shown(store.session[s])
                                                         ELSE view[w][s]]
  <2>1. watching' = watching \cup {w} /\ view' = [view EXCEPT ![w] = told]
    BY <1>2 DEF Watch
  <2>2. told \in [Sessions -> [active : BOOLEAN, phases : [Queries -> SUBSET Phases]]]
    BY ShownType DEF Inv, TypeOK, Store
  <2>3. TypeOK'
    <3>. HIDE DEF told
    <3>. QED  BY <1>1, <2>1, <2>2 DEF Inv, TypeOK
  <2>4. WatcherSeesPhases'
    <3>. SUFFICES ASSUME NEW v \in watching', NEW s \in Sessions, Has(store, s)
                  PROVE  view'[v][s] = Shown(store.session[s])
      BY <1>1 DEF WatcherSeesPhases
    <3>1. CASE v = w
      BY <2>1, <3>1 DEF Inv, TypeOK
    <3>2. CASE v # w
      <4>1. v \in watching /\ view'[v] = view[v]
        BY <2>1, <3>2 DEF Inv, TypeOK
      <4>. QED  BY <4>1 DEF Inv, WatcherSeesPhases
    <3>. QED  BY <3>1, <3>2
  <2>. QED  BY <1>1, <2>3, <2>4 DEF Inv, UnsavedIsScheduled, IndexFindsQuery
<1>3. CASE Unwatch(w)
  <2>1. watching' = watching \ {w} /\ view' = view
    BY <1>3 DEF Unwatch
  <2>. QED
    BY <1>1, <2>1 DEF Inv, TypeOK, UnsavedIsScheduled, WatcherSeesPhases, IndexFindsQuery
<1>. QED  BY <1>2, <1>3

LEMMA InvStep == Inv /\ [Next]_vars => Inv'
<1>. SUFFICES ASSUME Inv, [Next]_vars PROVE Inv'
  OBVIOUS
<1>1. CASE Ingest
  <2>1. \A reason \in Reasons : Failures(reason) \subseteq BOOLEAN
    BY DEF Failures
  <2>2. PICK s \in Sessions, q \in Queries, conv \in Conversations \cup {None},
             reason \in Reasons, failed \in BOOLEAN :
               \/ PostEvent(s, q, reason, failed, conv)
               \/ \E ok \in BOOLEAN : PostSession(s, q, reason, failed, conv, ok)
    BY <1>1, <2>1 DEF Ingest
  <2>. QED  BY <2>2, PostEventStep, PostSessionStep
<1>2. CASE UNCHANGED vars
  BY <1>2 DEF vars, Inv, TypeOK, UnsavedIsScheduled, WatcherSeesPhases, IndexFindsQuery
<1>. QED
  BY <1>1, <1>2, PostMessageStep, SaveTimerStep, DeleteStep, RestartStep, WatchStep DEF Next

LEMMA Invariance == Spec => []Inv
BY InitInv, InvStep, PTL DEF Spec

-------------------------------------------------------------------------------
(* The theorems.                                                           *)

\* Every reachable state is well-typed.
THEOREM TypeCorrect == Spec => []TypeOK
<1>1. Inv => TypeOK
  BY DEF Inv
<1>. QED  BY <1>1, Invariance, PTL

\* A query's phase is the strongest of those its events stand for, whatever their order
\* and number, across saves and restarts (updateExistingQuery).
THEOREM PhaseTheorem == Spec => []PhaseIsStrongest
<1>1. Inv => PhaseIsStrongest
  BY DEF Inv, GoodStore, AllStrong, Strong, PhaseIsStrongest
<1>. QED  BY <1>1, Invariance, PTL

\* The index finds the session of a query that one session knows (rebuildIndex).
THEOREM IndexTheorem == Spec => []IndexFindsQuery
<1>1. Inv => IndexFindsQuery
  BY DEF Inv
<1>. QED  BY <1>1, Invariance, PTL

\* What is not in the file is about to be saved, or failed to be (deferredSave).
THEOREM UnsavedTheorem == Spec => []UnsavedIsScheduled
<1>1. Inv => UnsavedIsScheduled
  BY DEF Inv
<1>. QED  BY <1>1, Invariance, PTL

\* Connected watchers see each session as it is (handleStreamingSessions).
THEOREM WatcherTheorem == Spec => []WatcherSeesPhases
<1>1. Inv => WatcherSeesPhases
  BY DEF Inv
<1>. QED  BY <1>1, Invariance, PTL
===============================================================================
