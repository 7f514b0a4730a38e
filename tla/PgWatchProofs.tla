----------------------------- MODULE PgWatchProofs -----------------------------
(***************************************************************************)
(* Proofs about PgWatch: its typing and every safety invariant its run     *)
(* checks, for any objects and names, any lookback the pruning respects,   *)
(* any channel and any number of faults.                                   *)
(***************************************************************************)
EXTENDS PgWatch, TLAPS

Batch      == watcher.batch
InBatch(u) == \E i \in DOMAIN Batch : Batch[i].uid = u
\* The next relist reads the row's present version.
Reach(u)   == watcher.lastSeenRV < row[u].rv + Lookback
\* This watch has still to tell the row's present version.
Owing(u)   == watcher.pc = "starting" \/ (Reach(u) /\ watcher.seen[u] < row[u].rv)
Expected   == Committed \ excused
\* v is, or was, what the name of the live object u was before.
Before(v, u) == /\ u \in Uids /\ v \in Uids /\ u # v /\ NameOf[u] = NameOf[v]
                /\ row[u].state = "live" /\ NameOf[u] \notin crossed

(***************************************************************************)
(* The table: versions are given out once and rise, and one row of a name  *)
(* is live.                                                                *)
(***************************************************************************)
TableOK ==
    \A u \in Uids :
        /\ row[u].rv < nextVersion /\ open[u].rv < nextVersion
        /\ row[u].state = "absent" <=> row[u].rv = 0
        /\ open[u].op = "none" => open[u].rv = 0
        /\ open[u].op # "none" => open[u].rv > row[u].rv
        /\ open[u].op = "create" => row[u].state = "absent"
        /\ open[u].op \in {"update", "delete"} => row[u].state = "live"
        /\ \A v \in Uids \ {u} :
               /\ row[u].rv = row[v].rv => row[u].rv = 0
               /\ row[u].rv = open[v].rv => row[u].rv = 0
               /\ open[u].rv = open[v].rv => open[u].rv = 0
               /\ row[u].state = "live" /\ row[v].state = "live" => NameOf[u] # NameOf[v]
Succession ==
    \A u, v \in Uids :
        Before(v, u) /\ row[v].state = "deleted" => row[v].rv < row[u].rv

(***************************************************************************)
(* What is held of a row was true of it.                                   *)
(***************************************************************************)
Was(u, rv, deleted) ==
    /\ 0 < rv /\ rv <= row[u].rv
    /\ deleted => rv = row[u].rv /\ row[u].state \in {"deleted", "purged"}
    /\ ~deleted /\ rv = row[u].rv => row[u].state = "live"
WatcherOK ==
    /\ watcher.pc # "sending" => Batch = <<>>
    /\ watcher.pc = "starting" =>
           /\ \A u \in Uids : watcher.seen[u] = 0
           /\ watcher.lastSeenRV = 0 /\ outCh = <<>> /\ ~endSeen
           /\ ~watcher.listed /\ ~watcher.initialListDone
    /\ watcher.pc = "idle" => watcher.listed
    /\ watcher.lastSeenRV < nextVersion
    /\ \A u \in Uids : watcher.seen[u] <= row[u].rv
BatchOK ==
    /\ \A i \in DOMAIN Batch :
           /\ Was(Batch[i].uid, Batch[i].rv, Batch[i].deleted)
           /\ watcher.seen[Batch[i].uid] < Batch[i].rv
           /\ Reach(Batch[i].uid)
    /\ \A i, j \in DOMAIN Batch :
           i < j => Batch[i].rv < Batch[j].rv /\ Batch[i].uid # Batch[j].uid
HeldOK ==
    /\ \A i \in DOMAIN outCh :
           outCh[i].uid # None => Was(outCh[i].uid, outCh[i].rv, outCh[i].deleted)
    /\ \A n \in Names :
           IF store[n].uid = None THEN store[n] = Nothing
           ELSE NameOf[store[n].uid] = n /\ Was(store[n].uid, store[n].rv, FALSE)

(***************************************************************************)
(* The order of an object's versions on their way.                         *)
(***************************************************************************)
\* An event has been noted, or is too old to be read again.
Noted(e) ==
    e.uid # None =>
        \/ e.rv <= watcher.seen[e.uid]
        \/ e.rv + Lookback <= watcher.lastSeenRV
Rising ==
    /\ \A i \in DOMAIN outCh : Noted(outCh[i])
    /\ \A i \in DOMAIN outCh, j \in DOMAIN Batch :
           outCh[i].uid = Batch[j].uid => outCh[i].rv < Batch[j].rv
    /\ \A j \in DOMAIN Batch :
           LET has == store[NameOf[Batch[j].uid]]
           IN has.uid = Batch[j].uid => has.rv <= Batch[j].rv

(***************************************************************************)
(* What is owed is read with whatever is read above it; what is not owed   *)
(* is told.                                                                *)
(***************************************************************************)
Effect(e)   == IF e.deleted THEN Nothing ELSE [uid |-> e.uid, rv |-> e.rv]
About(e, n) == e.uid # None /\ NameOf[e.uid] = n
\* What a client that has st under n has there when it has received ch.
Told(ch, st, n, x) ==
    \/ \E i \in DOMAIN ch :
           /\ About(ch[i], n) /\ Effect(ch[i]) = x
           /\ \A j \in DOMAIN ch : j > i => ~About(ch[j], n)
    \/ st = x /\ \A j \in DOMAIN ch : ~About(ch[j], n)

NoGap ==
    \A u \in Expected :
        Owing(u) => \A i \in DOMAIN Batch : Batch[i].rv >= row[u].rv + Lookback => InHand(u)
Succeeds ==
    \A u, v \in Uids :
        Before(v, u) =>
            /\ \A i, j \in DOMAIN Batch : Batch[i].uid = v /\ Batch[j].uid = u => i < j
            /\ row[v].state = "deleted" /\ Owing(v) /\ ~InHand(v) =>
                   watcher.seen[u] = 0 /\ ~InBatch(u)
GoneTold ==
    \A u \in Expected :
        row[u].state = "deleted" /\ ~Owing(u) =>
            \E x \in Stored : x.uid # u /\ Told(outCh, store[NameOf[u]], NameOf[u], x)
LiveTold ==
    \A u \in Expected \cap Live :
        NameOf[u] \notin crossed /\ ~Owing(u) =>
            /\ Told(outCh, store[NameOf[u]], NameOf[u], [uid |-> u, rv |-> row[u].rv])
            /\ \A v \in Others(u) : ~InBatch(v)

(***************************************************************************)
(* The initial list.                                                       *)
(***************************************************************************)
\* A client with store st has u once it has received what is before k in ch, and keeps it.
Settled(ch, st, u, k) ==
    \/ \E i \in DOMAIN ch : /\ i < k /\ ch[i].uid = u
                            /\ \A j \in DOMAIN ch : j > i => ch[j].uid \notin Others(u)
    \/ st.uid = u /\ \A j \in DOMAIN ch : ch[j].uid \notin Others(u)
Listing(u) == u \in watcher.owed \cap Live /\ ~watcher.short /\ watcher.pc # "starting"
              /\ NameOf[u] \notin crossed
Predecessors ==
    /\ \A u \in watcher.owed : u \in Uids /\ row[u].state # "absent"
    /\ \A u \in Uids : Listing(u) =>
           \A v \in Others(u) : row[v].state = "deleted" => ~Owing(v) \/ InHand(v)
ListSent ==
    \A u \in Uids : Listing(u) =>
        \/ ~watcher.listed /\ InBatch(u)
        \/ /\ \A v \in Others(u) : ~InBatch(v)
           /\ Settled(outCh, store[NameOf[u]], u, Len(outCh) + 1)
EndIsLast ==
    \A u \in Uids : Listing(u) =>
        /\ endSeen => Settled(outCh, store[NameOf[u]], u, 0)
        /\ \A k \in DOMAIN outCh :
               outCh[k] = EndMark => Settled(outCh, store[NameOf[u]], u, k)
EndOnItsWay ==
    IF watcher.initialListDone
    THEN /\ watcher.listed
         /\ endSeen \/ watcher.sent = Capacity \/ \E i \in DOMAIN outCh : outCh[i] = EndMark
    ELSE Len(outCh) <= watcher.sent /\ ~endSeen /\ \A i \in DOMAIN outCh : outCh[i] # EndMark

(***************************************************************************)
(* The purge.                                                              *)
(***************************************************************************)
Covering ==
    /\ \A u \in watcher.covers : row[u].state \in {"deleted", "purged"}
    /\ \A u \in Uids : row[u].state \in {"absent", "live"} => tries[u] = 0
    /\ \A u \in Expected : row[u].state = "deleted" /\ Owing(u) =>
           /\ tries[u] <= missed[u]
           /\ (watcher.pc = "sending" /\ u \in watcher.covers) =>
                  InHand(u) \/ tries[u] < missed[u] \/ missed[u] = 2
Forgotten ==
    \A u \in Uids \ excused : row[u].state = "purged" =>
        /\ store[NameOf[u]].uid # u /\ ~InBatch(u)
        /\ \A i \in DOMAIN outCh : outCh[i].uid # u

Event == Change \cup {EndMark}

-------------------------------------------------------------------------------
(* Typing.                                                                 *)

LEMMA Constants ==
    /\ \A u \in Uids : NameOf[u] \in Names
    /\ None \notin Uids /\ NoOpen \in Open /\ Nothing \in Stored /\ 0 \in Versions
    /\ NewWatcher \in Watcher
BY NamesAssumption, BoundsAssumption
   DEF NoOpen, Open, Nothing, Stored, Versions, NewWatcher, Watcher

LEMMA BookmarkType ==
    ASSUME TypeOK, NEW w \in Watcher, sendBookmark(w)
    PROVE  watcher' \in Watcher /\ outCh' \in Seq(Event) /\ Len(outCh') <= Capacity
<1>1. CASE ~cachedRV /\ w.lastSeenRV = 0
  BY <1>1 DEF sendBookmark, TypeOK, Event
<1>2. CASE ~(~cachedRV /\ w.lastSeenRV = 0)
  <2>1. [w EXCEPT !.initialListDone = TRUE] \in Watcher
    BY DEF Watcher
  <2>2. outCh \in Seq(Event) /\ EndMark \in Event /\ Len(outCh) <= Capacity
    BY DEF TypeOK, Event
  <2>3. /\ watcher' = [w EXCEPT !.initialListDone = TRUE]
        /\ outCh' = IF Len(outCh) < Capacity THEN Append(outCh, EndMark) ELSE outCh
    BY <1>2 DEF sendBookmark, Room
  <2>. HIDE DEF Event, EndMark
  <2>. QED  BY <2>1, <2>2, <2>3, BoundsAssumption
<1>. QED  BY <1>1, <1>2

LEMMA PrunedType == ASSUME NEW w \in Watcher PROVE PrunedSeen(w) \in [Uids -> Versions]
BY BoundsAssumption DEF PrunedSeen, Watcher, Versions

LEMMA TypeInit == Init => TypeOK
<1>. SUFFICES ASSUME Init PROVE TypeOK
  OBVIOUS
<1>1. [state |-> "absent", rv |-> 0] \in Row
  BY Constants DEF Row
<1>2. outCh \in Seq(Change \cup {EndMark}) /\ Len(outCh) <= Capacity
  BY BoundsAssumption DEF Init
<1>3. nextVersion \in 1 .. MaxVersion + 1 /\ faults \in 0 .. MaxFaults
  BY BoundsAssumption DEF Init
<1>4. row \in [Uids -> Row] /\ open \in [Uids -> Open] /\ store \in [Names -> Stored]
  BY <1>1, Constants DEF Init
<1>5. tries \in [Uids -> 0 .. 2] /\ missed \in [Uids -> 0 .. 2]
  BY DEF Init
<1>6. watcher \in Watcher
  BY Constants DEF Init
<1>. HIDE DEF Watcher
<1>. QED  BY <1>2, <1>3, <1>4, <1>5, <1>6 DEF Init, TypeOK

\* The watcher w when a relist has read: what changes of it, as Relist says.
ReadInto(w, nudged, batch, owed, short, covers, behind) ==
    [w EXCEPT !.pc = "sending", !.nudged = nudged, !.batch = batch, !.owed = owed,
              !.short = short, !.covers = covers, !.behind = behind]

LEMMA ReadType ==
    ASSUME NEW w \in Watcher, NEW nudged \in BOOLEAN, NEW batch \in Seq(Change),
           NEW owed \in SUBSET Uids, NEW short \in BOOLEAN, NEW covers \in SUBSET Uids,
           NEW behind \in BOOLEAN
    PROVE  ReadInto(w, nudged, batch, owed, short, covers, behind) \in Watcher
  BY DEF ReadInto, Watcher

LEMMA ReadFields ==
    ASSUME NEW w \in Watcher, NEW nudged, NEW batch, NEW owed, NEW short, NEW covers, NEW behind,
           NEW v, v = ReadInto(w, nudged, batch, owed, short, covers, behind)
    PROVE  /\ v.pc = "sending" /\ v.nudged = nudged /\ v.batch = batch /\ v.owed = owed
           /\ v.short = short /\ v.covers = covers /\ v.behind = behind
           /\ v.seen = w.seen /\ v.lastSeenRV = w.lastSeenRV /\ v.listed = w.listed
           /\ v.initialListDone = w.initialListDone /\ v.sent = w.sent
<1>1. /\ v.pc = "sending" /\ v.nudged = nudged /\ v.batch = batch /\ v.owed = owed
      /\ v.short = short /\ v.covers = covers /\ v.behind = behind
  BY DEF ReadInto, Watcher
<1>2. /\ v.seen = w.seen /\ v.lastSeenRV = w.lastSeenRV /\ v.listed = w.listed
      /\ v.initialListDone = w.initialListDone /\ v.sent = w.sent
  BY DEF ReadInto, Watcher
<1>. QED  BY <1>1, <1>2

LEMMA RelistType ==
    ASSUME TypeOK, NEW read, Relist(read)
    PROVE  watcher' \in Watcher /\ missed' \in [Uids -> 0 .. 2] /\ faults' \in 0 .. MaxFaults
<1>. DEFINE starting      == watcher.pc = "starting"
            nudged        == starting /\ watcher.nudged
            changes(news) == [i \in DOMAIN news |-> ChangeOf(news[i])]
            owed          == IF starting THEN Committed ELSE watcher.owed
            short         == IF starting THEN ~(read = Relisted) ELSE watcher.short
            covers        == {u \in Uids : row[u].state = "deleted"}
            behind        == ~(read = Relisted)
<1>1. PICK news \in InOrder({u \in read : Unseen(u)}) :
         watcher' = ReadInto(watcher, nudged, changes(news), owed, short, covers, behind)
  BY Zenon DEF Relist, ReadInto
<1>2. changes(news) \in Seq(Change)
  <2>1. PICK n \in 0 .. MaxVersion : news \in [1 .. n -> {u \in read : Unseen(u)}]
    BY DEF InOrder
  <2>2. read \subseteq Uids
    BY DEF Relist, Relisted, Committed
  <2>3. \A u \in Uids : ChangeOf(u) \in Change
    BY DEF ChangeOf, Change, TypeOK, Row
  <2>4. [i \in DOMAIN news |-> ChangeOf(news[i])] \in [1 .. n -> Change]
    BY <2>1, <2>2, <2>3
  <2>. QED  BY <2>4, BoundsAssumption
<1>3. watcher \in Watcher
  BY DEF TypeOK
<1>4. watcher' \in Watcher
  <2>1. nudged \in BOOLEAN /\ behind \in BOOLEAN
    BY Zenon
  <2>4. covers \in SUBSET Uids
    BY Zenon
  <2>2. owed \in SUBSET Uids
    BY <1>3 DEF Watcher, Committed
  <2>3. short \in BOOLEAN
    BY <1>3 DEF Watcher
  <2>. HIDE DEF nudged, changes, owed, short, covers, behind
  <2>5. PICK batch \in Seq(Change) : batch = changes(news)
    BY <1>2
  <2>. QED  BY <1>1, <1>3, <2>1, <2>2, <2>3, <2>4, <2>5, ReadType
<1>5. missed' \in [Uids -> 0 .. 2]
  BY DEF Relist, TypeOK
<1>6. faults' \in 0 .. MaxFaults
  BY BoundsAssumption DEF Relist, TypeOK, Fault
<1>. QED  BY <1>4, <1>5, <1>6

LEMMA EndType ==
    ASSUME TypeOK, EndRelist
    PROVE  /\ watcher' \in Watcher /\ outCh' \in Seq(Event) /\ Len(outCh') <= Capacity
           /\ tries' \in [Uids -> 0 .. 2]
<1>. DEFINE ended == [watcher EXCEPT !.pc = "idle", !.listed = TRUE, !.covers = {},
                                     !.seen = PrunedSeen(watcher)]
<1>1. watcher \in Watcher
  BY DEF TypeOK
<1>2. ended \in Watcher
  BY <1>1, PrunedType DEF Watcher
<1>3. tries' \in [Uids -> 0 .. 2]
  BY DEF EndRelist, EndOfRelist, TypeOK
<1>4. (watcher' = ended /\ outCh' = outCh) \/ sendBookmark(ended)
  BY DEF EndRelist, EndOfRelist
<1>. QED  BY <1>2, <1>3, <1>4, BookmarkType DEF TypeOK, Event

LEMMA EmitType ==
    ASSUME TypeOK, EmitRow
    PROVE  watcher' \in Watcher /\ outCh' \in Seq(Event) /\ Len(outCh') <= Capacity
<1>. DEFINE change == Head(watcher.batch)
<1>1. watcher \in Watcher /\ watcher.batch \in Seq(Change) /\ watcher.batch # <<>>
  BY DEF EmitRow, TypeOK, Watcher
<1>2. change \in Change /\ Tail(watcher.batch) \in Seq(Change)
  BY <1>1
<1>3. change.uid \in Uids /\ change.rv \in Versions
  BY <1>2 DEF Change
<1>. HIDE DEF change
<1>4. watcher' = [watcher EXCEPT
                    !.batch = Tail(@),
                    !.seen[change.uid] = change.rv,
                    !.lastSeenRV = IF change.rv > @ THEN change.rv ELSE @,
                    !.sent = IF watcher.initialListDone \/ @ = Capacity THEN @ ELSE @ + 1]
  BY DEF EmitRow, change
<1>5. watcher' \in Watcher
  <2>1. [watcher.seen EXCEPT ![change.uid] = change.rv] \in [Uids -> Versions]
    BY <1>1, <1>3 DEF Watcher
  <2>2. (IF watcher.initialListDone \/ watcher.sent = Capacity
         THEN watcher.sent ELSE watcher.sent + 1) \in 0 .. Capacity
    BY <1>1, BoundsAssumption DEF Watcher
  <2>3. watcher.lastSeenRV \in Versions
    BY <1>1 DEF Watcher
  <2>4. watcher' = [watcher EXCEPT
                      !.batch = Tail(watcher.batch),
                      !.seen = [watcher.seen EXCEPT ![change.uid] = change.rv],
                      !.lastSeenRV = IF change.rv > watcher.lastSeenRV
                                     THEN change.rv ELSE watcher.lastSeenRV,
                      !.sent = IF watcher.initialListDone \/ watcher.sent = Capacity
                               THEN watcher.sent ELSE watcher.sent + 1]
    BY <1>4
  <2>. QED  BY <1>1, <1>2, <1>3, <2>1, <2>2, <2>3, <2>4 DEF Watcher
<1>6. outCh' = Append(outCh, change) /\ Len(outCh) < Capacity
  BY DEF EmitRow, Room, change
<1>. QED  BY <1>2, <1>5, <1>6, BoundsAssumption DEF TypeOK, Event

LEMMA ReceiveType ==
    ASSUME TypeOK, Receive
    PROVE  /\ outCh' \in Seq(Event) /\ Len(outCh') <= Capacity
           /\ store' \in [Names -> Stored] /\ endSeen' \in BOOLEAN
<1>1. outCh \in Seq(Event) /\ outCh # <<>> /\ outCh' = Tail(outCh) /\ Len(outCh) <= Capacity
  BY DEF Receive, TypeOK, Event
<1>2. outCh' \in Seq(Event) /\ Len(outCh') <= Capacity /\ Head(outCh) \in Event
  BY <1>1, BoundsAssumption
<1>3. CASE Head(outCh).uid = None
  BY <1>2, <1>3 DEF Receive, TypeOK
<1>4. CASE Head(outCh).uid # None
  <2>1. Head(outCh) \in Change
    BY <1>2, <1>4 DEF Event, EndMark
  <2>2. [uid |-> Head(outCh).uid, rv |-> Head(outCh).rv] \in Stored
    BY <2>1 DEF Change, Stored
  <2>. QED  BY <1>2, <1>4, <2>2, Constants DEF Receive, TypeOK
<1>. QED  BY <1>3, <1>4

LEMMA TypeStep == TypeOK /\ [Next]_vars => TypeOK'
<1>. SUFFICES ASSUME TypeOK, [Next]_vars PROVE TypeOK'
  OBVIOUS
<1>1. ASSUME NEW u \in Uids, NEW op \in {"create", "update", "delete"}, Begin(u, op)
      PROVE  TypeOK'
  BY <1>1, BoundsAssumption DEF Begin, TypeOK, Open, Versions, history
<1>2. ASSUME NEW u \in Uids, Commit(u) PROVE TypeOK'
  <2>1. open[u].rv \in Versions
    BY DEF TypeOK, Open
  <2>2. row' \in [Uids -> Row]
    BY <1>2, <2>1 DEF Commit, TypeOK, Row
  <2>3. open' \in [Uids -> Open]
    BY <1>2, Constants DEF Commit, TypeOK
  <2>4. excused' \in SUBSET Uids /\ crossed' \in SUBSET Names
    BY <1>2, Constants DEF Commit, TypeOK
  <2>. QED  BY <1>2, <2>2, <2>3, <2>4 DEF Commit, TypeOK
<1>3. ASSUME NEW u \in Uids, Rollback(u) PROVE TypeOK'
  BY <1>3, Constants DEF Rollback, TypeOK, history
<1>4. ASSUME NEW u \in Uids, Purge(u) PROVE TypeOK'
  BY <1>4 DEF Purge, TypeOK, Row
<1>5. CASE refreshCachedRV
  BY <1>5 DEF refreshCachedRV, TypeOK, db, history
<1>6. ASSUME NEW lost \in BOOLEAN, nudgeWatchers(lost) PROVE TypeOK'
  <2>1. watcher' \in Watcher
    <3>1. watcher \in Watcher
      BY DEF TypeOK
    <3>2. \/ watcher' = [watcher EXCEPT !.behind = TRUE]
          \/ watcher' = [watcher EXCEPT !.nudged = TRUE]
      BY <1>6 DEF nudgeWatchers
    <3>3. [watcher EXCEPT !.behind = TRUE] \in Watcher
      BY <3>1 DEF Watcher
    <3>4. [watcher EXCEPT !.nudged = TRUE] \in Watcher
      BY <3>1 DEF Watcher
    <3>. QED  BY <3>2, <3>3, <3>4
  <2>2. faults' \in 0 .. MaxFaults
    BY <1>6, BoundsAssumption DEF nudgeWatchers, TypeOK, Fault
  <2>. QED  BY <1>6, <2>1, <2>2 DEF nudgeWatchers, TypeOK, db, history
<1>7. ASSUME NEW read, Relist(read) PROVE TypeOK'
  BY <1>7, RelistType, Zenon DEF Relist, TypeOK, db
<1>8. CASE EmitRow
  BY <1>8, EmitType DEF EmitRow, TypeOK, db, history, Event
<1>9. CASE EndRelist
  BY <1>9, EndType DEF EndRelist, TypeOK, db, Event
<1>10. CASE BookmarkTick
  BY <1>10, BookmarkType DEF BookmarkTick, TypeOK, db, history, Event
<1>11. CASE Receive
  BY <1>11, ReceiveType DEF Receive, TypeOK, db, history, Event
<1>12. CASE Rewatch
  <2>1. faults' \in 0 .. MaxFaults
    BY <1>12, BoundsAssumption DEF Rewatch, TypeOK, Fault
  <2>2. outCh' \in Seq(Change \cup {EndMark}) /\ Len(outCh') <= Capacity
    BY <1>12, BoundsAssumption DEF Rewatch
  <2>3. tries' \in [Uids -> 0 .. 2] /\ missed' \in [Uids -> 0 .. 2]
    BY <1>12 DEF Rewatch
  <2>4. watcher' \in Watcher /\ endSeen' \in BOOLEAN
    BY <1>12, Constants DEF Rewatch
  <2>. QED  BY <1>12, <2>1, <2>2, <2>3, <2>4 DEF Rewatch, TypeOK, db
<1>13. CASE UNCHANGED vars
  BY <1>13 DEF vars, TypeOK
<1>. QED  BY <1>1, <1>2, <1>3, <1>4, <1>5, <1>6, <1>7, <1>8, <1>9, <1>10, <1>11, <1>12, <1>13
          DEF Next, Write

\* Every variable keeps its type: the channel its limit, the cursor and every version held
\* of a row the versions there are, whatever the lookback and the channel.
THEOREM TypeCorrect == Spec => []TypeOK
BY TypeInit, TypeStep, PTL DEF Spec

-------------------------------------------------------------------------------
(* What the actions do, field by field.                                    *)

\* A step that leaves the rows, the channel and the client alone, and of the watcher all
\* but whether it is nudged or behind.
Still ==
    /\ UNCHANGED <<row, outCh, store, endSeen, history>>
    /\ UNCHANGED <<watcher.pc, watcher.seen, watcher.lastSeenRV, watcher.batch, watcher.listed,
                   watcher.initialListDone, watcher.owed, watcher.short, watcher.sent,
                   watcher.covers>>
    /\ nextVersion' >= nextVersion

LEMMA Steps ==
    ASSUME TypeOK, [Next]_vars
    PROVE  \/ Still
           \/ \E u \in Uids : Commit(u) \/ Purge(u)
           \/ \E read \in SUBSET Relisted : Relist(read)
           \/ EmitRow \/ EndRelist \/ BookmarkTick \/ Receive \/ Rewatch
<1>1. ASSUME NEW u \in Uids, NEW op \in {"create", "update", "delete"}, Begin(u, op)
      PROVE  Still
  BY <1>1 DEF Begin, Still, TypeOK
<1>2. ASSUME NEW u \in Uids, Rollback(u) PROVE Still
  BY <1>2 DEF Rollback, Still, TypeOK
<1>3. CASE refreshCachedRV
  BY <1>3 DEF refreshCachedRV, db, Still, TypeOK
<1>4. ASSUME NEW lost \in BOOLEAN, nudgeWatchers(lost) PROVE Still
  <2>1. watcher \in Watcher
    BY DEF TypeOK
  <2>2. \/ watcher' = [watcher EXCEPT !.behind = TRUE]
        \/ watcher' = [watcher EXCEPT !.nudged = TRUE]
    BY <1>4 DEF nudgeWatchers
  <2>3. UNCHANGED <<watcher.pc, watcher.seen, watcher.lastSeenRV, watcher.batch, watcher.listed,
                    watcher.initialListDone, watcher.owed, watcher.short, watcher.sent,
                    watcher.covers>>
    BY <2>1, <2>2 DEF Watcher
  <2>. QED  BY <1>4, <2>3 DEF nudgeWatchers, db, Still, TypeOK
<1>5. CASE UNCHANGED vars
  BY <1>5 DEF vars, Still, history, TypeOK
<1>. QED  BY <1>1, <1>2, <1>3, <1>4, <1>5 DEF Next, Write

LEMMA RelistEffect ==
    ASSUME TypeOK, NEW read \in SUBSET Relisted, Relist(read)
    PROVE  /\ watcher.pc \in {"starting", "idle"} /\ watcher'.pc = "sending"
           /\ \A u \in read, v \in Relisted \ read : row[u].rv < row[v].rv
           /\ Batch' \in Seq(Change)
           /\ \A i \in DOMAIN Batch' :
                  /\ i \in Nat /\ Batch'[i].uid \in read /\ Unseen(Batch'[i].uid)
                  /\ Batch'[i] = ChangeOf(Batch'[i].uid)
           /\ \A u \in read : Unseen(u) => \E i \in DOMAIN Batch' : Batch'[i] = ChangeOf(u)
           /\ \A i, j \in DOMAIN Batch' : i < j => Batch'[i].rv < Batch'[j].rv
           /\ UNCHANGED <<watcher.seen, watcher.lastSeenRV, watcher.listed,
                          watcher.initialListDone, watcher.sent>>
           /\ watcher'.nudged = (watcher.pc = "starting" /\ watcher.nudged)
           /\ watcher'.owed = IF watcher.pc = "starting" THEN Committed ELSE watcher.owed
           /\ watcher'.short = IF watcher.pc = "starting" THEN read # Relisted ELSE watcher.short
           /\ watcher'.covers = {u \in Uids : row[u].state = "deleted"}
           /\ watcher'.behind = (read # Relisted)
<1>. DEFINE found         == {u \in read : Unseen(u)}
            starting      == watcher.pc = "starting"
            nudged        == starting /\ watcher.nudged
            changes(news) == [i \in DOMAIN news |-> ChangeOf(news[i])]
            owed          == IF starting THEN Committed ELSE watcher.owed
            short         == IF starting THEN ~(read = Relisted) ELSE watcher.short
            covers        == {u \in Uids : row[u].state = "deleted"}
            behind        == ~(read = Relisted)
<1>1. PICK news \in InOrder(found) :
         watcher' = ReadInto(watcher, nudged, changes(news), owed, short, covers, behind)
  BY Zenon DEF Relist, ReadInto
<1>2. watcher \in Watcher /\ watcher' \in Watcher
  BY RelistType DEF TypeOK
<1>3. PICK n \in 0 .. MaxVersion : news \in [1 .. n -> found]
  BY DEF InOrder
<1>4. /\ \A i, j \in DOMAIN news : i < j => row[news[i]].rv < row[news[j]].rv
      /\ \A u \in found : \E i \in DOMAIN news : news[i] = u
      /\ \A i \in DOMAIN news : news[i] \in found
  BY <1>3 DEF InOrder
<1>5. /\ watcher'.pc = "sending" /\ Batch' = changes(news)
      /\ UNCHANGED <<watcher.seen, watcher.lastSeenRV, watcher.listed,
                     watcher.initialListDone, watcher.sent>>
      /\ watcher'.nudged = nudged /\ watcher'.owed = owed /\ watcher'.short = short
      /\ watcher'.covers = covers /\ watcher'.behind = behind
  <2>. HIDE DEF nudged, changes, owed, short, covers, behind
  <2>1. PICK batch : batch = changes(news)
    OBVIOUS
  <2>. QED  BY <1>1, <1>2, <2>1, ReadFields DEF Batch
<1>6. Batch' \in Seq(Change)
  BY <1>2 DEF Watcher, Batch
<1>7. DOMAIN Batch' = DOMAIN news /\ \A i \in DOMAIN news : Batch'[i] = ChangeOf(news[i])
  BY <1>5
<1>8. \A u : ChangeOf(u).uid = u /\ ChangeOf(u).rv = row[u].rv
  BY DEF ChangeOf
<1>9. \A i \in DOMAIN Batch' :
         /\ i \in Nat /\ Batch'[i].uid \in read /\ Unseen(Batch'[i].uid)
         /\ Batch'[i] = ChangeOf(Batch'[i].uid)
  BY <1>3, <1>4, <1>7, <1>8
<1>10. \A u \in read : Unseen(u) => \E i \in DOMAIN Batch' : Batch'[i] = ChangeOf(u)
  BY <1>4, <1>7
<1>11. \A i, j \in DOMAIN Batch' : i < j => Batch'[i].rv < Batch'[j].rv
  BY <1>4, <1>7, <1>8
<1>12. /\ watcher.pc \in {"starting", "idle"}
       /\ \A u \in read, v \in Relisted \ read : row[u].rv < row[v].rv
  BY DEF Relist
<1>. QED  BY <1>5, <1>6, <1>9, <1>10, <1>11, <1>12

LEMMA EmitEffect ==
    ASSUME TypeOK, EmitRow
    PROVE  /\ watcher.pc = "sending" /\ Len(outCh) < Capacity
           /\ 1 \in DOMAIN Batch /\ Batch[1] \in Change
           /\ Batch[1].uid \in Uids /\ Batch[1].rv \in Nat /\ Batch[1].deleted \in BOOLEAN
           /\ outCh' = Append(outCh, Batch[1])
           /\ \A i \in DOMAIN Batch' :
                  /\ i \in Nat /\ i + 1 \in DOMAIN Batch /\ 1 < i + 1
                  /\ Batch'[i] = Batch[i + 1]
           /\ \A i \in DOMAIN Batch : i # 1 => i - 1 \in DOMAIN Batch' /\ Batch'[i - 1] = Batch[i]
           /\ watcher'.seen = [watcher.seen EXCEPT ![Batch[1].uid] = Batch[1].rv]
           /\ watcher'.lastSeenRV = IF Batch[1].rv > watcher.lastSeenRV THEN Batch[1].rv
                                    ELSE watcher.lastSeenRV
           /\ watcher'.sent = IF watcher.initialListDone \/ watcher.sent = Capacity
                              THEN watcher.sent ELSE watcher.sent + 1
           /\ UNCHANGED <<watcher.pc, watcher.nudged, watcher.listed, watcher.initialListDone,
                          watcher.owed, watcher.short, watcher.covers, watcher.behind>>
<1>1. watcher \in Watcher /\ watcher.batch \in Seq(Change) /\ watcher.batch # <<>>
  BY DEF EmitRow, TypeOK, Watcher
<1>2. PICK b : b = watcher.batch
  OBVIOUS
<1>3. /\ Head(b) = b[1] /\ b[1] \in Change /\ Len(b) # 0 /\ Tail(b) \in Seq(Change)
      /\ Len(Tail(b)) = Len(b) - 1 /\ \A i \in 1 .. Len(b) - 1 : Tail(b)[i] = b[i + 1]
  BY <1>1, <1>2
<1>4. watcher' = [watcher EXCEPT
                    !.batch = Tail(b),
                    !.seen = [watcher.seen EXCEPT ![b[1].uid] = b[1].rv],
                    !.lastSeenRV = IF b[1].rv > @ THEN b[1].rv ELSE @,
                    !.sent = IF watcher.initialListDone \/ @ = Capacity THEN @ ELSE @ + 1]
  BY <1>1, <1>2, <1>3 DEF EmitRow
<1>5. /\ watcher'.seen = [watcher.seen EXCEPT ![b[1].uid] = b[1].rv]
      /\ watcher'.batch = Tail(b)
      /\ watcher'.lastSeenRV = IF b[1].rv > watcher.lastSeenRV THEN b[1].rv
                               ELSE watcher.lastSeenRV
      /\ watcher'.sent = IF watcher.initialListDone \/ watcher.sent = Capacity
                         THEN watcher.sent ELSE watcher.sent + 1
      /\ UNCHANGED <<watcher.pc, watcher.nudged, watcher.listed, watcher.initialListDone,
                     watcher.owed, watcher.short, watcher.covers, watcher.behind>>
  BY <1>1, <1>4 DEF Watcher
<1>6. outCh' = Append(outCh, b[1])
  BY <1>2, <1>3 DEF EmitRow
<1>7. b \in Seq(Change) /\ \A x \in Change : x.uid \in Uids /\ x.rv \in Nat /\ x.deleted \in BOOLEAN
  BY <1>1, <1>2 DEF Change, Versions
<1>8. PICK t : t = Tail(b)
  OBVIOUS
<1>9. /\ DOMAIN b = 1 .. Len(b) /\ Len(b) \in Nat /\ 1 \in DOMAIN b /\ DOMAIN t = 1 .. Len(b) - 1
      /\ \A i \in DOMAIN t : i \in Nat /\ i + 1 \in DOMAIN b /\ 1 < i + 1 /\ t[i] = b[i + 1]
      /\ \A i \in DOMAIN b : i # 1 => i - 1 \in DOMAIN t /\ t[i - 1] = b[i]
  <2>1. /\ DOMAIN b = 1 .. Len(b) /\ Len(b) \in Nat /\ 1 \in DOMAIN b
        /\ DOMAIN t = 1 .. Len(b) - 1 /\ \A i \in 1 .. Len(b) - 1 : t[i] = b[i + 1]
    BY <1>3, <1>7, <1>8
  <2>2. ASSUME NEW i \in DOMAIN b, i # 1
        PROVE  i - 1 \in DOMAIN t /\ t[i - 1] = b[i]
    <3>1. i - 1 \in 1 .. Len(b) - 1 /\ (i - 1) + 1 = i
      BY <2>1, <2>2
    <3>2. t[i - 1] = b[(i - 1) + 1]
      BY <2>1, <3>1
    <3>. QED  BY <2>1, <3>1, <3>2
  <2>. QED  BY <2>1, <2>2
<1>. QED  BY <1>2, <1>3, <1>5, <1>6, <1>7, <1>8, <1>9 DEF EmitRow, Room, Batch

\* What sendBookmark does to the channel and to the watcher's note of it.
MarkSent(w) ==
    \/ outCh' = outCh /\ watcher'.initialListDone = w.initialListDone
    \/ outCh' = outCh /\ watcher'.initialListDone /\ Len(outCh) >= Capacity
    \/ outCh' = Append(outCh, EndMark) /\ watcher'.initialListDone

LEMMA BookmarkEffect ==
    ASSUME NEW w \in Watcher, sendBookmark(w), Len(outCh) \in Nat
    PROVE  /\ MarkSent(w)
           /\ watcher'.pc = w.pc /\ watcher'.seen = w.seen /\ watcher'.batch = w.batch
           /\ watcher'.lastSeenRV = w.lastSeenRV /\ watcher'.nudged = w.nudged
           /\ watcher'.listed = w.listed /\ watcher'.owed = w.owed /\ watcher'.short = w.short
           /\ watcher'.sent = w.sent /\ watcher'.covers = w.covers /\ watcher'.behind = w.behind
<1>1. CASE ~cachedRV /\ w.lastSeenRV = 0
  BY <1>1 DEF sendBookmark, MarkSent
<1>2. CASE ~(~cachedRV /\ w.lastSeenRV = 0)
  <2>1. /\ watcher' = [w EXCEPT !.initialListDone = TRUE]
        /\ outCh' = IF Len(outCh) < Capacity THEN Append(outCh, EndMark) ELSE outCh
    BY <1>2 DEF sendBookmark, Room
  <2>2. watcher'.initialListDone
    BY <2>1 DEF Watcher
  <2>3. MarkSent(w)
    <3>1. CASE Len(outCh) < Capacity
      BY <2>1, <2>2, <3>1 DEF MarkSent
    <3>2. CASE ~(Len(outCh) < Capacity)
      <4>1. Len(outCh) >= Capacity
        BY <3>2, BoundsAssumption
      <4>2. outCh' = outCh
        BY <2>1, <3>2
      <4>. QED  BY <2>2, <4>1, <4>2 DEF MarkSent
    <3>. QED  BY <3>1, <3>2
  <2>. QED  BY <2>1, <2>3 DEF Watcher
<1>. QED  BY <1>1, <1>2

LEMMA TickEffect ==
    ASSUME TypeOK, BookmarkTick
    PROVE  /\ MarkSent(watcher) /\ watcher.pc = "idle"
           /\ UNCHANGED <<watcher.pc, watcher.seen, watcher.batch, watcher.lastSeenRV,
                          watcher.nudged, watcher.listed, watcher.owed, watcher.short,
                          watcher.sent, watcher.covers, watcher.behind>>
<1>1. watcher \in Watcher /\ Len(outCh) \in Nat
  BY DEF TypeOK
<1>. QED  BY <1>1, BookmarkEffect DEF BookmarkTick

LEMMA EndEffect ==
    ASSUME TypeOK, EndRelist
    PROVE  /\ MarkSent(watcher) /\ watcher.pc = "sending" /\ watcher'.pc = "idle"
           /\ Batch = <<>> /\ Batch' = <<>>
           /\ watcher'.seen = PrunedSeen(watcher) /\ watcher'.listed /\ watcher'.covers = {}
           /\ UNCHANGED <<watcher.lastSeenRV, watcher.nudged, watcher.owed, watcher.short,
                          watcher.sent, watcher.behind>>
           /\ tries' = [u \in Uids |-> IF u \in watcher.covers /\ tries[u] < 2
                                       THEN tries[u] + 1 ELSE tries[u]]
<1>. DEFINE ended == [watcher EXCEPT !.pc = "idle", !.listed = TRUE, !.covers = {},
                                     !.seen = PrunedSeen(watcher)]
<1>1. watcher \in Watcher /\ Len(outCh) \in Nat
  BY DEF TypeOK
<1>2. ended \in Watcher
  BY <1>1, PrunedType DEF Watcher
<1>3. /\ ended.pc = "idle" /\ ended.listed /\ ended.covers = {}
      /\ ended.seen = PrunedSeen(watcher) /\ ended.batch = watcher.batch
      /\ ended.lastSeenRV = watcher.lastSeenRV /\ ended.nudged = watcher.nudged
      /\ ended.owed = watcher.owed /\ ended.short = watcher.short /\ ended.sent = watcher.sent
      /\ ended.behind = watcher.behind /\ ended.initialListDone = watcher.initialListDone
  BY <1>1 DEF Watcher
<1>4. (watcher' = ended /\ outCh' = outCh) \/ sendBookmark(ended)
  BY DEF EndRelist, EndOfRelist
<1>. HIDE DEF ended
<1>5. MarkSent(ended) => MarkSent(watcher)
  BY <1>3 DEF MarkSent
<1>6. CASE watcher' = ended /\ outCh' = outCh
  BY <1>3, <1>6 DEF MarkSent, EndRelist, EndOfRelist, Batch
<1>7. CASE sendBookmark(ended)
  BY <1>1, <1>2, <1>3, <1>5, <1>7, BookmarkEffect DEF EndRelist, EndOfRelist, Batch
<1>. QED  BY <1>4, <1>6, <1>7

-------------------------------------------------------------------------------
(* The table.                                                              *)

LEMMA RowTypes ==
    ASSUME TypeOK
    PROVE  /\ nextVersion \in Nat
           /\ \A u \in Uids :
                  /\ row[u].rv \in Nat /\ open[u].rv \in Nat
                  /\ row[u].state \in {"absent", "live", "deleted", "purged"}
                  /\ open[u].op \in {"none", "create", "update", "delete"}
                  /\ open[u] = NoOpen <=> (open[u].op = "none" /\ open[u].rv = 0)
<1>1. nextVersion \in Nat
  BY BoundsAssumption DEF TypeOK
<1>2. ASSUME NEW u \in Uids
      PROVE  /\ row[u].rv \in Nat /\ open[u].rv \in Nat
             /\ row[u].state \in {"absent", "live", "deleted", "purged"}
             /\ open[u].op \in {"none", "create", "update", "delete"}
             /\ open[u] = NoOpen <=> (open[u].op = "none" /\ open[u].rv = 0)
  <2>1. row[u] \in Row /\ open[u] \in Open
    BY DEF TypeOK
  <2>. QED  BY <2>1 DEF Row, Open, Versions, NoOpen
<1>. QED  BY <1>1, <1>2

LEMMA BeginTable ==
    ASSUME TypeOK, TableOK, NEW u \in Uids, NEW op \in {"create", "update", "delete"},
           Begin(u, op)
    PROVE  TableOK'
<1>1. /\ row' = row /\ nextVersion' = nextVersion + 1
      /\ open' = [open EXCEPT ![u] = [op |-> op, rv |-> nextVersion]]
      /\ row[u].state = IF op = "create" THEN "absent" ELSE "live"
  BY DEF Begin
<1>2. open'[u].op = op /\ open'[u].rv = nextVersion /\ \A v \in Uids \ {u} : open'[v] = open[v]
  BY <1>1 DEF TypeOK
<1>. QED  BY <1>1, <1>2, RowTypes DEF TableOK

LEMMA CommitEffect ==
    ASSUME TypeOK, NEW u \in Uids, Commit(u)
    PROVE  /\ open[u] # NoOpen
           /\ open[u].op = "create" => Others(u) \cap Live = {}
           /\ row'[u].rv = open[u].rv
           /\ row'[u].state = IF open[u].op = "delete" THEN "deleted" ELSE "live"
           /\ open'[u] = NoOpen
           /\ \A v \in Uids \ {u} : row'[v] = row[v] /\ open'[v] = open[v]
           /\ excused' = IF (nextVersion - 1) - open[u].rv >= Lookback
                         THEN excused \cup {u} ELSE excused
           /\ crossed' = IF \E v \in Others(u) :
                                row[v].state = "deleted" /\ row[v].rv > open[u].rv
                         THEN crossed \cup {NameOf[u]} ELSE crossed
           /\ UNCHANGED <<nextVersion, watcher, outCh, store, endSeen, tries, missed>>
BY DEF Commit, TypeOK

LEMMA CommitTable ==
    ASSUME TypeOK, TableOK, NEW u \in Uids, Commit(u)
    PROVE  TableOK'
<1>1. open'[u].op = "none" /\ open'[u].rv = 0
  BY CommitEffect DEF NoOpen
<1>2. open[u].op # "none" /\ open[u].rv > row[u].rv
  BY CommitEffect, RowTypes DEF TableOK
<1>3. \A v \in Uids \ {u} : row[v].state = "live" /\ row'[u].state = "live"
                            => NameOf[v] # NameOf[u]
  <2>1. CASE open[u].op = "create"
    BY <2>1, CommitEffect DEF Others, Live
  <2>2. CASE open[u].op # "create"
    BY <1>2, <2>2, CommitEffect, RowTypes DEF TableOK
  <2>. QED  BY <2>1, <2>2
<1>4. ASSUME NEW v \in Uids
      PROVE  /\ row'[v].rv < nextVersion' /\ open'[v].rv < nextVersion'
             /\ row'[v].state = "absent" <=> row'[v].rv = 0
             /\ open'[v].op = "none" => open'[v].rv = 0
             /\ open'[v].op # "none" => open'[v].rv > row'[v].rv
             /\ open'[v].op = "create" => row'[v].state = "absent"
             /\ open'[v].op \in {"update", "delete"} => row'[v].state = "live"
  <2>1. CASE v = u
    BY <1>1, <1>2, <2>1, CommitEffect, RowTypes DEF TableOK
  <2>2. CASE v # u
    BY <2>2, CommitEffect DEF TableOK
  <2>. QED  BY <2>1, <2>2
<1>5. ASSUME NEW v \in Uids, NEW w \in Uids \ {v}
      PROVE  /\ row'[v].rv = row'[w].rv => row'[v].rv = 0
             /\ row'[v].rv = open'[w].rv => row'[v].rv = 0
             /\ open'[v].rv = open'[w].rv => open'[v].rv = 0
             /\ row'[v].state = "live" /\ row'[w].state = "live" => NameOf[v] # NameOf[w]
  <2>1. CASE v = u
    BY <1>1, <1>2, <1>3, <2>1, CommitEffect, RowTypes DEF TableOK
  <2>2. CASE w = u
    BY <1>1, <1>2, <1>3, <2>2, CommitEffect, RowTypes DEF TableOK
  <2>3. CASE v # u /\ w # u
    BY <2>3, CommitEffect DEF TableOK
  <2>. QED  BY <2>1, <2>2, <2>3
<1>. QED  BY <1>4, <1>5 DEF TableOK

LEMMA RollbackTable ==
    ASSUME TypeOK, TableOK, NEW u \in Uids, Rollback(u)
    PROVE  TableOK'
<1>1. /\ row' = row /\ nextVersion' = nextVersion
      /\ open'[u].op = "none" /\ open'[u].rv = 0 /\ \A v \in Uids \ {u} : open'[v] = open[v]
  BY DEF Rollback, TypeOK, NoOpen
<1>. QED  BY <1>1, RowTypes DEF TableOK

LEMMA PurgeEffect ==
    ASSUME TypeOK, NEW u \in Uids, Purge(u)
    PROVE  /\ row[u].state = "deleted" /\ Old(u)
           /\ row'[u].rv = row[u].rv /\ row'[u].state = "purged"
           /\ \A v \in Uids \ {u} : row'[v] = row[v]
           /\ excused' = IF CaughtUp /\ missed[u] < 2 THEN excused ELSE excused \cup {u}
           /\ UNCHANGED <<nextVersion, open, watcher, outCh, store, endSeen, tries, missed,
                          crossed>>
BY DEF Purge, TypeOK, Row

LEMMA PurgeTable ==
    ASSUME TypeOK, TableOK, NEW u \in Uids, Purge(u)
    PROVE  TableOK'
<1>1. \A v \in Uids : row'[v].rv = row[v].rv
  BY PurgeEffect
<1>2. \A v \in Uids : row'[v].state = row[v].state \/ v = u
  BY PurgeEffect
<1>3. row'[u].state = "purged" /\ row[u].state = "deleted"
  BY PurgeEffect
<1>4. open' = open /\ nextVersion' = nextVersion
  BY PurgeEffect
<1>. QED  BY <1>1, <1>2, <1>3, <1>4, RowTypes DEF TableOK

LEMMA TableStep == ASSUME TypeOK, TableOK, [Next]_vars PROVE TableOK'
<1>1. CASE UNCHANGED db
  BY <1>1 DEF db, TableOK
<1>2. ASSUME NEW u \in Uids, Write(u) PROVE TableOK'
  BY <1>2, BeginTable, CommitTable, RollbackTable DEF Write
<1>3. UNCHANGED db \/ \E u \in Uids : Write(u) \/ Purge(u)
  BY Zenon DEF Next, vars, db, refreshCachedRV, nudgeWatchers, Relist, EmitRow, EndRelist,
         BookmarkTick, Receive, Rewatch
<1>. QED  BY <1>1, <1>2, <1>3, PurgeTable

LEMMA SuccessionStep ==
    ASSUME TypeOK, TableOK, Succession, [Next]_vars PROVE Succession'
<1>. SUFFICES ASSUME NEW u \in Uids, NEW v \in Uids, Before(v, u)', row'[v].state = "deleted"
              PROVE  row'[v].rv < row'[u].rv
  BY DEF Succession
<1>0. u # v /\ NameOf[u] = NameOf[v] /\ row'[u].state = "live" /\ NameOf[u] \notin crossed'
  BY DEF Before
<1>1. CASE UNCHANGED <<row, crossed>>
  BY <1>1 DEF Succession, Before
<1>2. ASSUME NEW w \in Uids, Commit(w) PROVE row'[v].rv < row'[u].rv
  <2>1. crossed \subseteq crossed' /\ open[w].op # "none"
    BY <1>2, CommitEffect, RowTypes DEF TableOK
  <2>2. CASE w = u /\ open[w].op = "create"
    <3>1. v \in Others(u) /\ row'[v] = row[v]
      BY <1>0, <1>2, <2>2, CommitEffect DEF Others
    <3>2. ~(row[v].rv > open[u].rv)
      BY <1>0, <1>2, <2>2, <3>1, CommitEffect
    <3>. QED  BY <1>0, <1>2, <2>1, <2>2, <3>1, <3>2, CommitEffect, RowTypes DEF TableOK
  <2>3. CASE w = u /\ open[w].op # "create"
    <3>1. /\ row[u].state = "live" /\ row'[v] = row[v]
          /\ row[u].rv < row'[u].rv /\ row'[u].rv \in Nat
      BY <1>0, <1>2, <2>1, <2>3, CommitEffect, RowTypes DEF TableOK
    <3>. QED  BY <1>0, <2>1, <3>1, RowTypes DEF Succession, Before
  <2>4. CASE w = v
    <3>1. row[v].state = "live" /\ row[u].state = "live"
      BY <1>0, <1>2, <2>1, <2>4, CommitEffect, RowTypes DEF TableOK
    <3>. QED  BY <1>0, <3>1 DEF TableOK
  <2>5. CASE w # u /\ w # v
    BY <1>0, <1>2, <2>1, <2>5, CommitEffect DEF Succession, Before
  <2>. QED  BY <2>2, <2>3, <2>4, <2>5
<1>3. ASSUME NEW w \in Uids, Purge(w) PROVE row'[v].rv < row'[u].rv
  <2>1. row'[w].state = "purged" /\ crossed' = crossed
        /\ \A x \in Uids \ {w} : row'[x] = row[x]
    BY <1>3, PurgeEffect
  <2>2. row'[u] = row[u] /\ row'[v] = row[v]
    BY <1>0, <2>1
  <2>. QED  BY <1>0, <2>1, <2>2 DEF Succession, Before
<1>4. CASE Still
  BY <1>1, <1>4 DEF Still, history
<1>. QED  BY <1>1, <1>2, <1>3, <1>4, Steps, Zenon
          DEF Relist, EmitRow, EndRelist, BookmarkTick, Receive, Rewatch, db, history

\* What was true of a row stays so, and its version only rises.
LEMMA WasStays ==
    ASSUME TypeOK, TableOK, [Next]_vars
    PROVE  \A u \in Uids : /\ row[u].rv <= row'[u].rv
                           /\ \A rv \in Nat, deleted \in BOOLEAN :
                                  Was(u, rv, deleted) => Was(u, rv, deleted)'
<1>1. CASE row' = row
  BY <1>1, RowTypes DEF Was
<1>2. ASSUME NEW w \in Uids, Commit(w), NEW u \in Uids, NEW rv \in Nat, NEW deleted \in BOOLEAN
      PROVE  row[u].rv <= row'[u].rv /\ (Was(u, rv, deleted) => Was(u, rv, deleted)')
  <2>1. CASE u # w
    BY <1>2, <2>1, CommitEffect, RowTypes DEF Was
  <2>2. CASE u = w
    <3>1. row[u].rv < row'[u].rv /\ row[u].state \in {"absent", "live"} /\ row'[u].rv \in Nat
      BY <1>2, <2>2, CommitEffect, RowTypes DEF TableOK
    <3>. QED  BY <3>1, RowTypes DEF Was
  <2>. QED  BY <2>1, <2>2
<1>3. ASSUME NEW w \in Uids, Purge(w), NEW u \in Uids, NEW rv \in Nat, NEW deleted \in BOOLEAN
      PROVE  row[u].rv <= row'[u].rv /\ (Was(u, rv, deleted) => Was(u, rv, deleted)')
  BY <1>3, PurgeEffect, RowTypes DEF Was
<1>4. row' = row \/ \E w \in Uids : Commit(w) \/ Purge(w)
  BY Steps, Zenon DEF Still, Relist, EmitRow, EndRelist, BookmarkTick, Receive, Rewatch, db
<1>. QED  BY <1>1, <1>2, <1>3, <1>4

-------------------------------------------------------------------------------
(* The watcher, and what is held of rows.                                  *)

LEMMA HeldTypes ==
    ASSUME TypeOK
    PROVE  /\ watcher.pc \in {"starting", "sending", "idle"} /\ watcher.lastSeenRV \in Nat
           /\ watcher.seen \in [Uids -> Versions] /\ \A u \in Uids : watcher.seen[u] \in Nat
           /\ Batch \in Seq(Change) /\ Len(Batch) \in Nat /\ DOMAIN Batch = 1 .. Len(Batch)
           /\ \A i \in DOMAIN Batch :
                  Batch[i].uid \in Uids /\ Batch[i].rv \in Nat /\ Batch[i].deleted \in BOOLEAN
           /\ outCh \in Seq(Event) /\ Len(outCh) \in Nat /\ DOMAIN outCh = 1 .. Len(outCh)
           /\ \A i \in DOMAIN outCh :
                  /\ outCh[i].uid = None => outCh[i] = EndMark
                  /\ outCh[i].uid # None =>
                         /\ outCh[i] \in Change /\ outCh[i] # EndMark
                         /\ outCh[i].uid \in Uids /\ outCh[i].rv \in Nat
                         /\ outCh[i].deleted \in BOOLEAN
           /\ \A n \in Names : store[n].uid \in Uids \cup {None} /\ store[n].rv \in Nat
           /\ watcher.sent \in 0 .. Capacity
<1>1. watcher \in Watcher
  BY DEF TypeOK
<1>2. Batch \in Seq(Change) /\ watcher.seen \in [Uids -> Versions] /\ watcher.sent \in 0 .. Capacity
      /\ watcher.pc \in {"starting", "sending", "idle"} /\ watcher.lastSeenRV \in Versions
  BY <1>1 DEF Watcher, Batch
<1>3. \A x \in Change : x.uid \in Uids /\ x.rv \in Versions /\ x.deleted \in BOOLEAN
  BY DEF Change
<1>4. outCh \in Seq(Event)
  BY DEF TypeOK, Event
<1>5. \A x \in Event : x \in Change \/ (x = EndMark /\ x.uid = None)
  BY DEF Event, EndMark
<1>6. \A x \in Change : x.uid # None /\ x # EndMark
  BY <1>3, Constants DEF EndMark
<1>7. \A n \in Names : store[n].uid \in Uids \cup {None} /\ store[n].rv \in Versions
  BY DEF TypeOK, Stored
<1>8. Versions \subseteq Nat
  BY DEF Versions
<1>9. /\ Len(Batch) \in Nat /\ DOMAIN Batch = 1 .. Len(Batch)
      /\ \A i \in DOMAIN Batch : Batch[i] \in Change
  BY <1>2
<1>10. /\ Len(outCh) \in Nat /\ DOMAIN outCh = 1 .. Len(outCh)
       /\ \A i \in DOMAIN outCh : outCh[i] \in Event
  BY <1>4
<1>. QED  BY <1>2, <1>3, <1>4, <1>5, <1>6, <1>7, <1>8, <1>9, <1>10

\* The events of outCh after it took one more, or gave one away.
LEMMA Grown ==
    ASSUME NEW S, NEW s \in Seq(S), NEW e, NEW t, t = Append(s, e)
    PROVE  /\ Len(t) = Len(s) + 1 /\ DOMAIN t = 1 .. Len(s) + 1 /\ t[Len(s) + 1] = e
           /\ \A i \in 1 .. Len(s) : t[i] = s[i]
           /\ \A i \in DOMAIN t : i \in DOMAIN s \/ i = Len(s) + 1
           /\ DOMAIN s = 1 .. Len(s) /\ Len(s) \in Nat /\ DOMAIN s \subseteq DOMAIN t
OBVIOUS

LEMMA Shifted ==
    ASSUME NEW S, NEW s \in Seq(S), s # <<>>, NEW t, t = Tail(s)
    PROVE  /\ Len(t) = Len(s) - 1 /\ DOMAIN t = 1 .. Len(s) - 1 /\ Head(s) = s[1]
           /\ \A i \in DOMAIN t : t[i] = s[i + 1] /\ i + 1 \in DOMAIN s
           /\ DOMAIN s = 1 .. Len(s) /\ Len(s) \in Nat /\ 1 \in DOMAIN s
OBVIOUS

\* A uid that is pruned is out of the next relist's reach.
LEMMA Pruned ==
    ASSUME TypeOK
    PROVE  /\ PrunedSeen(watcher) \in [Uids -> Versions]
           /\ \A u \in Uids :
                  LET pruned == PrunedSeen(watcher)[u]
                  IN /\ pruned <= watcher.seen[u]
                     /\ pruned # watcher.seen[u] =>
                            watcher.seen[u] + Lookback <= watcher.lastSeenRV
<1>1. watcher \in Watcher
  BY DEF TypeOK
<1>2. ASSUME NEW u \in Uids
      PROVE  /\ PrunedSeen(watcher)[u] <= watcher.seen[u]
             /\ PrunedSeen(watcher)[u] # watcher.seen[u] =>
                    watcher.seen[u] + Lookback <= watcher.lastSeenRV
  BY HeldTypes, DepthAssumption DEF PrunedSeen
<1>. QED  BY <1>1, <1>2, PrunedType

LEMMA WatcherStep ==
    ASSUME TypeOK, TypeOK', TableOK, TableOK', WatcherOK, BatchOK, [Next]_vars
    PROVE  WatcherOK'
<1>0. \A u \in Uids : row[u].rv <= row'[u].rv /\ row[u].rv \in Nat /\ row'[u].rv \in Nat
  <2>1. \A u \in Uids : row'[u].rv \in Nat
    BY DEF TypeOK, Row, Versions
  <2>. QED  BY <2>1, WasStays, RowTypes
<1>00. nextVersion \in Nat /\ nextVersion' \in Nat /\ \A u \in Uids : row'[u].rv < nextVersion'
  BY BoundsAssumption DEF TypeOK, TableOK
<1>1. CASE Still
  <2>1. watcher.lastSeenRV \in Nat /\ \A u \in Uids : watcher.seen[u] \in Nat
    BY HeldTypes
  <2>. QED  BY <1>0, <1>00, <1>1, <2>1 DEF Still, WatcherOK, Batch, history
<1>2. ASSUME NEW u \in Uids, Commit(u) \/ Purge(u) PROVE WatcherOK'
  <2>1. UNCHANGED <<nextVersion, watcher, outCh, endSeen>>
    BY <1>2 DEF Commit, Purge
  <2>. QED  BY <1>0, <1>00, <2>1, HeldTypes DEF WatcherOK, Batch
<1>3. ASSUME NEW read \in SUBSET Relisted, Relist(read) PROVE WatcherOK'
  <2>1. UNCHANGED <<nextVersion, row>>
    BY <1>3 DEF Relist, db
  <2>. QED  BY <1>3, <2>1, RelistEffect DEF WatcherOK
<1>4. CASE EmitRow
  <2>1. UNCHANGED <<nextVersion, row>>
    BY <1>4 DEF EmitRow, db
  <2>2. 1 \in DOMAIN Batch /\ Batch[1].uid \in Uids /\ Batch[1].rv \in Nat
    BY <1>4, EmitEffect
  <2>3. Batch[1].rv <= row[Batch[1].uid].rv
    BY <2>2 DEF BatchOK, Was
  <2>4. watcher'.lastSeenRV < nextVersion'
    BY <1>0, <1>00, <1>4, <2>1, <2>2, <2>3, EmitEffect DEF WatcherOK
  <2>5. \A u \in Uids : watcher'.seen[u] <= row'[u].rv
    BY <1>4, <2>1, <2>2, <2>3, EmitEffect, HeldTypes DEF WatcherOK
  <2>6. watcher'.pc = "sending"
    BY <1>4, EmitEffect
  <2>. QED  BY <2>4, <2>5, <2>6 DEF WatcherOK
<1>5. CASE EndRelist
  <2>1. UNCHANGED <<nextVersion, row>>
    BY <1>5 DEF EndRelist, db
  <2>2. \A u \in Uids : PrunedSeen(watcher)[u] <= row[u].rv
    <3>1. \A u \in Uids : PrunedSeen(watcher)[u] \in Nat
      BY Pruned DEF Versions
    <3>. QED  BY <1>0, <3>1, Pruned, HeldTypes DEF WatcherOK
  <2>. QED  BY <1>5, <2>1, <2>2, EndEffect DEF WatcherOK
<1>6. CASE BookmarkTick
  <2>1. UNCHANGED <<nextVersion, row>>
    BY <1>6 DEF BookmarkTick, db
  <2>. QED  BY <1>6, <2>1, TickEffect DEF WatcherOK, Batch
<1>7. CASE Receive
  BY <1>7 DEF Receive, db, WatcherOK, Batch
<1>8. CASE Rewatch
  <2>1. UNCHANGED <<nextVersion, row>> /\ watcher' = NewWatcher /\ outCh' = <<>> /\ ~endSeen'
    BY <1>8 DEF Rewatch, db
  <2>2. nextVersion > 0
    BY DEF TypeOK
  <2>. QED  BY <1>0, <2>1, <2>2 DEF WatcherOK, NewWatcher, Batch
<1>. QED  BY <1>1, <1>2, <1>3, <1>4, <1>5, <1>6, <1>7, <1>8, Steps

LEMMA BatchStep ==
    ASSUME TypeOK, TypeOK', TableOK, WatcherOK, BatchOK, [Next]_vars
    PROVE  BatchOK'
<1>0. \A u \in Uids : /\ row[u].rv <= row'[u].rv /\ row[u].rv \in Nat /\ row'[u].rv \in Nat
                      /\ \A rv \in Nat, deleted \in BOOLEAN :
                             Was(u, rv, deleted) => Was(u, rv, deleted)'
  <2>1. \A u \in Uids : row'[u].rv \in Nat
    BY DEF TypeOK, Row, Versions
  <2>. QED  BY <2>1, WasStays, RowTypes
<1>1. CASE UNCHANGED <<watcher.batch, watcher.seen, watcher.lastSeenRV>>
  <2>1. ASSUME NEW i \in DOMAIN Batch'
        PROVE  /\ Was(Batch[i].uid, Batch[i].rv, Batch[i].deleted)'
               /\ watcher'.seen[Batch'[i].uid] < Batch'[i].rv
               /\ Reach(Batch[i].uid)'
    <3>1. PICK u \in Uids, rv \in Nat, deleted \in BOOLEAN :
              /\ Batch'[i].uid = u /\ Batch'[i].rv = rv /\ Batch'[i].deleted = deleted
              /\ Was(u, rv, deleted) /\ watcher.seen[u] < rv /\ Reach(u)
      <4>1. i \in DOMAIN Batch /\ Batch'[i] = Batch[i]
        BY <1>1, <2>1 DEF Batch
      <4>2. Batch[i].uid \in Uids /\ Batch[i].rv \in Nat /\ Batch[i].deleted \in BOOLEAN
        BY <4>1, HeldTypes
      <4>3. /\ Was(Batch[i].uid, Batch[i].rv, Batch[i].deleted)
            /\ watcher.seen[Batch[i].uid] < Batch[i].rv /\ Reach(Batch[i].uid)
        BY <4>1 DEF BatchOK
      <4>. QED  BY <4>1, <4>2, <4>3
    <3>2. Was(u, rv, deleted)' /\ row[u].rv <= row'[u].rv
      BY <1>0, <3>1
    <3>3. Was(Batch[i].uid, Batch[i].rv, Batch[i].deleted)'
      BY <3>1, <3>2 DEF Was
    <3>4. Reach(Batch[i].uid)'
      <4>1. row[u].rv \in Nat /\ row'[u].rv \in Nat /\ watcher.lastSeenRV \in Nat
        BY <1>0, HeldTypes
      <4>. QED  BY <1>1, <3>1, <3>2, <4>1, DepthAssumption DEF Reach
    <3>. QED  BY <1>1, <3>1, <3>3, <3>4
  <2>. QED  BY <1>1, <2>1 DEF BatchOK, Batch
<1>3. ASSUME NEW read \in SUBSET Relisted, Relist(read) PROVE BatchOK'
  <2>1. row' = row
    BY <1>3 DEF Relist, db
  <2>2. ASSUME NEW i \in DOMAIN Batch'
        PROVE  /\ Was(Batch[i].uid, Batch[i].rv, Batch[i].deleted)'
               /\ watcher'.seen[Batch'[i].uid] < Batch'[i].rv
               /\ Reach(Batch[i].uid)'
               /\ Batch'[i].rv = row[Batch'[i].uid].rv
    <3>1. PICK u \in Relisted : Batch'[i] = ChangeOf(u) /\ Unseen(u) /\ Batch'[i].uid = u
      BY <1>3, <2>2, RelistEffect
    <3>2. u \in Uids /\ row[u].state \in {"live", "deleted"} /\ row[u].rv > 0
          /\ watcher.lastSeenRV < row[u].rv + Lookback
      BY <3>1, RowTypes, HeldTypes, DepthAssumption DEF Relisted, Committed, TableOK
    <3>3. /\ Batch'[i].rv = row[u].rv /\ Batch'[i].deleted = (row[u].state = "deleted")
          /\ watcher'.seen = watcher.seen /\ watcher'.lastSeenRV = watcher.lastSeenRV
      BY <1>3, <3>1, RelistEffect DEF ChangeOf
    <3>4. Was(Batch[i].uid, Batch[i].rv, Batch[i].deleted)'
      <4>1. CASE row[u].state = "live"
        <5>1. ~Batch'[i].deleted
          BY <3>3, <4>1
        <5>. QED  BY <2>1, <3>1, <3>2, <3>3, <4>1, <5>1, RowTypes DEF Was
      <4>2. CASE row[u].state = "deleted"
        <5>1. Batch'[i].deleted
          BY <3>3, <4>2
        <5>. QED  BY <2>1, <3>1, <3>2, <3>3, <4>2, <5>1, RowTypes DEF Was
      <4>. QED  BY <3>2, <4>1, <4>2
    <3>5. watcher'.seen[u] < Batch'[i].rv
      BY <3>1, <3>3 DEF Unseen
    <3>6. Reach(Batch[i].uid)'
      BY <2>1, <3>1, <3>2, <3>3 DEF Reach
    <3>. QED  BY <3>1, <3>3, <3>4, <3>5, <3>6
  <2>3. \A i, j \in DOMAIN Batch' : i < j => Batch'[i].rv < Batch'[j].rv
    BY <1>3, RelistEffect
  <2>4. \A i, j \in DOMAIN Batch' : i < j => Batch'[i].uid # Batch'[j].uid
    <3>1. \A i \in DOMAIN Batch' : Batch'[i].uid \in Uids
      BY <1>3, RelistEffect DEF Relisted, Committed
    <3>. QED  BY <2>2, <2>3, <3>1, RowTypes
  <2>. QED  BY <2>2, <2>3, <2>4 DEF BatchOK
<1>4. CASE EmitRow
  <2>1. row' = row
    BY <1>4 DEF EmitRow, db
  <2>2. PICK e \in Change : e = Batch[1]
    BY <1>4, EmitEffect
  <2>3. /\ e.uid \in Uids /\ e.rv \in Nat /\ 1 \in DOMAIN Batch
        /\ \A i \in DOMAIN Batch' : Batch'[i] = Batch[i + 1] /\ i + 1 \in DOMAIN Batch /\ 1 < i + 1
    BY <1>4, <2>2, EmitEffect
  <2>4. ASSUME NEW i \in DOMAIN Batch'
        PROVE  /\ Was(Batch[i].uid, Batch[i].rv, Batch[i].deleted)'
               /\ watcher'.seen[Batch'[i].uid] < Batch'[i].rv
               /\ Reach(Batch[i].uid)'
    <3>1. PICK u \in Uids, rv \in Nat, deleted \in BOOLEAN :
              /\ Batch'[i].uid = u /\ Batch'[i].rv = rv /\ Batch'[i].deleted = deleted
              /\ Was(u, rv, deleted) /\ watcher.seen[u] < rv /\ Reach(u)
              /\ e.rv < rv /\ e.uid # u
      <4>1. PICK k \in DOMAIN Batch : k = i + 1 /\ 1 < k /\ Batch'[i] = Batch[k]
        BY <2>3
      <4>2. /\ Batch[k].uid \in Uids /\ Batch[k].rv \in Nat /\ Batch[k].deleted \in BOOLEAN
            /\ Was(Batch[k].uid, Batch[k].rv, Batch[k].deleted)
            /\ watcher.seen[Batch[k].uid] < Batch[k].rv /\ Reach(Batch[k].uid)
            /\ e.rv < Batch[k].rv /\ e.uid # Batch[k].uid
        <5>1. Batch[k].uid \in Uids /\ Batch[k].rv \in Nat /\ Batch[k].deleted \in BOOLEAN
          BY HeldTypes
        <5>2. /\ Was(Batch[k].uid, Batch[k].rv, Batch[k].deleted)
              /\ watcher.seen[Batch[k].uid] < Batch[k].rv /\ Reach(Batch[k].uid)
          BY DEF BatchOK
        <5>3. Batch[1].rv < Batch[k].rv /\ Batch[1].uid # Batch[k].uid
          BY <2>3, <4>1 DEF BatchOK
        <5>. QED  BY <2>2, <5>1, <5>2, <5>3
      <4>. QED  BY <4>1, <4>2
    <3>2. Was(u, rv, deleted)'
      BY <1>0, <3>1
    <3>3. watcher'.seen[u] = watcher.seen[u]
      BY <1>4, <2>2, <3>1, EmitEffect, HeldTypes
    <3>4. watcher'.lastSeenRV < row'[u].rv + Lookback
      <4>1. e.rv < row[u].rv + Lookback /\ watcher.lastSeenRV < row[u].rv + Lookback
        BY <2>3, <3>1, RowTypes, DepthAssumption DEF Reach, Was
      <4>2. watcher'.lastSeenRV \in {e.rv, watcher.lastSeenRV}
        BY <1>4, <2>2, EmitEffect
      <4>. QED  BY <2>1, <4>1, <4>2
    <3>. QED  BY <3>1, <3>2, <3>3, <3>4 DEF Was, Reach
  <2>5. ASSUME NEW i \in DOMAIN Batch', NEW j \in DOMAIN Batch', i < j
        PROVE  Batch'[i].rv < Batch'[j].rv /\ Batch'[i].uid # Batch'[j].uid
    <3>1. i \in Nat /\ j \in Nat
      BY <1>4, EmitEffect
    <3>2. PICK k \in DOMAIN Batch, l \in DOMAIN Batch :
              k < l /\ Batch'[i] = Batch[k] /\ Batch'[j] = Batch[l]
      BY <2>3, <2>5, <3>1
    <3>. QED  BY <3>2 DEF BatchOK
  <2>. QED  BY <2>4, <2>5 DEF BatchOK
<1>5. CASE Batch' = <<>>
  BY <1>5 DEF BatchOK
<1>6. \/ UNCHANGED <<watcher.batch, watcher.seen, watcher.lastSeenRV>>
      \/ \E read \in SUBSET Relisted : Relist(read)
      \/ EmitRow \/ Batch' = <<>>
  <2>1. Rewatch => Batch' = <<>>
    BY DEF Rewatch, NewWatcher, Batch
  <2>2. EndRelist => Batch' = <<>>
    BY EndEffect
  <2>3. BookmarkTick => UNCHANGED <<watcher.batch, watcher.seen, watcher.lastSeenRV>>
    BY TickEffect
  <2>4. Receive \/ (\E u \in Uids : Commit(u) \/ Purge(u)) => watcher' = watcher
    BY DEF Receive, Commit, Purge
  <2>5. Still => UNCHANGED <<watcher.batch, watcher.seen, watcher.lastSeenRV>>
    BY DEF Still
  <2>. QED  BY <2>1, <2>2, <2>3, <2>4, <2>5, Steps
<1>. QED  BY <1>1, <1>3, <1>4, <1>5, <1>6

LEMMA ReceiveEffect ==
    ASSUME TypeOK, Receive
    PROVE  /\ 1 \in DOMAIN outCh /\ Len(outCh') = Len(outCh) - 1
           /\ \A i \in DOMAIN outCh' :
                  /\ i \in Nat /\ i + 1 \in DOMAIN outCh /\ 1 < i + 1
                  /\ outCh'[i] = outCh[i + 1]
           /\ \A i \in DOMAIN outCh :
                  i # 1 => i - 1 \in DOMAIN outCh' /\ outCh'[i - 1] = outCh[i]
           /\ IF outCh[1].uid = None THEN endSeen' /\ store' = store
              ELSE /\ endSeen' = endSeen
                   /\ store'[NameOf[outCh[1].uid]] = Effect(outCh[1])
                   /\ \A n \in Names \ {NameOf[outCh[1].uid]} : store'[n] = store[n]
           /\ UNCHANGED <<row, watcher, history>>
<1>1. PICK s \in Seq(Event) : s = outCh /\ s # <<>> /\ outCh' = Tail(s)
  BY HeldTypes DEF Receive
<1>2. /\ Head(s) = s[1] /\ 1 \in DOMAIN s /\ Len(Tail(s)) = Len(s) - 1
      /\ DOMAIN s = 1 .. Len(s) /\ Len(s) \in Nat /\ DOMAIN Tail(s) = 1 .. Len(s) - 1
      /\ \A i \in 1 .. Len(s) - 1 : Tail(s)[i] = s[i + 1]
  BY <1>1
<1>3. \A i \in DOMAIN Tail(s) :
         i \in Nat /\ i + 1 \in DOMAIN s /\ 1 < i + 1 /\ Tail(s)[i] = s[i + 1]
  BY <1>2
<1>4. ASSUME NEW i \in DOMAIN s, i # 1 PROVE i - 1 \in DOMAIN Tail(s) /\ Tail(s)[i - 1] = s[i]
  <2>1. i - 1 \in 1 .. Len(s) - 1 /\ (i - 1) + 1 = i
    BY <1>2, <1>4
  <2>2. Tail(s)[i - 1] = s[(i - 1) + 1]
    BY <1>2, <2>1
  <2>. QED  BY <1>2, <2>1, <2>2
<1>5. IF s[1].uid = None THEN endSeen' /\ store' = store
      ELSE endSeen' = endSeen /\ store' = [store EXCEPT ![NameOf[s[1].uid]] = Effect(s[1])]
  BY <1>1, <1>2 DEF Receive, Effect
<1>6. s[1].uid # None => NameOf[s[1].uid] \in Names
  BY <1>1, <1>2, HeldTypes, Constants
<1>7. IF s[1].uid = None THEN endSeen' /\ store' = store
      ELSE /\ endSeen' = endSeen
           /\ store'[NameOf[s[1].uid]] = Effect(s[1])
           /\ \A n \in Names \ {NameOf[s[1].uid]} : store'[n] = store[n]
  BY <1>5, <1>6 DEF TypeOK
<1>8. UNCHANGED <<row, watcher, history>>
  BY DEF Receive, db
<1>. QED  BY <1>1, <1>2, <1>3, <1>4, <1>7, <1>8

\* Where an event in the channel comes from.
LEMMA ChannelStep ==
    ASSUME TypeOK, [Next]_vars, NEW i \in DOMAIN outCh'
    PROVE  \/ \E k \in DOMAIN outCh : outCh'[i] = outCh[k]
           \/ outCh'[i] = EndMark
           \/ EmitRow /\ outCh'[i] = Batch[1]
<1>1. CASE outCh' = outCh
  BY <1>1
<1>2. ASSUME NEW e, outCh' = Append(outCh, e)
      PROVE  (\E k \in DOMAIN outCh : outCh'[i] = outCh[k]) \/ outCh'[i] = e
  BY <1>2, HeldTypes, Grown
<1>3. CASE EmitRow
  BY <1>2, <1>3, EmitEffect
<1>4. CASE Receive
  BY <1>4, ReceiveEffect
<1>5. CASE EndRelist \/ BookmarkTick
  BY <1>1, <1>2, <1>5, EndEffect, TickEffect DEF MarkSent
<1>6. outCh' # <<>> /\ DOMAIN <<>> = {}
  OBVIOUS
<1>7. \/ outCh' = outCh \/ EmitRow \/ Receive \/ EndRelist \/ BookmarkTick \/ outCh' = <<>>
  BY Steps, Zenon DEF Still, Commit, Purge, Relist, Rewatch
<1>. QED  BY <1>1, <1>3, <1>4, <1>5, <1>6, <1>7

LEMMA HeldStep ==
    ASSUME TypeOK, TableOK, BatchOK, HeldOK, [Next]_vars
    PROVE  HeldOK'
<1>0. \A u \in Uids : \A rv \in Nat, deleted \in BOOLEAN :
          Was(u, rv, deleted) => Was(u, rv, deleted)'
  BY WasStays
<1>1. ASSUME NEW i \in DOMAIN outCh', outCh'[i].uid # None
      PROVE  Was(outCh[i].uid, outCh[i].rv, outCh[i].deleted)'
  <2>1. EndMark.uid = None
    BY DEF EndMark
  <2>2. PICK u \in Uids, rv \in Nat, deleted \in BOOLEAN :
            /\ outCh'[i].uid = u /\ outCh'[i].rv = rv /\ outCh'[i].deleted = deleted
            /\ Was(u, rv, deleted)
    <3>1. CASE \E k \in DOMAIN outCh : outCh'[i] = outCh[k]
      <4>1. PICK k \in DOMAIN outCh : outCh'[i] = outCh[k]
        BY <3>1
      <4>2. outCh[k].uid \in Uids /\ outCh[k].rv \in Nat /\ outCh[k].deleted \in BOOLEAN
        BY <1>1, <4>1, HeldTypes
      <4>3. Was(outCh[k].uid, outCh[k].rv, outCh[k].deleted)
        BY <1>1, <4>1 DEF HeldOK
      <4>. QED  BY <4>1, <4>2, <4>3
    <3>2. CASE EmitRow /\ outCh'[i] = Batch[1]
      <4>1. /\ 1 \in DOMAIN Batch /\ Batch[1].uid \in Uids /\ Batch[1].rv \in Nat
            /\ Batch[1].deleted \in BOOLEAN
        BY <3>2, EmitEffect
      <4>2. Was(Batch[1].uid, Batch[1].rv, Batch[1].deleted)
        BY <4>1 DEF BatchOK
      <4>. QED  BY <3>2, <4>1, <4>2
    <3>. QED  BY <1>1, <2>1, <3>1, <3>2, ChannelStep
  <2>3. Was(u, rv, deleted)'
    BY <1>0, <2>2
  <2>. QED  BY <2>2, <2>3 DEF Was
<1>2. ASSUME NEW n \in Names
      PROVE  IF store'[n].uid = None THEN store'[n] = Nothing
             ELSE NameOf[store'[n].uid] = n /\ Was(store[n].uid, store[n].rv, FALSE)'
  <2>1. CASE store'[n] = store[n]
    <3>1. CASE store[n].uid = None
      BY <2>1, <3>1 DEF HeldOK
    <3>2. CASE store[n].uid # None
      <4>1. PICK u \in Uids, rv \in Nat :
                store[n].uid = u /\ store[n].rv = rv /\ NameOf[u] = n /\ Was(u, rv, FALSE)
        BY <3>2, HeldTypes DEF HeldOK
      <4>2. Was(u, rv, FALSE)'
        BY <1>0, <4>1
      <4>. QED  BY <2>1, <3>2, <4>1, <4>2 DEF Was
    <3>. QED  BY <3>1, <3>2
  <2>2. CASE Receive /\ outCh[1].uid # None /\ n = NameOf[outCh[1].uid]
    <3>1. store'[n] = Effect(outCh[1]) /\ 1 \in DOMAIN outCh /\ row' = row
      BY <2>2, ReceiveEffect
    <3>2. CASE outCh[1].deleted
      BY <3>1, <3>2 DEF Effect, Nothing
    <3>3. CASE ~outCh[1].deleted
      <4>1. /\ store'[n].uid = outCh[1].uid /\ store'[n].rv = outCh[1].rv
            /\ Was(outCh[1].uid, outCh[1].rv, FALSE)
        BY <2>2, <3>1, <3>3 DEF Effect, HeldOK, Was
      <4>. QED  BY <2>2, <3>1, <4>1 DEF Was
    <3>. QED  BY <3>2, <3>3
  <2>3. Receive \/ store' = store
    BY Steps, Zenon DEF Still, Commit, Purge, Relist, EmitRow, EndRelist, BookmarkTick, Rewatch
  <2>. QED  BY <2>1, <2>2, <2>3, ReceiveEffect
<1>. QED  BY <1>1, <1>2 DEF HeldOK

-------------------------------------------------------------------------------
(* The order of an object's versions.                                      *)

LEMMA NotedStays ==
    ASSUME TypeOK, TypeOK', [Next]_vars, ~Rewatch, BatchOK,
           NEW e \in Change, Noted(e)
    PROVE  Noted(e)'
<1>0. e.uid \in Uids /\ e.rv \in Nat /\ e.uid # None /\ watcher'.lastSeenRV \in Nat
  BY Constants DEF Change, Versions, TypeOK, Watcher
<1>1. CASE UNCHANGED <<watcher.seen, watcher.lastSeenRV>>
  BY <1>1 DEF Noted
<1>2. CASE EmitRow
  <2>1. /\ 1 \in DOMAIN Batch /\ Batch[1].uid \in Uids /\ Batch[1].rv \in Nat
        /\ watcher'.seen = [watcher.seen EXCEPT ![Batch[1].uid] = Batch[1].rv]
        /\ watcher'.lastSeenRV >= watcher.lastSeenRV
    BY <1>2, EmitEffect, HeldTypes
  <2>2. watcher.seen[Batch[1].uid] < Batch[1].rv
    BY <2>1 DEF BatchOK
  <2>3. watcher'.seen[e.uid] >= watcher.seen[e.uid]
    BY <1>0, <2>1, <2>2, HeldTypes
  <2>4. watcher.seen[e.uid] \in Nat /\ watcher.lastSeenRV \in Nat /\ watcher'.seen[e.uid] \in Nat
    BY <1>0, <2>1, HeldTypes
  <2>. QED  BY <1>0, <2>1, <2>3, <2>4, DepthAssumption DEF Noted
<1>3. CASE EndRelist
  <2>1. watcher'.seen = PrunedSeen(watcher) /\ watcher'.lastSeenRV = watcher.lastSeenRV
    BY <1>3, EndEffect
  <2>2. PICK s \in Nat, p \in Nat :
            /\ s = watcher.seen[e.uid] /\ p = watcher'.seen[e.uid] /\ p <= s
            /\ p # s => s + Lookback <= watcher.lastSeenRV
    <3>1. PICK pruned \in Nat : pruned = PrunedSeen(watcher)[e.uid]
      BY <1>0, Pruned DEF Versions
    <3>2. /\ pruned <= watcher.seen[e.uid]
          /\ pruned # watcher.seen[e.uid] => watcher.seen[e.uid] + Lookback <= watcher.lastSeenRV
      BY <1>0, <3>1, Pruned
    <3>3. watcher.seen[e.uid] \in Nat
      BY <1>0, HeldTypes
    <3>. QED  BY <2>1, <3>1, <3>2, <3>3
  <2>3. watcher.lastSeenRV \in Nat
    BY HeldTypes
  <2>. QED  BY <1>0, <2>1, <2>2, <2>3, DepthAssumption DEF Noted
<1>4. UNCHANGED <<watcher.seen, watcher.lastSeenRV>> \/ EmitRow \/ EndRelist
  BY Steps, RelistEffect, TickEffect DEF Still, Commit, Purge, Receive
<1>. QED  BY <1>1, <1>2, <1>3, <1>4

LEMMA RisingStep ==
    ASSUME TypeOK, TypeOK', TableOK, WatcherOK, BatchOK, HeldOK, Rising, [Next]_vars
    PROVE  Rising'
<1>1. ASSUME NEW i \in DOMAIN outCh' PROVE Noted(outCh[i])'
  <2>1. CASE outCh'[i].uid = None
    BY <2>1 DEF Noted
  <2>2. ASSUME NEW k \in DOMAIN outCh, outCh[k] = outCh'[i], outCh'[i].uid # None
        PROVE  Noted(outCh[i])'
    <3>1. PICK e \in Change : e = outCh[k] /\ Noted(e)
      BY <2>2, HeldTypes DEF Rising
    <3>2. Rewatch => outCh' = <<>>
      BY DEF Rewatch
    <3>3. Noted(e)'
      BY <3>1, <3>2, NotedStays
    <3>. QED  BY <2>2, <3>1, <3>3
  <2>3. CASE EmitRow /\ outCh'[i] = Batch[1]
    <3>1. PICK e \in Change : e = Batch[1]
      BY <2>3, EmitEffect
    <3>2. watcher'.seen[e.uid] = e.rv /\ e.rv \in Nat
      BY <2>3, <3>1, EmitEffect, HeldTypes
    <3>3. Noted(e)'
      BY <3>2 DEF Noted
    <3>. QED  BY <2>3, <3>1, <3>3
  <2>. QED  BY <2>1, <2>2, <2>3, ChannelStep DEF EndMark
<1>2. ASSUME NEW i \in DOMAIN outCh', NEW j \in DOMAIN Batch', outCh'[i].uid = Batch'[j].uid
      PROVE  outCh'[i].rv < Batch'[j].rv
  <2>1. outCh'[i].uid # None
    <3>1. Batch' \in Seq(Change)
      BY DEF TypeOK, Watcher, Batch
    <3>2. Batch'[j] \in Change
      BY <3>1
    <3>. QED  BY <1>2, <3>2, Constants DEF Change
  <2>2. CASE Batch' = Batch
    <3>1. ~EmitRow
      <4>1. ASSUME EmitRow PROVE FALSE
        <5>1. PICK n \in Nat : DOMAIN Batch = 1 .. n
          BY HeldTypes, Zenon
        <5>2. 1 \in DOMAIN Batch /\ \A l \in DOMAIN Batch' : l + 1 \in DOMAIN Batch
          BY <4>1, EmitEffect
        <5>3. 1 \in 1 .. n /\ \A l \in 1 .. n : l + 1 \in 1 .. n
          BY <2>2, <5>1, <5>2
        <5>. QED  BY <5>3
      <4>. QED  BY <4>1
    <3>2. PICK k \in DOMAIN outCh : outCh'[i] = outCh[k]
      BY <2>1, <3>1, ChannelStep DEF EndMark
    <3>. QED  BY <1>2, <2>2, <3>2 DEF Rising
  <2>3. ASSUME NEW read \in SUBSET Relisted, Relist(read) PROVE outCh'[i].rv < Batch'[j].rv
    <3>1. PICK e \in Change : e = outCh'[i] /\ Noted(e) /\ i \in DOMAIN outCh /\ e = outCh[i]
      BY <2>1, <2>3, HeldTypes DEF Rising, Relist
    <3>2. PICK u \in Relisted : /\ Batch'[j].uid = u /\ Unseen(u)
                                /\ Batch'[j].rv = row[u].rv
      BY <2>3, RelistEffect DEF ChangeOf
    <3>3. u \in Uids /\ row[u].rv \in Nat /\ watcher.seen[u] \in Nat /\ e.rv \in Nat
      BY <3>1, <3>2, HeldTypes, RowTypes DEF Relisted, Committed, Change, Versions
    <3>4. row[u].rv + Lookback > watcher.lastSeenRV
      BY <3>2 DEF Relisted
    <3>5. e.rv <= watcher.seen[u] \/ e.rv + Lookback <= watcher.lastSeenRV
      BY <1>2, <2>1, <3>1, <3>2 DEF Noted
    <3>6. e.rv < row[u].rv
      BY <3>2, <3>3, <3>4, <3>5, HeldTypes, DepthAssumption DEF Unseen
    <3>. QED  BY <3>1, <3>2, <3>6
  <2>4. CASE EmitRow
    <3>1. PICK k \in DOMAIN Batch : 1 < k /\ Batch'[j] = Batch[k]
      BY <2>4, EmitEffect
    <3>2. 1 \in DOMAIN Batch
      BY <2>4, EmitEffect
    <3>3. CASE \E l \in DOMAIN outCh : outCh'[i] = outCh[l]
      BY <1>2, <3>1, <3>3 DEF Rising
    <3>4. CASE outCh'[i] = Batch[1]
      BY <3>1, <3>2, <3>4, <1>2 DEF BatchOK
    <3>. QED  BY <2>1, <3>3, <3>4, ChannelStep DEF EndMark
  <2>5. Batch' # <<>>
    BY <1>2
  <2>6. Rewatch \/ EndRelist => Batch' = <<>>
    BY EndEffect DEF Rewatch, NewWatcher, Batch
  <2>7. \/ Batch' = Batch \/ EmitRow \/ \E read \in SUBSET Relisted : Relist(read)
    BY <2>5, <2>6, Steps, TickEffect DEF Still, Commit, Purge, Receive, Batch
  <2>. QED  BY <2>2, <2>3, <2>4, <2>7
<1>3. ASSUME NEW j \in DOMAIN Batch', store'[NameOf[Batch'[j].uid]].uid = Batch'[j].uid
      PROVE  store'[NameOf[Batch'[j].uid]].rv <= Batch'[j].rv
  <2>1. PICK u \in Uids, rv \in Nat : u = Batch'[j].uid /\ rv = Batch'[j].rv /\ NameOf[u] \in Names
    <3>1. Batch' \in Seq(Change)
      BY DEF TypeOK, Watcher, Batch
    <3>2. Batch'[j] \in Change
      BY <3>1
    <3>. QED  BY <3>2, Constants DEF Change, Versions
  <2>2. CASE store' = store /\ \E k \in DOMAIN Batch : Batch'[j] = Batch[k]
    BY <1>3, <2>2 DEF Rising
  <2>3. ASSUME NEW read \in SUBSET Relisted, Relist(read)
        PROVE  store'[NameOf[u]].rv <= rv
    <3>1. rv = row[u].rv /\ store' = store
      <4>1. Batch'[j] = ChangeOf(u)
        BY <2>1, <2>3, RelistEffect
      <4>. QED  BY <2>1, <2>3, <4>1 DEF ChangeOf, Relist
    <3>2. store[NameOf[u]].uid = u /\ u # None
      BY <1>3, <2>1, <3>1, Constants
    <3>. QED  BY <2>1, <3>1, <3>2 DEF HeldOK, Was
  <2>4. CASE Receive
    <3>1. Batch'[j] = Batch[j] /\ j \in DOMAIN Batch
      BY <2>4, ReceiveEffect DEF Batch
    <3>2. CASE store'[NameOf[u]] = store[NameOf[u]]
      BY <1>3, <2>1, <3>1, <3>2 DEF Rising
    <3>3. CASE outCh[1].uid # None /\ NameOf[u] = NameOf[outCh[1].uid]
      <4>1. store'[NameOf[u]] = Effect(outCh[1]) /\ 1 \in DOMAIN outCh
        BY <2>4, <3>3, ReceiveEffect
      <4>2. store'[NameOf[u]].uid = u /\ u # None
        BY <1>3, <2>1, Constants
      <4>3. store'[NameOf[u]].uid = outCh[1].uid /\ store'[NameOf[u]].rv = outCh[1].rv
        BY <4>1, <4>2 DEF Effect, Nothing
      <4>4. outCh[1].rv < Batch[j].rv
        BY <2>1, <3>1, <4>1, <4>2, <4>3 DEF Rising
      <4>5. outCh[1].rv \in Nat
        BY <3>3, <4>1, HeldTypes
      <4>. QED  BY <2>1, <3>1, <4>3, <4>4, <4>5
    <3>. QED  BY <2>1, <2>4, <3>2, <3>3, ReceiveEffect
  <2>5. CASE EmitRow
    <3>1. store' = store
      BY <2>5 DEF EmitRow
    <3>. QED  BY <2>2, <2>5, <3>1, EmitEffect, <2>1
  <2>6. Batch' # <<>>
    BY <1>3
  <2>7. Rewatch \/ EndRelist => Batch' = <<>>
    BY EndEffect DEF Rewatch, NewWatcher, Batch
  <2>8. \/ store' = store /\ Batch' = Batch
        \/ EmitRow \/ Receive \/ \E read \in SUBSET Relisted : Relist(read)
    BY <2>6, <2>7, Steps, TickEffect DEF Still, Commit, Purge, Batch, BookmarkTick
  <2>. QED  BY <2>1, <2>2, <2>3, <2>4, <2>5, <2>8
<1>. QED  BY <1>1, <1>2, <1>3 DEF Rising

LEMMA NewsStep ==
    ASSUME TypeOK, Rising, NoOldNews, [Next]_vars
    PROVE  NoOldNews'
<1>1. ASSUME NEW i \in DOMAIN outCh', NEW j \in DOMAIN outCh', i < j,
             outCh'[i].uid = outCh'[j].uid, outCh'[i].uid # None
      PROVE  outCh'[i].rv < outCh'[j].rv
  <2>1. ASSUME NEW e, outCh' = Append(outCh, e), e = EndMark \/ (EmitRow /\ e = Batch[1])
        PROVE  outCh'[i].rv < outCh'[j].rv
    <3>1. /\ DOMAIN outCh = 1 .. Len(outCh) /\ Len(outCh) \in Nat
          /\ \A k \in 1 .. Len(outCh) : outCh'[k] = outCh[k]
          /\ outCh'[Len(outCh) + 1] = e /\ DOMAIN outCh' = 1 .. Len(outCh) + 1
      BY <2>1, HeldTypes, Grown
    <3>2. i \in DOMAIN outCh /\ outCh'[i] = outCh[i]
      BY <1>1, <3>1
    <3>3. CASE j \in DOMAIN outCh
      BY <1>1, <3>1, <3>2, <3>3 DEF NoOldNews
    <3>4. CASE j = Len(outCh) + 1
      <4>1. EmitRow /\ outCh'[j] = Batch[1]
        BY <1>1, <2>1, <3>1, <3>4 DEF EndMark
      <4>. QED  BY <1>1, <3>2, <4>1, EmitEffect DEF Rising
    <3>. QED  BY <3>1, <3>3, <3>4
  <2>2. CASE Receive
    <3>1. PICK k \in DOMAIN outCh, l \in DOMAIN outCh :
              k < l /\ outCh'[i] = outCh[k] /\ outCh'[j] = outCh[l]
      <4>1. i \in Nat /\ j \in Nat /\ i + 1 < j + 1
        BY <1>1, <2>2, ReceiveEffect
      <4>. QED  BY <2>2, <4>1, ReceiveEffect
    <3>. QED  BY <1>1, <3>1 DEF NoOldNews
  <2>3. CASE outCh' = outCh
    BY <1>1, <2>3 DEF NoOldNews
  <2>4. outCh' # <<>>
    BY <1>1
  <2>5. \/ outCh' = outCh \/ outCh' = Append(outCh, EndMark) \/ Receive
        \/ EmitRow /\ outCh' = Append(outCh, Batch[1])
    BY <2>4, Steps, EndEffect, TickEffect, EmitEffect, Zenon
       DEF Still, Commit, Purge, Relist, Rewatch, MarkSent
  <2>. QED  BY <2>1, <2>2, <2>3, <2>5
<1>2. ASSUME NEW i \in DOMAIN outCh', outCh'[i].uid # None,
             store'[NameOf[outCh'[i].uid]].uid = outCh'[i].uid
      PROVE  store'[NameOf[outCh'[i].uid]].rv <= outCh'[i].rv
  <2>1. CASE store' = store
    <3>1. CASE \E k \in DOMAIN outCh : outCh'[i] = outCh[k]
      BY <1>2, <2>1, <3>1 DEF NoOldNews
    <3>2. CASE EmitRow /\ outCh'[i] = Batch[1]
      BY <1>2, <2>1, <3>2, EmitEffect DEF Rising
    <3>. QED  BY <1>2, <3>1, <3>2, ChannelStep DEF EndMark
  <2>2. CASE Receive
    <3>1. PICK k \in DOMAIN outCh : 1 < k /\ outCh'[i] = outCh[k]
      BY <2>2, ReceiveEffect
    <3>2. PICK u \in Uids : u = outCh'[i].uid /\ NameOf[u] \in Names /\ u # None
      BY <1>2, <3>1, HeldTypes, Constants
    <3>3. CASE store'[NameOf[u]] = store[NameOf[u]]
      BY <1>2, <3>1, <3>2, <3>3 DEF NoOldNews
    <3>4. CASE outCh[1].uid # None /\ NameOf[u] = NameOf[outCh[1].uid]
      <4>1. store'[NameOf[u]] = Effect(outCh[1]) /\ 1 \in DOMAIN outCh
        BY <2>2, <3>4, ReceiveEffect
      <4>2. outCh[1].uid = u /\ store'[NameOf[u]].rv = outCh[1].rv
        BY <1>2, <3>2, <4>1 DEF Effect, Nothing
      <4>3. outCh[1].rv < outCh[k].rv
        BY <3>1, <3>2, <4>1, <4>2 DEF NoOldNews
      <4>4. outCh[1].rv \in Nat /\ outCh[k].rv \in Nat
        BY <3>1, <3>2, <4>1, <4>2, HeldTypes
      <4>. QED  BY <3>1, <3>2, <4>2, <4>3, <4>4
    <3>. QED  BY <2>2, <3>2, <3>3, <3>4, ReceiveEffect
  <2>3. Receive \/ store' = store
    BY Steps, Zenon DEF Still, Commit, Purge, Relist, EmitRow, EndRelist, BookmarkTick, Rewatch
  <2>. QED  BY <2>1, <2>2, <2>3
<1>. QED  BY <1>1, <1>2 DEF NoOldNews

-------------------------------------------------------------------------------
(* What is owed, and what is in the watcher's hands.                       *)

LEMMA RowKept ==
    ASSUME TypeOK, TableOK, [Next]_vars, NEW u \in Uids, ~Commit(u)
    PROVE  row'[u].rv = row[u].rv /\ (row'[u].state # "purged" => row'[u] = row[u])
<1>1. ASSUME NEW w \in Uids, Commit(w) \/ Purge(w)
      PROVE  row'[u].rv = row[u].rv /\ (row'[u].state # "purged" => row'[u] = row[u])
  BY <1>1, CommitEffect, PurgeEffect
<1>2. row' = row \/ \E w \in Uids : Commit(w) \/ Purge(w)
  BY Steps, Zenon DEF Still, Relist, EmitRow, EndRelist, BookmarkTick, Receive, Rewatch, db
<1>. QED  BY <1>1, <1>2

\* No step but a new watch or a new version makes a row owed again.
LEMMA OwingFalls ==
    ASSUME TypeOK, TypeOK', TableOK, WatcherOK, BatchOK, [Next]_vars, ~Rewatch,
           NEW u \in Uids, ~Commit(u), Owing(u)'
    PROVE  Owing(u)
<1>0. /\ row'[u].rv = row[u].rv /\ row[u].rv \in Nat /\ watcher.lastSeenRV \in Nat
      /\ watcher.seen[u] \in Nat /\ watcher.seen[u] <= row[u].rv
  BY RowKept, RowTypes, HeldTypes DEF WatcherOK
<1>1. CASE UNCHANGED <<watcher.pc, watcher.seen, watcher.lastSeenRV>>
  BY <1>0, <1>1 DEF Owing, Reach
<1>2. ASSUME NEW read \in SUBSET Relisted, Relist(read) PROVE Owing(u)
  BY <1>0, <1>2, RelistEffect DEF Owing, Reach
<1>3. CASE EmitRow
  <2>1. /\ watcher'.pc = "sending" /\ watcher'.lastSeenRV >= watcher.lastSeenRV
        /\ watcher'.lastSeenRV \in Nat
    BY <1>3, EmitEffect, HeldTypes
  <2>2. watcher'.seen[u] >= watcher.seen[u] /\ watcher'.seen[u] \in Nat
    <3>1. /\ 1 \in DOMAIN Batch /\ Batch[1].uid \in Uids /\ Batch[1].rv \in Nat
          /\ watcher'.seen = [watcher.seen EXCEPT ![Batch[1].uid] = Batch[1].rv]
      BY <1>3, EmitEffect
    <3>2. watcher.seen[Batch[1].uid] < Batch[1].rv
      BY <3>1 DEF BatchOK
    <3>. QED  BY <1>0, <3>1, <3>2, HeldTypes
  <2>. QED  BY <1>0, <2>1, <2>2, DepthAssumption DEF Owing, Reach
<1>4. CASE EndRelist
  <2>1. /\ watcher'.pc = "idle" /\ watcher'.lastSeenRV = watcher.lastSeenRV
        /\ watcher'.seen = PrunedSeen(watcher)
    BY <1>4, EndEffect
  <2>2. PrunedSeen(watcher)[u] \in Nat
    BY Pruned DEF Versions
  <2>3. PrunedSeen(watcher)[u] # watcher.seen[u] =>
            watcher.seen[u] + Lookback <= watcher.lastSeenRV
    BY Pruned
  <2>4. watcher.lastSeenRV < row[u].rv + Lookback
    BY <1>0, <2>1 DEF Owing, Reach
  <2>5. CASE PrunedSeen(watcher)[u] = watcher.seen[u]
    BY <1>0, <2>1, <2>5 DEF Owing, Reach
  <2>6. CASE PrunedSeen(watcher)[u] # watcher.seen[u]
    <3>1. watcher.seen[u] < row[u].rv
      BY <1>0, <2>3, <2>4, <2>6, DepthAssumption
    <3>. QED  BY <2>4, <3>1 DEF Owing, Reach
  <2>. QED  BY <2>5, <2>6
<1>5. \/ UNCHANGED <<watcher.pc, watcher.seen, watcher.lastSeenRV>> \/ EmitRow \/ EndRelist
      \/ \E read \in SUBSET Relisted : Relist(read)
  BY Steps, TickEffect DEF Still, Commit, Purge, Receive
<1>. QED  BY <1>1, <1>2, <1>3, <1>4, <1>5

\* What is in the watcher's hands stays there until it is sent.
LEMMA HandStep ==
    ASSUME TypeOK, TableOK, WatcherOK, [Next]_vars, ~Rewatch,
           NEW u \in Uids, ~Commit(u), InHand(u)
    PROVE  InHand(u)' \/ (EmitRow /\ Batch[1].uid = u /\ Batch[1].rv = row[u].rv)
<1>1. PICK i \in DOMAIN Batch : Batch[i].uid = u /\ Batch[i].rv = row[u].rv
  BY DEF InHand, Batch
<1>2. row'[u].rv = row[u].rv
  BY RowKept
<1>3. CASE Batch' = Batch
  BY <1>1, <1>2, <1>3 DEF InHand, Batch
<1>4. CASE EmitRow
  <2>1. CASE i = 1
    BY <1>1, <1>4, <2>1
  <2>2. CASE i # 1
    <3>1. i - 1 \in DOMAIN Batch' /\ Batch'[i - 1] = Batch[i]
      BY <1>4, <2>2, EmitEffect
    <3>. QED  BY <1>1, <1>2, <3>1 DEF InHand, Batch
  <2>. QED  BY <2>1, <2>2
<1>5. Batch # <<>>
  BY <1>1
<1>6. Batch' = Batch \/ EmitRow
  BY <1>5, Steps, TickEffect, EndEffect, RelistEffect
     DEF Still, Commit, Purge, Receive, WatcherOK, Batch
<1>. QED  BY <1>3, <1>4, <1>6

\* What is sent in its present version is owed no more.
LEMMA SentNotOwed ==
    ASSUME TypeOK, NEW u \in Uids, EmitRow, Batch[1].uid = u, Batch[1].rv = row[u].rv
    PROVE  ~Owing(u)'
<1>1. watcher'.pc = "sending" /\ watcher'.seen[u] = row[u].rv /\ row' = row
  BY EmitEffect, HeldTypes DEF EmitRow, db
<1>. QED  BY <1>1, RowTypes DEF Owing

\* A version that commits within the lookback is owed.
LEMMA CommitOwed ==
    ASSUME TypeOK, TableOK, WatcherOK, BatchOK, NEW u \in Uids, Commit(u), u \notin excused'
    PROVE  /\ Owing(u)'
           /\ \A i \in DOMAIN Batch' : Batch'[i].rv < row'[u].rv + Lookback
<1>1. /\ row'[u].rv = open[u].rv /\ open[u].rv \in Nat /\ open[u].rv > row[u].rv
      /\ watcher' = watcher /\ (nextVersion - 1) - open[u].rv < Lookback
  <2>1. ~((nextVersion - 1) - open[u].rv >= Lookback)
    BY CommitEffect
  <2>2. nextVersion \in Nat /\ open[u].rv \in Nat /\ Lookback \in Nat
    BY RowTypes, DepthAssumption
  <2>3. open[u].op # "none"
    BY CommitEffect, RowTypes DEF TableOK
  <2>. QED  BY <2>1, <2>2, <2>3, CommitEffect DEF TableOK
<1>2. \A rv \in Nat : rv < nextVersion => rv < open[u].rv + Lookback
  BY <1>1, RowTypes, DepthAssumption
<1>3. Reach(u)'
  BY <1>1, <1>2, HeldTypes DEF Reach, WatcherOK
<1>4. watcher'.seen[u] < row'[u].rv
  BY <1>1, HeldTypes, RowTypes DEF WatcherOK
<1>5. ASSUME NEW i \in DOMAIN Batch PROVE Batch[i].rv < open[u].rv + Lookback
  <2>1. /\ Batch[i].rv \in Nat /\ Batch[i].uid \in Uids
        /\ Batch[i].rv <= row[Batch[i].uid].rv /\ row[Batch[i].uid].rv < nextVersion
    BY HeldTypes DEF BatchOK, Was, TableOK
  <2>2. Batch[i].rv < nextVersion
    BY <2>1, RowTypes
  <2>. QED  BY <1>2, <2>1, <2>2
<1>. QED  BY <1>1, <1>3, <1>4, <1>5 DEF Owing, Batch

\* A row the relist reads and that is news is in its hands, and with it all below.
LEMMA RelistHand ==
    ASSUME TypeOK, TableOK, WatcherOK, NEW read \in SUBSET Relisted, Relist(read),
           NEW u \in Committed, Owing(u)'
    PROVE  /\ u \in Relisted /\ Unseen(u) /\ (u \in read => InHand(u)')
           /\ \A i \in DOMAIN Batch' : Batch'[i].rv > row[u].rv => InHand(u)'
<1>1. u \in Uids /\ row' = row /\ row[u].rv \in Nat
  BY RowTypes DEF Committed, Relist, db
<1>2. watcher.lastSeenRV < row[u].rv + Lookback /\ watcher.seen[u] < row[u].rv
  BY <1>1, RelistEffect DEF Owing, Reach
<1>3. u \in Relisted /\ Unseen(u)
  BY <1>1, <1>2, HeldTypes, DepthAssumption DEF Relisted, Unseen
<1>4. ASSUME u \in read PROVE InHand(u)'
  <2>1. PICK i \in DOMAIN Batch' : Batch'[i] = ChangeOf(u)
    BY <1>3, <1>4, RelistEffect
  <2>. QED  BY <1>1, <2>1 DEF InHand, ChangeOf, Batch
<1>5. ASSUME NEW i \in DOMAIN Batch', Batch'[i].rv > row[u].rv PROVE u \in read
  <2>1. PICK v \in read : Batch'[i].rv = row[v].rv
    <3>1. Batch'[i].uid \in read /\ Batch'[i] = ChangeOf(Batch'[i].uid)
      BY RelistEffect
    <3>. QED  BY <3>1 DEF ChangeOf
  <2>2. v \in Uids /\ row[v].rv \in Nat
    BY RowTypes DEF Relisted, Committed
  <2>. QED  BY <1>1, <1>3, <1>5, <2>1, <2>2, RelistEffect
<1>. QED  BY <1>3, <1>4, <1>5

LEMMA NoGapStep ==
    ASSUME TypeOK, TypeOK', TableOK, WatcherOK, BatchOK, NoGap, [Next]_vars
    PROVE  NoGap'
<1>. SUFFICES ASSUME NEW u \in Expected', Owing(u)', NEW i \in DOMAIN Batch',
                     Batch'[i].rv >= row'[u].rv + Lookback
              PROVE  InHand(u)'
  BY DEF NoGap
<1>0. u \in Uids /\ u \notin excused' /\ row'[u].state \in {"live", "deleted"}
  BY DEF Expected, Committed
<1>1. CASE Commit(u)
  <2>1. Batch'[i].rv < row'[u].rv + Lookback /\ Batch' = Batch
    BY <1>0, <1>1, CommitOwed, CommitEffect DEF Batch
  <2>2. Batch'[i].rv \in Nat /\ row'[u].rv \in Nat
    BY <1>0, <1>1, <2>1, HeldTypes, CommitEffect, RowTypes
  <2>. QED  BY <2>1, <2>2, DepthAssumption
<1>2. ASSUME ~Commit(u), NEW read \in SUBSET Relisted, Relist(read) PROVE InHand(u)'
  <2>1. row' = row /\ u \in Committed /\ row[u].rv \in Nat
    BY <1>0, <1>2, RowTypes DEF Relist, db, Committed
  <2>2. PICK v \in read : Batch'[i].rv = row[v].rv
    <3>1. Batch'[i].uid \in read /\ Batch'[i] = ChangeOf(Batch'[i].uid)
      BY <1>2, RelistEffect
    <3>. QED  BY <3>1 DEF ChangeOf
  <2>3. row[v].rv \in Nat
    BY RowTypes DEF Relisted, Committed
  <2>4. Batch'[i].rv > row[u].rv
    BY <2>1, <2>2, <2>3, DepthAssumption
  <2>. QED  BY <1>2, <2>1, <2>4, RelistHand
<1>3. ASSUME ~Commit(u), ~Rewatch, NEW k \in DOMAIN Batch, Batch'[i] = Batch[k]
      PROVE  InHand(u)'
  <2>1. row'[u] = row[u]
    BY <1>0, <1>3, RowKept
  <2>2. Owing(u)
    BY <1>0, <1>3, OwingFalls
  <2>3. u \in Expected
    BY <1>0, <2>1, Steps, CommitEffect, PurgeEffect, Zenon
       DEF Expected, Committed, Still, history, Relist, EmitRow, EndRelist, BookmarkTick,
           Receive, Rewatch
  <2>4. InHand(u)
    BY <1>3, <2>1, <2>2, <2>3 DEF NoGap
  <2>. QED  BY <1>0, <1>3, <2>4, HandStep, SentNotOwed
<1>4. Rewatch \/ EndRelist => Batch' = <<>>
  BY EndEffect DEF Rewatch, NewWatcher, Batch
<1>5. Batch' # <<>>
  OBVIOUS
<1>6. \/ \E k \in DOMAIN Batch : Batch'[i] = Batch[k]
      \/ \E read \in SUBSET Relisted : Relist(read)
  <2>1. Batch' = Batch \/ EmitRow \/ \E read \in SUBSET Relisted : Relist(read)
    BY <1>4, <1>5, Steps, TickEffect DEF Still, Commit, Purge, Receive, Batch
  <2>. QED  BY <2>1, EmitEffect
<1>. QED  BY <1>1, <1>2, <1>3, <1>4, <1>5, <1>6

LEMMA NudgeStep ==
    ASSUME TypeOK, TypeOK', TableOK, WatcherOK, BatchOK, NudgeOnItsWay, [Next]_vars
    PROVE  NudgeOnItsWay'
<1>. SUFFICES ASSUME NEW u \in Committed', watcher'.pc # "starting", ~watcher'.behind, Owing(u)'
              PROVE  logged' \/ watcher'.nudged \/ InHand(u)'
  <2>1. \A u \in Uids : (row[u].rv + Lookback > watcher.lastSeenRV)' <=> Reach(u)'
    <3>1. watcher'.lastSeenRV \in Nat /\ \A u \in Uids : row'[u].rv \in Nat
      BY DEF TypeOK, Watcher, Versions, Row
    <3>. QED  BY <3>1, DepthAssumption DEF Reach
  <2>. QED  BY <2>1 DEF NudgeOnItsWay, Owing, Committed
<1>0. u \in Uids /\ row'[u].state \in {"live", "deleted"}
  BY DEF Committed
<1>1. ASSUME NEW w \in Uids, Commit(w) PROVE logged'
  BY <1>1 DEF Commit
<1>2. CASE \E lost \in BOOLEAN : nudgeWatchers(lost)
  <2>1. watcher \in Watcher
    BY DEF TypeOK
  <2>2. \/ watcher' = [watcher EXCEPT !.behind = TRUE]
        \/ watcher' = [watcher EXCEPT !.nudged = TRUE]
    BY <1>2 DEF nudgeWatchers
  <2>3. watcher'.behind \/ watcher'.nudged
    BY <2>1, <2>2 DEF Watcher
  <2>. QED  BY <2>3
<1>3. ASSUME NEW read \in SUBSET Relisted, Relist(read) PROVE InHand(u)'
  <2>1. u \in Committed /\ read = Relisted
    BY <1>0, <1>3, RelistEffect, Zenon DEF Relist, db, Committed
  <2>. QED  BY <1>3, <2>1, RelistHand
<1>4. ASSUME ~Commit(u), ~Rewatch, watcher.pc # "starting",
             logged' = logged, watcher'.nudged = watcher.nudged, watcher'.behind = watcher.behind
      PROVE  logged' \/ watcher'.nudged \/ InHand(u)'
  <2>1. row'[u] = row[u]
    BY <1>0, <1>4, RowKept
  <2>2. Owing(u)
    BY <1>0, <1>4, OwingFalls
  <2>3. logged \/ watcher.nudged \/ InHand(u)
    BY <1>0, <1>4, <2>1, <2>2, RowTypes, HeldTypes, DepthAssumption
       DEF NudgeOnItsWay, Owing, Reach, Committed
  <2>. QED  BY <1>0, <1>4, <2>3, HandStep, SentNotOwed
<1>5. \/ \E w \in Uids : Commit(w)
      \/ \E lost \in BOOLEAN : nudgeWatchers(lost)
      \/ \E read \in SUBSET Relisted : Relist(read)
      \/ Rewatch
      \/ /\ watcher.pc # "starting"
         /\ logged' = logged /\ watcher'.nudged = watcher.nudged
         /\ watcher'.behind = watcher.behind
  <2>1. EmitRow \/ EndRelist \/ BookmarkTick =>
            /\ watcher.pc # "starting"
            /\ logged' = logged /\ watcher'.nudged = watcher.nudged
            /\ watcher'.behind = watcher.behind
    BY EmitEffect, EndEffect, TickEffect DEF EmitRow, EndRelist, BookmarkTick
  <2>2. logged' = logged /\ watcher' = watcher =>
            /\ watcher.pc # "starting"
            /\ logged' = logged /\ watcher'.nudged = watcher.nudged
            /\ watcher'.behind = watcher.behind
    OBVIOUS
  <2>3. ASSUME NEW w \in Uids, Write(w) \/ Purge(w), ~Commit(w)
        PROVE  logged' = logged /\ watcher' = watcher
    BY <2>3 DEF Write, Begin, Rollback, Purge
  <2>4. refreshCachedRV \/ Receive \/ UNCHANGED vars => logged' = logged /\ watcher' = watcher
    BY DEF refreshCachedRV, Receive, vars
  <2>. QED  BY <2>1, <2>2, <2>3, <2>4 DEF Next
<1>6. ~Rewatch
  BY DEF Rewatch, NewWatcher
<1>. QED  BY <1>0, <1>1, <1>2, <1>3, <1>4, <1>5, <1>6

-------------------------------------------------------------------------------
(* A name's objects, one after the other.                                  *)

LEMMA AbsentNotHeld ==
    ASSUME TypeOK, TableOK, WatcherOK, BatchOK, NEW u \in Uids, row[u].state = "absent"
    PROVE  watcher.seen[u] = 0 /\ ~InBatch(u)
<1>1. row[u].rv = 0
  BY DEF TableOK
<1>2. watcher.seen[u] = 0
  BY <1>1, HeldTypes DEF WatcherOK
<1>3. ASSUME NEW i \in DOMAIN Batch, Batch[i].uid = u PROVE FALSE
  BY <1>1, <1>3, HeldTypes DEF BatchOK, Was
<1>. QED  BY <1>2, <1>3 DEF InBatch

\* Who is a live object now was one before, or is created by this step.
LEMMA BeforeStep ==
    ASSUME TypeOK, TableOK, [Next]_vars, NEW u \in Uids, NEW v \in Uids, Before(v, u)'
    PROVE  \/ Commit(u) /\ row[u].state = "absent"
           \/ Before(v, u) /\ ~Commit(v)
<1>0. u # v /\ NameOf[u] = NameOf[v] /\ row'[u].state = "live" /\ NameOf[u] \notin crossed'
  BY DEF Before
<1>1. crossed \subseteq crossed'
  <2>1. \A w \in Uids : Commit(w) \/ Purge(w) => crossed \subseteq crossed'
    BY CommitEffect, PurgeEffect
  <2>. QED  BY <2>1, Steps, Zenon
            DEF Still, history, Relist, EmitRow, EndRelist, BookmarkTick, Receive, Rewatch
<1>2. CASE Commit(u)
  <2>1. row[u].state \in {"absent", "live"} /\ ~Commit(v)
    <3>1. open[u].op \in {"create", "update", "delete"}
      BY <1>2, CommitEffect, RowTypes DEF TableOK
    <3>2. ~Commit(v)
      <4>1. ASSUME Commit(v) PROVE FALSE
        <5>1. open'[u] = open[u] /\ open'[u] = NoOpen /\ open[u] # NoOpen
          BY <1>0, <1>2, <4>1, CommitEffect
        <5>. QED  BY <5>1
      <4>. QED  BY <4>1
    <3>. QED  BY <3>1, <3>2 DEF TableOK
  <2>. QED  BY <1>0, <1>1, <1>2, <2>1 DEF Before
<1>3. CASE ~Commit(u)
  <2>1. row[u].state = "live"
    BY <1>0, <1>3, RowKept
  <2>2. ASSUME Commit(v) PROVE FALSE
    <3>1. CASE open[v].op = "create"
      BY <1>0, <2>1, <2>2, <3>1, CommitEffect DEF Others, Live
    <3>2. CASE open[v].op # "create"
      <4>1. row[v].state = "live"
        BY <2>2, <3>2, CommitEffect, RowTypes DEF TableOK
      <4>. QED  BY <1>0, <2>1, <4>1 DEF TableOK
    <3>. QED  BY <3>1, <3>2
  <2>. QED  BY <1>0, <1>1, <2>1, <2>2 DEF Before
<1>. QED  BY <1>2, <1>3

LEMMA SucceedsStep ==
    ASSUME TypeOK, TypeOK', TableOK, TableOK', Succession', WatcherOK, WatcherOK', BatchOK,
           BatchOK', Succeeds, [Next]_vars
    PROVE  Succeeds'
<1>. SUFFICES ASSUME NEW u \in Uids, NEW v \in Uids, Before(v, u)'
              PROVE  /\ \A i, j \in DOMAIN Batch' :
                            Batch'[i].uid = v /\ Batch'[j].uid = u => i < j
                     /\ row'[v].state = "deleted" /\ Owing(v)' /\ ~InHand(v)' =>
                            watcher'.seen[u] = 0 /\ ~InBatch(u)'
  BY DEF Succeeds
<1>0. u # v /\ NameOf[u] = NameOf[v] /\ row'[u].state = "live" /\ NameOf[u] \notin crossed'
  BY DEF Before
<1>1. CASE Commit(u) /\ row[u].state = "absent"
  <2>1. watcher.seen[u] = 0 /\ ~InBatch(u)
    BY <1>1, AbsentNotHeld
  <2>2. watcher' = watcher
    BY <1>1, CommitEffect
  <2>. QED  BY <2>1, <2>2 DEF InBatch, Batch
<1>2. ASSUME Before(v, u), ~Commit(v), NEW i \in DOMAIN Batch', NEW j \in DOMAIN Batch',
             Batch'[i].uid = v, Batch'[j].uid = u
      PROVE  i < j
  <2>1. CASE Batch' = Batch
    BY <1>2, <2>1 DEF Succeeds
  <2>2. ASSUME NEW read \in SUBSET Relisted, Relist(read) PROVE i < j
    <3>1. /\ Batch'[i].rv = row[v].rv /\ Batch'[j].rv = row[u].rv
          /\ v \in Committed /\ u \in Committed /\ i \in Nat /\ j \in Nat
      <4>1. /\ Batch'[i] = ChangeOf(v) /\ Batch'[j] = ChangeOf(u) /\ v \in read /\ u \in read
            /\ i \in Nat /\ j \in Nat
        BY <1>2, <2>2, RelistEffect
      <4>. QED  BY <4>1 DEF ChangeOf, Relisted
    <3>2. row' = row
      BY <2>2 DEF Relist, db
    <3>3. row[v].state = "deleted"
      BY <1>0, <3>1, <3>2 DEF Committed, TableOK
    <3>4. row[v].rv < row[u].rv
      <4>1. Before(v, u)' /\ row'[v].state = "deleted"
        BY <3>2, <3>3
      <4>. QED  BY <3>2, <4>1 DEF Succession
    <3>5. ~(j < i)
      BY <2>2, <3>1, <3>4, RelistEffect, RowTypes
    <3>6. i # j
      BY <1>0, <1>2
    <3>. QED  BY <3>1, <3>5, <3>6
  <2>3. CASE EmitRow
    <3>1. /\ i \in Nat /\ i + 1 \in DOMAIN Batch /\ Batch'[i] = Batch[i + 1]
          /\ j \in Nat /\ j + 1 \in DOMAIN Batch /\ Batch'[j] = Batch[j + 1]
      BY <2>3, EmitEffect
    <3>2. i + 1 < j + 1
      BY <1>2, <3>1 DEF Succeeds
    <3>. QED  BY <3>1, <3>2
  <2>4. Batch' # <<>>
    OBVIOUS
  <2>5. Rewatch \/ EndRelist => Batch' = <<>>
    BY EndEffect DEF Rewatch, NewWatcher, Batch
  <2>6. Batch' = Batch \/ EmitRow \/ \E read \in SUBSET Relisted : Relist(read)
    BY <2>4, <2>5, Steps, TickEffect DEF Still, Commit, Purge, Receive, Batch
  <2>. QED  BY <2>1, <2>2, <2>3, <2>6
<1>3. ASSUME Before(v, u), ~Commit(v), row'[v].state = "deleted", Owing(v)', ~InHand(v)'
      PROVE  watcher'.seen[u] = 0 /\ ~InBatch(u)'
  <2>1. CASE Rewatch
    BY <2>1 DEF Rewatch, NewWatcher, InBatch, Batch
  <2>2. CASE ~Rewatch
    <3>1. row'[v] = row[v]
      BY <1>3, RowKept
    <3>2. Owing(v) /\ ~InHand(v)
      BY <1>3, <2>2, OwingFalls, HandStep, SentNotOwed
    <3>3. watcher.seen[u] = 0 /\ ~InBatch(u)
      BY <1>3, <3>1, <3>2 DEF Succeeds
    <3>4. CASE UNCHANGED <<watcher.seen, watcher.batch>>
      BY <3>3, <3>4 DEF InBatch, Batch
    <3>5. ASSUME NEW read \in SUBSET Relisted, Relist(read)
          PROVE  watcher'.seen[u] = 0 /\ ~InBatch(u)'
      <4>1. row' = row
        BY <3>5 DEF Relist, db
      <4>2. row[v].rv < row[u].rv
        BY <1>3, <4>1 DEF Succession
      <4>3. v \in Committed
        BY <1>3, <4>1 DEF Committed
      <4>4. ASSUME NEW i \in DOMAIN Batch', Batch'[i].uid = u PROVE FALSE
        <5>1. Batch'[i] = ChangeOf(u)
          BY <3>5, <4>4, RelistEffect
        <5>2. Batch'[i].rv > row[v].rv
          BY <4>2, <5>1, RowTypes DEF ChangeOf
        <5>. QED  BY <1>3, <3>5, <4>3, <5>2, RelistHand
      <4>5. watcher'.seen[u] = 0
        BY <3>3, <3>5, RelistEffect
      <4>. QED  BY <4>4, <4>5 DEF InBatch
    <3>6. CASE EmitRow
      <4>1. /\ 1 \in DOMAIN Batch
            /\ \A i \in DOMAIN Batch' : \E k \in DOMAIN Batch : Batch'[i] = Batch[k]
            /\ watcher'.seen = [watcher.seen EXCEPT ![Batch[1].uid] = Batch[1].rv]
        BY <3>6, EmitEffect
      <4>. QED  BY <3>3, <4>1, HeldTypes DEF InBatch
    <3>7. CASE EndRelist
      <4>1. watcher'.seen[u] <= watcher.seen[u] /\ watcher'.seen[u] \in Nat /\ Batch' = <<>>
        BY <3>7, EndEffect, Pruned DEF Versions
      <4>. QED  BY <3>3, <4>1 DEF InBatch
    <3>8. \/ UNCHANGED <<watcher.seen, watcher.batch>> \/ EmitRow \/ EndRelist
          \/ \E read \in SUBSET Relisted : Relist(read)
      BY <2>2, Steps, TickEffect DEF Still, Commit, Purge, Receive
    <3>. QED  BY <3>4, <3>5, <3>6, <3>7, <3>8
  <2>. QED  BY <2>1, <2>2
<1>. QED  BY <1>1, <1>2, <1>3, BeforeStep

-------------------------------------------------------------------------------
(* What the client will have.                                              *)

LEMMA ToldAppend ==
    ASSUME NEW ch \in Seq(Event), NEW st, NEW n, NEW x, NEW e,
           (About(e, n) /\ Effect(e) = x) \/ (~About(e, n) /\ Told(ch, st, n, x))
    PROVE  Told(Append(ch, e), st, n, x)
<1>1. PICK t : t = Append(ch, e)
  OBVIOUS
<1>2. /\ DOMAIN t = 1 .. Len(ch) + 1 /\ t[Len(ch) + 1] = e /\ Len(ch) \in Nat
      /\ DOMAIN ch = 1 .. Len(ch) /\ \A i \in 1 .. Len(ch) : t[i] = ch[i]
      /\ \A i \in DOMAIN t : i \in DOMAIN ch \/ i = Len(ch) + 1
  BY <1>1, Grown
<1>3. CASE About(e, n) /\ Effect(e) = x
  <2>1. Len(ch) + 1 \in DOMAIN t /\ \A j \in DOMAIN t : ~(j > Len(ch) + 1)
    BY <1>2
  <2>2. Told(t, st, n, x)
    BY <1>2, <1>3, <2>1 DEF Told
  <2>. QED  BY <1>1, <2>2
<1>4. CASE ~About(e, n) /\ Told(ch, st, n, x)
  <2>1. CASE st = x /\ \A j \in DOMAIN ch : ~About(ch[j], n)
    <3>1. Told(t, st, n, x)
      BY <1>2, <1>4, <2>1 DEF Told
    <3>. QED  BY <1>1, <3>1
  <2>2. ASSUME NEW i \in DOMAIN ch, About(ch[i], n), Effect(ch[i]) = x,
               \A j \in DOMAIN ch : j > i => ~About(ch[j], n)
        PROVE  Told(t, st, n, x)
    <3>1. i \in DOMAIN t /\ t[i] = ch[i]
      BY <1>2
    <3>2. \A j \in DOMAIN t : j > i => ~About(t[j], n)
      BY <1>2, <1>4, <2>2
    <3>. QED  BY <2>2, <3>1, <3>2 DEF Told
  <2>. QED  BY <1>1, <1>4, <2>1, <2>2 DEF Told
<1>. QED  BY <1>3, <1>4

LEMMA ToldReceive ==
    ASSUME TypeOK, Receive, NEW n \in Names, NEW x, Told(outCh, store[n], n, x)
    PROVE  Told(outCh, store[n], n, x)'
<1>1. About(outCh[1], n) => store'[n] = Effect(outCh[1])
  BY ReceiveEffect DEF About
<1>2. ~About(outCh[1], n) => store'[n] = store[n]
  BY ReceiveEffect DEF About
<1>3. \A j \in DOMAIN outCh' : outCh'[j] = outCh[j + 1] /\ j + 1 \in DOMAIN outCh /\ j \in Nat
  BY ReceiveEffect
<1>4. CASE store[n] = x /\ \A j \in DOMAIN outCh : ~About(outCh[j], n)
  BY <1>2, <1>3, <1>4, ReceiveEffect DEF Told
<1>5. ASSUME NEW i \in DOMAIN outCh, About(outCh[i], n), Effect(outCh[i]) = x,
             \A j \in DOMAIN outCh : j > i => ~About(outCh[j], n)
      PROVE  Told(outCh', store'[n], n, x)
  <2>1. CASE i = 1
    <3>1. \A j \in DOMAIN outCh' : ~About(outCh'[j], n)
      <4>1. ASSUME NEW j \in DOMAIN outCh' PROVE ~About(outCh'[j], n)
        <5>1. j + 1 \in DOMAIN outCh /\ j + 1 > i /\ outCh'[j] = outCh[j + 1]
          BY <2>1, ReceiveEffect
        <5>. QED  BY <1>5, <5>1
      <4>. QED  BY <4>1
    <3>. QED  BY <1>1, <1>5, <2>1, <3>1 DEF Told
  <2>2. CASE i # 1
    <3>1. i - 1 \in DOMAIN outCh' /\ outCh'[i - 1] = outCh[i] /\ i \in Nat
      BY <2>2, ReceiveEffect, HeldTypes
    <3>2. ASSUME NEW j \in DOMAIN outCh', j > i - 1 PROVE ~About(outCh'[j], n)
      <4>1. j + 1 \in DOMAIN outCh /\ j + 1 > i /\ outCh'[j] = outCh[j + 1]
        BY <1>3, <3>1, <3>2
      <4>. QED  BY <1>5, <4>1
    <3>. QED  BY <1>5, <3>1, <3>2 DEF Told
  <2>. QED  BY <2>1, <2>2
<1>. QED  BY <1>4, <1>5 DEF Told

\* Only an event about the name changes what its client will have.
LEMMA ToldStays ==
    ASSUME TypeOK, [Next]_vars, ~Rewatch, NEW n \in Names, NEW x, Told(outCh, store[n], n, x),
           ~(EmitRow /\ About(Batch[1], n))
    PROVE  Told(outCh, store[n], n, x)'
<1>1. outCh \in Seq(Event) /\ ~About(EndMark, n)
  BY HeldTypes DEF About, EndMark
<1>2. CASE UNCHANGED <<outCh, store>>
  BY <1>2
<1>3. CASE outCh' = Append(outCh, EndMark) /\ store' = store
  BY <1>1, <1>3, ToldAppend
<1>4. CASE EmitRow
  <2>1. outCh' = Append(outCh, Batch[1]) /\ store' = store
    BY <1>4, EmitEffect DEF EmitRow
  <2>. QED  BY <1>1, <1>4, <2>1, ToldAppend
<1>5. \/ UNCHANGED <<outCh, store>> \/ EmitRow \/ Receive
      \/ outCh' = Append(outCh, EndMark) /\ store' = store
  BY Steps, EndEffect, TickEffect, Zenon
     DEF Still, Commit, Purge, Relist, EndRelist, BookmarkTick, MarkSent
<1>. QED  BY <1>2, <1>3, <1>4, <1>5, ToldReceive

\* A row owed no more was owed no more before, or is sent now in its present version.
LEMMA NoMoreOwed ==
    ASSUME TypeOK, TypeOK', TableOK, WatcherOK, BatchOK, NoGap, [Next]_vars,
           NEW u \in Expected', ~Owing(u)'
    PROVE  /\ ~Rewatch /\ ~Commit(u) /\ u \in Expected /\ row'[u] = row[u]
           /\ ~Owing(u) \/ (EmitRow /\ Batch[1].uid = u /\ Batch[1].rv = row[u].rv)
<1>0. u \in Uids /\ u \notin excused' /\ row'[u].state \in {"live", "deleted"}
  BY DEF Expected, Committed
<1>1. ~Rewatch
  BY DEF Rewatch, NewWatcher, Owing
<1>2. ~Commit(u)
  BY <1>0, CommitOwed
<1>3. row'[u] = row[u]
  BY <1>0, <1>2, RowKept
<1>4. u \in Expected
  BY <1>0, <1>3, Steps, CommitEffect, PurgeEffect, Zenon
     DEF Expected, Committed, Still, history, Relist, EmitRow, EndRelist, BookmarkTick,
         Receive, Rewatch
<1>5. ASSUME Owing(u) PROVE EmitRow /\ Batch[1].uid = u /\ Batch[1].rv = row[u].rv
  <2>1. CASE UNCHANGED <<watcher.pc, watcher.seen, watcher.lastSeenRV>>
    BY <1>3, <1>5, <2>1 DEF Owing, Reach
  <2>2. ASSUME NEW read \in SUBSET Relisted, Relist(read) PROVE FALSE
    <3>1. CASE watcher.pc = "starting"
      <4>1. watcher'.seen[u] = 0 /\ watcher'.lastSeenRV = 0
        BY <1>0, <2>2, <3>1, RelistEffect DEF WatcherOK
      <4>2. row'[u].rv > 0 /\ row'[u].rv \in Nat
        BY <1>0, <1>3, RowTypes DEF TableOK
      <4>. QED  BY <4>1, <4>2, DepthAssumption DEF Owing, Reach
    <3>2. CASE watcher.pc # "starting"
      BY <1>3, <1>5, <2>2, <3>2, RelistEffect DEF Owing, Reach
    <3>. QED  BY <3>1, <3>2
  <2>3. CASE EndRelist
    <3>1. /\ watcher'.lastSeenRV = watcher.lastSeenRV /\ watcher.pc # "starting"
          /\ watcher'.seen[u] <= watcher.seen[u] /\ watcher'.seen[u] \in Nat
      BY <1>0, <2>3, EndEffect, Pruned DEF Versions
    <3>. QED  BY <1>0, <1>3, <1>5, <3>1, HeldTypes, RowTypes DEF Owing, Reach
  <2>4. CASE EmitRow
    <3>0. PICK e \in Change : /\ e = Batch[1] /\ e.uid \in Uids /\ e.rv \in Nat
                              /\ 1 \in DOMAIN Batch
      BY <2>4, EmitEffect
    <3>1. /\ watcher.pc = "sending" /\ watcher'.pc = "sending"
          /\ watcher'.seen = [watcher.seen EXCEPT ![e.uid] = e.rv]
          /\ watcher'.lastSeenRV = IF e.rv > watcher.lastSeenRV THEN e.rv
                                   ELSE watcher.lastSeenRV
      BY <2>4, <3>0, EmitEffect
    <3>2. /\ watcher.lastSeenRV < row[u].rv + Lookback /\ watcher.seen[u] < row[u].rv
          /\ row[u].rv \in Nat /\ watcher.lastSeenRV \in Nat
      BY <1>0, <1>5, <3>1, RowTypes, HeldTypes DEF Owing, Reach
    <3>3. e.rv < row[u].rv + Lookback
      <4>1. ASSUME e.rv >= row[u].rv + Lookback PROVE FALSE
        <5>1. InHand(u)
          BY <1>4, <1>5, <3>0, <4>1 DEF NoGap
        <5>2. PICK k \in DOMAIN Batch : Batch[k].rv = row[u].rv
          BY <5>1 DEF InHand, Batch
        <5>3. k = 1 \/ 1 < k
          BY HeldTypes
        <5>4. e.rv <= row[u].rv
          BY <3>0, <3>2, <5>2, <5>3 DEF BatchOK
        <5>. QED  BY <3>0, <3>2, <4>1, <5>4, DepthAssumption
      <4>. QED  BY <3>0, <3>2, <4>1, DepthAssumption
    <3>4. watcher'.lastSeenRV < row'[u].rv + Lookback
      BY <1>3, <3>1, <3>2, <3>3
    <3>5. ~(watcher'.seen[u] < row[u].rv)
      BY <1>3, <3>4 DEF Owing, Reach
    <3>6. e.uid = u
      BY <3>1, <3>2, <3>5, HeldTypes
    <3>7. watcher'.seen[u] = e.rv
      BY <1>0, <3>1, <3>6, HeldTypes
    <3>8. e.rv <= row[u].rv
      BY <3>0, <3>6 DEF BatchOK, Was
    <3>. QED  BY <2>4, <3>0, <3>2, <3>5, <3>6, <3>7, <3>8
  <2>5. \/ UNCHANGED <<watcher.pc, watcher.seen, watcher.lastSeenRV>> \/ EmitRow \/ EndRelist
        \/ \E read \in SUBSET Relisted : Relist(read)
    BY <1>1, Steps, TickEffect DEF Still, Commit, Purge, Receive
  <2>. QED  BY <2>1, <2>2, <2>3, <2>4, <2>5
<1>. QED  BY <1>1, <1>2, <1>3, <1>4, <1>5

LEMMA GoneStep ==
    ASSUME TypeOK, TypeOK', TableOK, WatcherOK, BatchOK, NoGap, GoneTold, [Next]_vars
    PROVE  GoneTold'
<1>. SUFFICES ASSUME NEW u \in Expected', row'[u].state = "deleted", ~Owing(u)'
              PROVE  \E x \in Stored :
                         x.uid # u /\ Told(outCh, store[NameOf[u]], NameOf[u], x)'
  BY DEF GoneTold
<1>0. u \in Uids /\ NameOf[u] \in Names /\ u # None
  BY Constants DEF Expected, Committed
<1>1. /\ ~Rewatch /\ ~Commit(u) /\ u \in Expected /\ row'[u] = row[u]
      /\ ~Owing(u) \/ (EmitRow /\ Batch[1].uid = u /\ Batch[1].rv = row[u].rv)
  BY NoMoreOwed
<1>2. CASE EmitRow /\ About(Batch[1], NameOf[u])
  <2>1. PICK e \in Change : /\ e = Batch[1] /\ 1 \in DOMAIN Batch
                            /\ outCh' = Append(outCh, e) /\ store' = store
    BY <1>2, EmitEffect DEF EmitRow
  <2>2. Effect(e) \in Stored
    BY Constants DEF Effect, Change, Stored
  <2>3. Effect(e).uid # u
    <3>1. CASE e.deleted
      BY <1>0, <3>1 DEF Effect, Nothing
    <3>2. CASE ~e.deleted
      <4>1. ASSUME e.uid = u PROVE FALSE
        <5>1. Was(u, e.rv, FALSE) /\ watcher.seen[u] < e.rv /\ Reach(u)
          BY <2>1, <3>2, <4>1 DEF BatchOK, Was
        <5>2. row[u].rv # e.rv
          BY <1>1, <5>1 DEF Was
        <5>3. ~Owing(u)
          BY <1>1, <2>1, <5>2
        <5>4. row[u].rv \in Nat /\ watcher.seen[u] \in Nat /\ e.rv \in Nat
          BY <1>0, <2>1, RowTypes, HeldTypes DEF Change, Versions
        <5>. QED  BY <5>1, <5>3, <5>4 DEF Owing, Was
      <4>. QED  BY <3>2, <4>1 DEF Effect
    <3>. QED  BY <3>1, <3>2
  <2>4. Told(Append(outCh, e), store[NameOf[u]], NameOf[u], Effect(e))
    BY <1>2, <2>1, HeldTypes, ToldAppend
  <2>. QED  BY <2>1, <2>2, <2>3, <2>4
<1>3. CASE ~(EmitRow /\ About(Batch[1], NameOf[u]))
  <2>1. ~Owing(u)
    BY <1>0, <1>1, <1>3 DEF About
  <2>2. PICK x \in Stored : x.uid # u /\ Told(outCh, store[NameOf[u]], NameOf[u], x)
    BY <1>1, <2>1 DEF GoneTold
  <2>3. Told(outCh, store[NameOf[u]], NameOf[u], x)'
    BY <1>0, <1>1, <1>3, <2>2, ToldStays
  <2>. QED  BY <2>2, <2>3
<1>. QED  BY <1>2, <1>3

LEMMA LiveStep ==
    ASSUME TypeOK, TypeOK', TableOK, TableOK', Succession, WatcherOK, BatchOK, NoGap,
           Succeeds, LiveTold, [Next]_vars
    PROVE  LiveTold'
<1>. SUFFICES ASSUME NEW u \in (Expected \cap Live)', NameOf[u] \notin crossed', ~Owing(u)'
              PROVE  /\ Told(outCh', store'[NameOf[u]], NameOf[u],
                             [uid |-> u, rv |-> row'[u].rv])
                     /\ \A v \in Others(u) : ~InBatch(v)'
  <2>1. \A u : Others(u)' = Others(u)
    BY DEF Others
  <2>. QED  BY <2>1 DEF LiveTold, Live
<1>0. u \in Uids /\ NameOf[u] \in Names /\ u # None /\ u \in Expected' /\ row'[u].state = "live"
  BY Constants DEF Expected, Committed, Live
<1>1. /\ ~Rewatch /\ ~Commit(u) /\ u \in Expected /\ row'[u] = row[u]
      /\ ~Owing(u) \/ (EmitRow /\ Batch[1].uid = u /\ Batch[1].rv = row[u].rv)
  BY <1>0, NoMoreOwed
<1>2. \A v \in Others(u) : Before(v, u)
  <2>1. ASSUME NEW v \in Others(u) PROVE Before(v, u)
    <3>1. v \in Uids /\ Before(v, u)'
      BY <1>0, <2>1 DEF Others, Before
    <3>. QED  BY <1>0, <1>1, <3>1, BeforeStep
  <2>. QED  BY <2>1
<1>3. NameOf[u] \notin crossed
  <2>1. \A w \in Uids : Commit(w) \/ Purge(w) => crossed \subseteq crossed'
    BY CommitEffect, PurgeEffect
  <2>. QED  BY <2>1, Steps, Zenon
            DEF Still, history, Relist, EmitRow, EndRelist, BookmarkTick, Receive, Rewatch
<1>4. CASE EmitRow /\ Batch[1].uid = u /\ Batch[1].rv = row[u].rv
  <2>1. PICK e \in Change : /\ e = Batch[1] /\ 1 \in DOMAIN Batch /\ e.deleted \in BOOLEAN
                            /\ outCh' = Append(outCh, e) /\ store' = store
    BY <1>4, EmitEffect DEF EmitRow
  <2>2. ~e.deleted
    BY <1>0, <1>1, <1>4, <2>1 DEF BatchOK, Was
  <2>3. Effect(e) = [uid |-> u, rv |-> row'[u].rv] /\ About(e, NameOf[u])
    BY <1>0, <1>1, <1>4, <2>1, <2>2 DEF Effect, About
  <2>4. Told(Append(outCh, e), store[NameOf[u]], NameOf[u], [uid |-> u, rv |-> row'[u].rv])
    BY <2>3, HeldTypes, ToldAppend
  <2>5. ASSUME NEW v \in Others(u), NEW i \in DOMAIN Batch', Batch'[i].uid = v PROVE FALSE
    <3>1. i + 1 \in DOMAIN Batch /\ 1 < i + 1 /\ Batch[i + 1].uid = v /\ i \in Nat
      BY <1>4, <2>5, EmitEffect
    <3>2. i + 1 < 1
      BY <1>2, <1>4, <2>1, <2>5, <3>1 DEF Succeeds, Before
    <3>. QED  BY <3>1, <3>2
  <2>. QED  BY <2>1, <2>4, <2>5 DEF InBatch
<1>5. CASE ~(EmitRow /\ Batch[1].uid = u /\ Batch[1].rv = row[u].rv)
  <2>1. ~Owing(u)
    BY <1>1, <1>5
  <2>2. u \in Live
    BY <1>0, <1>1 DEF Live
  <2>3. PICK x : /\ x = [uid |-> u, rv |-> row[u].rv]
                 /\ Told(outCh, store[NameOf[u]], NameOf[u], x)
    BY <1>1, <1>3, <2>1, <2>2 DEF LiveTold
  <2>4. \A v \in Others(u) : ~InBatch(v)
    BY <1>1, <1>3, <2>1, <2>2 DEF LiveTold
  <2>5. ASSUME EmitRow, About(Batch[1], NameOf[u]) PROVE FALSE
    <3>1. 1 \in DOMAIN Batch /\ Batch[1].uid \in Uids
      BY <2>5, EmitEffect
    <3>2. Batch[1].uid = u
      BY <1>0, <2>4, <2>5, <3>1 DEF Others, InBatch, About
    <3>3. /\ watcher.seen[u] < Batch[1].rv /\ Reach(u)
          /\ Batch[1].rv <= row[u].rv /\ Batch[1].rv \in Nat
      BY <3>1, <3>2, HeldTypes DEF BatchOK, Was
    <3>. QED  BY <1>0, <2>1, <3>3, RowTypes, HeldTypes DEF Owing
  <2>6. Told(outCh, store[NameOf[u]], NameOf[u], x)'
    BY <1>0, <1>1, <2>3, <2>5, ToldStays
  <2>7. ASSUME NEW v \in Others(u), InBatch(v)' PROVE FALSE
    <3>1. PICK i \in DOMAIN Batch' : Batch'[i].uid = v
      BY <2>7 DEF InBatch
    <3>2. ~\E k \in DOMAIN Batch : Batch'[i] = Batch[k]
      BY <2>4, <2>7, <3>1 DEF InBatch
    <3>3. ASSUME NEW read \in SUBSET Relisted, Relist(read) PROVE FALSE
      <4>1. v \in Relisted /\ Unseen(v) /\ row' = row
        BY <3>1, <3>3, RelistEffect, Zenon DEF Relist, db
      <4>2. v \in Uids /\ v # u /\ NameOf[u] = NameOf[v]
        BY <2>7 DEF Others
      <4>3. row[v].state = "deleted"
        <5>1. row[v].state \in {"live", "deleted"}
          BY <4>1 DEF Relisted, Committed
        <5>. QED  BY <1>0, <1>1, <4>2, <5>1 DEF TableOK
      <4>4. row[v].rv < row[u].rv
        BY <1>0, <1>2, <2>7, <4>2, <4>3 DEF Succession
      <4>5. Reach(v) /\ watcher.seen[v] < row[v].rv
        BY <4>1, <4>2, RowTypes, HeldTypes, DepthAssumption DEF Relisted, Reach, Unseen
      <4>6. Reach(u)
        <5>1. row[u].rv \in Nat /\ row[v].rv \in Nat /\ watcher.lastSeenRV \in Nat
          BY <1>0, <4>2, RowTypes, HeldTypes
        <5>. QED  BY <4>4, <4>5, <5>1, DepthAssumption DEF Reach
      <4>7. Owing(v)
        BY <4>5 DEF Owing
      <4>8. ~InHand(v)
        BY <2>4, <2>7 DEF InHand, InBatch, Batch
      <4>9. watcher.seen[u] = 0
        BY <1>0, <1>2, <2>7, <4>2, <4>3, <4>7, <4>8 DEF Succeeds
      <4>10. row[u].rv > 0
        BY <1>0, <1>1, RowTypes DEF TableOK
      <4>. QED  BY <2>1, <4>6, <4>9, <4>10 DEF Owing
    <3>4. Batch' # <<>>
      BY <3>1
    <3>5. EndRelist => Batch' = <<>>
      BY EndEffect
    <3>6. Batch' = Batch \/ EmitRow \/ \E read \in SUBSET Relisted : Relist(read)
      BY <1>1, <3>4, <3>5, Steps, TickEffect DEF Still, Commit, Purge, Receive, Batch
    <3>. QED  BY <3>1, <3>2, <3>3, <3>6, EmitEffect
  <2>. QED  BY <1>1, <2>3, <2>6, <2>7
<1>. QED  BY <1>4, <1>5

-------------------------------------------------------------------------------
(* The purge.                                                              *)

LEMMA CoveringStep ==
    ASSUME TypeOK, TypeOK', TableOK, TableOK', WatcherOK, WatcherOK', BatchOK, Covering,
           [Next]_vars
    PROVE  Covering'
<1>1. watcher'.covers \subseteq watcher.covers \/ \E read \in SUBSET Relisted : Relist(read)
  <2>1. EmitRow \/ BookmarkTick \/ Still => watcher'.covers = watcher.covers
    BY EmitEffect, TickEffect DEF Still
  <2>2. EndRelist \/ Rewatch => watcher'.covers = {}
    BY EndEffect DEF Rewatch, NewWatcher
  <2>3. Receive \/ (\E u \in Uids : Commit(u) \/ Purge(u)) => watcher' = watcher
    BY DEF Commit, Purge, Receive
  <2>. QED  BY <2>1, <2>2, <2>3, Steps
<1>2. \A u \in Uids : row[u].state \in {"deleted", "purged"} =>
                          ~Commit(u) /\ row'[u].state \in {"deleted", "purged"}
  <2>1. ASSUME NEW u \in Uids, row[u].state \in {"deleted", "purged"}
        PROVE  ~Commit(u) /\ row'[u].state \in {"deleted", "purged"}
    <3>1. ~Commit(u)
      BY <2>1, CommitEffect, RowTypes DEF TableOK
    <3>2. \A w \in Uids : Commit(w) \/ Purge(w) => row'[u].state \in {"deleted", "purged"}
      BY <2>1, <3>1, CommitEffect, PurgeEffect
    <3>3. row' = row \/ \E w \in Uids : Commit(w) \/ Purge(w)
      BY Steps, Zenon DEF Still, Relist, EmitRow, EndRelist, BookmarkTick, Receive, Rewatch, db
    <3>. QED  BY <2>1, <3>1, <3>2, <3>3
  <2>. QED  BY <2>1
<1>3. watcher.covers \subseteq Uids
  BY DEF TypeOK, Watcher
<1>4. \A u \in watcher'.covers : row'[u].state \in {"deleted", "purged"}
  <2>1. ASSUME NEW read \in SUBSET Relisted, Relist(read)
        PROVE  \A u \in watcher'.covers : row'[u].state \in {"deleted", "purged"}
    <3>1. watcher'.covers = {u \in Uids : row[u].state = "deleted"} /\ row' = row
      BY <2>1, RelistEffect, Zenon DEF Relist, db
    <3>2. ASSUME NEW u \in watcher'.covers PROVE row'[u].state \in {"deleted", "purged"}
      BY <3>1
    <3>. QED  BY <3>2
  <2>2. CASE watcher'.covers \subseteq watcher.covers
    <3>1. ASSUME NEW u \in watcher'.covers PROVE row'[u].state \in {"deleted", "purged"}
      <4>1. u \in Uids /\ row[u].state \in {"deleted", "purged"}
        BY <1>3, <2>2 DEF Covering
      <4>. QED  BY <1>2, <4>1
    <3>. QED  BY <3>1
  <2>. QED  BY <1>1, <2>1, <2>2
<1>5. ASSUME NEW u \in Uids, row'[u].state \in {"absent", "live"} PROVE tries'[u] = 0
  <2>1. row[u].state \in {"absent", "live"} /\ u \notin watcher.covers
    BY <1>2, <1>5, RowTypes DEF Covering
  <2>2. tries[u] = 0
    BY <2>1 DEF Covering
  <2>3. tries' = tries \/ EndRelist \/ Rewatch
    BY Steps, Zenon DEF Still, history, Commit, Purge, Relist, EmitRow, BookmarkTick, Receive
  <2>4. EndRelist => tries'[u] = tries[u]
    BY <2>1, EndEffect
  <2>5. Rewatch => tries'[u] = 0
    BY DEF Rewatch
  <2>. QED  BY <2>2, <2>3, <2>4, <2>5
<1>6. ASSUME NEW u \in Expected', row'[u].state = "deleted", Owing(u)'
      PROVE  /\ tries'[u] <= missed'[u]
             /\ (watcher'.pc = "sending" /\ u \in watcher'.covers) =>
                    InHand(u)' \/ tries'[u] < missed'[u] \/ missed'[u] = 2
  <2>0. u \in Uids /\ u \notin excused' /\ tries[u] \in 0 .. 2 /\ missed[u] \in 0 .. 2
    BY DEF Expected, Committed, TypeOK
  <2>1. CASE Commit(u)
    <3>1. row[u].state \in {"absent", "live"}
      BY <1>2, <2>0, <2>1, RowTypes
    <3>2. tries[u] = 0 /\ u \notin watcher.covers
      BY <2>0, <3>1 DEF Covering
    <3>. QED  BY <2>0, <2>1, <3>2, CommitEffect
  <2>2. CASE Rewatch
    BY <2>0, <2>2 DEF Rewatch, NewWatcher
  <2>3. CASE ~Commit(u) /\ ~Rewatch
    <3>1. row'[u] = row[u] /\ Owing(u)
      BY <1>6, <2>0, <2>3, RowKept, OwingFalls
    <3>2. u \in Expected
      BY <1>6, <2>0, <3>1, Steps, CommitEffect, PurgeEffect, Zenon
         DEF Expected, Committed, Still, history, Relist, EmitRow, EndRelist, BookmarkTick,
             Receive, Rewatch
    <3>3. /\ tries[u] <= missed[u]
          /\ (watcher.pc = "sending" /\ u \in watcher.covers) =>
                 InHand(u) \/ tries[u] < missed[u] \/ missed[u] = 2
      BY <1>6, <3>1, <3>2 DEF Covering
    <3>4. InHand(u) => InHand(u)'
      BY <1>6, <2>0, <2>3, HandStep, SentNotOwed
    <3>5. CASE UNCHANGED <<tries, missed, watcher.pc, watcher.covers>>
      BY <3>3, <3>4, <3>5
    <3>6. ASSUME NEW read \in SUBSET Relisted, Relist(read)
          PROVE  /\ tries'[u] <= missed'[u]
                 /\ (watcher'.pc = "sending" /\ u \in watcher'.covers) =>
                        InHand(u)' \/ tries'[u] < missed'[u] \/ missed'[u] = 2
      <4>1. tries' = tries /\ row[u].state = "deleted" /\ u \in Committed
        BY <1>6, <2>0, <3>1, <3>6 DEF Relist, Committed
      <4>2. CASE read = Relisted
        <5>1. missed'[u] = missed[u]
          BY <2>0, <3>6, <4>2 DEF Relist
        <5>2. InHand(u)'
          BY <1>6, <3>6, <4>1, <4>2, RelistHand
        <5>. QED  BY <3>3, <4>1, <5>1, <5>2
      <4>3. CASE read # Relisted
        <5>1. missed'[u] = IF missed[u] < 2 THEN missed[u] + 1 ELSE missed[u]
          BY <2>0, <3>6, <4>1, <4>3 DEF Relist
        <5>. QED  BY <2>0, <3>3, <4>1, <5>1
      <4>. QED  BY <4>2, <4>3
    <3>7. CASE EndRelist
      <4>1. /\ watcher.pc = "sending" /\ ~InHand(u) /\ watcher'.pc = "idle"
            /\ missed' = missed
            /\ tries'[u] = IF u \in watcher.covers /\ tries[u] < 2 THEN tries[u] + 1 ELSE tries[u]
        BY <2>0, <3>7, EndEffect DEF InHand, Batch, EndRelist
      <4>. QED  BY <2>0, <3>3, <4>1
    <3>8. \/ UNCHANGED <<tries, missed, watcher.pc, watcher.covers>> \/ EndRelist
          \/ \E read \in SUBSET Relisted : Relist(read)
      BY <2>3, Steps, EmitEffect, TickEffect
         DEF Still, history, Commit, Purge, EmitRow, BookmarkTick, Receive
    <3>. QED  BY <3>5, <3>6, <3>7, <3>8
  <2>. QED  BY <2>1, <2>2, <2>3
<1>. QED  BY <1>4, <1>5, <1>6 DEF Covering

LEMMA ForgottenStep ==
    ASSUME TypeOK, TableOK, WatcherOK, BatchOK, GoneTold, Covering, Forgotten, [Next]_vars
    PROVE  Forgotten'
<1>. SUFFICES ASSUME NEW u \in Uids \ excused', row'[u].state = "purged"
              PROVE  /\ store'[NameOf[u]].uid # u /\ ~InBatch(u)'
                     /\ \A i \in DOMAIN outCh' : outCh'[i].uid # u
  BY DEF Forgotten
<1>0. u \in Uids /\ NameOf[u] \in Names /\ u # None
  BY Constants
<1>1. u \notin excused
  BY Steps, CommitEffect, PurgeEffect, Zenon
     DEF Still, history, Relist, EmitRow, EndRelist, BookmarkTick, Receive, Rewatch
<1>2. CASE Purge(u)
  <2>1. /\ row[u].state = "deleted" /\ CaughtUp /\ missed[u] < 2 /\ Old(u)
        /\ UNCHANGED <<watcher, outCh, store>>
    BY <1>2, PurgeEffect
  <2>2. outCh = <<>> /\ watcher.pc = "idle" /\ Batch = <<>> /\ DOMAIN outCh = {}
    BY <2>1 DEF CaughtUp, WatcherOK
  <2>3. tries[u] >= 2
    <3>1. Len(outCh) = 0
      BY <2>2
    <3>. QED  BY <2>1, <3>1, BoundsAssumption DEF Old, Room
  <2>4. u \in Expected
    BY <1>1, <2>1 DEF Expected, Committed
  <2>5. ~Owing(u)
    <3>1. tries[u] \in 0 .. 2 /\ missed[u] \in 0 .. 2
      BY DEF TypeOK
    <3>. QED  BY <2>1, <2>3, <2>4, <3>1 DEF Covering
  <2>6. store[NameOf[u]].uid # u
    BY <2>1, <2>2, <2>4, <2>5 DEF GoneTold, Told
  <2>. QED  BY <2>1, <2>2, <2>6 DEF InBatch, Batch
<1>3. CASE ~Purge(u)
  <2>1. row[u].state = "purged"
    <3>1. \A w \in Uids : Commit(w) \/ Purge(w) => row[u].state = "purged"
      BY <1>3, CommitEffect, PurgeEffect
    <3>2. row' = row \/ \E w \in Uids : Commit(w) \/ Purge(w)
      BY Steps, Zenon DEF Still, Relist, EmitRow, EndRelist, BookmarkTick, Receive, Rewatch, db
    <3>. QED  BY <3>1, <3>2
  <2>2. /\ store[NameOf[u]].uid # u /\ ~InBatch(u)
        /\ \A i \in DOMAIN outCh : outCh[i].uid # u
    BY <1>1, <2>1 DEF Forgotten
  <2>3. ASSUME NEW i \in DOMAIN outCh' PROVE outCh'[i].uid # u
    <3>1. EmitRow => Batch[1].uid # u
      BY <2>2, EmitEffect DEF InBatch
    <3>. QED  BY <1>0, <2>2, <3>1, ChannelStep DEF EndMark
  <2>4. store'[NameOf[u]].uid # u
    <3>1. CASE Receive
      <4>1. 1 \in DOMAIN outCh /\ outCh[1].uid # u
        BY <2>2, <3>1, ReceiveEffect
      <4>2. Effect(outCh[1]).uid # u
        BY <1>0, <4>1 DEF Effect, Nothing
      <4>. QED  BY <1>0, <2>2, <3>1, <4>2, ReceiveEffect
    <3>2. Receive \/ store' = store
      BY Steps, Zenon DEF Still, Commit, Purge, Relist, EmitRow, EndRelist, BookmarkTick, Rewatch
    <3>. QED  BY <2>2, <3>1, <3>2
  <2>5. ASSUME NEW i \in DOMAIN Batch', Batch'[i].uid = u PROVE FALSE
    <3>1. ~\E k \in DOMAIN Batch : Batch'[i] = Batch[k]
      BY <2>2, <2>5 DEF InBatch
    <3>2. ASSUME NEW read \in SUBSET Relisted, Relist(read) PROVE FALSE
      <4>1. u \in Committed
        BY <2>5, <3>2, RelistEffect DEF Relisted
      <4>. QED  BY <2>1, <4>1 DEF Committed
    <3>3. Rewatch \/ EndRelist => Batch' = <<>>
      BY EndEffect DEF Rewatch, NewWatcher, Batch
    <3>4. Batch' # <<>>
      BY <2>5
    <3>5. Batch' = Batch \/ EmitRow \/ \E read \in SUBSET Relisted : Relist(read)
      BY <3>3, <3>4, Steps, TickEffect DEF Still, Commit, Purge, Receive, Batch
    <3>. QED  BY <3>1, <3>2, <3>5, EmitEffect
  <2>. QED  BY <2>3, <2>4, <2>5 DEF InBatch
<1>. QED  BY <1>2, <1>3
-------------------------------------------------------------------------------
(* The initial list.                                                       *)

LEMMA SettledLater ==
    ASSUME NEW ch \in Seq(Event), NEW st, NEW u, NEW k \in Nat, NEW m \in Nat, k <= m,
           Settled(ch, st, u, k)
    PROVE  Settled(ch, st, u, m)
<1>1. \A i \in DOMAIN ch : i \in Nat
  OBVIOUS
<1>. QED  BY <1>1 DEF Settled

LEMMA SettledAppend ==
    ASSUME NEW ch \in Seq(Event), NEW st, NEW u, NEW k \in Nat, NEW e, e.uid \notin Others(u),
           Settled(ch, st, u, k) \/ (e.uid = u /\ k = Len(ch) + 2)
    PROVE  Settled(Append(ch, e), st, u, k)
<1>1. PICK t : t = Append(ch, e)
  OBVIOUS
<1>2. /\ DOMAIN t = 1 .. Len(ch) + 1 /\ t[Len(ch) + 1] = e /\ Len(ch) \in Nat
      /\ DOMAIN ch = 1 .. Len(ch) /\ \A i \in 1 .. Len(ch) : t[i] = ch[i]
      /\ \A i \in DOMAIN t : i \in DOMAIN ch \/ i = Len(ch) + 1
  BY <1>1, Grown
<1>3. CASE e.uid = u /\ k = Len(ch) + 2
  <2>1. Len(ch) + 1 \in DOMAIN t /\ \A j \in DOMAIN t : ~(j > Len(ch) + 1)
    BY <1>2
  <2>2. Settled(t, st, u, k)
    BY <1>2, <1>3, <2>1 DEF Settled
  <2>. QED  BY <1>1, <2>2
<1>4. CASE st.uid = u /\ \A j \in DOMAIN ch : ch[j].uid \notin Others(u)
  <2>1. Settled(t, st, u, k)
    BY <1>2, <1>4 DEF Settled
  <2>. QED  BY <1>1, <2>1
<1>5. ASSUME NEW i \in DOMAIN ch, i < k, ch[i].uid = u,
             \A j \in DOMAIN ch : j > i => ch[j].uid \notin Others(u)
      PROVE  Settled(t, st, u, k)
  <2>1. i \in DOMAIN t /\ t[i] = ch[i]
    BY <1>2
  <2>2. \A j \in DOMAIN t : j > i => t[j].uid \notin Others(u)
    BY <1>2, <1>5
  <2>. QED  BY <1>5, <2>1, <2>2 DEF Settled
<1>. QED  BY <1>1, <1>3, <1>4, <1>5 DEF Settled

LEMMA SettledReceive ==
    ASSUME TypeOK, HeldOK, Receive, NEW u \in Uids, row[u].state = "live",
           NEW k \in Nat, NEW m \in Nat, k <= m + 1, Settled(outCh, store[NameOf[u]], u, k)
    PROVE  Settled(outCh', store'[NameOf[u]], u, m)
<1>1. PICK e : e = outCh[1]
  OBVIOUS
<1>2. /\ 1 \in DOMAIN outCh /\ NameOf[u] \in Names /\ u # None
      /\ e.uid # None => e.uid \in Uids /\ NameOf[e.uid] \in Names /\ Was(e.uid, e.rv, e.deleted)
      /\ IF e.uid = None THEN store' = store
         ELSE /\ store'[NameOf[e.uid]] = Effect(e)
              /\ \A n \in Names \ {NameOf[e.uid]} : store'[n] = store[n]
  BY <1>1, ReceiveEffect, HeldTypes, Constants DEF HeldOK
<1>3. e.uid = u => store'[NameOf[u]].uid = u
  BY <1>2 DEF Was, Effect
<1>4. e.uid # u /\ e.uid \notin Others(u) => store'[NameOf[u]] = store[NameOf[u]]
  BY <1>2 DEF Others
<1>5. \A j \in DOMAIN outCh' : outCh'[j] = outCh[j + 1] /\ j + 1 \in DOMAIN outCh /\ j \in Nat
                               /\ 1 < j + 1
  BY ReceiveEffect
<1>6. CASE store[NameOf[u]].uid = u /\ \A j \in DOMAIN outCh : outCh[j].uid \notin Others(u)
  <2>1. store'[NameOf[u]].uid = u
    BY <1>1, <1>2, <1>3, <1>4, <1>6
  <2>2. \A j \in DOMAIN outCh' : outCh'[j].uid \notin Others(u)
    BY <1>5, <1>6
  <2>. QED  BY <2>1, <2>2 DEF Settled
<1>7. ASSUME NEW i \in DOMAIN outCh, i < k, outCh[i].uid = u,
             \A j \in DOMAIN outCh : j > i => outCh[j].uid \notin Others(u)
      PROVE  Settled(outCh', store'[NameOf[u]], u, m)
  <2>1. CASE i = 1
    <3>1. \A j \in DOMAIN outCh' : outCh'[j].uid \notin Others(u)
      BY <1>5, <1>7, <2>1
    <3>. QED  BY <1>1, <1>3, <1>7, <2>1, <3>1 DEF Settled
  <2>2. CASE i # 1
    <3>1. i - 1 \in DOMAIN outCh' /\ outCh'[i - 1] = outCh[i] /\ i \in Nat
      BY <2>2, ReceiveEffect, HeldTypes
    <3>2. i - 1 < m
      BY <1>7, <3>1
    <3>3. ASSUME NEW j \in DOMAIN outCh', j > i - 1 PROVE outCh'[j].uid \notin Others(u)
      <4>1. j + 1 \in DOMAIN outCh /\ j + 1 > i /\ outCh'[j] = outCh[j + 1]
        BY <1>5, <3>1, <3>3
      <4>. QED  BY <1>7, <4>1
    <3>. QED  BY <1>7, <3>1, <3>2, <3>3 DEF Settled
  <2>. QED  BY <2>1, <2>2
<1>. QED  BY <1>6, <1>7 DEF Settled

\* What the client has of u stays so but for an event of another object of its name.
LEMMA SettledStays ==
    ASSUME TypeOK, HeldOK, [Next]_vars, ~Rewatch, ~Receive, NEW u \in Uids, NEW k \in Nat,
           Settled(outCh, store[NameOf[u]], u, k), EmitRow => Batch[1].uid \notin Others(u)
    PROVE  Settled(outCh', store'[NameOf[u]], u, k)
<1>1. outCh \in Seq(Event) /\ EndMark.uid \notin Others(u)
  BY HeldTypes, Constants DEF EndMark, Others
<1>2. CASE UNCHANGED <<outCh, store>>
  BY <1>2
<1>3. CASE outCh' = Append(outCh, EndMark) /\ store' = store
  BY <1>1, <1>3, SettledAppend
<1>4. CASE EmitRow
  <2>1. outCh' = Append(outCh, Batch[1]) /\ store' = store
    BY <1>4, EmitEffect DEF EmitRow
  <2>. QED  BY <1>1, <1>4, <2>1, SettledAppend
<1>5. \/ UNCHANGED <<outCh, store>> \/ EmitRow
      \/ outCh' = Append(outCh, EndMark) /\ store' = store
  <2>1. CASE EndRelist \/ BookmarkTick
    <3>1. store' = store
      BY <2>1 DEF EndRelist, BookmarkTick
    <3>2. MarkSent(watcher)
      BY <2>1, EndEffect, TickEffect
    <3>3. outCh' = outCh \/ outCh' = Append(outCh, EndMark)
      BY <3>2 DEF MarkSent
    <3>. QED  BY <3>1, <3>3
  <2>2. UNCHANGED <<outCh, store>> \/ EmitRow \/ EndRelist \/ BookmarkTick
    BY Steps, Zenon DEF Still, Commit, Purge, Relist
  <2>. QED  BY <2>1, <2>2
<1>. QED  BY <1>2, <1>3, <1>4, <1>5

\* Who is on the initial list was so before, unless the watch's first relist just read it.
LEMMA ListingStays ==
    ASSUME TypeOK, TableOK, WatcherOK, Predecessors, [Next]_vars, NEW u \in Uids, Listing(u)'
    PROVE  \/ /\ watcher.pc = "starting" /\ row[u].state = "live" /\ u \in Relisted
              /\ Relist(Relisted)
           \/ /\ Listing(u) /\ ~Rewatch /\ watcher.pc # "starting" /\ row[u].state = "live"
              /\ \A v \in Others(u) : Before(v, u) /\ ~Commit(v)
<1>0. /\ u \in watcher'.owed /\ row'[u].state = "live" /\ ~watcher'.short
      /\ watcher'.pc # "starting" /\ NameOf[u] \notin crossed'
  BY DEF Listing, Live
<1>1. ~Rewatch
  BY <1>0 DEF Rewatch, NewWatcher
<1>2. ASSUME NEW read \in SUBSET Relisted, Relist(read), watcher.pc = "starting"
      PROVE  row[u].state = "live" /\ u \in Relisted /\ Relist(Relisted)
  <2>1. read = Relisted /\ u \in Committed /\ row' = row /\ watcher.lastSeenRV = 0
    BY <1>0, <1>2, RelistEffect, Zenon DEF Relist, db, WatcherOK
  <2>2. u \in Relisted
    BY <2>1, RowTypes, DepthAssumption DEF Relisted
  <2>. QED  BY <1>0, <1>2, <2>1, <2>2
<1>3. ASSUME ~(watcher.pc = "starting" /\ \E read \in SUBSET Relisted : Relist(read))
      PROVE  /\ Listing(u) /\ watcher.pc # "starting" /\ row[u].state = "live"
             /\ \A v \in Others(u) : Before(v, u) /\ ~Commit(v)
  <2>1. /\ watcher'.owed = watcher.owed /\ watcher'.short = watcher.short
        /\ watcher.pc # "starting"
    <3>1. ASSUME NEW read \in SUBSET Relisted, Relist(read)
          PROVE  /\ watcher'.owed = watcher.owed /\ watcher'.short = watcher.short
                 /\ watcher.pc # "starting"
      BY <1>3, <3>1, RelistEffect
    <3>. QED  BY <1>0, <1>1, <3>1, Steps, EmitEffect, EndEffect, TickEffect
              DEF Still, Commit, Purge, Receive
  <2>2. row[u].state # "absent"
    BY <1>0, <2>1 DEF Predecessors
  <2>3. row[u].state = "live"
    <3>1. CASE Commit(u)
      <4>1. open[u].op \in {"create", "update", "delete"}
        BY <3>1, CommitEffect, RowTypes DEF TableOK
      <4>. QED  BY <2>2, <4>1 DEF TableOK
    <3>2. CASE ~Commit(u)
      BY <1>0, <3>2, RowKept
    <3>. QED  BY <3>1, <3>2
  <2>4. NameOf[u] \notin crossed
    <3>1. \A w \in Uids : Commit(w) \/ Purge(w) => crossed \subseteq crossed'
      BY CommitEffect, PurgeEffect
    <3>. QED  BY <1>0, <1>1, <3>1, Steps, Zenon
              DEF Still, history, Relist, EmitRow, EndRelist, BookmarkTick, Receive
  <2>5. ASSUME NEW v \in Others(u) PROVE Before(v, u) /\ ~Commit(v)
    <3>1. v \in Uids /\ Before(v, u)'
      BY <1>0, <2>5 DEF Others, Before
    <3>. QED  BY <2>3, <3>1, BeforeStep
  <2>6. Listing(u)
    BY <1>0, <2>1, <2>3, <2>4 DEF Listing, Live
  <2>. QED  BY <2>1, <2>3, <2>5, <2>6
<1>. QED  BY <1>1, <1>2, <1>3

LEMMA PredecessorsStep ==
    ASSUME TypeOK, TypeOK', TableOK, WatcherOK, BatchOK, Predecessors, [Next]_vars
    PROVE  Predecessors'
<1>1. ASSUME NEW u \in watcher'.owed PROVE u \in Uids /\ row'[u].state # "absent"
  <2>1. u \in Uids /\ row[u].state # "absent"
    <3>1. watcher'.owed \subseteq watcher.owed \cup Committed
      <4>1. Rewatch => watcher'.owed = {}
        BY DEF Rewatch, NewWatcher
      <4>2. \A read \in SUBSET Relisted :
               Relist(read) => watcher'.owed \subseteq watcher.owed \cup Committed
        BY RelistEffect
      <4>. QED  BY <4>1, <4>2, Steps, EmitEffect, EndEffect, TickEffect
                DEF Still, Commit, Purge, Receive
    <3>. QED  BY <1>1, <3>1 DEF Predecessors, Committed
  <2>2. CASE Commit(u)
    BY <2>1, <2>2, CommitEffect
  <2>3. CASE ~Commit(u)
    BY <2>1, <2>3, RowKept
  <2>. QED  BY <2>1, <2>2, <2>3
<1>2. ASSUME NEW u \in Uids, Listing(u)', NEW v \in Others(u), row'[v].state = "deleted",
             Owing(v)'
      PROVE  InHand(v)'
  <2>0. v \in Uids
    BY <1>2 DEF Others
  <2>1. CASE watcher.pc = "starting" /\ Relist(Relisted)
    <3>1. v \in Committed
      BY <1>2, <2>0, <2>1 DEF Committed, Relist, db
    <3>. QED  BY <1>2, <2>0, <2>1, <3>1, RelistHand
  <2>2. CASE Listing(u) /\ ~Rewatch /\ ~Commit(v)
    <3>1. row[v].state = "deleted"
      BY <1>2, <2>0, <2>2, RowKept
    <3>2. Owing(v)
      BY <1>2, <2>0, <2>2, OwingFalls
    <3>3. InHand(v)
      BY <1>2, <2>2, <3>1, <3>2 DEF Predecessors
    <3>. QED  BY <1>2, <2>0, <2>2, <3>3, HandStep, SentNotOwed
  <2>. QED  BY <1>2, <2>1, <2>2, ListingStays
<1>3. \A u : Others(u)' = Others(u)
  BY DEF Others
<1>. QED  BY <1>1, <1>2, <1>3 DEF Predecessors

\* The batch of a step that leaves the watch on is shorter, or what a relist read.
LEMMA BatchShrinks ==
    ASSUME TypeOK, [Next]_vars, ~Rewatch, NEW i \in DOMAIN Batch'
    PROVE  \/ \E k \in DOMAIN Batch : Batch'[i] = Batch[k]
           \/ \E read \in SUBSET Relisted : Relist(read)
<1>1. Batch' = Batch \/ EmitRow \/ EndRelist \/ \E read \in SUBSET Relisted : Relist(read)
  BY Steps, TickEffect DEF Still, Commit, Purge, Receive, Batch
<1>2. EndRelist => Batch' = Batch
  BY EndEffect
<1>. QED  BY <1>1, <1>2, EmitEffect

LEMMA ListSentStep ==
    ASSUME TypeOK, TypeOK', TableOK, TableOK', WatcherOK, BatchOK, HeldOK, Succeeds,
           Predecessors, ListSent, [Next]_vars
    PROVE  ListSent'
<1>. SUFFICES ASSUME NEW u \in Uids, Listing(u)'
              PROVE  \/ ~watcher'.listed /\ InBatch(u)'
                     \/ /\ \A v \in Others(u) : ~InBatch(v)'
                        /\ Settled(outCh', store'[NameOf[u]], u, Len(outCh') + 1)
  <2>1. \A x : Others(x)' = Others(x)
    BY DEF Others
  <2>2. \A x \in Uids, k \in Nat :
           Settled(outCh, store[NameOf[x]], x, k)' = Settled(outCh', store'[NameOf[x]], x, k)
    OBVIOUS
  <2>. QED  BY <2>1 DEF ListSent, Settled
<1>1. CASE watcher.pc = "starting" /\ row[u].state = "live" /\ u \in Relisted /\ Relist(Relisted)
  <2>1. ~watcher'.listed /\ watcher.seen[u] = 0
    BY <1>1, RelistEffect DEF WatcherOK
  <2>2. row[u].rv > 0
    BY <1>1, RowTypes DEF TableOK
  <2>3. PICK i \in DOMAIN Batch' : Batch'[i] = ChangeOf(u)
    BY <1>1, <2>1, <2>2, RelistEffect DEF Unseen
  <2>. QED  BY <2>1, <2>3 DEF InBatch, ChangeOf
<1>2. CASE /\ Listing(u) /\ ~Rewatch /\ watcher.pc # "starting" /\ row[u].state = "live"
           /\ \A v \in Others(u) : Before(v, u) /\ ~Commit(v)
  <2>0. Len(outCh) \in Nat /\ Len(outCh') \in Nat /\ outCh \in Seq(Event) /\ outCh' \in Seq(Event)
    BY HeldTypes DEF TypeOK, Event
  <2>1. CASE ~watcher.listed /\ InBatch(u)
    <3>1. PICK k \in DOMAIN Batch : Batch[k].uid = u
      BY <2>1 DEF InBatch
    <3>2. CASE UNCHANGED <<watcher.batch, watcher.listed>>
      BY <2>1, <3>2 DEF InBatch, Batch
    <3>3. CASE EmitRow /\ k # 1
      BY <2>1, <3>1, <3>3, EmitEffect DEF InBatch
    <3>4. CASE EmitRow /\ k = 1
      <4>1. PICK e : e = Batch[1] /\ outCh' = Append(outCh, e) /\ store' = store
        BY <3>4, EmitEffect DEF EmitRow
      <4>2. e.uid = u /\ u \notin Others(u)
        BY <3>1, <3>4, <4>1 DEF Others
      <4>3. Len(outCh') = Len(outCh) + 1
        BY <2>0, <4>1, Grown
      <4>4. Settled(Append(outCh, e), store[NameOf[u]], u, Len(outCh) + 2)
        <5>1. PICK m \in Nat : m = Len(outCh) + 2
          BY <2>0
        <5>2. Settled(Append(outCh, e), store[NameOf[u]], u, m)
          BY <2>0, <4>2, <5>1, SettledAppend
        <5>. QED  BY <5>1, <5>2
      <4>5. Settled(outCh', store'[NameOf[u]], u, Len(outCh') + 1)
        BY <2>0, <4>1, <4>3, <4>4
      <4>6. ASSUME NEW v \in Others(u), NEW i \in DOMAIN Batch', Batch'[i].uid = v PROVE FALSE
        <5>1. i + 1 \in DOMAIN Batch /\ 1 < i + 1 /\ Batch[i + 1].uid = v /\ i \in Nat
          BY <3>4, <4>6, EmitEffect
        <5>2. i + 1 < 1
          BY <1>2, <3>1, <3>4, <4>6, <5>1 DEF Succeeds, Before
        <5>. QED  BY <5>1, <5>2
      <4>. QED  BY <4>5, <4>6 DEF InBatch
    <3>5. ~EndRelist
      BY <3>1, EndEffect
    <3>6. ASSUME NEW read \in SUBSET Relisted, Relist(read) PROVE FALSE
      BY <1>2, <2>1, <3>6, RelistEffect DEF WatcherOK
    <3>7. UNCHANGED <<watcher.batch, watcher.listed>> \/ EmitRow
      BY <1>2, <3>5, <3>6, Steps, TickEffect DEF Still, Commit, Purge, Receive
    <3>. QED  BY <3>2, <3>3, <3>4, <3>7
  <2>2. CASE /\ \A v \in Others(u) : ~InBatch(v)
             /\ Settled(outCh, store[NameOf[u]], u, Len(outCh) + 1)
    <3>1. ASSUME NEW v \in Others(u), NEW i \in DOMAIN Batch', Batch'[i].uid = v PROVE FALSE
      <4>1. ~\E k \in DOMAIN Batch : Batch'[i] = Batch[k]
        BY <2>2, <3>1 DEF InBatch
      <4>2. PICK read \in SUBSET Relisted : Relist(read)
        BY <1>2, <3>1, <4>1, BatchShrinks
      <4>3. v \in Relisted /\ Unseen(v) /\ v \in Uids /\ watcher.pc = "idle"
        BY <1>2, <3>1, <4>2, RelistEffect DEF Others
      <4>4. row[v].state = "deleted"
        BY <1>2, <3>1, <4>3 DEF Relisted, Committed, TableOK, Others
      <4>5. Owing(v)
        BY <4>3, RowTypes, HeldTypes, DepthAssumption DEF Owing, Relisted, Reach, Unseen
      <4>6. ~InHand(v)
        BY <4>3 DEF InHand, WatcherOK, Batch
      <4>. QED  BY <1>2, <3>1, <4>4, <4>5, <4>6 DEF Predecessors
    <3>2. CASE Receive
      <4>1. Len(outCh') = Len(outCh) - 1
        BY <3>2, ReceiveEffect
      <4>2. PICK m \in Nat : m = Len(outCh) /\ m = Len(outCh') + 1
        BY <2>0, <4>1
      <4>3. Settled(outCh', store'[NameOf[u]], u, m)
        <5>1. PICK k \in Nat : k = Len(outCh) + 1 /\ k <= m + 1
          BY <2>0, <4>2
        <5>. QED  BY <1>2, <2>2, <3>2, <5>1, SettledReceive
      <4>. QED  BY <3>1, <4>2, <4>3 DEF InBatch
    <3>3. CASE ~Receive
      <4>1. EmitRow => Batch[1].uid \notin Others(u)
        BY <2>2, EmitEffect DEF InBatch
      <4>2. Settled(outCh', store'[NameOf[u]], u, Len(outCh) + 1)
        <5>1. PICK m \in Nat : m = Len(outCh) + 1
          BY <2>0
        <5>2. Settled(outCh, store[NameOf[u]], u, m) /\ ~Rewatch /\ ~Receive
          BY <1>2, <2>2, <3>3, <5>1
        <5>3. Settled(outCh', store'[NameOf[u]], u, m)
          BY <4>1, <5>2, SettledStays
        <5>. QED  BY <5>1, <5>3
      <4>3. Len(outCh') >= Len(outCh)
        <5>1. \A e : outCh' = Append(outCh, e) => Len(outCh') = Len(outCh) + 1
          BY <2>0, Grown
        <5>2. outCh' = outCh \/ \E e : outCh' = Append(outCh, e)
          BY <1>2, <3>3, Steps, EmitEffect, EndEffect, TickEffect, Zenon
             DEF Still, Commit, Purge, Relist, MarkSent
        <5>. QED  BY <2>0, <5>1, <5>2
      <4>4. Settled(outCh', store'[NameOf[u]], u, Len(outCh') + 1)
        BY <2>0, <4>2, <4>3, SettledLater
      <4>. QED  BY <3>1, <4>4 DEF InBatch
    <3>. QED  BY <3>2, <3>3
  <2>. QED  BY <1>2, <2>1, <2>2 DEF ListSent
<1>. QED  BY <1>1, <1>2, ListingStays

LEMMA EndOnItsWayStep ==
    ASSUME TypeOK, TypeOK', WatcherOK, EndOnItsWay, [Next]_vars
    PROVE  EndOnItsWay'
<1>0. Len(outCh) \in Nat /\ outCh \in Seq(Event) /\ watcher.sent \in 0 .. Capacity
  BY HeldTypes
<1>1. CASE UNCHANGED <<watcher.listed, watcher.initialListDone, watcher.sent, outCh, endSeen>>
  BY <1>1 DEF EndOnItsWay
<1>2. ASSUME NEW read \in SUBSET Relisted, Relist(read) PROVE EndOnItsWay'
  BY <1>1, <1>2, RelistEffect, Zenon DEF Relist
<1>3. CASE EmitRow
  <2>1. PICK e \in Change : outCh' = Append(outCh, e) /\ e # EndMark /\ Len(outCh) < Capacity
    BY <1>3, EmitEffect, Constants DEF Change, EndMark
  <2>2. /\ DOMAIN outCh' = 1 .. Len(outCh) + 1 /\ outCh'[Len(outCh) + 1] = e
        /\ DOMAIN outCh = 1 .. Len(outCh) /\ Len(outCh') = Len(outCh) + 1
        /\ \A i \in 1 .. Len(outCh) : outCh'[i] = outCh[i]
    BY <1>0, <2>1, Grown
  <2>3. /\ watcher'.sent = IF watcher.initialListDone \/ watcher.sent = Capacity
                           THEN watcher.sent ELSE watcher.sent + 1
        /\ UNCHANGED <<watcher.listed, watcher.initialListDone, endSeen>>
    BY <1>3, EmitEffect DEF EmitRow
  <2>4. CASE watcher.initialListDone
    BY <2>2, <2>3, <2>4 DEF EndOnItsWay
  <2>5. CASE ~watcher.initialListDone
    <3>1. Len(outCh') <= watcher'.sent
      BY <1>0, <2>1, <2>2, <2>3, <2>5, BoundsAssumption DEF EndOnItsWay
    <3>2. \A i \in DOMAIN outCh' : outCh'[i] # EndMark
      BY <2>1, <2>2, <2>5 DEF EndOnItsWay
    <3>. QED  BY <2>3, <2>5, <3>1, <3>2 DEF EndOnItsWay
  <2>. QED  BY <2>4, <2>5
<1>4. CASE EndRelist \/ BookmarkTick
  <2>1. MarkSent(watcher) /\ watcher'.listed /\ watcher'.sent = watcher.sent /\ endSeen' = endSeen
    BY <1>4, EndEffect, TickEffect DEF WatcherOK, EndRelist, BookmarkTick
  <2>2. CASE outCh' = outCh /\ watcher'.initialListDone = watcher.initialListDone
    BY <2>1, <2>2 DEF EndOnItsWay
  <2>3. CASE outCh' = outCh /\ watcher'.initialListDone /\ Len(outCh) >= Capacity
    <3>1. ~watcher.initialListDone => watcher.sent = Capacity
      BY <1>0, <2>3, BoundsAssumption DEF EndOnItsWay
    <3>. QED  BY <2>1, <2>3, <3>1 DEF EndOnItsWay
  <2>4. CASE outCh' = Append(outCh, EndMark) /\ watcher'.initialListDone
    <3>1. Len(outCh) + 1 \in DOMAIN outCh' /\ outCh'[Len(outCh) + 1] = EndMark
      BY <1>0, <2>4, Grown
    <3>. QED  BY <2>1, <2>4, <3>1 DEF EndOnItsWay
  <2>. QED  BY <2>1, <2>2, <2>3, <2>4 DEF MarkSent
<1>5. CASE Receive
  <2>1. UNCHANGED watcher
    BY <1>5, ReceiveEffect
  <2>2. (outCh[1] = EndMark /\ endSeen') \/ (outCh[1] # EndMark /\ endSeen' = endSeen)
    BY <1>5, ReceiveEffect, HeldTypes DEF EndMark
  <2>3. CASE watcher.initialListDone
    <3>1. ASSUME NEW i \in DOMAIN outCh, outCh[i] = EndMark
          PROVE  endSeen' \/ \E j \in DOMAIN outCh' : outCh'[j] = EndMark
      BY <1>5, <2>2, <3>1, ReceiveEffect
    <3>. QED  BY <2>1, <2>2, <2>3, <3>1 DEF EndOnItsWay
  <2>4. CASE ~watcher.initialListDone
    <3>1. outCh[1] # EndMark /\ \A i \in DOMAIN outCh' : outCh'[i] # EndMark
      BY <1>5, <2>4, ReceiveEffect DEF EndOnItsWay
    <3>2. Len(outCh') <= watcher.sent
      BY <1>0, <1>5, <2>4, ReceiveEffect DEF EndOnItsWay
    <3>. QED  BY <2>1, <2>2, <2>4, <3>1, <3>2 DEF EndOnItsWay
  <2>. QED  BY <2>3, <2>4
<1>6. CASE Rewatch
  BY <1>6 DEF Rewatch, NewWatcher, EndOnItsWay
<1>. QED  BY <1>1, <1>2, <1>3, <1>4, <1>5, <1>6, Steps DEF Still, Commit, Purge

LEMMA EndIsLastStep ==
    ASSUME TypeOK, TypeOK', TableOK, WatcherOK, HeldOK, Predecessors, ListSent, EndIsLast,
           EndOnItsWay, [Next]_vars
    PROVE  EndIsLast'
<1>. SUFFICES ASSUME NEW u \in Uids, Listing(u)'
              PROVE  /\ endSeen' => Settled(outCh', store'[NameOf[u]], u, 0)
                     /\ \A k \in DOMAIN outCh' :
                            outCh'[k] = EndMark => Settled(outCh', store'[NameOf[u]], u, k)
  <2>1. \A x : Others(x)' = Others(x)
    BY DEF Others
  <2>. QED  BY <2>1 DEF EndIsLast, Settled
<1>1. CASE watcher.pc = "starting" /\ Relist(Relisted)
  BY <1>1 DEF WatcherOK, Relist
<1>2. CASE Listing(u) /\ ~Rewatch /\ watcher.pc # "starting" /\ row[u].state = "live"
  <2>0. Len(outCh) \in Nat /\ outCh \in Seq(Event) /\ DOMAIN outCh = 1 .. Len(outCh)
    BY HeldTypes
  <2>1. (endSeen \/ \E k \in DOMAIN outCh : outCh[k] = EndMark)
            => \A v \in Others(u) : ~InBatch(v)
    BY <1>2 DEF EndOnItsWay, ListSent
  <2>2. CASE Receive
    <3>1. ASSUME endSeen' PROVE Settled(outCh', store'[NameOf[u]], u, 0)
      <4>1. endSeen \/ (1 \in DOMAIN outCh /\ outCh[1] = EndMark)
        BY <2>2, <3>1, ReceiveEffect, HeldTypes
      <4>2. CASE endSeen
        BY <1>2, <2>2, <4>2, SettledReceive DEF EndIsLast
      <4>3. CASE 1 \in DOMAIN outCh /\ outCh[1] = EndMark
        BY <1>2, <2>2, <4>3, SettledReceive DEF EndIsLast
      <4>. QED  BY <4>1, <4>2, <4>3
    <3>2. ASSUME NEW k \in DOMAIN outCh', outCh'[k] = EndMark
          PROVE  Settled(outCh', store'[NameOf[u]], u, k)
      <4>1. /\ k \in Nat /\ k + 1 \in Nat /\ k + 1 \in DOMAIN outCh
            /\ outCh[k + 1] = EndMark
        BY <2>2, <3>2, ReceiveEffect
      <4>2. PICK m \in Nat : m = k + 1 /\ Settled(outCh, store[NameOf[u]], u, m)
        BY <1>2, <4>1 DEF EndIsLast
      <4>. QED  BY <1>2, <2>2, <4>1, <4>2, SettledReceive
    <3>. QED  BY <3>1, <3>2
  <2>3. CASE ~Receive
    <3>1. ASSUME NEW k \in Nat, Settled(outCh, store[NameOf[u]], u, k),
                 \A v \in Others(u) : ~InBatch(v)
          PROVE  Settled(outCh', store'[NameOf[u]], u, k)
      <4>1. EmitRow => Batch[1].uid \notin Others(u)
        BY <3>1, EmitEffect DEF InBatch
      <4>. QED  BY <1>2, <2>3, <3>1, <4>1, SettledStays
    <3>2. endSeen' = endSeen
      BY <1>2, <2>3, Steps, Zenon
         DEF Still, Commit, Purge, Relist, EmitRow, EndRelist, BookmarkTick
    <3>3. endSeen' => Settled(outCh', store'[NameOf[u]], u, 0)
      BY <1>2, <2>1, <3>1, <3>2 DEF EndIsLast
    <3>4. ASSUME NEW k \in DOMAIN outCh', outCh'[k] = EndMark
          PROVE  Settled(outCh', store'[NameOf[u]], u, k)
      <4>1. CASE k \in DOMAIN outCh /\ outCh[k] = EndMark
        BY <1>2, <2>0, <2>1, <3>1, <4>1 DEF EndIsLast
      <4>2. CASE ~(k \in DOMAIN outCh /\ outCh[k] = EndMark)
        <5>1. (EndRelist \/ BookmarkTick) /\ outCh' = Append(outCh, EndMark)
          <6>1. ASSUME NEW e, outCh' = Append(outCh, e) PROVE e = EndMark
            BY <2>0, <3>4, <4>2, <6>1, Grown
          <6>2. ~EmitRow
            BY <6>1, EmitEffect, Constants DEF Change, EndMark
          <6>. QED  BY <1>2, <2>3, <3>4, <4>2, <6>2, Steps, EndEffect, TickEffect, Zenon
                    DEF Still, Commit, Purge, Relist, MarkSent
        <5>2. k = Len(outCh) + 1 /\ k \in Nat
          BY <2>0, <3>4, <4>2, <5>1, Grown
        <5>3. Batch = <<>>
          BY <5>1, EndEffect, TickEffect DEF WatcherOK
        <5>4. /\ \A v \in Others(u) : ~InBatch(v)
              /\ Settled(outCh, store[NameOf[u]], u, k)
          BY <1>2, <5>2, <5>3 DEF ListSent, InBatch
        <5>. QED  BY <3>1, <5>2, <5>4
      <4>. QED  BY <4>1, <4>2
    <3>. QED  BY <3>3, <3>4
  <2>. QED  BY <2>2, <2>3
<1>. QED  BY <1>1, <1>2, ListingStays

-------------------------------------------------------------------------------
(* The invariant, and what it says to the client.                          *)

Inv ==
    /\ TypeOK /\ TableOK /\ Succession
    /\ WatcherOK /\ BatchOK /\ HeldOK
    /\ Rising /\ NoOldNews
    /\ NudgeOnItsWay /\ NoGap /\ Succeeds /\ GoneTold /\ LiveTold
    /\ Predecessors /\ ListSent /\ EndIsLast /\ EndOnItsWay
    /\ Covering /\ Forgotten

LEMMA InvInit == Init => Inv
<1>. SUFFICES ASSUME Init PROVE Inv
  OBVIOUS
<1>1. TypeOK
  BY TypeInit
<1>2. /\ nextVersion = 1 /\ outCh = <<>> /\ ~endSeen /\ excused = {} /\ crossed = {}
      /\ watcher.pc = "starting" /\ watcher.lastSeenRV = 0 /\ Batch = <<>> /\ watcher.owed = {}
      /\ ~watcher.listed /\ ~watcher.initialListDone /\ watcher.sent = 0
      /\ watcher.covers = {}
      /\ \A u \in Uids : /\ row[u].state = "absent" /\ row[u].rv = 0 /\ open[u] = NoOpen
                         /\ watcher.seen[u] = 0 /\ tries[u] = 0
      /\ \A n \in Names : store[n] = Nothing
  BY DEF Init, NewWatcher, Batch
<1>3. Committed = {} /\ Live = {} /\ Expected = {} /\ \A u \in Uids : ~Listing(u)
  BY <1>2 DEF Committed, Live, Expected, Listing
<1>4. TableOK
  <2>1. NoOpen.op = "none" /\ NoOpen.rv = 0
    BY DEF NoOpen
  <2>2. \A u \in Uids : /\ row[u].state = "absent" /\ row[u].rv = 0
                        /\ open[u].op = "none" /\ open[u].rv = 0
    BY <1>2, <2>1, Zenon
  <2>3. 0 < nextVersion /\ "absent" # "live"
    <3>1. nextVersion = 1
      BY <1>2
    <3>. QED  BY <3>1
  <2>. QED  BY <2>2, <2>3, Zenon DEF TableOK
<1>5. Succession /\ Succeeds
  BY <1>2 DEF Succession, Succeeds, Before
<1>6. WatcherOK /\ BatchOK /\ HeldOK
  <2>1. WatcherOK
    BY <1>2 DEF WatcherOK
  <2>2. DOMAIN Batch = {} /\ DOMAIN outCh = {}
    BY <1>2
  <2>3. BatchOK
    BY <2>2 DEF BatchOK
  <2>4. \A n \in Names : store[n] = Nothing /\ store[n].uid = None
    BY <1>2 DEF Nothing
  <2>5. HeldOK
    BY <2>2, <2>4 DEF HeldOK
  <2>. QED  BY <2>1, <2>3, <2>5
<1>7. Rising /\ NoOldNews
  BY <1>2 DEF Rising, NoOldNews
<1>8. NudgeOnItsWay /\ NoGap /\ GoneTold /\ LiveTold
  BY <1>3 DEF NudgeOnItsWay, NoGap, GoneTold, LiveTold
<1>9. Predecessors /\ ListSent /\ EndIsLast /\ EndOnItsWay
  BY <1>2, <1>3 DEF Predecessors, ListSent, EndIsLast, EndOnItsWay
<1>10. Covering /\ Forgotten
  BY <1>2, <1>3 DEF Covering, Forgotten
<1>. QED  BY <1>1, <1>4, <1>5, <1>6, <1>7, <1>8, <1>9, <1>10 DEF Inv

LEMMA InvStep == Inv /\ [Next]_vars => Inv'
<1>. SUFFICES ASSUME Inv, [Next]_vars PROVE Inv'
  OBVIOUS
<1>1. TypeOK'
  BY TypeStep DEF Inv
<1>2. TableOK' /\ Succession'
  BY TableStep, SuccessionStep DEF Inv
<1>3. WatcherOK' /\ BatchOK' /\ HeldOK'
  BY <1>1, <1>2, WatcherStep, BatchStep, HeldStep DEF Inv
<1>4. Rising' /\ NoOldNews'
  BY <1>1, RisingStep, NewsStep DEF Inv
<1>5. NudgeOnItsWay' /\ NoGap'
  BY <1>1, NudgeStep, NoGapStep DEF Inv
<1>6. Succeeds' /\ GoneTold' /\ LiveTold'
  BY <1>1, <1>2, <1>3, SucceedsStep, GoneStep, LiveStep DEF Inv
<1>7. Predecessors' /\ ListSent'
  BY <1>1, <1>2, PredecessorsStep, ListSentStep DEF Inv
<1>8. EndIsLast' /\ EndOnItsWay'
  BY <1>1, EndIsLastStep, EndOnItsWayStep DEF Inv
<1>9. Covering' /\ Forgotten'
  BY <1>1, <1>2, <1>3, CoveringStep, ForgottenStep DEF Inv
<1>. QED  BY <1>1, <1>2, <1>3, <1>4, <1>5, <1>6, <1>7, <1>8, <1>9 DEF Inv

LEMMA Invariance == Spec => []Inv
BY InvInit, InvStep, PTL DEF Spec

\* Of every object the client is sent rising versions, each at most once in a watch,
\* though the lookback reads rows again and pruneSeen forgets (markSeen): what has been
\* sent is noted, or is too far below the cursor to be read again.
THEOREM VersionsRise == Spec => []NoOldNews
BY Invariance, PTL DEF Inv

\* A change in the next relist's reach that the watcher has not sent is in its hands, or
\* the log or a nudge still holds it, unless a relist broke off or a message was lost
\* (nudgeWatchersByKindNamespace, nudgeCh).
THEOREM NoChangeWaits == Spec => []NudgeOnItsWay
BY Invariance, PTL DEF Inv

\* A client told the end of the initial list has every row the first relist read and that
\* still lives, and the end is told once the watcher noted it, unless the rows had filled
\* the channel (sendBookmark).
THEOREM InitialList == Spec => []EndMeansListed
<1>1. Inv => EndMeansListed
  <2>. SUFFICES ASSUME Inv PROVE EndMeansListed
    OBVIOUS
  <2>1. ASSUME endSeen, ~watcher.short, NEW u \in watcher.owed \cap Live,
               NameOf[u] \notin crossed
        PROVE  store[NameOf[u]].uid = u
    <3>1. u \in Uids /\ watcher.pc # "starting"
      BY <2>1 DEF Inv, Live, WatcherOK
    <3>2. Settled(outCh, store[NameOf[u]], u, 0)
      BY <2>1, <3>1 DEF Inv, EndIsLast, Listing
    <3>3. \A i \in DOMAIN outCh : ~(i < 0)
      BY HeldTypes DEF Inv
    <3>. QED  BY <3>2, <3>3 DEF Settled
  <2>2. watcher.initialListDone => \/ endSeen \/ watcher.sent = Capacity
                                   \/ \E i \in DOMAIN outCh : outCh[i] = EndMark
    BY DEF Inv, EndOnItsWay
  <2>. QED  BY <2>1, <2>2 DEF EndMeansListed
<1>. QED  BY <1>1, Invariance, PTL

\* When cleanupLoop takes a deleted object's row away, a client that keeps up has been told
\* of the deletion, one broken relist in between allowed.
THEOREM PurgeIsTold == Spec => []PurgedWasTold
<1>1. Inv => PurgedWasTold
  BY DEF Inv, Forgotten, PurgedWasTold
<1>. QED  BY <1>1, Invariance, PTL

\* Once nothing is on its way, the client has under each name what the table has, but for
\* changes that committed below the lookback or behind their name's last deletion (relist,
\* seenRVs).
THEOREM QuietIsCurrent == Spec => []QuietMeansCurrent
<1>1. Inv => QuietMeansCurrent
  <2>. SUFFICES ASSUME Inv, CaughtUp, ~logged, ~watcher.nudged, ~watcher.behind,
                       NEW n \in Names, n \notin crossed,
                       \A u \in excused : NameOf[u] # n
                PROVE  Agrees(n)
    BY DEF QuietMeansCurrent
  <2>0. TypeOK /\ Batch = <<>> /\ outCh = <<>> /\ watcher.pc = "idle"
    BY DEF Inv, CaughtUp, WatcherOK
  <2>1. ASSUME NEW u \in Committed PROVE ~Owing(u)
    <3>1. ~InHand(u)
      BY <2>0 DEF InHand, Batch
    <3>2. /\ u \in Uids /\ watcher.lastSeenRV \in Nat /\ row[u].rv \in Nat
          /\ watcher.seen[u] \in Nat /\ Lookback \in Nat
      BY <2>0, HeldTypes, RowTypes, DepthAssumption DEF Committed
    <3>3. ~(row[u].rv + Lookback > watcher.lastSeenRV /\ watcher.seen[u] < row[u].rv)
      BY <2>0, <3>1 DEF Inv, NudgeOnItsWay
    <3>. QED  BY <2>0, <3>2, <3>3 DEF Owing, Reach
  <2>2. \A st, x : Told(outCh, st, n, x) => st = x
    BY <2>0 DEF Told
  <2>3. ASSUME NEW u \in Live, NameOf[u] = n
        PROVE  store[n] = [uid |-> u, rv |-> row[u].rv]
    <3>1. u \in Expected \cap Live /\ u \in Committed
      BY <2>3 DEF Live, Expected, Committed
    <3>2. Told(outCh, store[NameOf[u]], NameOf[u], [uid |-> u, rv |-> row[u].rv])
      BY <2>1, <2>3, <3>1 DEF Inv, LiveTold
    <3>. QED  BY <2>2, <2>3, <3>2
  <2>4. ASSUME {u \in Live : NameOf[u] = n} = {} PROVE store[n] = Nothing
    <3>. SUFFICES ASSUME store[n].uid # None PROVE FALSE
      BY DEF Inv, HeldOK
    <3>1. PICK u : u = store[n].uid
      OBVIOUS
    <3>2. u \in Uids /\ NameOf[u] = n /\ Was(u, store[n].rv, FALSE)
      BY <2>0, <3>1, HeldTypes DEF Inv, HeldOK
    <3>3. row[u].state # "live" /\ u \notin excused
      BY <2>4, <3>2 DEF Live
    <3>4. row[u].state # "absent"
      BY <2>0, <3>2, HeldTypes, RowTypes DEF Inv, TableOK, Was
    <3>5. row[u].state # "purged"
      BY <3>1, <3>2, <3>3 DEF Inv, Forgotten
    <3>6. row[u].state = "deleted"
      BY <2>0, <3>2, <3>3, <3>4, <3>5, RowTypes
    <3>7. u \in Expected /\ ~Owing(u)
      BY <2>1, <3>2, <3>3, <3>6 DEF Expected, Committed
    <3>8. PICK x \in Stored : x.uid # u /\ Told(outCh, store[n], n, x)
      BY <3>2, <3>6, <3>7 DEF Inv, GoneTold
    <3>. QED  BY <2>2, <3>1, <3>8
  <2>. QED  BY <2>3, <2>4 DEF Agrees
<1>. QED  BY <1>1, Invariance, PTL
===============================================================================
