-------------------------------- MODULE PgWatch --------------------------------
(***************************************************************************)
(* Watching one kind of resource in the aggregated API server's PostgreSQL *)
(* backend (ark/internal/storage/postgresql): writers take a resource      *)
(* version when their statement runs and commit later; the write-ahead log *)
(* nudges a watcher, which reads the rows above its cursor, less a         *)
(* lookback, and offers them to its client through a bounded channel;      *)
(* deleted rows are kept for five minutes.                                 *)
(*                                                                         *)
(* The client is an informer: it keeps a store by name, and when a watch   *)
(* ends in good order it starts another one without listing again.         *)
(***************************************************************************)
EXTENDS Naturals, Sequences

CONSTANTS
    Uids, Names,
    NameOf,     \* the name each object has
    None,       \* no object
    Lookback,   \* buildRelistQuery: 500
    PruneDepth, \* pruneSeen: 5000
    Capacity,   \* of outCh: 100
    MaxVersion, \* bound: versions given out
    MaxFaults   \* bound: failed relists, lost log messages, watches that end

ASSUME NamesAssumption  == NameOf \in [Uids -> Names] /\ None \notin Uids
ASSUME DepthAssumption  ==
    Lookback \in Nat \ {0} /\ PruneDepth \in Nat /\ Lookback <= PruneDepth + 1
ASSUME BoundsAssumption == Capacity \in Nat \ {0} /\ MaxVersion \in Nat /\ MaxFaults \in Nat

VARIABLES
    nextVersion, \* the sequence resources_resource_version_seq
    row,         \* the committed rows
    open,        \* the transaction on an object's row that has not committed
    cachedRV,    \* the version refreshCachedRV read last, of all kinds, is not 0
    logged,      \* the write-ahead log holds a change the consumer has not read
    watcher,     \* the postgresWatcher, and what its relist still has to send
    outCh,       \* events the client has not received
    store,       \* the client's store: the object it has under each name, and its version
    endSeen,     \* the client was told the end of the initial list by this watch
    tries,       \* relists that ended since an object's deletion committed
    missed,      \* history: those among them that broke off
    excused,     \* history: objects whose change may never be told, see Commit and Purge
    crossed,     \* history: names whose object was created with a version below that of
                 \* its predecessor's deletion
    faults       \* counter behind the bound

db      == <<nextVersion, row, open>>
history == <<tries, missed, excused, crossed>>
vars    == <<nextVersion, row, open, cachedRV, logged, watcher, outCh, store, endSeen, tries,
             missed, excused, crossed, faults>>

Versions == 0 .. MaxVersion
Row      == [state : {"absent", "live", "deleted", "purged"}, rv : Versions]
Open     == [op : {"none", "create", "update", "delete"}, rv : Versions]
NoOpen   == [op |-> "none", rv |-> 0]
\* What relist reads of a row, and what becomes an event of it: ADDED and MODIFIED are
\* the same to a client.
Change   == [uid : Uids, rv : Versions, deleted : BOOLEAN]
\* The first bookmark of a watch, with the initial-events-end annotation; the later ones
\* are left out: what they say is not looked at by Watch.
EndMark  == [uid |-> None]
\* seen: 0 when the uid has no entry.  batch: what relist has read and not sent.
\* Histories: owed, the rows there were when the first relist read; short, it did not
\* return them all; sent, events up to the first bookmark (counted to Capacity); covers,
\* the deleted rows when the last relist read; behind, that relist did not return all
\* rows, or a nudge after it was lost.
Watcher  == [pc : {"starting", "sending", "idle"}, nudged : BOOLEAN, lastSeenRV : Versions,
             seen : [Uids -> Versions], batch : Seq(Change), initialListDone : BOOLEAN,
             listed : BOOLEAN, owed : SUBSET Uids, short : BOOLEAN, sent : 0 .. Capacity,
             covers : SUBSET Uids, behind : BOOLEAN]
NewWatcher == [pc |-> "starting", nudged |-> FALSE, lastSeenRV |-> 0,
               seen |-> [u \in Uids |-> 0], batch |-> <<>>, initialListDone |-> FALSE,
               listed |-> FALSE, owed |-> {}, short |-> FALSE, sent |-> 0,
               covers |-> {}, behind |-> FALSE]
\* What the client has under a name.
Stored   == [uid : Uids \cup {None}, rv : Versions]
Nothing  == [uid |-> None, rv |-> 0]

TypeOK ==
    /\ nextVersion \in 1 .. MaxVersion + 1
    /\ row \in [Uids -> Row] /\ open \in [Uids -> Open]
    /\ cachedRV \in BOOLEAN /\ logged \in BOOLEAN
    /\ watcher \in Watcher
    /\ outCh \in Seq(Change \cup {EndMark}) /\ Len(outCh) <= Capacity
    /\ store \in [Names -> Stored] /\ endSeen \in BOOLEAN
    /\ tries \in [Uids -> 0 .. 2] /\ missed \in [Uids -> 0 .. 2]
    /\ excused \in SUBSET Uids /\ crossed \in SUBSET Names
    /\ faults \in 0 .. MaxFaults

Init ==
    /\ nextVersion = 1
    /\ row = [u \in Uids |-> [state |-> "absent", rv |-> 0]]
    /\ open = [u \in Uids |-> NoOpen]
    /\ cachedRV \in BOOLEAN /\ logged = FALSE
    /\ watcher = NewWatcher /\ outCh = <<>>
    /\ store = [n \in Names |-> Nothing] /\ endSeen = FALSE
    /\ tries = [u \in Uids |-> 0] /\ missed = [u \in Uids |-> 0]
    /\ excused = {} /\ crossed = {} /\ faults = 0

Fault == faults < MaxFaults /\ faults' = faults + 1

-------------------------------------------------------------------------------
(* The table *)

\* Mutant: the channel has no limit.
NoLimit == TRUE
\* The channel takes an event without waiting.
Room    == Len(outCh) < Capacity

\* Create, Update, UpdateStatus and Delete: the statement locks the row and takes the
\* next version; nobody sees it yet.
Begin(u, op) ==
    /\ nextVersion <= MaxVersion
    /\ open[u] = NoOpen
    /\ row[u].state = IF op = "create" THEN "absent" ELSE "live"
    /\ open' = [open EXCEPT ![u] = [op |-> op, rv |-> nextVersion]]
    /\ nextVersion' = nextVersion + 1
    /\ UNCHANGED <<row, cachedRV, logged, watcher, outCh, store, endSeen, history, faults>>

Others(u)  == {v \in Uids \ {u} : NameOf[v] = NameOf[u]}
Live       == {u \in Uids : row[u].state = "live"}
Committed  == {u \in Uids : row[u].state \in {"live", "deleted"}}

\* The index lets one row of a name be live: an insert waits for a deletion under way.
\* A change that commits after Lookback versions were given out above its own may be
\* below every later relist.
Commit(u) ==
    LET rv == open[u].rv
        state == IF open[u].op = "delete" THEN "deleted" ELSE "live"
    IN /\ open[u] # NoOpen
       /\ open[u].op = "create" => Others(u) \cap Live = {}
       /\ row' = [row EXCEPT ![u] = [state |-> state, rv |-> rv]]
       /\ open' = [open EXCEPT ![u] = NoOpen]
       /\ logged' = TRUE
       /\ excused' = IF (nextVersion - 1) - rv >= Lookback THEN excused \cup {u} ELSE excused
       /\ crossed' = IF \E v \in Others(u) : row[v].state = "deleted" /\ row[v].rv > rv
                     THEN crossed \cup {NameOf[u]} ELSE crossed
       /\ UNCHANGED <<nextVersion, cachedRV, watcher, outCh, store, endSeen, tries, missed, faults>>

\* The transaction fails, of an insert also on a name that is taken.
Rollback(u) ==
    /\ open[u] # NoOpen
    /\ open' = [open EXCEPT ![u] = NoOpen]
    /\ UNCHANGED <<nextVersion, row, cachedRV, logged, watcher, outCh, store, endSeen, history,
                   faults>>

\* cleanupLoop, five minutes after a deletion: time for two relists, unless the client
\* keeps the watcher waiting.  Both may have broken off.
CaughtUp == watcher.pc = "idle" /\ outCh = <<>>
\* Mutant: kept for one relist only.
OldAfterOne(u) == tries[u] >= 1 \/ ~Room
Old(u)         == tries[u] >= 2 \/ ~Room
Purge(u) ==
    /\ row[u].state = "deleted" /\ Old(u)
    /\ row' = [row EXCEPT ![u].state = "purged"]
    /\ excused' = IF CaughtUp /\ missed[u] < 2 THEN excused ELSE excused \cup {u}
    /\ UNCHANGED <<nextVersion, open, cachedRV, logged, watcher, outCh, store, endSeen, tries,
                   missed, crossed, faults>>

\* refreshCachedRV: there is a row, of this kind or of another one, which stays.
refreshCachedRV ==
    /\ cachedRV' = (cachedRV \/ Committed # {})
    /\ UNCHANGED <<db, logged, watcher, outCh, store, endSeen, history, faults>>

\* The consumer of the write-ahead log reads a change and nudges the watcher, unless one
\* is due already; or it cannot make sense of the message.
nudgeWatchers(lost) ==
    /\ logged /\ logged' = FALSE
    /\ IF lost THEN Fault /\ watcher' = [watcher EXCEPT !.behind = TRUE]
               ELSE UNCHANGED faults /\ watcher' = [watcher EXCEPT !.nudged = TRUE]
    /\ UNCHANGED <<db, cachedRV, outCh, store, endSeen, history>>

-------------------------------------------------------------------------------
(* The watcher *)

\* Mutant: no lookback.
RelistedAbove == {u \in Committed : row[u].rv > watcher.lastSeenRV}
\* Mutant: a limit, and no next page.
RelistedPage  == {u \in Committed : /\ row[u].rv + Lookback > watcher.lastSeenRV
                                    /\ \A v \in Committed : row[u].rv <= row[v].rv}
\* buildRelistQuery: the rows above the cursor less the lookback.
Relisted      == {u \in Committed : row[u].rv + Lookback > watcher.lastSeenRV}

\* By version: the ways, of which there is one, to list some rows so.
InOrder(found) ==
    {s \in UNION {[1 .. n -> found] : n \in 0 .. MaxVersion} :
        /\ \A i, j \in DOMAIN s : i < j => row[s[i]].rv < row[s[j]].rv
        /\ \A u \in found : \E i \in DOMAIN s : s[i] = u}
ChangeOf(u) == [uid |-> u, rv |-> row[u].rv, deleted |-> row[u].state = "deleted"]

\* Mutant: also the version sent last.
UnseenOrSame(u) == watcher.seen[u] <= row[u].rv
\* markSeen: the row is news.
Unseen(u) == watcher.seen[u] < row[u].rv

\* pruneSeen.
PrunedSeen(w) ==
    [u \in Uids |-> IF w.lastSeenRV > PruneDepth /\ w.seen[u] + PruneDepth < w.lastSeenRV
                    THEN 0 ELSE w.seen[u]]

\* sendBookmark, which does not wait for the channel.
sendBookmark(w) ==
    IF ~cachedRV /\ w.lastSeenRV = 0
    THEN watcher' = w /\ UNCHANGED outCh
    ELSE /\ watcher' = [w EXCEPT !.initialListDone = TRUE]
         /\ outCh' = IF Room THEN Append(outCh, EndMark) ELSE outCh

\* Mutant: the nudge is taken when the relist ends.
EndOfRelistClears(w) ==
    LET ended == [w EXCEPT !.pc = "idle", !.listed = TRUE, !.covers = {}, !.nudged = FALSE,
                           !.seen = PrunedSeen(w)]
    IN /\ tries' = [u \in Uids |-> IF u \in w.covers /\ tries[u] < 2 THEN tries[u] + 1
                                                                    ELSE tries[u]]
       /\ IF w.listed THEN watcher' = ended /\ UNCHANGED outCh ELSE sendBookmark(ended)
\* The relist is over; the first one is followed by a bookmark.
EndOfRelist(w) ==
    LET ended == [w EXCEPT !.pc = "idle", !.listed = TRUE, !.covers = {}, !.seen = PrunedSeen(w)]
    IN /\ tries' = [u \in Uids |-> IF u \in w.covers /\ tries[u] < 2 THEN tries[u] + 1
                                                                    ELSE tries[u]]
       /\ IF w.listed THEN watcher' = ended /\ UNCHANGED outCh ELSE sendBookmark(ended)

\* relist reads, at the start, when nudged and every two minutes.  The query may fail,
\* or the rows break off: both end it as if it had read them all.  A uid is only once
\* among the rows, so which of them are news is known when they are read.
Relist(read) ==
    LET whole    == read = Relisted
        starting == watcher.pc = "starting"
    IN /\ watcher.pc \in {"starting", "idle"}
       /\ read \subseteq Relisted
       /\ \A u \in read, v \in Relisted \ read : row[u].rv < row[v].rv
       /\ IF whole THEN UNCHANGED faults ELSE Fault
       /\ \E news \in InOrder({u \in read : Unseen(u)}) :
              watcher' = [watcher EXCEPT
                             !.pc = "sending",
                             !.nudged = starting /\ @,
                             !.batch = [i \in DOMAIN news |-> ChangeOf(news[i])],
                             !.owed = IF starting THEN Committed ELSE @,
                             !.short = IF starting THEN ~whole ELSE @,
                             !.covers = {u \in Uids : row[u].state = "deleted"},
                             !.behind = ~whole]
       /\ missed' = [u \in Uids |-> IF ~whole /\ row[u].state = "deleted" /\ missed[u] < 2
                                    THEN missed[u] + 1 ELSE missed[u]]
       /\ UNCHANGED <<db, cachedRV, logged, outCh, store, endSeen, tries, excused, crossed>>

\* emitRow: the channel may make it wait.
EmitRow ==
    LET change == Head(watcher.batch)
    IN /\ watcher.pc = "sending" /\ watcher.batch # <<>>
       /\ Room
       /\ outCh' = Append(outCh, change)
       /\ watcher' = [watcher EXCEPT
                        !.batch = Tail(@),
                        !.seen[change.uid] = change.rv,
                        !.lastSeenRV = IF change.rv > @ THEN change.rv ELSE @,
                        !.sent = IF watcher.initialListDone \/ @ = Capacity THEN @ ELSE @ + 1]
       /\ UNCHANGED <<db, cachedRV, logged, store, endSeen, history, faults>>

EndRelist ==
    /\ watcher.pc = "sending" /\ watcher.batch = <<>>
    /\ EndOfRelist(watcher)
    /\ UNCHANGED <<db, cachedRV, logged, store, endSeen, missed, excused, crossed, faults>>

\* Every half minute, for the first bookmark if there was no version before.
BookmarkTick ==
    /\ watcher.pc = "idle" /\ ~watcher.initialListDone
    /\ sendBookmark(watcher)
    /\ UNCHANGED <<db, cachedRV, logged, store, endSeen, history, faults>>

-------------------------------------------------------------------------------
(* The client *)

\* The informer's store follows the events by name.
Receive ==
    LET event == Head(outCh)
    IN /\ outCh # <<>> /\ outCh' = Tail(outCh)
       /\ IF event.uid = None
          THEN endSeen' = TRUE /\ UNCHANGED store
          ELSE /\ store' = [store EXCEPT ![NameOf[event.uid]] =
                                IF event.deleted THEN Nothing
                                ELSE [uid |-> event.uid, rv |-> event.rv]]
               /\ UNCHANGED endSeen
       /\ UNCHANGED <<db, cachedRV, logged, watcher, history, faults>>

\* The watch ends (Stop), and the client starts the next one from the version it has;
\* Watch does not look at it.
Rewatch ==
    /\ Fault
    /\ watcher' = NewWatcher /\ outCh' = <<>> /\ endSeen' = FALSE
    /\ tries' = [u \in Uids |-> 0] /\ missed' = [u \in Uids |-> 0]
    /\ UNCHANGED <<db, cachedRV, logged, store, excused, crossed>>

-------------------------------------------------------------------------------

Write(u)  == (\E op \in {"create", "update", "delete"} : Begin(u, op)) \/ Commit(u) \/ Rollback(u)

Next ==
    \/ \E u \in Uids : Write(u) \/ Purge(u)
    \/ refreshCachedRV
    \/ \E lost \in BOOLEAN : nudgeWatchers(lost)
    \/ \E read \in SUBSET Relisted : Relist(read)
    \/ EmitRow \/ EndRelist \/ BookmarkTick
    \/ Receive \/ Rewatch

Spec == Init /\ [][Next]_vars

-------------------------------------------------------------------------------
(* Properties *)

\* The versions of an object reach the client in their order, and within a watch each
\* once, although the lookback reads rows again (markSeen, pruneSeen).
NoOldNews ==
    /\ \A i, j \in DOMAIN outCh :
           (i < j /\ outCh[i].uid = outCh[j].uid /\ outCh[i].uid # None)
           => outCh[i].rv < outCh[j].rv
    /\ \A i \in DOMAIN outCh :
           outCh[i].uid # None =>
               LET has == store[NameOf[outCh[i].uid]]
               IN has.uid = outCh[i].uid => has.rv <= outCh[i].rv

\* The watcher has read the row as it is, and has not sent it.
InHand(u) == \E i \in DOMAIN watcher.batch :
                 watcher.batch[i].uid = u /\ watcher.batch[i].rv = row[u].rv

\* No change waits for the two-minute relist: one in reach of the next relist that the
\* watcher has not sent is in its hands, or a nudge for it is on its way; unless a relist
\* broke off or a log message was lost (nudgeWatchersByKindNamespace, nudgeCh).
NudgeOnItsWay ==
    \A u \in Committed :
        (/\ watcher.pc # "starting" /\ ~watcher.behind
         /\ row[u].rv + Lookback > watcher.lastSeenRV
         /\ watcher.seen[u] < row[u].rv)
        => logged \/ watcher.nudged \/ InHand(u)

\* A client that was told the end of the initial list has every row there was when the
\* watch's first relist read and that still lives, unless that relist broke off; and the
\* end, which is never told twice, is only lost to rows that had filled the channel
\* (sendBookmark).
EndMeansListed ==
    /\ (endSeen /\ ~watcher.short) =>
           \A u \in watcher.owed \cap Live :
               NameOf[u] \notin crossed => store[NameOf[u]].uid = u
    /\ watcher.initialListDone =>
           \/ endSeen \/ watcher.sent = Capacity
           \/ \E i \in DOMAIN outCh : outCh[i] = EndMark

\* Before cleanupLoop takes the row of a deleted object away, a client that keeps up has
\* been told, though one relist in between may fail.
PurgedWasTold ==
    \A u \in Uids \ excused :
        row[u].state = "purged" => store[NameOf[u]].uid # u

\* Once nothing is on its way the client has what the table has, for each name with no
\* change that committed out of the lookback's reach or behind its predecessor's deletion
\* (relist, seenRVs).
Agrees(n) ==
    LET live == {u \in Live : NameOf[u] = n}
    IN IF live = {} THEN store[n] = Nothing
       ELSE \A u \in live : store[n] = [uid |-> u, rv |-> row[u].rv]
QuietMeansCurrent ==
    (CaughtUp /\ ~logged /\ ~watcher.nudged /\ ~watcher.behind) =>
        \A n \in Names :
            Agrees(n) \/ n \in crossed \/ \E u \in excused : NameOf[u] = n
===============================================================================
