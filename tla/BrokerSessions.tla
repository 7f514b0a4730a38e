----------------------------- MODULE BrokerSessions -----------------------------
(***************************************************************************)
(* The broker's view of sessions and their queries, built from the events  *)
(* and messages that pass through it                                       *)
(* (services/ark-broker/ark-broker/src/brokers/sessions-broker.ts and the  *)
(* routes that feed, serve and watch it).                                  *)
(*                                                                         *)
(* Events are posted by the controller and the engines, each on its own    *)
(* connection: they may arrive in any order, late, or more than once.      *)
(* Every handler runs to its end in one step of the event loop; the file   *)
(* is written by a timer or by the handler.                                *)
(***************************************************************************)
EXTENDS Naturals, Sequences, FiniteSets

CONSTANTS
    Sessions, Queries, Conversations,
    None,         \* no session, no conversation
    Watchers,     \* clients of GET /sessions?watch=true
    MaxRequests,  \* bound: events and messages posted
    MaxFaults     \* bound: saves that fail, purges and restarts

ASSUME NoneAssumption   == None \notin Sessions /\ None \notin Conversations
ASSUME BoundsAssumption == MaxRequests \in Nat /\ MaxFaults \in Nat

VARIABLES
    store,           \* the sessions, in memory
    queryToSession,  \* the index applyMessage finds a query's session by
    disk,            \* the sessions in the file
    saveTimer,       \* a deferred save is due
    dirty,           \* something changed since the deferred save
    saveFailed,      \* history: the last attempt to write the file failed
    watching,        \* the watchers that are connected
    view,            \* what each watcher has been told of each session
    requests, faults \* counters behind the bounds

files == <<disk, saveTimer, dirty, saveFailed>>
vars  == <<store, queryToSession, disk, saveTimer, dirty, saveFailed, watching, view,
           requests, faults>>

Phases == {"running", "done", "error", "canceled"}

\* The reasons of events, told apart by what resolveQueryPhase makes of them; a failed
\* operation of an agent (a tool, a model call) posts "...Error", too.
Reasons == {"Start", "QueryExecutionComplete", "QueryExecutionCanceled", "Error"}

\* seen is a history: the phases its events stand for since the query came into the store.
Query  == [known : BOOLEAN, phase : Phases, conversationId : Conversations \cup {None},
           seen : SUBSET Phases]
NoQuery == [known |-> FALSE, phase |-> "running", conversationId |-> None, seen |-> {}]

\* active: the session's status is 'active' ('idle' and 'error' are not told apart).
Session == [queries : [Queries -> Query], active : BOOLEAN]
NoSession == [queries |-> [q \in Queries |-> NoQuery], active |-> FALSE]

\* order: the keys of store.sessions, in the order they were inserted.
Store   == [order : Seq(Sessions), session : [Sessions -> Session]]
Empty   == [order |-> <<>>, session |-> [s \in Sessions |-> NoSession]]
\* What of a session is told to watchers and told apart here.
Shown(session) == [active |-> session.active,
                   phases |-> [q \in Queries |-> IF session.queries[q].known
                                                 THEN {session.queries[q].phase} ELSE {}]]
Has(st, s) == \E i \in DOMAIN st.order : st.order[i] = s

TypeOK ==
    /\ store \in Store /\ disk \in Store
    /\ queryToSession \in [Queries -> Sessions \cup {None}]
    /\ saveTimer \in BOOLEAN /\ dirty \in BOOLEAN /\ saveFailed \in BOOLEAN
    /\ watching \in SUBSET Watchers
    /\ view \in [Watchers -> [Sessions -> [active : BOOLEAN,
                                           phases : [Queries -> SUBSET Phases]]]]
    /\ requests \in 0 .. MaxRequests /\ faults \in 0 .. MaxFaults

Init ==
    /\ store = Empty /\ disk = Empty
    /\ queryToSession = [q \in Queries |-> None]
    /\ saveTimer = FALSE /\ dirty = FALSE /\ saveFailed = FALSE
    /\ watching = {}
    /\ view = [w \in Watchers |-> [s \in Sessions |-> Shown(NoSession)]]
    /\ requests = 0 /\ faults = 0

-------------------------------------------------------------------------------
(* Ingestion *)

\* Mutant: other reasons are passed through.
resolveUnlisted(reason, failed) ==
    CASE reason = "QueryExecutionComplete" -> IF failed THEN "error" ELSE "done"
      [] reason = "QueryExecutionCanceled" -> "canceled"
      [] reason = "Error"                  -> "error"
      [] OTHER                             -> reason
resolveQueryPhase(reason, failed) ==
    CASE reason = "QueryExecutionComplete" -> IF failed THEN "error" ELSE "done"
      [] reason = "QueryExecutionCanceled" -> "canceled"
      [] reason = "Error"                  -> "error"
      [] OTHER                             -> "running"

\* Mutant: done may replace canceled.
UpdatedPhaseDoneWins(old, new) ==
    CASE new = "error"                       -> "error"
      [] new = "canceled" /\ old # "error"   -> "canceled"
      [] new = "done" /\ old # "error"       -> "done"
      [] OTHER                               -> old
\* updateExistingQuery: error overrides everything, canceled overrides done.
UpdatedPhase(old, new) ==
    CASE new = "error"                                        -> "error"
      [] new = "canceled" /\ old # "error"                    -> "canceled"
      [] new = "done" /\ old # "error" /\ old # "canceled"    -> "done"
      [] OTHER                                                -> old

First(old, new) == IF old # None THEN old ELSE new

\* The entry of a query after an event: created by its first one, updated by the others.
Applied(query, phase, conv) ==
    [known |-> TRUE,
     phase |-> IF query.known THEN UpdatedPhase(query.phase, phase) ELSE phase,
     conversationId |-> First(query.conversationId, conv),
     seen |-> query.seen \cup {phase}]

\* recalculateSessionStatus.
Recalculated(queries) ==
    [queries |-> queries,
     active |-> \E q \in Queries : queries[q].known /\ queries[q].phase = "running"]

Put(s, session) ==
    store' = [order |-> IF Has(store, s) THEN store.order ELSE Append(store.order, s),
              session |-> [store.session EXCEPT ![s] = session]]

\* Mutant: no timer is set.
deferredFlag == dirty' = TRUE /\ UNCHANGED saveTimer
\* deferredSave: a timer that is set already will save this change, too.
deferredSave == dirty' = TRUE /\ saveTimer' = TRUE

\* Mutant: told before it is stored.
UpsertBefore(s) ==
    view' = [w \in Watchers |-> IF w \in watching
                                THEN [view[w] EXCEPT ![s] = Shown(store.session[s])] ELSE view[w]]
\* The 'upsert' event: every watcher is sent the session as it is now.
Upsert(s) == view' = [w \in Watchers |-> IF w \in watching
                                         THEN [view[w] EXCEPT ![s] = Shown(store'.session[s])]
                                         ELSE view[w]]

applyEvent(s, q, reason, failed, conv) ==
    LET queries == store.session[s].queries
        query == Applied(queries[q], resolveQueryPhase(reason, failed), conv)
    IN /\ Put(s, Recalculated([queries EXCEPT ![q] = query]))
       /\ queryToSession' = IF queries[q].known THEN queryToSession
                                                ELSE [queryToSession EXCEPT ![q] = s]
       /\ Upsert(s)

Posted == requests < MaxRequests /\ requests' = requests + 1

\* POST /events.
PostEvent(s, q, reason, failed, conv) ==
    /\ Posted
    /\ applyEvent(s, q, reason, failed, conv)
    /\ deferredSave
    /\ UNCHANGED <<disk, saveFailed, watching, faults>>

\* The file is replaced by what is in memory; an error is logged and forgotten.
save(ok) ==
    /\ saveFailed' = ~ok
    /\ disk' = IF ok THEN store' ELSE disk
    /\ faults' = IF ok THEN faults ELSE faults + 1
    /\ ok \/ faults < MaxFaults

\* POST /sessions: an event that is also saved at once.
PostSession(s, q, reason, failed, conv, ok) ==
    /\ Posted
    /\ applyEvent(s, q, reason, failed, conv)
    /\ deferredSave
    /\ save(ok)
    /\ UNCHANGED watching

\* applyMessage, at the end of POST /messages: the conversation is noted on the query the
\* index leads to; nobody is told.
PostMessage(q, conv) ==
    LET s == queryToSession[q]
    IN /\ Posted
       /\ IF s # None /\ Has(store, s) /\ store.session[s].queries[q].known
          THEN /\ store' = [store EXCEPT !.session[s].queries[q].conversationId = First(@, conv)]
               /\ deferredSave
          ELSE UNCHANGED <<store, saveTimer, dirty>>
       /\ UNCHANGED <<queryToSession, disk, saveFailed, watching, view, faults>>

-------------------------------------------------------------------------------
(* The file, purges and restarts *)

\* The timer of deferredSave goes off.
SaveTimer(ok) ==
    /\ saveTimer
    /\ saveTimer' = FALSE /\ dirty' = FALSE
    /\ UNCHANGED store
    /\ IF dirty THEN save(ok) ELSE UNCHANGED <<disk, saveFailed, faults>>
    /\ UNCHANGED <<queryToSession, watching, view, requests>>

\* DELETE /sessions: the index and the watchers keep what they have, and the file keeps
\* the sessions if it cannot be written.
DeleteSessions(ok) ==
    /\ faults < MaxFaults /\ faults' = faults + 1
    /\ store' = Empty
    /\ disk' = IF ok THEN Empty ELSE disk
    /\ saveFailed' = ~ok
    /\ UNCHANGED <<queryToSession, saveTimer, dirty, watching, view, requests>>

\* Mutant: the index is not rebuilt.
EmptyIndex(st) == [q \in Queries |-> None]
\* rebuildIndex: of the sessions that have the query, the last one keeps it.
RebuiltIndex(st) ==
    [q \in Queries |->
        LET having == {i \in DOMAIN st.order : st.session[st.order[i]].queries[q].known}
            last   == {i \in having : \A j \in having : j <= i}
        IN IF last = {} THEN None ELSE st.order[CHOOSE i \in last : TRUE]]

\* The process ends, with a save when it was asked to, and a new one loads the file; the
\* watchers are disconnected.
Restart(graceful) ==
    LET loaded == IF graceful THEN store ELSE disk
    IN /\ faults < MaxFaults /\ faults' = faults + 1
       /\ disk' = loaded
       /\ store' = [loaded EXCEPT !.session =
                       [s \in Sessions |-> IF Has(loaded, s)
                                           THEN Recalculated(loaded.session[s].queries)
                                           ELSE NoSession]]
       /\ queryToSession' = RebuiltIndex(loaded)
       /\ saveTimer' = FALSE /\ dirty' = FALSE /\ saveFailed' = FALSE
       /\ watching' = {}
       /\ UNCHANGED <<view, requests>>

-------------------------------------------------------------------------------
(* Watchers *)

\* GET /sessions?watch=true: each session there is is sent; the client replaces what it
\* had of it.
Watch(w) ==
    /\ w \notin watching
    /\ watching' = watching \cup {w}
    /\ view' = [view EXCEPT ![w] = [s \in Sessions |-> IF Has(store, s)
                                                       THEN Shown(store.session[s]) ELSE @[s]]]
    /\ UNCHANGED <<store, queryToSession, files, requests, faults>>

Unwatch(w) ==
    /\ w \in watching
    /\ watching' = watching \ {w}
    /\ UNCHANGED <<store, queryToSession, files, view, requests, faults>>

-------------------------------------------------------------------------------

\* Only the event of an execution's end can carry a failure.
Failures(reason) == IF reason = "QueryExecutionComplete" THEN BOOLEAN ELSE {FALSE}

Ingest ==
    \E s \in Sessions, q \in Queries, conv \in Conversations \cup {None} :
    \E reason \in Reasons : \E failed \in Failures(reason) :
        \/ PostEvent(s, q, reason, failed, conv)
        \/ \E ok \in BOOLEAN : PostSession(s, q, reason, failed, conv, ok)

Next ==
    \/ Ingest
    \/ \E q \in Queries, conv \in Conversations : PostMessage(q, conv)
    \/ \E ok \in BOOLEAN : SaveTimer(ok) \/ DeleteSessions(ok)
    \/ \E graceful \in BOOLEAN : Restart(graceful)
    \/ \E w \in Watchers : Watch(w) \/ Unwatch(w)

Spec == Init /\ [][Next]_vars

-------------------------------------------------------------------------------
(* Properties *)

\* The phase shown for a query depends on which events came, not on their order or
\* number: error before canceled before done before running (updateExistingQuery, which
\* the specification of the API contradicts: CompletionUpdatesPhase).
Strongest(phases) ==
    IF "error" \in phases         THEN "error"
    ELSE IF "canceled" \in phases THEN "canceled"
    ELSE IF "done" \in phases     THEN "done"
    ELSE "running"
PhaseIsStrongest ==
    \A s \in Sessions, q \in Queries :
        LET query == store.session[s].queries[q]
        IN query.known => query.phase = Strongest(query.seen)

\* "WHEN a `QueryExecutionComplete` event arrives for an existing query THEN the query
\* `phase` SHALL be updated to `"done"` (no error)" (specification of the sessions API).
CompletionUpdatesPhase ==
    [][\A s \in Sessions, q \in Queries :
         LET old == store.session[s].queries[q]
             new == store'.session[s].queries[q]
         IN requests' # requests /\ old.known /\ new.known /\ "done" \in new.seen \ old.seen
            => new.phase = "done"]_vars

\* A message finds the session of its query, as long as only one session knows a query
\* of that name (queryToSession, rebuildIndex).
IndexFindsQuery ==
    \A s \in Sessions, q \in Queries :
        (/\ store.session[s].queries[q].known
         /\ \A t \in Sessions \ {s} : ~store.session[t].queries[q].known)
        => queryToSession[q] = s

\* What a crash loses is what a timer was about to save: memory and file differ only
\* while one is set, or after a save that failed (deferredSave).
UnsavedIsScheduled == disk # store => (saveTimer /\ dirty) \/ saveFailed

\* A connected watcher sees the phases of every query and the status of every session
\* there is; only conversations noted by messages reach it later (handleStreamingSessions).
WatcherSeesPhases ==
    \A w \in watching, s \in Sessions :
        Has(store, s) => view[w][s] = Shown(store.session[s])
===============================================================================
