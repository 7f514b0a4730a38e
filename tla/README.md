# Ark: TLA+ models, checks and proofs

Ark runs AI agents on Kubernetes. A user creates a `Query`; a controller dispatches it to an
execution engine over A2A and writes the answer into the query's status; engines stream chunks
and messages to a broker; custom resources live in etcd (CRDs) or, optionally, in PostgreSQL
behind an aggregated API server. This directory models that machinery in TLA+, checks it with
TLC on small instances and proves what matters most of it with TLAPS.

    tlc -config QuerySafety.cfg MCQueryController.tla     # the other pairs: PROJECT.json, "runs"
    tlapm QueryControllerProofs.tla                       # and the other *Proofs modules

## 1. Inventory

Paths are relative to the repository's root.

| Component | State | Operations | Interacts through | Hard behaviour | Correct when |
|---|---|---|---|---|---|
| Query controller, `ark/internal/controller/query_controller.go` | `operations` map (name -> cancel function), one goroutine per execution | reconcile: ttl, finalizer, conditions, cancel, start; goroutine: resolve, dispatch, report | informer cache and work queue; status PUTs; A2A request | stale cache, conflicts, restart, name re-use, deadline against answer | one execution at a time, cancel and delete reach it, phase never taken back, every query settles |
| Executor SDK, `lib/ark-sdk/gen_sdk/overlay/python/ark_sdk/` | per-executor broker client, status updater, `_streamed` flag | execute, stream chunk, patch phase, complete | A2A, status patch, broker HTTP | concurrent requests share the executor; patches race the controller | chunks and phases belong to the request that produced them |
| Aggregated API server, `ark/internal/apiserver/registry/` | none (reads then writes the backend) | create, update, status update, delete, list, watch | PostgreSQL backend | read-then-write, pagination, resourceVersions | optimistic concurrency; lists and watches join without a gap |
| PostgreSQL backend, `ark/internal/storage/postgresql/` | table `resources`, per-watcher cursor, `seenRVs`, output channel | CRUD, relist with lookback, bookmark, prune, purge, WAL nudge | watchers' channels | commit order differs from version order; full channel; failing relist | every version, or a newer one, reaches each watcher; deletions too |
| Broker streams, `services/ark-broker/ark-broker/src/brokers`, `.../http` | item array and `nextSequence`, JSON file or table, SSE subscribers | append, trim, delete, page, replay and follow, complete, save, load | HTTP, SSE, event emitter | replay against live items, trimming, restart | a follower sees each item once, in order, and the end |
| Broker sessions view, `brokers/sessions-broker.ts` | sessions and queries built from events and messages, an index, a JSON file | apply, save, purge, watch, load | POST /events, /messages, /sessions; SSE | out-of-order input, deferred saves, restart | the phase shown does not depend on the order of the events |
| Completions: teams, `ark/executors/completions/team*.go` | turn counter, message history | sequential, round-robin, selector, graph | agents, memory | termination signals, limits, cycles, nested teams | turns bounded, transitions legal, errors and signals surface |
| Completions: agent loop and handler, `handler.go`, `agent*.go` | message history, stream, memory | tool-call loop, finalize stream, save to memory | broker, model APIs | failure between stream, memory and answer | stream end, memory and answer agree |
| A2ATask controller, `a2atask_controller.go` | failure count annotation, status | poll, back off, time out, ttl | A2A server, status PUTs | update overwrites fetched status; events defeat back-off | status follows the server; terminal is final; ttl enforced |
| Other controllers, `ark/internal/controller/*_controller.go` | conditions | recompute from referenced objects | API server | one writer each | level-triggered |
| ark-api, `services/ark-api/` | MCP authorization flows, API keys, client pool | REST front end; wait for a query | API server | callback against expiry, concurrent flows | one flow, one token |
| Webhooks, telemetry, dashboard, CLI, charts, docs | none of the runtime's | | | | |

`PROJECT.json` lists the same components with what is modelled of each, and under `hazards` the
places in the code where these behaviours bite, with the property that watches each one.

## 2. Modules

| Module | Contents |
|---|---|
| `QueryController` | the Query controller and everything that writes the same Query |
| `ChunkStream` | the broker's completion streams, the executions that feed them and the clients that follow them |
| `PostgresMessages` | the messages of a conversation behind the broker's Postgres backend, paged and watched |
| `MessageFeed` | abstract: what a reader of messages may count on; `PostgresMessages` implements it |
| `BrokerSessions` | the broker's sessions view, its file and its watchers |
| `PgWatch` | watching one kind in the aggregated API server's PostgreSQL backend, with an informer behind it |
| `A2ATask` | the A2ATask controller, the server it polls and the API server it writes to |
| `MC...` | constants, symmetry and views for TLC (`A2ATask` needs none) |
| `...Proofs` | the theorems about a module and their proofs |
| `RisingLists` | induction over numbers, and lemmas about lists of numbers in their order |

How the parts meet: an execution of `QueryController` is one `Run` of `ChunkStream`, which in
turn posts the events `BrokerSessions` takes in; `PgWatch` is what stands behind the `watch` and
`cache` of `QueryController` and `A2ATask` when their objects live in PostgreSQL. The modules
are checked one by one: the product of any two is too large for TLC, and what one needs of the
other is small enough to be said as a nondeterministic environment (an engine that goes on after
its controller gave up, events in any order, an informer that lags).

### QueryController

One namespaced name. The work queue, the map and every write are keyed by it, so names do not
interact; the name can be deleted and created again, with a new uid.

| State | In the code |
|---|---|
| `store`, `watch` | the object in the API server; the versions sent to the controller's informer and not yet delivered |
| `cache`, `queued` | the informer's copy, which `r.Get` reads; the key in the work queue |
| `rec` | the reconcile in progress: where it is, and its local `obj`. The default of one worker per key holds: one reconcile of a name at a time |
| `operations` | `QueryReconciler.operations` at this name |
| `ops` | the goroutines `executeQueryAsync`, each with its copy of the query, and whether its context was canceled |
| `engine` | how far the engine has got with each request; it goes on when the goroutine has given up |
| `requeueAt`, `expired` | timers set by `RequeueAfter`; uids whose ttl (one hour without one) has passed |

A reconcile reads the cache once and decides on that copy. The decision is one action
(`FetchExpired`, `AddFinalizer`, `Finalize`, `InitConditions`, `HonourCancel`, `SeeTerminal`,
`SetRunning`, `LeaveRunning`, `StartOperation`, ...), and each later call to the API server is
an action of its own (`DeleteExpired`, `ReconcileUpdate`, `ReconcileStatus` for the second read,
`ReconcileWrite`), because the object may change in between. The goroutine likewise: `OpSend`,
`OpReply` / `OpFail` / `OpCanceled` / `OpPanic` / `OpResolveFail`, `OpUpdateStatus` (re-read),
`OpWrite` / `OpWriteAborted`, and `OpExit` for the deferred clean-up, with every other party
free to act between them. Two backends differ in the operators `AcceptsStatus` and
`CommitDelete`: a status PUT behind the CRD is refused when its resourceVersion is old, behind
the aggregated server it never is; DELETE waits for finalizers only behind the CRD.

Abstractions. Responses and token usage are named by the execution that produced them. A reply
may come without usage (`OpReply`, `unmetered`): the goroutine then reports with the usage its
copy of the query had, as `executeQueryAsync` only sets what it got. A status PUT replaces the
status behind the CRD; the aggregated server decodes it into the object it read, where what was
not sent stays (`Sent`). Target
and address resolution is a step that fails or succeeds. Conditions are reduced to "not empty".
The deadline of a goroutine is its query's expiry. The engine's patch and the aggregated
server's status PUT (a read and a conditional write) are one step each: losing that small race
is a Conflict, which the controller treats like a refused PUT. Failures of the API server other
than NotFound and Conflict are left out: they requeue a reconcile, and are dropped by the
goroutine, exactly like a Conflict. Finalizers of other parties are left out, and with them the
branch for an object marked deleted that no longer has Ark's. The workqueue's rate limit is left
out.

### ChunkStream

One broker, several executions (`Runs`), each of a query, and clients (`Readers`).

| State | In the code |
|---|---|
| `items`, `nextSequence`, `disk` | `InMemoryStream` of the chunks, and its JSON file |
| `run`, `wire` | an execution of the completions engine or of an SDK executor; the chunks of its POST the broker has not read |
| `client`, `streamed` | `_broker_client` and `_streamed` of the executor object that all requests of an adapter share |
| `reader` | a connection `GET /stream/{query}`: what its client has got, its timeout |
| `log`, `disturbed`, `overlapped` | histories, only for the properties |

The broker is one event loop, and the in-memory stream never waits for I/O: `append`,
`completeQuery` and the replay each run to their end (their promises are already resolved), so
every handler is one action and the buffer of `handlers.ts` is always empty when it is flushed.
What interleaves is the requests. The two producers differ in what they wait for: the SDK's
`BrokerClient` awaits the answer to each POST (`Producing`); the engine writes its chunks down one
open POST (`StreamChunk`, `wire`) and posts the completion on another connection, which may be
handled first (`Completing`). `BeginExecution` and `Finally` set and clear the shared client as
`_do_execute` does, whoever it belongs to. A completion finds no chunk (404, `CompleteNotFound`),
an earlier completion (`AlreadyCompleted`) or completes (`CompleteQuery`), which saves, as DELETE
and a graceful end do. A graceful restart saves, another one loads the last save; the seconds in
which a process that has saved still takes requests, and a file that was half written, are left
out. Of a chunk only its sender, its place and whether it is an error are kept. What the code
filters is given by the places that stay (`PlacesOf`), read in order (`Kept`, `ChunksAt`,
`InOrder`).

### PostgresMessages and MessageFeed

`PostgresMessages` has the table `rows`, the database sequence `messagesSeq`, the connections of
the broker's pool with the statements sent on each (`conn`), the requests (`post`) and the
clients (`client`, `got`). An INSERT takes its number when it begins and is visible when it
commits (`InsertBegins`, `InsertCommits`), its `append` resumes and announces it later
(`Inserted`); a SELECT sees what is committed (`SelectRuns`) and is handled later (`Paged`,
`Replayed`). One connection carries out its statements in order; the pool's connections run side
by side. `streamSSE` subscribes first, buffers while the SELECT is on its way, and writes the
replay and then what the buffer holds beyond it (`Watch`, `Notified`, `Replay`).

Statements fail, and how differs:

| Fault | Handled by | In the code |
|---|---|---|
| `InsertFails`: the row is not stored | `InsertFailed` | `append` throws, the loop over the messages ends, 500 |
| `AnswerLost`: the row is stored, its answer is an error | `InsertFailed` | the same: nothing is announced, although the message is in the table and every later SELECT finds it |
| `SelectFails`, of a page | `PageFailed` | 500 |
| `SelectFails`, of a replay | `ReplayFailed` | `streamSSE` unsubscribes and stops the heartbeat, but the response stays open: a `silent` client gets nothing until it closes |

Faults are of one statement. A connection that breaks is several of them, one for each
statement on it. Left out is a commit that finishes after its client was told that the
connection broke: here a row is visible when its statement is answered, or not at all.

Histories, only for the properties: `log` (rows in the order of the commits), `gone`, `unsaid`
(stored, but the answer was lost), `heard` (stored, and `append` has handled the answer or its
loss), `announced` (the ones it emitted), and for each client how many there were of both when
it joined (`base`, `since`).

Sorting by number and dropping what is not beyond a cursor are stated as relations: `InOrder`,
`Beyond` and `Replay` are the sets of the lists that result, with one member each
(`ListsAreDefined`). An action takes that member with `\E`, and a proof knows of it what the
set says.

`MessageFeed` is the promise: one list that grows at its end; each reader gets each message after
its starting point once and in order. It may miss messages that are gone and, while it is live,
those whose sender was told that they failed (`Unanswered`, `Missing`): nobody announces them to
it, and the next message it gets is beyond them, so not even a return with its cursor brings them.
A page or a replay has them. Where the feed is not `exact`, a reader only gets messages of the
list. `Give` is about all readers in one step, since an announcement goes to every live one at
once. The refinement is `Feed == INSTANCE MessageFeed WITH exact <- pool = 1, log <- Texts(log),
live <- {c \in Clients : client[c].pc = "live"}` (the model's `log` has the rows, the list only
their messages), and `IsFeed == Feed!Spec` is a property of the run.

### BrokerSessions

`store` (sessions in the order of insertion), `queryToSession`, `disk`, `saveTimer` and `dirty`
of `deferredSave`, and the watchers with what they were told. `PostEvent`, `PostSession` (which
also saves at once), `PostMessage`, `SaveTimer`, `DeleteSessions`, `Restart` and `Watch` are the
handlers, each run to its end. Reasons of events are reduced to what `resolveQueryPhase` makes
of them. `seen` is a history: the phases the events of a query stood for. The statuses `idle`
and `error` of a session, its participants and conversations, and listing are left out; so is
the time between the save of a graceful end and the end.

### PgWatch

The table (`row`), transactions that have a version and have not committed (`open`), the
write-ahead log (`logged`), one `postgresWatcher` (`watcher`, the channel `outCh`) and the
informer at its end (`store`, by name). `Commit` is apart from `Begin`, because a version is
taken when the statement runs and is visible when it commits, in any order. `Relist` reads the
rows above the cursor less the lookback, all of them, none, or a part (`rows.Err()` is not
looked at, so a relist that breaks off ends like a complete one) and keeps those that are news;
`EmitRow` waits for room in the channel; `EndRelist` prunes and, after the first relist, sends a
bookmark, which does not wait (`sendBookmark`). `Rewatch` starts from version 0 whatever the client
asks for, as `Watch` does. The numbers 500, 5000 and 100 of the code are `Lookback`,
`PruneDepth` and `Capacity`. Bookmarks after the first are left out, and so are the versions
bookmarks carry.

### A2ATask

`task`, `watch`, `cache` and the queue as in `QueryController`; `server` is the state at the A2A
server; `pc`, `obj`, `fresh` and `changed` are the worker's: every write is an action of its own
(`BeginOrFail`, `RecordFailure`, `ResetFailures`, `WritePolled`, `DeleteExpired`), other writers
act in between. `fresh` stands for the resourceVersion of `obj`: that it is the stored one.
`backend` is chosen at the start: behind the CRD a status update with an old version is refused
and `r.Update` leaves the status alone; behind the aggregated server a status update is never
refused and `r.Update` writes it all. States with the same handling are one: failed is
`rejected`, canceled is `completed`, auth-required is `input-required`; an unknown state, which
the code copies as a phase of that name, is left out. The history of a working task is only
whether it grew.

## 3. Properties

### QueryController

Safety, as invariants:

- `TypeOK`.
- `RegisteredOperation`: the map's entry belongs to a goroutine that will still clean up, and,
  behind the CRD, to the stored query with its finalizer on. A leaked entry would stop every
  later execution ("Exists"); a query that vanished first would leave a goroutine that nothing
  cancels.
- `FinalizerProtocol`: why that holds (section 6).
- `LiveOperationRegistered`: a goroutine still working is the registered one, so cancel and
  delete reach it and no second one runs beside it. The proviso `FirstOfName` is needed: after
  the name was re-used, the deferred `operations.Delete(name)` of the *old* query's canceled
  goroutine removes the entry of the new one (TLC finds this when the proviso is dropped).
- `ResponseOfSameQuery`: a goroutine re-reads the query by name, yet its response never lands in
  a later query of that name. Only behind the CRD: it is violated when `QuerySafety` is run with
  `Backend = "postgres"`, where the finalizer does not hold the query back.
- `DoneIsCoherent`: a query reported done has a response and the token usage of the same
  execution, although `restoreOnto` merges an old copy over the newest one; unless the reply of
  that very execution came without usage. What is then reported is in section 5.

Action property: `PhaseNeverRegresses`: the controller's own two writers never take the phase
back, and never undo canceled, whatever stale copies they write from. Behind the CRD it holds
because of the resourceVersion; behind the aggregated server, which ignores it on status writes,
it is violated.

Liveness: `CancelHonoured`, `ExpiredReclaimed`, `QuerySettles`. `QuerySettles` allows that all
executions of the model are used up: an execution's result can be lost, and the query is then
run again.

### ChunkStream

- `SequencesRise`: numbers rise along the stream and stay below the next one, in memory and in
  the file.
- `OpenIsTail`: what the client of an open connection has is the last part of what the broker
  took for the query: the seam between replay and live chunks neither repeats, swaps nor drops.
- `OnlyOwnChunks`: a chunk is in another query's stream only if both queries' executions ran
  beside others in their adapter; the response itself never is.
- `CompleteAnswer`: a client told [DONE] has the whole answer of an execution that completed, in
  order, for SDK executors that did not overlap and a stream that was not disturbed. For the
  completions engine it is false (section 5).
- `FollowerEnds`, liveness: an open connection on a stream in progress comes to an end, unless
  the stream was disturbed.

### PostgresMessages

- `IsFeed`: the refinement above. `LiveIsExact`: a client that watches from now on and stays
  gets what is announced, once and in that order, whatever the pool. `CatchesUp`, liveness: with
  one connection, every message stored behind its starting point reaches a watching client,
  unless the message goes, the answer to its INSERT was lost, or the client is live no longer.
  A `silent` client is not live: nothing is promised to it.

### BrokerSessions

- `PhaseIsStrongest`: error before canceled before done before running, whatever the order and
  number of the events. This is what the code does; the specification of completions says
  otherwise, which `CompletionUpdatesPhase` shows (section 5). `IndexFindsQuery`: the index leads
  to the only session that knows the query. `UnsavedIsScheduled`: memory and file differ only
  while a save is due or after one that failed. `WatcherSeesPhases`: a connected watcher has the
  current phases of every session.

### PgWatch

- `NoOldNews`: versions of an object reach the client in order, once per watch, although rows
  are read again.
- `NudgeOnItsWay`: no change in reach waits for the two-minute relist.
- `EndMeansListed`: who was told the end of the initial list has the rows there were; the end is
  lost only behind rows that had filled the channel.
- `PurgedWasTold`: a client that keeps up is told of a deletion before its row is purged, also
  when one of the relists in the five minutes breaks off.
- `QuietMeansCurrent`: once nothing is on its way the client has what the table has. Excused are
  changes that commit after `Lookback` later versions were given out, rows purged under a client
  that does not keep up, and names whose object was created with a version below its
  predecessor's deletion: the code does lose these (section 5).

### A2ATask

- `TerminalStays` and `ConditionAgrees` behind the CRD: a task that is over keeps its phase
  whatever old copies say, and its condition says so. `CompletedIsReset`: a completed task has
  no count of failed polls left, although the count is written apart and its errors are only
  logged.
- `Settles` and `ExpiredRemoved`, liveness, behind either backend: a task whose server is done,
  or whose timeout has passed, ends; an expired task is removed, also one with no timer left.

Each property has a mutant in `PROJECT.json`: a definition of the model changed the way a
plausible bug would change the code (operators marked "mutant" in the module), under which TLC
finds the property violated.

## 4. Runs

| Run | Question | Instance | Distinct states |
|---|---|---|---|
| `QuerySafety` | what may two executions, two successive queries of a name, expiry, edits and restarts do to each other | CRD, 2 goroutines, late engine patch; either 2 uids that do not expire, or 1 that does, with a restart | 2.6 million |
| `QueryProgress` | do cancel and executions get where they must, and is an expired query always reclaimed | CRD, fair; either 2 goroutines and 1 uid, edited, that does not expire, or 1 goroutine and 2 uids, the first of which does | 0.2 million |
| `QueryPostgres` | the same behind the aggregated server, with a query without ttl | 1 goroutine, 2 uids, fair | 0.3 million |
| `ChunkStream` | order, numbering, whose chunks a client gets, and that it is told the end | 2 executions of the engine or of one adapter, 2 queries, 1 client, 2 chunks, room for 4, 1 fault, fair | 0.8 million |
| `PostgresMessages` | does paging and watching by cursor amount to one list | pool of 1 or 2, posts of 2 and 1 messages, 1 client, pages of 1, fair; with one connection 3 reads and 2 faults, with two 2 reads and 1 fault | 0.2 million |
| `BrokerSessions` | what the sessions view shows, finds and may lose | 2 sessions, 2 queries, 3 requests, 2 faults, 1 watcher | 1.1 million |
| `PgWatch` | what an informer behind PostgreSQL gets to know | 3 objects, two of one name, 3 versions, lookback 2, channel of 2, 1 fault | 0.9 million |
| `A2ATask` | does a task end as its server, timeout and ttl say | both backends, 2 faults, informer 2 versions behind, fair | 0.4 million |
| `TerminalIsFinal` | is the race with the executor's patch harmless, as its design says | 1 goroutine, violated | |
| `ResultMakesTerminal` | does a response during provisioning always set the terminal phase | 1 goroutine, violated | |
| `UsageOfTheCall` | is the usage of a query that is done that of the call that answered it | aggregated server, 2 goroutines, violated | |
| `CompletionUpdatesPhase` | does a completion update the phase of a known query | 2 requests, no fault, violated | |

Bounds. One re-use of the name is what the hazards of re-use need; two goroutines give an old
and a new execution of it, or a restarted one. One edit moves the resourceVersion under any
writer, and users' other writes do so in every run. A restart forgets the map and the
goroutines, and an expiry takes the query away under them; both together with a second query
would be more than TLC can do. So `QuerySafety` and `QueryProgress` start from one of two initial
states: in each the model has used up some of its bounds (`Start` in `MCQueryController`, which
sets the counters behind `MaxUid`, `MaxEdits` and `MaxRestarts`), and the part of the behaviours
that matters to the question is left. Every such state is one the system is in: nothing yet
stored, or a query just created. `MaxLag` limits how far the watch may be behind before users,
engines and resyncs wait; the controller's own writes are not held back, so the backlog gets
longer than the bound. `ShortTTL` names the uids that may expire. No run checks for deadlock:
with every bound used up and the query gone, the model stops, as the system rests; the other
systems rest too when nobody asks for anything.

In `ChunkStream` two executions are what it takes to share an adapter, to repeat a query and to
fill the stream of another one; four items hold one execution's answer and its marker and lose
something to the next one; one fault is one purge, restart, crash or raise at any moment. In
`PostgresMessages` a pool of two has all the orders of commit and answer that a larger one has
between two statements, and a request of two messages with one beside it shows a loop overtaken;
three reads are a page, a watch and a return with the cursor. Two faults are two statements of one
connection, or a lost answer and a replay that fails; with two connections, where less is claimed,
one fault and two reads do. In `BrokerSessions` three requests are two conflicting events and a
message, or one event per session and a message about the name in both. In `PgWatch` three
versions are enough for a creation, its deletion and a re-creation in any order of commit, and for
a lookback of two to be outrun. In `A2ATask` two faults are a failed poll and an edit, restart or
second failure between it and its reset.

Symmetry. `BrokerSessions` permutes sessions and queries, `PgWatch` its two objects of one name;
both runs check safety only, and no definition tells the permuted values apart. `MCChunkStream`,
which also checks liveness, uses instead that names and executions are alike, by starting from
one initial state for each that is the same but for an exchange.

`View` replaces a resourceVersion by whether it is the stored one. Versions are only ever
compared with the stored version (equality), so two states with the same view have the same
steps and satisfy the same properties. The exceptions are the conjuncts of `FinalizerProtocol`
that order versions; TLC evaluates them on the states it visits, and the proof covers all.
`BareView`, of the runs about progress, also leaves out responses and usage, which no guard reads
and those properties do not name.

Fairness (`FairSpec`) of `QueryController`. Watch events are delivered and resyncs happen
(client-go's reflector, and controller-runtime's default resync); the queue has a worker; timers
fire; ttls pass; every wait in a goroutine has a deadline (the context carries the query's
expiry), so goroutines proceed. Nothing is assumed of users, engines, panics, restarts or
relists. Resync matters: `ExpiredReclaimed` rests on it when the ttl passes while the query
runs, because `handleRunningPhase` returns without a requeue.

In `ChunkStream`, executions go on, their requests arrive and are handled (`Produce`), and the
wait-for-query timer of a connection goes off; nothing is assumed of clients and faults. In
`PostgresMessages` the database carries out the statements of each connection and the broker
handles the answers; nobody need post, read or leave. In `A2ATask` events are delivered, resyncs
and timers come, and the worker goes on (`Work`); a poll may fail only as often as faults are
left, so one is answered in the end. Resync carries `ExpiredRemoved`: a task that is over
returns without a requeue. `BrokerSessions` and `PgWatch` are checked for safety only: their
liveness would be that of a timer, which the properties about quiet states
(`UnsavedIsScheduled`, `QuietMeansCurrent`) say without fairness.

## 5. Disagreements with the documentation

- `TerminalIsFinal`:
  `openspec/changes/archive/2026-05-06-query-provisioning-status/design.md:78` keeps terminal
  phases to the controller and calls the race with the executor harmless. The executor's patch
  is unconditional, and an engine is not told that the controller timed out: `error` is replaced
  by `provisioning`, and the query is executed again.
- `ResultMakesTerminal`: `openspec/specs/query-provisioning-phase/spec.md:23` requires the
  terminal phase once a response arrives. The only write of it is not retried, and its error is
  dropped (`query_controller.go:280`).
- `UsageOfTheCall`: the reference of `Query` says that the token usage is of the underlying
  model call. A goroutine sets it only if the reply has it (`query_controller.go:269-271`), so a
  query that is run again and answered without usage is done with the new response and the usage
  of an earlier execution.
- `CompletionUpdatesPhase`: `openspec/specs/broker-sessions-api/spec.md:162-164` has a
  `QueryExecutionComplete` update the phase of a known query to done or error. A completion after
  an error, or after a cancel, leaves the phase as it is, also when the error was that of one tool
  call the query got over.

Seen on the way, described here and not counted as disagreements:

Query. TTL deletion is by name, without a precondition, from a cached copy, so a query
re-created under the name can be deleted for its predecessor's ttl; behind the aggregated server
a query without ttl stays `running` for good once the default hour of its execution has passed.

Streams. The engine's completion can overtake its last chunk: a reader gets [DONE] without the
final chunk, or the completion finds nothing stored (404) and no reader gets [DONE]. An error
chunk ends live connections, in a replay it is sent like any other. The wait-for-query timeout
fires on a reader that got a replay and no live chunk. A query run again after its completion
gets `already_completed`: its readers are not told the end; nor is a reader that comes after the
completion and does not read from the beginning. An executor that raises or dies leaves its
readers waiting, and its exception is answered as an ordinary message, so the query is reported
done. A query re-created under a name has its predecessor's answer replayed. Overlapping
requests of one adapter send streamed chunks to each other's stream, or nowhere.

Messages. With the default pool of ten connections a reader may miss, repeat or reorder
messages, since numbers are given out before commit; `brokers/pagination.ts:3-4` speaks of
"consistent results even as new items are added", which holds for one connection. Even with one, a
live client is never sent a message whose INSERT was carried out and answered with an error, and
a sender that posts it again has it stored twice. A replay whose SELECT fails leaves its client on
an open response that nothing is ever written to, without heartbeats.

Sessions. A name used again keeps the terminal phase of its predecessor in the session, although
its new query is running. A conversation noted by a message is sent to no watcher; DELETE tells
watchers nothing and keeps the index.

PostgreSQL watch. A relist that breaks off looks complete; bookmark versions may run ahead of
what was sent; `Watch` ignores the version it is asked to start from; an empty database sends no
end of the initial list until a version exists; a client that starts a watch again after more
than five minutes misses purged deletions; a commit beyond the lookback is never delivered; an
object created with a version below its predecessor's deletion is taken out of the informer's
store.

A2ATask. Recording a failed poll changes the annotation, and the event of that change polls again
at once, whatever the backoff; every status write of a growing history does the same. Behind the
aggregated server an old copy may overwrite a terminal status, and a task created as `completed`
has Completed=False for good. Behind the CRD the reset of the count loses the polled status, which
is polled again. The default timeout is 12h in the code and 5m in `a2atask.mdx`.

## 6. Proofs

`QueryControllerProofs` holds, for every set of goroutines, either backend, any engine phases
and all bounds; the only assumptions are the six named ones on the constants in
`QueryController` (that `NoOp` is no goroutine, and the ranges of the parameters).

- `TypeCorrect`: `Spec => []TypeOK`. One lemma per party (`UsersType`, `InformerType`,
  `DecideType`, `WriteType`, `StartOperationType`, `OperationType`), resting on what the API
  server's operators return (`CommitType` and those after it).
- `FinalizerProtocolHolds`: `Spec => []FinalizerProtocol`, and from it
- `RegistrationSafe`: `Spec => []RegisteredOperation`.

`RegisteredOperation` is not inductive: `StartOperation` registers on the strength of a cached
copy, and `ReconcileUpdate` removes the finalizer on the strength of another.
`FinalizerProtocol` adds what makes both safe.

1. `VersionOrder`: cache, backlog and store are ordered by resourceVersion; and a copy with the
   store's version is the store's object as far as deletion is concerned (`UpToDate`).
   `OrderedStep` proves both kept by every kind of step: a commit, a delivery, a relist, or none
   of them.
2. `FinalizerGuard`: a copy on its way to the controller that shows the finalizer and no
   deletion is of the stored query, which still has its finalizer. So `StartOperation` is right
   (`StartProtocol`).
3. `MidReconcile`: what a reconcile knows between its calls: it is past ttl only with an expired
   uid, its copy is no newer than the cache, and when it takes the finalizer off, the copy is
   marked deleted and the map is empty.

The one step that takes the finalizer off is accepted only if its copy is the newest version;
then the cache is as new, the backlog is empty, and no copy shows the query undeleted
(`UpdateProtocol`). All other steps either keep the object's identity and finalizer or act where
there was none (`Harmless`, `GuardKept`).

What follows builds on `FinalizerProtocol`. Apart from `DoneCarriesItsResult` these theorems
assume `Backend = "crd"`: with the PostgreSQL backend a status PUT compares no version and a
finalizer does not hold the object, and the arguments below need both.

`WorkingOperationIsRegistered` (`LiveOperationRegistered`), from the invariant `OneOperation`:

1. `History`: the copies still about tell the history of the name in order. A newer one is of a
   later query, or of the same one with no cancel and no deletion undone.
2. `Late`: nobody holds a copy of a query from before those that goroutines were started for.
3. `Overruled`: whoever looks at the query of a canceled goroutine sees a cancel or a deletion.
4. `Sole`: a goroutine that works for the name's first query is registered, and no other one is
   at that query. This is the property; `StartOperation` keeps it because the copy it starts
   from shows no cancel, so by `Overruled` no canceled goroutine of that query is left, whose
   deferred Delete would take the entry out later.

### QueryStatusProofs

`DoneCarriesItsResult` (`DoneIsCoherent`, both backends): every copy, every object about to be
written and every outcome to report is coherent (`AllCoherent`), and no write spoils that: where
the writer has a response, its token usage is written with it, and the response of the copy
underneath stays only when the writer has none. An outcome may have an older usage beside its
response; then the reply of that execution came without one, which stays so. `StepStored`,
`StepRec` and `StepMoves` say once, for all steps, where a committed status, the reconcile's
object and a goroutine's object come from.

`ResponseStaysWithItsQuery` (`ResponseOfSameQuery`) needs to follow the responses:

1. `Answered`: wherever a response is held, it is held for the query its operation ran for.
2. `Writes`: a status write that would be accepted is of the stored query.
3. `Decided`: the finalizer holds the query from the reconcile's decision until its status is laid
   over the cache, so what is found there by name is the same query. For a goroutine
   `OwnQueryInCache` says so: while it is not canceled it is registered, and its query is there.

`ControllerNeverRegresses` (`PhaseNeverRegresses`), from the invariant `PhaseOrder`:

1. `Newest`: a copy with the store's version is the store's object. Both writers compare the
   version, so what they overwrite is what they copied, and only what they lay over it matters.
2. `SeenPhases`: what a phase, in any copy, says of the goroutines. A query shown pending has had
   none, one shown done or error has had one, and of one shown canceled every goroutine left is
   canceled, and every copy shows why (`Stopped`, which nothing undoes: `StoppedKept`).
3. `RecPhases`: the reconcile lays running only over a query no goroutine was started for, which
   therefore is not over.
4. `RunPhases`: a goroutine that reports is not canceled, so its query's phase is not canceled.

### ChunkStreamProofs

Five theorems, for every number of queries, executions, adapters and readers, every length and
limit: all the invariants of the run.

`TypeCorrect` (`TypeOK`), `RisesTheorem` (`SequencesRise`) and `OwnTheorem` (`OnlyOwnChunks`). The
invariant is `Inv`: the store is typed and every chunk in it, in the file or on the wire is
legitimate for the query it was posted to; numbers rise; an adapter holds only the client of an
execution under way there (`Held`); and two executions under way in one adapter have both been
noted as overlapped (`Noted`). `OnlyOwnChunks` alone is not inductive: whose chunk `StreamBySDK`
sends depends on the client another execution left, so what the client may be has to be carried
along.

`SeamTheorem` (`OpenIsTail`), from the invariant `Seam`:

1. `StreamOK`: what is stored of a query is the last part of what was taken for it, in order, and
   all of it unless the stream was disturbed. `Spans` says it with a map from the places of the
   store into the log: trimming, a purge and a restart take places away, and the map of what
   stays is the same one.
2. `OpenOK`: what an open connection has is the last part of what was taken. When it opens, that is
   `StreamOK`; while it is open, the store and the client take the same chunks.
3. `WithinOK`: the store is within its limit, so an append drops one chunk at most.

`AnswerTheorem` (`CompleteAnswer`), from the invariant `Told`. A query is `Clean` if it was not
disturbed and its executions are of SDK executors and ran beside no other one.

1. `AloneOK`: an execution that ran beside no other one holds its adapter while it is under way, so
   it sends its own chunks, and to its own query (`OwnSteps`).
2. `TakenOK`: what an execution has sent is stored, in order and once, but for the last chunk, which
   may be on its way: the client waits for the answer to each POST before the next one.
3. `MarkedOK`: before a marker of a clean query a whole answer is stored of an execution that
   completed. A completion is posted when nothing is on its way, and then by `TakenOK` all is
   stored (`AllSent`).
4. A client is told the end in one of two ways (`WhoIsTold`): by the completion, when by
   `Seam` it has what is stored (`StoredAnswer`), or by a replay up to the first marker
   (`ReplayedAnswer`).

These are stated over the set of what is stored, ordered by sequence number, as places move when
the store is trimmed; `AnswerOf` turns such a set into the list that `HasAnswer` speaks of.

### RisingLists

What both proofs about streams need of lists read in the order of their places or numbers: such a
list exists (`ListsExist`), it is the only one (`ListsEqual`), it leaves nothing out
(`RisingIsOnto`), and if it leaves no gap up to the end it is the last part (`RisingToEnd`). These
are inductions over a number. The library's induction theorems take an operator as their
parameter; `Least` and `Induct` take a set of numbers in its place, and follow from the
well-foundedness of strict inclusion on finite sets.

### PostgresMessagesProofs

Four theorems, for every pool, limit, set of posts, sizes and any number of clients: the run has
one client, and with two of them a live item reaches both in the same step.

`TypeCorrect` (`TypeOK`), with the shape of what is under way (`Typed`): an INSERT is of a post
that waits, and the only one of it (`PostOK`); a page statement is of a client that pages, and
the only one of it (`PageOK`); a connection carries out its statements in order, so what was
carried out is in front (`QueueOK`).

`Implements` (`IsFeed`), the refinement: the initial states are the feed's, and every step is a
`Store`, a `Remove`, an `Unanswered`, a `Join`, a `Leave`, a `Give` or a stutter of it. It rests
on three layers.

1. `Recorded`, whatever the pool: the log has each message once, and of a post's next message only
   when its INSERT is done (`LogOK`); every row that is held anywhere, in the table, an answer or
   a buffer, is one of the log (`HeldOK`); each message is handled by its `append` at most once,
   after it is stored (`HandledOK`). `Store` needs the first of these. `Join` needs that no more
   is handled than is stored (`HandledStored`), which follows as `heard` maps into the log one
   to one.
2. `Listed`, for one connection: the log is in the order of its numbers and what is handled is
   its first part (`ListOK`); the INSERTs answered and not yet handled, lost answers among them,
   are the rest of the log, in order (`AnswersOK`); a SELECT that ran has found, in order, what
   was stored before it, all of it that is not gone (`FoundOK`); a row of the log is in the table
   or its message is gone (`RowsOK`). So when a SELECT's answer is handled, it has what was
   handled before, and nothing more.
3. `Placed`: the message of an INSERT whose answer is lost is in `unsaid` (`LostOK`), whatever the
   pool. With one connection each client has a place in what was handled (`PlaceOK`), the row it
   was given last and whose number is its cursor, or where it joined. Of a live client
   everything handled behind its place is `Excused`: gone or unsaid. The buffer of a following one
   only has rows announced behind it.

`Given(c)` then says of a step what the feed says of `Give`: what the client gets are rows of the
log, behind its place, in order, and everything passed over is excused. It is shown for a page, for
a replay with the buffer behind it, and for a live item. A page and a replay go to clients that are
not live, and pass over what is gone only, as the SELECT has found the unsaid ones. An answer that
is lost gives nobody anything: what was handled grows, and `LostOK` excuses it.

`LiveTheorem` (`LiveIsExact`): `Counted` says that a client that joined live has read, and when it
follows with a cursor after that, it has read again. So a replay, which is written to a
`following` client only, never reaches one in its first watch.

`ListsAreDefined`: whatever the pool, no two rows share a number (`Numbered`: nor does an INSERT
that has its number share it with a row or another INSERT), so `InOrder`, `Beyond` and `Replay`
have one member each. An action that takes that member is never blocked by it, and has no choice.

### BrokerSessionsProofs

`TypeCorrect`, `PhaseTheorem`, `IndexTheorem`, `UnsavedTheorem`, `WatcherTheorem`: all five
properties of the run, for any sets and bounds. `Inv` adds `GoodStore` of memory and of file: a
query that is known has the phase of what was seen of it, the status is the recalculated one,
and a session outside the order is empty; without it a restart could load anything.

### A2ATaskProofs

`TypeCorrect`, `ConditionTheorem`, `ResetTheorem`, and `TerminalTheorem` for the action
property, for all bounds. None is inductive: a write is taken on the strength of `fresh`. `Inv`
adds what that means: in every version of the task, whoever has it, the condition agrees with
the phase (`VersionsSound`); the newest one is the last on its way, or the informer's
(`Newest`); and while the worker's copy is fresh, the stored task is not over and its count is
what the copy says (`CopyInHand`, `CopyIsNewest`).

### PgWatchProofs

`TypeCorrect`, `VersionsRise` (`NoOldNews`), `NoChangeWaits` (`NudgeOnItsWay`), `InitialList`
(`EndMeansListed`), `PurgeIsTold` (`PurgedWasTold`) and `QuietIsCurrent` (`QuietMeansCurrent`):
every invariant of the run, for any objects and names, any lookback of at most
`PruneDepth + 1`, any channel, any number of versions and faults. That relation of lookback and
pruning is what the code's 500 and 5000 must keep; `Pruned` is where the proof needs it. The
inductive invariant has five layers, each resting on those before it.

1. The table (`TableOK`, `Succession`): versions are given out once, also to transactions that
   have not committed; one object of a name is live; a name's deleted objects are older than its
   live one, unless it is `crossed`.
2. What is held (`WatcherOK`, `BatchOK`, `HeldOK`): an event in the batch, in the channel or in
   the client's store was true of its row when it was read (`Was`), and the row's version only
   rises since. The batch rises in version and has each object once.
3. Order (`Rising`): an event in the channel is noted in `seen`, or so far below the cursor that
   its version is never read again. This is why pruning forgets nothing that matters, and why
   `NoOldNews` holds although rows are read several times.
4. What is owed. `Owing(u)`: this watch has still to tell `u`'s present version. `NoGap`: an
   owed row is in the watcher's hands before anything `Lookback` above it is, so the cursor never
   passes it. `Told`: what a client has under a name once the channel is empty. `GoneTold` and
   `LiveTold`: what is not owed is told. An event about a name's earlier object could undo what
   was told of the later one; `Succeeds` says the earlier one comes first, and that a deletion
   still owed means that nothing of the later object was sent.
5. The ends. `Predecessors`, `ListSent`, `EndIsLast`, `EndOnItsWay`: what the first relist owes
   is in its batch or sent (`Settled`), and the mark is behind it. `Covering` counts the relists
   since a deletion against those that broke off: while the deletion is owed, every one of them
   did. `Forgotten`: of a purged object nothing is left on its way.

`QuietMeansCurrent` then follows: with nothing on its way, nudges included, `NudgeOnItsWay`
says nothing committed is owed, and what is told has arrived.

### Only model-checked

Liveness under fairness, everywhere: out of the prover's reach. Every invariant and action property
that a passing run checks is stated by a theorem; for `QueryController` with the PostgreSQL
backend these are `TypeOK`, `FinalizerProtocol`, `RegisteredOperation` and `DoneIsCoherent`, and
the other three are claimed behind the CRD only. `OneOperation`, `RightResponse` and
`PhaseOrder` are no run's invariants: a run checks what they imply.

## 7. Not modelled

- Completions: the strategies of a team and the tool-call loop of an agent. One goroutine runs
  the turns one after the other without shared state; a model would be the loops over again.
  Providers, tools, selectors and parameters: conversion and I/O.
- The condition-only controllers, A2AServer and MCPServer discovery: one writer each, every pass
  computes everything anew.
- ark-api: front ends over objects the models have, and the MCP authorization flow, which is an
  exchange of tokens with an external provider, apart from the runtime.
- Admission and validation (pure functions of one object), telemetry and events (write-only).
- The broker's events and traces, which use the stream of `ChunkStream` without completions;
  messages in memory likewise.
- List and pagination of the aggregated server, and the reconnects of the replication
  connection: `nudgeWatchers` may lose a message, which is what a reconnect can do to a watcher.
- Dashboard, CLI, charts, docs, samples: user interfaces and deployment. Most of the
  repository's TypeScript is of this kind.
