------------------------------ MODULE ChunkStream ------------------------------
(***************************************************************************)
(* The broker's completion streams: executions of queries post chunks and  *)
(* a completion to ark-broker, which keeps them in one in-memory stream    *)
(* with a JSON file behind it and sends them to the clients that follow a  *)
(* query over Server-Sent Events                                           *)
(* (services/ark-broker/ark-broker/src/http/routes/stream,                 *)
(* brokers/chunks-broker.ts, brokers/stream/in-memory-stream.ts).          *)
(*                                                                         *)
(* The broker is one Node.js event loop and this stream never waits for    *)
(* I/O, so every handler runs to its end in one step; what interleaves is  *)
(* the handlers, and the requests on their way to them.                    *)
(***************************************************************************)
EXTENDS Naturals, Sequences, FiniteSets

CONSTANTS
    Queries,      \* names of queries: the key of a stream
    Runs,         \* executions; a query whose controller restarts has several
    Adapters,     \* processes of SDK executors: one A2AExecutorAdapter each
    Engine,       \* the process of the completions engine
    None,         \* no execution
    RunLength,    \* chunks of an execution, the final chunk included
    Done,         \* the marker "[DONE]", the chunk of a completion
    Readers,      \* connections of clients
    MaxItems,     \* MAX_CHUNKS, 0 for no limit
    MaxFaults     \* bound: purges, restarts of the broker and deaths of executions

ASSUME QueriesAssumption == Queries # {}
ASSUME LimitsAssumption == MaxItems \in Nat /\ RunLength \in Nat \ {0}
ASSUME OthersAssumption == Engine \notin Adapters /\ None \notin Runs
ASSUME DoneAssumption   == \A r \in Runs, n \in 0 .. RunLength, e \in BOOLEAN :
                              Done # [run |-> r, n |-> n, error |-> e]
ASSUME BoundAssumption  == MaxFaults \in Nat

VARIABLES
    items,        \* InMemoryStream.items
    nextSequence, \* InMemoryStream.nextSequence
    disk,         \* the JSON file: items and nextSequence when they were last saved
    run,          \* the executions: their query and process, how far they are, and
                  \* whether they were the one to complete the stream
    client,       \* the execution whose BrokerClient each adapter holds
    streamed,     \* the _streamed flag of each adapter
    wire,         \* chunks an execution has sent that the broker has not read yet, and
                  \* the query they were posted to
    reader,       \* the connections of clients
    log,          \* history: the chunks the broker took for a query, less those a
                  \* restart lost
    disturbed,    \* history: queries whose stream was trimmed, purged, cut by a
                  \* restart, refused its completion or left by its execution
    overlapped,   \* history: executions that ran while another one did in their adapter
    faults        \* counter behind the bound

store   == <<items, nextSequence, disk>>
adapter == <<client, streamed, overlapped>>
vars    == <<items, nextSequence, disk, run, client, streamed, wire, reader, log, disturbed,
             overlapped, faults>>

\* A chunk, told apart by who sent it and when: the last one is the final chunk, and 0 is
\* the whole response in one chunk.  An error chunk has an error field.
Chunk == [run : Runs, n : 0 .. RunLength, error : BOOLEAN]
Item  == [sequenceNumber : Nat, queryId : Queries, chunk : Chunk \cup {Done}]
Snapshot == [items : Seq(Item), nextSequence : Nat]

\* timer: the wait-for-query timeout is armed; it is as long as no item has come.
Reader == [pc : {"away", "open", "done"}, query : Queries, beginning : BOOLEAN,
           timer : BOOLEAN, got : Seq(Chunk)]
\* A client before its request, and again when its connection was cut by an error chunk,
\* the timeout, the client or a crash.
Away == [pc |-> "away", query |-> CHOOSE q \in Queries : TRUE, beginning |-> FALSE,
         timer |-> FALSE, got |-> <<>>]

\* sent: chunks produced so far; whole: the whole response was sent as a chunk.
Run == [query : Queries, host : Adapters \cup {Engine}, pc : {"waiting", "executing", "over"},
        sent : 0 .. RunLength, whole : BOOLEAN, completed : BOOLEAN]
\* An SDK executor's BrokerClient awaits the answer to each POST of a chunk; the
\* completions engine sends its chunks down one open POST.
Awaits(r) == run[r].host # Engine

TypeOK ==
    /\ items \in Seq(Item)
    /\ nextSequence \in Nat
    /\ disk \in Snapshot
    /\ run \in [Runs -> Run]
    /\ client \in [Adapters -> Runs \cup {None}] /\ streamed \in [Adapters -> BOOLEAN]
    /\ wire \in [Runs -> Seq([to : Queries, chunk : Chunk])]
    /\ reader \in [Readers -> Reader]
    /\ log \in [Queries -> Seq(Chunk)]
    /\ disturbed \in SUBSET Queries /\ overlapped \in SUBSET Runs
    /\ faults \in 0 .. MaxFaults

\* The broker and the clients are idle; nothing was ever saved.
Init ==
    /\ items = <<>> /\ nextSequence = 1
    /\ disk = [items |-> <<>>, nextSequence |-> 1]
    /\ run \in [Runs -> {r \in Run : /\ r.pc = IF r.host = Engine THEN "executing" ELSE "waiting"
                                    /\ r.sent = 0 /\ ~r.whole /\ ~r.completed}]
    /\ client = [h \in Adapters |-> None] /\ streamed = [h \in Adapters |-> FALSE]
    /\ wire = [r \in Runs |-> <<>>]
    /\ reader = [d \in Readers |-> Away]
    /\ log = [q \in Queries |-> <<>>]
    /\ disturbed = {} /\ overlapped = {}
    /\ faults = 0

-------------------------------------------------------------------------------
(* The store *)

hasQuery(q)      == \E i \in DOMAIN items : items[i].queryId = q
isComplete(q)    == \E i \in DOMAIN items : items[i].queryId = q /\ items[i].chunk = Done

\* Some places of a list, in their order.
InOrder(places) ==
    CHOOSE g \in [1 .. Cardinality(places) -> places] :
        \A i, j \in DOMAIN g : i < j => g[i] < g[j]
\* What a list has there, and what chunks, if they are items.
Kept(s, places)     == [j \in 1 .. Cardinality(places) |-> s[InOrder(places)[j]]]
ChunksAt(s, places) == [j \in 1 .. Cardinality(places) |-> s[InOrder(places)[j]].chunk]

PlacesOf(s, q) == {i \in DOMAIN s : s[i].queryId = q}
ByQuery(s, q)  == Kept(s, PlacesOf(s, q))
\* The chunks of q among the items in s, in their order, completion markers left out.
ChunksOf(s, q) == ChunksAt(s, {i \in PlacesOf(s, q) : s[i].chunk # Done})

\* The array after the push: trimmed to its last MaxItems items, of whatever query.
Pushed(q, c) ==
    LET all == Append(items, [sequenceNumber |-> nextSequence, queryId |-> q, chunk |-> c])
    IN IF MaxItems # 0 /\ Len(all) > MaxItems
       THEN SubSeq(all, Len(all) - MaxItems + 1, Len(all))
       ELSE all

\* The queries that lose an item to the trimming.
Trimmed(q) ==
    IF MaxItems # 0 /\ Len(items) >= MaxItems
    THEN IF items = <<>> THEN {q} ELSE {Head(items).queryId}
    ELSE {}

\* Mutant: the number is not counted up.
appendSameNumber(q, c) ==
    /\ items' = Pushed(q, c)
    /\ UNCHANGED nextSequence
append(q, c) ==
    /\ items' = Pushed(q, c)
    /\ nextSequence' = nextSequence + 1

-------------------------------------------------------------------------------
(* The executions *)

Executing(r) == run[r].pc = "executing"
Post(r, q, n, isError) ==
    wire' = [wire EXCEPT ![r] = Append(@, [to |-> q,
                                           chunk |-> [run |-> r, n |-> n, error |-> isError]])]

\* The engine's pipe takes each chunk at once.  It reports a failure as an error chunk
\* just before the final one.
StreamChunk(r, isError) ==
    /\ Executing(r) /\ ~Awaits(r) /\ run[r].sent < RunLength
    /\ isError => run[r].sent = RunLength - 2
    /\ Post(r, run[r].query, run[r].sent + 1, isError)
    /\ run' = [run EXCEPT ![r].sent = @ + 1]
    /\ UNCHANGED <<store, adapter, reader, log, disturbed, faults>>

\* _do_execute: the request's BrokerClient becomes the one of the executor, which other
\* requests share.
BeginExecution(r) ==
    LET h == run[r].host
        beside == {o \in Runs \ {r} : run[o].host = h /\ Executing(o)}
    IN /\ run[r].pc = "waiting"
       /\ run' = [run EXCEPT ![r].pc = "executing"]
       /\ client' = [client EXCEPT ![h] = r]
       /\ streamed' = [streamed EXCEPT ![h] = FALSE]
       /\ overlapped' = IF beside = {} THEN overlapped ELSE overlapped \cup beside \cup {r}
       /\ UNCHANGED <<store, wire, reader, log, disturbed, faults>>

\* The request that is answered: nothing of its execution is on the wire.
Producing(r) == Executing(r) /\ Awaits(r) /\ wire[r] = <<>>

\* stream_chunk: by the client the executor has now, if it has one.
StreamBySDK(r) ==
    LET h == run[r].host
    IN /\ Producing(r) /\ run[r].sent < RunLength - 1
       /\ run' = [run EXCEPT ![r].sent = @ + 1]
       /\ IF client[h] = None THEN UNCHANGED <<wire, streamed>>
          ELSE /\ Post(r, run[client[h]].query, run[r].sent + 1, FALSE)
               /\ streamed' = [streamed EXCEPT ![h] = TRUE]
       /\ UNCHANGED <<store, client, overlapped, reader, log, disturbed, faults>>

\* An executor that does not stream.
Silent(r) ==
    /\ Producing(r) /\ run[r].sent = 0 /\ RunLength > 1
    /\ run' = [run EXCEPT ![r].sent = RunLength - 1]
    /\ UNCHANGED <<store, adapter, wire, reader, log, disturbed, faults>>

\* What is sent of the response itself goes to the query of the request.
\* Mutant: by the executor's client of the moment.
ClientTarget(r) == IF client[run[r].host] = None THEN run[r].query
                   ELSE run[client[run[r].host]].query
OwnTarget(r) == run[r].query

\* The response goes out whole if nothing was streamed, by the request's own client ...
SendWhole(r) ==
    /\ Producing(r) /\ run[r].sent = RunLength - 1
    /\ ~run[r].whole /\ ~streamed[run[r].host]
    /\ Post(r, OwnTarget(r), 0, FALSE)
    /\ run' = [run EXCEPT ![r].whole = TRUE]
    /\ UNCHANGED <<store, adapter, reader, log, disturbed, faults>>

\* ... and then the final chunk.
SendFinal(r) ==
    /\ Producing(r) /\ run[r].sent = RunLength - 1
    /\ run[r].whole \/ streamed[run[r].host]
    /\ Post(r, OwnTarget(r), RunLength, FALSE)
    /\ run' = [run EXCEPT ![r].sent = RunLength]
    /\ UNCHANGED <<store, adapter, reader, log, disturbed, faults>>

\* The finally of _do_execute takes the client away, whoever it belongs to.
Finally(r) ==
    IF Awaits(r)
    THEN /\ client' = [client EXCEPT ![run[r].host] = None]
         /\ streamed' = [streamed EXCEPT ![run[r].host] = FALSE]
    ELSE UNCHANGED <<client, streamed>>
Over(r, completed) ==
    /\ run' = [run EXCEPT ![r].pc = "over", ![r].completed = completed]
    /\ Finally(r)

\* The executor raises: its request is answered with the error as the response, and the
\* stream is left as it is.
Raise(r) ==
    /\ faults < MaxFaults /\ faults' = faults + 1
    /\ Producing(r) /\ run[r].sent < RunLength
    /\ Over(r, FALSE)
    /\ disturbed' = disturbed \cup {run[r].query}
    /\ UNCHANGED <<store, wire, reader, log, overlapped>>

\* A process ends: its POSTs break off behind the chunks the broker has.
Crash(h) ==
    LET lost == {r \in Runs : run[r].host = h /\ Executing(r)}
    IN /\ faults < MaxFaults /\ faults' = faults + 1
       /\ lost # {}
       /\ run' = [r \in Runs |-> IF r \in lost THEN [run[r] EXCEPT !.pc = "over"] ELSE run[r]]
       /\ wire' = [r \in Runs |-> IF r \in lost THEN <<>> ELSE wire[r]]
       /\ client' = [g \in Adapters |-> IF g = h THEN None ELSE client[g]]
       /\ streamed' = [g \in Adapters |-> g # h /\ streamed[g]]
       /\ disturbed' = disturbed \cup {run[r].query : r \in lost}
       /\ UNCHANGED <<store, reader, log, overlapped>>

-------------------------------------------------------------------------------
(* The broker's handlers *)

\* sendSSEDone and the end of the response.
Ended(rd) == [rd EXCEPT !.pc = "done", !.timer = FALSE]

\* Mutant: the marker is written like a chunk.
WriteLiveMarkers(rd, c) ==
    IF c # Done /\ c.error THEN Away ELSE [rd EXCEPT !.timer = FALSE, !.got = Append(@, c)]
\* handleIncomingItem and writeLiveChunk: the first item stops the timer, a marker
\* (a string) is not written, an error chunk is the last thing the client gets.
WriteLive(rd, c) ==
    IF c = Done THEN [rd EXCEPT !.timer = FALSE]
    ELSE IF c.error THEN Away
    ELSE [rd EXCEPT !.timer = FALSE, !.got = Append(@, c)]

\* Mutant: subscribers of every query are told.
FollowsAny(rd, q) == rd.pc = "open"
Follows(rd, q) == rd.pc = "open" /\ rd.query = q
Delivered(q, c) ==
    [d \in Readers |-> IF Follows(reader[d], q) THEN WriteLive(reader[d], c) ELSE reader[d]]

\* POST /stream/{query}: processNDJSONData appends the lines in their order, and the
\* stream hands each to its subscribers before it goes on.
AddChunk(r) ==
    LET q == Head(wire[r]).to  c == Head(wire[r]).chunk
    IN /\ wire[r] # <<>>
       /\ append(q, c)
       /\ reader' = Delivered(q, c)
       /\ wire' = [wire EXCEPT ![r] = Tail(@)]
       /\ log' = [log EXCEPT ![q] = Append(@, c)]
       /\ disturbed' = disturbed \cup Trimmed(q)
       /\ UNCHANGED <<disk, run, adapter, faults>>

\* Mutant: the last POST is not awaited.
CompletingAtOnce(r) == Executing(r) /\ run[r].sent = RunLength
\* Both producers post the completion once the last chunk is handed over: the SDK
\* when that chunk was answered, the engine without waiting for its open POST.
Completing(r) ==
    /\ Executing(r) /\ run[r].sent = RunLength
    /\ Awaits(r) => wire[r] = <<>>

\* POST /stream/{query}/complete when nothing of the query is stored: 404.
CompleteNotFound(r) ==
    /\ Completing(r) /\ ~hasQuery(run[r].query)
    /\ Over(r, FALSE)
    /\ disturbed' = disturbed \cup {run[r].query}
    /\ UNCHANGED <<store, wire, reader, log, overlapped, faults>>

\* ... and when it was completed before: nothing is appended and nobody is told.
AlreadyCompleted(r) ==
    /\ Completing(r) /\ hasQuery(run[r].query) /\ isComplete(run[r].query)
    /\ Over(r, FALSE)
    /\ UNCHANGED <<store, wire, reader, log, disturbed, overlapped, faults>>

\* The marker is offered to the subscribers, and the complete event closes their
\* connections.
\* Mutant: the complete event is not handled.
ReadersMarked(q) == Delivered(q, Done)
ReadersTold(q) ==
    [d \in Readers |-> IF Follows(reader[d], q) THEN Ended(Delivered(q, Done)[d]) ELSE reader[d]]

\* completeQuery: the marker is appended and told, and the stream is saved.
CompleteQuery(r) ==
    LET q == run[r].query
    IN /\ Completing(r) /\ hasQuery(q) /\ ~isComplete(q)
       /\ append(q, Done)
       /\ disk' = [items |-> items', nextSequence |-> nextSequence']
       /\ reader' = ReadersTold(q)
       /\ Over(r, TRUE)
       /\ disturbed' = disturbed \cup Trimmed(q)
       /\ UNCHANGED <<wire, log, overlapped, faults>>

\* What replayChunks writes: the stored chunks up to the first marker.
Replayed(q) ==
    LET own == PlacesOf(items, q)
    IN ChunksAt(items, {i \in own : \A m \in own : items[m].chunk = Done => i < m})

\* GET /stream/{query}, with and without from-beginning and wait-for-query.  A replay
\* that meets the marker closes the connection; otherwise it is subscribed.
handleQueryStream(d, q, beginning, wait) ==
    LET opened == [Away EXCEPT !.pc = "open", !.query = q, !.beginning = beginning, !.timer = wait]
        replay == [opened EXCEPT !.got = Replayed(q)]
    IN /\ reader[d].pc = "away"
       /\ reader' = [reader EXCEPT ![d] =
             IF ~beginning THEN opened
             ELSE IF isComplete(q) THEN Ended(replay) ELSE replay]
       /\ UNCHANGED <<store, run, adapter, wire, log, disturbed, faults>>

\* onQueryTimeout: no item came (what was replayed does not count).
onQueryTimeout(d) ==
    /\ reader[d].timer
    /\ reader' = [reader EXCEPT ![d] = Away]
    /\ UNCHANGED <<store, run, adapter, wire, log, disturbed, faults>>

\* onStreamClose, onStreamError: the client is gone.
onStreamClose(d) ==
    /\ reader[d].pc = "open"
    /\ reader' = [reader EXCEPT ![d] = Away]
    /\ UNCHANGED <<store, run, adapter, wire, log, disturbed, faults>>

\* DELETE /stream: everything stored goes and the numbers start again; connections
\* stay subscribed.
Purge ==
    /\ faults < MaxFaults /\ faults' = faults + 1
    /\ items' = <<>> /\ nextSequence' = 1
    /\ disk' = [items |-> <<>>, nextSequence |-> 1]
    /\ disturbed' = disturbed \cup {q \in Queries : hasQuery(q)}
    /\ UNCHANGED <<run, adapter, wire, reader, log>>

\* The process ends, after a signal with a save and otherwise without, and a new one
\* loads the file.  Connections break: a chunk on its way is lost, clients are cut off.
Restart(saved) ==
    LET from == IF saved THEN [items |-> items, nextSequence |-> nextSequence] ELSE disk
    IN /\ faults < MaxFaults /\ faults' = faults + 1
       /\ disk' = from
       /\ items' = from.items /\ nextSequence' = from.nextSequence
       /\ wire' = [r \in Runs |-> <<>>]
       /\ reader' = [d \in Readers |-> IF reader[d].pc = "open" THEN Away ELSE reader[d]]
       /\ log' = [q \in Queries |-> ChunksOf(from.items, q)]
       /\ disturbed' = disturbed \cup
              {q \in Queries : \/ ByQuery(items, q) # ByQuery(from.items, q)
                               \/ \E r \in Runs : wire[r] # <<>> /\ Head(wire[r]).to = q}
       /\ UNCHANGED <<run, adapter>>

-------------------------------------------------------------------------------

Produce(r) ==
    \/ \E e \in BOOLEAN : StreamChunk(r, e)
    \/ BeginExecution(r) \/ StreamBySDK(r) \/ Silent(r) \/ SendWhole(r) \/ SendFinal(r)
    \/ AddChunk(r)
    \/ CompleteNotFound(r) \/ AlreadyCompleted(r) \/ CompleteQuery(r)

Client(d) ==
    \/ \E q \in Queries, beginning, wait \in BOOLEAN : handleQueryStream(d, q, beginning, wait)
    \/ onQueryTimeout(d)
    \/ onStreamClose(d)

Next ==
    \/ \E r \in Runs : Produce(r) \/ Raise(r)
    \/ \E h \in Adapters \cup {Engine} : Crash(h)
    \/ \E d \in Readers : Client(d)
    \/ Purge
    \/ \E saved \in BOOLEAN : Restart(saved)

Spec == Init /\ [][Next]_vars

\* Executions go on, their requests arrive and are handled, and timers go off; clients
\* need not come or leave, and nothing need fail.
Fairness ==
    /\ \A r \in Runs : WF_vars(Produce(r))
    /\ \A d \in Readers : WF_vars(onQueryTimeout(d))

FairSpec == Spec /\ Fairness

-------------------------------------------------------------------------------
(* Properties *)

\* Sequence numbers rise along the stream and stay below the next one, in memory and
\* in the file a restart loads, whatever trimming, purges and crashes do: the order
\* cursors and replays rely on (in-memory-stream.ts).
Rising(s) ==
    /\ \A i \in DOMAIN s.items : s.items[i].sequenceNumber < s.nextSequence
    /\ \A i, j \in DOMAIN s.items :
           i < j => s.items[i].sequenceNumber < s.items[j].sequenceNumber
SequencesRise ==
    /\ Rising([items |-> items, nextSequence |-> nextSequence])
    /\ Rising(disk)

IsTail(s, t) == Len(s) <= Len(t) /\ s = SubSeq(t, Len(t) - Len(s) + 1, Len(t))

\* While a connection is open, what its client has is the last part of what the broker
\* took for the query: the seam between replay and live chunks neither repeats, swaps
\* nor drops one, also across completions, trimming and purges (handlers.ts).
OpenIsTail ==
    \A d \in Readers : reader[d].pc = "open" =>
        IsTail(reader[d].got, log[reader[d].query])

\* A chunk gets into the stream of another query only if both queries' executions ran
\* beside another request of their adapter, and the response itself, whole or final, never
\* does (executor_app.py _do_execute, executor.py stream_chunk).
OnlyOwnChunks ==
    \A i \in DOMAIN items :
        LET it == items[i]
            from == it.chunk.run
        IN (it.chunk # Done /\ run[from].query # it.queryId) =>
               /\ it.chunk.n \notin {0, RunLength}
               /\ from \in overlapped
               /\ \E r \in overlapped : run[r].query = it.queryId

\* A client that asked for a query from the beginning and was told [DONE] has, in order,
\* every chunk of an execution that completed, the final one with the answer's metadata
\* included, if the executions are of SDK executors, none ran beside another one and the
\* stream was not disturbed (executor_app.py, handlers.ts).  With the completions engine
\* it may miss the end.
HasAnswer(got, r) ==
    LET answer == Kept(got, {i \in DOMAIN got : got[i].run = r})
    IN \/ answer = [n \in 1 .. RunLength |-> [run |-> r, n |-> n, error |-> FALSE]]
       \/ answer = <<[run |-> r, n |-> 0, error |-> FALSE],
                     [run |-> r, n |-> RunLength, error |-> FALSE]>>
CompleteAnswer ==
    \A d \in Readers :
        LET rd == reader[d]
            mine == {r \in Runs : run[r].query = rd.query}
        IN (/\ rd.pc = "done" /\ rd.beginning /\ rd.query \notin disturbed
            /\ \A r \in mine : Awaits(r) /\ r \notin overlapped)
           => \E r \in mine : run[r].completed /\ HasAnswer(rd.got, r)

\* A connection that is open on a stream not yet complete comes to its end, if an
\* execution has started and the stream is not disturbed: by the completion, an error
\* or the timeout (chunks-broker.ts completeQuery, handlers.ts completeHandler).
FollowerEnds ==
    \A d \in Readers :
        (/\ reader[d].pc = "open" /\ ~isComplete(reader[d].query)
         /\ \E r \in Runs : run[r].query = reader[d].query /\ run[r].pc # "over")
        ~> (reader[d].pc # "open" \/ reader[d].query \in disturbed)
===============================================================================
