---------------------------- MODULE PostgresMessages ----------------------------
(***************************************************************************)
(* The messages of a conversation behind ark-broker's Postgres backend:    *)
(* POST /messages appends them one INSERT at a time, GET /messages pages   *)
(* through them by cursor and GET /messages?watch=true follows them        *)
(* (services/ark-broker/ark-broker/src/brokers/stream/                     *)
(* postgres-message-stream.ts, brokers/memory-broker.ts,                   *)
(* http/routes/memory, http/sse.ts).                                       *)
(*                                                                         *)
(* The broker is one event loop: it sends statements to the connections of *)
(* its pool and handles each answer in one step.  A connection carries out *)
(* and answers its statements in order; the connections run side by side.  *)
(***************************************************************************)
EXTENDS Naturals, Sequences, FiniteSets

CONSTANTS
    Posts,       \* requests POST /messages
    Size,        \* the number of messages in each request
    Clients,     \* readers of the conversation
    PoolMax,     \* bound: connections in the pool (DATABASE_POOL_MAX, 10 by default)
    Limit,       \* items on a page (at most MAX_LIMIT, DEFAULT_LIMIT if not given)
    MaxQueued,   \* bound: statements on one connection
    MaxReads,    \* bounds, for each number of connections: pages and watches a client
    MaxFaults    \* asks for; statements that fail, answers lost and messages that vanish

ASSUME SizesAssumption  == Size \in [Posts -> Nat] /\ PoolMax \in Nat \ {0} /\ Limit \in Nat \ {0}
ASSUME BoundsAssumption ==
    /\ MaxQueued \in Nat
    /\ MaxReads \in [1 .. PoolMax -> Nat] /\ MaxFaults \in [1 .. PoolMax -> Nat]

VARIABLES
    pool,        \* the connections of the pool, fixed at the start
    rows,        \* the table: the sequence number of each visible message
    messagesSeq, \* the sequence messages_seq: the last number given out
    conn,        \* the statements sent on each connection and not yet answered
    post,        \* the requests: messages appended, and whether one is on its way
    client,      \* the readers
    got,         \* what each reader was sent
    log,         \* history: every row in the order of the commits
    gone,        \* history: messages no longer in the table
    unsaid,      \* history: messages stored by an INSERT whose answer was lost
    heard,       \* history: the stored messages whose answer, or its loss, append has handled
    announced,   \* history: the ones it has emitted, in that order
    base,        \* history: how many were handled when a reader joined without a cursor
    since,       \* history: and how many of them were emitted
    faults       \* counter behind the bound

db   == <<pool, rows, messagesSeq>>
hist == <<log, gone, unsaid, heard, announced, base, since>>
vars == <<pool, rows, messagesSeq, conn, post, client, got,
          log, gone, unsaid, heard, announced, base, since, faults>>

Messages == UNION {{p} \X (1 .. Size[p]) : p \in Posts}
\* A row, and a BrokerItem: a message and its sequence number.
Row == [seq : Nat, msg : Messages]
Nothing == <<>>

\* insert: of a post; page, watch: the SELECT of all() for a client's read.
\* state: sent; begun (an INSERT has its sequence number); done (answer on its way);
\* failed; lost (carried out, but the answer will be an error).
Statement ==
    [kind : {"insert"}, by : Posts,
     state : {"sent", "begun", "done", "lost", "failed"}, seq : Nat]
    \cup [kind : {"page", "watch"}, by : Clients, read : Nat,
          state : {"sent", "done", "failed"}, found : Seq(Row)]

\* buffer, caughtUp: of streamSSE; cursor: the last sequence number the client has seen
\* (0: none).  paging: a page was asked for; following: subscribed, replay on its way.
\* silent: unsubscribed, but the response is open.  joined: the client first watched
\* without a cursor.
Client == [pc : {"idle", "paging", "following", "live", "silent"}, joined : BOOLEAN, cursor : Nat,
           buffer : Seq(Row), reads : Nat]

TypeOK ==
    /\ pool \in 1 .. PoolMax
    /\ rows \in SUBSET Row
    /\ messagesSeq \in Nat
    /\ conn \in [1 .. PoolMax -> Seq(Statement)]
    /\ post \in [Posts -> [next : Nat \ {0}, pc : {"idle", "waiting", "over"}]]
    /\ client \in [Clients -> Client]
    /\ got \in [Clients -> Seq(Messages)]
    /\ log \in Seq(Row)
    /\ gone \in SUBSET Messages /\ unsaid \in SUBSET Messages
    /\ heard \in Seq(Messages) /\ announced \in Seq(Messages)
    /\ base \in [Clients -> Nat] /\ since \in [Clients -> Nat]
    /\ faults \in 0 .. MaxFaults[pool]

Init ==
    /\ pool \in 1 .. PoolMax
    /\ rows = {} /\ messagesSeq = 0
    /\ conn = [k \in 1 .. PoolMax |-> <<>>]
    /\ post = [p \in Posts |-> [next |-> 1, pc |-> "idle"]]
    /\ client = [c \in Clients |-> [pc |-> "idle", joined |-> FALSE, cursor |-> 0,
                                    buffer |-> <<>>, reads |-> 0]]
    /\ got = [c \in Clients |-> <<>>]
    /\ log = <<>> /\ gone = {} /\ unsaid = {} /\ heard = <<>> /\ announced = <<>>
    /\ base = [c \in Clients |-> 0] /\ since = [c \in Clients |-> 0]
    /\ faults = 0

-------------------------------------------------------------------------------
(* Statements *)

\* this.db`...` gives the statement to a connection of the pool, an idle one if any.
Send(k, s) ==
    /\ Len(conn[k]) < MaxQueued
    /\ \A j \in 1 .. pool : conn[j] = <<>> => conn[k] = <<>> /\ k <= j
    /\ conn' = [conn EXCEPT ![k] = Append(@, s)]

\* The oldest statement of a connection that was not carried out.
Current(k, i) == /\ conn[k][i].state \in {"sent", "begun"}
                 /\ \A j \in 1 .. i - 1 : conn[k][j].state \in {"done", "lost", "failed"}
Statements(k, i, kinds, state) ==
    Current(k, i) /\ conn[k][i].kind \in kinds /\ conn[k][i].state = state
Become(k, i, s) == conn' = [conn EXCEPT ![k][i] = s]
Fault == faults < MaxFaults[pool] /\ faults' = faults + 1

\* The database runs the INSERT: nextval('messages_seq') is taken first, and is not
\* given back ...
InsertBegins(k, i) ==
    /\ Statements(k, i, {"insert"}, "sent")
    /\ messagesSeq' = messagesSeq + 1
    /\ Become(k, i, [conn[k][i] EXCEPT !.state = "begun", !.seq = messagesSeq + 1])
    /\ UNCHANGED <<pool, rows, post, client, got, hist, faults>>

\* The row of an INSERT's message.
Stored(s) == [seq |-> s.seq, msg |-> <<s.by, post[s.by].next>>]

\* ... the row becomes visible when the statement commits ...
InsertCommits(k, i) ==
    LET s == conn[k][i]
    IN /\ Statements(k, i, {"insert"}, "begun")
       /\ rows' = rows \cup {Stored(s)}
       /\ log' = Append(log, Stored(s))
       /\ Become(k, i, [s EXCEPT !.state = "done"])
       /\ UNCHANGED <<pool, messagesSeq, post, client, got, gone, unsaid, heard, announced,
                      base, since, faults>>

\* ... or it fails, by its timeout or another error.
InsertFails(k, i) ==
    /\ Fault
    /\ Statements(k, i, {"insert"}, "begun")
    /\ Become(k, i, [conn[k][i] EXCEPT !.state = "failed"])
    /\ UNCHANGED <<db, post, client, got, hist>>

\* The answer of an INSERT that was carried out is lost with its connection.
AnswerLost(k, i) ==
    /\ Fault
    /\ conn[k][i].kind = "insert" /\ conn[k][i].state = "done"
    /\ Become(k, i, [conn[k][i] EXCEPT !.state = "lost"])
    /\ unsaid' = unsaid \cup {Stored(conn[k][i]).msg}
    /\ UNCHANGED <<db, post, client, got, log, gone, heard, announced, base, since>>

\* ORDER BY sequence_number ASC: the ways, of which there is one, to list some rows so.
InOrder(R) ==
    {s \in UNION {[1 .. n -> R] : n \in 0 .. messagesSeq} :
        /\ \A i, j \in DOMAIN s : i < j => s[i].seq < s[j].seq
        /\ \A r \in R : \E i \in DOMAIN s : s[i] = r}

SelectRuns(k, i) ==
    /\ Statements(k, i, {"page", "watch"}, "sent")
    /\ \E found \in InOrder(rows) :
           Become(k, i, [conn[k][i] EXCEPT !.state = "done", !.found = found])
    /\ UNCHANGED <<db, post, client, got, hist, faults>>

\* A SELECT fails, or its answer is lost.
SelectFails(k, i) ==
    /\ Fault
    /\ Statements(k, i, {"page", "watch"}, "sent")
    /\ Become(k, i, [conn[k][i] EXCEPT !.state = "failed"])
    /\ UNCHANGED <<db, post, client, got, hist>>

\* A message expires, or a DELETE reaches it.
Vanish(r) ==
    /\ Fault
    /\ r \in rows
    /\ rows' = rows \ {r}
    /\ gone' = gone \cup {r.msg}
    /\ UNCHANGED <<pool, messagesSeq, conn, post, client, got, log, unsaid, heard, announced,
                   base, since>>

-------------------------------------------------------------------------------
(* POST /messages *)

\* addMessages: the next message goes out once the one before it is stored.
\* Mutant: one more than there are.
MorePastEnd(p) == post[p].next <= Size[p] + 1
More(p) == post[p].next <= Size[p]
Insert(p, k) ==
    /\ post[p].pc = "idle" /\ More(p)
    /\ Send(k, [kind |-> "insert", by |-> p, state |-> "sent", seq |-> 0])
    /\ post' = [post EXCEPT ![p].pc = "waiting"]
    /\ UNCHANGED <<db, client, got, hist, faults>>

\* The subscriber of streamSSE: buffer until the replay is written.
Notified(cl, item) ==
    IF cl.pc = "following" THEN [cl EXCEPT !.buffer = Append(@, item)]
    ELSE IF cl.pc = "live" THEN [cl EXCEPT !.cursor = item.seq] ELSE cl

\* ... and write at once after it.
\* Mutant: a live item must have a higher number than the last.
SentNewer(c, item) ==
    IF client[c].pc = "live" /\ item.seq > client[c].cursor
    THEN Append(got[c], item.msg) ELSE got[c]
Sent(c, item) == IF client[c].pc = "live" THEN Append(got[c], item.msg) ELSE got[c]

\* append resumes: it emits the item to the subscribers before the loop goes on.
Inserted(k) ==
    LET s == Head(conn[k])
        item == Stored(s)
    IN /\ conn[k] # <<>> /\ s.kind = "insert" /\ s.state = "done"
       /\ conn' = [conn EXCEPT ![k] = Tail(@)]
       /\ post' = [post EXCEPT ![s.by] = [next |-> @.next + 1, pc |-> "idle"]]
       /\ client' = [c \in Clients |-> Notified(client[c], item)]
       /\ got' = [c \in Clients |-> Sent(c, item)]
       /\ heard' = Append(heard, item.msg)
       /\ announced' = Append(announced, item.msg)
       /\ UNCHANGED <<db, log, gone, unsaid, base, since, faults>>

\* The error leaves append before it emits, and the loop: 500.  The messages before it
\* stay, and it stays itself if it was stored.
InsertFailed(k) ==
    LET s == Head(conn[k])
    IN /\ conn[k] # <<>> /\ s.kind = "insert" /\ s.state \in {"lost", "failed"}
       /\ conn' = [conn EXCEPT ![k] = Tail(@)]
       /\ IF s.state = "lost"
          THEN /\ post' = [post EXCEPT ![s.by] = [next |-> @.next + 1, pc |-> "over"]]
               /\ heard' = Append(heard, Stored(s).msg)
          ELSE post' = [post EXCEPT ![s.by].pc = "over"] /\ UNCHANGED heard
       /\ UNCHANGED <<db, client, got, log, gone, unsaid, announced, base, since, faults>>

-------------------------------------------------------------------------------
(* GET /messages *)

Reads(c) == client[c].reads < MaxReads[pool]

Select(kind, c) == [kind |-> kind, by |-> c, read |-> client[c].reads + 1,
                    state |-> "sent", found |-> <<>>]

\* The next page: everything is selected, the cursor and the limit are applied to it.
AskPage(c, k) ==
    /\ Reads(c) /\ client[c].pc = "idle" /\ (client[c].joined => client[c].cursor > 0)
    /\ Send(k, Select("page", c))
    /\ client' = [client EXCEPT ![c].pc = "paging", ![c].reads = @ + 1]
    /\ UNCHANGED <<db, post, got, hist, faults>>

\* What is left of a list when only some places are kept: one list, as a set.
Kept(items, places) ==
    {[j \in DOMAIN g |-> items[g[j]]] :
        g \in {g \in UNION {[1 .. n -> places] : n \in 0 .. Len(items)} :
                  /\ \A i, j \in DOMAIN g : i < j => g[i] < g[j]
                  /\ \A k \in places : \E i \in DOMAIN g : g[i] = k}}
\* Mutant: the cursor is inclusive.
From(items, cursor)   == Kept(items, {i \in DOMAIN items : items[i].seq >= cursor})
Beyond(items, cursor) == Kept(items, {i \in DOMAIN items : items[i].seq > cursor})
Texts(items)          == [i \in DOMAIN items |-> items[i].msg]
LastSeq(items, else)  == IF items = <<>> THEN else ELSE items[Len(items)].seq

\* paginate: the first items beyond the cursor; the next page starts behind them.
Paged(k) ==
    LET s == Head(conn[k])
        c == s.by
    IN /\ conn[k] # <<>> /\ s.kind = "page" /\ s.state = "done"
       /\ conn' = [conn EXCEPT ![k] = Tail(@)]
       /\ \E filtered \in Beyond(s.found, client[c].cursor) :
              LET items == SubSeq(filtered, 1, IF Len(filtered) > Limit THEN Limit
                                               ELSE Len(filtered))
              IN /\ got' = [got EXCEPT ![c] = @ \o Texts(items)]
                 /\ client' = [client EXCEPT ![c].pc = "idle", ![c].cursor = LastSeq(items, @)]
       /\ UNCHANGED <<db, post, hist, faults>>

\* The error of the SELECT: 500.
PageFailed(k) ==
    LET s == Head(conn[k])
    IN /\ conn[k] # <<>> /\ s.kind = "page" /\ s.state = "failed"
       /\ conn' = [conn EXCEPT ![k] = Tail(@)]
       /\ client' = [client EXCEPT ![s.by].pc = "idle"]
       /\ UNCHANGED <<db, post, got, hist, faults>>

-------------------------------------------------------------------------------
(* GET /messages?watch=true *)

\* With the cursor of the last item the client has: streamSSE subscribes, then asks
\* for what it may have missed.
Watch(c, k) ==
    /\ Reads(c) /\ client[c].pc = "idle" /\ client[c].cursor > 0
    /\ Send(k, Select("watch", c))
    /\ client' = [client EXCEPT ![c].pc = "following", ![c].reads = @ + 1]
    /\ UNCHANGED <<db, post, got, hist, faults>>

\* Without a cursor nothing is replayed.
WatchNow(c) ==
    /\ Reads(c) /\ client[c].pc = "idle" /\ got[c] = <<>>
    /\ client' = [client EXCEPT ![c].pc = "live", ![c].joined = TRUE, ![c].reads = @ + 1]
    /\ base' = [base EXCEPT ![c] = Len(heard)]
    /\ since' = [since EXCEPT ![c] = Len(announced)]
    /\ UNCHANGED <<db, conn, post, got, log, gone, unsaid, heard, announced, faults>>

\* What is written: the replay, then what the buffer holds beyond it.
\* Mutant: nothing is replayed.
ReplayBuffered(cl, found) == {cl.buffer}
Replay(cl, found) ==
    UNION {{replay \o rest : rest \in Beyond(cl.buffer, LastSeq(replay, 0))} :
              replay \in Beyond(found, cl.cursor)}

\* Whether the response that asked for it is still open.
Awaited(s) == client[s.by].pc = "following" /\ client[s.by].reads = s.read

\* If the connection is closed by then, nobody reads it.
Replayed(k) ==
    LET s == Head(conn[k])
        c == s.by
    IN /\ conn[k] # <<>> /\ s.kind = "watch" /\ s.state = "done"
       /\ conn' = [conn EXCEPT ![k] = Tail(@)]
       /\ IF Awaited(s)
          THEN \E items \in Replay(client[c], s.found) :
                  /\ got' = [got EXCEPT ![c] = @ \o Texts(items)]
                  /\ client' = [client EXCEPT ![c].pc = "live", ![c].buffer = <<>>,
                                              ![c].cursor = LastSeq(items, @)]
          ELSE UNCHANGED <<got, client>>
       /\ UNCHANGED <<db, post, hist, faults>>

\* The SELECT fails: unsubscribed, but the response is neither answered nor ended.
ReplayFailed(k) ==
    LET s == Head(conn[k])
    IN /\ conn[k] # <<>> /\ s.kind = "watch" /\ s.state = "failed"
       /\ conn' = [conn EXCEPT ![k] = Tail(@)]
       /\ client' = IF Awaited(s)
                    THEN [client EXCEPT ![s.by].pc = "silent", ![s.by].buffer = <<>>] ELSE client
       /\ UNCHANGED <<db, post, got, hist, faults>>

\* The connection closes: unsubscribed.  The client may come back with its cursor.
Close(c) ==
    /\ client[c].pc \in {"following", "live", "silent"}
    /\ client' = [client EXCEPT ![c].pc = "idle", ![c].buffer = <<>>]
    /\ UNCHANGED <<db, conn, post, got, hist, faults>>

-------------------------------------------------------------------------------

Database(k) ==
    \E i \in DOMAIN conn[k] : InsertBegins(k, i) \/ InsertCommits(k, i) \/ SelectRuns(k, i)
Answer(k)   == \/ Inserted(k) \/ InsertFailed(k) \/ Paged(k) \/ PageFailed(k)
               \/ Replayed(k) \/ ReplayFailed(k)

Next ==
    \/ \E k \in 1 .. pool :
          \/ Database(k) \/ Answer(k)
          \/ \E i \in DOMAIN conn[k] :
                InsertFails(k, i) \/ AnswerLost(k, i) \/ SelectFails(k, i)
          \/ \E p \in Posts : Insert(p, k)
          \/ \E c \in Clients : AskPage(c, k) \/ Watch(c, k)
    \/ \E c \in Clients : WatchNow(c) \/ Close(c)
    \/ \E r \in rows : Vanish(r)

Spec == Init /\ [][Next]_vars

\* The database answers, and the broker handles the answers.
Fairness == \A k \in 1 .. PoolMax : WF_vars(Database(k)) /\ WF_vars(Answer(k))
FairSpec == Spec /\ Fairness

-------------------------------------------------------------------------------
(* Properties *)

\* What paging and watching by cursor amount to, MessageFeed: with one connection in
\* the pool, reading one list (pagination.ts "consistent results even as new items are
\* added", broker-item.ts "guaranteed to be correctly ordered"), of which a live client is
\* not sent the messages whose INSERT was answered with an error; with more, numbers are
\* not in the order of the commits, and only what is sent is right.
Feed == INSTANCE MessageFeed WITH exact <- pool = 1, log <- Texts(log),
                                  live <- {c \in Clients : client[c].pc = "live"}
IsFeed == Feed!Spec

\* A client that watches without a cursor and stays gets each message that is announced
\* from then on, once and in that order, whatever the pool (sse.ts).
LiveIsExact ==
    \A c \in Clients :
        (client[c].pc = "live" /\ client[c].joined /\ client[c].reads = 1)
        => got[c] = SubSeq(announced, since[c] + 1, Len(announced))

\* A message stored behind a client's starting point reaches it while it watches, unless
\* the message goes first or the answer to its INSERT is lost, if the pool has one
\* connection (sse.ts).
CatchesUp ==
    \A c \in Clients : \A m \in Messages :
        (/\ pool = 1 /\ client[c].pc = "live"
         /\ \E i \in base[c] + 1 .. Len(log) : log[i].msg = m)
        ~> (\/ client[c].pc # "live" \/ m \in gone \cup unsaid
            \/ \E i \in DOMAIN got[c] : got[c][i] = m)
===============================================================================
