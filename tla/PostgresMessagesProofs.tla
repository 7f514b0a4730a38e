------------------------- MODULE PostgresMessagesProofs -------------------------
(***************************************************************************)
(* Proofs about PostgresMessages, for all requests and clients, any size   *)
(* of the pool and all bounds: its typing, what a live client gets, that   *)
(* it implements MessageFeed, and that the lists its actions take exist.   *)
(***************************************************************************)
EXTENDS PostgresMessages, RisingLists, SequenceTheorems, FunctionTheorems, FiniteSetTheorems,
        TLAPS

Conns     == 1 .. PoolMax
Insertion == [kind : {"insert"}, by : Posts,
              state : {"sent", "begun", "done", "lost", "failed"}, seq : Nat]
Selection == [kind : {"page", "watch"}, by : Clients, read : Nat,
              state : {"sent", "done", "failed"}, found : Seq(Row)]

IsInsert(k, i) == conn[k][i].kind = "insert"
IsSelect(k, i) == conn[k][i].kind \in {"page", "watch"}
\* It was carried out: an INSERT's answer may be lost.
IsDone(k, i)   == conn[k][i].state \in {"done", "lost"}

(***************************************************************************)
(* The statements on their way: one at most of a request, of its next      *)
(* message; one page at most of a client; carried out in turn.             *)
(***************************************************************************)
PostOK ==
    \A k \in Conns : \A i \in DOMAIN conn[k] :
        IsInsert(k, i) =>
            /\ post[conn[k][i].by].pc = "waiting"
            /\ post[conn[k][i].by].next <= Size[conn[k][i].by]
            /\ \A l \in Conns : \A j \in DOMAIN conn[l] :
                   IsInsert(l, j) /\ conn[l][j].by = conn[k][i].by => l = k /\ j = i
PageOK ==
    /\ \A k \in Conns : \A i \in DOMAIN conn[k] :
           conn[k][i].kind = "page" =>
               /\ client[conn[k][i].by].pc = "paging"
               /\ \A l \in Conns : \A j \in DOMAIN conn[l] :
                      conn[l][j].kind = "page" /\ conn[l][j].by = conn[k][i].by
                      => l = k /\ j = i
    /\ \A c \in Clients : client[c].pc = "paging" /\ client[c].joined => client[c].cursor > 0
QueueOK ==
    \A k \in Conns : \A i, j \in DOMAIN conn[k] :
        i < j /\ conn[k][j].state # "sent" => conn[k][i].state \in {"done", "lost", "failed"}

(***************************************************************************)
(* What is held of rows is in the log, which has each message once.        *)
(***************************************************************************)
InLog(r) == \E n \in DOMAIN log : log[n] = r
LogOK ==
    /\ \A n \in DOMAIN log :
           LET m == log[n].msg
           IN /\ m[2] <= post[m[1]].next
              /\ m[2] = post[m[1]].next =>
                     \E k \in Conns : \E i \in DOMAIN conn[k] :
                         IsInsert(k, i) /\ IsDone(k, i) /\ conn[k][i].by = m[1]
    /\ \A n, o \in DOMAIN log : log[n].msg = log[o].msg => n = o
HeldOK ==
    /\ \A r \in rows : InLog(r)
    /\ \A k \in Conns : \A i \in DOMAIN conn[k] : IsDone(k, i) =>
           /\ IsInsert(k, i) => InLog(Stored(conn[k][i]))
           /\ IsSelect(k, i) => \A j \in DOMAIN conn[k][i].found : InLog(conn[k][i].found[j])
    /\ \A c \in Clients : \A j \in DOMAIN client[c].buffer : InLog(client[c].buffer[j])
HandledOK ==
    /\ \A i \in DOMAIN heard :
           /\ heard[i][2] < post[heard[i][1]].next
           /\ \E n \in DOMAIN log : log[n].msg = heard[i]
    /\ \A i, j \in DOMAIN heard : heard[i] = heard[j] => i = j

(***************************************************************************)
(* With one connection: the log is in the order of the numbers, what was   *)
(* handled is its first part, and the answers on their way go on from      *)
(* there.                                                                  *)
(***************************************************************************)
Rise(s) == \A i, j \in DOMAIN s : i < j => s[i].seq < s[j].seq
Heard   == Len(heard)
ListOK ==
    /\ Rise(log)
    /\ \A n \in DOMAIN log : 0 < log[n].seq /\ log[n].seq <= messagesSeq
    /\ \A i \in DOMAIN conn[1] : IsInsert(1, i) /\ conn[1][i].state = "begun" =>
           /\ 0 < conn[1][i].seq /\ conn[1][i].seq <= messagesSeq
           /\ \A n \in DOMAIN log : log[n].seq < conn[1][i].seq
    /\ \A i \in DOMAIN heard : i \in DOMAIN log /\ heard[i] = log[i].msg
Answers(i, n) == IsInsert(1, i) /\ IsDone(1, i) /\ Stored(conn[1][i]) = log[n]
AnswersOK ==
    /\ \A n \in DOMAIN log : n > Heard => \E i \in DOMAIN conn[1] : Answers(i, n)
    /\ \A i \in DOMAIN conn[1] : IsInsert(1, i) /\ IsDone(1, i) =>
           \E n \in DOMAIN log : n > Heard /\ Answers(i, n)
    /\ \A i, j \in DOMAIN conn[1] :
           i < j /\ IsInsert(1, i) /\ IsDone(1, i) /\ IsInsert(1, j) /\ IsDone(1, j) =>
               conn[1][i].seq < conn[1][j].seq
\* The n-th message was stored before statement i was carried out.
Before(n, i) == n <= Heard \/ \E j \in DOMAIN conn[1] : j < i /\ Answers(j, n)
FoundOK ==
    \A i \in DOMAIN conn[1] : IsSelect(1, i) /\ IsDone(1, i) =>
        /\ Rise(conn[1][i].found)
        /\ \A j \in DOMAIN conn[1][i].found :
               \E n \in DOMAIN log : log[n] = conn[1][i].found[j] /\ Before(n, i)
        /\ \A n \in DOMAIN log : Before(n, i) =>
               \/ log[n].msg \in gone
               \/ \E j \in DOMAIN conn[1][i].found : conn[1][i].found[j] = log[n]
RowsOK == \A n \in DOMAIN log : log[n] \in rows \/ log[n].msg \in gone

(***************************************************************************)
(* With one connection: how far into the log a client is.                  *)
(***************************************************************************)
At(c, p) ==
    IF got[c] = <<>> THEN p = base[c] /\ client[c].cursor = 0 /\ (~client[c].joined => p = 0)
    ELSE p \in DOMAIN log /\ log[p].seq = client[c].cursor
         /\ log[p].msg = got[c][Len(got[c])]
\* A live client may be without it.
Excused(n) == log[n].msg \in gone \cup unsaid
PlaceOK(c, p) ==
    /\ At(c, p)
    /\ client[c].pc # "following" => client[c].buffer = <<>>
    /\ client[c].pc = "live" => \A n \in p + 1 .. Heard : Excused(n)
    /\ client[c].pc = "following" =>
           /\ client[c].cursor > 0 /\ Rise(client[c].buffer)
           /\ \A j \in DOMAIN client[c].buffer :
                  \E n \in p + 1 .. Heard : log[n] = client[c].buffer[j]
ClientOK == \A c \in Clients : \E p \in 0 .. Heard : PlaceOK(c, p)

-------------------------------------------------------------------------------
(* Typing.                                                                 *)

LEMMA Constants ==
    /\ Size \in [Posts -> Nat] /\ PoolMax \in Nat /\ Limit \in Nat /\ Limit > 0
    /\ \A k \in 1 .. PoolMax : MaxFaults[k] \in Nat /\ 0 \in 0 .. MaxFaults[k]
    /\ \A k \in 1 .. PoolMax : \A j \in 1 .. k : j \in Conns
<1>1. MaxFaults \in [1 .. PoolMax -> Nat]
  BY BoundsAssumption
<1>2. \A k \in 1 .. PoolMax : MaxFaults[k] \in Nat
  BY <1>1
<1>. QED  BY <1>2, SizesAssumption DEF Conns

LEMMA FaultType ==
    ASSUME TypeOK, Fault, UNCHANGED pool
    PROVE  faults' \in 0 .. MaxFaults[pool']
<1>1. pool \in 1 .. PoolMax /\ MaxFaults[pool] \in Nat /\ faults \in Nat
  BY Constants DEF TypeOK
<1>. QED  BY <1>1 DEF Fault

LEMMA StatementKinds ==
    ASSUME NEW s \in Statement
    PROVE  /\ s.kind = "insert" => s \in Insertion
           /\ s.kind # "insert" => s \in Selection /\ s.kind \in {"page", "watch"}
BY DEF Statement, Insertion, Selection

LEMMA StatementTypes == Insertion \subseteq Statement /\ Selection \subseteq Statement
BY DEF Statement, Insertion, Selection

LEMMA MessageType ==
    ASSUME NEW p \in Posts, NEW n \in Nat \ {0}, n <= Size[p]
    PROVE  <<p, n>> \in Messages
<1>1. n \in 1 .. Size[p]
  BY Constants
<1>2. <<p, n>> \in {p} \X (1 .. Size[p])
  BY <1>1
<1>. QED  BY <1>2 DEF Messages

LEMMA MessageParts ==
    ASSUME NEW m \in Messages
    PROVE  m[1] \in Posts /\ m[2] \in Nat \ {0} /\ m[2] <= Size[m[1]] /\ m = <<m[1], m[2]>>
<1>1. PICK p \in Posts : m \in {p} \X (1 .. Size[p])
  BY DEF Messages
<1>2. m[1] = p /\ m[2] \in 1 .. Size[p] /\ m = <<m[1], m[2]>>
  BY <1>1
<1>. QED  BY <1>2, Constants

(***************************************************************************)
(* What becomes of the statements.                                         *)
(***************************************************************************)

\* A statement is sent on connection k.
Queued(k, s) ==
    /\ k \in Conns /\ conn' \in [Conns -> Seq(Statement)]
    /\ \A l \in Conns \ {k} : conn'[l] = conn[l]
    /\ Len(conn'[k]) = Len(conn[k]) + 1
    /\ conn'[k][Len(conn[k]) + 1] = s
    /\ \A i \in DOMAIN conn[k] : i \in DOMAIN conn'[k] /\ conn'[k][i] = conn[k][i]
    /\ \A i \in DOMAIN conn'[k] : i \in DOMAIN conn[k] \/ i = Len(conn[k]) + 1
\* The i-th statement on it becomes s.
Turned(k, i, s) ==
    /\ k \in Conns /\ i \in DOMAIN conn[k] /\ conn' \in [Conns -> Seq(Statement)]
    /\ \A l \in Conns \ {k} : conn'[l] = conn[l]
    /\ DOMAIN conn'[k] = DOMAIN conn[k]
    /\ conn'[k][i] = s
    /\ \A j \in DOMAIN conn[k] \ {i} : conn'[k][j] = conn[k][j]
\* The first one is answered.
Answered(k) ==
    /\ k \in Conns /\ 1 \in DOMAIN conn[k] /\ conn' \in [Conns -> Seq(Statement)]
    /\ \A l \in Conns \ {k} : conn'[l] = conn[l]
    /\ Len(conn'[k]) = Len(conn[k]) - 1
    /\ \A i \in DOMAIN conn'[k] : i + 1 \in DOMAIN conn[k] /\ conn'[k][i] = conn[k][i + 1]
    /\ \A i \in DOMAIN conn[k] : i > 1 => i - 1 \in DOMAIN conn'[k]

LEMMA ConnType ==
    ASSUME TypeOK, NEW k \in 1 .. pool
    PROVE  /\ k \in Conns /\ conn \in [Conns -> Seq(Statement)]
           /\ conn[k] \in Seq(Statement) /\ Len(conn[k]) \in Nat
           /\ DOMAIN conn[k] = 1 .. Len(conn[k])
           /\ \A i \in DOMAIN conn[k] : conn[k][i] \in Statement
<1>1. k \in Conns /\ conn \in [Conns -> Seq(Statement)]
  BY Constants DEF TypeOK, Conns
<1>. QED  BY <1>1

LEMMA QueuedEffect ==
    ASSUME TypeOK, NEW k \in 1 .. pool, NEW s \in Statement, Send(k, s)
    PROVE  Queued(k, s)
<1>1. PICK q : q = conn[k]
  OBVIOUS
<1>2. /\ k \in Conns /\ conn \in [Conns -> Seq(Statement)] /\ q \in Seq(Statement)
      /\ conn' = [conn EXCEPT ![k] = Append(q, s)]
  BY <1>1, ConnType DEF Send
<1>3. PICK t : t = Append(q, s)
  OBVIOUS
<1>4. /\ t \in Seq(Statement) /\ Len(t) = Len(q) + 1 /\ t[Len(q) + 1] = s
      /\ \A i \in 1 .. Len(q) : t[i] = q[i]
  BY <1>2, <1>3
<1>5. DOMAIN t = 1 .. Len(q) + 1 /\ DOMAIN q = 1 .. Len(q) /\ Len(q) \in Nat
  BY <1>2, <1>4
<1>6. conn' \in [Conns -> Seq(Statement)] /\ conn'[k] = t
      /\ \A l \in Conns \ {k} : conn'[l] = conn[l]
  BY <1>2, <1>3, <1>4
<1>7. \A i \in DOMAIN q : i \in DOMAIN t
  BY <1>5
<1>8. \A i \in DOMAIN t : i \in DOMAIN q \/ i = Len(q) + 1
  BY <1>5
<1>. QED  BY <1>1, <1>2, <1>4, <1>5, <1>6, <1>7, <1>8 DEF Queued

LEMMA TurnedEffect ==
    ASSUME TypeOK, NEW k \in 1 .. pool, NEW i \in DOMAIN conn[k], NEW s \in Statement,
           Become(k, i, s)
    PROVE  Turned(k, i, s)
<1>1. PICK q : q = conn[k]
  OBVIOUS
<1>2. /\ k \in Conns /\ conn \in [Conns -> Seq(Statement)] /\ q \in Seq(Statement)
      /\ conn' = [conn EXCEPT ![k] = [q EXCEPT ![i] = s]] /\ i \in 1 .. Len(q)
  BY <1>1, ConnType DEF Become
<1>3. PICK t : t = [q EXCEPT ![i] = s]
  OBVIOUS
<1>4. /\ t \in Seq(Statement) /\ DOMAIN t = DOMAIN q /\ t[i] = s
      /\ \A j \in DOMAIN q \ {i} : t[j] = q[j]
  BY <1>2, <1>3
<1>5. conn' \in [Conns -> Seq(Statement)] /\ conn'[k] = t
      /\ \A l \in Conns \ {k} : conn'[l] = conn[l]
  BY <1>2, <1>3, <1>4
<1>. QED  BY <1>1, <1>2, <1>4, <1>5 DEF Turned

LEMMA AnsweredEffect ==
    ASSUME TypeOK, NEW k \in 1 .. pool, conn[k] # <<>>,
           conn' = [conn EXCEPT ![k] = Tail(@)]
    PROVE  Answered(k) /\ Head(conn[k]) = conn[k][1] /\ conn[k][1] \in Statement
<1>1. PICK q : q = conn[k]
  OBVIOUS
<1>2. /\ k \in Conns /\ conn \in [Conns -> Seq(Statement)] /\ q \in Seq(Statement)
      /\ conn' = [conn EXCEPT ![k] = Tail(q)] /\ q # <<>>
  BY <1>1, ConnType
<1>3. PICK t : t = Tail(q)
  OBVIOUS
<1>4. /\ t \in Seq(Statement) /\ Len(t) = Len(q) - 1 /\ Head(q) = q[1] /\ q[1] \in Statement
      /\ \A i \in 1 .. Len(t) : t[i] = q[i + 1]
  BY <1>2, <1>3, HeadTailProperties
<1>5. /\ DOMAIN t = 1 .. Len(t) /\ DOMAIN q = 1 .. Len(q)
      /\ Len(q) \in Nat /\ Len(t) \in Nat /\ Len(q) # 0
  BY <1>2, <1>4
<1>6. conn' \in [Conns -> Seq(Statement)] /\ conn'[k] = t
      /\ \A l \in Conns \ {k} : conn'[l] = conn[l]
  BY <1>2, <1>3, <1>4
<1>7. /\ 1 \in DOMAIN q
      /\ \A i \in DOMAIN t : i + 1 \in DOMAIN q
      /\ \A i \in DOMAIN q : i > 1 => i - 1 \in DOMAIN t
  BY <1>4, <1>5
<1>. QED  BY <1>1, <1>2, <1>4, <1>5, <1>6, <1>7 DEF Answered

(***************************************************************************)
(* What the actions do.                                                    *)
(***************************************************************************)

LEMMA BeginsEffect ==
    ASSUME TypeOK, NEW k \in 1 .. pool, NEW i \in DOMAIN conn[k], InsertBegins(k, i)
    PROVE  \E t \in Insertion :
               /\ Turned(k, i, t) /\ IsInsert(k, i) /\ conn[k][i].state = "sent"
               /\ t.by = conn[k][i].by /\ t.state = "begun" /\ t.seq = messagesSeq + 1
<1>1. conn[k][i] \in Insertion /\ IsInsert(k, i) /\ conn[k][i].state = "sent"
  BY ConnType, StatementKinds DEF InsertBegins, Statements, IsInsert
<1>2. PICK t : t = [conn[k][i] EXCEPT !.state = "begun", !.seq = messagesSeq + 1]
  OBVIOUS
<1>3. t \in Insertion /\ t.by = conn[k][i].by /\ t.state = "begun" /\ t.seq = messagesSeq + 1
  <2>1. messagesSeq + 1 \in Nat
    BY DEF TypeOK
  <2>. QED  BY <1>1, <1>2, <2>1 DEF Insertion
<1>4. Turned(k, i, t)
  BY <1>2, <1>3, StatementTypes, TurnedEffect DEF InsertBegins
<1>. QED  BY <1>1, <1>3, <1>4

LEMMA StoredType ==
    ASSUME TypeOK, PostOK, NEW k \in 1 .. pool, NEW i \in DOMAIN conn[k], IsInsert(k, i)
    PROVE  /\ conn[k][i] \in Insertion /\ conn[k][i].by \in Posts
           /\ Stored(conn[k][i]) \in Row
           /\ Stored(conn[k][i]).seq = conn[k][i].seq
           /\ Stored(conn[k][i]).msg = <<conn[k][i].by, post[conn[k][i].by].next>>
<1>. PICK s : s = conn[k][i]
  OBVIOUS
<1>1. s \in Insertion /\ k \in Conns
  BY ConnType, StatementKinds DEF IsInsert
<1>2. s.by \in Posts /\ s.seq \in Nat
  BY <1>1 DEF Insertion
<1>3. post[s.by].next <= Size[s.by] /\ post[s.by].next \in Nat \ {0}
  BY <1>1, <1>2 DEF PostOK, TypeOK
<1>4. <<s.by, post[s.by].next>> \in Messages
  BY <1>2, <1>3, MessageType
<1>. QED  BY <1>1, <1>2, <1>4 DEF Stored, Row

LEMMA CommitsEffect ==
    ASSUME TypeOK, PostOK, NEW k \in 1 .. pool, NEW i \in DOMAIN conn[k], InsertCommits(k, i)
    PROVE  \E t \in Insertion, r \in Row :
               /\ Turned(k, i, t) /\ IsInsert(k, i) /\ conn[k][i].state = "begun"
               /\ t.by = conn[k][i].by /\ t.state = "done" /\ t.seq = conn[k][i].seq
               /\ r = Stored(conn[k][i]) /\ r.seq = conn[k][i].seq
               /\ r.msg = <<conn[k][i].by, post[conn[k][i].by].next>> /\ conn[k][i].by \in Posts
               /\ rows' = rows \cup {r} /\ log' = Append(log, r)
<1>1. /\ IsInsert(k, i) /\ conn[k][i].state = "begun"
      /\ rows' = rows \cup {Stored(conn[k][i])} /\ log' = Append(log, Stored(conn[k][i]))
  BY DEF InsertCommits, Statements, IsInsert
<1>2. PICK t : t = [conn[k][i] EXCEPT !.state = "done"]
  OBVIOUS
<1>3. t \in Insertion /\ t.by = conn[k][i].by /\ t.state = "done" /\ t.seq = conn[k][i].seq
  <2>1. conn[k][i] \in Insertion
    BY <1>1, StoredType
  <2>. QED  BY <1>2, <2>1 DEF Insertion
<1>4. Turned(k, i, t)
  BY <1>2, <1>3, StatementTypes, TurnedEffect DEF InsertCommits
<1>5. PICK r : r = Stored(conn[k][i])
  OBVIOUS
<1>. QED  BY <1>1, <1>3, <1>4, <1>5, StoredType

LEMMA FailsEffect ==
    ASSUME TypeOK, NEW k \in 1 .. pool, NEW i \in DOMAIN conn[k], InsertFails(k, i)
    PROVE  \E t \in Insertion :
               /\ Turned(k, i, t) /\ IsInsert(k, i) /\ conn[k][i].state = "begun"
               /\ t.by = conn[k][i].by /\ t.state = "failed" /\ t.seq = conn[k][i].seq
<1>1. conn[k][i] \in Insertion /\ IsInsert(k, i) /\ conn[k][i].state = "begun"
  BY ConnType, StatementKinds DEF InsertFails, Statements, IsInsert
<1>2. PICK t : t = [conn[k][i] EXCEPT !.state = "failed"]
  OBVIOUS
<1>3. t \in Insertion /\ t.by = conn[k][i].by /\ t.state = "failed" /\ t.seq = conn[k][i].seq
  BY <1>1, <1>2 DEF Insertion
<1>4. Turned(k, i, t)
  BY <1>2, <1>3, StatementTypes, TurnedEffect DEF InsertFails
<1>. QED  BY <1>1, <1>3, <1>4

LEMMA LostEffect ==
    ASSUME TypeOK, PostOK, NEW k \in 1 .. pool, NEW i \in DOMAIN conn[k], AnswerLost(k, i)
    PROVE  \E t \in Insertion, r \in Row :
               /\ Turned(k, i, t) /\ IsInsert(k, i) /\ conn[k][i].state = "done"
               /\ t.by = conn[k][i].by /\ t.state = "lost" /\ t.seq = conn[k][i].seq
               /\ r = Stored(conn[k][i]) /\ unsaid' = unsaid \cup {r.msg}
<1>1. IsInsert(k, i) /\ conn[k][i].state = "done"
  BY DEF AnswerLost, IsInsert
<1>2. PICK t : t = [conn[k][i] EXCEPT !.state = "lost"]
  OBVIOUS
<1>3. t \in Insertion /\ t.by = conn[k][i].by /\ t.state = "lost" /\ t.seq = conn[k][i].seq
  <2>1. conn[k][i] \in Insertion
    BY <1>1, StoredType
  <2>. QED  BY <1>2, <2>1 DEF Insertion
<1>4. Turned(k, i, t)
  BY <1>2, <1>3, StatementTypes, TurnedEffect DEF AnswerLost
<1>5. PICK r : r = Stored(conn[k][i])
  OBVIOUS
<1>6. r \in Row /\ unsaid' = unsaid \cup {r.msg}
  BY <1>1, <1>5, StoredType DEF AnswerLost
<1>. QED  BY <1>1, <1>3, <1>4, <1>5, <1>6

\* A list of rows in the order of their numbers.
LEMMA ListType ==
    ASSUME NEW R \in SUBSET Row, NEW s \in InOrder(R), messagesSeq \in Nat
    PROVE  /\ s \in Seq(Row) /\ Rise(s)
           /\ \A i \in DOMAIN s : s[i] \in R
           /\ \A r \in R : \E i \in DOMAIN s : s[i] = r
<1>1. PICK n \in 0 .. messagesSeq : s \in [1 .. n -> R]
  BY DEF InOrder
<1>2. n \in Nat /\ s \in Seq(R)
  BY <1>1
<1>. QED  BY <1>1, <1>2 DEF InOrder, Rise

LEMMA SelectEffect ==
    ASSUME TypeOK, NEW k \in 1 .. pool, NEW i \in DOMAIN conn[k], SelectRuns(k, i)
    PROVE  \E t \in Selection :
               /\ Turned(k, i, t) /\ IsSelect(k, i) /\ conn[k][i].state = "sent"
               /\ t.kind = conn[k][i].kind /\ t.by = conn[k][i].by /\ t.state = "done"
               /\ t.read = conn[k][i].read
               /\ Rise(t.found) /\ \A j \in DOMAIN t.found : t.found[j] \in rows
               /\ \A r \in rows : \E j \in DOMAIN t.found : t.found[j] = r
<1>1. conn[k][i] \in Selection /\ IsSelect(k, i) /\ conn[k][i].state = "sent"
  BY ConnType, StatementKinds DEF SelectRuns, Statements, IsSelect
<1>2. PICK found \in InOrder(rows) :
          Become(k, i, [conn[k][i] EXCEPT !.state = "done", !.found = found])
  BY Zenon DEF SelectRuns
<1>3. PICK t : t = [conn[k][i] EXCEPT !.state = "done", !.found = found]
  OBVIOUS
<1>4. /\ found \in Seq(Row) /\ Rise(found)
      /\ \A j \in DOMAIN found : found[j] \in rows
      /\ \A r \in rows : \E j \in DOMAIN found : found[j] = r
  <2>1. rows \in SUBSET Row /\ messagesSeq \in Nat
    BY DEF TypeOK
  <2>. QED  BY <2>1, ListType
<1>5. /\ t \in Selection /\ t.by = conn[k][i].by /\ t.kind = conn[k][i].kind
      /\ t.state = "done" /\ t.found = found /\ t.read = conn[k][i].read
  BY <1>1, <1>3, <1>4 DEF Selection
<1>6. Turned(k, i, t)
  BY <1>2, <1>3, <1>5, StatementTypes, TurnedEffect
<1>. QED  BY <1>1, <1>4, <1>5, <1>6

LEMMA SelectFailsEffect ==
    ASSUME TypeOK, NEW k \in 1 .. pool, NEW i \in DOMAIN conn[k], SelectFails(k, i)
    PROVE  \E t \in Selection :
               /\ Turned(k, i, t) /\ IsSelect(k, i) /\ conn[k][i].state = "sent"
               /\ t.kind = conn[k][i].kind /\ t.by = conn[k][i].by /\ t.state = "failed"
<1>1. conn[k][i] \in Selection /\ IsSelect(k, i) /\ conn[k][i].state = "sent"
  BY ConnType, StatementKinds DEF SelectFails, Statements, IsSelect
<1>2. PICK t : t = [conn[k][i] EXCEPT !.state = "failed"]
  OBVIOUS
<1>3. /\ t \in Selection /\ t.by = conn[k][i].by /\ t.kind = conn[k][i].kind
      /\ t.state = "failed"
  BY <1>1, <1>2 DEF Selection
<1>4. Turned(k, i, t)
  BY <1>2, <1>3, StatementTypes, TurnedEffect DEF SelectFails
<1>. QED  BY <1>1, <1>3, <1>4

LEMMA InsertEffect ==
    ASSUME TypeOK, NEW p \in Posts, NEW k \in 1 .. pool, Insert(p, k)
    PROVE  /\ post[p].pc = "idle" /\ post[p].next <= Size[p]
           /\ post' = [post EXCEPT ![p].pc = "waiting"]
           /\ \E s \in Insertion : Queued(k, s) /\ s.by = p /\ s.state = "sent"
<1>1. PICK s : s = [kind |-> "insert", by |-> p, state |-> "sent", seq |-> 0]
  OBVIOUS
<1>2. s \in Insertion /\ s.by = p /\ s.state = "sent"
  BY <1>1 DEF Insertion
<1>3. Queued(k, s)
  BY <1>1, <1>2, StatementTypes, QueuedEffect DEF Insert
<1>. QED  BY <1>2, <1>3 DEF Insert, More

LEMMA AskEffect ==
    ASSUME TypeOK, NEW c \in Clients, NEW k \in 1 .. pool, AskPage(c, k) \/ Watch(c, k)
    PROVE  \E s \in Selection, pc \in {"paging", "following"} :
               /\ Queued(k, s) /\ s.by = c /\ s.state = "sent"
               /\ s.kind = IF pc = "paging" THEN "page" ELSE "watch"
               /\ client[c].pc = "idle"
               /\ pc = "paging" => (client[c].joined => client[c].cursor > 0)
               /\ pc = "following" => client[c].cursor > 0
               /\ client' = [client EXCEPT ![c].pc = pc, ![c].reads = @ + 1]
<1>0. \A kind \in {"page", "watch"} :
          /\ Select(kind, c) \in Selection /\ Select(kind, c).by = c
          /\ Select(kind, c).state = "sent" /\ Select(kind, c).kind = kind
  <2>1. client[c].reads + 1 \in Nat
    BY DEF TypeOK, Client
  <2>2. <<>> \in Seq(Row)
    OBVIOUS
  <2>. QED  BY <2>1, <2>2 DEF Select, Selection
<1>1. CASE AskPage(c, k)
  <2>1. Queued(k, Select("page", c))
    BY <1>0, <1>1, StatementTypes, QueuedEffect DEF AskPage
  <2>. QED  BY <1>0, <1>1, <2>1 DEF AskPage
<1>2. CASE Watch(c, k)
  <2>1. Queued(k, Select("watch", c))
    BY <1>0, <1>2, StatementTypes, QueuedEffect DEF Watch
  <2>. QED  BY <1>0, <1>2, <2>1 DEF Watch
<1>. QED  BY <1>1, <1>2

(***************************************************************************)
(* What is left of a list beyond a cursor, what a page takes of it, and    *)
(* what a replay adds to it.                                               *)
(***************************************************************************)

LEMMA BeyondRows ==
    ASSUME NEW found \in Seq(Row), NEW cursor \in Nat, NEW f \in Beyond(found, cursor)
    PROVE  /\ f \in Seq(Row)
           /\ \A j \in DOMAIN f : \E i \in DOMAIN found :
                  f[j] = found[i] /\ found[i].seq > cursor
           /\ \A i \in DOMAIN found :
                  found[i].seq > cursor => \E j \in DOMAIN f : f[j] = found[i]
           /\ Rise(found) => Rise(f)
<1>. PICK places : places = {i \in DOMAIN found : found[i].seq > cursor}
  OBVIOUS
<1>1. PICK g \in UNION {[1 .. n -> places] : n \in 0 .. Len(found)} :
          /\ f = [j \in DOMAIN g |-> found[g[j]]]
          /\ \A i, j \in DOMAIN g : i < j => g[i] < g[j]
          /\ \A k \in places : \E i \in DOMAIN g : g[i] = k
  <2>1. f \in Kept(found, places)
    BY DEF Beyond
  <2>. QED  BY <2>1, Zenon DEF Kept
<1>2. PICK n \in 0 .. Len(found) : g \in [1 .. n -> places]
  BY <1>1
<1>3. n \in Nat /\ DOMAIN g = 1 .. n
  BY <1>2
<1>4. \A j \in 1 .. n : g[j] \in places /\ found[g[j]] \in Row /\ f[j] = found[g[j]]
  <2>1. \A i \in DOMAIN found : found[i] \in Row
    OBVIOUS
  <2>. QED  BY <1>1, <1>2, <1>3, <2>1
<1>5. f \in Seq(Row) /\ DOMAIN f = 1 .. n
  <2>1. f \in [1 .. n -> Row]
    BY <1>1, <1>2, <1>3, <1>4
  <2>. QED  BY <1>3, <2>1
<1>6. \A i \in DOMAIN found : found[i].seq > cursor => \E j \in DOMAIN f : f[j] = found[i]
  BY <1>1, <1>3, <1>4, <1>5
<1>7. Rise(found) => Rise(f)
  BY <1>1, <1>2, <1>3, <1>4, <1>5 DEF Rise
<1>8. \A j \in DOMAIN f : \E i \in DOMAIN found : f[j] = found[i] /\ found[i].seq > cursor
  <2>1. SUFFICES ASSUME NEW j \in 1 .. n
                 PROVE  \E i \in DOMAIN found : f[j] = found[i] /\ found[i].seq > cursor
    BY <1>5
  <2>2. g[j] \in DOMAIN found /\ found[g[j]].seq > cursor /\ f[j] = found[g[j]]
    BY <1>4
  <2>. QED  BY <2>2
<1>. QED  BY <1>5, <1>6, <1>7, <1>8

\* items is what a client with this cursor is sent of what was found and of what was
\* notified in the meantime.
News(items, found, cursor, buffer) ==
    /\ items \in Seq(Row)
    /\ \A j \in DOMAIN items :
           \/ \E i \in DOMAIN found : items[j] = found[i] /\ found[i].seq > cursor
           \/ \E i \in DOMAIN buffer : items[j] = buffer[i]
    /\ Rise(found) /\ Rise(buffer) =>
           /\ Rise(items)
           /\ \A i \in DOMAIN found, j \in DOMAIN items :
                  cursor < found[i].seq /\ found[i].seq <= items[j].seq =>
                      \E l \in DOMAIN items : items[l] = found[i]
\* Nothing of what was found is left out.
Complete(items, found, cursor) ==
    \A i \in DOMAIN found :
        cursor < found[i].seq => \E l \in DOMAIN items : items[l] = found[i]

LEMMA Prefix ==
    ASSUME NEW S, NEW s \in Seq(S), NEW m \in 0 .. Len(s)
    PROVE  /\ SubSeq(s, 1, m) \in Seq(S) /\ Len(SubSeq(s, 1, m)) = m
           /\ \A j \in 1 .. m : SubSeq(s, 1, m)[j] = s[j]
<1>1. PICK lo : lo = 1
  OBVIOUS
<1>2. /\ lo \in Int /\ m \in Int /\ m \in Nat /\ m - lo + 1 = m
      /\ \A j \in Int : lo + j - 1 = j
  BY <1>1
<1>3. \A i \in lo .. m : s[i] \in S
  <2>1. Len(s) \in Nat /\ \A i \in 1 .. Len(s) : s[i] \in S
    OBVIOUS
  <2>. QED  BY <1>1, <2>1
<1>. PICK u : u = SubSeq(s, lo, m)
  OBVIOUS
<1>4. /\ u \in Seq(S) /\ Len(u) = IF lo <= m THEN m - lo + 1 ELSE 0
      /\ \A i \in 1 .. m - lo + 1 : u[i] = s[lo + i - 1]
  <2>1. lo \in Int /\ m \in Int
    BY <1>2
  <2>. QED  BY <1>3, <2>1, SubSeqProperties
<1>5. Len(u) = m
  BY <1>1, <1>2, <1>4
<1>6. \A i \in 1 .. m : u[i] = s[i]
  BY <1>2, <1>4
<1>. QED  BY <1>1, <1>4, <1>5, <1>6

LEMMA PageRows ==
    ASSUME NEW found \in Seq(Row), NEW cursor \in Nat, NEW f \in Beyond(found, cursor),
           NEW m \in 0 .. Len(f), NEW items, items = SubSeq(f, 1, m)
    PROVE  News(items, found, cursor, <<>>)
<1>1. /\ f \in Seq(Row)
      /\ \A j \in DOMAIN f : \E i \in DOMAIN found : f[j] = found[i] /\ found[i].seq > cursor
      /\ \A i \in DOMAIN found :
             found[i].seq > cursor => \E j \in DOMAIN f : f[j] = found[i]
      /\ Rise(found) => Rise(f)
  BY BeyondRows
<1>3. DOMAIN f = 1 .. Len(f) /\ Len(f) \in Nat /\ m \in Nat /\ m <= Len(f)
  BY <1>1
<1>4. items \in Seq(Row) /\ Len(items) = m /\ \A j \in 1 .. m : items[j] = f[j]
  BY <1>1, Prefix
<1>5. DOMAIN items = 1 .. m
  BY <1>3, <1>4
<1>6. \A j \in DOMAIN items : j \in DOMAIN f /\ items[j] = f[j]
  BY <1>3, <1>4, <1>5
<1>7. \A j \in DOMAIN items : \E i \in DOMAIN found : items[j] = found[i] /\ found[i].seq > cursor
  BY <1>1, <1>6
<1>8. ASSUME Rise(found) PROVE Rise(items)
  BY <1>1, <1>6, <1>8 DEF Rise
<1>9. ASSUME Rise(found), NEW i \in DOMAIN found, NEW j \in DOMAIN items,
             cursor < found[i].seq, found[i].seq <= items[j].seq
      PROVE  \E l \in DOMAIN items : items[l] = found[i]
  <2>1. PICK l \in DOMAIN f : f[l] = found[i]
    BY <1>1, <1>9
  <2>2. l <= j
    <3>1. j \in DOMAIN f /\ items[j] = f[j] /\ j \in Nat /\ l \in Nat
      BY <1>3, <1>5, <1>6
    <3>2. f[l].seq \in Nat /\ f[j].seq \in Nat
      <4>1. f[l] \in Row /\ f[j] \in Row
        BY <1>1, <3>1
      <4>. QED  BY <4>1 DEF Row
    <3>3. ~(f[j].seq < f[l].seq)
      BY <1>9, <2>1, <3>1, <3>2
    <3>4. Rise(f)
      BY <1>1, <1>9
    <3>. QED  BY <2>1, <3>1, <3>3, <3>4 DEF Rise
  <2>3. l \in DOMAIN items
    BY <1>3, <1>5, <2>2
  <2>. QED  BY <1>6, <2>1, <2>3
<1>. QED  BY <1>4, <1>7, <1>8, <1>9 DEF News

LEMMA ReplayRows ==
    ASSUME NEW found \in Seq(Row), NEW cl \in Client, NEW items \in Replay(cl, found)
    PROVE  News(items, found, cl.cursor, cl.buffer) /\ Complete(items, found, cl.cursor)
<1>0. PICK cursor, buffer : cursor = cl.cursor /\ buffer = cl.buffer
  OBVIOUS
<1>1. cursor \in Nat /\ buffer \in Seq(Row)
  BY <1>0 DEF Client
<1>2. PICK replay \in Beyond(found, cursor) :
          \E rest \in Beyond(buffer, LastSeq(replay, 0)) : items = replay \o rest
  BY <1>0 DEF Replay
<1>3. /\ replay \in Seq(Row)
      /\ \A j \in DOMAIN replay : \E i \in DOMAIN found :
             replay[j] = found[i] /\ found[i].seq > cursor
      /\ \A i \in DOMAIN found :
             found[i].seq > cursor => \E j \in DOMAIN replay : replay[j] = found[i]
      /\ Rise(found) => Rise(replay)
  BY <1>1, BeyondRows
<1>3a. PICK last, m : last = LastSeq(replay, 0) /\ m = Len(replay)
  OBVIOUS
<1>4. /\ last \in Nat /\ m \in Nat /\ DOMAIN replay = 1 .. m
      /\ m # 0 => last = replay[m].seq
  <2>1. m \in Nat /\ DOMAIN replay = 1 .. m
    BY <1>3, <1>3a
  <2>2. CASE replay = <<>>
    BY <1>3a, <2>1, <2>2 DEF LastSeq
  <2>3. CASE replay # <<>>
    <3>1. last = replay[m].seq /\ m \in 1 .. m
      BY <1>3, <1>3a, <2>1, <2>3 DEF LastSeq
    <3>2. replay[m] \in Row
      BY <1>3, <2>1, <3>1
    <3>. QED  BY <2>1, <3>1, <3>2 DEF Row
  <2>. QED  BY <2>2, <2>3
<1>4a. PICK rest \in Beyond(buffer, last) : items = replay \o rest
  BY <1>2, <1>3a
<1>5. /\ rest \in Seq(Row)
      /\ \A j \in DOMAIN rest : \E i \in DOMAIN buffer :
             rest[j] = buffer[i] /\ buffer[i].seq > last
      /\ Rise(buffer) => Rise(rest)
  <2>1. last \in Nat /\ buffer \in Seq(Row)
    BY <1>1, <1>4
  <2>2. rest \in Seq(Row)
    BY <2>1, BeyondRows
  <2>3. Rise(buffer) => Rise(rest)
    BY <2>1, BeyondRows
  <2>4. \A j \in DOMAIN rest : \E i \in DOMAIN buffer :
             rest[j] = buffer[i] /\ buffer[i].seq > last
    BY <2>1, BeyondRows
  <2>. QED  BY <2>2, <2>3, <2>4
<1>. PICK n : n = Len(rest)
  OBVIOUS
<1>6. n \in Nat /\ DOMAIN rest = 1 .. n
  BY <1>5
<1>7. /\ items \in Seq(Row) /\ DOMAIN items = 1 .. m + n
      /\ \A j \in 1 .. m : items[j] = replay[j]
      /\ \A j \in m + 1 .. m + n : j - m \in 1 .. n /\ items[j] = rest[j - m]
  <2>1. /\ items \in Seq(Row) /\ Len(items) = m + n
        /\ \A j \in 1 .. m + n : items[j] = IF j <= m THEN replay[j] ELSE rest[j - m]
    BY <1>3, <1>5, <1>3a, <1>4a, ConcatProperties
  <2>. QED  BY <1>4, <1>6, <2>1
<1>8. \A j \in DOMAIN items : j \in 1 .. m \/ j \in m + 1 .. m + n
  BY <1>4, <1>6, <1>7
<1>9. ASSUME NEW j \in DOMAIN items
      PROVE  \/ \E i \in DOMAIN found : items[j] = found[i] /\ found[i].seq > cursor
             \/ \E i \in DOMAIN buffer : items[j] = buffer[i]
  <2>1. CASE j \in 1 .. m
    BY <1>3, <1>4, <1>7, <2>1
  <2>2. CASE j \in m + 1 .. m + n
    BY <1>5, <1>6, <1>7, <2>2
  <2>. QED  BY <1>8, <2>1, <2>2
<1>10. ASSUME Rise(found), Rise(buffer) PROVE Rise(items)
  <2>1. SUFFICES ASSUME NEW i \in DOMAIN items, NEW j \in DOMAIN items, i < j
                 PROVE  items[i].seq < items[j].seq
    BY DEF Rise
  <2>2. CASE j \in 1 .. m
    <3>1. i \in 1 .. m
      BY <1>4, <1>6, <1>7, <2>1, <2>2
    <3>. QED  BY <1>3, <1>4, <1>7, <1>10, <2>1, <2>2, <3>1 DEF Rise
  <2>3. CASE i \in m + 1 .. m + n
    <3>1. j \in m + 1 .. m + n /\ i - m < j - m
      BY <1>4, <1>6, <1>7, <2>1, <2>3
    <3>. QED  BY <1>5, <1>6, <1>7, <1>10, <2>3, <3>1 DEF Rise
  <2>4. CASE i \in 1 .. m /\ j \in m + 1 .. m + n
    <3>1. items[i] = replay[i] /\ items[j] = rest[j - m] /\ j - m \in DOMAIN rest
      BY <1>6, <1>7, <2>4
    <3>2. replay[i].seq <= last
      <4>1. m # 0 /\ m \in DOMAIN replay /\ i \in DOMAIN replay
        BY <1>4, <2>4
      <4>2. i = m \/ i < m
        BY <1>4, <2>4
      <4>3. replay[i] \in Row
        BY <1>3, <4>1
      <4>4. replay[i].seq \in Nat
        BY <4>3 DEF Row
      <4>5. i < m => replay[i].seq < replay[m].seq
        BY <1>3, <1>10, <4>1 DEF Rise
      <4>. QED  BY <1>4, <4>1, <4>2, <4>4, <4>5
    <3>3. rest[j - m].seq > last /\ rest[j - m].seq \in Nat /\ replay[i].seq \in Nat
      <4>1. rest[j - m] \in Row /\ replay[i] \in Row
        BY <1>3, <1>4, <1>5, <2>4, <3>1
      <4>. QED  BY <1>5, <3>1, <4>1 DEF Row
    <3>. QED  BY <1>4, <3>1, <3>2, <3>3
  <2>. QED  BY <1>8, <2>2, <2>3, <2>4
<1>11. ASSUME NEW i \in DOMAIN found, cursor < found[i].seq
       PROVE  \E l \in DOMAIN items : items[l] = found[i]
  <2>1. PICK j \in DOMAIN replay : replay[j] = found[i]
    <3>1. found[i].seq > cursor
      <4>1. found[i] \in Row
        OBVIOUS
      <4>. QED  BY <1>1, <1>11, <4>1 DEF Row
    <3>. QED  BY <1>3, <3>1
  <2>2. j \in DOMAIN items /\ items[j] = found[i]
    BY <1>4, <1>6, <1>7, <2>1
  <2>. QED  BY <2>2
<1>. QED  BY <1>0, <1>7, <1>9, <1>10, <1>11 DEF News, Complete

LEMMA InsertedEffect ==
    ASSUME TypeOK, PostOK, NEW k \in 1 .. pool, Inserted(k)
    PROVE  \E p \in Posts, item \in Row :
               /\ Answered(k) /\ IsInsert(k, 1) /\ IsDone(k, 1)
               /\ p = conn[k][1].by /\ item = Stored(conn[k][1])
               /\ item.seq = conn[k][1].seq /\ item.msg = <<p, post[p].next>>
               /\ post' = [post EXCEPT ![p] = [next |-> @.next + 1, pc |-> "idle"]]
               /\ client' = [c \in Clients |-> Notified(client[c], item)]
               /\ got' = [c \in Clients |-> Sent(c, item)]
               /\ heard' = Append(heard, item.msg)
               /\ announced' = Append(announced, item.msg)
<1>1. /\ Answered(k) /\ Head(conn[k]) = conn[k][1]
      /\ 1 \in DOMAIN conn[k]
  BY AnsweredEffect DEF Inserted, Answered
<1>2. IsInsert(k, 1) /\ IsDone(k, 1)
  BY <1>1 DEF Inserted, IsInsert, IsDone
<1>3. PICK p, item : p = conn[k][1].by /\ item = Stored(conn[k][1])
  OBVIOUS
<1>4. p \in Posts /\ item \in Row /\ item.seq = conn[k][1].seq /\ item.msg = <<p, post[p].next>>
  BY <1>1, <1>2, <1>3, StoredType
<1>5. /\ post' = [post EXCEPT ![p] = [next |-> @.next + 1, pc |-> "idle"]]
      /\ client' = [c \in Clients |-> Notified(client[c], item)]
      /\ got' = [c \in Clients |-> Sent(c, item)]
      /\ heard' = Append(heard, item.msg)
      /\ announced' = Append(announced, item.msg)
  BY <1>1, <1>3 DEF Inserted
<1>. QED  BY <1>1, <1>2, <1>3, <1>4, <1>5

LEMMA InsertFailedEffect ==
    ASSUME TypeOK, PostOK, NEW k \in 1 .. pool, InsertFailed(k)
    PROVE  \E p \in Posts, item \in Row :
               /\ Answered(k) /\ IsInsert(k, 1) /\ conn[k][1].state \in {"lost", "failed"}
               /\ p = conn[k][1].by /\ item = Stored(conn[k][1])
               /\ item.seq = conn[k][1].seq /\ item.msg = <<p, post[p].next>>
               /\ \/ /\ conn[k][1].state = "lost" /\ heard' = Append(heard, item.msg)
                     /\ post' = [post EXCEPT ![p] = [next |-> @.next + 1, pc |-> "over"]]
                  \/ /\ conn[k][1].state = "failed" /\ heard' = heard
                     /\ post' = [post EXCEPT ![p].pc = "over"]
<1>1. /\ Answered(k) /\ Head(conn[k]) = conn[k][1]
      /\ 1 \in DOMAIN conn[k]
  BY AnsweredEffect DEF InsertFailed, Answered
<1>2. IsInsert(k, 1) /\ conn[k][1].state \in {"lost", "failed"}
  BY <1>1 DEF InsertFailed, IsInsert
<1>3. PICK p, item : p = conn[k][1].by /\ item = Stored(conn[k][1])
  OBVIOUS
<1>4. p \in Posts /\ item \in Row /\ item.seq = conn[k][1].seq /\ item.msg = <<p, post[p].next>>
  BY <1>1, <1>2, <1>3, StoredType
<1>5. \/ /\ conn[k][1].state = "lost" /\ heard' = Append(heard, item.msg)
         /\ post' = [post EXCEPT ![p] = [next |-> @.next + 1, pc |-> "over"]]
      \/ /\ conn[k][1].state = "failed" /\ heard' = heard
         /\ post' = [post EXCEPT ![p].pc = "over"]
  BY <1>1, <1>2, <1>3 DEF InsertFailed
<1>. QED  BY <1>1, <1>2, <1>3, <1>4, <1>5

LEMMA PagedEffect ==
    ASSUME TypeOK, NEW k \in 1 .. pool, Paged(k)
    PROVE  \E c \in Clients, items \in Seq(Row) :
               /\ Answered(k) /\ conn[k][1].kind = "page" /\ IsDone(k, 1) /\ c = conn[k][1].by
               /\ conn[k][1].found \in Seq(Row)
               /\ News(items, conn[k][1].found, client[c].cursor, <<>>)
               /\ got' = [got EXCEPT ![c] = @ \o Texts(items)]
               /\ client' = [client EXCEPT ![c].pc = "idle", ![c].cursor = LastSeq(items, @)]
<1>1. /\ Answered(k) /\ Head(conn[k]) = conn[k][1] /\ conn[k][1] \in Statement
  BY AnsweredEffect, Zenon DEF Paged
<1>2. conn[k][1].kind = "page" /\ IsDone(k, 1)
  BY <1>1, Zenon DEF Paged, IsDone
<1>3. PICK c, found : c = conn[k][1].by /\ found = conn[k][1].found
  OBVIOUS
<1>4. c \in Clients /\ found \in Seq(Row)
  <2>1. conn[k][1] \in Selection
    BY <1>1, <1>2, StatementKinds
  <2>. QED  BY <1>3, <2>1 DEF Selection
<1>5. client[c].cursor \in Nat
  BY <1>4 DEF TypeOK, Client
<1>6. PICK f \in Beyond(found, client[c].cursor) :
          LET items == SubSeq(f, 1, IF Len(f) > Limit THEN Limit ELSE Len(f))
          IN /\ got' = [got EXCEPT ![c] = @ \o Texts(items)]
             /\ client' = [client EXCEPT ![c].pc = "idle", ![c].cursor = LastSeq(items, @)]
  BY <1>1, <1>3, Zenon DEF Paged
<1>7. PICK m : m = IF Len(f) > Limit THEN Limit ELSE Len(f)
  OBVIOUS
<1>8. m \in 0 .. Len(f)
  <2>1. f \in Seq(Row)
    BY <1>4, <1>5, BeyondRows
  <2>2. Len(f) \in Nat
    BY <2>1
  <2>. QED  BY <1>7, <2>2, Constants
<1>9. PICK items : items = SubSeq(f, 1, m)
  OBVIOUS
<1>10. News(items, found, client[c].cursor, <<>>)
  BY <1>4, <1>5, <1>8, <1>9, PageRows
<1>11. /\ got' = [got EXCEPT ![c] = @ \o Texts(items)]
       /\ client' = [client EXCEPT ![c].pc = "idle", ![c].cursor = LastSeq(items, @)]
  BY <1>6, <1>7, <1>9
<1>12. items \in Seq(Row)
  BY <1>10 DEF News
<1>. QED  BY <1>1, <1>2, <1>3, <1>4, <1>10, <1>11, <1>12, Zenon

LEMMA ReplayedEffect ==
    ASSUME TypeOK, NEW k \in 1 .. pool, Replayed(k)
    PROVE  \E c \in Clients :
               /\ Answered(k) /\ conn[k][1].kind = "watch" /\ IsDone(k, 1) /\ c = conn[k][1].by
               /\ conn[k][1].found \in Seq(Row)
               /\ \/ UNCHANGED <<got, client>>
                  \/ /\ client[c].pc = "following"
                     /\ \E items : /\ News(items, conn[k][1].found, client[c].cursor,
                                           client[c].buffer)
                                   /\ Complete(items, conn[k][1].found, client[c].cursor)
                                   /\ got' = [got EXCEPT ![c] = @ \o Texts(items)]
                                   /\ client' = [client EXCEPT ![c].pc = "live",
                                                               ![c].buffer = <<>>,
                                                               ![c].cursor = LastSeq(items, @)]
<1>1. /\ Answered(k) /\ Head(conn[k]) = conn[k][1] /\ conn[k][1] \in Statement
  BY AnsweredEffect, Zenon DEF Replayed
<1>2. conn[k][1].kind = "watch" /\ IsDone(k, 1)
  BY <1>1, Zenon DEF Replayed, IsDone
<1>3. PICK c, found : c = conn[k][1].by /\ found = conn[k][1].found
  OBVIOUS
<1>4. c \in Clients /\ found \in Seq(Row)
  <2>1. conn[k][1] \in Selection
    BY <1>1, <1>2, StatementKinds
  <2>. QED  BY <1>3, <2>1 DEF Selection
<1>5. CASE UNCHANGED <<got, client>>
  BY <1>1, <1>2, <1>3, <1>4, <1>5
<1>6. CASE ~UNCHANGED <<got, client>>
  <2>1. client[c].pc = "following" /\ \E items \in Replay(client[c], found) :
            /\ got' = [got EXCEPT ![c] = @ \o Texts(items)]
            /\ client' = [client EXCEPT ![c].pc = "live", ![c].buffer = <<>>,
                                        ![c].cursor = LastSeq(items, @)]
    <3>1. client[c].pc = "following" /\ client[c].reads = conn[k][1].read
      BY <1>1, <1>3, <1>6, Zenon DEF Replayed, Awaited
    <3>2. Head(conn[k]).by = c /\ Head(conn[k]).found = found
          /\ Head(conn[k]).read = conn[k][1].read
      BY <1>1, <1>3
    <3>3. \E items \in Replay(client[c], found) :
            /\ got' = [got EXCEPT ![c] = @ \o Texts(items)]
            /\ client' = [client EXCEPT ![c].pc = "live", ![c].buffer = <<>>,
                                        ![c].cursor = LastSeq(items, @)]
      BY <3>1, <3>2, Zenon DEF Replayed, Awaited
    <3>. QED  BY <3>1, <3>3
  <2>2. PICK items \in Replay(client[c], found) :
            /\ got' = [got EXCEPT ![c] = @ \o Texts(items)]
            /\ client' = [client EXCEPT ![c].pc = "live", ![c].buffer = <<>>,
                                        ![c].cursor = LastSeq(items, @)]
    BY <2>1
  <2>3. client[c] \in Client
    BY <1>4 DEF TypeOK
  <2>4. /\ News(items, found, client[c].cursor, client[c].buffer)
        /\ Complete(items, found, client[c].cursor)
    BY <1>4, <2>3, ReplayRows
  <2>. QED  BY <1>1, <1>2, <1>3, <1>4, <2>1, <2>2, <2>4, Zenon
<1>. QED  BY <1>5, <1>6, Zenon

(***************************************************************************)
(* The clients, field by field.                                            *)
(***************************************************************************)

LEMMA TextsType ==
    ASSUME NEW items \in Seq(Row), NEW else \in Nat
    PROVE  /\ Texts(items) \in Seq(Messages) /\ Len(Texts(items)) = Len(items)
           /\ \A i \in DOMAIN items : Texts(items)[i] = items[i].msg /\ items[i].msg \in Messages
           /\ LastSeq(items, else) \in Nat
           /\ IF items = <<>> THEN LastSeq(items, else) = else
              ELSE Len(items) \in DOMAIN items /\ LastSeq(items, else) = items[Len(items)].seq
<1>. PICK n : n = Len(items)
  OBVIOUS
<1>1. n \in Nat /\ DOMAIN items = 1 .. n /\ \A i \in 1 .. n : items[i] \in Row
  OBVIOUS
<1>2. \A i \in 1 .. n : items[i].msg \in Messages /\ items[i].seq \in Nat
  BY <1>1 DEF Row
<1>3. Texts(items) \in [1 .. n -> Messages]
  BY <1>1, <1>2 DEF Texts
<1>4. Texts(items) \in Seq(Messages) /\ Len(Texts(items)) = n
  BY <1>1, <1>3
<1>5. items # <<>> => n \in 1 .. n
  BY <1>1
<1>. QED  BY <1>1, <1>2, <1>4, <1>5 DEF Texts, LastSeq

\* Only client c's record changes, and these are its fields then.
Becomes(c, pc, joined, cursor, buffer, reads) ==
    /\ client' \in [Clients -> Client]
    /\ \A d \in Clients \ {c} : client'[d] = client[d]
    /\ client'[c].pc = pc /\ client'[c].joined = joined /\ client'[c].cursor = cursor
    /\ client'[c].buffer = buffer /\ client'[c].reads = reads

\* One client is another than before.
LEMMA Replaced ==
    ASSUME client \in [Clients -> Client], NEW c \in Clients, NEW cl \in Client,
           client' = [client EXCEPT ![c] = cl]
    PROVE  /\ client' \in [Clients -> Client] /\ client'[c] = cl
           /\ \A d \in Clients \ {c} : client'[d] = client[d]
OBVIOUS

LEMMA AskFields ==
    ASSUME TypeOK, NEW c \in Clients, NEW pc \in {"paging", "following"},
           client' = [client EXCEPT ![c].pc = pc, ![c].reads = @ + 1]
    PROVE  Becomes(c, pc, client[c].joined, client[c].cursor, client[c].buffer,
                   client[c].reads + 1)
<1>1. client \in [Clients -> Client] /\ client[c].reads + 1 \in Nat
  BY DEF TypeOK, Client
<1>2. PICK cl : cl = [client[c] EXCEPT !.pc = pc, !.reads = @ + 1]
  OBVIOUS
<1>3. /\ cl \in Client /\ cl.pc = pc /\ cl.joined = client[c].joined
      /\ cl.cursor = client[c].cursor /\ cl.buffer = client[c].buffer
      /\ cl.reads = client[c].reads + 1
  BY <1>1, <1>2 DEF Client
<1>4. client' = [client EXCEPT ![c] = cl]
  BY <1>1, <1>2
<1>. QED  BY <1>1, <1>3, <1>4, Replaced DEF Becomes

LEMMA PagedFields ==
    ASSUME TypeOK, NEW c \in Clients, NEW n \in Nat,
           client' = [client EXCEPT ![c].pc = "idle", ![c].cursor = n]
    PROVE  Becomes(c, "idle", client[c].joined, n, client[c].buffer, client[c].reads)
<1>1. client \in [Clients -> Client]
  BY DEF TypeOK
<1>2. PICK cl : cl = [client[c] EXCEPT !.pc = "idle", !.cursor = n]
  OBVIOUS
<1>3. /\ cl \in Client /\ cl.pc = "idle" /\ cl.joined = client[c].joined
      /\ cl.cursor = n /\ cl.buffer = client[c].buffer /\ cl.reads = client[c].reads
  BY <1>1, <1>2 DEF Client
<1>4. client' = [client EXCEPT ![c] = cl]
  BY <1>1, <1>2
<1>. QED  BY <1>1, <1>3, <1>4, Replaced DEF Becomes

LEMMA ReplayedFields ==
    ASSUME TypeOK, NEW c \in Clients, NEW n \in Nat,
           client' = [client EXCEPT ![c].pc = "live", ![c].buffer = <<>>, ![c].cursor = n]
    PROVE  Becomes(c, "live", client[c].joined, n, <<>>, client[c].reads)
<1>1. client \in [Clients -> Client] /\ <<>> \in Seq(Row)
  BY DEF TypeOK
<1>2. PICK cl : cl = [client[c] EXCEPT !.pc = "live", !.buffer = <<>>, !.cursor = n]
  OBVIOUS
<1>3. /\ cl \in Client /\ cl.pc = "live" /\ cl.joined = client[c].joined
      /\ cl.cursor = n /\ cl.buffer = <<>> /\ cl.reads = client[c].reads
  BY <1>1, <1>2 DEF Client
<1>4. client' = [client EXCEPT ![c] = cl]
  BY <1>1, <1>2
<1>. QED  BY <1>1, <1>3, <1>4, Replaced DEF Becomes

LEMMA CloseFields ==
    ASSUME TypeOK, NEW c \in Clients, Close(c)
    PROVE  Becomes(c, "idle", client[c].joined, client[c].cursor, <<>>, client[c].reads)
<1>1. client \in [Clients -> Client] /\ <<>> \in Seq(Row)
  BY DEF TypeOK
<1>2. PICK cl : cl = [client[c] EXCEPT !.pc = "idle", !.buffer = <<>>]
  OBVIOUS
<1>3. /\ cl \in Client /\ cl.pc = "idle" /\ cl.joined = client[c].joined
      /\ cl.cursor = client[c].cursor /\ cl.buffer = <<>> /\ cl.reads = client[c].reads
  BY <1>1, <1>2 DEF Client
<1>4. client' = [client EXCEPT ![c] = cl]
  BY <1>1, <1>2 DEF Close
<1>. QED  BY <1>1, <1>3, <1>4, Replaced DEF Becomes

\* A SELECT that failed takes the client out of what it was doing, and from nothing else.
LEMMA FailedFields ==
    ASSUME TypeOK, PageOK, NEW k \in 1 .. pool, PageFailed(k) \/ ReplayFailed(k)
    PROVE  /\ Answered(k) /\ ~IsInsert(k, 1) /\ conn[k][1].by \in Clients
           /\ conn[k][1].state = "failed" /\ UNCHANGED <<db, post, got, hist, faults>>
           /\ \/ UNCHANGED client /\ conn[k][1].kind # "page"
              \/ LET c == conn[k][1].by
                 IN \E pc \in {"idle", "silent"}, buffer \in Seq(Row) :
                       /\ Becomes(c, pc, client[c].joined, client[c].cursor, buffer,
                                  client[c].reads)
                       /\ \/ /\ conn[k][1].kind = "page" /\ client[c].pc = "paging"
                             /\ buffer = client[c].buffer
                          \/ client[c].pc = "following" /\ buffer = <<>>
<1>0. client \in [Clients -> Client] /\ <<>> \in Seq(Row)
  BY DEF TypeOK
<1>. PICK s : s = conn[k][1]
  OBVIOUS
<1>1. /\ Answered(k) /\ Head(conn[k]) = s /\ s \in Statement
      /\ k \in Conns /\ 1 \in DOMAIN conn[k]
  BY AnsweredEffect, Zenon DEF PageFailed, ReplayFailed, Answered
<1>2. /\ s.kind \in {"page", "watch"} /\ s.state = "failed" /\ ~IsInsert(k, 1)
      /\ UNCHANGED <<db, post, got, hist, faults>>
  BY <1>1, Zenon DEF PageFailed, ReplayFailed, IsInsert
<1>3. PICK c \in Clients : c = s.by
  BY <1>1, <1>2, StatementKinds DEF Selection
<1>4. client[c] \in Client
  BY <1>0
<1>5. CASE PageFailed(k)
  <2>1. s.kind = "page" /\ client' = [client EXCEPT ![c].pc = "idle"]
    BY <1>1, <1>3, <1>5, Zenon DEF PageFailed
  <2>2. client[c].pc = "paging"
    BY <1>1, <1>3, <2>1 DEF PageOK
  <2>3. PICK cl : cl = [client[c] EXCEPT !.pc = "idle"]
    OBVIOUS
  <2>4. /\ cl \in Client /\ cl.pc = "idle" /\ cl.joined = client[c].joined
        /\ cl.cursor = client[c].cursor /\ cl.buffer = client[c].buffer
        /\ cl.reads = client[c].reads /\ client[c].buffer \in Seq(Row)
    BY <1>4, <2>3 DEF Client
  <2>5. client' = [client EXCEPT ![c] = cl]
    BY <1>0, <2>1, <2>3
  <2>6. PICK pc, buffer : pc = "idle" /\ buffer = client[c].buffer
    OBVIOUS
  <2>7. Becomes(c, pc, client[c].joined, client[c].cursor, buffer, client[c].reads)
    BY <1>0, <2>4, <2>5, <2>6, Replaced DEF Becomes
  <2>8. pc \in {"idle", "silent"} /\ buffer \in Seq(Row)
    BY <2>4, <2>6
  <2>. QED  BY <1>1, <1>2, <1>3, <2>1, <2>2, <2>6, <2>7, <2>8, Zenon
<1>6. CASE ReplayFailed(k) /\ ~Awaited(s)
  <2>1. s.kind # "page" /\ UNCHANGED client
    BY <1>1, <1>6 DEF ReplayFailed
  <2>. QED  BY <1>1, <1>2, <1>3, <2>1
<1>7. CASE ReplayFailed(k) /\ Awaited(s)
  <2>1. client' = [client EXCEPT ![c].pc = "silent", ![c].buffer = <<>>]
    BY <1>1, <1>3, <1>7, Zenon DEF ReplayFailed
  <2>2. client[c].pc = "following"
    BY <1>3, <1>7 DEF Awaited
  <2>3. PICK cl : cl = [client[c] EXCEPT !.pc = "silent", !.buffer = <<>>]
    OBVIOUS
  <2>4. /\ cl \in Client /\ cl.pc = "silent" /\ cl.joined = client[c].joined
        /\ cl.cursor = client[c].cursor /\ cl.buffer = <<>> /\ cl.reads = client[c].reads
    BY <1>0, <1>4, <2>3 DEF Client
  <2>5. client' = [client EXCEPT ![c] = cl]
    BY <1>0, <2>1, <2>3
  <2>6. PICK pc, buffer : pc = "silent" /\ buffer = <<>>
    OBVIOUS
  <2>7. Becomes(c, pc, client[c].joined, client[c].cursor, buffer, client[c].reads)
    BY <1>0, <2>4, <2>5, <2>6, Replaced DEF Becomes
  <2>8. pc \in {"idle", "silent"} /\ buffer \in Seq(Row)
    BY <1>0, <2>6
  <2>. QED  BY <1>1, <1>2, <1>3, <2>2, <2>6, <2>7, <2>8, Zenon
<1>. QED  BY <1>5, <1>6, <1>7

LEMMA WatchNowFields ==
    ASSUME TypeOK, NEW c \in Clients, WatchNow(c)
    PROVE  Becomes(c, "live", TRUE, client[c].cursor, client[c].buffer, client[c].reads + 1)
<1>1. client \in [Clients -> Client] /\ client[c].reads + 1 \in Nat
  BY DEF TypeOK, Client
<1>2. PICK cl : cl = [client[c] EXCEPT !.pc = "live", !.joined = TRUE, !.reads = @ + 1]
  OBVIOUS
<1>3. /\ cl \in Client /\ cl.pc = "live" /\ cl.joined = TRUE
      /\ cl.cursor = client[c].cursor /\ cl.buffer = client[c].buffer
      /\ cl.reads = client[c].reads + 1
  BY <1>1, <1>2 DEF Client
<1>4. client' = [client EXCEPT ![c] = cl]
  BY <1>1, <1>2 DEF WatchNow
<1>. QED  BY <1>1, <1>3, <1>4, Replaced DEF Becomes

\* What a notified client becomes, and what it is sent.
LEMMA NotifiedFields ==
    ASSUME TypeOK, NEW item \in Row,
           client' = [c \in Clients |-> Notified(client[c], item)],
           got' = [c \in Clients |-> Sent(c, item)]
    PROVE  /\ client' \in [Clients -> Client] /\ got' \in [Clients -> Seq(Messages)]
           /\ \A c \in Clients :
                  /\ client'[c].pc = client[c].pc /\ client'[c].joined = client[c].joined
                  /\ client'[c].reads = client[c].reads
                  /\ client'[c].cursor =
                         IF client[c].pc = "live" THEN item.seq ELSE client[c].cursor
                  /\ client'[c].buffer = IF client[c].pc = "following"
                                         THEN Append(client[c].buffer, item)
                                         ELSE client[c].buffer
                  /\ got'[c] = IF client[c].pc = "live" THEN Append(got[c], item.msg)
                               ELSE got[c]
<1>1. client \in [Clients -> Client] /\ got \in [Clients -> Seq(Messages)]
  BY DEF TypeOK
<1>2. item.seq \in Nat /\ item.msg \in Messages
  BY DEF Row
<1>3. ASSUME NEW c \in Clients
      PROVE  /\ client'[c] \in Client
             /\ client'[c].pc = client[c].pc /\ client'[c].joined = client[c].joined
             /\ client'[c].reads = client[c].reads
             /\ client'[c].cursor = IF client[c].pc = "live" THEN item.seq ELSE client[c].cursor
             /\ client'[c].buffer = IF client[c].pc = "following"
                                    THEN Append(client[c].buffer, item) ELSE client[c].buffer
  <2>. PICK cl \in Client : cl = client[c]
    BY <1>1
  <2>1. client'[c] = Notified(cl, item)
    OBVIOUS
  <2>2. CASE cl.pc = "following"
    <3>1. Append(cl.buffer, item) \in Seq(Row)
      BY DEF Client
    <3>2. client'[c] = [cl EXCEPT !.buffer = Append(cl.buffer, item)]
      BY <2>1, <2>2 DEF Notified
    <3>. QED  BY <2>2, <3>1, <3>2 DEF Client
  <2>3. CASE cl.pc = "live"
    <3>1. client'[c] = [cl EXCEPT !.cursor = item.seq]
      BY <2>1, <2>3 DEF Notified
    <3>. QED  BY <1>2, <2>3, <3>1 DEF Client
  <2>4. CASE cl.pc \notin {"following", "live"}
    <3>1. client'[c] = cl
      BY <2>1, <2>4 DEF Notified
    <3>. QED  BY <2>4, <3>1 DEF Client
  <2>. QED  BY <2>2, <2>3, <2>4
<1>4. ASSUME NEW c \in Clients
      PROVE  /\ got'[c] \in Seq(Messages)
             /\ got'[c] = IF client[c].pc = "live" THEN Append(got[c], item.msg) ELSE got[c]
  BY <1>1, <1>2 DEF Sent
<1>. QED  BY <1>3, <1>4

LEMMA HandedGot ==
    ASSUME TypeOK, NEW c \in Clients, NEW items \in Seq(Row),
           got' = [got EXCEPT ![c] = @ \o Texts(items)]
    PROVE  /\ got' \in [Clients -> Seq(Messages)]
           /\ \A d \in Clients \ {c} : got'[d] = got[d]
           /\ got'[c] = got[c] \o Texts(items)
<1>1. got \in [Clients -> Seq(Messages)] /\ Texts(items) \in Seq(Messages)
  BY TextsType DEF TypeOK
<1>2. got[c] \o Texts(items) \in Seq(Messages)
  BY <1>1
<1>. QED  BY <1>1, <1>2

-------------------------------------------------------------------------------
(* The statements on their way.                                            *)

\* Nothing is sent: the statements are those there were, less the first d[l] of each
\* connection.
Remain(d) ==
    /\ d \in [Conns -> {0, 1}]
    /\ \A l \in Conns : \A j \in DOMAIN conn'[l] :
           /\ j \in Nat /\ j + d[l] \in DOMAIN conn[l]
           /\ conn'[l][j].kind = conn[l][j + d[l]].kind
           /\ conn'[l][j].by = conn[l][j + d[l]].by

LEMMA AllStatements ==
    ASSUME TypeOK
    PROVE  /\ \A l \in Conns : conn[l] \in Seq(Statement)
           /\ \A l \in Conns : \A j \in DOMAIN conn[l] :
                  /\ conn[l][j] \in Statement
                  /\ conn[l][j].kind = "insert" => conn[l][j].by \in Posts
                  /\ conn[l][j].kind # "insert" => conn[l][j].by \in Clients
<1>1. \A l \in Conns : conn[l] \in Seq(Statement)
  BY DEF TypeOK, Conns
<1>2. \A l \in Conns : \A j \in DOMAIN conn[l] : conn[l][j] \in Statement
  BY <1>1
<1>. QED  BY <1>1, <1>2, StatementKinds DEF Insertion, Selection

LEMMA TurnedRemain ==
    ASSUME NEW k, NEW i, NEW s, Turned(k, i, s),
           s.kind = conn[k][i].kind, s.by = conn[k][i].by
    PROVE  Remain([l \in Conns |-> 0])
<1>1. \A l \in Conns : \A j \in DOMAIN conn'[l] : j \in Nat
  <2>1. \A l \in Conns : conn'[l] \in Seq(Statement)
    BY DEF Turned
  <2>. QED  BY <2>1
<1>2. \A l \in Conns : \A j \in DOMAIN conn'[l] :
           /\ j \in DOMAIN conn[l]
           /\ conn'[l][j].kind = conn[l][j].kind /\ conn'[l][j].by = conn[l][j].by
  BY DEF Turned
<1>3. \A j \in Nat : j + 0 = j
  OBVIOUS
<1>. QED  BY <1>1, <1>2, <1>3 DEF Remain

LEMMA AnsweredRemain ==
    ASSUME NEW k, Answered(k)
    PROVE  Remain([l \in Conns |-> IF l = k THEN 1 ELSE 0])
<1>1. \A l \in Conns : \A j \in DOMAIN conn'[l] : j \in Nat
  <2>1. \A l \in Conns : conn'[l] \in Seq(Statement)
    BY DEF Answered
  <2>. QED  BY <2>1
<1>2. \A j \in DOMAIN conn'[k] : j + 1 \in DOMAIN conn[k] /\ conn'[k][j] = conn[k][j + 1]
  BY DEF Answered
<1>3. \A l \in Conns \ {k} : conn'[l] = conn[l]
  BY DEF Answered
<1>4. \A j \in Nat : j + 0 = j
  OBVIOUS
<1>. QED  BY <1>1, <1>2, <1>3, <1>4 DEF Remain

LEMMA PostRemain ==
    ASSUME PostOK, NEW d, Remain(d),
           \A l \in Conns : \A j \in DOMAIN conn'[l] :
               conn'[l][j].kind = "insert" => post'[conn'[l][j].by] = post[conn'[l][j].by]
    PROVE  PostOK'
<1>1. SUFFICES ASSUME NEW k \in Conns, NEW i \in DOMAIN conn'[k], conn'[k][i].kind = "insert"
               PROVE  /\ post'[conn'[k][i].by].pc = "waiting"
                      /\ post'[conn'[k][i].by].next <= Size[conn'[k][i].by]
                      /\ \A l \in Conns : \A j \in DOMAIN conn'[l] :
                             conn'[l][j].kind = "insert" /\ conn'[l][j].by = conn'[k][i].by
                             => l = k /\ j = i
  BY DEF PostOK, IsInsert
<1>2. /\ i \in Nat /\ i + d[k] \in DOMAIN conn[k]
      /\ conn[k][i + d[k]].kind = "insert" /\ conn[k][i + d[k]].by = conn'[k][i].by
  BY <1>1 DEF Remain
<1>3. /\ post[conn'[k][i].by].pc = "waiting"
      /\ post[conn'[k][i].by].next <= Size[conn'[k][i].by]
      /\ \A l \in Conns : \A j \in DOMAIN conn[l] :
             conn[l][j].kind = "insert" /\ conn[l][j].by = conn'[k][i].by
             => l = k /\ j = i + d[k]
  BY <1>2 DEF PostOK, IsInsert
<1>4. ASSUME NEW l \in Conns, NEW j \in DOMAIN conn'[l],
             conn'[l][j].kind = "insert", conn'[l][j].by = conn'[k][i].by
      PROVE  l = k /\ j = i
  <2>1. /\ j \in Nat /\ j + d[l] \in DOMAIN conn[l]
        /\ conn[l][j + d[l]].kind = "insert" /\ conn[l][j + d[l]].by = conn'[k][i].by
    BY <1>4 DEF Remain
  <2>2. l = k /\ j + d[l] = i + d[k]
    BY <1>3, <2>1
  <2>3. d[k] \in Nat
    BY DEF Remain
  <2>. QED  BY <1>2, <2>1, <2>2, <2>3
<1>. QED  BY <1>1, <1>3, <1>4

LEMMA PageRemain ==
    ASSUME PageOK, NEW d, Remain(d),
           \A l \in Conns : \A j \in DOMAIN conn'[l] :
               conn'[l][j].kind = "page"
               => client'[conn'[l][j].by].pc = client[conn'[l][j].by].pc,
           \A c \in Clients :
               client'[c].pc = "paging" =>
                   /\ client[c].pc = "paging" /\ client'[c].joined = client[c].joined
                   /\ client'[c].cursor = client[c].cursor
    PROVE  PageOK'
<1>1. \A c \in Clients : client'[c].pc = "paging" /\ client'[c].joined => client'[c].cursor > 0
  BY DEF PageOK
<1>2. ASSUME NEW k \in Conns, NEW i \in DOMAIN conn'[k], conn'[k][i].kind = "page",
             NEW l \in Conns, NEW j \in DOMAIN conn'[l],
             conn'[l][j].kind = "page", conn'[l][j].by = conn'[k][i].by
      PROVE  l = k /\ j = i
  <2>1. /\ i \in Nat /\ i + d[k] \in DOMAIN conn[k]
        /\ conn[k][i + d[k]].kind = "page" /\ conn[k][i + d[k]].by = conn'[k][i].by
    BY <1>2 DEF Remain
  <2>2. /\ j \in Nat /\ j + d[l] \in DOMAIN conn[l]
        /\ conn[l][j + d[l]].kind = "page" /\ conn[l][j + d[l]].by = conn'[k][i].by
    BY <1>2 DEF Remain
  <2>3. l = k /\ j + d[l] = i + d[k]
    BY <2>1, <2>2 DEF PageOK
  <2>4. d[k] \in Nat
    BY DEF Remain
  <2>. QED  BY <2>1, <2>2, <2>3, <2>4
<1>3. \A l \in Conns : \A j \in DOMAIN conn'[l] :
          conn'[l][j].kind = "page" => client'[conn'[l][j].by].pc = "paging"
  BY DEF PageOK, Remain
<1>. QED  BY <1>1, <1>2, <1>3 DEF PageOK

\* Statement i may become s now: it is its turn, or its answer is lost.
Turn(k, i, s) == Current(k, i) \/ (conn[k][i].state = "done" /\ s.state = "lost")

LEMMA QueueTurned ==
    ASSUME TypeOK, QueueOK, NEW k \in 1 .. pool, NEW i, NEW s, Turned(k, i, s), Turn(k, i, s)
    PROVE  QueueOK'
<1>1. /\ conn[k] \in Seq(Statement) /\ DOMAIN conn[k] = 1 .. Len(conn[k])
      /\ Len(conn[k]) \in Nat /\ i \in DOMAIN conn[k]
  BY ConnType DEF Turned
<1>2. SUFFICES ASSUME NEW h \in DOMAIN conn[k], NEW j \in DOMAIN conn[k], h < j,
                      conn'[k][j].state # "sent"
               PROVE  conn'[k][h].state \in {"done", "lost", "failed"}
  BY DEF QueueOK, Turned
<1>3. h \in Nat /\ j \in Nat /\ i \in Nat
  BY <1>1
<1>4. CASE j = i
  <2>1. h \in 1 .. i - 1 /\ h # i
    BY <1>1, <1>2, <1>3, <1>4
  <2>2. conn[k][i].state = "done" => conn[k][h].state \in {"done", "lost", "failed"}
    BY <1>1, <1>2, <1>4, <2>1 DEF QueueOK, Turned
  <2>. QED  BY <2>1, <2>2 DEF Turn, Current, Turned
<1>5. CASE j # i /\ h # i
  BY <1>2, <1>5 DEF QueueOK, Turned
<1>6. CASE j # i /\ h = i
  BY <1>2, <1>6 DEF QueueOK, Turned, Turn, Current
<1>. QED  BY <1>4, <1>5, <1>6

LEMMA QueueAnswered ==
    ASSUME QueueOK, NEW k, Answered(k)
    PROVE  QueueOK'
<1>1. SUFFICES ASSUME NEW h \in DOMAIN conn'[k], NEW j \in DOMAIN conn'[k], h < j,
                      conn'[k][j].state # "sent"
               PROVE  conn'[k][h].state \in {"done", "lost", "failed"}
  BY DEF QueueOK, Answered
<1>2. h \in Nat /\ j \in Nat
  <2>1. conn'[k] \in Seq(Statement)
    BY DEF Answered
  <2>. QED  BY <2>1
<1>3. /\ h + 1 \in DOMAIN conn[k] /\ conn'[k][h] = conn[k][h + 1]
      /\ j + 1 \in DOMAIN conn[k] /\ conn'[k][j] = conn[k][j + 1]
      /\ k \in Conns
  BY DEF Answered
<1>4. h + 1 < j + 1
  BY <1>1, <1>2
<1>. QED  BY <1>1, <1>3, <1>4 DEF QueueOK

LEMMA QueueQueued ==
    ASSUME TypeOK, QueueOK, NEW k \in 1 .. pool, NEW s, Queued(k, s), s.state = "sent"
    PROVE  QueueOK'
<1>1. DOMAIN conn[k] = 1 .. Len(conn[k]) /\ Len(conn[k]) \in Nat
  BY ConnType
<1>2. SUFFICES ASSUME NEW h \in DOMAIN conn'[k], NEW j \in DOMAIN conn'[k], h < j,
                      conn'[k][j].state # "sent"
               PROVE  conn'[k][h].state \in {"done", "lost", "failed"}
  BY DEF QueueOK, Queued
<1>3. j \in DOMAIN conn[k]
  BY <1>2 DEF Queued
<1>4. h \in DOMAIN conn[k]
  BY <1>1, <1>2, <1>3 DEF Queued
<1>. QED  BY <1>2, <1>3, <1>4 DEF QueueOK, Queued

-------------------------------------------------------------------------------
(* Every action keeps the types and the statements in order.               *)

Typed == TypeOK /\ PostOK /\ PageOK /\ QueueOK

LEMMA TurnedTyped ==
    ASSUME Typed, NEW k \in 1 .. pool, NEW i, NEW s, Turned(k, i, s), Turn(k, i, s),
           s.kind = conn[k][i].kind, s.by = conn[k][i].by,
           UNCHANGED post, UNCHANGED client
    PROVE  PostOK' /\ PageOK' /\ QueueOK'
<1>1. Remain([l \in Conns |-> 0])
  BY TurnedRemain
<1>2. PostOK'
  BY <1>1, PostRemain DEF Typed
<1>3. PageOK'
  BY <1>1, PageRemain DEF Typed
<1>4. QueueOK'
  BY QueueTurned DEF Typed
<1>. QED  BY <1>2, <1>3, <1>4

LEMMA DatabaseTyped ==
    ASSUME Typed, NEW k \in 1 .. pool, NEW i \in DOMAIN conn[k],
           \/ InsertBegins(k, i) \/ InsertCommits(k, i) \/ InsertFails(k, i)
           \/ AnswerLost(k, i) \/ SelectRuns(k, i) \/ SelectFails(k, i)
    PROVE  Typed'
<1>1. UNCHANGED post /\ UNCHANGED client
  BY Zenon DEF InsertBegins, InsertCommits, InsertFails, AnswerLost, SelectRuns, SelectFails
<1>2. CASE InsertBegins(k, i)
  <2>1. PICK t \in Insertion :
            /\ Turned(k, i, t) /\ IsInsert(k, i) /\ t.by = conn[k][i].by
    BY <1>2, BeginsEffect DEF Typed
  <2>2. messagesSeq' \in Nat /\ UNCHANGED <<pool, rows, got, hist, faults>>
    BY <1>2 DEF InsertBegins, Typed, TypeOK
  <2>3. TypeOK'
    BY <1>1, <2>1, <2>2 DEF Typed, TypeOK, Turned, hist, Conns
  <2>4. t.kind = conn[k][i].kind
    BY <2>1 DEF Insertion, IsInsert
  <2>5. Turn(k, i, t)
    BY <1>2 DEF InsertBegins, Statements, Turn
  <2>. QED  BY <1>1, <2>1, <2>3, <2>4, <2>5, TurnedTyped DEF Typed
<1>3. CASE InsertCommits(k, i)
  <2>1. PICK t \in Insertion, r \in Row :
            /\ Turned(k, i, t) /\ IsInsert(k, i) /\ t.by = conn[k][i].by
            /\ rows' = rows \cup {r} /\ log' = Append(log, r)
    BY <1>3, CommitsEffect DEF Typed
  <2>2. UNCHANGED <<pool, messagesSeq, got, gone, unsaid, heard, announced, base, since, faults>>
    BY <1>3 DEF InsertCommits
  <2>3. rows' \in SUBSET Row /\ log' \in Seq(Row)
    BY <2>1 DEF Typed, TypeOK
  <2>4. TypeOK'
    BY <1>1, <2>1, <2>2, <2>3 DEF Typed, TypeOK, Turned, Conns
  <2>5. t.kind = conn[k][i].kind
    BY <2>1 DEF Insertion, IsInsert
  <2>6. Turn(k, i, t)
    BY <1>3 DEF InsertCommits, Statements, Turn
  <2>. QED  BY <1>1, <2>1, <2>4, <2>5, <2>6, TurnedTyped DEF Typed
<1>4. CASE InsertFails(k, i)
  <2>1. PICK t \in Insertion :
            /\ Turned(k, i, t) /\ IsInsert(k, i) /\ t.by = conn[k][i].by
    BY <1>4, FailsEffect DEF Typed
  <2>2. faults' \in 0 .. MaxFaults[pool'] /\ UNCHANGED <<db, got, hist>>
    BY <1>4, FaultType DEF InsertFails, Typed, db
  <2>3. TypeOK'
    BY <1>1, <2>1, <2>2 DEF Typed, TypeOK, Turned, hist, db, Conns
  <2>4. t.kind = conn[k][i].kind
    BY <2>1 DEF Insertion, IsInsert
  <2>5. Turn(k, i, t)
    BY <1>4 DEF InsertFails, Statements, Turn
  <2>. QED  BY <1>1, <2>1, <2>3, <2>4, <2>5, TurnedTyped DEF Typed
<1>5. CASE SelectRuns(k, i)
  <2>1. PICK t \in Selection :
            /\ Turned(k, i, t) /\ t.kind = conn[k][i].kind /\ t.by = conn[k][i].by
    BY <1>5, SelectEffect DEF Typed
  <2>2. UNCHANGED <<db, got, hist, faults>>
    BY <1>5, Zenon DEF SelectRuns
  <2>3. TypeOK'
    BY <1>1, <2>1, <2>2 DEF Typed, TypeOK, Turned, hist, db, Conns
  <2>4. Turn(k, i, t)
    BY <1>5 DEF SelectRuns, Statements, Turn
  <2>. QED  BY <1>1, <2>1, <2>3, <2>4, TurnedTyped DEF Typed
<1>6. CASE SelectFails(k, i)
  <2>1. PICK t \in Selection :
            /\ Turned(k, i, t) /\ t.kind = conn[k][i].kind /\ t.by = conn[k][i].by
    BY <1>6, SelectFailsEffect DEF Typed
  <2>2. faults' \in 0 .. MaxFaults[pool'] /\ UNCHANGED <<db, got, hist>>
    BY <1>6, FaultType DEF SelectFails, Typed, db
  <2>3. TypeOK'
    BY <1>1, <2>1, <2>2 DEF Typed, TypeOK, Turned, hist, db, Conns
  <2>4. Turn(k, i, t)
    BY <1>6 DEF SelectFails, Statements, Turn
  <2>. QED  BY <1>1, <2>1, <2>3, <2>4, TurnedTyped DEF Typed
<1>7. CASE AnswerLost(k, i)
  <2>1. PICK t \in Insertion, r \in Row :
            /\ Turned(k, i, t) /\ IsInsert(k, i) /\ conn[k][i].state = "done"
            /\ t.by = conn[k][i].by /\ t.state = "lost" /\ unsaid' = unsaid \cup {r.msg}
    BY <1>7, LostEffect DEF Typed
  <2>2. /\ faults' \in 0 .. MaxFaults[pool']
        /\ UNCHANGED <<db, got, log, gone, heard, announced, base, since>>
    BY <1>7, FaultType DEF AnswerLost, Typed, db
  <2>3. unsaid' \in SUBSET Messages
    BY <2>1 DEF Typed, TypeOK, Row
  <2>4. TypeOK'
    BY <1>1, <2>1, <2>2, <2>3 DEF Typed, TypeOK, Turned, db, Conns
  <2>5. t.kind = conn[k][i].kind
    BY <2>1 DEF Insertion, IsInsert
  <2>6. Turn(k, i, t)
    BY <2>1 DEF Turn
  <2>. QED  BY <1>1, <2>1, <2>4, <2>5, <2>6, TurnedTyped DEF Typed
<1>. QED  BY <1>2, <1>3, <1>4, <1>5, <1>6, <1>7

LEMMA InsertTyped ==
    ASSUME Typed, NEW p \in Posts, NEW k \in 1 .. pool, Insert(p, k)
    PROVE  Typed'
<1>1. /\ post[p].pc = "idle" /\ post[p].next <= Size[p]
      /\ post' = [post EXCEPT ![p].pc = "waiting"]
  BY InsertEffect DEF Typed
<1>2. PICK s \in Insertion : Queued(k, s) /\ s.by = p /\ s.state = "sent"
  BY InsertEffect DEF Typed
<1>3. UNCHANGED <<db, client, got, hist, faults>>
  BY DEF Insert
<1>4. /\ post'[p].pc = "waiting" /\ post'[p].next = post[p].next
      /\ \A q \in Posts \ {p} : post'[q] = post[q]
      /\ post' \in [Posts -> [next : Nat \ {0}, pc : {"idle", "waiting", "over"}]]
  BY <1>1 DEF Typed, TypeOK
<1>5. TypeOK'
  BY <1>2, <1>3, <1>4 DEF Typed, TypeOK, Queued, db, hist, Conns
<1>6. \A l \in Conns : \A j \in DOMAIN conn'[l] :
          \/ j \in DOMAIN conn[l] /\ conn'[l][j] = conn[l][j]
          \/ l = k /\ j = Len(conn[k]) + 1 /\ conn'[l][j] = s
  BY <1>2 DEF Queued
<1>7. \A l \in Conns : \A j \in DOMAIN conn[l] : IsInsert(l, j) => conn[l][j].by \in Posts \ {p}
  <2>1. \A l \in Conns : \A j \in DOMAIN conn[l] : IsInsert(l, j) => conn[l][j].by \in Posts
    BY AllStatements DEF Typed, IsInsert
  <2>. QED  BY <1>1, <2>1 DEF Typed, PostOK
<1>8. PostOK'
  BY <1>1, <1>2, <1>4, <1>6, <1>7 DEF Typed, PostOK, IsInsert
<1>9. PageOK'
  <2>1. s.kind # "page"
    BY DEF Insertion
  <2>. QED  BY <1>3, <1>6, <2>1 DEF Typed, PageOK
<1>10. QueueOK'
  BY <1>2, QueueQueued DEF Typed
<1>. QED  BY <1>5, <1>8, <1>9, <1>10 DEF Typed

LEMMA AskTyped ==
    ASSUME Typed, NEW c \in Clients, NEW k \in 1 .. pool, AskPage(c, k) \/ Watch(c, k)
    PROVE  Typed'
<1>1. PICK s \in Selection, pc \in {"paging", "following"} :
          /\ Queued(k, s) /\ s.by = c /\ s.state = "sent"
          /\ s.kind = IF pc = "paging" THEN "page" ELSE "watch"
          /\ client[c].pc = "idle"
          /\ pc = "paging" => (client[c].joined => client[c].cursor > 0)
          /\ client' = [client EXCEPT ![c].pc = pc, ![c].reads = @ + 1]
  BY AskEffect DEF Typed
<1>2. UNCHANGED <<db, post, got, hist, faults>>
  BY DEF AskPage, Watch
<1>3. Becomes(c, pc, client[c].joined, client[c].cursor, client[c].buffer, client[c].reads + 1)
  BY <1>1, AskFields DEF Typed
<1>4. TypeOK'
  BY <1>1, <1>2, <1>3 DEF Typed, TypeOK, Queued, Becomes, db, hist, Conns
<1>5. \A l \in Conns : \A j \in DOMAIN conn'[l] :
          \/ j \in DOMAIN conn[l] /\ conn'[l][j] = conn[l][j]
          \/ l = k /\ j = Len(conn[k]) + 1 /\ conn'[l][j] = s
  BY <1>1 DEF Queued
<1>6. PostOK'
  <2>1. s.kind # "insert"
    BY DEF Selection
  <2>. QED  BY <1>2, <1>5, <2>1 DEF Typed, PostOK, IsInsert
<1>7. PageOK'
  <2>1. \A l \in Conns : \A j \in DOMAIN conn[l] :
            conn[l][j].kind = "page" => conn[l][j].by \in Clients \ {c}
    <3>1. \A l \in Conns : \A j \in DOMAIN conn[l] :
              conn[l][j].kind = "page" => conn[l][j].by \in Clients
      BY AllStatements DEF Typed
    <3>. QED  BY <1>1, <3>1 DEF Typed, PageOK
  <2>2. \A d \in Clients : client'[d].pc = "paging" /\ client'[d].joined => client'[d].cursor > 0
    BY <1>1, <1>3 DEF Becomes, Typed, PageOK
  <2>. QED  BY <1>1, <1>3, <1>5, <2>1, <2>2 DEF Becomes, Typed, PageOK
<1>8. QueueOK'
  BY <1>1, QueueQueued DEF Typed
<1>. QED  BY <1>4, <1>6, <1>7, <1>8 DEF Typed

LEMMA OthersRemain ==
    ASSUME TypeOK, PostOK, NEW k, Answered(k), IsInsert(k, 1)
    PROVE  \A l \in Conns : \A j \in DOMAIN conn'[l] :
               conn'[l][j].kind = "insert" => conn'[l][j].by \in Posts \ {conn[k][1].by}
<1>1. PICK d : d = [l \in Conns |-> IF l = k THEN 1 ELSE 0]
  OBVIOUS
<1>2. Remain(d) /\ k \in Conns /\ 1 \in DOMAIN conn[k]
  BY <1>1, AnsweredRemain DEF Answered
<1>3. \A l \in Conns : \A j \in DOMAIN conn[l] :
          conn[l][j].kind = "insert" /\ conn[l][j].by = conn[k][1].by => l = k /\ j = 1
  BY <1>2 DEF PostOK, IsInsert
<1>4. ASSUME NEW l \in Conns, NEW j \in DOMAIN conn'[l], conn'[l][j].kind = "insert"
      PROVE  conn'[l][j].by \in Posts /\ conn'[l][j].by # conn[k][1].by
  <2>1. /\ j + d[l] \in DOMAIN conn[l] /\ conn[l][j + d[l]].kind = "insert"
        /\ conn[l][j + d[l]].by = conn'[l][j].by /\ j \in Nat
    BY <1>2, <1>4 DEF Remain
  <2>2. conn'[l][j].by \in Posts
    BY <2>1, AllStatements
  <2>3. ~(l = k /\ j + d[l] = 1)
    <3>1. j # 0
      <4>1. conn'[l] \in Seq(Statement)
        BY <1>4 DEF Answered
      <4>. QED  BY <1>4, <4>1
    <3>2. l = k => d[l] = 1
      BY <1>1
    <3>. QED  BY <2>1, <3>1, <3>2
  <2>. QED  BY <1>3, <2>1, <2>2, <2>3
<1>. QED  BY <1>4

LEMMA PagesRemain ==
    ASSUME TypeOK, PageOK, NEW k, Answered(k)
    PROVE  \A l \in Conns : \A j \in DOMAIN conn'[l] : conn'[l][j].kind = "page" =>
               /\ conn'[l][j].by \in Clients /\ client[conn'[l][j].by].pc = "paging"
               /\ conn[k][1].kind = "page" => conn'[l][j].by # conn[k][1].by
<1>1. PICK d : d = [l \in Conns |-> IF l = k THEN 1 ELSE 0]
  OBVIOUS
<1>2. Remain(d) /\ k \in Conns /\ 1 \in DOMAIN conn[k]
  BY <1>1, AnsweredRemain DEF Answered
<1>3. conn[k][1].kind = "page" => \A l \in Conns : \A j \in DOMAIN conn[l] :
          conn[l][j].kind = "page" /\ conn[l][j].by = conn[k][1].by => l = k /\ j = 1
  BY <1>2 DEF PageOK
<1>4. ASSUME NEW l \in Conns, NEW j \in DOMAIN conn'[l], conn'[l][j].kind = "page"
      PROVE  /\ conn'[l][j].by \in Clients /\ client[conn'[l][j].by].pc = "paging"
             /\ conn[k][1].kind = "page" => conn'[l][j].by # conn[k][1].by
  <2>1. /\ j + d[l] \in DOMAIN conn[l] /\ conn[l][j + d[l]].kind = "page"
        /\ conn[l][j + d[l]].by = conn'[l][j].by /\ j \in Nat
    BY <1>2, <1>4 DEF Remain
  <2>2. conn'[l][j].by \in Clients
    BY <2>1, AllStatements
  <2>3. ~(l = k /\ j + d[l] = 1)
    <3>1. j # 0
      <4>1. conn'[l] \in Seq(Statement)
        BY <1>4 DEF Answered
      <4>. QED  BY <1>4, <4>1
    <3>2. l = k => d[l] = 1
      BY <1>1
    <3>. QED  BY <2>1, <3>1, <3>2
  <2>4. client[conn'[l][j].by].pc = "paging"
    BY <2>1 DEF PageOK
  <2>. QED  BY <1>3, <2>1, <2>2, <2>3, <2>4
<1>. QED  BY <1>4

LEMMA InsertedTyped ==
    ASSUME Typed, NEW k \in 1 .. pool, Inserted(k)
    PROVE  Typed'
<1>1. PICK p \in Posts, item \in Row :
          /\ Answered(k) /\ IsInsert(k, 1) /\ p = conn[k][1].by
          /\ item.msg = <<p, post[p].next>>
          /\ post' = [post EXCEPT ![p] = [next |-> @.next + 1, pc |-> "idle"]]
          /\ client' = [c \in Clients |-> Notified(client[c], item)]
          /\ got' = [c \in Clients |-> Sent(c, item)]
          /\ heard' = Append(heard, item.msg) /\ announced' = Append(announced, item.msg)
  BY InsertedEffect DEF Typed
<1>2. UNCHANGED <<db, log, gone, unsaid, base, since, faults>>
  BY DEF Inserted
<1>3. /\ client' \in [Clients -> Client] /\ got' \in [Clients -> Seq(Messages)]
      /\ \A c \in Clients : /\ client'[c].pc = client[c].pc
                            /\ client'[c].joined = client[c].joined
                            /\ client'[c].cursor = IF client[c].pc = "live" THEN item.seq
                                                   ELSE client[c].cursor
  BY <1>1, NotifiedFields DEF Typed
<1>4. /\ post' \in [Posts -> [next : Nat \ {0}, pc : {"idle", "waiting", "over"}]]
      /\ \A q \in Posts \ {p} : post'[q] = post[q]
  <2>1. post \in [Posts -> [next : Nat \ {0}, pc : {"idle", "waiting", "over"}]]
    BY DEF Typed, TypeOK
  <2>2. post[p].next + 1 \in Nat \ {0}
    BY <2>1
  <2>. QED  BY <1>1, <2>1, <2>2
<1>5. heard' \in Seq(Messages) /\ announced' \in Seq(Messages)
  <2>1. item.msg \in Messages
    BY <1>1 DEF Row
  <2>2. heard \in Seq(Messages) /\ announced \in Seq(Messages)
    BY DEF Typed, TypeOK
  <2>. QED  BY <1>1, <2>1, <2>2
<1>6. TypeOK'
  BY <1>1, <1>2, <1>3, <1>4, <1>5 DEF Typed, TypeOK, Answered, db, Conns
<1>7. Remain([l \in Conns |-> IF l = k THEN 1 ELSE 0])
  BY <1>1, AnsweredRemain
<1>8. PostOK'
  <2>1. \A l \in Conns : \A j \in DOMAIN conn'[l] :
            conn'[l][j].kind = "insert" => conn'[l][j].by \in Posts \ {p}
    BY <1>1, OthersRemain DEF Typed
  <2>. QED  BY <1>4, <1>7, <2>1, PostRemain DEF Typed
<1>9. PageOK'
  <2>1. \A l \in Conns : \A j \in DOMAIN conn'[l] : conn'[l][j].kind = "page" =>
            client'[conn'[l][j].by].pc = client[conn'[l][j].by].pc
    <3>1. \A l \in Conns : \A j \in DOMAIN conn'[l] : conn'[l][j].kind = "page" =>
              conn'[l][j].by \in Clients
      BY <1>7, AllStatements DEF Remain, Typed
    <3>. QED  BY <1>3, <3>1
  <2>2. \A c \in Clients : client'[c].pc = "paging" =>
            /\ client[c].pc = "paging" /\ client'[c].joined = client[c].joined
            /\ client'[c].cursor = client[c].cursor
    BY <1>3
  <2>. QED  BY <1>7, <2>1, <2>2, PageRemain DEF Typed
<1>10. QueueOK'
  BY <1>1, QueueAnswered DEF Typed
<1>. QED  BY <1>6, <1>8, <1>9, <1>10 DEF Typed

LEMMA InsertFailedTyped ==
    ASSUME Typed, NEW k \in 1 .. pool, InsertFailed(k)
    PROVE  Typed'
<1>0. PICK p \in Posts, item \in Row :
          /\ Answered(k) /\ IsInsert(k, 1) /\ p = conn[k][1].by
          /\ conn[k][1].state \in {"lost", "failed"}
          /\ conn[k][1].state = "lost" =>
                 /\ post' = [post EXCEPT ![p] = [next |-> @.next + 1, pc |-> "over"]]
                 /\ heard' = Append(heard, item.msg)
          /\ conn[k][1].state = "failed" => post' = [post EXCEPT ![p].pc = "over"]
          /\ conn[k][1].state = "failed" => heard' = heard
  BY InsertFailedEffect DEF Typed
<1>1. /\ Answered(k) /\ IsInsert(k, 1) /\ p = conn[k][1].by
      /\ \/ post' = [post EXCEPT ![p] = [next |-> @.next + 1, pc |-> "over"]]
         \/ post' = [post EXCEPT ![p].pc = "over"]
      /\ heard' \in {heard, Append(heard, item.msg)}
  BY <1>0
<1>2. UNCHANGED <<db, client, got, log, gone, unsaid, announced, base, since, faults>>
  BY DEF InsertFailed
<1>3. /\ post' \in [Posts -> [next : Nat \ {0}, pc : {"idle", "waiting", "over"}]]
      /\ \A q \in Posts \ {p} : post'[q] = post[q]
  <2>1. post \in [Posts -> [next : Nat \ {0}, pc : {"idle", "waiting", "over"}]]
    BY DEF Typed, TypeOK
  <2>2. post[p].next + 1 \in Nat \ {0}
    BY <2>1
  <2>3. CASE post' = [post EXCEPT ![p] = [next |-> @.next + 1, pc |-> "over"]]
    BY <2>1, <2>2, <2>3
  <2>4. CASE post' = [post EXCEPT ![p].pc = "over"]
    BY <2>1, <2>4
  <2>. QED  BY <1>1, <2>3, <2>4
<1>3a. heard' \in Seq(Messages)
  <2>1. item.msg \in Messages
    BY <1>1 DEF Row
  <2>2. heard \in Seq(Messages)
    BY DEF Typed, TypeOK
  <2>. QED  BY <1>1, <2>1, <2>2
<1>4. TypeOK'
  BY <1>1, <1>2, <1>3, <1>3a DEF Typed, TypeOK, Answered, db, Conns
<1>5. Remain([l \in Conns |-> IF l = k THEN 1 ELSE 0])
  BY <1>1, AnsweredRemain
<1>6. PostOK'
  <2>1. \A l \in Conns : \A j \in DOMAIN conn'[l] :
            conn'[l][j].kind = "insert" => conn'[l][j].by \in Posts \ {p}
    BY <1>1, OthersRemain DEF Typed
  <2>. QED  BY <1>3, <1>5, <2>1, PostRemain DEF Typed
<1>7. PageOK'
  BY <1>2, <1>5, PageRemain DEF Typed
<1>8. QueueOK'
  BY <1>1, QueueAnswered DEF Typed
<1>. QED  BY <1>4, <1>6, <1>7, <1>8 DEF Typed

\* A client gets what it asked for.
LEMMA HandedTyped ==
    ASSUME Typed, NEW k \in 1 .. pool, Answered(k), ~IsInsert(k, 1),
           UNCHANGED <<db, post, hist, faults>>,
           NEW c \in Clients, c = conn[k][1].by,
           got' \in [Clients -> Seq(Messages)], client' \in [Clients -> Client],
           \A d \in Clients \ {c} : client'[d] = client[d],
           \/ client'[c] = client[c] /\ conn[k][1].kind # "page"
           \/ conn[k][1].kind = "page" /\ client'[c].pc # "paging"
           \/ client[c].pc # "paging" /\ client'[c].pc # "paging"
    PROVE  Typed'
<1>1. TypeOK'
  BY DEF Typed, TypeOK, Answered, db, hist, Conns
<1>2. Remain([l \in Conns |-> IF l = k THEN 1 ELSE 0])
  BY AnsweredRemain
<1>3. PostOK'
  BY <1>2, PostRemain DEF Typed
<1>4. PageOK'
  <2>1. ASSUME NEW l \in Conns, NEW j \in DOMAIN conn'[l], conn'[l][j].kind = "page"
        PROVE  client'[conn'[l][j].by].pc = client[conn'[l][j].by].pc
    <3>1. PICK d : d = conn'[l][j].by
      OBVIOUS
    <3>2. /\ d \in Clients /\ client[d].pc = "paging"
          /\ conn[k][1].kind = "page" => d # c
      BY <2>1, <3>1, PagesRemain DEF Typed
    <3>3. client'[d].pc = client[d].pc
      BY <3>2
    <3>. QED  BY <3>1, <3>3
  <2>2. \A d \in Clients : client'[d].pc = "paging" =>
            /\ client[d].pc = "paging" /\ client'[d].joined = client[d].joined
            /\ client'[d].cursor = client[d].cursor
    OBVIOUS
  <2>. QED  BY <1>2, <2>1, <2>2, PageRemain, Zenon DEF Typed
<1>5. QueueOK'
  BY QueueAnswered DEF Typed
<1>. QED  BY <1>1, <1>3, <1>4, <1>5 DEF Typed

LEMMA PagedTyped ==
    ASSUME Typed, NEW k \in 1 .. pool, Paged(k)
    PROVE  Typed'
<1>0. PICK c \in Clients, items \in Seq(Row) :
          /\ Answered(k) /\ conn[k][1].kind = "page" /\ c = conn[k][1].by
          /\ News(items, conn[k][1].found, client[c].cursor, <<>>)
          /\ got' = [got EXCEPT ![c] = @ \o Texts(items)]
          /\ client' = [client EXCEPT ![c].pc = "idle", ![c].cursor = LastSeq(items, @)]
  BY PagedEffect DEF Typed
<1>1. /\ Answered(k) /\ conn[k][1].kind = "page" /\ c = conn[k][1].by
      /\ items \in Seq(Row)
      /\ got' = [got EXCEPT ![c] = @ \o Texts(items)]
      /\ client' = [client EXCEPT ![c].pc = "idle", ![c].cursor = LastSeq(items, @)]
  BY <1>0, Zenon DEF News
<1>2. UNCHANGED <<db, post, hist, faults>>
  BY Zenon DEF Paged
<1>3. PICK n : n = LastSeq(items, client[c].cursor)
  OBVIOUS
<1>4. n \in Nat
  BY <1>1, <1>3, TextsType, Zenon DEF Typed, TypeOK, Client
<1>5. client' = [client EXCEPT ![c].pc = "idle", ![c].cursor = n]
  BY <1>1, <1>3, Zenon
<1>6. Becomes(c, "idle", client[c].joined, n, client[c].buffer, client[c].reads)
  BY <1>4, <1>5, PagedFields DEF Typed
<1>7. got' \in [Clients -> Seq(Messages)]
  BY <1>1, HandedGot, Zenon DEF Typed
<1>8. ~IsInsert(k, 1)
  BY <1>1 DEF IsInsert
<1>. QED  BY <1>1, <1>2, <1>6, <1>7, <1>8, HandedTyped, Zenon DEF Becomes

LEMMA ReplayedTyped ==
    ASSUME Typed, NEW k \in 1 .. pool, Replayed(k)
    PROVE  Typed'
<1>1. PICK c \in Clients :
          /\ Answered(k) /\ conn[k][1].kind = "watch" /\ IsDone(k, 1) /\ c = conn[k][1].by
          /\ conn[k][1].found \in Seq(Row)
          /\ \/ UNCHANGED <<got, client>>
             \/ /\ client[c].pc = "following"
                /\ \E items : /\ News(items, conn[k][1].found, client[c].cursor,
                                      client[c].buffer)
                              /\ Complete(items, conn[k][1].found, client[c].cursor)
                              /\ got' = [got EXCEPT ![c] = @ \o Texts(items)]
                              /\ client' = [client EXCEPT ![c].pc = "live",
                                                          ![c].buffer = <<>>,
                                                          ![c].cursor = LastSeq(items, @)]
  BY ReplayedEffect, Zenon DEF Typed
<1>2. UNCHANGED <<db, post, hist, faults>>
  BY Zenon DEF Replayed
<1>3. ~IsInsert(k, 1) /\ conn[k][1].kind # "page"
  BY <1>1, Zenon DEF IsInsert
<1>4. CASE UNCHANGED <<got, client>>
  <2>1. got' \in [Clients -> Seq(Messages)] /\ client' \in [Clients -> Client]
    BY <1>4 DEF Typed, TypeOK
  <2>. QED  BY <1>1, <1>2, <1>3, <1>4, <2>1, HandedTyped
<1>5. CASE ~UNCHANGED <<got, client>>
  <2>1. PICK items \in Seq(Row) :
            /\ got' = [got EXCEPT ![c] = @ \o Texts(items)]
            /\ client' = [client EXCEPT ![c].pc = "live", ![c].buffer = <<>>,
                                        ![c].cursor = LastSeq(items, @)]
    BY <1>1, <1>5, Zenon DEF News
  <2>2. PICK n : n = LastSeq(items, client[c].cursor)
    OBVIOUS
  <2>3. n \in Nat
    BY <2>2, TextsType DEF Typed, TypeOK, Client
  <2>4. client' = [client EXCEPT ![c].pc = "live", ![c].buffer = <<>>, ![c].cursor = n]
    BY <2>1, <2>2
  <2>5. Becomes(c, "live", client[c].joined, n, <<>>, client[c].reads)
    BY <2>3, <2>4, ReplayedFields, Zenon DEF Typed
  <2>6. got' \in [Clients -> Seq(Messages)]
    BY <2>1, HandedGot DEF Typed
  <2>7. client[c].pc = "following"
    BY <1>1, <1>5, Zenon
  <2>8. /\ client' \in [Clients -> Client] /\ client'[c].pc = "live"
        /\ \A d \in Clients \ {c} : client'[d] = client[d]
    BY <2>5 DEF Becomes
  <2>9. client[c].pc # "paging" /\ client'[c].pc # "paging" /\ Answered(k) /\ c = conn[k][1].by
    BY <1>1, <2>7, <2>8, Zenon
  <2>. QED  BY <1>2, <1>3, <2>6, <2>8, <2>9, HandedTyped
<1>. QED  BY <1>4, <1>5

LEMMA FailedTyped ==
    ASSUME Typed, NEW k \in 1 .. pool, PageFailed(k) \/ ReplayFailed(k)
    PROVE  Typed'
<1>1. PICK c \in Clients : c = conn[k][1].by
  BY FailedFields DEF Typed
<1>2. /\ Answered(k) /\ ~IsInsert(k, 1) /\ UNCHANGED <<db, post, got, hist, faults>>
      /\ got' \in [Clients -> Seq(Messages)]
  <2>1. Answered(k) /\ ~IsInsert(k, 1) /\ UNCHANGED <<db, post, got, hist, faults>>
    BY FailedFields DEF Typed
  <2>. QED  BY <2>1 DEF Typed, TypeOK
<1>3. CASE UNCHANGED client /\ conn[k][1].kind # "page"
  <2>1. client' \in [Clients -> Client]
    BY <1>3 DEF Typed, TypeOK
  <2>. QED  BY <1>1, <1>2, <1>3, <2>1, HandedTyped
<1>4. CASE ~(UNCHANGED client /\ conn[k][1].kind # "page")
  <2>1. PICK pc \in {"idle", "silent"}, buffer \in Seq(Row) :
            /\ Becomes(c, pc, client[c].joined, client[c].cursor, buffer, client[c].reads)
            /\ conn[k][1].kind = "page" \/ client[c].pc = "following"
    BY <1>1, <1>4, FailedFields DEF Typed
  <2>2. /\ client' \in [Clients -> Client] /\ client'[c].pc # "paging"
        /\ \A d \in Clients \ {c} : client'[d] = client[d]
    BY <2>1 DEF Becomes
  <2>3. conn[k][1].kind = "page" \/ client[c].pc # "paging"
    BY <2>1
  <2>. QED  BY <1>1, <1>2, <2>2, <2>3, HandedTyped
<1>. QED  BY <1>3, <1>4

LEMMA CloseTyped ==
    ASSUME Typed, NEW c \in Clients, Close(c)
    PROVE  Typed'
<1>1. /\ Becomes(c, "idle", client[c].joined, client[c].cursor, <<>>, client[c].reads)
      /\ client[c].pc \in {"following", "live", "silent"}
      /\ UNCHANGED <<db, conn, post, got, hist, faults>>
  BY CloseFields DEF Typed, Close
<1>2. TypeOK'
  BY <1>1 DEF Typed, TypeOK, Becomes, db, hist
<1>3. PostOK' /\ QueueOK'
  BY <1>1 DEF Typed, PostOK, QueueOK, IsInsert
<1>4. PageOK'
  <2>1. \A l \in Conns : \A j \in DOMAIN conn[l] :
            conn[l][j].kind = "page" => conn[l][j].by \in Clients
    BY AllStatements DEF Typed
  <2>. QED  BY <1>1, <2>1 DEF Typed, PageOK, Becomes
<1>. QED  BY <1>2, <1>3, <1>4 DEF Typed

LEMMA WatchNowTyped ==
    ASSUME Typed, NEW c \in Clients, WatchNow(c)
    PROVE  Typed'
<1>1. /\ Becomes(c, "live", TRUE, client[c].cursor, client[c].buffer, client[c].reads + 1)
      /\ client[c].pc = "idle" /\ base' = [base EXCEPT ![c] = Len(heard)]
      /\ since' = [since EXCEPT ![c] = Len(announced)]
      /\ UNCHANGED <<db, conn, post, got, log, gone, unsaid, heard, announced, faults>>
  BY WatchNowFields, Zenon DEF Typed, WatchNow
<1>2. base' \in [Clients -> Nat] /\ since' \in [Clients -> Nat]
  BY <1>1 DEF Typed, TypeOK
<1>3. TypeOK'
  BY <1>1, <1>2 DEF Typed, TypeOK, Becomes, db
<1>4. PostOK' /\ QueueOK'
  BY <1>1 DEF Typed, PostOK, QueueOK, IsInsert
<1>5. PageOK'
  <2>1. \A l \in Conns : \A j \in DOMAIN conn[l] :
            conn[l][j].kind = "page" => conn[l][j].by \in Clients
    BY AllStatements DEF Typed
  <2>. QED  BY <1>1, <2>1 DEF Typed, PageOK, Becomes
<1>. QED  BY <1>3, <1>4, <1>5 DEF Typed

LEMMA VanishTyped ==
    ASSUME Typed, NEW r \in rows, Vanish(r)
    PROVE  Typed'
<1>1. r \in Row /\ r.msg \in Messages
  BY DEF Typed, TypeOK, Row
<1>2. /\ faults' \in 0 .. MaxFaults[pool'] /\ rows' \in SUBSET Row
      /\ gone' \in SUBSET Messages
      /\ UNCHANGED <<pool, messagesSeq, conn, post, client, got, log, unsaid, heard,
                     announced, base, since>>
  <2>1. faults' \in 0 .. MaxFaults[pool']
    BY FaultType DEF Vanish, Typed
  <2>. QED  BY <1>1, <2>1 DEF Vanish, Typed, TypeOK
<1>3. TypeOK'
  BY <1>2 DEF Typed, TypeOK
<1>. QED  BY <1>2, <1>3 DEF Typed, PostOK, PageOK, QueueOK, IsInsert

LEMMA TypedInit == Init => Typed
<1>1. SUFFICES ASSUME Init PROVE Typed
  OBVIOUS
<1>2. TypeOK
  BY <1>1, Constants DEF Init, TypeOK, Client
<1>3. \A k \in Conns : DOMAIN conn[k] = {}
  BY <1>1 DEF Init, Conns
<1>4. PostOK /\ QueueOK
  BY <1>3 DEF PostOK, QueueOK
<1>5. PageOK
  BY <1>1, <1>3 DEF PageOK, Init
<1>. QED  BY <1>2, <1>4, <1>5 DEF Typed

LEMMA TypedStep == Typed /\ [Next]_vars => Typed'
<1>1. SUFFICES ASSUME Typed, [Next]_vars PROVE Typed'
  OBVIOUS
<1>2. CASE Next
  <2>1. ASSUME NEW k \in 1 .. pool, NEW i \in DOMAIN conn[k],
               \/ InsertBegins(k, i) \/ InsertCommits(k, i) \/ InsertFails(k, i)
               \/ AnswerLost(k, i) \/ SelectRuns(k, i) \/ SelectFails(k, i)
        PROVE  Typed'
    BY <1>1, <2>1, DatabaseTyped
  <2>2. ASSUME NEW k \in 1 .. pool, Answer(k) PROVE Typed'
    BY <1>1, <2>2, InsertedTyped, InsertFailedTyped, PagedTyped, ReplayedTyped, FailedTyped
       DEF Answer
  <2>. QED  BY <1>1, <1>2, <2>1, <2>2, InsertTyped, AskTyped, CloseTyped, WatchNowTyped,
               VanishTyped DEF Next, Database
<1>3. CASE UNCHANGED vars
  BY <1>1, <1>3 DEF vars, Typed, TypeOK, PostOK, PageOK, QueueOK, IsInsert
<1>. QED  BY <1>1, <1>2, <1>3

\* The broker and its table keep to their types, whatever the requests, the clients, the
\* pool and the bounds (postgres-message-stream.ts, sse.ts, broker-item.ts).
THEOREM TypeCorrect == Spec => []TypeOK
<1>1. Typed => TypeOK
  BY DEF Typed
<1>. QED  BY <1>1, TypedInit, TypedStep, PTL DEF Spec

-------------------------------------------------------------------------------
(* What is held of rows is in the log, which has each message once.        *)

Recorded == LogOK /\ HeldOK /\ HandledOK

IsOld(s) == \E l \in Conns : \E j \in DOMAIN conn[l] : conn[l][j] = s

LEMMA LogType ==
    ASSUME TypeOK
    PROVE  /\ Len(log) \in Nat /\ DOMAIN log = 1 .. Len(log)
           /\ Heard \in Nat /\ DOMAIN heard = 1 .. Heard
           /\ \A n \in DOMAIN log :
                  /\ log[n] \in Row /\ log[n].seq \in Nat /\ log[n].msg \in Messages
                  /\ log[n].msg[1] \in Posts /\ log[n].msg[2] \in Nat
           /\ \A i \in DOMAIN heard :
                  /\ heard[i] \in Messages
                  /\ heard[i][1] \in Posts /\ heard[i][2] \in Nat
<1>1. /\ Len(log) \in Nat /\ DOMAIN log = 1 .. Len(log)
      /\ \A n \in DOMAIN log : log[n] \in Row
  BY DEF TypeOK
<1>2. /\ Heard \in Nat /\ DOMAIN heard = 1 .. Heard
      /\ \A i \in DOMAIN heard : heard[i] \in Messages
  BY DEF TypeOK, Heard
<1>3. \A n \in DOMAIN log : log[n].seq \in Nat /\ log[n].msg \in Messages
  BY <1>1 DEF Row
<1>. QED  BY <1>1, <1>2, <1>3, MessageParts

\* Nothing is stored or heard, and what is done was done before, or was found in the
\* table.
LEMMA RecordedFrame ==
    ASSUME TypeOK, Recorded, log' = log, heard' = heard, rows' \subseteq rows,
           \A p \in Posts : post'[p].next = post[p].next,
           \A l \in Conns : \A j \in DOMAIN conn'[l] : conn'[l][j].state \in {"done", "lost"} =>
               \/ IsOld(conn'[l][j])
               \/ /\ conn'[l][j].kind # "insert"
                  /\ \A h \in DOMAIN conn'[l][j].found : InLog(conn'[l][j].found[h]),
           \A l \in Conns : \A j \in DOMAIN conn[l] : IsInsert(l, j) /\ IsDone(l, j) =>
               \E m \in Conns : \E h \in DOMAIN conn'[m] : conn'[m][h] = conn[l][j],
           \A c \in Clients : \A j \in DOMAIN client'[c].buffer : InLog(client'[c].buffer[j])
    PROVE  Recorded'
<1>2. LogOK'
  <2>1. ASSUME NEW n \in DOMAIN log
        PROVE  /\ log[n].msg[2] <= post'[log[n].msg[1]].next
               /\ log[n].msg[2] = post'[log[n].msg[1]].next =>
                     \E k \in Conns : \E i \in DOMAIN conn'[k] :
                         /\ conn'[k][i].kind = "insert" /\ conn'[k][i].state \in {"done", "lost"}
                         /\ conn'[k][i].by = log[n].msg[1]
    <3>1. log[n].msg[1] \in Posts
      BY LogType
    <3>2. post'[log[n].msg[1]].next = post[log[n].msg[1]].next
      BY <3>1
    <3>. QED  BY <3>2 DEF Recorded, LogOK, IsInsert, IsDone
  <2>2. \A n, o \in DOMAIN log : log[n].msg = log[o].msg => n = o
    BY DEF Recorded, LogOK
  <2>. QED  BY <2>1, <2>2 DEF LogOK, IsInsert, IsDone
<1>3. HeldOK'
  <2>1. \A r \in rows' : InLog(r)
    BY DEF Recorded, HeldOK
  <2>2. ASSUME NEW l \in Conns, NEW j \in DOMAIN conn'[l], conn'[l][j].state \in {"done", "lost"},
               NEW s, s = conn'[l][j]
        PROVE  /\ s.kind = "insert" =>
                      InLog([seq |-> s.seq, msg |-> <<s.by, post'[s.by].next>>])
               /\ s.kind \in {"page", "watch"} => \A h \in DOMAIN s.found : InLog(s.found[h])
    <3>1. CASE IsOld(s)
      <4>1. PICK m \in Conns : \E h \in DOMAIN conn[m] : conn[m][h] = s
        BY <3>1 DEF IsOld
      <4>2. PICK h \in DOMAIN conn[m] : conn[m][h] = s
        BY <4>1
      <4>3. /\ IsInsert(m, h) => InLog(Stored(s))
            /\ IsSelect(m, h) => \A x \in DOMAIN s.found : InLog(s.found[x])
        BY <2>2, <4>2 DEF Recorded, HeldOK, IsDone
      <4>4. s.kind = "insert" => post'[s.by].next = post[s.by].next
        <5>1. s.kind = "insert" => s.by \in Posts
          BY <4>2, AllStatements
        <5>. QED  BY <5>1
      <4>. QED  BY <4>2, <4>3, <4>4 DEF IsInsert, IsSelect, Stored
    <3>2. CASE ~IsOld(s)
      BY <2>2, <3>2
    <3>. QED  BY <3>1, <3>2
  <2>3. \A c \in Clients : \A j \in DOMAIN client'[c].buffer : InLog(client'[c].buffer[j])
    OBVIOUS
  <2>. QED  BY <2>1, <2>2, <2>3 DEF HeldOK, IsInsert, IsSelect, IsDone, InLog, Stored
<1>4. HandledOK'
  <2>1. ASSUME NEW i \in DOMAIN heard
        PROVE  /\ heard[i][2] < post'[heard[i][1]].next
               /\ \E n \in DOMAIN log : log[n].msg = heard[i]
    <3>1. post'[heard[i][1]].next = post[heard[i][1]].next
      BY LogType
    <3>. QED  BY <3>1 DEF Recorded, HandledOK
  <2>2. \A i, j \in DOMAIN heard : heard[i] = heard[j] => i = j
    BY DEF Recorded, HandledOK
  <2>. QED  BY <2>1, <2>2 DEF HandledOK
<1>. QED  BY <1>2, <1>3, <1>4 DEF Recorded

\* A client's buffer is of rows in the log if it is a part of one that was.
LEMMA BuffersKept ==
    ASSUME Recorded,
           \A c \in Clients : client'[c].buffer = client[c].buffer \/ client'[c].buffer = <<>>
    PROVE  \A c \in Clients : \A j \in DOMAIN client'[c].buffer : InLog(client'[c].buffer[j])
BY DEF Recorded, HeldOK

LEMMA TurnedRecorded ==
    ASSUME Typed, Recorded, NEW k \in 1 .. pool, NEW i, NEW s, Turned(k, i, s), Current(k, i),
           UNCHANGED <<rows, post, client, log, heard>>,
           s.state \in {"done", "lost"} =>
               /\ s.kind # "insert"
               /\ \A h \in DOMAIN s.found : s.found[h] \in rows
    PROVE  Recorded'
<1>1. \A l \in Conns : \A j \in DOMAIN conn'[l] : conn'[l][j].state \in {"done", "lost"} =>
          \/ IsOld(conn'[l][j])
          \/ /\ conn'[l][j].kind # "insert"
             /\ \A h \in DOMAIN conn'[l][j].found : InLog(conn'[l][j].found[h])
  <2>1. \A r \in rows : InLog(r)
    BY DEF Recorded, HeldOK
  <2>. QED  BY <2>1 DEF Turned, IsOld
<1>2. \A l \in Conns : \A j \in DOMAIN conn[l] : IsInsert(l, j) /\ IsDone(l, j) =>
          \E m \in Conns : \E h \in DOMAIN conn'[m] : conn'[m][h] = conn[l][j]
  BY DEF Turned, Current, IsInsert, IsDone
<1>3. \A c \in Clients : \A j \in DOMAIN client'[c].buffer : InLog(client'[c].buffer[j])
  BY BuffersKept
<1>. QED  BY <1>1, <1>2, <1>3, RecordedFrame DEF Typed

LEMMA QueuedRecorded ==
    ASSUME Typed, Recorded, NEW k \in 1 .. pool, NEW s, Queued(k, s), s.state = "sent",
           UNCHANGED <<rows, log, heard>>,
           \A p \in Posts : post'[p].next = post[p].next,
           \A c \in Clients : client'[c].buffer = client[c].buffer
    PROVE  Recorded'
<1>1. \A l \in Conns : \A j \in DOMAIN conn'[l] : conn'[l][j].state \in {"done", "lost"} =>
          IsOld(conn'[l][j])
  BY DEF Queued, IsOld
<1>2. \A l \in Conns : \A j \in DOMAIN conn[l] : IsInsert(l, j) /\ IsDone(l, j) =>
          \E m \in Conns : \E h \in DOMAIN conn'[m] : conn'[m][h] = conn[l][j]
  BY DEF Queued
<1>3. \A c \in Clients : \A j \in DOMAIN client'[c].buffer : InLog(client'[c].buffer[j])
  BY BuffersKept
<1>. QED  BY <1>1, <1>2, <1>3, RecordedFrame DEF Typed

LEMMA StillThere ==
    ASSUME TypeOK, NEW k, Answered(k), NEW l \in Conns, NEW j \in DOMAIN conn[l],
           ~(l = k /\ j = 1)
    PROVE  \E h \in DOMAIN conn'[l] : conn'[l][h] = conn[l][j]
<1>1. CASE l # k
  BY <1>1 DEF Answered
<1>2. CASE l = k
  <2>1. conn[k] \in Seq(Statement) /\ j \in 1 .. Len(conn[k]) /\ Len(conn[k]) \in Nat
    BY <1>2, AllStatements
  <2>2. j > 1 /\ (j - 1) + 1 = j
    BY <1>2, <2>1
  <2>3. j - 1 \in DOMAIN conn'[k]
    BY <1>2, <2>2 DEF Answered
  <2>4. conn'[k][j - 1] = conn[k][(j - 1) + 1]
    BY <2>3 DEF Answered
  <2>. QED  BY <1>2, <2>2, <2>3, <2>4
<1>. QED  BY <1>1, <1>2

LEMMA AnsweredOld ==
    ASSUME NEW k, Answered(k)
    PROVE  \A l \in Conns : \A j \in DOMAIN conn'[l] : IsOld(conn'[l][j])
BY DEF Answered, IsOld

LEMMA AnsweredRecorded ==
    ASSUME Typed, Recorded, NEW k, Answered(k), ~(IsInsert(k, 1) /\ IsDone(k, 1)),
           UNCHANGED <<rows, log, heard>>,
           \A p \in Posts : post'[p].next = post[p].next,
           \A c \in Clients : client'[c].buffer = client[c].buffer \/ client'[c].buffer = <<>>
    PROVE  Recorded'
<1>1. \A l \in Conns : \A j \in DOMAIN conn'[l] : IsOld(conn'[l][j])
  BY AnsweredOld
<1>2. \A l \in Conns : \A j \in DOMAIN conn[l] : IsInsert(l, j) /\ IsDone(l, j) =>
          \E m \in Conns : \E h \in DOMAIN conn'[m] : conn'[m][h] = conn[l][j]
  BY StillThere DEF Typed
<1>3. \A c \in Clients : \A j \in DOMAIN client'[c].buffer : InLog(client'[c].buffer[j])
  BY BuffersKept
<1>. QED  BY <1>1, <1>2, <1>3, RecordedFrame DEF Typed

LEMMA ClientRecorded ==
    ASSUME Typed, Recorded, UNCHANGED <<conn, post, log, heard>>, rows' \subseteq rows,
           \A c \in Clients : client'[c].buffer = client[c].buffer \/ client'[c].buffer = <<>>
    PROVE  Recorded'
<1>1. \A l \in Conns : \A j \in DOMAIN conn'[l] : IsOld(conn'[l][j])
  BY DEF IsOld
<1>2. \A l \in Conns : \A j \in DOMAIN conn[l] : IsInsert(l, j) /\ IsDone(l, j) =>
          \E m \in Conns : \E h \in DOMAIN conn'[m] : conn'[m][h] = conn[l][j]
  OBVIOUS
<1>3. \A c \in Clients : \A j \in DOMAIN client'[c].buffer : InLog(client'[c].buffer[j])
  BY BuffersKept
<1>. QED  BY <1>1, <1>2, <1>3, RecordedFrame DEF Typed

InLogThen(r) == \E n \in DOMAIN log' : log'[n] = r

LEMMA CommitsRecorded ==
    ASSUME Typed, Recorded, NEW k \in 1 .. pool, NEW i \in DOMAIN conn[k],
           InsertCommits(k, i)
    PROVE  Recorded'
<1>0. PICK t \in Insertion, r \in Row :
          /\ Turned(k, i, t) /\ IsInsert(k, i) /\ conn[k][i].state = "begun"
          /\ t.by = conn[k][i].by /\ t.state = "done" /\ t.seq = conn[k][i].seq
          /\ r.seq = conn[k][i].seq
          /\ r.msg = <<conn[k][i].by, post[conn[k][i].by].next>> /\ conn[k][i].by \in Posts
          /\ rows' = rows \cup {r} /\ log' = Append(log, r)
  BY CommitsEffect DEF Typed
<1>1. PICK p \in Posts :
          /\ Turned(k, i, t) /\ IsInsert(k, i) /\ conn[k][i].state = "begun"
          /\ t.by = p /\ t.state = "done" /\ t.seq = r.seq
          /\ conn[k][i].by = p
          /\ r.msg = <<p, post[p].next>>
          /\ rows' = rows \cup {r} /\ log' = Append(log, r)
  BY <1>0
<1>2. UNCHANGED <<post, client, heard>>
  BY DEF InsertCommits
<1>. PICK n : n = Len(log)
  OBVIOUS
<1>3. /\ n \in Nat /\ DOMAIN log = 1 .. n /\ DOMAIN log' = 1 .. n + 1
      /\ \A o \in 1 .. n : log'[o] = log[o]
      /\ log'[n + 1] = r
      /\ \A o \in 1 .. n + 1 : o \in 1 .. n \/ o = n + 1
  BY <1>1, LogType DEF Typed, TypeOK
<1>4. \A q : InLog(q) => InLogThen(q)
  BY <1>3 DEF InLog, InLogThen
<1>5. InLogThen(r)
  <2>1. n + 1 \in DOMAIN log'
    BY <1>3
  <2>. QED  BY <1>3, <2>1 DEF InLogThen
<1>6. \A l \in Conns : \A j \in DOMAIN conn[l] : IsDone(l, j) =>
          /\ ~(l = k /\ j = i)
          /\ j \in DOMAIN conn'[l] /\ conn'[l][j] = conn[l][j]
  BY <1>1 DEF Turned, IsDone
<1>7. i \in DOMAIN conn'[k] /\ conn'[k][i] = t /\ k \in Conns /\ t.kind = "insert"
  BY <1>1 DEF Turned, Insertion
<1>8. r.msg[1] = p /\ r.msg[2] = post[p].next /\ post[p].next \in Nat
  BY <1>1 DEF Typed, TypeOK
<1>9. \A o \in DOMAIN log : log[o].msg # r.msg
  <2>1. SUFFICES ASSUME NEW o \in DOMAIN log, log[o].msg = r.msg PROVE FALSE
    OBVIOUS
  <2>2. \E l \in Conns : \E j \in DOMAIN conn[l] :
            IsInsert(l, j) /\ IsDone(l, j) /\ conn[l][j].by = p
    BY <1>8, <2>1 DEF Recorded, LogOK
  <2>3. \A l \in Conns : \A j \in DOMAIN conn[l] :
            IsInsert(l, j) /\ conn[l][j].by = p => l = k /\ j = i
    BY <1>1, <1>7 DEF Typed, PostOK
  <2>. QED  BY <1>6, <2>2, <2>3
<1>10. LogOK'
  <2>1. ASSUME NEW o \in 1 .. n + 1
        PROVE  LET m == log'[o].msg
               IN /\ m[2] <= post[m[1]].next
                  /\ m[2] = post[m[1]].next =>
                         \E l \in Conns : \E j \in DOMAIN conn'[l] :
                             /\ conn'[l][j].kind = "insert"
                             /\ conn'[l][j].state \in {"done", "lost"}
                             /\ conn'[l][j].by = m[1]
    <3>1. CASE o = n + 1
      BY <1>1, <1>3, <1>7, <1>8, <3>1
    <3>2. CASE o \in 1 .. n
      <4>1. PICK m : m = log[o].msg
        OBVIOUS
      <4>2. m[2] <= post[m[1]].next
        BY <1>3, <3>2, <4>1 DEF Recorded, LogOK
      <4>3. ASSUME m[2] = post[m[1]].next
            PROVE  \E l \in Conns : \E j \in DOMAIN conn'[l] :
                             /\ conn'[l][j].kind = "insert"
                             /\ conn'[l][j].state \in {"done", "lost"}
                             /\ conn'[l][j].by = m[1]
        <5>1. \E l \in Conns : \E j \in DOMAIN conn[l] :
                  IsInsert(l, j) /\ IsDone(l, j) /\ conn[l][j].by = m[1]
          BY <1>3, <3>2, <4>1, <4>3 DEF Recorded, LogOK
        <5>. QED  BY <1>6, <5>1 DEF IsInsert, IsDone
      <4>4. log'[o].msg = m
        BY <1>3, <3>2, <4>1
      <4>. QED  BY <4>2, <4>3, <4>4
    <3>. QED  BY <1>3, <3>1, <3>2
  <2>2. \A a, b \in 1 .. n + 1 : log'[a].msg = log'[b].msg => a = b
    <3>1. \A a, b \in 1 .. n : log[a].msg = log[b].msg => a = b
      BY <1>3 DEF Recorded, LogOK
    <3>. QED  BY <1>3, <1>9, <3>1
  <2>. QED  BY <1>2, <1>3, <2>1, <2>2 DEF LogOK, IsInsert, IsDone
<1>11. HeldOK'
  <2>1. \A q \in rows' : InLogThen(q)
    BY <1>1, <1>4, <1>5 DEF Recorded, HeldOK
  <2>2. ASSUME NEW l \in Conns, NEW j \in DOMAIN conn'[l], conn'[l][j].state \in {"done", "lost"},
               NEW s, s = conn'[l][j]
        PROVE  /\ s.kind = "insert" =>
                      InLogThen([seq |-> s.seq, msg |-> <<s.by, post[s.by].next>>])
               /\ s.kind \in {"page", "watch"} =>
                      \A h \in DOMAIN s.found : InLogThen(s.found[h])
    <3>1. CASE l = k /\ j = i
      <4>1. s = t /\ [seq |-> t.seq, msg |-> <<t.by, post[t.by].next>>] = r
        BY <1>1, <1>7, <2>2, <3>1 DEF Row
      <4>. QED  BY <1>5, <1>7, <4>1
    <3>2. CASE ~(l = k /\ j = i)
      <4>1. j \in DOMAIN conn[l] /\ conn[l][j] = s
        BY <1>1, <2>2, <3>2 DEF Turned
      <4>2. /\ s.kind = "insert" => InLog([seq |-> s.seq, msg |-> <<s.by, post[s.by].next>>])
            /\ s.kind \in {"page", "watch"} => \A x \in DOMAIN s.found : InLog(s.found[x])
        BY <2>2, <4>1 DEF Recorded, HeldOK, IsDone, IsInsert, IsSelect, Stored
      <4>. QED  BY <1>4, <4>2
    <3>. QED  BY <3>1, <3>2
  <2>3. \A c \in Clients : \A j \in DOMAIN client[c].buffer : InLogThen(client[c].buffer[j])
    BY <1>4 DEF Recorded, HeldOK
  <2>4. post' = post /\ client' = client
    BY <1>2
  <2>5. ASSUME NEW l \in Conns, NEW j \in DOMAIN conn'[l], IsDone(l, j)'
        PROVE  /\ IsInsert(l, j)' => InLog(Stored(conn[l][j]))'
               /\ IsSelect(l, j)' => \A x \in DOMAIN conn'[l][j].found : InLog(conn[l][j].found[x])'
    <3>1. PICK s : s = conn'[l][j] /\ s.state \in {"done", "lost"}
      BY <2>5 DEF IsDone
    <3>2. s.kind = "insert" =>
              InLogThen([seq |-> s.seq, msg |-> <<s.by, post'[s.by].next>>])
      BY <2>2, <2>4, <3>1
    <3>3. s.kind \in {"page", "watch"} => \A x \in DOMAIN s.found : InLogThen(s.found[x])
      BY <2>2, <3>1
    <3>. QED  BY <3>1, <3>2, <3>3 DEF IsInsert, IsSelect, InLog, InLogThen, Stored
  <2>. QED  BY <2>1, <2>3, <2>4, <2>5 DEF HeldOK, InLog, InLogThen
<1>12. HandledOK'
  BY <1>2, <1>3 DEF Recorded, HandledOK
<1>. QED  BY <1>10, <1>11, <1>12 DEF Recorded

\* append resumes, or its error leaves it, after item was stored.
Handled(k, p, item) ==
    /\ Answered(k) /\ IsInsert(k, 1) /\ IsDone(k, 1)
    /\ p \in Posts /\ p = conn[k][1].by
    /\ item \in Row /\ item = Stored(conn[k][1])
    /\ item.seq = conn[k][1].seq /\ item.msg = <<p, post[p].next>>
    /\ post[p].next \in Nat /\ post'[p].next = post[p].next + 1
    /\ \A q \in Posts \ {p} : post'[q] = post[q]
    /\ heard' = Append(heard, item.msg)
    /\ UNCHANGED <<db, log, gone, unsaid, base>>
    /\ \A c \in Clients :
           \/ client'[c].buffer = client[c].buffer
           \/ client'[c].buffer = Append(client[c].buffer, item)

LEMMA NextPost ==
    ASSUME TypeOK, NEW p \in Posts, NEW pc,
           post' = [post EXCEPT ![p] = [next |-> @.next + 1, pc |-> pc]]
    PROVE  /\ post[p].next \in Nat /\ post'[p].next = post[p].next + 1
           /\ \A q \in Posts \ {p} : post'[q] = post[q]
<1>1. post[p].next \in Nat /\ DOMAIN post = Posts
  BY DEF TypeOK
<1>2. PICK m : m = post[p].next /\ post' = [post EXCEPT ![p] = [next |-> m + 1, pc |-> pc]]
  OBVIOUS
<1>. QED  BY <1>1, <1>2

LEMMA InsertedHandled ==
    ASSUME Typed, NEW k \in 1 .. pool, Inserted(k)
    PROVE  \E p \in Posts, item \in Row :
               /\ Handled(k, p, item)
               /\ client' = [c \in Clients |-> Notified(client[c], item)]
               /\ got' = [c \in Clients |-> Sent(c, item)]
<1>1. PICK p \in Posts, item \in Row :
          /\ Answered(k) /\ IsInsert(k, 1) /\ IsDone(k, 1)
          /\ p = conn[k][1].by /\ item = Stored(conn[k][1])
          /\ item.seq = conn[k][1].seq /\ item.msg = <<p, post[p].next>>
          /\ post' = [post EXCEPT ![p] = [next |-> @.next + 1, pc |-> "idle"]]
          /\ client' = [c \in Clients |-> Notified(client[c], item)]
          /\ got' = [c \in Clients |-> Sent(c, item)]
          /\ heard' = Append(heard, item.msg)
  BY InsertedEffect DEF Typed
<1>2. UNCHANGED <<db, log, gone, unsaid, base>>
  BY DEF Inserted
<1>3. /\ post[p].next \in Nat /\ post'[p].next = post[p].next + 1
      /\ \A q \in Posts \ {p} : post'[q] = post[q]
  BY <1>1, NextPost DEF Typed
<1>4. \A c \in Clients : \/ client'[c].buffer = client[c].buffer
                        \/ client'[c].buffer = Append(client[c].buffer, item)
  BY <1>1, NotifiedFields, Zenon DEF Typed
<1>. QED  BY <1>1, <1>2, <1>3, <1>4 DEF Handled

LEMMA LostHandled ==
    ASSUME Typed, NEW k \in 1 .. pool, InsertFailed(k), conn[k][1].state = "lost"
    PROVE  UNCHANGED <<client, got>> /\ \E p \in Posts, item \in Row : Handled(k, p, item)
<1>1. PICK p \in Posts, item \in Row :
          /\ Answered(k) /\ IsInsert(k, 1)
          /\ p = conn[k][1].by /\ item = Stored(conn[k][1])
          /\ item.seq = conn[k][1].seq /\ item.msg = <<p, post[p].next>>
          /\ post' = [post EXCEPT ![p] = [next |-> @.next + 1, pc |-> "over"]]
          /\ heard' = Append(heard, item.msg)
  BY InsertFailedEffect DEF Typed
<1>2. UNCHANGED <<db, log, gone, unsaid, base>> /\ UNCHANGED <<client, got>>
  BY DEF InsertFailed
<1>3. /\ post[p].next \in Nat /\ post'[p].next = post[p].next + 1
      /\ \A q \in Posts \ {p} : post'[q] = post[q]
  BY <1>1, NextPost DEF Typed
<1>4. IsDone(k, 1)
  BY DEF IsDone
<1>. QED  BY <1>1, <1>2, <1>3, <1>4 DEF Handled

LEMMA HandledRecorded ==
    ASSUME Typed, Recorded, NEW k \in 1 .. pool, NEW p \in Posts, NEW item \in Row,
           Handled(k, p, item)
    PROVE  Recorded'
<1>1. /\ Answered(k) /\ IsInsert(k, 1) /\ IsDone(k, 1)
      /\ p = conn[k][1].by /\ item = Stored(conn[k][1])
      /\ item.msg = <<p, post[p].next>> /\ heard' = Append(heard, item.msg)
  BY DEF Handled
<1>2. UNCHANGED <<rows, log>>
  BY DEF Handled, db
<1>3. /\ post[p].next \in Nat /\ post'[p].next = post[p].next + 1
      /\ \A q \in Posts \ {p} : post'[q] = post[q]
      /\ \A q \in Posts : post'[q].next \in Nat /\ post[q].next <= post'[q].next
  <2>1. \A q \in Posts : post[q].next \in Nat
    BY DEF Typed, TypeOK
  <2>2. /\ post[p].next \in Nat /\ post'[p].next = post[p].next + 1
        /\ \A q \in Posts \ {p} : post'[q] = post[q]
    BY DEF Handled
  <2>. QED  BY <2>1, <2>2
<1>4. k \in Conns /\ 1 \in DOMAIN conn[k]
  BY <1>1 DEF Answered
<1>5. InLog(item)
  BY <1>1, <1>4 DEF Recorded, HeldOK
<1>6. \A l \in Conns : \A j \in DOMAIN conn'[l] :
          /\ IsOld(conn'[l][j])
          /\ conn'[l][j].kind = "insert" => conn'[l][j].by \in Posts \ {p}
  BY <1>1, AnsweredOld, OthersRemain, Zenon DEF Typed
<1>7. LogOK'
  <2>1. ASSUME NEW n \in DOMAIN log, NEW m, m = log[n].msg
        PROVE  /\ m[2] <= post'[m[1]].next
               /\ m[2] = post'[m[1]].next =>
                      \E l \in Conns : \E j \in DOMAIN conn'[l] :
                          /\ conn'[l][j].kind = "insert" /\ conn'[l][j].state \in {"done", "lost"}
                          /\ conn'[l][j].by = m[1]
    <3>1. m[1] \in Posts /\ m[2] \in Nat /\ m[2] <= post[m[1]].next
      BY <2>1, LogType DEF Typed, Recorded, LogOK
    <3>2. CASE m[1] = p
      BY <1>3, <3>1, <3>2
    <3>3. CASE m[1] # p
      <4>1. post'[m[1]] = post[m[1]]
        BY <1>3, <3>1, <3>3
      <4>2. ASSUME m[2] = post[m[1]].next
            PROVE  \E l \in Conns : \E j \in DOMAIN conn'[l] :
                          /\ conn'[l][j].kind = "insert" /\ conn'[l][j].state \in {"done", "lost"}
                          /\ conn'[l][j].by = m[1]
        <5>1. PICK l \in Conns : \E j \in DOMAIN conn[l] :
                  IsInsert(l, j) /\ IsDone(l, j) /\ conn[l][j].by = m[1]
          BY <2>1, <4>2 DEF Recorded, LogOK
        <5>2. PICK j \in DOMAIN conn[l] :
                  IsInsert(l, j) /\ IsDone(l, j) /\ conn[l][j].by = m[1]
          BY <5>1
        <5>3. \E h \in DOMAIN conn'[l] : conn'[l][h] = conn[l][j]
          BY <1>1, <3>3, <5>2, StillThere DEF Typed
        <5>. QED  BY <5>2, <5>3 DEF IsInsert, IsDone
      <4>. QED  BY <3>1, <4>1, <4>2
    <3>. QED  BY <3>2, <3>3
  <2>2. \A a, b \in DOMAIN log : log[a].msg = log[b].msg => a = b
    BY DEF Recorded, LogOK
  <2>. QED  BY <1>2, <2>1, <2>2 DEF LogOK, IsInsert, IsDone
<1>8. HeldOK'
  <2>1. \A r \in rows' : InLog(r)
    BY <1>2 DEF Recorded, HeldOK
  <2>2. ASSUME NEW l \in Conns, NEW j \in DOMAIN conn'[l], conn'[l][j].state \in {"done", "lost"},
               NEW s, s = conn'[l][j]
        PROVE  /\ s.kind = "insert" =>
                      InLog([seq |-> s.seq, msg |-> <<s.by, post'[s.by].next>>])
               /\ s.kind \in {"page", "watch"} => \A h \in DOMAIN s.found : InLog(s.found[h])
    <3>1. PICK m \in Conns : \E h \in DOMAIN conn[m] : conn[m][h] = s
      BY <1>6, <2>2 DEF IsOld
    <3>2. PICK h \in DOMAIN conn[m] : conn[m][h] = s
      BY <3>1
    <3>3. /\ IsInsert(m, h) => InLog(Stored(s))
          /\ IsSelect(m, h) => \A x \in DOMAIN s.found : InLog(s.found[x])
      BY <2>2, <3>2 DEF Recorded, HeldOK, IsDone
    <3>4. s.kind = "insert" => post'[s.by].next = post[s.by].next
      BY <1>3, <1>6, <2>2
    <3>. QED  BY <3>2, <3>3, <3>4 DEF IsInsert, IsSelect, Stored
  <2>3. ASSUME NEW c \in Clients, NEW j \in DOMAIN client'[c].buffer
        PROVE  InLog(client'[c].buffer[j])
    <3>. PICK b : b = client[c].buffer
      OBVIOUS
    <3>1. b \in Seq(Row) /\ \A h \in DOMAIN b : InLog(b[h])
      <4>1. client[c] \in Client
        BY DEF Typed, TypeOK
      <4>2. b \in Seq(Row)
        BY <4>1 DEF Client
      <4>. QED  BY <4>2 DEF Recorded, HeldOK
    <3>2. client'[c].buffer = b \/ client'[c].buffer = Append(b, item)
      BY Zenon DEF Handled
    <3>3. \A h \in DOMAIN Append(b, item) : InLog(Append(b, item)[h])
      <4>1. \A h \in DOMAIN Append(b, item) : h \in DOMAIN b \/ h = Len(b) + 1
        BY <3>1
      <4>2. Append(b, item)[Len(b) + 1] = item
            /\ \A h \in DOMAIN b : Append(b, item)[h] = b[h]
        BY <3>1
      <4>. QED  BY <1>5, <3>1, <4>1, <4>2
    <3>. QED  BY <2>3, <3>1, <3>2, <3>3
  <2>. QED  BY <1>2, <2>1, <2>2, <2>3
            DEF HeldOK, IsInsert, IsSelect, IsDone, InLog, Stored
<1>9. HandledOK'
  <2>. PICK n : n = Len(heard)
    OBVIOUS
  <2>1. /\ n \in Nat /\ DOMAIN heard = 1 .. n /\ DOMAIN heard' = 1 .. n + 1
        /\ \A o \in 1 .. n : heard'[o] = heard[o]
        /\ heard'[n + 1] = item.msg
        /\ \A o \in 1 .. n + 1 : o \in 1 .. n \/ o = n + 1
    <3>1. item.msg \in Messages
      BY DEF Row
    <3>. QED  BY <1>1, <3>1 DEF Typed, TypeOK
  <2>2. item.msg[1] = p /\ item.msg[2] = post[p].next
    BY <1>1
  <2>3. ASSUME NEW i \in 1 .. n
        PROVE  /\ heard[i][2] < post'[heard[i][1]].next
               /\ heard[i] # item.msg
               /\ \E o \in DOMAIN log : log[o].msg = heard[i]
    <3>1. /\ heard[i][2] < post[heard[i][1]].next
          /\ \E o \in DOMAIN log : log[o].msg = heard[i]
      BY <2>1 DEF Recorded, HandledOK
    <3>2. heard[i][1] \in Posts /\ heard[i][2] \in Nat
      BY <2>1, LogType DEF Typed
    <3>3. post[heard[i][1]].next <= post'[heard[i][1]].next
          /\ post[heard[i][1]].next \in Nat /\ post'[heard[i][1]].next \in Nat
      BY <1>3, <3>2 DEF Typed, TypeOK
    <3>4. heard[i] # item.msg
      BY <2>2, <3>1, <3>2, <1>3
    <3>. QED  BY <3>1, <3>2, <3>3, <3>4
  <2>4. item.msg[2] < post'[item.msg[1]].next /\ \E o \in DOMAIN log : log[o].msg = item.msg
    BY <1>3, <1>5, <2>2 DEF InLog
  <2>5. \A i, j \in 1 .. n : heard[i] = heard[j] => i = j
    BY <2>1 DEF Recorded, HandledOK
  <2>. QED  BY <1>2, <2>1, <2>3, <2>4, <2>5 DEF HandledOK
<1>. QED  BY <1>7, <1>8, <1>9 DEF Recorded

\* That an answer is lost changes nothing of what was carried out.
LEMMA LostKeeps ==
    ASSUME Typed, NEW k \in 1 .. pool, NEW i \in DOMAIN conn[k], AnswerLost(k, i)
    PROVE  /\ UNCHANGED <<pool, rows, messagesSeq, post, client, got, log, gone, heard,
                          announced, base, since>>
           /\ unsaid \subseteq unsaid'
           /\ \A l \in Conns : DOMAIN conn'[l] = DOMAIN conn[l]
           /\ \A l \in Conns : \A j \in DOMAIN conn[l] :
                  /\ conn'[l][j].kind = conn[l][j].kind /\ conn'[l][j].by = conn[l][j].by
                  /\ IsInsert(l, j) => conn'[l][j].seq = conn[l][j].seq
                  /\ ~IsInsert(l, j) => conn'[l][j] = conn[l][j]
                  /\ conn'[l][j].state \in {"done", "lost"} <=> IsDone(l, j)
                  /\ conn'[l][j].state = "begun" <=> conn[l][j].state = "begun"
<1>1. PICK t \in Insertion, r \in Row :
          /\ Turned(k, i, t) /\ IsInsert(k, i) /\ conn[k][i].state = "done"
          /\ t.by = conn[k][i].by /\ t.state = "lost" /\ t.seq = conn[k][i].seq
          /\ unsaid' = unsaid \cup {r.msg}
  BY LostEffect DEF Typed
<1>2. t.kind = "insert"
  BY DEF Insertion
<1>3. UNCHANGED <<pool, rows, messagesSeq, post, client, got, log, gone, heard,
                  announced, base, since>>
  BY DEF AnswerLost, db
<1>. QED  BY <1>1, <1>2, <1>3 DEF Turned, IsInsert, IsDone

LEMMA LostRecorded ==
    ASSUME Typed, Recorded, NEW k \in 1 .. pool, NEW i \in DOMAIN conn[k], AnswerLost(k, i)
    PROVE  Recorded'
<1>1. UNCHANGED <<rows, post, client, log, heard>>
  BY LostKeeps
<1>2. \A l \in Conns :
          /\ DOMAIN conn'[l] = DOMAIN conn[l]
          /\ \A j \in DOMAIN conn[l] :
                 /\ conn'[l][j].kind = conn[l][j].kind /\ conn'[l][j].by = conn[l][j].by
                 /\ IsInsert(l, j) => conn'[l][j].seq = conn[l][j].seq
                 /\ ~IsInsert(l, j) => conn'[l][j] = conn[l][j]
                 /\ conn'[l][j].state \in {"done", "lost"} <=> IsDone(l, j)
  BY LostKeeps
<1>3. LogOK'
  <2>1. \A m : (\E l \in Conns : \E j \in DOMAIN conn[l] :
                    IsInsert(l, j) /\ IsDone(l, j) /\ conn[l][j].by = m)
            => (\E l \in Conns : \E j \in DOMAIN conn'[l] :
                    /\ conn'[l][j].kind = "insert" /\ conn'[l][j].by = m
                    /\ conn'[l][j].state \in {"done", "lost"})
    BY <1>2 DEF IsInsert
  <2>. QED  BY <1>1, <2>1 DEF Recorded, LogOK, IsInsert, IsDone
<1>4. HeldOK'
  <2>1. ASSUME NEW l \in Conns, NEW j \in DOMAIN conn'[l],
               conn'[l][j].state \in {"done", "lost"}
        PROVE  /\ conn'[l][j].kind = "insert" =>
                      InLog([seq |-> conn'[l][j].seq,
                             msg |-> <<conn'[l][j].by, post[conn'[l][j].by].next>>])
               /\ conn'[l][j].kind \in {"page", "watch"} =>
                      \A h \in DOMAIN conn'[l][j].found : InLog(conn'[l][j].found[h])
    <3>1. j \in DOMAIN conn[l] /\ IsDone(l, j)
      BY <1>2, <2>1
    <3>2. /\ IsInsert(l, j) => InLog(Stored(conn[l][j]))
          /\ IsSelect(l, j) => \A h \in DOMAIN conn[l][j].found : InLog(conn[l][j].found[h])
      BY <3>1 DEF Recorded, HeldOK
    <3>. QED  BY <1>2, <3>1, <3>2 DEF IsInsert, IsSelect, Stored
  <2>2. /\ \A r \in rows : InLog(r)
        /\ \A c \in Clients : \A j \in DOMAIN client[c].buffer : InLog(client[c].buffer[j])
    BY DEF Recorded, HeldOK
  <2>. QED  BY <1>1, <2>1, <2>2 DEF HeldOK, IsInsert, IsSelect, IsDone, InLog, Stored
<1>5. HandledOK'
  BY <1>1 DEF Recorded, HandledOK
<1>. QED  BY <1>3, <1>4, <1>5 DEF Recorded

LEMMA InitRecorded == Init => Recorded
<1>1. SUFFICES ASSUME Init PROVE Recorded
  OBVIOUS
<1>2. \A k \in Conns : DOMAIN conn[k] = {}
  BY <1>1 DEF Init, Conns
<1>3. DOMAIN log = {} /\ DOMAIN heard = {} /\ rows = {}
      /\ \A c \in Clients : DOMAIN client[c].buffer = {}
  BY <1>1 DEF Init
<1>. QED  BY <1>2, <1>3 DEF Recorded, LogOK, HeldOK, HandledOK

LEMMA DatabaseRecorded ==
    ASSUME Typed, Recorded, NEW k \in 1 .. pool, NEW i \in DOMAIN conn[k],
           \/ InsertBegins(k, i) \/ InsertCommits(k, i) \/ InsertFails(k, i)
           \/ AnswerLost(k, i) \/ SelectRuns(k, i) \/ SelectFails(k, i)
    PROVE  Recorded'
<1>1. Current(k, i) \/ AnswerLost(k, i)
  BY Zenon DEF InsertBegins, InsertCommits, InsertFails, SelectRuns, SelectFails, Statements
<1>2. CASE InsertBegins(k, i)
  <2>1. UNCHANGED <<rows, post, client, log, heard>>
    BY <1>2 DEF InsertBegins, hist
  <2>2. \E t \in Insertion : Turned(k, i, t) /\ t.state = "begun"
    BY <1>2, BeginsEffect DEF Typed
  <2>. QED  BY <1>1, <2>1, <2>2, LostRecorded, TurnedRecorded
<1>3. CASE InsertFails(k, i)
  <2>1. UNCHANGED <<rows, post, client, log, heard>>
    BY <1>3 DEF InsertFails, hist, db
  <2>2. \E t \in Insertion : Turned(k, i, t) /\ t.state = "failed"
    BY <1>3, FailsEffect DEF Typed
  <2>. QED  BY <1>1, <2>1, <2>2, LostRecorded, TurnedRecorded
<1>4. CASE SelectRuns(k, i)
  <2>1. UNCHANGED <<rows, post, client, log, heard>>
    BY <1>4, Zenon DEF SelectRuns, hist, db
  <2>2. \E t \in Selection :
            Turned(k, i, t) /\ \A j \in DOMAIN t.found : t.found[j] \in rows
    BY <1>4, SelectEffect DEF Typed
  <2>3. \A t \in Selection : t.kind # "insert"
    BY DEF Selection
  <2>. QED  BY <1>1, <2>1, <2>2, <2>3, LostRecorded, TurnedRecorded
<1>5. CASE SelectFails(k, i)
  <2>1. UNCHANGED <<rows, post, client, log, heard>>
    BY <1>5, Zenon DEF SelectFails, hist, db
  <2>2. \E t \in Selection : Turned(k, i, t) /\ t.state = "failed"
    BY <1>5, SelectFailsEffect DEF Typed
  <2>. QED  BY <1>1, <2>1, <2>2, LostRecorded, TurnedRecorded
<1>. QED  BY <1>2, <1>3, <1>4, <1>5, CommitsRecorded, LostRecorded

LEMMA SendRecorded ==
    ASSUME Typed, Recorded, NEW k \in 1 .. pool,
           \/ \E p \in Posts : Insert(p, k)
           \/ \E c \in Clients : AskPage(c, k) \/ Watch(c, k)
    PROVE  Recorded'
<1>1. CASE \E p \in Posts : Insert(p, k)
  <2>. PICK p \in Posts : Insert(p, k)
    BY <1>1
  <2>1. UNCHANGED <<rows, log, heard, client>>
    BY DEF Insert, db, hist
  <2>2. \A q \in Posts : post'[q].next = post[q].next
    <3>1. post' = [post EXCEPT ![p].pc = "waiting"]
      BY InsertEffect DEF Typed
    <3>. QED  BY <3>1 DEF Typed, TypeOK
  <2>3. \E s : Queued(k, s) /\ s.state = "sent"
    BY InsertEffect DEF Typed
  <2>. QED  BY <2>1, <2>2, <2>3, QueuedRecorded
<1>2. CASE \E c \in Clients : AskPage(c, k) \/ Watch(c, k)
  <2>. PICK c \in Clients : AskPage(c, k) \/ Watch(c, k)
    BY <1>2
  <2>1. UNCHANGED <<rows, log, heard, post>>
    BY DEF AskPage, Watch, db, hist
  <2>2. PICK s \in Selection, pc \in {"paging", "following"} :
            /\ Queued(k, s) /\ s.state = "sent"
            /\ client' = [client EXCEPT ![c].pc = pc, ![c].reads = @ + 1]
    BY AskEffect DEF Typed
  <2>3. \A d \in Clients : client'[d].buffer = client[d].buffer
    BY <2>2, AskFields DEF Typed, Becomes
  <2>. QED  BY <2>1, <2>2, <2>3, QueuedRecorded
<1>. QED  BY <1>1, <1>2

LEMMA AnswerRecorded ==
    ASSUME Typed, Recorded, NEW k \in 1 .. pool, Answer(k)
    PROVE  Recorded'
<1>1. CASE Inserted(k)
  BY <1>1, InsertedHandled, HandledRecorded
<1>2. CASE InsertFailed(k)
  <2>0. PICK p \in Posts :
            /\ Answered(k) /\ conn[k][1].state \in {"lost", "failed"}
            /\ conn[k][1].state = "failed" => post' = [post EXCEPT ![p].pc = "over"]
            /\ conn[k][1].state = "failed" => heard' = heard
    BY <1>2, InsertFailedEffect DEF Typed
  <2>1. CASE conn[k][1].state = "lost"
    BY <1>2, <2>1, LostHandled, HandledRecorded
  <2>2. CASE conn[k][1].state = "failed"
    <3>0. post' = [post EXCEPT ![p].pc = "over"]
      BY <2>0, <2>2
    <3>1. \A q \in Posts : post'[q].next = post[q].next
      BY <3>0 DEF Typed, TypeOK
    <3>2. UNCHANGED <<rows, log, heard, client>>
      BY <1>2, <2>0, <2>2 DEF InsertFailed, db
    <3>. QED  BY <2>0, <2>2, <3>1, <3>2, AnsweredRecorded DEF IsDone
  <2>. QED  BY <2>0, <2>1, <2>2
<1>3. CASE Paged(k)
  <2>1. PICK c \in Clients, items \in Seq(Row) :
            /\ Answered(k) /\ conn[k][1].kind = "page"
            /\ client' = [client EXCEPT ![c].pc = "idle", ![c].cursor = LastSeq(items, @)]
    BY <1>3, PagedEffect DEF Typed
  <2>2. UNCHANGED <<rows, log, heard, post>>
    BY <1>3, Zenon DEF Paged, db, hist
  <2>3. \A d \in Clients : client'[d].buffer = client[d].buffer
    BY <2>1 DEF Typed, TypeOK, Client
  <2>. QED  BY <2>1, <2>2, <2>3, AnsweredRecorded DEF IsInsert
<1>4. CASE Replayed(k)
  <2>1. PICK c \in Clients :
            /\ Answered(k) /\ conn[k][1].kind = "watch"
            /\ \/ UNCHANGED client
               \/ \E n : client' = [client EXCEPT ![c].pc = "live", ![c].buffer = <<>>,
                                                ![c].cursor = n]
    BY <1>4, ReplayedEffect, Zenon DEF Typed
  <2>2. UNCHANGED <<rows, log, heard, post>>
    BY <1>4, Zenon DEF Replayed, db, hist
  <2>3. \A d \in Clients : client'[d].buffer = client[d].buffer \/ client'[d].buffer = <<>>
    <3>1. CASE UNCHANGED client
      BY <3>1
    <3>2. CASE ~UNCHANGED client
      <4>1. PICK n : client' = [client EXCEPT ![c].pc = "live", ![c].buffer = <<>>,
                                              ![c].cursor = n]
        BY <2>1, <3>2
      <4>2. client \in [Clients -> Client] /\ \A d \in Clients : client[d] \in Client
        BY DEF Typed, TypeOK
      <4>3. \A d \in Clients \ {c} : client'[d] = client[d]
        BY <4>1, <4>2
      <4>4. client'[c].buffer = <<>>
        BY <4>1, <4>2 DEF Client
      <4>. QED  BY <4>3, <4>4
    <3>. QED  BY <3>1, <3>2
  <2>. QED  BY <2>1, <2>2, <2>3, AnsweredRecorded DEF IsInsert
<1>5. CASE PageFailed(k) \/ ReplayFailed(k)
  <2>1. Answered(k) /\ ~IsInsert(k, 1) /\ UNCHANGED <<rows, log, heard, post>>
    BY <1>5, FailedFields, Zenon DEF Typed, db, hist
  <2>2. \A d \in Clients : client'[d].buffer = client[d].buffer \/ client'[d].buffer = <<>>
    BY <1>5, FailedFields DEF Typed, Becomes
  <2>. QED  BY <2>1, <2>2, AnsweredRecorded
<1>. QED  BY <1>1, <1>2, <1>3, <1>4, <1>5 DEF Answer

LEMMA RecordedStep ==
    ASSUME Typed, Recorded, [Next]_vars
    PROVE  Recorded'
<1>1. ASSUME NEW k \in 1 .. pool, NEW i \in DOMAIN conn[k],
             \/ InsertBegins(k, i) \/ InsertCommits(k, i) \/ InsertFails(k, i)
             \/ AnswerLost(k, i) \/ SelectRuns(k, i) \/ SelectFails(k, i)
      PROVE  Recorded'
  BY <1>1, DatabaseRecorded
<1>2. ASSUME NEW c \in Clients, WatchNow(c) \/ Close(c)
      PROVE  Recorded'
  <2>1. UNCHANGED <<conn, post, log, heard, rows>>
    BY <1>2 DEF WatchNow, Close, db, hist
  <2>2. \A d \in Clients : client'[d].buffer = client[d].buffer \/ client'[d].buffer = <<>>
    <3>1. CASE WatchNow(c)
      <4>1. Becomes(c, "live", TRUE, client[c].cursor, client[c].buffer, client[c].reads + 1)
        BY <3>1, WatchNowFields DEF Typed
      <4>. QED  BY <4>1 DEF Becomes
    <3>2. CASE Close(c)
      <4>1. Becomes(c, "idle", client[c].joined, client[c].cursor, <<>>, client[c].reads)
        BY <3>2, CloseFields DEF Typed
      <4>. QED  BY <4>1 DEF Becomes
    <3>. QED  BY <1>2, <3>1, <3>2
  <2>. QED  BY <2>1, <2>2, ClientRecorded
<1>3. ASSUME NEW r \in rows, Vanish(r) PROVE Recorded'
  BY <1>3, ClientRecorded DEF Vanish
<1>4. CASE UNCHANGED vars
  BY <1>4, ClientRecorded DEF vars
<1>. QED  BY <1>1, <1>2, <1>3, <1>4, SendRecorded, AnswerRecorded DEF Next, Database

-------------------------------------------------------------------------------
(* One connection: the list of messages and the answers on their way.      *)

Listed == ListOK /\ AnswersOK /\ FoundOK /\ RowsOK

\* No INSERT is carried out or answered but failing ones; the first d statements go.
Shift(d) ==
    /\ d \in {0, 1}
    /\ \A j \in DOMAIN conn'[1] :
           conn'[1][j].kind = "insert" /\ conn'[1][j].state \in {"done", "lost"} =>
           j + d \in DOMAIN conn[1] /\ conn'[1][j] = conn[1][j + d]
    /\ \A j \in DOMAIN conn[1] : IsInsert(1, j) /\ IsDone(1, j) =>
           j - d \in DOMAIN conn'[1] /\ conn'[1][j - d] = conn[1][j]
\* and nothing is stored or heard.
Quiet == /\ log' = log /\ heard' = heard
         /\ \A p \in Posts : post'[p].next = post[p].next

LEMMA ListConn ==
    ASSUME TypeOK
    PROVE  /\ 1 \in Conns /\ conn[1] \in Seq(Statement)
           /\ \A i \in DOMAIN conn[1] : i \in Nat /\ i > 0
           /\ \A i \in DOMAIN conn[1] : IsInsert(1, i) => conn[1][i].by \in Posts
<1>1. 1 \in Conns
  BY SizesAssumption DEF Conns
<1>2. conn[1] \in Seq(Statement)
  BY <1>1, AllStatements
<1>3. \A i \in DOMAIN conn[1] : i \in Nat /\ i > 0
  BY <1>2
<1>4. \A i \in DOMAIN conn[1] : IsInsert(1, i) => conn[1][i].by \in Posts
  BY <1>1, AllStatements DEF IsInsert
<1>. QED  BY <1>1, <1>2, <1>3, <1>4

LEMMA AnswersShift ==
    ASSUME TypeOK, TypeOK', NEW d, Shift(d), Quiet
    PROVE  /\ \A i \in DOMAIN conn'[1], n \in DOMAIN log : Answers(i, n)' =>
                  i + d \in DOMAIN conn[1] /\ Answers(i + d, n)
           /\ \A i \in DOMAIN conn[1], n \in DOMAIN log : Answers(i, n) =>
                  i - d \in DOMAIN conn'[1] /\ Answers(i - d, n)'
<1>1. ASSUME NEW i \in DOMAIN conn'[1], NEW n \in DOMAIN log, Answers(i, n)'
      PROVE  i + d \in DOMAIN conn[1] /\ Answers(i + d, n)
  <2>1. conn'[1][i].kind = "insert" /\ conn'[1][i].state \in {"done", "lost"}
    BY <1>1 DEF Answers, IsInsert, IsDone
  <2>2. i + d \in DOMAIN conn[1] /\ conn'[1][i] = conn[1][i + d]
    BY <2>1 DEF Shift
  <2>3. conn[1][i + d].by \in Posts
    BY <2>1, <2>2, ListConn DEF IsInsert
  <2>. QED  BY <1>1, <2>2, <2>3 DEF Answers, IsInsert, IsDone, Stored, Quiet
<1>2. ASSUME NEW i \in DOMAIN conn[1], NEW n \in DOMAIN log, Answers(i, n)
      PROVE  i - d \in DOMAIN conn'[1] /\ Answers(i - d, n)'
  <2>1. i - d \in DOMAIN conn'[1] /\ conn'[1][i - d] = conn[1][i]
    BY <1>2 DEF Shift, Answers
  <2>2. conn[1][i].by \in Posts
    BY <1>2, ListConn DEF Answers
  <2>. QED  BY <1>2, <2>1, <2>2 DEF Answers, IsInsert, IsDone, Stored, Quiet
<1>. QED  BY <1>1, <1>2

LEMMA AnswersFrame ==
    ASSUME TypeOK, TypeOK', AnswersOK, NEW d, Shift(d), Quiet
    PROVE  AnswersOK'
<1>1. Heard' = Heard /\ log' = log
  BY DEF Heard, Quiet
<1>2. \A n \in DOMAIN log : n > Heard => \E i \in DOMAIN conn'[1] : Answers(i, n)'
  BY AnswersShift DEF AnswersOK
<1>3. ASSUME NEW i \in DOMAIN conn'[1],
             conn'[1][i].kind = "insert", conn'[1][i].state \in {"done", "lost"}
      PROVE  \E n \in DOMAIN log : n > Heard /\ Answers(i, n)'
  <2>1. i + d \in DOMAIN conn[1] /\ conn'[1][i] = conn[1][i + d]
    BY <1>3 DEF Shift
  <2>2. PICK n \in DOMAIN log : n > Heard /\ Answers(i + d, n)
    BY <1>3, <2>1 DEF AnswersOK, IsInsert, IsDone
  <2>3. i \in Nat /\ d \in Nat /\ (i + d) - d = i
    <3>1. i \in Nat
      <4>1. 1 \in Conns
        BY ListConn
      <4>2. conn'[1] \in Seq(Statement)
        BY <4>1 DEF TypeOK, Conns
      <4>. QED  BY <4>2
    <3>. QED  BY <3>1 DEF Shift
  <2>4. PICK j : j = i + d
    OBVIOUS
  <2>5. j \in DOMAIN conn[1] /\ Answers(j, n) /\ j - d = i
    BY <2>1, <2>2, <2>3, <2>4
  <2>6. Answers(j - d, n)'
    BY <2>5, AnswersShift
  <2>. QED  BY <2>2, <2>5, <2>6
<1>4. ASSUME NEW i \in DOMAIN conn'[1], NEW j \in DOMAIN conn'[1], i < j,
             conn'[1][i].kind = "insert", conn'[1][i].state \in {"done", "lost"},
             conn'[1][j].kind = "insert", conn'[1][j].state \in {"done", "lost"}
      PROVE  conn'[1][i].seq < conn'[1][j].seq
  <2>1. /\ i + d \in DOMAIN conn[1] /\ conn'[1][i] = conn[1][i + d]
        /\ j + d \in DOMAIN conn[1] /\ conn'[1][j] = conn[1][j + d]
    BY <1>4 DEF Shift
  <2>2. i + d < j + d
    <3>1. 1 \in Conns
      BY ListConn
    <3>2. conn'[1] \in Seq(Statement)
      BY <3>1 DEF TypeOK, Conns
    <3>3. i \in Nat /\ j \in Nat /\ d \in Nat
      BY <3>2 DEF Shift
    <3>. QED  BY <1>4, <3>3
  <2>. QED  BY <1>4, <2>1, <2>2 DEF AnswersOK, IsInsert, IsDone
<1>. QED  BY <1>1, <1>2, <1>3, <1>4 DEF AnswersOK, IsInsert, IsDone

LEMMA BeforeShift ==
    ASSUME TypeOK, TypeOK', NEW d, Shift(d), Quiet, NEW n \in DOMAIN log, NEW i \in DOMAIN conn'[1]
    PROVE  Before(n, i)' <=> Before(n, i + d)
<1>1. Heard' = Heard
  BY DEF Heard, Quiet
<1>2. \A j \in DOMAIN conn'[1] : j \in Nat
  <2>1. 1 \in Conns
    BY ListConn
  <2>2. conn'[1] \in Seq(Statement)
    BY <2>1 DEF TypeOK, Conns
  <2>. QED  BY <2>2
<1>3. d \in Nat /\ \A j \in DOMAIN conn[1] : j \in Nat
  BY ListConn DEF Shift
<1>4. ASSUME NEW j \in DOMAIN conn'[1], j < i, Answers(j, n)'
      PROVE  \E h \in DOMAIN conn[1] : h < i + d /\ Answers(h, n)
  <2>1. j + d \in DOMAIN conn[1] /\ Answers(j + d, n)
    BY <1>4, AnswersShift
  <2>. QED  BY <1>2, <1>3, <1>4, <2>1
<1>5. ASSUME NEW j \in DOMAIN conn[1], j < i + d, Answers(j, n)
      PROVE  \E h \in DOMAIN conn'[1] : h < i /\ Answers(h, n)'
  <2>1. j - d \in DOMAIN conn'[1] /\ Answers(j - d, n)'
    BY <1>5, AnswersShift
  <2>2. j - d < i
    BY <1>2, <1>3, <1>5
  <2>. QED  BY <2>1, <2>2
<1>. QED  BY <1>1, <1>4, <1>5 DEF Before

LEMMA FoundFrame ==
    ASSUME TypeOK, TypeOK', FoundOK, NEW d, Shift(d), Quiet, gone \subseteq gone',
           \A i \in DOMAIN conn'[1] :
               conn'[1][i].kind \in {"page", "watch"} /\ conn'[1][i].state \in {"done", "lost"} =>
               \/ i + d \in DOMAIN conn[1] /\ conn'[1][i] = conn[1][i + d]
               \/ /\ Rise(conn'[1][i].found)
                  /\ \A j \in DOMAIN conn'[1][i].found :
                         \E n \in DOMAIN log : log[n] = conn'[1][i].found[j] /\ Before(n, i + d)
                  /\ \A n \in DOMAIN log :
                         \/ log[n].msg \in gone
                         \/ \E j \in DOMAIN conn'[1][i].found : conn'[1][i].found[j] = log[n]
    PROVE  FoundOK'
<1>1. ASSUME NEW i \in DOMAIN conn'[1],
             conn'[1][i].kind \in {"page", "watch"}, conn'[1][i].state \in {"done", "lost"}
      PROVE  /\ Rise(conn'[1][i].found)
             /\ \A j \in DOMAIN conn'[1][i].found :
                    \E n \in DOMAIN log : log[n] = conn'[1][i].found[j] /\ Before(n, i)'
             /\ \A n \in DOMAIN log : Before(n, i)' =>
                    \/ log[n].msg \in gone'
                    \/ \E j \in DOMAIN conn'[1][i].found : conn'[1][i].found[j] = log[n]
  <2>1. PICK found : found = conn'[1][i].found
    OBVIOUS
  <2>2. /\ Rise(found)
        /\ \A j \in DOMAIN found : \E n \in DOMAIN log : log[n] = found[j] /\ Before(n, i)'
        /\ \A n \in DOMAIN log : Before(n, i)' =>
               \/ log[n].msg \in gone'
               \/ \E j \in DOMAIN found : found[j] = log[n]
    <3>1. CASE i + d \in DOMAIN conn[1] /\ conn'[1][i] = conn[1][i + d]
      <4>1. /\ Rise(found)
            /\ \A j \in DOMAIN found : \E n \in DOMAIN log : log[n] = found[j] /\ Before(n, i + d)
            /\ \A n \in DOMAIN log : Before(n, i + d) =>
                   log[n].msg \in gone \/ \E j \in DOMAIN found : found[j] = log[n]
        BY <1>1, <2>1, <3>1 DEF FoundOK, IsSelect, IsDone
      <4>. QED  BY <4>1, BeforeShift
    <3>2. CASE ~(i + d \in DOMAIN conn[1] /\ conn'[1][i] = conn[1][i + d])
      <4>1. /\ Rise(found)
            /\ \A j \in DOMAIN found : \E n \in DOMAIN log : log[n] = found[j] /\ Before(n, i + d)
            /\ \A n \in DOMAIN log :
                   log[n].msg \in gone \/ \E j \in DOMAIN found : found[j] = log[n]
        BY <1>1, <2>1, <3>2
      <4>. QED  BY <4>1, BeforeShift
    <3>. QED  BY <3>1, <3>2
  <2>. QED  BY <2>1, <2>2
<1>2. log' = log
  BY DEF Quiet
<1>. QED  BY <1>1, <1>2 DEF FoundOK, IsSelect, IsDone, Rise

LEMMA ListFrame ==
    ASSUME TypeOK, TypeOK', ListOK, Quiet, messagesSeq <= messagesSeq',
           \A i \in DOMAIN conn'[1] :
               conn'[1][i].kind = "insert" /\ conn'[1][i].state = "begun" =>
               \/ \E j \in DOMAIN conn[1] : conn'[1][i] = conn[1][j]
               \/ conn'[1][i].seq = messagesSeq + 1 /\ messagesSeq' = messagesSeq + 1
    PROVE  ListOK'
<1>1. messagesSeq \in Nat /\ messagesSeq' \in Nat
  BY DEF TypeOK
<1>2. \A n \in DOMAIN log : log[n].seq \in Nat
  BY LogType
<1>3. Rise(log') /\ \A n \in DOMAIN log : 0 < log[n].seq /\ log[n].seq <= messagesSeq'
  BY <1>1, <1>2 DEF ListOK, Quiet
<1>4. ASSUME NEW i \in DOMAIN conn'[1],
             conn'[1][i].kind = "insert", conn'[1][i].state = "begun", NEW s, s = conn'[1][i].seq
      PROVE  /\ 0 < s /\ s <= messagesSeq'
             /\ \A n \in DOMAIN log : log[n].seq < s
  <2>1. CASE \E j \in DOMAIN conn[1] : conn'[1][i] = conn[1][j]
    <3>1. PICK j \in DOMAIN conn[1] : conn'[1][i] = conn[1][j]
      BY <2>1
    <3>2. /\ 0 < s /\ s <= messagesSeq /\ \A n \in DOMAIN log : log[n].seq < s
      BY <1>4, <3>1 DEF ListOK, IsInsert
    <3>3. s \in Nat
      <4>1. conn[1][j] \in Statement /\ conn[1][j].kind = "insert"
        BY <1>4, <3>1, ListConn, AllStatements
      <4>2. conn[1][j] \in Insertion
        BY <4>1, StatementKinds
      <4>. QED  BY <1>4, <3>1, <4>2 DEF Insertion
    <3>. QED  BY <1>1, <3>2, <3>3
  <2>2. CASE s = messagesSeq + 1 /\ messagesSeq' = messagesSeq + 1
    BY <1>1, <1>2, <2>2 DEF ListOK
  <2>. QED  BY <1>4, <2>1, <2>2
<1>5. \A i \in DOMAIN heard' : i \in DOMAIN log' /\ heard'[i] = log'[i].msg
  BY DEF ListOK, Quiet
<1>6. log' = log
  BY DEF Quiet
<1>7. \A i \in DOMAIN conn'[1] : conn'[1][i].kind = "insert" /\ conn'[1][i].state = "begun" =>
          /\ 0 < conn'[1][i].seq /\ conn'[1][i].seq <= messagesSeq'
          /\ \A n \in DOMAIN log : log[n].seq < conn'[1][i].seq
  BY <1>4
<1>. QED  BY <1>3, <1>5, <1>6, <1>7 DEF ListOK, IsInsert, Rise

LEMMA TurnedShift ==
    ASSUME TypeOK, NEW i, NEW s, Turned(1, i, s), Current(1, i),
           s.kind # "insert" \/ s.state \notin {"done", "lost"}
    PROVE  Shift(0)
<1>1. \A j \in DOMAIN conn[1] : j \in Nat /\ j + 0 = j /\ j - 0 = j
  BY ListConn
<1>2. /\ DOMAIN conn'[1] = DOMAIN conn[1] /\ conn'[1][i] = s
      /\ \A j \in DOMAIN conn[1] \ {i} : conn'[1][j] = conn[1][j]
  BY DEF Turned
<1>3. /\ ~(s.kind = "insert" /\ s.state \in {"done", "lost"})
      /\ conn[1][i].state \notin {"done", "lost"}
  BY DEF Current
<1>4. ASSUME NEW j \in DOMAIN conn'[1],
             conn'[1][j].kind = "insert", conn'[1][j].state \in {"done", "lost"}
      PROVE  j \in DOMAIN conn[1] /\ conn'[1][j] = conn[1][j]
  BY <1>2, <1>3, <1>4
<1>5. ASSUME NEW j \in DOMAIN conn[1], IsInsert(1, j), IsDone(1, j)
      PROVE  j \in DOMAIN conn'[1] /\ conn'[1][j] = conn[1][j]
  BY <1>2, <1>3, <1>5 DEF IsDone
<1>. QED  BY <1>1, <1>2, <1>4, <1>5 DEF Shift

LEMMA QueuedShift ==
    ASSUME TypeOK, NEW s, Queued(1, s), s.state = "sent"
    PROVE  Shift(0)
<1>1. \A j \in DOMAIN conn[1] : j \in Nat /\ j + 0 = j /\ j - 0 = j
  BY ListConn
<1>2. \A j \in DOMAIN conn'[1] :
          \/ j \in DOMAIN conn[1] /\ conn'[1][j] = conn[1][j]
          \/ conn'[1][j] = s
  BY DEF Queued
<1>3. \A j \in DOMAIN conn[1] : j \in DOMAIN conn'[1] /\ conn'[1][j] = conn[1][j]
  BY DEF Queued
<1>. QED  BY <1>1, <1>2, <1>3 DEF Shift

LEMMA AnsweredShift ==
    ASSUME TypeOK, Answered(1), ~(IsInsert(1, 1) /\ IsDone(1, 1))
    PROVE  Shift(1)
<1>1. ASSUME NEW j \in DOMAIN conn[1], j # 1
      PROVE  j - 1 \in DOMAIN conn'[1] /\ conn'[1][j - 1] = conn[1][j]
  <2>1. j > 1 /\ (j - 1) + 1 = j
    BY <1>1, ListConn
  <2>2. j - 1 \in DOMAIN conn'[1]
    BY <2>1 DEF Answered
  <2>. QED  BY <2>1, <2>2 DEF Answered
<1>. QED  BY <1>1 DEF Shift, Answered

LEMMA StillShift ==
    ASSUME TypeOK, UNCHANGED conn
    PROVE  Shift(0)
<1>1. \A j \in DOMAIN conn[1] : j \in Nat /\ j + 0 = j /\ j - 0 = j
  BY ListConn
<1>. QED  BY <1>1 DEF Shift

\* A statement is sent, answered or begins, or one fails, or a message goes.
LEMMA ListedFrame ==
    ASSUME Typed, Typed', Listed, NEW d, Shift(d), Quiet, gone \subseteq gone',
           \A r \in rows : r \in rows' \/ r.msg \in gone',
           messagesSeq <= messagesSeq',
           \A i \in DOMAIN conn'[1] :
               conn'[1][i].kind = "insert" /\ conn'[1][i].state = "begun" =>
               \/ \E j \in DOMAIN conn[1] : conn'[1][i] = conn[1][j]
               \/ conn'[1][i].seq = messagesSeq + 1 /\ messagesSeq' = messagesSeq + 1,
           \A i \in DOMAIN conn'[1] :
               conn'[1][i].kind \in {"page", "watch"} /\ conn'[1][i].state \in {"done", "lost"} =>
               i + d \in DOMAIN conn[1] /\ conn'[1][i] = conn[1][i + d]
    PROVE  Listed'
<1>1. ListOK'
  BY ListFrame DEF Listed, Typed
<1>2. AnswersOK'
  BY AnswersFrame DEF Listed, Typed
<1>3. FoundOK'
  BY FoundFrame DEF Listed, Typed
<1>4. RowsOK'
  BY DEF Listed, RowsOK, Quiet
<1>. QED  BY <1>1, <1>2, <1>3, <1>4 DEF Listed

LEMMA BeginsListed ==
    ASSUME Typed, Typed', Listed, pool = 1, NEW i \in DOMAIN conn[1], InsertBegins(1, i)
    PROVE  Listed'
<1>1. PICK t \in Insertion : Turned(1, i, t) /\ t.state = "begun" /\ t.seq = messagesSeq + 1
  BY BeginsEffect DEF Typed
<1>2. /\ Current(1, i) /\ messagesSeq' = messagesSeq + 1
      /\ UNCHANGED <<rows, post, log, gone, heard>>
  BY DEF InsertBegins, Statements, hist
<1>3. Shift(0)
  BY <1>1, <1>2, TurnedShift DEF Typed
<1>4. Quiet /\ messagesSeq <= messagesSeq'
  BY <1>2 DEF Quiet, Typed, TypeOK
<1>5. \A j \in DOMAIN conn'[1] :
          \/ conn'[1][j] = t
          \/ j \in DOMAIN conn[1] /\ conn'[1][j] = conn[1][j]
  BY <1>1 DEF Turned
<1>6. \A j \in DOMAIN conn[1] : j + 0 = j
  BY ListConn DEF Typed
<1>7. t.kind = "insert"
  BY DEF Insertion
<1>. QED  BY <1>1, <1>2, <1>3, <1>4, <1>5, <1>6, <1>7, ListedFrame

LEMMA FailsListed ==
    ASSUME Typed, Typed', Listed, pool = 1, NEW i \in DOMAIN conn[1], InsertFails(1, i)
    PROVE  Listed'
<1>1. PICK t \in Insertion : Turned(1, i, t) /\ t.state = "failed"
  BY FailsEffect DEF Typed
<1>2. /\ Current(1, i) /\ UNCHANGED <<rows, messagesSeq, post, log, gone, heard>>
  BY DEF InsertFails, Statements, hist, db
<1>3. Shift(0)
  BY <1>1, <1>2, TurnedShift DEF Typed
<1>4. Quiet /\ messagesSeq <= messagesSeq'
  BY <1>2 DEF Quiet, Typed, TypeOK
<1>5. \A j \in DOMAIN conn'[1] :
          \/ conn'[1][j] = t
          \/ j \in DOMAIN conn[1] /\ conn'[1][j] = conn[1][j]
  BY <1>1 DEF Turned
<1>6. \A j \in DOMAIN conn[1] : j + 0 = j
  BY ListConn DEF Typed
<1>. QED  BY <1>1, <1>2, <1>3, <1>4, <1>5, <1>6, ListedFrame

LEMMA SelectFailsListed ==
    ASSUME Typed, Typed', Listed, pool = 1, NEW i \in DOMAIN conn[1], SelectFails(1, i)
    PROVE  Listed'
<1>1. PICK t \in Selection : Turned(1, i, t) /\ t.state = "failed"
  BY SelectFailsEffect DEF Typed
<1>2. /\ Current(1, i) /\ UNCHANGED <<rows, messagesSeq, post, log, gone, heard>>
  BY DEF SelectFails, Statements, hist, db
<1>3. Shift(0)
  BY <1>1, <1>2, TurnedShift DEF Typed
<1>4. Quiet /\ messagesSeq <= messagesSeq'
  BY <1>2 DEF Quiet, Typed, TypeOK
<1>5. \A j \in DOMAIN conn'[1] :
          \/ conn'[1][j] = t
          \/ j \in DOMAIN conn[1] /\ conn'[1][j] = conn[1][j]
  BY <1>1 DEF Turned
<1>6. \A j \in DOMAIN conn[1] : j + 0 = j
  BY ListConn DEF Typed
<1>. QED  BY <1>1, <1>2, <1>3, <1>4, <1>5, <1>6, ListedFrame

LEMMA LostListed ==
    ASSUME Typed, Listed, pool = 1, NEW i \in DOMAIN conn[1], AnswerLost(1, i)
    PROVE  Listed'
<1>0. 1 \in 1 .. pool /\ 1 \in Conns
  BY ListConn DEF Typed
<1>1. UNCHANGED <<rows, messagesSeq, post, log, gone, heard>>
  BY <1>0, LostKeeps
<1>2. /\ DOMAIN conn'[1] = DOMAIN conn[1]
      /\ \A j \in DOMAIN conn[1] :
             /\ conn'[1][j].kind = conn[1][j].kind /\ conn'[1][j].by = conn[1][j].by
             /\ IsInsert(1, j) => conn'[1][j].seq = conn[1][j].seq
             /\ ~IsInsert(1, j) => conn'[1][j] = conn[1][j]
             /\ conn'[1][j].state \in {"done", "lost"} <=> IsDone(1, j)
             /\ conn'[1][j].state = "begun" <=> conn[1][j].state = "begun"
  BY <1>0, LostKeeps
<1>3. \A j \in DOMAIN conn[1], n \in DOMAIN log : Answers(j, n)' <=> Answers(j, n)
  BY <1>1, <1>2 DEF Answers, IsInsert, IsDone, Stored
<1>4. \A j \in DOMAIN conn[1], n \in DOMAIN log : Before(n, j)' <=> Before(n, j)
  BY <1>1, <1>2, <1>3 DEF Before, Heard
<1>5. ListOK'
  <2>1. \A j \in DOMAIN conn'[1] :
            conn'[1][j].kind = "insert" /\ conn'[1][j].state = "begun" =>
            /\ 0 < conn'[1][j].seq /\ conn'[1][j].seq <= messagesSeq
            /\ \A n \in DOMAIN log : log[n].seq < conn'[1][j].seq
    BY <1>2 DEF Listed, ListOK, IsInsert
  <2>. QED  BY <1>1, <2>1 DEF Listed, ListOK, IsInsert, Rise
<1>6. AnswersOK'
  <2>1. \A n \in DOMAIN log : n > Heard => \E j \in DOMAIN conn'[1] : Answers(j, n)'
    BY <1>2, <1>3 DEF Listed, AnswersOK
  <2>2. \A j \in DOMAIN conn'[1] :
            conn'[1][j].kind = "insert" /\ conn'[1][j].state \in {"done", "lost"} =>
            \E n \in DOMAIN log : n > Heard /\ Answers(j, n)'
    BY <1>2, <1>3 DEF Listed, AnswersOK, IsInsert
  <2>3. \A j, h \in DOMAIN conn'[1] :
            /\ j < h
            /\ conn'[1][j].kind = "insert" /\ conn'[1][j].state \in {"done", "lost"}
            /\ conn'[1][h].kind = "insert" /\ conn'[1][h].state \in {"done", "lost"}
            => conn'[1][j].seq < conn'[1][h].seq
    BY <1>2 DEF Listed, AnswersOK, IsInsert
  <2>. QED  BY <1>1, <2>1, <2>2, <2>3 DEF AnswersOK, IsInsert, IsDone, Heard
<1>7. FoundOK'
  <2>1. ASSUME NEW j \in DOMAIN conn'[1], conn'[1][j].kind \in {"page", "watch"},
               conn'[1][j].state \in {"done", "lost"}, NEW found, found = conn'[1][j].found
        PROVE  /\ Rise(found)
               /\ \A h \in DOMAIN found : \E n \in DOMAIN log : log[n] = found[h] /\ Before(n, j)'
               /\ \A n \in DOMAIN log : Before(n, j)' =>
                      log[n].msg \in gone \/ \E h \in DOMAIN found : found[h] = log[n]
    <3>1. j \in DOMAIN conn[1] /\ IsSelect(1, j) /\ IsDone(1, j) /\ found = conn[1][j].found
      BY <1>2, <2>1 DEF IsSelect, IsInsert
    <3>2. /\ Rise(found)
          /\ \A h \in DOMAIN found : \E n \in DOMAIN log : log[n] = found[h] /\ Before(n, j)
          /\ \A n \in DOMAIN log : Before(n, j) =>
                 log[n].msg \in gone \/ \E h \in DOMAIN found : found[h] = log[n]
      BY <3>1 DEF Listed, FoundOK
    <3>. QED  BY <1>4, <3>1, <3>2
  <2>2. \A j \in DOMAIN conn'[1] :
            conn'[1][j].kind \in {"page", "watch"} /\ conn'[1][j].state \in {"done", "lost"} =>
            /\ Rise(conn'[1][j].found)
            /\ \A h \in DOMAIN conn'[1][j].found :
                   \E n \in DOMAIN log : log[n] = conn'[1][j].found[h] /\ Before(n, j)'
            /\ \A n \in DOMAIN log : Before(n, j)' =>
                   \/ log[n].msg \in gone
                   \/ \E h \in DOMAIN conn'[1][j].found : conn'[1][j].found[h] = log[n]
    BY <2>1
  <2>. QED  BY <1>1, <2>2 DEF FoundOK, IsSelect, IsDone, Rise
<1>8. RowsOK'
  BY <1>1 DEF Listed, RowsOK
<1>. QED  BY <1>5, <1>6, <1>7, <1>8 DEF Listed

\* All that was stored before and is in the table is found.
LEMMA SelectListed ==
    ASSUME Typed, Typed', Recorded, Listed, pool = 1, NEW i \in DOMAIN conn[1], SelectRuns(1, i)
    PROVE  Listed'
<1>1. PICK t \in Selection :
          /\ Turned(1, i, t) /\ IsSelect(1, i)
          /\ Rise(t.found) /\ \A j \in DOMAIN t.found : t.found[j] \in rows
          /\ \A r \in rows : \E j \in DOMAIN t.found : t.found[j] = r
  BY SelectEffect DEF Typed
<1>2. /\ Current(1, i) /\ conn[1][i].state = "sent"
      /\ UNCHANGED <<rows, messagesSeq, post, log, gone, heard>>
  BY DEF SelectRuns, Statements, hist, db
<1>3. t.kind # "insert"
  BY DEF Selection
<1>4. Shift(0)
  BY <1>1, <1>2, <1>3, TurnedShift DEF Typed
<1>5. Quiet /\ messagesSeq <= messagesSeq'
  BY <1>2 DEF Quiet, Typed, TypeOK
<1>6. \A j \in DOMAIN conn'[1] :
          \/ conn'[1][j] = t /\ j = i
          \/ j \in DOMAIN conn[1] /\ conn'[1][j] = conn[1][j]
  BY <1>1 DEF Turned
<1>7. \A j \in DOMAIN conn[1] : j + 0 = j /\ j \in Nat
  BY ListConn DEF Typed
<1>8. ListOK'
  BY <1>3, <1>5, <1>6, ListFrame DEF Listed, Typed
<1>9. AnswersOK'
  BY <1>4, <1>5, AnswersFrame DEF Listed, Typed
<1>10. \A n \in DOMAIN log : Before(n, i)
  <2>1. SUFFICES ASSUME NEW n \in DOMAIN log, ~(n <= Heard)
                 PROVE  \E j \in DOMAIN conn[1] : j < i /\ Answers(j, n)
    BY DEF Before
  <2>2. n > Heard
    BY <2>1, LogType DEF Typed
  <2>3. PICK j \in DOMAIN conn[1] : Answers(j, n)
    BY <2>2 DEF Listed, AnswersOK
  <2>4. j # i
    BY <1>1, <2>3 DEF Answers, IsInsert, IsSelect
  <2>5. ~(i < j)
    BY <1>2, <2>3, ListConn DEF Typed, QueueOK, Answers, IsDone
  <2>6. j < i
    BY <1>7, <2>4, <2>5
  <2>. QED  BY <2>3, <2>6
<1>11. FoundOK'
  <2>1. \A j \in DOMAIN t.found : \E n \in DOMAIN log : log[n] = t.found[j] /\ Before(n, i)
    <3>1. \A r \in rows : \E n \in DOMAIN log : log[n] = r
      BY DEF Recorded, HeldOK, InLog
    <3>. QED  BY <1>1, <1>10, <3>1
  <2>2. \A n \in DOMAIN log :
            log[n].msg \in gone \/ \E j \in DOMAIN t.found : t.found[j] = log[n]
    BY <1>1 DEF Listed, RowsOK
  <2>3. \A j \in DOMAIN conn'[1] :
            conn'[1][j].kind \in {"page", "watch"} /\ conn'[1][j].state \in {"done", "lost"} =>
            \/ j + 0 \in DOMAIN conn[1] /\ conn'[1][j] = conn[1][j + 0]
            \/ /\ Rise(conn'[1][j].found)
               /\ \A h \in DOMAIN conn'[1][j].found :
                      \E n \in DOMAIN log : log[n] = conn'[1][j].found[h] /\ Before(n, j + 0)
               /\ \A n \in DOMAIN log :
                      \/ log[n].msg \in gone
                      \/ \E h \in DOMAIN conn'[1][j].found : conn'[1][j].found[h] = log[n]
    BY <1>1, <1>6, <1>7, <2>1, <2>2
  <2>. QED  BY <1>2, <1>4, <1>5, <2>3, FoundFrame DEF Listed, Typed
<1>12. RowsOK'
  BY <1>2 DEF Listed, RowsOK
<1>. QED  BY <1>8, <1>9, <1>11, <1>12 DEF Listed

LEMMA QueuedListed ==
    ASSUME Typed, Typed', Listed, NEW s, Queued(1, s), s.state = "sent", Quiet,
           UNCHANGED <<rows, messagesSeq, gone>>
    PROVE  Listed'
<1>1. Shift(0)
  BY QueuedShift DEF Typed
<1>2. \A j \in DOMAIN conn'[1] :
          \/ conn'[1][j] = s
          \/ j \in DOMAIN conn[1] /\ conn'[1][j] = conn[1][j]
  BY DEF Queued
<1>3. \A j \in DOMAIN conn[1] : j + 0 = j
  BY ListConn DEF Typed
<1>4. messagesSeq <= messagesSeq'
  BY DEF Typed, TypeOK
<1>. QED  BY <1>1, <1>2, <1>3, <1>4, ListedFrame

LEMMA AnsweredListed ==
    ASSUME Typed, Typed', Listed, Answered(1), ~(IsInsert(1, 1) /\ IsDone(1, 1)), Quiet,
           UNCHANGED <<rows, messagesSeq, gone>>
    PROVE  Listed'
<1>1. Shift(1)
  BY AnsweredShift DEF Typed
<1>2. \A j \in DOMAIN conn'[1] : j + 1 \in DOMAIN conn[1] /\ conn'[1][j] = conn[1][j + 1]
  BY DEF Answered
<1>3. messagesSeq <= messagesSeq'
  BY DEF Typed, TypeOK
<1>. QED  BY <1>1, <1>2, <1>3, ListedFrame

LEMMA ClientListed ==
    ASSUME Typed, Typed', Listed, UNCHANGED <<conn, messagesSeq, post, log, heard>>,
           gone \subseteq gone', \A r \in rows : r \in rows' \/ r.msg \in gone'
    PROVE  Listed'
<1>1. Shift(0)
  BY StillShift DEF Typed
<1>2. \A j \in DOMAIN conn[1] : j + 0 = j
  BY ListConn DEF Typed
<1>3. messagesSeq <= messagesSeq' /\ Quiet
  BY DEF Typed, TypeOK, Quiet
<1>. QED  BY <1>1, <1>2, <1>3, ListedFrame

\* The INSERT that commits has the highest number, and is the last one that is done.
LEMMA CommitsListed ==
    ASSUME Typed, Typed', Recorded, Listed, pool = 1, NEW i \in DOMAIN conn[1],
           InsertCommits(1, i)
    PROVE  Listed'
<1>0. 1 \in 1 .. pool
  OBVIOUS
<1>1. PICK t \in Insertion, r \in Row :
          /\ Turned(1, i, t) /\ IsInsert(1, i) /\ conn[1][i].state = "begun"
          /\ t.by = conn[1][i].by /\ t.state = "done" /\ t.seq = conn[1][i].seq
          /\ r = Stored(conn[1][i]) /\ r.seq = conn[1][i].seq
          /\ r.msg = <<conn[1][i].by, post[conn[1][i].by].next>> /\ conn[1][i].by \in Posts
          /\ rows' = rows \cup {r} /\ log' = Append(log, r)
  BY <1>0, CommitsEffect DEF Typed
<1>2. Current(1, i) /\ post' = post /\ messagesSeq' = messagesSeq /\ heard' = heard
      /\ gone' = gone
  BY DEF InsertCommits, Statements
<1>. PICK n : n = Len(log)
  OBVIOUS
<1>3. /\ n \in Nat /\ DOMAIN log = 1 .. n /\ DOMAIN log' = 1 .. n + 1
      /\ \A o \in 1 .. n : log'[o] = log[o]
      /\ log'[n + 1] = r
      /\ \A o \in 1 .. n + 1 : o \in 1 .. n \/ o = n + 1
      /\ \A o \in 1 .. n : log[o].seq \in Nat
  <2>1. /\ n \in Nat /\ DOMAIN log = 1 .. n /\ \A o \in 1 .. n : log[o].seq \in Nat
    BY LogType DEF Typed
  <2>2. \A o \in 1 .. n + 1 : o \in 1 .. n \/ o = n + 1
    BY <2>1
  <2>3. log \in Seq(Row) /\ log' = Append(log, r)
    BY <1>1 DEF Typed, TypeOK
  <2>4. DOMAIN log' = 1 .. n + 1 /\ (\A o \in 1 .. n : log'[o] = log[o]) /\ log'[n + 1] = r
    BY <2>3
  <2>. QED  BY <2>1, <2>2, <2>4
<1>4. /\ Heard \in Nat /\ Heard <= n /\ Heard' = Heard
  <2>1. \A h \in 1 .. Heard : h \in 1 .. n
    BY <1>3, LogType DEF Listed, ListOK, Typed
  <2>2. Heard \in Nat
    BY LogType DEF Typed
  <2>3. Heard' = Heard
    BY <1>2 DEF Heard
  <2>. QED  BY <1>3, <2>1, <2>2, <2>3
<1>5. \A j \in DOMAIN conn[1] : j \in Nat /\ j > 0
  BY ListConn DEF Typed
<1>6. ASSUME NEW j \in DOMAIN conn'[1], conn'[1][j].state \in {"begun", "done", "lost"}
      PROVE  /\ j \in DOMAIN conn[1] /\ ~(i < j)
             /\ conn'[1][j].state \in {"done", "lost"}
             /\ j # i => conn'[1][j] = conn[1][j] /\ IsDone(1, j)
             /\ j = i => conn'[1][j] = t
  <2>1. j \in DOMAIN conn[1] /\ (j # i => conn'[1][j] = conn[1][j]) /\ (j = i => conn'[1][j] = t)
    BY <1>1 DEF Turned
  <2>2. ~(i < j)
    <3>1. SUFFICES ASSUME i < j PROVE FALSE
      OBVIOUS
    <3>2. j # i /\ conn[1][j].state # "sent"
      BY <1>5, <1>6, <2>1, <3>1
    <3>. QED  BY <1>1, <2>1, <3>1, <3>2, ListConn DEF Typed, QueueOK
  <2>3. CASE j = i
    BY <1>1, <2>1, <2>2, <2>3
  <2>4. CASE j # i
    <3>1. j \in 1 .. i - 1
      BY <1>5, <2>1, <2>2, <2>4
    <3>2. conn[1][j].state \in {"done", "lost", "failed"}
      BY <1>2, <3>1 DEF Current
    <3>. QED  BY <1>6, <2>1, <2>2, <2>4, <3>2 DEF IsDone
  <2>. QED  BY <2>3, <2>4
<1>7. r.seq \in Nat /\ 0 < r.seq /\ r.seq <= messagesSeq /\ \A o \in 1 .. n : log[o].seq < r.seq
  <2>1. r.seq \in Nat
    BY DEF Row
  <2>. QED  BY <1>1, <1>3, <2>1 DEF Listed, ListOK
<1>8. t.kind = "insert" /\ i \in DOMAIN conn'[1] /\ conn'[1][i] = t
  BY <1>1 DEF Insertion, Turned
<1>9. ListOK'
  <2>1. \A a, b \in 1 .. n + 1 : a < b => log'[a].seq < log'[b].seq
    <3>1. \A a, b \in 1 .. n : a < b => log[a].seq < log[b].seq
      BY <1>3 DEF Listed, ListOK, Rise
    <3>2. \A a, b \in 1 .. n + 1 : a < b => a \in 1 .. n
      BY <1>3
    <3>. QED  BY <1>3, <1>7, <3>1, <3>2
  <2>2. \A o \in 1 .. n + 1 : 0 < log'[o].seq /\ log'[o].seq <= messagesSeq
    <3>1. \A o \in 1 .. n : 0 < log[o].seq /\ log[o].seq <= messagesSeq
      BY <1>3 DEF Listed, ListOK
    <3>. QED  BY <1>3, <1>7, <3>1
  <2>3. \A j \in DOMAIN conn'[1] : conn'[1][j].state # "begun"
    BY <1>6
  <2>4. \A o \in DOMAIN heard : o \in 1 .. n + 1 /\ heard[o] = log'[o].msg
    BY <1>3 DEF Listed, ListOK
  <2>. QED  BY <1>2, <1>3, <2>1, <2>2, <2>3, <2>4 DEF ListOK, IsInsert, Rise
<1>10. \A j \in DOMAIN conn[1], o \in 1 .. n : Answers(j, o) =>
           j \in DOMAIN conn'[1] /\ Answers(j, o)'
  <2>1. SUFFICES ASSUME NEW j \in DOMAIN conn[1], NEW o \in 1 .. n, Answers(j, o)
                 PROVE  j \in DOMAIN conn'[1] /\ Answers(j, o)'
    OBVIOUS
  <2>2. j # i
    BY <1>1, <2>1 DEF Answers, IsDone
  <2>3. j \in DOMAIN conn'[1] /\ conn'[1][j] = conn[1][j]
    BY <1>1, <2>2 DEF Turned
  <2>. QED  BY <1>2, <1>3, <2>1, <2>3 DEF Answers, IsInsert, IsDone, Stored
<1>11. Answers(i, n + 1)'
  <2>1. Stored(t)' = r
    BY <1>1, <1>2 DEF Stored
  <2>. QED  BY <1>1, <1>3, <1>8, <2>1 DEF Answers, IsInsert, IsDone
<1>12. \A j \in DOMAIN conn'[1], o \in 1 .. n : Answers(j, o)' =>
           j \in DOMAIN conn[1] /\ j # i /\ Answers(j, o)
  <2>1. SUFFICES ASSUME NEW j \in DOMAIN conn'[1], NEW o \in 1 .. n, Answers(j, o)'
                 PROVE  j \in DOMAIN conn[1] /\ j # i /\ Answers(j, o)
    OBVIOUS
  <2>2. conn'[1][j].state \in {"done", "lost"} /\ conn'[1][j].kind = "insert"
    BY <2>1 DEF Answers, IsDone, IsInsert
  <2>3. j # i
    <3>1. SUFFICES ASSUME j = i PROVE FALSE
      OBVIOUS
    <3>2. log[o].seq = t.seq
      BY <1>3, <1>8, <2>1, <3>1 DEF Answers, Stored
    <3>. QED  BY <1>1, <1>3, <1>7, <3>2
  <2>4. j \in DOMAIN conn[1] /\ conn'[1][j] = conn[1][j]
    BY <1>6, <2>2, <2>3
  <2>. QED  BY <1>2, <1>3, <2>1, <2>3, <2>4 DEF Answers, IsInsert, IsDone, Stored
<1>13. AnswersOK'
  <2>1. ASSUME NEW o \in 1 .. n + 1, o > Heard
        PROVE  \E j \in DOMAIN conn'[1] : Answers(j, o)'
    <3>1. CASE o = n + 1
      BY <1>8, <1>11, <3>1
    <3>2. CASE o \in 1 .. n
      BY <1>3, <1>10, <2>1, <3>2 DEF Listed, AnswersOK
    <3>. QED  BY <1>3, <3>1, <3>2
  <2>2. ASSUME NEW j \in DOMAIN conn'[1],
               conn'[1][j].kind = "insert", conn'[1][j].state \in {"done", "lost"}
        PROVE  \E o \in 1 .. n + 1 : o > Heard /\ Answers(j, o)'
    <3>1. CASE j = i
      BY <1>3, <1>4, <1>11, <3>1
    <3>2. CASE j # i
      <4>1. j \in DOMAIN conn[1] /\ conn'[1][j] = conn[1][j]
        BY <1>6, <2>2, <3>2
      <4>2. PICK o \in DOMAIN log : o > Heard /\ Answers(j, o)
        BY <2>2, <4>1 DEF Listed, AnswersOK, IsInsert, IsDone
      <4>. QED  BY <1>3, <1>10, <4>1, <4>2
    <3>. QED  BY <3>1, <3>2
  <2>3. ASSUME NEW a \in DOMAIN conn'[1], NEW b \in DOMAIN conn'[1], a < b,
               conn'[1][a].kind = "insert", conn'[1][a].state \in {"done", "lost"},
               conn'[1][b].kind = "insert", conn'[1][b].state \in {"done", "lost"}
        PROVE  conn'[1][a].seq < conn'[1][b].seq
    <3>1. a \in DOMAIN conn[1] /\ b \in DOMAIN conn[1] /\ ~(i < b) /\ a # i
      <4>1. a \in DOMAIN conn[1] /\ b \in DOMAIN conn[1] /\ ~(i < b)
        BY <1>6, <2>3
      <4>. QED  BY <1>5, <2>3, <4>1
    <3>2. conn'[1][a] = conn[1][a]
      BY <1>6, <2>3, <3>1
    <3>3. CASE b = i
      <4>1. PICK o \in DOMAIN log : Answers(a, o)
        BY <2>3, <3>1, <3>2 DEF Listed, AnswersOK, IsInsert, IsDone
      <4>2. conn[1][a].seq = log[o].seq
        BY <4>1 DEF Answers, Stored
      <4>. QED  BY <1>1, <1>3, <1>7, <1>8, <3>2, <3>3, <4>1, <4>2
    <3>4. CASE b # i
      <4>1. conn'[1][b] = conn[1][b]
        BY <1>6, <2>3, <3>4
      <4>. QED  BY <2>3, <3>1, <3>2, <4>1 DEF Listed, AnswersOK, IsInsert, IsDone
    <3>. QED  BY <3>3, <3>4
  <2>. QED  BY <1>3, <1>4, <2>1, <2>2, <2>3 DEF AnswersOK, IsInsert, IsDone
<1>14. FoundOK'
  <2>1. ASSUME NEW j \in DOMAIN conn'[1],
               conn'[1][j].kind \in {"page", "watch"}, conn'[1][j].state \in {"done", "lost"}
        PROVE  /\ Rise(conn'[1][j].found)
               /\ \A h \in DOMAIN conn'[1][j].found :
                      \E o \in 1 .. n + 1 : log'[o] = conn'[1][j].found[h] /\ Before(o, j)'
               /\ \A o \in 1 .. n + 1 : Before(o, j)' =>
                      \/ log'[o].msg \in gone
                      \/ \E h \in DOMAIN conn'[1][j].found : conn'[1][j].found[h] = log'[o]
    <3>1. PICK found : found = conn'[1][j].found
      OBVIOUS
    <3>2. /\ Rise(found)
          /\ \A h \in DOMAIN found : \E o \in 1 .. n + 1 : log'[o] = found[h] /\ Before(o, j)'
          /\ \A o \in 1 .. n + 1 : Before(o, j)' =>
                 log'[o].msg \in gone \/ \E h \in DOMAIN found : found[h] = log'[o]
      <4>1. j # i
        BY <1>8, <2>1
      <4>2. j \in DOMAIN conn[1] /\ ~(i < j) /\ conn[1][j] = conn'[1][j]
        BY <1>6, <2>1, <4>1
      <4>3. /\ Rise(found)
            /\ \A h \in DOMAIN found : \E o \in DOMAIN log : log[o] = found[h] /\ Before(o, j)
            /\ \A o \in DOMAIN log : Before(o, j) =>
                   log[o].msg \in gone \/ \E h \in DOMAIN found : found[h] = log[o]
        <5>1. found = conn[1][j].found /\ IsSelect(1, j) /\ IsDone(1, j)
          BY <2>1, <3>1, <4>2 DEF IsSelect, IsDone
        <5>. QED  BY <4>2, <5>1 DEF Listed, FoundOK
      <4>4. \A o \in 1 .. n : Before(o, j) <=> Before(o, j)'
        BY <1>4, <1>10, <1>12 DEF Before
      <4>5. ~Before(n + 1, j)'
        <5>1. SUFFICES ASSUME NEW h \in DOMAIN conn'[1], h < j, Answers(h, n + 1)' PROVE FALSE
          BY <1>3, <1>4 DEF Before
        <5>2. /\ conn'[1][h].state \in {"done", "lost"}
              /\ conn'[1][h].kind = "insert"
              /\ conn'[1][h].seq = r.seq
          BY <1>3, <5>1 DEF Answers, IsDone, IsInsert, Stored
        <5>3. h # i
          <6>1. h \in DOMAIN conn[1]
            BY <1>6, <5>2
          <6>. QED  BY <1>5, <4>2, <5>1, <6>1
        <5>4. h \in DOMAIN conn[1] /\ conn[1][h] = conn'[1][h]
          BY <1>6, <5>2, <5>3
        <5>5. PICK o \in DOMAIN log : Answers(h, o)
          BY <5>2, <5>4 DEF Listed, AnswersOK, IsInsert, IsDone
        <5>6. log[o].seq = r.seq
          BY <5>2, <5>4, <5>5 DEF Answers, Stored
        <5>. QED  BY <1>3, <1>7, <5>5, <5>6
      <4>6. \A o \in 1 .. n : o \in 1 .. n + 1 /\ log'[o] = log[o]
        BY <1>3
      <4>7. \A h \in DOMAIN found : \E o \in 1 .. n : log[o] = found[h] /\ Before(o, j)'
        BY <1>3, <4>3, <4>4
      <4>8. \A o \in 1 .. n : Before(o, j)' =>
                   log[o].msg \in gone \/ \E h \in DOMAIN found : found[h] = log[o]
        BY <1>3, <4>3, <4>4
      <4>9. \A h \in DOMAIN found : \E o \in 1 .. n + 1 : log'[o] = found[h] /\ Before(o, j)'
        BY <4>6, <4>7
      <4>10. \A o \in 1 .. n + 1 : Before(o, j)' =>
                   log'[o].msg \in gone \/ \E h \in DOMAIN found : found[h] = log'[o]
        BY <1>3, <4>5, <4>6, <4>8
      <4>. QED  BY <4>3, <4>9, <4>10
    <3>. QED  BY <3>1, <3>2
  <2>. QED  BY <1>2, <1>3, <2>1 DEF FoundOK, IsSelect, IsDone, Rise
<1>15. RowsOK'
  BY <1>1, <1>2, <1>3 DEF Listed, RowsOK
<1>. QED  BY <1>9, <1>13, <1>14, <1>15 DEF Listed

\* The INSERT whose answer comes first is of the first message nobody has heard of.
LEMMA NextHeard ==
    ASSUME Typed, Listed, 1 \in DOMAIN conn[1], IsInsert(1, 1), IsDone(1, 1)
    PROVE  /\ Heard + 1 \in DOMAIN log /\ Answers(1, Heard + 1)
           /\ \A j \in DOMAIN conn[1] : Answers(j, Heard + 1) => j = 1
<1>1. PICK h, m : h = Heard /\ m = Heard + 1
  OBVIOUS
<1>2. /\ h \in Nat /\ m \in Nat /\ m = h + 1 /\ Len(log) \in Nat /\ DOMAIN log = 1 .. Len(log)
      /\ \A n \in DOMAIN log : log[n].seq \in Nat
  BY <1>1, LogType DEF Typed
<1>3. PICK n \in DOMAIN log : n > h /\ Answers(1, n)
  BY <1>1 DEF Listed, AnswersOK
<1>4. m \in DOMAIN log
  BY <1>2, <1>3
<1>5. \A j \in DOMAIN conn[1] : j \in Nat /\ j > 0
  BY ListConn DEF Typed
<1>6. \A j \in DOMAIN conn[1], o \in DOMAIN log : Answers(j, o) => conn[1][j].seq = log[o].seq
  BY DEF Answers, Stored
<1>7. n = m
  <2>1. SUFFICES ASSUME n # m PROVE FALSE
    OBVIOUS
  <2>2. m < n /\ m > h
    BY <1>2, <1>3, <2>1
  <2>3. log[m].seq < log[n].seq
    BY <1>3, <1>4, <2>2 DEF Listed, ListOK, Rise
  <2>4. PICK j \in DOMAIN conn[1] : Answers(j, m)
    BY <1>1, <1>4, <2>2 DEF Listed, AnswersOK
  <2>5. conn[1][j].seq = log[m].seq /\ conn[1][1].seq = log[n].seq
    BY <1>3, <1>4, <1>6, <2>4
  <2>6. CASE j = 1
    BY <1>2, <1>3, <1>4, <2>3, <2>5, <2>6
  <2>7. CASE j # 1
    <3>1. 1 < j
      BY <1>5, <2>7
    <3>2. conn[1][1].seq < conn[1][j].seq
      BY <2>4, <3>1 DEF Listed, AnswersOK, Answers
    <3>. QED  BY <1>2, <1>3, <1>4, <2>3, <2>5, <3>2
  <2>. QED  BY <2>6, <2>7
<1>8. ASSUME NEW j \in DOMAIN conn[1], Answers(j, m), j # 1
      PROVE  FALSE
  <2>1. 1 < j
    BY <1>5, <1>8
  <2>2. conn[1][1].seq < conn[1][j].seq
    BY <1>8, <2>1 DEF Listed, AnswersOK, Answers
  <2>3. conn[1][j].seq = log[m].seq /\ conn[1][1].seq = log[m].seq
    BY <1>3, <1>4, <1>6, <1>7, <1>8
  <2>. QED  BY <1>2, <1>4, <2>2, <2>3
<1>. QED  BY <1>1, <1>3, <1>4, <1>7, <1>8

LEMMA HandledListed ==
    ASSUME Typed, Typed', Recorded, Listed, pool = 1, NEW p \in Posts, NEW item \in Row,
           Handled(1, p, item)
    PROVE  Listed'
<1>1. /\ Answered(1) /\ IsInsert(1, 1) /\ IsDone(1, 1)
      /\ p = conn[1][1].by /\ item = Stored(conn[1][1])
      /\ \A q \in Posts \ {p} : post'[q] = post[q]
      /\ heard' = Append(heard, item.msg)
  BY DEF Handled
<1>2. rows' = rows /\ messagesSeq' = messagesSeq /\ log' = log /\ gone' = gone
  BY DEF Handled, db
<1>3. PICK h, m : h = Heard /\ m = Heard + 1
  OBVIOUS
<1>4. /\ h \in Nat /\ m \in Nat /\ m = h + 1 /\ Heard' = m
      /\ DOMAIN heard = 1 .. h /\ DOMAIN heard' = 1 .. m
      /\ \A i \in 1 .. h : heard'[i] = heard[i]
      /\ heard'[m] = item.msg
      /\ \A i \in 1 .. m : i \in 1 .. h \/ i = m
  <2>1. heard \in Seq(Messages) /\ item.msg \in Messages
    BY DEF Typed, TypeOK, Row
  <2>. QED  BY <1>1, <1>3, <2>1 DEF Heard
<1>5. m \in DOMAIN log /\ log[m] = item /\ \A j \in DOMAIN conn[1] : Answers(j, m) => j = 1
  <2>1. 1 \in DOMAIN conn[1]
    BY <1>1 DEF Answered
  <2>2. /\ m \in DOMAIN log /\ Answers(1, m)
        /\ \A j \in DOMAIN conn[1] : Answers(j, m) => j = 1
    BY <1>1, <1>3, <2>1, NextHeard
  <2>. QED  BY <1>1, <2>2 DEF Answers
<1>6. \A j \in DOMAIN conn'[1] : j \in Nat /\ j > 0
  <2>1. TypeOK'
    BY DEF Typed
  <2>2. 1 \in Conns
    BY ListConn DEF Typed
  <2>3. conn'[1] \in Seq(Statement)
    BY <2>1, <2>2 DEF TypeOK, Conns
  <2>. QED  BY <2>3
<1>7. /\ \A j \in DOMAIN conn'[1] : j + 1 \in DOMAIN conn[1] /\ conn'[1][j] = conn[1][j + 1]
      /\ \A j \in DOMAIN conn[1] : j > 1 => j - 1 \in DOMAIN conn'[1]
      /\ \A j \in DOMAIN conn[1] : j \in Nat /\ j > 0
      /\ \A j \in DOMAIN conn[1] : j > 1 => conn'[1][j - 1] = conn[1][j]
  <2>1. /\ \A j \in DOMAIN conn'[1] : j + 1 \in DOMAIN conn[1] /\ conn'[1][j] = conn[1][j + 1]
        /\ \A j \in DOMAIN conn[1] : j > 1 => j - 1 \in DOMAIN conn'[1]
        /\ \A j \in DOMAIN conn[1] : j \in Nat /\ j > 0
    BY <1>1, ListConn DEF Answered, Typed
  <2>2. ASSUME NEW j \in DOMAIN conn[1], j > 1 PROVE conn'[1][j - 1] = conn[1][j]
    <3>1. (j - 1) + 1 = j /\ j - 1 \in DOMAIN conn'[1]
      BY <2>1, <2>2
    <3>. QED  BY <2>1, <3>1
  <2>. QED  BY <2>1, <2>2
<1>8. \A j \in DOMAIN conn'[1] : conn'[1][j].kind = "insert" =>
          post'[conn'[1][j].by] = post[conn'[1][j].by]
  <2>1. \A j \in DOMAIN conn'[1] : conn'[1][j].kind = "insert" =>
            conn'[1][j].by \in Posts \ {p}
    BY <1>1, ListConn, OthersRemain DEF Typed
  <2>. QED  BY <1>1, <2>1
<1>9. \A j \in DOMAIN conn'[1], n \in DOMAIN log :
          Answers(j, n)' <=> Answers(j + 1, n)
  <2>1. SUFFICES ASSUME NEW j \in DOMAIN conn'[1], NEW n \in DOMAIN log
                 PROVE  Answers(j, n)' <=> Answers(j + 1, n)
    OBVIOUS
  <2>2. conn'[1][j] = conn[1][j + 1]
    BY <1>7
  <2>. QED  BY <1>2, <1>8, <2>2 DEF Answers, IsInsert, IsDone, Stored
<1>10. ListOK'
  <2>1. \A j \in DOMAIN conn'[1] : \E i \in DOMAIN conn[1] : conn'[1][j] = conn[1][i]
    BY <1>7
  <2>2. \A j \in DOMAIN conn'[1] :
            conn'[1][j].kind = "insert" /\ conn'[1][j].state = "begun" =>
            /\ 0 < conn'[1][j].seq /\ conn'[1][j].seq <= messagesSeq
            /\ \A n \in DOMAIN log : log[n].seq < conn'[1][j].seq
    BY <2>1 DEF Listed, ListOK, IsInsert
  <2>3. \A i \in 1 .. m : i \in DOMAIN log /\ heard'[i] = log[i].msg
    BY <1>4, <1>5 DEF Listed, ListOK
  <2>4. /\ \A a, b \in DOMAIN log : a < b => log[a].seq < log[b].seq
        /\ \A n \in DOMAIN log : 0 < log[n].seq /\ log[n].seq <= messagesSeq
    BY DEF Listed, ListOK, Rise
  <2>. QED  BY <1>2, <1>4, <2>2, <2>3, <2>4 DEF ListOK, IsInsert, Rise
<1>11. \A n \in DOMAIN log : n \in Nat
  BY LogType DEF Typed
<1>12. AnswersOK'
  <2>1. ASSUME NEW n \in DOMAIN log, n > m
        PROVE  \E j \in DOMAIN conn'[1] : Answers(j, n)'
    <3>1. n > Heard
      BY <1>3, <1>4, <1>11, <2>1
    <3>2. PICK j \in DOMAIN conn[1] : Answers(j, n)
      BY <3>1 DEF Listed, AnswersOK
    <3>3. j # 1
      <4>1. SUFFICES ASSUME j = 1 PROVE FALSE
        OBVIOUS
      <4>2. log[n] = log[m]
        BY <1>1, <1>5, <3>2, <4>1 DEF Answers
      <4>. QED  BY <1>4, <1>5, <1>11, <2>1, <4>2 DEF Recorded, LogOK
    <3>4. j - 1 \in DOMAIN conn'[1] /\ (j - 1) + 1 = j
      BY <1>7, <3>2, <3>3
    <3>5. PICK i \in DOMAIN conn'[1] : i + 1 = j
      BY <3>4
    <3>. QED  BY <1>9, <3>2, <3>5
  <2>2. ASSUME NEW j \in DOMAIN conn'[1],
               conn'[1][j].kind = "insert", conn'[1][j].state \in {"done", "lost"}
        PROVE  \E n \in DOMAIN log : n > m /\ Answers(j, n)'
    <3>1. PICK i : i = j + 1
      OBVIOUS
    <3>2. i \in DOMAIN conn[1] /\ conn[1][i] = conn'[1][j] /\ i # 1
      BY <1>6, <1>7, <3>1
    <3>3. PICK n \in DOMAIN log : n > Heard /\ Answers(i, n)
      BY <2>2, <3>2 DEF Listed, AnswersOK, IsInsert, IsDone
    <3>4. n # m
      BY <1>5, <3>2, <3>3
    <3>5. n > m
      BY <1>3, <1>4, <1>11, <3>3, <3>4
    <3>. QED  BY <1>9, <3>1, <3>3, <3>5
  <2>3. ASSUME NEW a \in DOMAIN conn'[1], NEW b \in DOMAIN conn'[1], a < b,
               conn'[1][a].kind = "insert", conn'[1][a].state \in {"done", "lost"},
               conn'[1][b].kind = "insert", conn'[1][b].state \in {"done", "lost"}
        PROVE  conn'[1][a].seq < conn'[1][b].seq
    <3>1. /\ a + 1 \in DOMAIN conn[1] /\ conn'[1][a] = conn[1][a + 1]
          /\ b + 1 \in DOMAIN conn[1] /\ conn'[1][b] = conn[1][b + 1]
          /\ a + 1 < b + 1
      BY <1>6, <1>7, <2>3
    <3>. QED  BY <2>3, <3>1 DEF Listed, AnswersOK, IsInsert, IsDone
  <2>. QED  BY <1>2, <1>4, <2>1, <2>2, <2>3 DEF AnswersOK, IsInsert, IsDone
<1>13. \A j \in DOMAIN conn'[1], n \in DOMAIN log : Before(n, j)' <=> Before(n, j + 1)
  <2>1. SUFFICES ASSUME NEW j \in DOMAIN conn'[1], NEW n \in DOMAIN log
                 PROVE  Before(n, j)' <=> Before(n, j + 1)
    OBVIOUS
  <2>2. j \in Nat /\ j > 0 /\ n \in Nat
    BY <1>6, <1>11
  <2>3. ASSUME n <= m PROVE Before(n, j + 1)
    <3>1. n <= Heard \/ n = m
      BY <1>3, <1>4, <2>2, <2>3
    <3>2. n = m => 1 \in DOMAIN conn[1] /\ 1 < j + 1 /\ Answers(1, n)
      BY <1>1, <1>5, <2>2 DEF Answers, Answered
    <3>. QED  BY <3>1, <3>2 DEF Before
  <2>4. ASSUME NEW i \in DOMAIN conn'[1], i < j, Answers(i, n)' PROVE Before(n, j + 1)
    <3>1. i + 1 \in DOMAIN conn[1] /\ i + 1 < j + 1 /\ Answers(i + 1, n)
      BY <1>6, <1>7, <1>9, <2>2, <2>4
    <3>. QED  BY <3>1 DEF Before
  <2>5. ASSUME NEW i \in DOMAIN conn[1], i < j + 1, Answers(i, n)
        PROVE  n <= m \/ \E g \in DOMAIN conn'[1] : g < j /\ Answers(g, n)'
    <3>1. CASE i = 1
      <4>1. log[n] = log[m]
        BY <1>1, <1>5, <2>5, <3>1 DEF Answers
      <4>. QED  BY <1>4, <1>5, <2>2, <4>1 DEF Recorded, LogOK
    <3>2. CASE i # 1
      <4>1. i > 1 /\ i - 1 \in DOMAIN conn'[1] /\ (i - 1) + 1 = i
        BY <1>7, <3>2
      <4>2. PICK g \in DOMAIN conn'[1] : g + 1 = i
        BY <4>1
      <4>3. g < j
        BY <1>6, <2>2, <2>5, <4>2
      <4>. QED  BY <1>9, <2>5, <4>2, <4>3
    <3>. QED  BY <3>1, <3>2
  <2>6. n <= Heard => n <= m
    BY <1>3, <1>4, <2>2
  <2>7. Before(n, j)' <=> n <= m \/ \E i \in DOMAIN conn'[1] : i < j /\ Answers(i, n)'
    BY <1>4 DEF Before
  <2>. QED  BY <2>3, <2>4, <2>5, <2>6, <2>7 DEF Before
<1>14. FoundOK'
  <2>1. ASSUME NEW j \in DOMAIN conn'[1], NEW found, found = conn'[1][j].found,
               conn'[1][j].kind \in {"page", "watch"}, conn'[1][j].state \in {"done", "lost"}
        PROVE  /\ Rise(found)
               /\ \A i \in DOMAIN found : \E n \in DOMAIN log : log[n] = found[i] /\ Before(n, j)'
               /\ \A n \in DOMAIN log : Before(n, j)' =>
                      log[n].msg \in gone \/ \E i \in DOMAIN found : found[i] = log[n]
    <3>1. j + 1 \in DOMAIN conn[1] /\ conn[1][j + 1] = conn'[1][j]
      BY <1>7
    <3>2. /\ Rise(found)
          /\ \A i \in DOMAIN found : \E n \in DOMAIN log : log[n] = found[i] /\ Before(n, j + 1)
          /\ \A n \in DOMAIN log : Before(n, j + 1) =>
                 log[n].msg \in gone \/ \E i \in DOMAIN found : found[i] = log[n]
      BY <2>1, <3>1 DEF Listed, FoundOK, IsSelect, IsDone
    <3>. QED  BY <1>13, <3>2
  <2>2. \A j \in DOMAIN conn'[1] :
            conn'[1][j].kind \in {"page", "watch"} /\ conn'[1][j].state \in {"done", "lost"} =>
            /\ Rise(conn'[1][j].found)
            /\ \A i \in DOMAIN conn'[1][j].found :
                   \E n \in DOMAIN log : log[n] = conn'[1][j].found[i] /\ Before(n, j)'
            /\ \A n \in DOMAIN log : Before(n, j)' =>
                   \/ log[n].msg \in gone
                   \/ \E i \in DOMAIN conn'[1][j].found : conn'[1][j].found[i] = log[n]
    BY <2>1
  <2>. QED  BY <1>2, <2>2 DEF FoundOK, IsSelect, IsDone, Rise
<1>15. RowsOK'
  BY <1>2 DEF Listed, RowsOK
<1>. QED  BY <1>10, <1>12, <1>14, <1>15 DEF Listed

LEMMA InitListed == Init => Listed
<1>1. SUFFICES ASSUME Init PROVE Listed
  OBVIOUS
<1>2. DOMAIN conn[1] = {}
  BY <1>1, SizesAssumption DEF Init
<1>3. DOMAIN log = {} /\ DOMAIN heard = {}
  BY <1>1 DEF Init
<1>. QED  BY <1>2, <1>3 DEF Listed, ListOK, AnswersOK, FoundOK, RowsOK, Rise

LEMMA ListedStep ==
    ASSUME Typed, Typed', Recorded, Listed, pool = 1, [Next]_vars
    PROVE  Listed'
<1>1. ASSUME NEW i \in DOMAIN conn[1],
             \/ InsertBegins(1, i) \/ InsertCommits(1, i) \/ InsertFails(1, i)
             \/ AnswerLost(1, i) \/ SelectRuns(1, i) \/ SelectFails(1, i)
      PROVE  Listed'
  BY <1>1, BeginsListed, CommitsListed, SelectListed, FailsListed, LostListed,
     SelectFailsListed
<1>0. 1 \in 1 .. pool
  OBVIOUS
<1>2. ASSUME Answer(1) PROVE Listed'
  <2>1. CASE InsertFailed(1)
    <3>1. PICK p \in Posts :
              /\ Answered(1) /\ conn[1][1].state \in {"lost", "failed"}
              /\ conn[1][1].state = "failed" => post' = [post EXCEPT ![p].pc = "over"]
              /\ conn[1][1].state = "failed" => heard' = heard
      BY <1>0, <2>1, InsertFailedEffect DEF Typed
    <3>2. CASE conn[1][1].state = "lost"
      BY <1>0, <2>1, <3>2, LostHandled, HandledListed
    <3>3. CASE conn[1][1].state = "failed"
      <4>1. post' = [post EXCEPT ![p].pc = "over"] /\ heard' = heard
        BY <3>1, <3>3
      <4>2. \A q \in Posts : post'[q].next = post[q].next
        BY <4>1 DEF Typed, TypeOK
      <4>3. UNCHANGED <<rows, messagesSeq, gone>> /\ Quiet
        BY <2>1, <4>1, <4>2 DEF InsertFailed, db, Quiet
      <4>. QED  BY <3>1, <3>3, <4>3, AnsweredListed DEF IsDone
    <3>. QED  BY <3>1, <3>2, <3>3
  <2>2. CASE Paged(1)
    <3>1. Answered(1) /\ conn[1][1].kind = "page"
      BY <1>0, <2>2, PagedEffect DEF Typed
    <3>2. UNCHANGED <<rows, messagesSeq, gone>> /\ Quiet
      BY <2>2, Zenon DEF Paged, db, hist, Quiet
    <3>. QED  BY <3>1, <3>2, AnsweredListed DEF IsInsert
  <2>3. CASE Replayed(1)
    <3>1. Answered(1) /\ conn[1][1].kind = "watch"
      BY <1>0, <2>3, ReplayedEffect, Zenon DEF Typed
    <3>2. UNCHANGED <<rows, messagesSeq, gone>> /\ Quiet
      BY <2>3, Zenon DEF Replayed, db, hist, Quiet
    <3>. QED  BY <3>1, <3>2, AnsweredListed DEF IsInsert
  <2>4. CASE PageFailed(1) \/ ReplayFailed(1)
    <3>1. /\ Answered(1) /\ ~IsInsert(1, 1)
          /\ UNCHANGED <<rows, messagesSeq, gone, post, log, heard>>
      BY <1>0, <2>4, FailedFields, Zenon DEF Typed, db, hist
    <3>. QED  BY <3>1, AnsweredListed DEF Quiet
  <2>5. CASE Inserted(1)
    BY <1>0, <2>5, InsertedHandled, HandledListed
  <2>. QED  BY <1>2, <2>1, <2>2, <2>3, <2>4, <2>5 DEF Answer
<1>3. ASSUME NEW p \in Posts, Insert(p, 1) PROVE Listed'
  <2>1. post' = [post EXCEPT ![p].pc = "waiting"]
        /\ \E s \in Insertion : Queued(1, s) /\ s.state = "sent"
    BY <1>0, <1>3, InsertEffect DEF Typed
  <2>2. \A q \in Posts : post'[q].next = post[q].next
    BY <2>1 DEF Typed, TypeOK
  <2>3. UNCHANGED <<rows, messagesSeq, gone>> /\ Quiet
    BY <1>3, <2>2 DEF Insert, db, hist, Quiet
  <2>. QED  BY <2>1, <2>3, QueuedListed
<1>4. ASSUME NEW c \in Clients, AskPage(c, 1) \/ Watch(c, 1) PROVE Listed'
  <2>0. \E s \in Selection, pc \in {"paging", "following"} :
            /\ Queued(1, s) /\ s.by = c /\ s.state = "sent"
            /\ s.kind = IF pc = "paging" THEN "page" ELSE "watch"
            /\ client[c].pc = "idle"
            /\ pc = "paging" => (client[c].joined => client[c].cursor > 0)
            /\ pc = "following" => client[c].cursor > 0
            /\ client' = [client EXCEPT ![c].pc = pc, ![c].reads = @ + 1]
    BY <1>0, <1>4, AskEffect DEF Typed
  <2>1. \E s \in Selection : Queued(1, s) /\ s.state = "sent"
    BY <2>0
  <2>2. UNCHANGED <<rows, messagesSeq, gone>> /\ Quiet
    BY <1>4 DEF AskPage, Watch, db, hist, Quiet
  <2>. QED  BY <2>1, <2>2, QueuedListed
<1>5. ASSUME NEW c \in Clients, WatchNow(c) \/ Close(c) PROVE Listed'
  <2>1. UNCHANGED <<conn, messagesSeq, post, log, heard, gone, rows>>
    BY <1>5 DEF WatchNow, Close, db, hist
  <2>. QED  BY <2>1, ClientListed
<1>6. ASSUME NEW r \in rows, Vanish(r) PROVE Listed'
  BY <1>6, ClientListed DEF Vanish
<1>7. CASE UNCHANGED vars
  BY <1>7, ClientListed DEF vars
<1>8. \A k \in 1 .. pool : k = 1
  OBVIOUS
<1>. QED  BY <1>1, <1>2, <1>3, <1>4, <1>5, <1>6, <1>7, <1>8 DEF Next, Database

-------------------------------------------------------------------------------
(* One connection: how far into the log the clients are.                   *)

LEMMA HeardListed ==
    ASSUME Typed, Listed
    PROVE  Heard <= Len(log) /\ 1 .. Heard \subseteq DOMAIN log
<1>1. /\ Heard \in Nat /\ Len(log) \in Nat
      /\ DOMAIN log = 1 .. Len(log) /\ DOMAIN heard = 1 .. Heard
  BY LogType DEF Typed
<1>2. \A h \in 1 .. Heard : h \in 1 .. Len(log)
  BY <1>1 DEF Listed, ListOK
<1>. QED  BY <1>1, <1>2

\* The rows behind a client's place are those behind its cursor.
LEMMA CursorPlace ==
    ASSUME Typed, Listed, NEW c \in Clients, NEW p \in Nat, At(c, p),
           got[c] = <<>> => p = 0
    PROVE  \A n \in DOMAIN log : n > p <=> log[n].seq > client[c].cursor
<1>1. SUFFICES ASSUME NEW n \in DOMAIN log PROVE n > p <=> log[n].seq > client[c].cursor
  OBVIOUS
<1>2. n \in Nat /\ n > 0 /\ log[n].seq \in Nat /\ log[n].seq > 0
  BY LogType DEF Typed, Listed, ListOK
<1>3. CASE got[c] = <<>>
  BY <1>2, <1>3 DEF At
<1>4. CASE got[c] # <<>>
  <2>1. p \in DOMAIN log /\ log[p].seq = client[c].cursor
    BY <1>4 DEF At
  <2>2. log[p].seq \in Nat
    BY <2>1, LogType DEF Typed
  <2>3. n > p => log[n].seq > log[p].seq
    BY <1>2, <2>1, <2>2 DEF Listed, ListOK, Rise
  <2>4. n < p => log[n].seq < log[p].seq
    BY <2>1 DEF Listed, ListOK, Rise
  <2>5. n > p \/ n = p \/ n < p
    BY <1>2
  <2>. QED  BY <1>2, <2>1, <2>2, <2>3, <2>4, <2>5
<1>. QED  BY <1>3, <1>4

\* These items are the next ones of the log behind place p, but for some of those left
\* out.
Steps(items, p, at, out) ==
    /\ \A j \in DOMAIN items : items[j] = log[at[j]]
    /\ \A i, j \in DOMAIN items : i < j => at[i] < at[j]
    /\ \A j \in DOMAIN items : \A n \in p + 1 .. at[j] :
           log[n].msg \in out \/ \E i \in DOMAIN items : at[i] = n

\* They are the last that was heard.
Reaches(items, p, at) ==
    \A n \in p + 1 .. Heard : log[n].msg \in gone \/ \E i \in DOMAIN items : at[i] = n

\* Place p is the one of the cursor; a list found is what was heard, but for what
\* is gone; the buffer is of what was heard behind place p.
Splits(p, cursor) == \A n \in DOMAIN log : n > p <=> log[n].seq > cursor
Heads(found) ==
    /\ Rise(found)
    /\ \A j \in DOMAIN found : \E n \in 1 .. Heard : log[n] = found[j]
    /\ \A n \in 1 .. Heard :
           log[n].msg \in gone \/ \E j \in DOMAIN found : found[j] = log[n]
Catches(buffer, p) ==
    /\ Rise(buffer)
    /\ \A j \in DOMAIN buffer : \E n \in p + 1 .. Heard : log[n] = buffer[j]

LEMMA ItemPlaces ==
    ASSUME Typed, Listed, NEW p \in 0 .. Heard, NEW cursor \in Nat,
           Splits(p, cursor), NEW found \in Seq(Row), Heads(found),
           NEW buffer, Catches(buffer, p), NEW items, News(items, found, cursor, buffer)
    PROVE  \E at \in [DOMAIN items -> p + 1 .. Heard] :
               /\ Steps(items, p, at, gone)
               /\ Complete(items, found, cursor) => Reaches(items, p, at)
<1>. USE DEF Splits, Heads, Catches
<1>1. PICK h : h = Heard /\ h \in Nat /\ p \in Nat
  BY LogType DEF Typed
<1>2. /\ \A n \in 1 .. h : n \in DOMAIN log /\ n \in Nat
      /\ \A n \in p + 1 .. h : n \in 1 .. h /\ n > p
      /\ \A n \in 1 .. h : n > p => n \in p + 1 .. h
      /\ \A n \in DOMAIN log : n \in Nat /\ log[n].seq \in Nat
  BY <1>1, HeardListed, LogType DEF Typed
<1>3. \A a, b \in DOMAIN log : a < b <=> log[a].seq < log[b].seq
  <2>1. ASSUME NEW a \in DOMAIN log, NEW b \in DOMAIN log
        PROVE  a < b <=> log[a].seq < log[b].seq
    <3>1. a < b => log[a].seq < log[b].seq
      BY DEF Listed, ListOK, Rise
    <3>2. b < a => log[b].seq < log[a].seq
      BY DEF Listed, ListOK, Rise
    <3>3. a \in Nat /\ b \in Nat /\ log[a].seq \in Nat /\ log[b].seq \in Nat
      BY <1>2
    <3>. QED  BY <3>1, <3>2, <3>3
  <2>. QED  BY <2>1
<1>4. \A a, b \in DOMAIN log : log[a] = log[b] => a = b
  <2>1. ASSUME NEW a \in DOMAIN log, NEW b \in DOMAIN log, log[a] = log[b]
        PROVE  a = b
    <3>1. ~(a < b) /\ ~(b < a) /\ a \in Nat /\ b \in Nat
      BY <1>2, <1>3, <2>1
    <3>. QED  BY <3>1
  <2>. QED  BY <2>1
<1>5. ASSUME NEW j \in DOMAIN items
      PROVE  \E n \in p + 1 .. h : log[n] = items[j]
  <2>1. CASE \E i \in DOMAIN buffer : items[j] = buffer[i]
    BY <1>1, <2>1
  <2>2. CASE \E i \in DOMAIN found : items[j] = found[i] /\ found[i].seq > cursor
    <3>1. PICK i \in DOMAIN found : items[j] = found[i] /\ found[i].seq > cursor
      BY <2>2
    <3>2. PICK n \in 1 .. h : log[n] = found[i]
      BY <1>1
    <3>3. n > p
      BY <1>2, <3>1, <3>2
    <3>. QED  BY <1>2, <3>1, <3>2, <3>3
  <2>. QED  BY <2>1, <2>2 DEF News
<1>6. PICK at : at = [j \in DOMAIN items |-> CHOOSE n \in p + 1 .. h : log[n] = items[j]]
  OBVIOUS
<1>7. /\ at \in [DOMAIN items -> p + 1 .. h]
      /\ \A j \in DOMAIN items : at[j] \in p + 1 .. h /\ log[at[j]] = items[j]
  <2>1. \A j \in DOMAIN items :
            (CHOOSE n \in p + 1 .. h : log[n] = items[j]) \in p + 1 .. h
            /\ log[CHOOSE n \in p + 1 .. h : log[n] = items[j]] = items[j]
    BY <1>5
  <2>. QED  BY <1>6, <2>1
<1>8. Rise(items) /\ \A i \in DOMAIN found, j \in DOMAIN items :
          cursor < found[i].seq /\ found[i].seq <= items[j].seq =>
              \E l \in DOMAIN items : items[l] = found[i]
  BY DEF News
<1>9. \A i, j \in DOMAIN items : i < j => at[i] < at[j]
  <2>1. ASSUME NEW i \in DOMAIN items, NEW j \in DOMAIN items, i < j
        PROVE  at[i] < at[j]
    <3>1. items[i].seq < items[j].seq
      BY <1>8, <2>1 DEF Rise
    <3>2. at[i] \in DOMAIN log /\ at[j] \in DOMAIN log
      BY <1>2, <1>7
    <3>. QED  BY <1>3, <1>7, <3>1, <3>2
  <2>. QED  BY <2>1
\* What is found of the log is among the items if it is in their list.
<1>10. ASSUME NEW n \in p + 1 .. h, log[n].msg \notin gone,
              \A i \in DOMAIN found : found[i] = log[n] =>
                  \E l \in DOMAIN items : items[l] = found[i]
       PROVE  \E i \in DOMAIN items : at[i] = n
  <2>1. PICK i \in DOMAIN found : found[i] = log[n]
    BY <1>1, <1>2, <1>10
  <2>2. PICK l \in DOMAIN items : items[l] = found[i]
    BY <1>10, <2>1
  <2>3. at[l] \in DOMAIN log /\ n \in DOMAIN log /\ log[at[l]] = log[n]
    BY <1>2, <1>7, <2>1, <2>2
  <2>. QED  BY <1>4, <2>3
<1>11. ASSUME NEW j \in DOMAIN items, NEW n \in p + 1 .. at[j]
       PROVE  log[n].msg \in gone \/ \E i \in DOMAIN items : at[i] = n
  <2>1. PICK a : a = at[j] /\ a \in p + 1 .. h
    BY <1>7
  <2>2. a \in Nat /\ n \in p + 1 .. h /\ n <= a
    BY <1>1, <1>11, <2>1
  <2>3. n \in DOMAIN log /\ a \in DOMAIN log /\ n \in Nat /\ n > p
    BY <1>2, <2>1, <2>2
  <2>4. log[n].seq <= items[j].seq /\ log[n].seq > cursor
    <3>1. log[a] = items[j] /\ log[a].seq \in Nat /\ log[n].seq \in Nat
      BY <1>2, <1>7, <2>1, <2>3
    <3>2. ~(log[a].seq < log[n].seq)
      BY <1>3, <2>2, <2>3
    <3>. QED  BY <2>3, <3>1, <3>2
  <2>5. cursor < log[n].seq
    BY <1>2, <2>3, <2>4
  <2>6. \A i \in DOMAIN found : found[i] = log[n] =>
            \E l \in DOMAIN items : items[l] = found[i]
    BY <1>8, <2>4, <2>5
  <2>. QED  BY <1>10, <2>2, <2>6
<1>12. ASSUME Complete(items, found, cursor), NEW n \in p + 1 .. h
       PROVE  log[n].msg \in gone \/ \E i \in DOMAIN items : at[i] = n
  <2>1. n \in DOMAIN log /\ n > p
    BY <1>2
  <2>2. cursor < log[n].seq
    BY <1>2, <2>1
  <2>3. \A i \in DOMAIN found : found[i] = log[n] =>
            \E l \in DOMAIN items : items[l] = found[i]
    BY <1>12, <2>2 DEF Complete
  <2>. QED  BY <1>10, <2>3
<1>13. Steps(items, p, at, gone)
  BY <1>7, <1>9, <1>11 DEF Steps
<1>. QED  BY <1>1, <1>7, <1>12, <1>13 DEF Reaches

\* What a client is sent goes behind what it has.
Sends(c, items) ==
    /\ items \in Seq(Row) /\ Len(got'[c]) = Len(got[c]) + Len(items)
    /\ \A i \in DOMAIN got[c] : i \in DOMAIN got'[c] /\ got'[c][i] = got[c][i]
    /\ \A j \in DOMAIN items : got'[c][Len(got[c]) + j] = items[j].msg

\* Then it is where the last of them is.
LEMMA Advance ==
    ASSUME Typed, Typed', NEW c \in Clients, NEW p \in Nat, At(c, p),
           NEW items, Sends(c, items), NEW b \in Nat,
           NEW at \in [DOMAIN items -> p + 1 .. b], 1 .. b \subseteq DOMAIN log,
           NEW out, Steps(items, p, at, out), log' = log, base' = base,
           client'[c].joined = client[c].joined,
           client'[c].cursor = LastSeq(items, client[c].cursor)
    PROVE  At(c, IF items = <<>> THEN p ELSE at[Len(items)])'
<1>1. /\ got[c] \in Seq(Messages) /\ got'[c] \in Seq(Messages) /\ items \in Seq(Row)
  BY DEF Typed, TypeOK, Sends
<1>2. CASE items = <<>>
  <2>1. Len(got'[c]) = Len(got[c]) /\ \A i \in DOMAIN got[c] : got'[c][i] = got[c][i]
    <3>1. Len(items) = 0 /\ Len(got[c]) \in Nat
      BY <1>1, <1>2
    <3>. QED  BY <3>1 DEF Sends
  <2>2. got'[c] = got[c]
    <3>1. \A i \in 1 .. Len(got'[c]) : got'[c][i] = got[c][i]
      BY <1>1, <2>1
    <3>. QED  BY <1>1, <2>1, <3>1, SeqEqual
  <2>3. client'[c].cursor = client[c].cursor
    BY <1>2 DEF LastSeq
  <2>4. At(c, p)'
    BY <2>2, <2>3 DEF At
  <2>. QED  BY <1>2, <2>4
<1>3. CASE items # <<>>
  <2>1. PICK m : m = Len(items)
    OBVIOUS
  <2>2. m \in DOMAIN items /\ m \in Nat /\ m > 0
    BY <1>1, <1>3, <2>1
  <2>3. PICK q : q = at[m]
    OBVIOUS
  <2>4. q \in DOMAIN log /\ items[m] = log[q]
    <3>1. q \in p + 1 .. b
      BY <2>2, <2>3
    <3>2. q \in 1 .. b
      BY <3>1
    <3>. QED  BY <2>2, <2>3, <3>2 DEF Steps
  <2>5. client'[c].cursor = log[q].seq
    BY <1>3, <2>1, <2>4 DEF LastSeq
  <2>6. Len(got'[c]) = Len(got[c]) + m /\ got'[c][Len(got[c]) + m] = log[q].msg
    BY <2>1, <2>2, <2>4 DEF Sends
  <2>7. got'[c] # <<>>
    <3>1. Len(got'[c]) > 0
      <4>1. Len(got[c]) \in Nat
        BY <1>1
      <4>. QED  BY <2>2, <2>6, <4>1
    <3>. QED  BY <3>1
  <2>8. At(c, q)'
    BY <2>4, <2>5, <2>6, <2>7 DEF At
  <2>. QED  BY <1>3, <2>1, <2>3, <2>8
<1>. QED  BY <1>2, <1>3

\* What a client may be without.
Missed(c) == IF client[c].pc = "live" THEN gone \cup unsaid ELSE gone

\* What a client is sent in a step, if anything.
Given(c) ==
    \E items \in Seq(Row) :
        /\ Sends(c, items)
        /\ \A j \in DOMAIN items : InLog(items[j])
        /\ pool = 1 =>
               \E p \in 0 .. Heard :
                   /\ At(c, p)
                   /\ \E at \in [DOMAIN items -> p + 1 .. Len(log)] :
                          Steps(items, p, at, Missed(c))

\* What was stored by an INSERT whose answer is lost is not said.
LostOK ==
    \A k \in Conns : \A i \in DOMAIN conn[k] :
        IsInsert(k, i) /\ conn[k][i].state = "lost" => Stored(conn[k][i]).msg \in unsaid
Placed == LostOK /\ (pool = 1 => Listed /\ ClientOK)

LEMMA NothingSent ==
    ASSUME Typed, Placed, NEW c \in Clients, got'[c] = got[c]
    PROVE  Given(c)
<1>. PICK items : items = <<>>
  OBVIOUS
<1>1. items \in Seq(Row) /\ Len(items) = 0 /\ DOMAIN items = {}
  OBVIOUS
<1>2. Sends(c, items)
  <2>1. Len(got[c]) \in Nat
    BY DEF Typed, TypeOK
  <2>. QED  BY <1>1, <2>1 DEF Sends
<1>3. ASSUME pool = 1
      PROVE  \E p \in 0 .. Heard :
                 /\ At(c, p)
                 /\ \E at \in [DOMAIN items -> p + 1 .. Len(log)] :
                        Steps(items, p, at, Missed(c))
  <2>1. PICK p \in 0 .. Heard : At(c, p)
    BY <1>3 DEF Placed, ClientOK, PlaceOK
  <2>2. PICK at : at = [j \in DOMAIN items |-> j]
    OBVIOUS
  <2>3. at \in [DOMAIN items -> p + 1 .. Len(log)] /\ Steps(items, p, at, Missed(c))
    BY <1>1, <2>2 DEF Steps
  <2>. QED  BY <2>1, <2>3
<1>. QED  BY <1>1, <1>2, <1>3 DEF Given

\* A place stays one while nothing is heard and the client does as before.
LEMMA PlaceFrame ==
    ASSUME Typed, Listed, NEW c \in Clients, NEW p \in 0 .. Heard, PlaceOK(c, p),
           Heard' = Heard, gone \subseteq gone', unsaid \subseteq unsaid',
           \A n \in DOMAIN log : n \in DOMAIN log' /\ log'[n] = log[n],
           got'[c] = got[c], base'[c] = base[c],
           client'[c].cursor = client[c].cursor, client'[c].joined = client[c].joined,
           \/ client'[c].pc = client[c].pc /\ client'[c].buffer = client[c].buffer
           \/ /\ client'[c].buffer = <<>> /\ client'[c].pc # "live"
              /\ client'[c].pc = "following" => client'[c].cursor > 0
    PROVE  \E q \in 0 .. Heard' : PlaceOK(c, q)'
<1>1. \A n \in p + 1 .. Heard : n \in DOMAIN log
  <2>1. Heard \in Nat /\ p \in Nat
    BY LogType DEF Typed
  <2>2. \A n \in p + 1 .. Heard : n \in 1 .. Heard
    BY <2>1
  <2>. QED  BY <2>2, HeardListed
<1>2. At(c, p)'
  BY DEF PlaceOK, At
<1>3. CASE client'[c].pc = client[c].pc /\ client'[c].buffer = client[c].buffer
  <2>1. PlaceOK(c, p)'
    BY <1>1, <1>2, <1>3 DEF PlaceOK, Excused, Rise
  <2>. QED  BY <2>1
<1>4. CASE /\ client'[c].buffer = <<>> /\ client'[c].pc # "live"
           /\ client'[c].pc = "following" => client'[c].cursor > 0
  <2>1. PlaceOK(c, p)'
    BY <1>2, <1>4 DEF PlaceOK, Rise
  <2>. QED  BY <2>1
<1>. QED  BY <1>3, <1>4

LEMMA FoundHead ==
    ASSUME Typed, Listed, 1 \in DOMAIN conn[1], IsSelect(1, 1), IsDone(1, 1),
           NEW found, found = conn[1][1].found
    PROVE  Heads(found)
<1>1. \A j \in DOMAIN conn[1] : ~(j < 1)
  BY ListConn DEF Typed
<1>2. \A n : Before(n, 1) <=> n <= Heard
  BY <1>1 DEF Before
<1>3. /\ Rise(found)
      /\ \A j \in DOMAIN found : \E n \in DOMAIN log : log[n] = found[j] /\ Before(n, 1)
      /\ \A n \in DOMAIN log : Before(n, 1) =>
             log[n].msg \in gone \/ \E j \in DOMAIN found : found[j] = log[n]
  BY DEF Listed, FoundOK
<1>4. Heard \in Nat /\ \A n \in DOMAIN log : n \in Nat /\ n > 0
  BY LogType DEF Typed
<1>5. \A n \in DOMAIN log : n <= Heard => n \in 1 .. Heard
  BY <1>4
<1>6. \A n \in 1 .. Heard : n \in DOMAIN log /\ n <= Heard
  BY HeardListed, <1>4
<1>. QED  BY <1>2, <1>3, <1>5, <1>6 DEF Heads

LEMMA InsertedClients ==
    ASSUME Typed, Typed', Recorded, Placed, NEW k \in 1 .. pool, Inserted(k)
    PROVE  (\A c \in Clients : Given(c)) /\ (pool = 1 => ClientOK')
<1>1. PICK p \in Posts, item \in Row :
          /\ Answered(k) /\ IsInsert(k, 1) /\ IsDone(k, 1)
          /\ item = Stored(conn[k][1])
          /\ client' = [c \in Clients |-> Notified(client[c], item)]
          /\ got' = [c \in Clients |-> Sent(c, item)]
          /\ heard' = Append(heard, item.msg)
  BY InsertedEffect DEF Typed
<1>2. \A c \in Clients :
          /\ client'[c].pc = client[c].pc /\ client'[c].joined = client[c].joined
          /\ client'[c].cursor = IF client[c].pc = "live" THEN item.seq ELSE client[c].cursor
          /\ client'[c].buffer = IF client[c].pc = "following"
                                 THEN Append(client[c].buffer, item) ELSE client[c].buffer
          /\ got'[c] = IF client[c].pc = "live" THEN Append(got[c], item.msg) ELSE got[c]
  BY <1>1, NotifiedFields DEF Typed
<1>3. log' = log /\ gone' = gone /\ unsaid' = unsaid /\ base' = base
  BY DEF Inserted
<1>4. k \in Conns /\ 1 \in DOMAIN conn[k]
  BY <1>1 DEF Answered
<1>5. InLog(item)
  BY <1>1, <1>4 DEF Recorded, HeldOK
<1>6. PICK items : items = <<item>>
  OBVIOUS
<1>7. /\ items \in Seq(Row) /\ Len(items) = 1 /\ DOMAIN items = {1} /\ items[1] = item
      /\ items # <<>>
  BY <1>6
<1>8. \A c \in Clients : client[c].pc = "live" => Sends(c, items)
  <2>1. ASSUME NEW c \in Clients, client[c].pc = "live"
        PROVE  Sends(c, items)
    <3>1. got[c] \in Seq(Messages) /\ item.msg \in Messages
      BY DEF Typed, TypeOK, Row
    <3>2. got'[c] = Append(got[c], item.msg)
      BY <1>2, <2>1
    <3>. QED  BY <1>7, <3>1, <3>2 DEF Sends
  <2>. QED  BY <2>1
<1>9. CASE pool # 1
  <2>1. \A c \in Clients : client[c].pc = "live" => Given(c)
    BY <1>5, <1>7, <1>8, <1>9 DEF Given
  <2>2. \A c \in Clients : client[c].pc # "live" => Given(c)
    BY <1>2, NothingSent
  <2>. QED  BY <1>9, <2>1, <2>2
<1>10. CASE pool = 1
  <2>1. k = 1 /\ Listed /\ ClientOK
    BY <1>10 DEF Placed
  <2>2. PICK h, m : h = Heard /\ m = Heard + 1
    OBVIOUS
  <2>3. /\ h \in Nat /\ m \in Nat /\ m = h + 1 /\ Heard' = m
        /\ Len(log) \in Nat /\ DOMAIN log = 1 .. Len(log)
        /\ \A n \in DOMAIN log : log[n].seq \in Nat
    <3>1. heard \in Seq(Messages) /\ item.msg \in Messages
      BY DEF Typed, TypeOK, Row
    <3>2. h \in Nat /\ Heard' = h + 1
      BY <1>1, <2>2, <3>1 DEF Heard
    <3>. QED  BY <2>2, <3>2, LogType DEF Typed
  <2>4. m \in DOMAIN log /\ log[m] = item
    <3>1. m \in DOMAIN log /\ Answers(1, m)
      BY <1>1, <1>4, <2>1, <2>2, NextHeard
    <3>. QED  BY <1>1, <2>1, <3>1 DEF Answers
  <2>5. 1 .. m \subseteq DOMAIN log
    BY <2>3, <2>4
  <2>6. ASSUME NEW c \in Clients, client[c].pc = "live"
        PROVE  Given(c) /\ \E q \in 0 .. Heard' : PlaceOK(c, q)'
    <3>1. PICK q \in 0 .. h : PlaceOK(c, q)
      BY <2>1, <2>2 DEF ClientOK
    <3>2. /\ At(c, q) /\ client[c].buffer = <<>> /\ q \in Nat
          /\ \A n \in q + 1 .. h : log[n].msg \in Missed(c)
      BY <2>2, <2>3, <2>6, <3>1 DEF PlaceOK, Excused, Missed
    <3>3. PICK at : at = [j \in DOMAIN items |-> m]
      OBVIOUS
    <3>4. at \in [DOMAIN items -> q + 1 .. m] /\ at[1] = m
      BY <1>7, <2>3, <3>1, <3>2, <3>3
    <3>5. Steps(items, q, at, Missed(c))
      <4>1. \A n \in q + 1 .. m : n \in q + 1 .. h \/ n = m
        BY <2>3, <3>2
      <4>. QED  BY <1>7, <2>4, <3>2, <3>4, <4>1 DEF Steps
    <3>6. at \in [DOMAIN items -> q + 1 .. Len(log)]
      <4>1. \A n \in q + 1 .. m : n \in q + 1 .. Len(log)
        BY <2>3, <2>4, <3>2
      <4>. QED  BY <3>4, <4>1
    <3>7. q \in 0 .. Heard /\ \A j \in DOMAIN items : InLog(items[j])
      BY <1>5, <1>7, <2>2
    <3>8. Given(c)
      BY <1>7, <1>8, <2>6, <3>2, <3>5, <3>6, <3>7 DEF Given
    <3>9. client'[c].cursor = LastSeq(items, client[c].cursor)
      BY <1>2, <1>7, <2>6 DEF LastSeq
    <3>10. At(c, m)'
      <4>1. Sends(c, items)
        BY <1>8, <2>6
      <4>2. At(c, IF items = <<>> THEN q ELSE at[Len(items)])'
        BY <1>2, <1>3, <2>3, <2>5, <3>2, <3>4, <3>5, <3>9, <4>1, Advance
      <4>3. (IF items = <<>> THEN q ELSE at[Len(items)]) = m
        BY <1>7, <3>4
      <4>. QED  BY <4>2, <4>3
    <3>11. PlaceOK(c, m)'
      <4>1. client'[c].pc = "live" /\ client'[c].buffer = <<>>
        BY <1>2, <2>6, <3>2
      <4>2. \A n \in m + 1 .. m : FALSE
        BY <2>3
      <4>. QED  BY <2>3, <3>10, <4>1, <4>2 DEF PlaceOK
    <3>. QED  BY <2>3, <3>8, <3>11
  <2>7. ASSUME NEW c \in Clients, client[c].pc = "following"
        PROVE  \E q \in 0 .. Heard' : PlaceOK(c, q)'
    <3>1. PICK q \in 0 .. h : PlaceOK(c, q)
      BY <2>1, <2>2 DEF ClientOK
    <3>2. PICK b : b = client[c].buffer
      OBVIOUS
    <3>3. /\ At(c, q) /\ q \in Nat /\ client[c].cursor > 0 /\ Rise(b)
          /\ \A j \in DOMAIN b : \E n \in q + 1 .. h : log[n] = b[j]
      BY <2>2, <2>3, <2>7, <3>1, <3>2 DEF PlaceOK
    <3>4. At(c, q)'
      BY <1>2, <1>3, <2>7, <3>3 DEF At
    <3>5. /\ b \in Seq(Row) /\ client'[c].buffer = Append(b, item)
      <4>1. client[c] \in Client
        BY DEF Typed, TypeOK
      <4>. QED  BY <1>2, <2>7, <3>2, <4>1 DEF Client
    <3>6. PICK l, s : l = Len(b) /\ s = Append(b, item)
      OBVIOUS
    <3>7. /\ l \in Nat /\ DOMAIN b = 1 .. l /\ DOMAIN s = 1 .. l + 1 /\ s[l + 1] = item
          /\ \A j \in 1 .. l : s[j] = b[j]
          /\ \A j \in 1 .. l + 1 : j \in 1 .. l \/ j = l + 1
      BY <3>5, <3>6
    <3>8. \A j \in 1 .. l : s[j].seq < item.seq
      <4>1. SUFFICES ASSUME NEW j \in 1 .. l PROVE b[j].seq < item.seq
        BY <3>7
      <4>2. PICK n \in q + 1 .. h : log[n] = b[j]
        BY <3>3, <3>7
      <4>3. n \in DOMAIN log /\ n < m
        <5>1. n \in 1 .. m /\ n < m
          BY <2>3, <3>3
        <5>. QED  BY <2>5, <5>1
      <4>. QED  BY <2>1, <2>4, <4>2, <4>3 DEF Listed, ListOK, Rise
    <3>9. Rise(s)
      <4>1. \A i, j \in 1 .. l : i < j => b[i].seq < b[j].seq
        BY <3>3, <3>7 DEF Rise
      <4>2. \A i, j \in 1 .. l + 1 : i < j => i \in 1 .. l
        BY <3>7
      <4>. QED  BY <3>7, <3>8, <4>1, <4>2 DEF Rise
    <3>10. \A j \in DOMAIN s : \E n \in q + 1 .. m : log[n] = s[j]
      <4>1. m \in q + 1 .. m /\ \A n \in q + 1 .. h : n \in q + 1 .. m
        BY <2>3, <3>1, <3>3
      <4>. QED  BY <2>4, <3>3, <3>7, <4>1
    <3>11. PlaceOK(c, q)'
      <4>1. client'[c].pc = "following" /\ client'[c].cursor > 0 /\ client'[c].buffer = s
        BY <1>2, <2>7, <3>3, <3>5, <3>6
      <4>. QED  BY <1>3, <2>3, <3>4, <3>9, <3>10, <4>1 DEF PlaceOK, Rise
    <3>12. q \in 0 .. Heard'
      BY <2>3, <3>1
    <3>. QED  BY <3>11, <3>12
  <2>8. ASSUME NEW c \in Clients, client[c].pc \notin {"live", "following"}
        PROVE  \E q \in 0 .. Heard' : PlaceOK(c, q)'
    <3>1. PICK q \in 0 .. h : PlaceOK(c, q)
      BY <2>1, <2>2 DEF ClientOK
    <3>2. PlaceOK(c, q)'
      BY <1>2, <1>3, <2>8, <3>1 DEF PlaceOK, At
    <3>3. q \in 0 .. Heard'
      BY <2>3, <3>1
    <3>. QED  BY <3>2, <3>3
  <2>9. \A c \in Clients : client[c].pc # "live" => Given(c)
    BY <1>2, NothingSent
  <2>10. \A c \in Clients : \E q \in 0 .. Heard' : PlaceOK(c, q)'
    BY <2>6, <2>7, <2>8
  <2>. QED  BY <2>6, <2>9, <2>10 DEF ClientOK
<1>. QED  BY <1>9, <1>10

LEMMA HandedSends ==
    ASSUME Typed, NEW c \in Clients, NEW items \in Seq(Row),
           got' = [got EXCEPT ![c] = @ \o Texts(items)]
    PROVE  Sends(c, items) /\ \A d \in Clients \ {c} : got'[d] = got[d]
<1>1. got'[c] = got[c] \o Texts(items) /\ \A d \in Clients \ {c} : got'[d] = got[d]
  BY HandedGot DEF Typed
<1>2. PICK t, g : t = Texts(items) /\ g = got[c]
  OBVIOUS
<1>3. /\ t \in Seq(Messages) /\ Len(t) = Len(items)
      /\ \A i \in DOMAIN items : t[i] = items[i].msg
  <2>1. 0 \in Nat
    OBVIOUS
  <2>. QED  BY <1>2, <2>1, TextsType
<1>4. g \in Seq(Messages)
  BY <1>2 DEF Typed, TypeOK
<1>5. PICK a, b : a = Len(g) /\ b = Len(items)
  OBVIOUS
<1>6. a \in Nat /\ b \in Nat /\ DOMAIN g = 1 .. a /\ DOMAIN items = 1 .. b
  BY <1>4, <1>5
<1>7. /\ Len(g \o t) = a + b /\ DOMAIN (g \o t) = 1 .. a + b
      /\ \A i \in 1 .. a + b : (g \o t)[i] = IF i <= a THEN g[i] ELSE t[i - a]
  <2>1. /\ Len(g \o t) = Len(g) + Len(t)
        /\ \A i \in 1 .. Len(g) + Len(t) :
               (g \o t)[i] = IF i <= Len(g) THEN g[i] ELSE t[i - Len(g)]
    BY <1>3, <1>4, ConcatProperties
  <2>2. (g \o t) \in Seq(Messages)
    BY <1>3, <1>4
  <2>. QED  BY <1>3, <1>5, <1>6, <2>1, <2>2
<1>8. \A i \in 1 .. a : i \in 1 .. a + b /\ (g \o t)[i] = g[i]
  BY <1>6, <1>7
<1>9. ASSUME NEW j \in 1 .. b PROVE (g \o t)[a + j] = items[j].msg
  <2>1. a + j \in 1 .. a + b /\ ~(a + j <= a) /\ (a + j) - a = j
    BY <1>6
  <2>. QED  BY <1>3, <1>6, <1>7, <2>1
<1>10. got'[c] = g \o t /\ Len(got'[c]) = Len(got[c]) + Len(items)
  BY <1>1, <1>2, <1>5, <1>7
<1>11. \A i \in DOMAIN got[c] : i \in DOMAIN got'[c] /\ got'[c][i] = got[c][i]
  BY <1>2, <1>6, <1>7, <1>8, <1>10
<1>12. \A j \in DOMAIN items : got'[c][Len(got[c]) + j] = items[j].msg
  BY <1>2, <1>5, <1>6, <1>9, <1>10
<1>. QED  BY <1>1, <1>10, <1>11, <1>12 DEF Sends

\* A client gets a page or a replay.
LEMMA HandedClients ==
    ASSUME Typed, Typed', Recorded, Placed, NEW k \in 1 .. pool,
           1 \in DOMAIN conn[k], IsSelect(k, 1), IsDone(k, 1),
           NEW c \in Clients, NEW found \in Seq(Row), found = conn[k][1].found,
           NEW cursor, cursor = client[c].cursor,
           NEW buffer \in Seq(Row),
           buffer = <<>> \/ (buffer = client[c].buffer /\ client[c].pc = "following"),
           NEW items, News(items, found, cursor, buffer),
           got' = [got EXCEPT ![c] = @ \o Texts(items)],
           \A d \in Clients \ {c} : client'[d] = client[d],
           client'[c].joined = client[c].joined, client'[c].cursor = LastSeq(items, cursor),
           client'[c].buffer = <<>>,
           \/ client'[c].pc = "idle"
           \/ client'[c].pc = "live" /\ Complete(items, found, cursor),
           client[c].joined => cursor > 0,
           UNCHANGED <<log, gone, unsaid, heard, base>>
    PROVE  (\A d \in Clients : Given(d)) /\ (pool = 1 => ClientOK')
<1>1. items \in Seq(Row)
  BY DEF News
<1>2. Sends(c, items) /\ \A d \in Clients \ {c} : got'[d] = got[d]
  BY <1>1, HandedSends
<1>3. \A d \in Clients \ {c} : Given(d)
  BY <1>2, NothingSent
<1>4. \A j \in DOMAIN items : InLog(items[j])
  <2>1. k \in Conns
    BY ConnType DEF Typed
  <2>2. \A i \in DOMAIN found : InLog(found[i])
    BY <2>1 DEF Recorded, HeldOK
  <2>3. \A i \in DOMAIN buffer : InLog(buffer[i])
    BY DEF Recorded, HeldOK
  <2>. QED  BY <2>2, <2>3 DEF News
<1>5. CASE pool # 1
  BY <1>1, <1>2, <1>3, <1>4, <1>5 DEF Given
<1>6. CASE pool = 1
  <2>1. k = 1 /\ Listed /\ ClientOK
    BY <1>6 DEF Placed
  <2>2. PICK h : h = Heard
    OBVIOUS
  <2>3. /\ h \in Nat /\ Heard' = h /\ 1 .. h \subseteq DOMAIN log /\ h <= Len(log)
        /\ Len(log) \in Nat /\ cursor \in Nat
    <3>1. client[c] \in Client
      BY DEF Typed, TypeOK
    <3>2. cursor \in Nat
      BY <3>1 DEF Client
    <3>3. Heard' = Heard
      BY DEF Heard
    <3>. QED  BY <2>1, <2>2, <3>2, <3>3, HeardListed, LogType DEF Typed
  <2>4. PICK p \in 0 .. Heard : PlaceOK(c, p)
    BY <2>1 DEF ClientOK
  <2>5. p \in Nat /\ At(c, p) /\ (got[c] = <<>> => p = 0)
    <3>1. p \in Nat /\ At(c, p)
      BY <2>2, <2>3, <2>4 DEF PlaceOK
    <3>2. got[c] = <<>> => cursor = 0 /\ (~client[c].joined => p = 0)
      BY <3>1 DEF At
    <3>. QED  BY <3>1, <3>2
  <2>6. Splits(p, cursor)
    BY <2>1, <2>5, CursorPlace DEF Splits
  <2>7. Heads(found)
    BY <2>1, FoundHead
  <2>8. Catches(buffer, p)
    <3>1. CASE buffer = <<>>
      BY <3>1 DEF Rise, Catches
    <3>2. CASE buffer = client[c].buffer /\ client[c].pc = "following"
      BY <2>4, <3>2 DEF PlaceOK, Catches
    <3>. QED  BY <3>1, <3>2
  <2>9. PICK at \in [DOMAIN items -> p + 1 .. Heard] :
               /\ Steps(items, p, at, gone)
               /\ Complete(items, found, cursor) => Reaches(items, p, at)
    BY <2>1, <2>3, <2>6, <2>7, <2>8, ItemPlaces
  <2>10. at \in [DOMAIN items -> p + 1 .. h] /\ at \in [DOMAIN items -> p + 1 .. Len(log)]
    <3>1. \A n \in p + 1 .. h : n \in p + 1 .. Len(log)
      BY <2>3, <2>5
    <3>. QED  BY <2>2, <2>9, <3>1
  <2>11. Given(c)
    <3>1. Steps(items, p, at, Missed(c))
      BY <2>9 DEF Steps, Missed
    <3>. QED  BY <1>1, <1>2, <1>4, <2>5, <2>10, <3>1 DEF Given
  <2>12. PICK q : q = IF items = <<>> THEN p ELSE at[Len(items)]
    OBVIOUS
  <2>13. At(c, q)'
    <3>1. At(c, IF items = <<>> THEN p ELSE at[Len(items)])'
      BY <1>2, <2>3, <2>5, <2>9, <2>10, Advance
    <3>. QED  BY <2>12, <3>1
  <2>14. /\ q \in 0 .. h /\ q \in Nat /\ p <= q
         /\ \A i \in DOMAIN items : at[i] <= q
    <3>1. CASE items = <<>>
      BY <2>2, <2>3, <2>5, <2>12, <3>1
    <3>2. CASE items # <<>>
      <4>1. PICK m : m = Len(items)
        OBVIOUS
      <4>2. m \in DOMAIN items /\ DOMAIN items = 1 .. m /\ m \in Nat
        BY <1>1, <3>2, <4>1
      <4>3. q = at[m] /\ q \in p + 1 .. h
        BY <2>10, <2>12, <3>2, <4>1, <4>2
      <4>4. ASSUME NEW i \in DOMAIN items PROVE at[i] <= q
        <5>1. i < m \/ i = m
          BY <4>2
        <5>2. at[i] \in p + 1 .. h
          BY <2>10
        <5>. QED  BY <2>3, <2>5, <2>9, <4>2, <4>3, <5>1, <5>2 DEF Steps
      <4>. QED  BY <2>3, <2>5, <4>3, <4>4
    <3>. QED  BY <3>1, <3>2
  <2>15. client'[c].pc = "live" => \A n \in q + 1 .. h : log[n].msg \in gone
    <3>1. SUFFICES ASSUME client'[c].pc = "live", NEW n \in q + 1 .. h
                   PROVE  log[n].msg \in gone
      OBVIOUS
    <3>2. n \in p + 1 .. h /\ n > q
      BY <2>3, <2>5, <2>14
    <3>3. n \in p + 1 .. Heard
      BY <2>2, <3>2
    <3>4. \A i \in DOMAIN items : at[i] # n
      <4>1. \A i \in DOMAIN items : at[i] \in p + 1 .. h
        BY <2>10
      <4>. QED  BY <2>5, <2>14, <3>2, <4>1
    <3>. QED  BY <2>9, <3>1, <3>3, <3>4 DEF Reaches
  <2>16. PlaceOK(c, q)'
    BY <2>3, <2>13, <2>15 DEF PlaceOK, Excused
  <2>17. ASSUME NEW d \in Clients \ {c} PROVE \E o \in 0 .. Heard' : PlaceOK(d, o)'
    <3>1. PICK o \in 0 .. Heard : PlaceOK(d, o)
      BY <2>1 DEF ClientOK
    <3>2. \E x \in 0 .. Heard' : PlaceOK(d, x)'
      BY <1>2, <2>1, <2>2, <2>3, <3>1, PlaceFrame
    <3>. QED  BY <3>2
  <2>18. \A d \in Clients : \E o \in 0 .. Heard' : PlaceOK(d, o)'
    BY <2>3, <2>14, <2>16, <2>17
  <2>. QED  BY <1>3, <2>11, <2>18 DEF ClientOK
<1>. QED  BY <1>5, <1>6

LEMMA PagedClients ==
    ASSUME Typed, Typed', Recorded, Placed, NEW k \in 1 .. pool, Paged(k)
    PROVE  (\A d \in Clients : Given(d)) /\ (pool = 1 => ClientOK')
<1>1. PICK c \in Clients, items \in Seq(Row) :
          /\ Answered(k) /\ conn[k][1].kind = "page" /\ IsDone(k, 1) /\ c = conn[k][1].by
          /\ conn[k][1].found \in Seq(Row)
          /\ News(items, conn[k][1].found, client[c].cursor, <<>>)
          /\ got' = [got EXCEPT ![c] = @ \o Texts(items)]
          /\ client' = [client EXCEPT ![c].pc = "idle", ![c].cursor = LastSeq(items, @)]
  BY PagedEffect DEF Typed
<1>2. UNCHANGED <<log, gone, unsaid, heard, base>>
  BY Zenon DEF Paged, hist
<1>3. PICK found, cursor : found = conn[k][1].found /\ cursor = client[c].cursor
  OBVIOUS
<1>4. PICK n : n = LastSeq(items, cursor)
  OBVIOUS
<1>5. n \in Nat
  BY <1>3, <1>4, TextsType DEF Typed, TypeOK, Client
<1>6. client' = [client EXCEPT ![c].pc = "idle", ![c].cursor = n]
  BY <1>1, <1>3, <1>4, Zenon
<1>7. Becomes(c, "idle", client[c].joined, n, client[c].buffer, client[c].reads)
  BY <1>5, <1>6, PagedFields DEF Typed
<1>8. 1 \in DOMAIN conn[k] /\ k \in Conns /\ IsSelect(k, 1)
  BY <1>1, Zenon DEF Answered, IsSelect
<1>9. client[c].pc = "paging" /\ (client[c].joined => cursor > 0)
  <2>1. client[c].pc = "paging"
    BY <1>1, <1>8, Zenon DEF Typed, PageOK
  <2>. QED  BY <1>3, <2>1 DEF Typed, PageOK
<1>10. <<>> \in Seq(Row)
  OBVIOUS
<1>11. CASE pool # 1
  <2>1. Sends(c, items) /\ \A d \in Clients \ {c} : got'[d] = got[d]
    BY <1>1, HandedSends, Zenon
  <2>2. \A d \in Clients \ {c} : Given(d)
    BY <2>1, NothingSent
  <2>3. \A j \in DOMAIN items : InLog(items[j])
    <3>1. \A i \in DOMAIN found : InLog(found[i])
      BY <1>1, <1>3, <1>8, Zenon DEF Recorded, HeldOK
    <3>2. DOMAIN <<>> = {}
      OBVIOUS
    <3>. QED  BY <1>1, <1>3, <3>1, <3>2, Zenon DEF News
  <2>. QED  BY <1>11, <2>1, <2>2, <2>3 DEF Given
<1>12. CASE pool = 1
  <2>1. client[c].buffer = <<>>
    BY <1>9, <1>12 DEF Placed, ClientOK, PlaceOK
  <2>2. /\ client'[c].pc = "idle" /\ client'[c].joined = client[c].joined
        /\ client'[c].cursor = LastSeq(items, cursor) /\ client'[c].buffer = <<>>
        /\ \A d \in Clients \ {c} : client'[d] = client[d]
    BY <1>4, <1>7, <2>1 DEF Becomes
  <2>3. found \in Seq(Row) /\ News(items, found, cursor, <<>>)
    BY <1>1, <1>3, Zenon
  <2>4. IsDone(k, 1) /\ 1 \in DOMAIN conn[k] /\ IsSelect(k, 1)
    BY <1>1, <1>8, Zenon
  <2>5. cursor = client[c].cursor /\ found = conn[k][1].found
    BY <1>3
  <2>6. client[c].joined => cursor > 0
    BY <1>9
  <2>7. got' = [got EXCEPT ![c] = @ \o Texts(items)]
    BY <1>1, Zenon
  <2>8. \/ client'[c].pc = "idle"
        \/ client'[c].pc = "live" /\ Complete(items, found, cursor)
    BY <2>2
  <2>. QED  BY <1>2, <1>10, <2>2, <2>3, <2>4, <2>5, <2>6, <2>7, <2>8, HandedClients,
               ZenonT(60)
<1>. QED  BY <1>11, <1>12

LEMMA ReplayedClients ==
    ASSUME Typed, Typed', Recorded, Placed, NEW k \in 1 .. pool, Replayed(k)
    PROVE  (\A d \in Clients : Given(d)) /\ (pool = 1 => ClientOK')
<1>1. PICK c \in Clients :
          /\ Answered(k) /\ conn[k][1].kind = "watch" /\ IsDone(k, 1) /\ c = conn[k][1].by
          /\ conn[k][1].found \in Seq(Row)
          /\ \/ UNCHANGED <<got, client>>
             \/ /\ client[c].pc = "following"
                /\ \E items : /\ News(items, conn[k][1].found, client[c].cursor,
                                      client[c].buffer)
                              /\ Complete(items, conn[k][1].found, client[c].cursor)
                              /\ got' = [got EXCEPT ![c] = @ \o Texts(items)]
                              /\ client' = [client EXCEPT ![c].pc = "live",
                                                          ![c].buffer = <<>>,
                                                          ![c].cursor = LastSeq(items, @)]
  BY ReplayedEffect, Zenon DEF Typed
<1>2. UNCHANGED <<log, gone, unsaid, heard, base>>
  BY Zenon DEF Replayed, hist
<1>3. CASE UNCHANGED <<got, client>>
  <2>1. \A d \in Clients : Given(d)
    BY <1>3, NothingSent
  <2>2. ASSUME pool = 1 PROVE ClientOK'
    <3>1. Heard' = Heard
      BY <1>2 DEF Heard
    <3>. QED  BY <1>2, <1>3, <2>2, <3>1 DEF Placed, ClientOK, PlaceOK, At, Rise, Excused
  <2>. QED  BY <2>1, <2>2
<1>4. CASE ~UNCHANGED <<got, client>>
  <2>1. client[c].pc = "following"
    BY <1>1, <1>4, Zenon
  <2>2. PICK found, cursor, buffer :
            found = conn[k][1].found /\ cursor = client[c].cursor /\ buffer = client[c].buffer
    OBVIOUS
  <2>3. PICK items :
            /\ News(items, found, cursor, buffer) /\ Complete(items, found, cursor)
            /\ got' = [got EXCEPT ![c] = @ \o Texts(items)]
            /\ client' = [client EXCEPT ![c].pc = "live", ![c].buffer = <<>>,
                                        ![c].cursor = LastSeq(items, @)]
    BY <1>1, <1>4, <2>2, Zenon
  <2>4. /\ client[c] \in Client /\ buffer \in Seq(Row) /\ cursor \in Nat
        /\ items \in Seq(Row) /\ found \in Seq(Row)
    <3>1. client[c] \in Client
      BY DEF Typed, TypeOK
    <3>. QED  BY <1>1, <2>2, <2>3, <3>1, Zenon DEF Client, News
  <2>5. PICK n : n = LastSeq(items, cursor)
    OBVIOUS
  <2>6. n \in Nat
    BY <2>4, <2>5, TextsType
  <2>7. client' = [client EXCEPT ![c].pc = "live", ![c].buffer = <<>>, ![c].cursor = n]
    BY <2>2, <2>3, <2>5
  <2>8. Becomes(c, "live", client[c].joined, n, <<>>, client[c].reads)
    BY <2>6, <2>7, ReplayedFields, Zenon DEF Typed
  <2>9. 1 \in DOMAIN conn[k] /\ k \in Conns /\ IsSelect(k, 1)
    BY <1>1, Zenon DEF Answered, IsSelect
  <2>10. CASE pool # 1
    <3>1. Sends(c, items) /\ \A d \in Clients \ {c} : got'[d] = got[d]
      BY <2>3, <2>4, HandedSends
    <3>2. \A d \in Clients \ {c} : Given(d)
      BY <3>1, NothingSent
    <3>3. \A j \in DOMAIN items : InLog(items[j])
      <4>1. \A i \in DOMAIN found : InLog(found[i])
        BY <1>1, <2>2, <2>9, Zenon DEF Recorded, HeldOK
      <4>2. \A i \in DOMAIN buffer : InLog(buffer[i])
        BY <2>2 DEF Recorded, HeldOK
      <4>. QED  BY <2>3, <4>1, <4>2 DEF News
    <3>. QED  BY <2>4, <2>10, <3>1, <3>2, <3>3 DEF Given
  <2>11. CASE pool = 1
    <3>1. cursor > 0
      BY <2>1, <2>2, <2>11 DEF Placed, ClientOK, PlaceOK
    <3>2. /\ client'[c].pc = "live" /\ client'[c].joined = client[c].joined
          /\ client'[c].cursor = LastSeq(items, cursor) /\ client'[c].buffer = <<>>
          /\ \A d \in Clients \ {c} : client'[d] = client[d]
      BY <2>5, <2>8 DEF Becomes
    <3>3. IsDone(k, 1) /\ 1 \in DOMAIN conn[k] /\ IsSelect(k, 1)
      BY <1>1, <2>9, Zenon
    <3>4. cursor = client[c].cursor /\ found = conn[k][1].found
      BY <2>2
    <3>5. buffer = client[c].buffer /\ client[c].pc = "following"
      BY <2>1, <2>2
    <3>6. found \in Seq(Row) /\ buffer \in Seq(Row) /\ (client[c].joined => cursor > 0)
      BY <2>4, <3>1
    <3>7. /\ News(items, found, cursor, buffer) /\ Complete(items, found, cursor)
          /\ got' = [got EXCEPT ![c] = @ \o Texts(items)]
      BY <2>3
    <3>. QED  BY <1>2, <3>2, <3>3, <3>4, <3>5, <3>6, <3>7, HandedClients, ZenonT(60)
  <2>. QED  BY <2>10, <2>11
<1>. QED  BY <1>3, <1>4

\* Nothing is sent: each client does as before, or stops, or asks.
LEMMA ClientsKept ==
    ASSUME Typed, Listed, ClientOK, heard' = heard, gone \subseteq gone',
           unsaid \subseteq unsaid',
           \A n \in DOMAIN log : n \in DOMAIN log' /\ log'[n] = log[n],
           got' = got, base' = base,
           \A c \in Clients :
               /\ client'[c].cursor = client[c].cursor /\ client'[c].joined = client[c].joined
               /\ \/ client'[c].pc = client[c].pc /\ client'[c].buffer = client[c].buffer
                  \/ /\ client'[c].buffer = <<>> /\ client'[c].pc # "live"
                     /\ client'[c].pc = "following" => client'[c].cursor > 0
    PROVE  ClientOK'
<1>1. Heard' = Heard
  BY DEF Heard
<1>2. ASSUME NEW c \in Clients PROVE \E q \in 0 .. Heard' : PlaceOK(c, q)'
  <2>1. PICK p \in 0 .. Heard : PlaceOK(c, p)
    BY DEF ClientOK
  <2>. QED  BY <1>1, <2>1, PlaceFrame
<1>. QED  BY <1>2 DEF ClientOK

LEMMA ClientsStill ==
    ASSUME Typed, Placed, pool = 1, UNCHANGED <<client, got, heard, base>>,
           gone \subseteq gone', unsaid \subseteq unsaid',
           \A n \in DOMAIN log : n \in DOMAIN log' /\ log'[n] = log[n]
    PROVE  ClientOK'
BY ClientsKept DEF Placed

LEMMA AskClients ==
    ASSUME Typed, Placed, pool = 1, NEW c \in Clients, NEW k \in 1 .. pool,
           AskPage(c, k) \/ Watch(c, k)
    PROVE  ClientOK'
<1>1. PICK pc \in {"paging", "following"} :
          /\ client[c].pc = "idle"
          /\ pc = "following" => client[c].cursor > 0
          /\ client' = [client EXCEPT ![c].pc = pc, ![c].reads = @ + 1]
  <2>1. \E s \in Selection, pc \in {"paging", "following"} :
            /\ Queued(k, s) /\ s.by = c /\ s.state = "sent"
            /\ s.kind = IF pc = "paging" THEN "page" ELSE "watch"
            /\ client[c].pc = "idle"
            /\ pc = "paging" => (client[c].joined => client[c].cursor > 0)
            /\ pc = "following" => client[c].cursor > 0
            /\ client' = [client EXCEPT ![c].pc = pc, ![c].reads = @ + 1]
    BY AskEffect DEF Typed
  <2>. QED  BY <2>1
<1>2. Becomes(c, pc, client[c].joined, client[c].cursor, client[c].buffer, client[c].reads + 1)
  BY <1>1, AskFields DEF Typed
<1>3. UNCHANGED <<got, log, gone, unsaid, heard, base>>
  BY DEF AskPage, Watch, hist
<1>4. client[c].buffer = <<>>
  BY <1>1 DEF Placed, ClientOK, PlaceOK
<1>5. \A d \in Clients :
          /\ client'[d].cursor = client[d].cursor /\ client'[d].joined = client[d].joined
          /\ \/ client'[d].pc = client[d].pc /\ client'[d].buffer = client[d].buffer
             \/ /\ client'[d].buffer = <<>> /\ client'[d].pc # "live"
                /\ client'[d].pc = "following" => client'[d].cursor > 0
  BY <1>1, <1>2, <1>4 DEF Becomes
<1>. QED  BY <1>3, <1>5, ClientsKept DEF Placed

LEMMA CloseClients ==
    ASSUME Typed, Placed, pool = 1, NEW c \in Clients, Close(c)
    PROVE  ClientOK'
<1>1. Becomes(c, "idle", client[c].joined, client[c].cursor, <<>>, client[c].reads)
  BY CloseFields DEF Typed
<1>2. UNCHANGED <<got, log, gone, unsaid, heard, base>>
  BY DEF Close, hist
<1>3. \A d \in Clients :
          /\ client'[d].cursor = client[d].cursor /\ client'[d].joined = client[d].joined
          /\ \/ client'[d].pc = client[d].pc /\ client'[d].buffer = client[d].buffer
             \/ /\ client'[d].buffer = <<>> /\ client'[d].pc # "live"
                /\ client'[d].pc = "following" => client'[d].cursor > 0
  BY <1>1 DEF Becomes
<1>. QED  BY <1>2, <1>3, ClientsKept DEF Placed

\* A SELECT that failed was of a client that has no more to expect of it.
LEMMA FailedClients ==
    ASSUME Typed, Placed, pool = 1, NEW k \in 1 .. pool, PageFailed(k) \/ ReplayFailed(k)
    PROVE  ClientOK'
<1>1. /\ conn[k][1].by \in Clients /\ UNCHANGED <<got, log, gone, unsaid, heard, base>>
      /\ \/ UNCHANGED client
         \/ LET c == conn[k][1].by
            IN \E pc \in {"idle", "silent"}, buffer \in Seq(Row) :
                  /\ Becomes(c, pc, client[c].joined, client[c].cursor, buffer,
                             client[c].reads)
                  /\ buffer = <<>> \/ (client[c].pc = "paging" /\ buffer = client[c].buffer)
  BY FailedFields, Zenon DEF Typed, hist
<1>2. CASE UNCHANGED client
  BY <1>1, <1>2, ClientsStill
<1>3. CASE ~UNCHANGED client
  <2>1. PICK c \in Clients : c = conn[k][1].by
    BY <1>1
  <2>2. PICK pc \in {"idle", "silent"}, buffer \in Seq(Row) :
            /\ Becomes(c, pc, client[c].joined, client[c].cursor, buffer, client[c].reads)
            /\ buffer = <<>> \/ (client[c].pc = "paging" /\ buffer = client[c].buffer)
    BY <1>1, <1>3, <2>1, Zenon
  <2>3. client[c].pc = "paging" => client[c].buffer = <<>>
    BY DEF Placed, ClientOK, PlaceOK
  <2>4. \A d \in Clients :
            /\ client'[d].cursor = client[d].cursor /\ client'[d].joined = client[d].joined
            /\ \/ client'[d].pc = client[d].pc /\ client'[d].buffer = client[d].buffer
               \/ /\ client'[d].buffer = <<>> /\ client'[d].pc # "live"
                  /\ client'[d].pc = "following" => client'[d].cursor > 0
    BY <2>2, <2>3 DEF Becomes
  <2>. QED  BY <1>1, <2>4, ClientsKept DEF Placed
<1>. QED  BY <1>2, <1>3

\* The message whose answer was lost is one that live clients may be without.
LEMMA InsertFailedClients ==
    ASSUME Typed, Placed, pool = 1, NEW k \in 1 .. pool, InsertFailed(k)
    PROVE  ClientOK'
<1>0. UNCHANGED <<client, got, log, gone, unsaid, base>>
  BY DEF InsertFailed
<1>1. PICK p \in Posts, item \in Row :
          /\ Answered(k) /\ IsInsert(k, 1) /\ conn[k][1].state \in {"lost", "failed"}
          /\ item = Stored(conn[k][1])
          /\ conn[k][1].state = "lost" => heard' = Append(heard, item.msg)
          /\ conn[k][1].state = "failed" => heard' = heard
  BY InsertFailedEffect DEF Typed
<1>2. CASE conn[k][1].state = "failed"
  <2>1. heard' = heard
    BY <1>1, <1>2
  <2>. QED  BY <1>0, <2>1, ClientsStill
<1>3. CASE conn[k][1].state = "lost"
  <2>1. k = 1 /\ Listed /\ ClientOK /\ LostOK /\ k \in Conns /\ 1 \in DOMAIN conn[k]
    BY <1>1 DEF Placed, Answered
  <2>2. PICK h, m : h = Heard /\ m = Heard + 1
    OBVIOUS
  <2>3. h \in Nat /\ m \in Nat /\ m = h + 1 /\ Heard' = m
    <3>1. heard \in Seq(Messages) /\ item.msg \in Messages
      BY DEF Typed, TypeOK, Row
    <3>2. heard' = Append(heard, item.msg)
      BY <1>1, <1>3
    <3>. QED  BY <2>2, <3>1, <3>2 DEF Heard
  <2>4. log[m] = item
    <3>1. IsDone(k, 1)
      BY <1>3 DEF IsDone
    <3>2. Answers(1, m)
      BY <1>1, <2>1, <2>2, <3>1, NextHeard
    <3>. QED  BY <1>1, <2>1, <3>2 DEF Answers
  <2>5. Excused(m)
    BY <1>1, <1>3, <2>1, <2>4 DEF LostOK, Excused
  <2>6. ASSUME NEW c \in Clients PROVE \E q \in 0 .. Heard' : PlaceOK(c, q)'
    <3>1. PICK q \in 0 .. h : PlaceOK(c, q)
      BY <2>1, <2>2 DEF ClientOK
    <3>2. \A n \in q + 1 .. m : n \in q + 1 .. h \/ n = m
      BY <2>3, <3>1
    <3>3. \A n \in q + 1 .. h : n \in q + 1 .. m
      BY <2>3, <3>1
    <3>4. At(c, q)'
      BY <1>0, <3>1 DEF PlaceOK, At
    <3>5. client[c].pc = "live" => \A n \in q + 1 .. m : Excused(n)
      BY <2>2, <2>5, <3>1, <3>2 DEF PlaceOK
    <3>6. PlaceOK(c, q)'
      BY <1>0, <2>2, <2>3, <3>1, <3>3, <3>4, <3>5 DEF PlaceOK, Excused, Rise
    <3>7. q \in 0 .. Heard'
      BY <2>3, <3>1
    <3>. QED  BY <3>6, <3>7
  <2>. QED  BY <2>6 DEF ClientOK
<1>. QED  BY <1>1, <1>2, <1>3

\* A client that joins is where what was handled ends.
LEMMA WatchNowClients ==
    ASSUME Typed, Placed, pool = 1, NEW c \in Clients, WatchNow(c)
    PROVE  ClientOK'
<1>1. Becomes(c, "live", TRUE, client[c].cursor, client[c].buffer, client[c].reads + 1)
  BY WatchNowFields DEF Typed
<1>2. /\ client[c].pc = "idle" /\ got[c] = <<>>
      /\ base' = [base EXCEPT ![c] = Len(heard)]
      /\ UNCHANGED <<got, log, gone, unsaid, heard>>
  BY DEF WatchNow
<1>3. PICK h : h = Heard
  OBVIOUS
<1>4. h \in Nat /\ Heard' = h /\ h \in 0 .. h
  BY <1>2, <1>3, LogType DEF Typed, Heard
<1>5. base'[c] = h /\ \A d \in Clients \ {c} : base'[d] = base[d]
  BY <1>2, <1>3 DEF Typed, TypeOK, Heard
<1>6. client[c].buffer = <<>> /\ client[c].cursor = 0
  BY <1>2 DEF Placed, ClientOK, PlaceOK, At
<1>7. PlaceOK(c, h)'
  <2>1. At(c, h)'
    BY <1>1, <1>2, <1>5, <1>6 DEF At, Becomes
  <2>2. \A n \in h + 1 .. h : FALSE
    BY <1>4
  <2>. QED  BY <1>1, <1>4, <1>6, <2>1, <2>2 DEF PlaceOK, Becomes
<1>8. ASSUME NEW d \in Clients \ {c} PROVE \E q \in 0 .. Heard' : PlaceOK(d, q)'
  <2>1. PICK p \in 0 .. Heard : PlaceOK(d, p)
    BY DEF Placed, ClientOK
  <2>2. client'[d] = client[d]
    BY <1>1 DEF Becomes
  <2>. QED  BY <1>2, <1>3, <1>4, <1>5, <2>1, <2>2, PlaceFrame DEF Placed
<1>. QED  BY <1>4, <1>7, <1>8 DEF ClientOK

LEMMA LogGrows ==
    ASSUME Typed, NEW k \in 1 .. pool, NEW i \in DOMAIN conn[k], InsertCommits(k, i)
    PROVE  \A n \in DOMAIN log : n \in DOMAIN log' /\ log'[n] = log[n]
<1>1. PICK t \in Insertion, r \in Row :
          /\ Turned(k, i, t) /\ IsInsert(k, i) /\ conn[k][i].state = "begun"
          /\ t.by = conn[k][i].by /\ t.state = "done" /\ t.seq = conn[k][i].seq
          /\ r = Stored(conn[k][i]) /\ r.seq = conn[k][i].seq
          /\ r.msg = <<conn[k][i].by, post[conn[k][i].by].next>> /\ conn[k][i].by \in Posts
          /\ rows' = rows \cup {r} /\ log' = Append(log, r)
  BY CommitsEffect DEF Typed
<1>. QED  BY <1>1 DEF Typed, TypeOK

\* The actions that leave alone the clients and what they were sent.
Apart ==
    \/ \E k \in 1 .. pool :
          \/ Database(k)
          \/ \E i \in DOMAIN conn[k] :
                InsertFails(k, i) \/ AnswerLost(k, i) \/ SelectFails(k, i)
          \/ \E p \in Posts : Insert(p, k)
    \/ \E r \in rows : Vanish(r)
    \/ UNCHANGED vars

LEMMA ApartFrame ==
    ASSUME Typed, Apart
    PROVE  /\ UNCHANGED <<pool, client, got, heard, announced, base, since>>
           /\ gone \subseteq gone' /\ unsaid \subseteq unsaid'
           /\ \A n \in DOMAIN log : n \in DOMAIN log' /\ log'[n] = log[n]
<1>1. ASSUME NEW k \in 1 .. pool, Database(k)
      PROVE  /\ UNCHANGED <<pool, client, got, heard, announced, base, since, gone, unsaid>>
             /\ \A n \in DOMAIN log : n \in DOMAIN log' /\ log'[n] = log[n]
  <2>1. PICK i \in DOMAIN conn[k] :
            InsertBegins(k, i) \/ InsertCommits(k, i) \/ SelectRuns(k, i)
    BY <1>1 DEF Database
  <2>2. CASE InsertBegins(k, i)
    BY <2>2 DEF InsertBegins, hist
  <2>3. CASE InsertCommits(k, i)
    <3>1. UNCHANGED <<pool, client, got, heard, announced, base, since, gone, unsaid>>
      BY <2>3 DEF InsertCommits
    <3>. QED  BY <2>3, <3>1, LogGrows
  <2>4. CASE SelectRuns(k, i)
    BY <2>4 DEF SelectRuns, hist, db
  <2>. QED  BY <2>1, <2>2, <2>3, <2>4
<1>2. ASSUME NEW k \in 1 .. pool,
             \/ \E i \in DOMAIN conn[k] : InsertFails(k, i) \/ SelectFails(k, i)
             \/ \E p \in Posts : Insert(p, k)
      PROVE  UNCHANGED <<pool, client, got, heard, announced, base, since, gone, unsaid, log>>
  BY <1>2 DEF InsertFails, SelectFails, Insert, hist, db
<1>5. ASSUME NEW k \in 1 .. pool, NEW i \in DOMAIN conn[k], AnswerLost(k, i)
      PROVE  /\ UNCHANGED <<pool, client, got, heard, announced, base, since, gone, log>>
             /\ unsaid \subseteq unsaid'
  BY <1>5, LostKeeps
<1>3. ASSUME NEW r \in rows, Vanish(r)
      PROVE  /\ UNCHANGED <<pool, client, got, heard, announced, base, since, unsaid, log>>
             /\ gone \subseteq gone'
  BY <1>3 DEF Vanish
<1>4. CASE UNCHANGED vars
  BY <1>4 DEF vars
<1>. QED  BY <1>1, <1>2, <1>3, <1>4, <1>5 DEF Apart

\* What a step of the broker may be.
LEMMA NextCases ==
    ASSUME [Next]_vars
    PROVE  \/ Apart
           \/ \E k \in 1 .. pool : Inserted(k) \/ Paged(k) \/ Replayed(k)
           \/ \E k \in 1 .. pool : InsertFailed(k) \/ PageFailed(k) \/ ReplayFailed(k)
           \/ \E k \in 1 .. pool, c \in Clients : AskPage(c, k) \/ Watch(c, k)
           \/ \E c \in Clients : WatchNow(c) \/ Close(c)
BY DEF Next, Apart, Answer

LEMMA PoolStays ==
    ASSUME [Next]_vars
    PROVE  pool' = pool
<1>1. ASSUME NEW k \in 1 .. pool, Database(k) PROVE pool' = pool
  BY <1>1, Zenon DEF Database, InsertBegins, InsertCommits, SelectRuns, db
<1>2. ASSUME NEW k \in 1 .. pool, Answer(k) PROVE pool' = pool
  BY <1>2, Zenon DEF Answer, Inserted, InsertFailed, Paged, PageFailed, Replayed,
                     ReplayFailed, db
<1>3. ASSUME NEW k \in 1 .. pool, NEW i,
             InsertFails(k, i) \/ AnswerLost(k, i) \/ SelectFails(k, i)
      PROVE  pool' = pool
  BY <1>3, Zenon DEF InsertFails, AnswerLost, SelectFails, db
<1>4. ASSUME NEW k \in 1 .. pool, NEW p, Insert(p, k) PROVE pool' = pool
  BY <1>4, Zenon DEF Insert, db
<1>5. ASSUME NEW k \in 1 .. pool, NEW c, AskPage(c, k) \/ Watch(c, k) PROVE pool' = pool
  BY <1>5, Zenon DEF AskPage, Watch, db
<1>6. ASSUME NEW c, WatchNow(c) \/ Close(c) PROVE pool' = pool
  BY <1>6, Zenon DEF WatchNow, Close, db
<1>7. ASSUME NEW r, Vanish(r) PROVE pool' = pool
  BY <1>7, Zenon DEF Vanish
<1>8. CASE UNCHANGED vars
  BY <1>8 DEF vars
<1>. QED  BY <1>1, <1>2, <1>3, <1>4, <1>5, <1>6, <1>7, <1>8, Zenon DEF Next

\* No answer is lost, and no request goes on but those whose statement is answered.
LEMMA LostFrame ==
    ASSUME Typed, LostOK, unsaid \subseteq unsaid',
           \A l \in Conns : \A j \in DOMAIN conn'[l] : conn'[l][j].state = "lost" =>
               IsOld(conn'[l][j]),
           \A l \in Conns : \A j \in DOMAIN conn'[l] : conn'[l][j].kind = "insert" =>
               post'[conn'[l][j].by].next = post[conn'[l][j].by].next
    PROVE  LostOK'
<1>1. SUFFICES ASSUME NEW l \in Conns, NEW j \in DOMAIN conn'[l],
                      conn'[l][j].kind = "insert", conn'[l][j].state = "lost",
                      NEW s, s = conn'[l][j]
               PROVE  <<s.by, post'[s.by].next>> \in unsaid'
  BY DEF LostOK, IsInsert, Stored
<1>2. PICK m \in Conns : \E h \in DOMAIN conn[m] : conn[m][h] = s
  BY <1>1 DEF IsOld
<1>3. PICK h \in DOMAIN conn[m] : conn[m][h] = s
  BY <1>2
<1>4. Stored(s).msg \in unsaid
  BY <1>1, <1>3 DEF LostOK, IsInsert
<1>5. post'[s.by].next = post[s.by].next
  BY <1>1
<1>. QED  BY <1>4, <1>5 DEF Stored

LEMMA NextBy ==
    ASSUME conn' \in [Conns -> Seq(Statement)]
    PROVE  \A l \in Conns : \A j \in DOMAIN conn'[l] :
               conn'[l][j].kind = "insert" => conn'[l][j].by \in Posts
<1>1. \A l \in Conns : conn'[l] \in Seq(Statement)
  OBVIOUS
<1>2. \A l \in Conns : \A j \in DOMAIN conn'[l] : conn'[l][j] \in Statement
  BY <1>1
<1>. QED  BY <1>2, StatementKinds DEF Insertion

LEMMA LostSame ==
    ASSUME Typed, Typed', LostOK, unsaid \subseteq unsaid',
           \A l \in Conns : \A j \in DOMAIN conn'[l] : conn'[l][j].state = "lost" =>
               IsOld(conn'[l][j]),
           \A p \in Posts : post'[p].next = post[p].next
    PROVE  LostOK'
<1>1. \A l \in Conns : \A j \in DOMAIN conn'[l] :
          conn'[l][j].kind = "insert" => conn'[l][j].by \in Posts
  BY NextBy DEF Typed, TypeOK, Conns
<1>2. \A l \in Conns : \A j \in DOMAIN conn'[l] : conn'[l][j].kind = "insert" =>
          post'[conn'[l][j].by].next = post[conn'[l][j].by].next
  BY <1>1
<1>. QED  BY <1>2, LostFrame

\* The statements of a step that are not of the one before.
LEMMA OldStatements ==
    ASSUME NEW k, NEW i, NEW s,
           Turned(k, i, s) \/ Queued(k, s)
    PROVE  \A l \in Conns : \A j \in DOMAIN conn'[l] : conn'[l][j] = s \/ IsOld(conn'[l][j])
<1>1. CASE Turned(k, i, s)
  BY <1>1 DEF Turned, IsOld
<1>2. CASE Queued(k, s)
  BY <1>2 DEF Queued, IsOld
<1>. QED  BY <1>1, <1>2

LEMMA LostAgain ==
    ASSUME Typed, LostOK, NEW k \in 1 .. pool, NEW i \in DOMAIN conn[k], AnswerLost(k, i)
    PROVE  LostOK'
<1>1. PICK u \in Insertion, r \in Row :
          /\ Turned(k, i, u) /\ IsInsert(k, i)
          /\ u.by = conn[k][i].by /\ r = Stored(conn[k][i]) /\ unsaid' = unsaid \cup {r.msg}
  BY LostEffect DEF Typed
<1>2. post' = post
  BY DEF AnswerLost
<1>3. ASSUME NEW l \in Conns, NEW j \in DOMAIN conn'[l],
             conn'[l][j].kind = "insert", conn'[l][j].state = "lost", NEW s, s = conn'[l][j]
      PROVE  <<s.by, post[s.by].next>> \in unsaid'
  <2>1. CASE l = k /\ j = i
    BY <1>1, <1>3, <2>1 DEF Turned, Stored
  <2>2. CASE ~(l = k /\ j = i)
    <3>1. j \in DOMAIN conn[l] /\ conn[l][j] = s
      BY <1>1, <1>3, <2>2 DEF Turned
    <3>2. Stored(s).msg \in unsaid
      BY <1>3, <3>1 DEF LostOK, IsInsert
    <3>. QED  BY <1>1, <3>2 DEF Stored
  <2>. QED  BY <2>1, <2>2
<1>. QED  BY <1>2, <1>3 DEF LostOK, IsInsert, Stored

LEMMA HandledLost ==
    ASSUME Typed, Typed', LostOK, NEW k \in 1 .. pool, NEW p \in Posts, NEW item \in Row,
           Handled(k, p, item)
    PROVE  LostOK'
<1>1. /\ Answered(k) /\ IsInsert(k, 1) /\ p = conn[k][1].by /\ unsaid' = unsaid
      /\ \A q \in Posts \ {p} : post'[q] = post[q]
  BY DEF Handled
<1>2. /\ \A l \in Conns : \A j \in DOMAIN conn'[l] : IsOld(conn'[l][j])
      /\ \A l \in Conns : \A j \in DOMAIN conn'[l] :
             conn'[l][j].kind = "insert" => conn'[l][j].by \in Posts
  BY <1>1, AnsweredOld, NextBy DEF Typed, TypeOK, Conns
<1>3. ASSUME NEW l \in Conns, NEW j \in DOMAIN conn'[l], conn'[l][j].kind = "insert"
      PROVE  post'[conn'[l][j].by].next = post[conn'[l][j].by].next
  <2>1. conn'[l][j].by # p
    <3>1. CASE l # k
      <4>1. j \in DOMAIN conn[l] /\ conn[l][j] = conn'[l][j] /\ k \in Conns
            /\ 1 \in DOMAIN conn[k]
        BY <1>1, <3>1 DEF Answered
      <4>. QED  BY <1>1, <1>3, <3>1, <4>1 DEF Typed, PostOK, IsInsert
    <3>2. CASE l = k
      <4>1. j + 1 \in DOMAIN conn[k] /\ conn[k][j + 1] = conn'[l][j] /\ k \in Conns
            /\ 1 \in DOMAIN conn[k]
        BY <1>1, <3>2 DEF Answered
      <4>2. j \in Nat /\ j > 0
        <5>1. conn'[l] \in Seq(Statement)
          BY <1>1 DEF Answered
        <5>. QED  BY <5>1
      <4>3. j + 1 # 1
        BY <4>2
      <4>. QED  BY <1>1, <1>3, <4>1, <4>3 DEF Typed, PostOK, IsInsert
    <3>. QED  BY <3>1, <3>2
  <2>. QED  BY <1>1, <1>2, <1>3, <2>1
<1>. QED  BY <1>1, <1>2, <1>3, LostFrame

LEMMA LostStep ==
    ASSUME Typed, Typed', LostOK, [Next]_vars
    PROVE  LostOK'
<1>1. ASSUME NEW k \in 1 .. pool, NEW i \in DOMAIN conn[k],
             \/ InsertBegins(k, i) \/ InsertCommits(k, i) \/ InsertFails(k, i)
             \/ SelectRuns(k, i) \/ SelectFails(k, i)
      PROVE  LostOK'
  <2>1. post' = post /\ unsaid' = unsaid
    BY <1>1, Zenon DEF InsertBegins, InsertCommits, InsertFails, SelectRuns, SelectFails,
                       db, hist
  <2>2. \E s : Turned(k, i, s) /\ s.state # "lost"
    <3>1. CASE InsertBegins(k, i)
      <4>1. \E s \in Insertion : Turned(k, i, s) /\ s.state = "begun"
        BY <3>1, BeginsEffect DEF Typed
      <4>. QED  BY <4>1
    <3>2. CASE InsertCommits(k, i)
      <4>1. \E s \in Insertion : Turned(k, i, s) /\ s.state = "done"
        BY <3>2, CommitsEffect DEF Typed
      <4>. QED  BY <4>1
    <3>3. CASE InsertFails(k, i)
      <4>1. \E s \in Insertion : Turned(k, i, s) /\ s.state = "failed"
        BY <3>3, FailsEffect DEF Typed
      <4>. QED  BY <4>1
    <3>4. CASE SelectRuns(k, i)
      <4>1. \E s \in Selection : Turned(k, i, s) /\ s.state = "done"
        BY <3>4, SelectEffect DEF Typed
      <4>. QED  BY <4>1
    <3>5. CASE SelectFails(k, i)
      <4>1. \E s \in Selection : Turned(k, i, s) /\ s.state = "failed"
        BY <3>5, SelectFailsEffect DEF Typed
      <4>. QED  BY <4>1
    <3>. QED  BY <1>1, <3>1, <3>2, <3>3, <3>4, <3>5
  <2>3. \A l \in Conns : \A j \in DOMAIN conn'[l] : conn'[l][j].state = "lost" =>
            IsOld(conn'[l][j])
    BY <2>2, OldStatements
  <2>. QED  BY <2>1, <2>3, LostSame
<1>2. ASSUME NEW k \in 1 .. pool, Answer(k) PROVE LostOK'
  <2>1. CASE Inserted(k)
    BY <2>1, InsertedHandled, HandledLost
  <2>2. CASE InsertFailed(k) /\ conn[k][1].state = "lost"
    BY <2>2, LostHandled, HandledLost
  <2>3. ASSUME Answered(k), unsaid' = unsaid, \A p \in Posts : post'[p].next = post[p].next
        PROVE  LostOK'
    BY <2>3, AnsweredOld, LostSame
  <2>4. CASE InsertFailed(k) /\ conn[k][1].state # "lost"
    <3>1. PICK p \in Posts :
              /\ Answered(k) /\ conn[k][1].state \in {"lost", "failed"}
              /\ conn[k][1].state = "failed" => post' = [post EXCEPT ![p].pc = "over"]
      BY <2>4, InsertFailedEffect DEF Typed
    <3>2. post' = [post EXCEPT ![p].pc = "over"]
      BY <2>4, <3>1
    <3>3. \A q \in Posts : post'[q].next = post[q].next
      BY <3>2 DEF Typed, TypeOK
    <3>4. unsaid' = unsaid
      BY <2>4 DEF InsertFailed
    <3>. QED  BY <2>3, <3>1, <3>3, <3>4
  <2>5. CASE Paged(k)
    <3>1. Answered(k)
      BY <2>5, PagedEffect DEF Typed
    <3>2. post' = post /\ unsaid' = unsaid
      BY <2>5, Zenon DEF Paged, hist
    <3>. QED  BY <2>3, <3>1, <3>2
  <2>6. CASE Replayed(k)
    <3>1. Answered(k)
      BY <2>6, ReplayedEffect, Zenon DEF Typed
    <3>2. post' = post /\ unsaid' = unsaid
      BY <2>6, Zenon DEF Replayed, hist
    <3>. QED  BY <2>3, <3>1, <3>2
  <2>7. CASE PageFailed(k) \/ ReplayFailed(k)
    <3>1. Answered(k) /\ post' = post /\ unsaid' = unsaid
      BY <2>7, FailedFields, Zenon DEF Typed, hist
    <3>. QED  BY <2>3, <3>1
  <2>. QED  BY <1>2, <2>1, <2>2, <2>4, <2>5, <2>6, <2>7 DEF Answer
<1>3. ASSUME NEW k \in 1 .. pool, NEW p \in Posts, Insert(p, k) PROVE LostOK'
  <2>1. /\ post' = [post EXCEPT ![p].pc = "waiting"]
        /\ \E s \in Insertion : Queued(k, s) /\ s.state = "sent"
    BY <1>3, InsertEffect DEF Typed
  <2>2. \A q \in Posts : post'[q].next = post[q].next
    BY <2>1 DEF Typed, TypeOK
  <2>3. unsaid' = unsaid
    BY <1>3 DEF Insert, hist
  <2>4. \A l \in Conns : \A j \in DOMAIN conn'[l] : conn'[l][j].state = "lost" =>
            IsOld(conn'[l][j])
    BY <2>1, OldStatements
  <2>. QED  BY <2>2, <2>3, <2>4, LostSame
<1>4. ASSUME NEW k \in 1 .. pool, NEW c \in Clients, AskPage(c, k) \/ Watch(c, k)
      PROVE  LostOK'
  <2>0. \E s \in Selection, pc \in {"paging", "following"} :
            /\ Queued(k, s) /\ s.by = c /\ s.state = "sent"
            /\ s.kind = IF pc = "paging" THEN "page" ELSE "watch"
            /\ client[c].pc = "idle"
            /\ pc = "paging" => (client[c].joined => client[c].cursor > 0)
            /\ pc = "following" => client[c].cursor > 0
            /\ client' = [client EXCEPT ![c].pc = pc, ![c].reads = @ + 1]
    BY <1>4, AskEffect DEF Typed
  <2>1. \E s \in Selection : Queued(k, s) /\ s.state = "sent"
    BY <2>0
  <2>2. post' = post /\ unsaid' = unsaid
    BY <1>4 DEF AskPage, Watch, hist
  <2>3. \A l \in Conns : \A j \in DOMAIN conn'[l] : conn'[l][j].state = "lost" =>
            IsOld(conn'[l][j])
    BY <2>1, OldStatements
  <2>. QED  BY <2>2, <2>3, LostSame
<1>5. ASSUME UNCHANGED <<conn, post, unsaid>> PROVE LostOK'
  BY <1>5 DEF LostOK, IsInsert, Stored
<1>6. ASSUME NEW c \in Clients, WatchNow(c) \/ Close(c) PROVE LostOK'
  BY <1>5, <1>6 DEF WatchNow, Close, hist
<1>7. ASSUME NEW r \in rows, Vanish(r) PROVE LostOK'
  BY <1>5, <1>7 DEF Vanish
<1>8. CASE UNCHANGED vars
  BY <1>5, <1>8 DEF vars
<1>. QED  BY <1>1, <1>2, <1>3, <1>4, <1>6, <1>7, <1>8, LostAgain DEF Next, Database

LEMMA PlacedStep ==
    ASSUME Typed, Recorded, Placed, [Next]_vars
    PROVE  Placed'
<1>1. Typed' /\ pool' = pool
  BY TypedStep, PoolStays
<1>0. LostOK'
  BY <1>1, LostStep DEF Placed
<1>2. SUFFICES ASSUME pool = 1 PROVE Listed' /\ ClientOK'
  BY <1>0, <1>1 DEF Placed
<1>3. Listed'
  BY <1>1, <1>2, ListedStep DEF Placed
<1>4. CASE Apart
  BY <1>2, <1>3, <1>4, ApartFrame, ClientsStill
<1>5. ASSUME NEW k \in 1 .. pool, Inserted(k) \/ Paged(k) \/ Replayed(k) PROVE ClientOK'
  BY <1>1, <1>2, <1>5, InsertedClients, PagedClients, ReplayedClients
<1>6. ASSUME NEW k \in 1 .. pool, NEW c \in Clients, AskPage(c, k) \/ Watch(c, k)
      PROVE  ClientOK'
  BY <1>2, <1>6, AskClients
<1>7. ASSUME NEW c \in Clients, WatchNow(c) \/ Close(c) PROVE ClientOK'
  BY <1>2, <1>7, WatchNowClients, CloseClients
<1>9. ASSUME NEW k \in 1 .. pool, InsertFailed(k) \/ PageFailed(k) \/ ReplayFailed(k)
      PROVE  ClientOK'
  BY <1>2, <1>9, InsertFailedClients, FailedClients
<1>8. ClientOK'
  BY <1>4, <1>5, <1>6, <1>7, <1>9, NextCases
<1>. QED  BY <1>3, <1>8

LEMMA InitPlaced == Init => Placed
<1>0. Init => LostOK
  BY DEF Init, LostOK, Conns
<1>1. SUFFICES ASSUME Init PROVE Listed /\ ClientOK
  BY <1>0 DEF Placed
<1>2. ASSUME NEW c \in Clients PROVE \E p \in 0 .. Heard : PlaceOK(c, p)
  <2>1. Heard = 0 /\ 0 \in 0 .. 0
    BY <1>1 DEF Init, Heard
  <2>2. PlaceOK(c, 0)
    BY <1>1 DEF Init, PlaceOK, At
  <2>. QED  BY <2>1, <2>2
<1>. QED  BY <1>1, <1>2, InitListed DEF ClientOK

-------------------------------------------------------------------------------
(* Each step is one of the feed, or none.                                  *)

LEMMA TextsOfLog ==
    ASSUME TypeOK
    PROVE  /\ Texts(log) \in Seq(Messages) /\ Len(Texts(log)) = Len(log)
           /\ DOMAIN Texts(log) = DOMAIN log
           /\ \A n \in DOMAIN log : Texts(log)[n] = log[n].msg
<1>1. log \in Seq(Row) /\ 0 \in Nat
  BY DEF TypeOK
<1>2. Texts(log) \in Seq(Messages) /\ Len(Texts(log)) = Len(log)
  BY <1>1, TextsType
<1>. QED  BY <1>1, <1>2 DEF Texts

\* What is handled is stored, each message once.
LEMMA HandledStored ==
    ASSUME Typed, Recorded
    PROVE  Len(heard) \in 0 .. Len(log)
<1>1. PICK a, b : a = Heard /\ b = Len(log)
  OBVIOUS
<1>2. a \in Nat /\ b \in Nat /\ DOMAIN heard = 1 .. a /\ DOMAIN log = 1 .. b
  BY <1>1, LogType DEF Typed
<1>3. PICK f : f = [i \in 1 .. a |-> CHOOSE n \in 1 .. b : log[n].msg = heard[i]]
  OBVIOUS
<1>4. \A i \in 1 .. a : f[i] \in 1 .. b /\ log[f[i]].msg = heard[i]
  <2>1. \A i \in 1 .. a : \E n \in 1 .. b : log[n].msg = heard[i]
    BY <1>2 DEF Recorded, HandledOK
  <2>. QED  BY <1>3, <2>1
<1>5. f \in Injection(1 .. a, 1 .. b)
  <2>1. f \in [1 .. a -> 1 .. b]
    BY <1>3, <1>4
  <2>2. ASSUME NEW i \in 1 .. a, NEW j \in 1 .. a, f[i] = f[j] PROVE i = j
    <3>1. heard[i] = heard[j]
      BY <1>4, <2>2
    <3>. QED  BY <1>2, <3>1 DEF Recorded, HandledOK
  <2>. QED  BY <2>1, <2>2, Fun_IsInj
<1>6. /\ IsFiniteSet(1 .. a) /\ Cardinality(1 .. a) = a
      /\ IsFiniteSet(1 .. b) /\ Cardinality(1 .. b) = b
  <2>1. /\ 1 \in Int /\ a \in Int /\ b \in Int
        /\ (IF 1 > a THEN 0 ELSE a - 1 + 1) = a /\ (IF 1 > b THEN 0 ELSE b - 1 + 1) = b
    BY <1>2
  <2>. QED  BY <2>1, FS_Interval
<1>7. a <= b
  <2>1. Cardinality(1 .. a) <= Cardinality(1 .. b)
    BY <1>5, <1>6, FS_Injection
  <2>. QED  BY <1>6, <2>1
<1>. QED  BY <1>1, <1>2, <1>7 DEF Heard

\* The feed's Give, for one client.
FedAt(h, news, from, out) ==
    \E at \in [news -> from + 1 .. Len(Texts(log))] :
        /\ \A i \in news : h[i] = Texts(log)[at[i]]
        /\ \A i, j \in news : i < j => at[i] < at[j]
        /\ \A i \in news : \A n \in from + 1 .. at[i] :
               Texts(log)[n] \in out \/ \E j \in news : at[j] = n
Fed(c) ==
    LET had  == 1 .. Len(got[c])
        news == DOMAIN got'[c] \ had
        from == Feed!Position(c)
    IN /\ \A i \in had : i \in DOMAIN got'[c] /\ got'[c][i] = got[c][i]
       /\ \A i \in news : \E n \in DOMAIN Texts(log) : got'[c][i] = Texts(log)[n]
       /\ pool = 1 => FedAt(got'[c], news, from, Feed!Missing(c))

LEMMA PositionAt ==
    ASSUME Typed, Recorded, NEW c \in Clients, NEW p, At(c, p)
    PROVE  Feed!Position(c) = p
<1>1. CASE got[c] = <<>>
  BY <1>1 DEF At, Feed!Position
<1>2. CASE got[c] # <<>>
  <2>1. PICK m : m = got[c][Len(got[c])]
    OBVIOUS
  <2>2. p \in DOMAIN log /\ log[p].msg = m
    BY <1>2, <2>1 DEF At
  <2>3. \A n \in DOMAIN log : log[n].msg = m => n = p
    BY <2>2 DEF Recorded, LogOK
  <2>4. /\ DOMAIN Texts(log) = DOMAIN log
        /\ \A n \in DOMAIN log : Texts(log)[n] = log[n].msg
    BY TextsOfLog DEF Typed
  <2>5. (CHOOSE i \in DOMAIN Texts(log) : Texts(log)[i] = m) = p
    BY <2>2, <2>3, <2>4
  <2>. QED  BY <1>2, <2>1, <2>5 DEF Feed!Position
<1>. QED  BY <1>1, <1>2

LEMMA GivenFed ==
    ASSUME Typed, Typed', Recorded, NEW c \in Clients, Given(c)
    PROVE  Fed(c)
<1>0. PICK out : out = Missed(c) /\ out = Feed!Missing(c)
  BY DEF Feed!Missing, Missed
<1>1. PICK items \in Seq(Row) :
          /\ Sends(c, items)
          /\ \A j \in DOMAIN items : InLog(items[j])
          /\ pool = 1 =>
                 \E p \in 0 .. Heard :
                     /\ At(c, p)
                     /\ \E at \in [DOMAIN items -> p + 1 .. Len(log)] :
                            Steps(items, p, at, Missed(c))
  BY DEF Given
<1>2. PICK g, h, a, b : g = got[c] /\ h = got'[c] /\ a = Len(g) /\ b = Len(items)
  OBVIOUS
<1>3. /\ a \in Nat /\ b \in Nat /\ DOMAIN g = 1 .. a /\ DOMAIN items = 1 .. b
      /\ DOMAIN h = 1 .. a + b
  <2>1. g \in Seq(Messages) /\ h \in Seq(Messages)
    BY <1>2 DEF Typed, TypeOK
  <2>. QED  BY <1>1, <1>2, <2>1 DEF Sends
<1>4. \A i \in 1 .. a : i \in DOMAIN h /\ h[i] = g[i]
  BY <1>1, <1>2, <1>3 DEF Sends
<1>5. PICK news : news = DOMAIN h \ (1 .. a)
  OBVIOUS
<1>6. \A i \in news : /\ i \in Nat /\ i - a \in 1 .. b /\ i = a + (i - a)
  BY <1>3, <1>5
<1>7. \A j \in 1 .. b : a + j \in news /\ (a + j) - a = j
  BY <1>3, <1>5
<1>8. \A i \in news : h[i] = items[i - a].msg
  <2>1. \A j \in 1 .. b : h[a + j] = items[j].msg
    BY <1>1, <1>2, <1>3 DEF Sends
  <2>2. ASSUME NEW i \in news PROVE h[i] = items[i - a].msg
    <3>1. PICK j \in 1 .. b : j = i - a /\ i = a + j
      BY <1>6
    <3>. QED  BY <2>1, <3>1
  <2>. QED  BY <2>2
<1>9. /\ DOMAIN Texts(log) = DOMAIN log /\ Len(Texts(log)) = Len(log)
      /\ \A n \in DOMAIN log : Texts(log)[n] = log[n].msg
      /\ Len(log) \in Nat /\ DOMAIN log = 1 .. Len(log)
  BY TextsOfLog, LogType DEF Typed
<1>10. \A i \in news : \E n \in DOMAIN Texts(log) : h[i] = Texts(log)[n]
  <2>1. ASSUME NEW i \in news PROVE \E n \in DOMAIN Texts(log) : h[i] = Texts(log)[n]
    <3>1. PICK n \in DOMAIN log : log[n] = items[i - a]
      BY <1>1, <1>3, <1>6 DEF InLog
    <3>. QED  BY <1>8, <1>9, <3>1
  <2>. QED  BY <2>1
<1>11. ASSUME pool = 1 PROVE FedAt(h, news, Feed!Position(c), out)
  <2>1. PICK p \in 0 .. Heard :
            /\ At(c, p)
            /\ \E at \in [DOMAIN items -> p + 1 .. Len(log)] :
                   Steps(items, p, at, Missed(c))
    BY <1>1, <1>11
  <2>2. PICK at \in [DOMAIN items -> p + 1 .. Len(log)] : Steps(items, p, at, out)
    BY <1>0, <2>1
  <2>3. Feed!Position(c) = p /\ p \in Nat
    BY <2>1, PositionAt, LogType DEF Typed
  <2>4. PICK to : to = [i \in news |-> at[i - a]]
    OBVIOUS
  <2>5. /\ to \in [news -> p + 1 .. Len(log)]
        /\ \A i \in news : i - a \in DOMAIN items /\ to[i] = at[i - a]
    BY <1>3, <1>6, <2>2, <2>4
  <2>6. \A n \in p + 1 .. Len(log) : n \in DOMAIN log /\ Texts(log)[n] = log[n].msg
    BY <1>9, <2>3
  <2>7. \A i \in news : h[i] = Texts(log)[to[i]]
    BY <1>8, <2>2, <2>5, <2>6 DEF Steps
  <2>8. ASSUME NEW i \in news, NEW j \in news, i < j PROVE to[i] < to[j]
    <3>1. i - a < j - a
      BY <1>3, <1>6, <2>8
    <3>. QED  BY <2>2, <2>5, <3>1 DEF Steps
  <2>9. ASSUME NEW i \in news, NEW n \in p + 1 .. to[i]
        PROVE  Texts(log)[n] \in out \/ \E j \in news : to[j] = n
    <3>1. PICK o : o = to[i] /\ o \in p + 1 .. Len(log) /\ o = at[i - a] /\ i - a \in DOMAIN items
      BY <2>5
    <3>2. n \in p + 1 .. o /\ n \in p + 1 .. Len(log)
      BY <1>9, <2>3, <2>9, <3>1
    <3>3. Texts(log)[n] = log[n].msg
      BY <2>6, <3>2
    <3>4. log[n].msg \in out \/ \E j \in DOMAIN items : at[j] = n
      BY <2>2, <3>1, <3>2 DEF Steps
    <3>5. ASSUME NEW j \in DOMAIN items, at[j] = n PROVE \E l \in news : to[l] = n
      <4>1. a + j \in news /\ (a + j) - a = j
        BY <1>3, <1>7
      <4>. QED  BY <2>5, <3>5, <4>1
    <3>. QED  BY <3>3, <3>4, <3>5
  <2>10. to \in [news -> p + 1 .. Len(Texts(log))]
    BY <1>9, <2>5
  <2>11. FedAt(h, news, p, out)
    BY <2>7, <2>8, <2>9, <2>10 DEF FedAt
  <2>. QED  BY <2>3, <2>11
<1>. QED  BY <1>0, <1>2, <1>4, <1>5, <1>10, <1>11 DEF Fed

\* What is sent to the clients in a step is the feed's Give.
LEMMA GiveStep ==
    ASSUME Typed, Typed', Recorded, \A c \in Clients : Given(c),
           UNCHANGED <<pool, log, gone, unsaid, base>>,
           \A c \in Clients : client[c].pc = "live" => client'[c].pc = "live"
    PROVE  Feed!Give
<1>1. \A c \in Clients : Fed(c)
  BY GivenFed
<1>2. DOMAIN got' = Clients
  BY DEF Typed, TypeOK
<1>3. Texts(log)' = Texts(log)
  BY DEF Texts
<1>4. {c \in Clients : client[c].pc = "live"} \subseteq {c \in Clients : client'[c].pc = "live"}
  OBVIOUS
<1>5. {c \in Clients : client'[c].pc = "live"} \subseteq Clients
  OBVIOUS
<1>. QED  BY <1>1, <1>2, <1>3, <1>4, <1>5 DEF Feed!Give, Fed, FedAt

LEMMA StoreStep ==
    ASSUME Typed, Recorded, Recorded', NEW k \in 1 .. pool, NEW i \in DOMAIN conn[k],
           InsertCommits(k, i)
    PROVE  \E m \in Messages : Feed!Store(m)
<1>1. PICK t \in Insertion, r \in Row :
          /\ Turned(k, i, t) /\ IsInsert(k, i) /\ conn[k][i].state = "begun"
          /\ t.by = conn[k][i].by /\ t.state = "done" /\ t.seq = conn[k][i].seq
          /\ r = Stored(conn[k][i]) /\ r.seq = conn[k][i].seq
          /\ r.msg = <<conn[k][i].by, post[conn[k][i].by].next>> /\ conn[k][i].by \in Posts
          /\ rows' = rows \cup {r} /\ log' = Append(log, r)
  BY CommitsEffect DEF Typed
<1>2. UNCHANGED <<pool, client, got, gone, unsaid, base>>
  BY DEF InsertCommits
<1>3. PICK n, m, l : n = Len(log) /\ m = r.msg /\ l = Append(log, r)
  OBVIOUS
<1>4. /\ m \in Messages /\ n \in Nat /\ DOMAIN log = 1 .. n /\ DOMAIN l = 1 .. n + 1
      /\ l \in Seq(Row) /\ l[n + 1] = r /\ \A o \in 1 .. n : l[o] = log[o]
  <2>1. log \in Seq(Row) /\ r \in Row
    BY DEF Typed, TypeOK
  <2>2. m \in Messages
    BY <1>3 DEF Row
  <2>3. n \in Nat /\ DOMAIN log = 1 .. n /\ l \in Seq(Row) /\ Len(l) = n + 1
    BY <1>3, <2>1
  <2>4. l[n + 1] = r /\ \A o \in 1 .. n : l[o] = log[o]
    BY <1>3, <2>1
  <2>. QED  BY <2>2, <2>3, <2>4
<1>5. \A o \in DOMAIN log : log[o].msg # m
  <2>1. SUFFICES ASSUME NEW o \in DOMAIN log, log[o].msg = m PROVE FALSE
    OBVIOUS
  <2>2. \A a, b \in DOMAIN l : l[a].msg = l[b].msg => a = b
    BY <1>1, <1>3, Zenon DEF Recorded, LogOK
  <2>3. o \in DOMAIN l /\ n + 1 \in DOMAIN l /\ l[o].msg = l[n + 1].msg /\ o # n + 1
    BY <1>3, <1>4, <2>1
  <2>. QED  BY <2>2, <2>3
<1>6. Texts(l) = Append(Texts(log), m)
  <2>1. PICK s, u : s = Texts(log) /\ u = Texts(l)
    OBVIOUS
  <2>2. /\ s \in Seq(Messages) /\ Len(s) = n
        /\ \A o \in 1 .. n : s[o] = log[o].msg
    BY <1>3, <1>4, <2>1, TextsOfLog DEF Typed
  <2>3. u \in Seq(Messages) /\ Len(u) = n + 1 /\ \A o \in 1 .. n + 1 : u[o] = l[o].msg
    <3>1. 0 \in Nat /\ Len(l) = n + 1
      BY <1>4
    <3>2. u \in Seq(Messages) /\ Len(u) = n + 1
      BY <1>4, <2>1, <3>1, TextsType
    <3>. QED  BY <1>4, <2>1, <3>2 DEF Texts
  <2>4. PICK v : v = Append(s, m)
    OBVIOUS
  <2>5. /\ v \in Seq(Messages) /\ Len(v) = n + 1 /\ v[n + 1] = m
        /\ \A o \in 1 .. n : v[o] = s[o]
    BY <1>4, <2>2, <2>4
  <2>6. \A o \in 1 .. n + 1 : u[o] = v[o]
    <3>1. \A o \in 1 .. n + 1 : o \in 1 .. n \/ o = n + 1
      BY <1>4
    <3>2. \A o \in 1 .. n : u[o] = v[o]
      BY <1>4, <2>2, <2>3, <2>5
    <3>3. u[n + 1] = v[n + 1]
      BY <1>3, <1>4, <2>3, <2>5
    <3>. QED  BY <3>1, <3>2, <3>3
  <2>7. u = v
    BY <2>3, <2>5, <2>6, SeqEqual
  <2>. QED  BY <2>1, <2>4, <2>7
<1>7. \A o \in DOMAIN Texts(log) : Texts(log)[o] # m
  BY <1>5, TextsOfLog DEF Typed
<1>8. Texts(log)' = Append(Texts(log), m)
  <2>1. Texts(log)' = Texts(l)
    BY <1>1, <1>3 DEF Texts
  <2>. QED  BY <1>6, <2>1
<1>. QED  BY <1>2, <1>4, <1>7, <1>8 DEF Feed!Store

LEMMA RemoveStep ==
    ASSUME Typed, Recorded, NEW r \in rows, Vanish(r)
    PROVE  \E m \in Messages : Feed!Remove(m)
<1>1. r.msg \in Messages
  BY DEF Typed, TypeOK, Row
<1>2. Texts(log)' = Texts(log)
  BY DEF Vanish, Texts
<1>. QED  BY <1>1, <1>2 DEF Vanish, Feed!Remove

LEMMA JoinStep ==
    ASSUME Typed, Recorded, NEW c \in Clients, WatchNow(c)
    PROVE  \E n \in 0 .. Len(Texts(log)) : Feed!Join(c, n)
<1>1. Len(heard) \in 0 .. Len(Texts(log))
  BY HandledStored, TextsOfLog DEF Typed
<1>2. Texts(log)' = Texts(log)
  BY DEF WatchNow, Texts
<1>3. Becomes(c, "live", TRUE, client[c].cursor, client[c].buffer, client[c].reads + 1)
  BY WatchNowFields DEF Typed
<1>4. {d \in Clients : client'[d].pc = "live"}
      = {d \in Clients : client[d].pc = "live"} \cup {c}
  BY <1>3 DEF Becomes
<1>. QED  BY <1>1, <1>2, <1>4 DEF WatchNow, Feed!Join, db

\* A client that closes its connection is live no longer, if it was.
LEMMA LeaveStep ==
    ASSUME Typed, NEW c \in Clients, Close(c)
    PROVE  Feed!Leave(c)
<1>1. Texts(log)' = Texts(log)
  BY DEF Close, hist, Texts
<1>2. Becomes(c, "idle", client[c].joined, client[c].cursor, <<>>, client[c].reads)
  BY CloseFields DEF Typed
<1>3. {d \in Clients : client'[d].pc = "live"} = {d \in Clients : client[d].pc = "live"} \ {c}
  BY <1>2 DEF Becomes
<1>. QED  BY <1>1, <1>3 DEF Close, Feed!Leave, db, hist

\* An answer is lost only of what is stored.
LEMMA UnansweredStep ==
    ASSUME Typed, Recorded, NEW k \in 1 .. pool, NEW i \in DOMAIN conn[k], AnswerLost(k, i)
    PROVE  \E m \in Messages : Feed!Unanswered(m)
<1>1. PICK r \in Row :
          /\ IsInsert(k, i) /\ conn[k][i].state = "done"
          /\ r = Stored(conn[k][i]) /\ unsaid' = unsaid \cup {r.msg}
  BY LostEffect DEF Typed
<1>2. PICK m : m = r.msg
  OBVIOUS
<1>3. m \in Messages
  BY <1>2 DEF Row
<1>4. \E n \in DOMAIN Texts(log) : Texts(log)[n] = m
  <2>1. InLog(r)
    BY <1>1, ConnType DEF Recorded, HeldOK, IsDone, Typed
  <2>. QED  BY <1>2, <2>1, TextsOfLog DEF InLog, Typed
<1>5. UNCHANGED <<pool, client, got, log, gone, base>>
  BY LostKeeps
<1>6. Texts(log)' = Texts(log)
  BY <1>5 DEF Texts
<1>. QED  BY <1>1, <1>2, <1>3, <1>4, <1>5, <1>6 DEF Feed!Unanswered

\* Who is live goes on while clients are given messages.
LEMMA LiveStays ==
    ASSUME Typed, NEW k \in 1 .. pool, Inserted(k) \/ Paged(k) \/ Replayed(k)
    PROVE  \A c \in Clients : client[c].pc = "live" => client'[c].pc = "live"
<1>1. CASE Inserted(k)
  <2>1. PICK item \in Row : client' = [c \in Clients |-> Notified(client[c], item)]
                            /\ got' = [c \in Clients |-> Sent(c, item)]
    BY <1>1, InsertedEffect DEF Typed
  <2>. QED  BY <2>1, NotifiedFields DEF Typed
<1>2. CASE Paged(k)
  <2>1. PICK c \in Clients, items \in Seq(Row) :
            /\ Answered(k) /\ conn[k][1].kind = "page" /\ c = conn[k][1].by
            /\ client' = [client EXCEPT ![c].pc = "idle", ![c].cursor = LastSeq(items, @)]
    BY <1>2, PagedEffect DEF Typed
  <2>2. client[c].pc = "paging"
    BY <2>1 DEF Typed, PageOK, Answered
  <2>. QED  BY <2>1, <2>2 DEF Typed, TypeOK
<1>3. CASE Replayed(k)
  <2>1. PICK c \in Clients :
            \/ UNCHANGED client
            \/ \E n : client' = [client EXCEPT ![c].pc = "live", ![c].buffer = <<>>,
                                              ![c].cursor = n]
    BY <1>3, ReplayedEffect, Zenon DEF Typed
  <2>2. CASE UNCHANGED client
    BY <2>2
  <2>3. CASE ~UNCHANGED client
    <3>1. PICK n : client' = [client EXCEPT ![c].pc = "live", ![c].buffer = <<>>,
                                            ![c].cursor = n]
      BY <2>1, <2>3
    <3>. QED  BY <3>1 DEF Typed, TypeOK, Client
  <2>. QED  BY <2>2, <2>3
<1>. QED  BY <1>1, <1>2, <1>3

LEMMA FeedStill ==
    ASSUME UNCHANGED <<pool, log, gone, unsaid, base, got>>,
           \A c \in Clients : client'[c].pc = "live" <=> client[c].pc = "live"
    PROVE  UNCHANGED Feed!vars
BY DEF Feed!vars, Texts

LEMMA FeedStep ==
    ASSUME Typed, Recorded, Placed, [Next]_vars
    PROVE  [Feed!Next]_(Feed!vars)
<1>1. Typed' /\ Recorded'
  BY TypedStep, RecordedStep
<1>2. CASE Apart
  <2>1. ASSUME NEW k \in 1 .. pool, NEW i \in DOMAIN conn[k], InsertCommits(k, i)
        PROVE  Feed!Next
    BY <1>1, <2>1, StoreStep DEF Feed!Next
  <2>2. ASSUME NEW k \in 1 .. pool, NEW i \in DOMAIN conn[k],
               \/ InsertBegins(k, i) \/ SelectRuns(k, i) \/ InsertFails(k, i)
               \/ SelectFails(k, i)
        PROVE  UNCHANGED Feed!vars
    BY <2>2, FeedStill, Zenon DEF InsertBegins, SelectRuns, InsertFails, SelectFails, db, hist
  <2>3. ASSUME NEW k \in 1 .. pool, NEW p \in Posts, Insert(p, k)
        PROVE  UNCHANGED Feed!vars
    BY <2>3, FeedStill DEF Insert, db, hist
  <2>6. ASSUME NEW k \in 1 .. pool, NEW i \in DOMAIN conn[k], AnswerLost(k, i)
        PROVE  Feed!Next
    BY <2>6, UnansweredStep DEF Feed!Next
  <2>4. ASSUME NEW r \in rows, Vanish(r) PROVE Feed!Next
    BY <2>4, RemoveStep DEF Feed!Next
  <2>5. CASE UNCHANGED vars
    BY <2>5, FeedStill DEF vars
  <2>. QED  BY <1>2, <2>1, <2>2, <2>3, <2>4, <2>5, <2>6 DEF Apart, Database
<1>3. ASSUME NEW k \in 1 .. pool, Inserted(k) \/ Paged(k) \/ Replayed(k) PROVE Feed!Next
  <2>1. \A c \in Clients : Given(c)
    BY <1>1, <1>3, InsertedClients, PagedClients, ReplayedClients
  <2>2. UNCHANGED <<pool, log, gone, unsaid, base>>
    BY <1>3, Zenon DEF Inserted, Paged, Replayed, db, hist
  <2>3. \A c \in Clients : client[c].pc = "live" => client'[c].pc = "live"
    BY <1>3, LiveStays
  <2>. QED  BY <1>1, <2>1, <2>2, <2>3, GiveStep DEF Feed!Next
<1>6. ASSUME NEW k \in 1 .. pool, InsertFailed(k) \/ PageFailed(k) \/ ReplayFailed(k)
      PROVE  UNCHANGED Feed!vars
  <2>1. CASE InsertFailed(k)
    BY <2>1, FeedStill DEF InsertFailed, db
  <2>2. CASE PageFailed(k) \/ ReplayFailed(k)
    <3>1. UNCHANGED <<pool, log, gone, unsaid, base, got>>
      BY <2>2, FailedFields, Zenon DEF Typed, db, hist
    <3>2. \A c \in Clients : client'[c].pc = "live" <=> client[c].pc = "live"
      <4>1. PICK c \in Clients :
                \/ UNCHANGED client
                \/ \E pc \in {"idle", "silent"}, buffer \in Seq(Row) :
                      /\ Becomes(c, pc, client[c].joined, client[c].cursor, buffer,
                                 client[c].reads)
                      /\ client[c].pc \in {"paging", "following"}
        BY <2>2, FailedFields, Zenon DEF Typed
      <4>. QED  BY <4>1 DEF Becomes
    <3>. QED  BY <3>1, <3>2, FeedStill
  <2>. QED  BY <1>6, <2>1, <2>2
<1>4. ASSUME NEW k \in 1 .. pool, NEW c \in Clients, AskPage(c, k) \/ Watch(c, k)
      PROVE  UNCHANGED Feed!vars
  <2>1. PICK pc \in {"paging", "following"} :
            /\ client[c].pc = "idle"
            /\ client' = [client EXCEPT ![c].pc = pc, ![c].reads = @ + 1]
    BY <1>4 DEF AskPage, Watch
  <2>2. Becomes(c, pc, client[c].joined, client[c].cursor, client[c].buffer,
                client[c].reads + 1)
    BY <2>1, AskFields DEF Typed
  <2>3. \A d \in Clients : client'[d].pc = "live" <=> client[d].pc = "live"
    BY <2>1, <2>2 DEF Becomes
  <2>4. UNCHANGED <<pool, log, gone, unsaid, base, got>>
    BY <1>4 DEF AskPage, Watch, db, hist
  <2>. QED  BY <2>3, <2>4, FeedStill
<1>5. ASSUME NEW c \in Clients, WatchNow(c) \/ Close(c) PROVE Feed!Next
  <2>1. CASE WatchNow(c)
    <3>1. \E n \in 0 .. Len(Texts(log)) : Feed!Join(c, n)
      BY <1>1, <2>1, JoinStep
    <3>. QED  BY <3>1 DEF Feed!Next
  <2>2. CASE Close(c)
    BY <2>2, LeaveStep DEF Feed!Next
  <2>. QED  BY <1>5, <2>1, <2>2
<1>. QED  BY <1>2, <1>3, <1>4, <1>5, <1>6, NextCases

\* What clients get of a conversation is a feed of it: with one connection in the pool
\* the messages stored behind a client's start, each once and in the order of the list,
\* none missing but some that are gone and, while it watches, some whose INSERT was
\* answered with an error although it was carried out; with more, nothing that was not
\* stored (postgres-message-stream.ts, pagination.ts, sse.ts).
THEOREM Implements == Spec => IsFeed
<1>1. Init => Typed /\ Recorded /\ Placed
  BY TypedInit, InitRecorded, InitPlaced
<1>2. Typed /\ Recorded /\ Placed /\ [Next]_vars => (Typed /\ Recorded /\ Placed)'
  BY TypedStep, RecordedStep, PlacedStep
<1>3. Init => Feed!Init
  <2>1. SUFFICES ASSUME Init PROVE Feed!Init
    OBVIOUS
  <2>2. Texts(log) = <<>>
    BY <2>1 DEF Init, Texts
  <2>3. {c \in Clients : client[c].pc = "live"} = {}
    BY <2>1 DEF Init
  <2>. QED  BY <2>1, <2>2, <2>3 DEF Init, Feed!Init
<1>4. Typed /\ Recorded /\ Placed /\ [Next]_vars => [Feed!Next]_(Feed!vars)
  BY FeedStep
<1>. QED  BY <1>1, <1>2, <1>3, <1>4, PTL DEF Spec, IsFeed, Feed!Spec

-------------------------------------------------------------------------------
(* A client that watches without a cursor and stays, whatever the pool.    *)

\* Who joined has read, and who follows after that has read again.
Counted ==
    \A c \in Clients : client[c].joined =>
        /\ client[c].reads # 0
        /\ client[c].pc = "following" => client[c].reads # 1

\* A client still in its first watch.
First(c) == client[c].pc = "live" /\ client[c].joined /\ client[c].reads = 1
Told(c)  == /\ since[c] \in 0 .. Len(announced)
            /\ got[c] = SubSeq(announced, since[c] + 1, Len(announced))
Exact == \A c \in Clients : First(c) => Told(c)

LEMMA AppendEqual ==
    ASSUME NEW T, NEW u \in Seq(T), NEW v \in Seq(T), NEW m \in T, NEW k \in Nat,
           Len(u) = k + 1, Len(v) = k, u[k + 1] = m, \A i \in 1 .. k : u[i] = v[i]
    PROVE  u = Append(v, m)
<1>. PICK w : w = Append(v, m)
  OBVIOUS
<1>1. /\ w \in Seq(T) /\ Len(w) = k + 1
      /\ w[k + 1] = m /\ \A i \in 1 .. k : w[i] = v[i]
  OBVIOUS
<1>2. ASSUME NEW i \in 1 .. Len(u) PROVE u[i] = w[i]
  <2>1. i \in 1 .. k \/ i = k + 1
    OBVIOUS
  <2>. QED  BY <1>1, <2>1
<1>3. u = w
  BY <1>1, <1>2, SeqEqual
<1>. QED  BY <1>3

LEMMA SubSeqAppend ==
    ASSUME NEW S, NEW s \in Seq(S), NEW m, NEW b \in 0 .. Len(s)
    PROVE  SubSeq(Append(s, m), b + 1, Len(Append(s, m))) = Append(SubSeq(s, b + 1, Len(s)), m)
<1>1. PICK n, k, lo, hi : /\ n = Len(s) /\ k = n - b /\ lo = b + 1 /\ hi = n + 1
                          /\ n \in Nat /\ k \in Nat /\ lo \in Int /\ hi \in Int /\ b \in Nat
                          /\ hi - lo + 1 = k + 1 /\ n - lo + 1 = k
                          /\ \A i \in Int : lo + i - 1 = b + i
  <2>1. PICK n : n = Len(s)
    OBVIOUS
  <2>2. n \in Nat /\ b \in 0 .. n
    BY <2>1
  <2>3. PICK k, lo, hi : k = n - b /\ lo = b + 1 /\ hi = n + 1
    OBVIOUS
  <2>4. /\ k \in Nat /\ lo \in Int /\ hi \in Int /\ b \in Nat
        /\ hi - lo + 1 = k + 1 /\ n - lo + 1 = k
        /\ \A i \in Int : lo + i - 1 = b + i
    BY <2>2, <2>3
  <2>. QED  BY <2>1, <2>2, <2>3, <2>4
<1>2. PICK T : S \subseteq T /\ m \in T
  <2>1. S \subseteq S \cup {m} /\ m \in S \cup {m}
    OBVIOUS
  <2>. QED  BY <2>1
<1>3. s \in Seq(T)
  BY <1>2
<1>4. PICK t : t = Append(s, m)
  OBVIOUS
<1>5. /\ t \in Seq(T) /\ Len(t) = n + 1 /\ t[n + 1] = m
      /\ \A i \in 1 .. n : t[i] = s[i]
  BY <1>1, <1>2, <1>3, <1>4
<1>6. PICK u : u = SubSeq(t, lo, hi)
  OBVIOUS
<1>7. u \in Seq(T) /\ Len(u) = k + 1 /\ \A i \in 1 .. k + 1 : u[i] = t[b + i]
  <2>1. \A i \in lo .. hi : t[i] \in T
    BY <1>1, <1>5
  <2>2. /\ u \in Seq(T) /\ Len(u) = IF lo <= hi THEN hi - lo + 1 ELSE 0
        /\ \A i \in 1 .. hi - lo + 1 : u[i] = t[lo + i - 1]
    BY <1>1, <1>6, <2>1, SubSeqProperties
  <2>3. lo <= hi
    BY <1>1
  <2>. QED  BY <1>1, <2>2, <2>3
<1>8. PICK v : v = SubSeq(s, lo, n)
  OBVIOUS
<1>9. v \in Seq(T) /\ Len(v) = k /\ \A i \in 1 .. k : v[i] = s[b + i]
  <2>1. \A i \in lo .. n : s[i] \in T
    BY <1>1, <1>3
  <2>2. /\ v \in Seq(T) /\ Len(v) = IF lo <= n THEN n - lo + 1 ELSE 0
        /\ \A i \in 1 .. n - lo + 1 : v[i] = s[lo + i - 1]
    BY <1>1, <1>8, <2>1, SubSeqProperties
  <2>3. lo <= n \/ k = 0
    BY <1>1
  <2>. QED  BY <1>1, <2>2, <2>3
<1>10. u[k + 1] = m
  <2>1. b + (k + 1) = n + 1 /\ k + 1 \in 1 .. k + 1
    BY <1>1
  <2>. QED  BY <1>5, <1>7, <2>1
<1>11. \A i \in 1 .. k : u[i] = v[i]
  <2>1. \A i \in 1 .. k : i \in 1 .. k + 1 /\ b + i \in 1 .. n
    BY <1>1
  <2>. QED  BY <1>5, <1>7, <1>9, <2>1
<1>12. u = Append(v, m)
  BY <1>1, <1>2, <1>7, <1>9, <1>10, <1>11, AppendEqual
<1>13. Len(Append(s, m)) = hi
  BY <1>1, <1>4, <1>5
<1>. QED  BY <1>1, <1>4, <1>6, <1>8, <1>12, <1>13

LEMMA LiveInserted ==
    ASSUME Typed, Counted, Exact, NEW k \in 1 .. pool, Inserted(k)
    PROVE  Counted' /\ Exact'
<1>1. PICK p \in Posts, item \in Row :
          /\ Answered(k) /\ IsInsert(k, 1) /\ IsDone(k, 1)
          /\ p = conn[k][1].by /\ item = Stored(conn[k][1])
          /\ item.seq = conn[k][1].seq /\ item.msg = <<p, post[p].next>>
          /\ post' = [post EXCEPT ![p] = [next |-> @.next + 1, pc |-> "idle"]]
          /\ client' = [c \in Clients |-> Notified(client[c], item)]
          /\ got' = [c \in Clients |-> Sent(c, item)]
          /\ announced' = Append(announced, item.msg)
  BY InsertedEffect DEF Typed
<1>2. \A c \in Clients :
          /\ client'[c].pc = client[c].pc /\ client'[c].joined = client[c].joined
          /\ client'[c].reads = client[c].reads
          /\ got'[c] = IF client[c].pc = "live" THEN Append(got[c], item.msg) ELSE got[c]
  BY <1>1, NotifiedFields, Zenon DEF Typed
<1>3. since' = since
  BY DEF Inserted
<1>4. Counted'
  BY <1>2 DEF Counted
<1>5. ASSUME NEW c \in Clients, First(c)' PROVE Told(c)'
  <2>1. First(c)
    BY <1>2, <1>5 DEF First
  <2>2. PICK b, m : b = since[c] /\ m = item.msg
    OBVIOUS
  <2>3. /\ b \in 0 .. Len(announced)
        /\ got[c] = SubSeq(announced, b + 1, Len(announced))
    BY <2>1, <2>2 DEF Exact, Told
  <2>4. announced \in Seq(Messages) /\ m \in Messages
    BY <2>2 DEF Typed, TypeOK, Row
  <2>5. got'[c] = Append(got[c], m) /\ announced' = Append(announced, m)
    BY <1>1, <1>2, <2>1, <2>2 DEF First
  <2>6. got'[c] = SubSeq(announced', b + 1, Len(announced'))
    BY <2>3, <2>4, <2>5, SubSeqAppend
  <2>7. b \in 0 .. Len(announced')
    <3>1. Len(announced') = Len(announced) + 1 /\ Len(announced) \in Nat
      BY <2>4, <2>5
    <3>. QED  BY <2>3, <3>1
  <2>. QED  BY <1>3, <2>2, <2>6, <2>7 DEF Told
<1>. QED  BY <1>4, <1>5 DEF Exact

\* A client asks for a page or a watch, gets it, or closes: it is not in its first watch
\* before it asks, nor after it got what it asked for.
LEMMA LiveRead ==
    ASSUME Typed, Counted, Exact, NEW c \in Clients, UNCHANGED <<announced, since>>,
           \A d \in Clients \ {c} : client'[d] = client[d] /\ got'[d] = got[d],
           client'[c].joined = client[c].joined,
           \/ client'[c].reads = client[c].reads /\ client'[c].pc \in {"idle", "silent"}
           \/ /\ client[c].pc = "following" /\ client'[c].pc = "live"
              /\ client'[c].reads = client[c].reads
           \/ /\ client'[c].reads = client[c].reads + 1
              /\ client'[c].pc \in {"paging", "following"}
    PROVE  Counted' /\ Exact'
<1>1. client[c].reads \in Nat
  BY DEF Typed, TypeOK, Client
<1>2. Counted'
  BY <1>1 DEF Counted
<1>3. \A d \in Clients : First(d)' => d # c
  BY <1>1 DEF Counted, First
<1>4. Exact'
  BY <1>3 DEF Exact, First, Told
<1>. QED  BY <1>2, <1>4

LEMMA LiveAsk ==
    ASSUME Typed, Counted, Exact, NEW c \in Clients, NEW k \in 1 .. pool,
           AskPage(c, k) \/ Watch(c, k)
    PROVE  Counted' /\ Exact'
<1>1. PICK pc \in {"paging", "following"} :
          client' = [client EXCEPT ![c].pc = pc, ![c].reads = @ + 1]
  BY DEF AskPage, Watch
<1>2. Becomes(c, pc, client[c].joined, client[c].cursor, client[c].buffer, client[c].reads + 1)
  BY <1>1, AskFields DEF Typed
<1>3. UNCHANGED <<got, announced, since>>
  BY DEF AskPage, Watch, hist
<1>. QED  BY <1>2, <1>3, LiveRead DEF Becomes

LEMMA LivePaged ==
    ASSUME Typed, Counted, Exact, NEW k \in 1 .. pool, Paged(k)
    PROVE  Counted' /\ Exact'
<1>1. PICK c \in Clients, items \in Seq(Row) :
          /\ Answered(k) /\ conn[k][1].kind = "page" /\ IsDone(k, 1) /\ c = conn[k][1].by
          /\ conn[k][1].found \in Seq(Row)
          /\ News(items, conn[k][1].found, client[c].cursor, <<>>)
          /\ got' = [got EXCEPT ![c] = @ \o Texts(items)]
          /\ client' = [client EXCEPT ![c].pc = "idle", ![c].cursor = LastSeq(items, @)]
  BY PagedEffect DEF Typed
<1>2. PICK n : n = LastSeq(items, client[c].cursor)
  OBVIOUS
<1>3. n \in Nat
  BY <1>2, TextsType DEF Typed, TypeOK, Client
<1>4. Becomes(c, "idle", client[c].joined, n, client[c].buffer, client[c].reads)
  BY <1>1, <1>2, <1>3, PagedFields, Zenon DEF Typed
<1>5. UNCHANGED <<announced, since>> /\ \A d \in Clients \ {c} : got'[d] = got[d]
  <2>1. UNCHANGED <<announced, since>>
    BY Zenon DEF Paged, hist
  <2>2. DOMAIN got = Clients
    BY DEF Typed, TypeOK
  <2>. QED  BY <1>1, <2>1, <2>2, Zenon
<1>. QED  BY <1>4, <1>5, LiveRead DEF Becomes

LEMMA LiveReplayed ==
    ASSUME Typed, Counted, Exact, NEW k \in 1 .. pool, Replayed(k)
    PROVE  Counted' /\ Exact'
<1>1. PICK c \in Clients :
          /\ Answered(k) /\ conn[k][1].kind = "watch" /\ IsDone(k, 1) /\ c = conn[k][1].by
          /\ conn[k][1].found \in Seq(Row)
          /\ \/ UNCHANGED <<got, client>>
             \/ /\ client[c].pc = "following"
                /\ \E items : /\ News(items, conn[k][1].found, client[c].cursor,
                                      client[c].buffer)
                              /\ Complete(items, conn[k][1].found, client[c].cursor)
                              /\ got' = [got EXCEPT ![c] = @ \o Texts(items)]
                              /\ client' = [client EXCEPT ![c].pc = "live",
                                                          ![c].buffer = <<>>,
                                                          ![c].cursor = LastSeq(items, @)]
  BY ReplayedEffect, Zenon DEF Typed
<1>2. UNCHANGED <<announced, since>>
  BY Zenon DEF Replayed, hist
<1>3. CASE UNCHANGED <<got, client>>
  BY <1>2, <1>3 DEF Counted, Exact, First, Told
<1>4. CASE ~UNCHANGED <<got, client>>
  <2>1. client[c].pc = "following"
    BY <1>1, <1>4, Zenon
  <2>2. PICK items :
            /\ items \in Seq(Row)
            /\ got' = [got EXCEPT ![c] = @ \o Texts(items)]
            /\ client' = [client EXCEPT ![c].pc = "live", ![c].buffer = <<>>,
                                        ![c].cursor = LastSeq(items, @)]
    BY <1>1, <1>4, Zenon DEF News
  <2>3. PICK n : n = LastSeq(items, client[c].cursor)
    OBVIOUS
  <2>4. n \in Nat
    BY <2>2, <2>3, TextsType DEF Typed, TypeOK, Client
  <2>5. client' = [client EXCEPT ![c].pc = "live", ![c].buffer = <<>>, ![c].cursor = n]
    BY <2>2, <2>3
  <2>6. Becomes(c, "live", client[c].joined, n, <<>>, client[c].reads)
    BY <2>4, <2>5, ReplayedFields, Zenon DEF Typed
  <2>7. \A d \in Clients \ {c} : got'[d] = got[d]
    BY <2>2 DEF Typed, TypeOK
  <2>. QED  BY <1>2, <2>1, <2>6, <2>7, LiveRead DEF Becomes
<1>. QED  BY <1>3, <1>4

LEMMA LiveWatchNow ==
    ASSUME Typed, Counted, Exact, NEW c \in Clients, WatchNow(c)
    PROVE  Counted' /\ Exact'
<1>1. Becomes(c, "live", TRUE, client[c].cursor, client[c].buffer, client[c].reads + 1)
  BY WatchNowFields DEF Typed
<1>2. /\ since' = [since EXCEPT ![c] = Len(announced)]
      /\ got[c] = <<>> /\ UNCHANGED <<got, announced>>
  BY DEF WatchNow
<1>3. since'[c] = Len(announced) /\ \A d \in Clients \ {c} : since'[d] = since[d]
  BY <1>2 DEF Typed, TypeOK
<1>4. Counted'
  <2>1. client[c].reads \in Nat
    BY DEF Typed, TypeOK, Client
  <2>. QED  BY <1>1, <2>1 DEF Counted, Becomes
<1>5. Told(c)'
  <2>1. announced \in Seq(Messages)
    BY DEF Typed, TypeOK
  <2>2. PICK n : n = Len(announced)
    OBVIOUS
  <2>3. n \in Nat /\ n + 1 \in Int /\ \A i \in n + 1 .. n : announced[i] \in Messages
    BY <2>1, <2>2
  <2>4. PICK lo : lo = n + 1
    OBVIOUS
  <2>5. SubSeq(announced, lo, n) \in Seq(Messages) /\ Len(SubSeq(announced, lo, n)) = 0
    BY <2>3, <2>4, SubSeqProperties
  <2>6. SubSeq(announced, n + 1, n) = <<>>
    BY <2>4, <2>5, EmptySeq
  <2>7. since'[c] = n /\ Len(announced') = n /\ got'[c] = <<>> /\ announced' = announced
    BY <1>2, <1>3, <2>2
  <2>8. got'[c] = SubSeq(announced', since'[c] + 1, Len(announced'))
    BY <2>6, <2>7, Zenon
  <2>9. since'[c] \in 0 .. Len(announced')
    BY <2>3, <2>7
  <2>. QED  BY <2>8, <2>9 DEF Told
<1>6. Exact'
  BY <1>1, <1>2, <1>3, <1>5 DEF Exact, First, Told, Becomes
<1>. QED  BY <1>4, <1>6

LEMMA LiveStep ==
    ASSUME Typed, Counted, Exact, [Next]_vars
    PROVE  Counted' /\ Exact'
<1>1. CASE Apart
  <2>1. UNCHANGED <<client, got, announced, since>>
    BY <1>1, ApartFrame
  <2>. QED  BY <2>1 DEF Counted, Exact, First, Told
<1>2. ASSUME NEW c \in Clients, Close(c) PROVE Counted' /\ Exact'
  <2>1. Becomes(c, "idle", client[c].joined, client[c].cursor, <<>>, client[c].reads)
    BY <1>2, CloseFields DEF Typed
  <2>2. UNCHANGED <<got, announced, since>>
    BY <1>2 DEF Close, hist
  <2>. QED  BY <2>1, <2>2, LiveRead DEF Becomes
<1>3. ASSUME NEW k \in 1 .. pool, InsertFailed(k) PROVE Counted' /\ Exact'
  <2>1. UNCHANGED <<client, got, announced, since>>
    BY <1>3 DEF InsertFailed
  <2>. QED  BY <2>1 DEF Counted, Exact, First, Told
<1>4. ASSUME NEW k \in 1 .. pool, PageFailed(k) \/ ReplayFailed(k) PROVE Counted' /\ Exact'
  <2>1. UNCHANGED <<got, announced, since>>
    BY <1>4, FailedFields, Zenon DEF Typed, hist
  <2>2. PICK c \in Clients :
            \/ UNCHANGED client
            \/ \E pc \in {"idle", "silent"}, buffer \in Seq(Row) :
                  Becomes(c, pc, client[c].joined, client[c].cursor, buffer, client[c].reads)
    BY <1>4, FailedFields, Zenon DEF Typed
  <2>3. CASE UNCHANGED client
    BY <2>1, <2>3 DEF Counted, Exact, First, Told
  <2>4. CASE ~UNCHANGED client
    <3>1. PICK pc \in {"idle", "silent"}, buffer \in Seq(Row) :
              Becomes(c, pc, client[c].joined, client[c].cursor, buffer, client[c].reads)
      BY <2>2, <2>4
    <3>. QED  BY <2>1, <3>1, LiveRead DEF Becomes
  <2>. QED  BY <2>3, <2>4
<1>. QED  BY <1>1, <1>2, <1>3, <1>4, NextCases, LiveInserted, LivePaged, LiveReplayed, LiveAsk,
             LiveWatchNow

\* However many connections the pool has and whatever expires or fails, a client that
\* watches without a cursor and stays gets each message announced from then on, once and
\* in that order (sse.ts subscriber).
THEOREM LiveTheorem == Spec => []LiveIsExact
<1>1. Init => Counted /\ Exact
  BY DEF Init, Counted, Exact, First
<1>2. Exact => LiveIsExact
  BY DEF Exact, First, Told, LiveIsExact
<1>3. Typed /\ Counted /\ Exact /\ [Next]_vars => Typed' /\ Counted' /\ Exact'
  BY TypedStep, LiveStep
<1>. QED  BY <1>1, <1>2, <1>3, TypedInit, PTL DEF Spec

(***************************************************************************)
(* Numbers, whatever the pool: no two rows share one, so that the lists    *)
(* the actions take (InOrder, Beyond, Replay) are there, and only these.   *)
(***************************************************************************)

\* An INSERT that has its number and has not committed.
Begun(k, i) == IsInsert(k, i) /\ conn[k][i].state = "begun"
Numbers     == 1 .. messagesSeq
Numbered ==
    /\ \A r \in rows : r.seq \in Numbers
    /\ \A r, s \in rows : r.seq = s.seq => r = s
    /\ \A k \in Conns : \A i \in DOMAIN conn[k] : Begun(k, i) =>
           conn[k][i].seq \in Numbers /\ \A r \in rows : r.seq # conn[k][i].seq
    /\ \A k, l \in Conns : \A i \in DOMAIN conn[k], j \in DOMAIN conn[l] :
           Begun(k, i) /\ Begun(l, j) /\ conn[k][i].seq = conn[l][j].seq => k = l /\ i = j

\* What is begun after a step was begun before it, d[l] places behind.
BegunKept(d) ==
    /\ d \in [Conns -> {0, 1}]
    /\ \A l \in Conns : \A j \in DOMAIN conn'[l] : Begun(l, j)' =>
           j \in Nat /\ j + d[l] \in DOMAIN conn[l] /\ conn'[l][j] = conn[l][j + d[l]]

LEMMA NumberedFrame ==
    ASSUME Numbered, NEW d, BegunKept(d), rows' \subseteq rows, messagesSeq' = messagesSeq
    PROVE  Numbered'
<1>1. ASSUME NEW l \in Conns, NEW j \in DOMAIN conn'[l], Begun(l, j)'
      PROVE  /\ j \in Nat /\ j + d[l] \in DOMAIN conn[l] /\ Begun(l, j + d[l])
             /\ conn'[l][j] = conn[l][j + d[l]]
  BY <1>1 DEF BegunKept, Begun, IsInsert
<1>2. ASSUME NEW k \in Conns, NEW l \in Conns, NEW i \in DOMAIN conn'[k],
             NEW j \in DOMAIN conn'[l], Begun(k, i)', Begun(l, j)',
             conn'[k][i].seq = conn'[l][j].seq
      PROVE  k = l /\ i = j
  <2>1. k = l /\ i + d[k] = j + d[l]
    BY <1>1, <1>2 DEF Numbered
  <2>2. i \in Nat /\ j \in Nat /\ d[k] \in {0, 1}
    BY <1>1, <1>2 DEF BegunKept
  <2>. QED  BY <2>1, <2>2
<1>3. ASSUME NEW k \in Conns, NEW i \in DOMAIN conn'[k], Begun(k, i)'
      PROVE  conn'[k][i].seq \in Numbers' /\ \A r \in rows' : r.seq # conn'[k][i].seq
  BY <1>1, <1>3 DEF Numbered, Numbers
<1>4. /\ \A r \in rows' : r.seq \in Numbers'
      /\ \A r, s \in rows' : r.seq = s.seq => r = s
  BY DEF Numbered, Numbers
<1>. QED  BY <1>2, <1>3, <1>4 DEF Numbered

\* A statement gets a state other than begun, and no others change.
LEMMA TurnedBegun ==
    ASSUME TypeOK, NEW k, NEW i, NEW s, Turned(k, i, s), s.state # "begun"
    PROVE  /\ BegunKept([l \in Conns |-> 0])
           /\ \A l \in Conns : \A j \in DOMAIN conn'[l] : Begun(l, j)' => l # k \/ j # i
<1>1. ASSUME NEW l \in Conns, NEW j \in DOMAIN conn'[l], Begun(l, j)'
      PROVE  /\ j \in Nat /\ j + 0 = j /\ j \in DOMAIN conn[l] /\ conn'[l][j] = conn[l][j]
             /\ l # k \/ j # i
  <2>1. (l # k \/ j # i) /\ j \in DOMAIN conn[l] /\ conn'[l][j] = conn[l][j]
    BY <1>1 DEF Turned, Begun
  <2>2. j \in Nat
    BY <2>1, AllStatements
  <2>. QED  BY <2>1, <2>2
<1>. QED  BY <1>1 DEF BegunKept

LEMMA QueuedBegun ==
    ASSUME TypeOK, NEW k, NEW s, Queued(k, s), s.state # "begun"
    PROVE  BegunKept([l \in Conns |-> 0])
<1>1. ASSUME NEW l \in Conns, NEW j \in DOMAIN conn'[l], Begun(l, j)'
      PROVE  j \in Nat /\ j + 0 = j /\ j \in DOMAIN conn[l] /\ conn'[l][j] = conn[l][j]
  <2>1. j \in DOMAIN conn[l] /\ conn'[l][j] = conn[l][j]
    BY <1>1 DEF Queued, Begun
  <2>2. j \in Nat
    BY <2>1, AllStatements
  <2>. QED  BY <2>1, <2>2
<1>. QED  BY <1>1 DEF BegunKept

LEMMA AnsweredBegun ==
    ASSUME TypeOK, NEW k, Answered(k)
    PROVE  BegunKept([l \in Conns |-> IF l = k THEN 1 ELSE 0])
<1>1. ASSUME NEW l \in Conns, NEW j \in DOMAIN conn'[l]
      PROVE  LET e == IF l = k THEN 1 ELSE 0
             IN  j \in Nat /\ j + e \in DOMAIN conn[l] /\ conn'[l][j] = conn[l][j + e]
  <2>1. conn' \in [Conns -> Seq(Statement)]
    BY DEF Answered
  <2>2. j \in Nat
    BY <2>1
  <2>. QED  BY <2>2 DEF Answered
<1>. QED  BY <1>1 DEF BegunKept

LEMMA SameBegun ==
    ASSUME TypeOK, conn' = conn
    PROVE  BegunKept([l \in Conns |-> 0])
<1>1. \A l \in Conns : \A j \in DOMAIN conn[l] : j \in Nat /\ j + 0 = j
  BY AllStatements
<1>. QED  BY <1>1 DEF BegunKept

LEMMA BeginsNumbered ==
    ASSUME Typed, Numbered, NEW k \in 1 .. pool, NEW i \in DOMAIN conn[k], InsertBegins(k, i)
    PROVE  Numbered'
<1>1. PICK t \in Insertion :
          /\ Turned(k, i, t) /\ IsInsert(k, i) /\ conn[k][i].state = "sent"
          /\ t.by = conn[k][i].by /\ t.state = "begun" /\ t.seq = messagesSeq + 1
  BY BeginsEffect DEF Typed
<1>2. /\ rows' = rows /\ messagesSeq' = messagesSeq + 1 /\ messagesSeq \in Nat
      /\ rows \in SUBSET Row
  BY DEF InsertBegins, Typed, TypeOK
<1>3. /\ \A r \in rows : r.seq \in Nat
      /\ \A l \in Conns : \A j \in DOMAIN conn[l] : Begun(l, j) => conn[l][j].seq \in Nat
  <2>1. \A r \in rows : r.seq \in Nat
    BY <1>2 DEF Row
  <2>2. ASSUME NEW l \in Conns, NEW j \in DOMAIN conn[l], Begun(l, j)
        PROVE  conn[l][j].seq \in Nat
    <3>1. conn[l][j] \in Insertion
      BY <2>2, ConnType, StatementKinds DEF Begun, IsInsert, Typed
    <3>. QED  BY <3>1 DEF Insertion
  <2>. QED  BY <2>1, <2>2
<1>4. ASSUME NEW l \in Conns, NEW j \in DOMAIN conn'[l], Begun(l, j)'
      PROVE  \/ l = k /\ j = i /\ conn'[l][j].seq = messagesSeq + 1
             \/ j \in DOMAIN conn[l] /\ Begun(l, j) /\ conn'[l][j] = conn[l][j]
  BY <1>1, <1>4 DEF Turned, Begun, IsInsert
<1>5. /\ \A n \in Nat : n \in Numbers => n \in Numbers' /\ n # messagesSeq + 1
      /\ messagesSeq + 1 \in Numbers'
  BY <1>2 DEF Numbers
<1>6. ASSUME NEW l \in Conns, NEW j \in DOMAIN conn'[l], Begun(l, j)'
      PROVE  conn'[l][j].seq \in Numbers' /\ \A r \in rows' : r.seq # conn'[l][j].seq
  BY <1>2, <1>3, <1>4, <1>5, <1>6 DEF Numbered
<1>7. ASSUME NEW l \in Conns, NEW m \in Conns, NEW j \in DOMAIN conn'[l],
             NEW o \in DOMAIN conn'[m], Begun(l, j)', Begun(m, o)',
             conn'[l][j].seq = conn'[m][o].seq
      PROVE  l = m /\ j = o
  BY <1>3, <1>4, <1>5, <1>7 DEF Numbered
<1>8. /\ \A r \in rows' : r.seq \in Numbers'
      /\ \A r, s \in rows' : r.seq = s.seq => r = s
  BY <1>2, <1>3, <1>5 DEF Numbered
<1>. QED  BY <1>6, <1>7, <1>8 DEF Numbered

LEMMA CommitsNumbered ==
    ASSUME Typed, Numbered, NEW k \in 1 .. pool, NEW i \in DOMAIN conn[k], InsertCommits(k, i)
    PROVE  Numbered'
<1>1. PICK t \in Insertion, r \in Row :
          /\ Turned(k, i, t) /\ IsInsert(k, i) /\ conn[k][i].state = "begun"
          /\ t.by = conn[k][i].by /\ t.state = "done" /\ t.seq = conn[k][i].seq
          /\ r = Stored(conn[k][i]) /\ r.seq = conn[k][i].seq
          /\ r.msg = <<conn[k][i].by, post[conn[k][i].by].next>> /\ conn[k][i].by \in Posts
          /\ rows' = rows \cup {r} /\ log' = Append(log, r)
  BY CommitsEffect DEF Typed
<1>2. messagesSeq' = messagesSeq /\ k \in Conns /\ Begun(k, i)
  BY <1>1, ConnType DEF InsertCommits, Typed, Begun, Turned
<1>3. /\ BegunKept([l \in Conns |-> 0])
      /\ \A l \in Conns : \A j \in DOMAIN conn'[l] : Begun(l, j)' => l # k \/ j # i
  BY <1>1, TurnedBegun DEF Typed
<1>4. ASSUME NEW l \in Conns, NEW j \in DOMAIN conn'[l], Begun(l, j)'
      PROVE  /\ j \in DOMAIN conn[l] /\ Begun(l, j) /\ conn'[l][j] = conn[l][j]
             /\ conn[l][j].seq # r.seq
  <2>1. j \in Nat /\ j + 0 = j /\ j + 0 \in DOMAIN conn[l] /\ conn'[l][j] = conn[l][j + 0]
    BY <1>3, <1>4 DEF BegunKept
  <2>2. j \in DOMAIN conn[l] /\ Begun(l, j) /\ conn'[l][j] = conn[l][j]
    BY <1>4, <2>1 DEF Begun, IsInsert
  <2>. QED  BY <1>1, <1>2, <1>3, <1>4, <2>2 DEF Numbered
<1>5. ASSUME NEW l \in Conns, NEW j \in DOMAIN conn'[l], Begun(l, j)'
      PROVE  conn'[l][j].seq \in Numbers' /\ \A s \in rows' : s.seq # conn'[l][j].seq
  BY <1>1, <1>2, <1>4, <1>5 DEF Numbered, Numbers
<1>6. ASSUME NEW l \in Conns, NEW m \in Conns, NEW j \in DOMAIN conn'[l],
             NEW o \in DOMAIN conn'[m], Begun(l, j)', Begun(m, o)',
             conn'[l][j].seq = conn'[m][o].seq
      PROVE  l = m /\ j = o
  BY <1>4, <1>6 DEF Numbered
<1>7. /\ \A s \in rows' : s.seq \in Numbers'
      /\ \A s, u \in rows' : s.seq = u.seq => s = u
  BY <1>1, <1>2 DEF Numbered, Numbers
<1>. QED  BY <1>5, <1>6, <1>7 DEF Numbered

LEMMA NumberedStep == Typed /\ Numbered /\ [Next]_vars => Numbered'
<1>1. SUFFICES ASSUME Typed, Numbered, [Next]_vars PROVE Numbered'
  OBVIOUS
<1>2. TypeOK /\ \A k \in 1 .. pool : k \in Conns
  BY <1>1, ConnType DEF Typed
<1>3. ASSUME NEW k \in 1 .. pool,
             \/ Database(k)
             \/ \E i \in DOMAIN conn[k] :
                   InsertFails(k, i) \/ AnswerLost(k, i) \/ SelectFails(k, i)
      PROVE  Numbered'
  <2>1. PICK i \in DOMAIN conn[k] :
            \/ InsertBegins(k, i) \/ InsertCommits(k, i) \/ SelectRuns(k, i)
            \/ InsertFails(k, i) \/ AnswerLost(k, i) \/ SelectFails(k, i)
    BY <1>3 DEF Database
  <2>2. CASE SelectRuns(k, i)
    <3>1. PICK s : Turned(k, i, s) /\ s.state # "begun"
      BY <1>2, <2>2, SelectEffect
    <3>2. rows' = rows /\ messagesSeq' = messagesSeq
      BY <2>2 DEF SelectRuns, db
    <3>. QED  BY <1>1, <1>2, <3>1, <3>2, TurnedBegun, NumberedFrame
  <2>3. CASE InsertFails(k, i)
    <3>1. PICK s : Turned(k, i, s) /\ s.state # "begun"
      BY <1>2, <2>3, FailsEffect
    <3>2. rows' = rows /\ messagesSeq' = messagesSeq
      BY <2>3 DEF InsertFails, db
    <3>. QED  BY <1>1, <1>2, <3>1, <3>2, TurnedBegun, NumberedFrame
  <2>4. CASE AnswerLost(k, i)
    <3>1. PICK s : Turned(k, i, s) /\ s.state # "begun"
      BY <1>1, <2>4, LostEffect DEF Typed
    <3>2. rows' = rows /\ messagesSeq' = messagesSeq
      BY <2>4 DEF AnswerLost, db
    <3>. QED  BY <1>1, <1>2, <3>1, <3>2, TurnedBegun, NumberedFrame
  <2>5. CASE SelectFails(k, i)
    <3>1. PICK s : Turned(k, i, s) /\ s.state # "begun"
      BY <1>2, <2>5, SelectFailsEffect
    <3>2. rows' = rows /\ messagesSeq' = messagesSeq
      BY <2>5 DEF SelectFails, db
    <3>. QED  BY <1>1, <1>2, <3>1, <3>2, TurnedBegun, NumberedFrame
  <2>. QED  BY <1>1, <2>1, <2>2, <2>3, <2>4, <2>5, BeginsNumbered, CommitsNumbered
<1>4. ASSUME NEW k \in 1 .. pool,
             \/ \E p \in Posts : Insert(p, k)
             \/ \E c \in Clients : AskPage(c, k) \/ Watch(c, k)
      PROVE  Numbered'
  <2>1. PICK s : Queued(k, s) /\ s.state # "begun"
    BY <1>1, <1>4, InsertEffect, AskEffect DEF Typed
  <2>2. rows' = rows /\ messagesSeq' = messagesSeq
    BY <1>4 DEF Insert, AskPage, Watch, db
  <2>. QED  BY <1>1, <1>2, <2>1, <2>2, QueuedBegun, NumberedFrame
<1>5. ASSUME NEW k \in 1 .. pool, Answer(k) PROVE Numbered'
  <2>1. /\ conn[k] # <<>> /\ conn' = [conn EXCEPT ![k] = Tail(@)]
        /\ rows' = rows /\ messagesSeq' = messagesSeq
    BY <1>5, Zenon DEF Answer, Inserted, InsertFailed, Paged, PageFailed, Replayed,
                       ReplayFailed, db
  <2>2. Answered(k)
    BY <1>2, <2>1, AnsweredEffect
  <2>. QED  BY <1>1, <1>2, <2>1, <2>2, AnsweredBegun, NumberedFrame
<1>6. ASSUME \/ \E c \in Clients : WatchNow(c) \/ Close(c)
             \/ \E r \in rows : Vanish(r)
             \/ UNCHANGED vars
      PROVE  Numbered'
  <2>1. conn' = conn /\ rows' \subseteq rows /\ messagesSeq' = messagesSeq
    BY <1>6, Zenon DEF WatchNow, Close, Vanish, vars, db
  <2>. QED  BY <1>1, <1>2, <2>1, SameBegun, NumberedFrame
<1>. QED  BY <1>1, <1>3, <1>4, <1>5, <1>6 DEF Next

LEMMA NumberedInit == Init => Numbered
<1>1. SUFFICES ASSUME Init PROVE Numbered
  OBVIOUS
<1>2. rows = {} /\ \A k \in Conns : DOMAIN conn[k] = {}
  BY <1>1 DEF Init, Conns
<1>. QED  BY <1>2 DEF Numbered

OneOf(S) == \E s : S = {s}

\* There is one way to list rows in the order of their numbers, if no two share one ...
LEMMA InOrderOne ==
    ASSUME NEW R \in SUBSET Row, messagesSeq \in Nat, \A r \in R : r.seq \in Numbers,
           \A r, s \in R : r.seq = s.seq => r = s
    PROVE  OneOf(InOrder(R))
<1>. PICK P : P = {r.seq : r \in R}
  OBVIOUS
<1>1. P \in SUBSET (1 .. messagesSeq) /\ P \in SUBSET Nat
  BY DEF Numbers, Row
<1>2a. PICK n \in 0 .. messagesSeq : \E g : Lists(g, n, P)
  BY <1>1, ListsExist
<1>2. PICK g : Lists(g, n, P)
  BY <1>2a
<1>3. n \in Nat /\ g \in [1 .. n -> P] /\ Up(g) /\ \A p \in P : \E i \in 1 .. n : g[i] = p
  BY <1>2 DEF Lists
<1>4. PICK f : f = [i \in 1 .. n |-> CHOOSE r \in R : r.seq = g[i]]
  OBVIOUS
<1>5. \A i \in 1 .. n : f[i] \in R /\ f[i].seq = g[i]
  <2>1. SUFFICES ASSUME NEW i \in 1 .. n PROVE f[i] \in R /\ f[i].seq = g[i]
    OBVIOUS
  <2>2. \E r \in R : r.seq = g[i]
    BY <1>3
  <2>3. f[i] = CHOOSE r \in R : r.seq = g[i]
    BY <1>4
  <2>. QED  BY <2>2, <2>3
<1>6. f \in InOrder(R)
  <2>1. f \in [1 .. n -> R] /\ DOMAIN f = 1 .. n
    BY <1>4, <1>5
  <2>2. \A i, j \in 1 .. n : i < j => f[i].seq < f[j].seq
    BY <1>3, <1>5 DEF Up
  <2>3. ASSUME NEW r \in R PROVE \E i \in 1 .. n : f[i] = r
    <3>1. PICK i \in 1 .. n : g[i] = r.seq
      BY <1>3
    <3>. QED  BY <1>5, <3>1
  <2>. QED  BY <1>2, <2>1, <2>2, <2>3 DEF InOrder
<1>7. ASSUME NEW h \in InOrder(R) PROVE h = f
  <2>1. PICK k \in 0 .. messagesSeq : h \in [1 .. k -> R]
    BY DEF InOrder
  <2>2. /\ k \in Nat /\ DOMAIN h = 1 .. k
        /\ \A i, j \in 1 .. k : i < j => h[i].seq < h[j].seq
        /\ \A r \in R : \E i \in 1 .. k : h[i] = r
    <3>1. k \in Nat /\ DOMAIN h = 1 .. k
      BY <2>1
    <3>2. /\ \A i, j \in DOMAIN h : i < j => h[i].seq < h[j].seq
          /\ \A r \in R : \E i \in DOMAIN h : h[i] = r
      BY DEF InOrder
    <3>. QED  BY <3>1, <3>2
  <2>3. PICK e : e = [i \in 1 .. k |-> h[i].seq]
    OBVIOUS
  <2>4. Lists(e, k, P)
    <3>1. e \in [1 .. k -> P] /\ DOMAIN e = 1 .. k /\ \A i \in 1 .. k : e[i] = h[i].seq
      BY <2>1, <2>3
    <3>2. Up(e)
      <4>1. SUFFICES ASSUME NEW i \in 1 .. k, NEW j \in 1 .. k, i < j PROVE e[i] < e[j]
        BY <3>1 DEF Up
      <4>. QED  BY <2>2, <3>1, <4>1
    <3>3. \A p \in P : \E i \in 1 .. k : e[i] = p
      BY <2>2, <3>1
    <3>. QED  BY <2>2, <3>1, <3>2, <3>3 DEF Lists
  <2>5. k = n /\ e = g
    BY <1>1, <1>2, <2>4, ListsEqual
  <2>6. \A i \in 1 .. n : h[i] \in R /\ h[i].seq = f[i].seq
    BY <1>5, <2>1, <2>3, <2>5
  <2>7. \A i \in 1 .. n : h[i] = f[i]
    BY <1>5, <2>6
  <2>. QED  BY <1>4, <2>1, <2>5, <2>7
<1>. QED  BY <1>6, <1>7 DEF OneOf

\* ... and one list of what is beyond a cursor.
LEMMA BeyondOne ==
    ASSUME NEW found \in Seq(Row), NEW cursor
    PROVE  OneOf(Beyond(found, cursor))
<1>. PICK P, m : P = {i \in DOMAIN found : found[i].seq > cursor} /\ m = Len(found)
  OBVIOUS
<1>1. m \in Nat /\ P \in SUBSET (1 .. m) /\ P \in SUBSET Nat
  OBVIOUS
<1>2a. PICK n \in 0 .. m : \E g : Lists(g, n, P)
  BY <1>1, ListsExist
<1>2. PICK g : Lists(g, n, P)
  BY <1>2a
<1> DEFINE Orders(h) == /\ \A i, j \in DOMAIN h : i < j => h[i] < h[j]
                        /\ \A p \in P : \E i \in DOMAIN h : h[i] = p
           All == UNION {[1 .. k -> P] : k \in 0 .. m}
<1>3. ASSUME NEW h, NEW k \in 0 .. m, h \in [1 .. k -> P]
      PROVE  Lists(h, k, P) <=> Orders(h)
  BY <1>1, <1>3 DEF Lists, Up
<1>4. g \in All /\ Orders(g)
  <2>1. g \in [1 .. n -> P]
    BY <1>2 DEF Lists
  <2>. QED  BY <1>2, <1>3, <2>1
<1>5. ASSUME NEW h \in All, Orders(h) PROVE h = g
  <2>1. PICK k \in 0 .. m : h \in [1 .. k -> P]
    OBVIOUS
  <2>2. Lists(h, k, P)
    BY <1>3, <1>5, <2>1
  <2>. QED  BY <1>1, <1>2, <2>2, ListsEqual
<1>7. Kept(found, P) = {[j \in DOMAIN h |-> found[h[j]]] : h \in {h \in All : Orders(h)}}
  BY Zenon DEF Kept
<1>8. {h \in All : Orders(h)} = {g}
  <2>. HIDE DEF All, Orders
  <2>. QED  BY <1>4, <1>5
<1>9. Kept(found, P) = {[j \in DOMAIN g |-> found[g[j]]]}
  <2>. HIDE DEF All, Orders
  <2>1. PICK H : H = {h \in All : Orders(h)} /\ H = {g}
    BY <1>8
  <2>2. Kept(found, P) = {[j \in DOMAIN h |-> found[h[j]]] : h \in H}
    BY <1>7, <2>1, ZenonT(60)
  <2>. QED  BY <2>1, <2>2, Zenon
<1>6. Beyond(found, cursor) = Kept(found, P)
  BY DEF Beyond
<1>. QED  BY <1>6, <1>9 DEF OneOf

LEMMA ReplayOne ==
    ASSUME NEW cl \in Client, NEW found \in Seq(Row)
    PROVE  OneOf(Replay(cl, found))
<1>1. PICK replay : Beyond(found, cl.cursor) = {replay}
  BY BeyondOne DEF OneOf
<1>2. cl.buffer \in Seq(Row)
  BY DEF Client
<1>3. PICK rest : Beyond(cl.buffer, LastSeq(replay, 0)) = {rest}
  BY <1>2, BeyondOne DEF OneOf
<1> DEFINE Written(x) == {x \o y : y \in Beyond(cl.buffer, LastSeq(x, 0))}
<1>4. Replay(cl, found) = UNION {Written(x) : x \in Beyond(found, cl.cursor)}
  BY DEF Replay
<1>5. Written(replay) = {replay \o rest}
  BY <1>3
<1>6. UNION {Written(x) : x \in {replay}} = Written(replay)
  <2>. HIDE DEF Written
  <2>. QED  OBVIOUS
<1>7. Replay(cl, found) = {replay \o rest}
  <2>. HIDE DEF Written
  <2>. QED  BY <1>1, <1>4, <1>5, <1>6
<1>. QED  BY <1>7 DEF OneOf

\* No two rows share a number, and the lists an action may take are there.
ListsDefined ==
    /\ \A r, s \in rows : r.seq = s.seq => r = s
    /\ OneOf(InOrder(rows))
    /\ \A k \in Conns : \A i \in DOMAIN conn[k] : IsSelect(k, i) =>
           \A c \in Clients : /\ OneOf(Beyond(conn[k][i].found, client[c].cursor))
                              /\ OneOf(Replay(client[c], conn[k][i].found))

\* Whatever the pool, no two rows ever share a number, so a SELECT ordered by it and what
\* is taken of its answer beyond a cursor are each one list, and always there
\* (ORDER BY sequence_number; pagination.ts paginate; sse.ts streamSSE).
THEOREM ListsAreDefined == Spec => []ListsDefined
<1>1. Typed /\ Numbered => ListsDefined
  <2>1. SUFFICES ASSUME Typed, Numbered PROVE ListsDefined
    OBVIOUS
  <2>2. rows \in SUBSET Row /\ messagesSeq \in Nat /\ client \in [Clients -> Client]
    BY <2>1 DEF Typed, TypeOK
  <2>3. OneOf(InOrder(rows))
    BY <2>1, <2>2, InOrderOne DEF Numbered
  <2>4. ASSUME NEW k \in Conns, NEW i \in DOMAIN conn[k], IsSelect(k, i), NEW c \in Clients
        PROVE  /\ OneOf(Beyond(conn[k][i].found, client[c].cursor))
               /\ OneOf(Replay(client[c], conn[k][i].found))
    <3>1. conn[k][i] \in Selection
      BY <2>1, <2>4, AllStatements, StatementKinds DEF Typed, IsSelect
    <3>2. conn[k][i].found \in Seq(Row) /\ client[c] \in Client
      BY <2>2, <3>1 DEF Selection
    <3>. QED  BY <3>2, BeyondOne, ReplayOne
  <2>. QED  BY <2>1, <2>3, <2>4 DEF Numbered, ListsDefined
<1>2. Typed /\ Numbered /\ [Next]_vars => Typed' /\ Numbered'
  BY TypedStep, NumberedStep
<1>. QED  BY <1>1, <1>2, TypedInit, NumberedInit, PTL DEF Spec
===============================================================================
