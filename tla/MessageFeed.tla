------------------------------ MODULE MessageFeed ------------------------------
(***************************************************************************)
(* What a client of the broker's GET /messages may count on: the messages  *)
(* of a conversation are one list that only grows at its end, and, where   *)
(* the feed is exact, a client gets each message after its starting point  *)
(* once, in the order of the list.  Messages that are gone (expired or     *)
(* deleted) may be missing, and while the client is live those whose       *)
(* sender was told that they had failed.  Elsewhere it gets messages of    *)
(* the list.                                                               *)
(***************************************************************************)
EXTENDS Naturals, Sequences

CONSTANTS Messages, Clients

VARIABLES
    exact,   \* whether the feed is exact, which never changes
    log,     \* every message ever stored, in the order of the list
    gone,    \* the messages that have been removed
    unsaid,  \* the messages that are stored although their sender was told otherwise
    live,    \* the clients that are given messages as they come
    base,    \* the length of the list where each client starts
    got      \* what each client has been given since

vars == <<exact, log, gone, unsaid, live, base, got>>

Init ==
    /\ exact \in BOOLEAN
    /\ log = <<>> /\ gone = {} /\ unsaid = {} /\ live = {}
    /\ base = [c \in Clients |-> 0]
    /\ got = [c \in Clients |-> <<>>]

Store(m) ==
    /\ \A i \in DOMAIN log : log[i] # m
    /\ log' = Append(log, m)
    /\ UNCHANGED <<exact, gone, unsaid, live, base, got>>

Remove(m) ==
    /\ gone' = gone \cup {m}
    /\ UNCHANGED <<exact, log, unsaid, live, base, got>>

\* Only of a message that is stored.
Unanswered(m) ==
    /\ \E i \in DOMAIN log : log[i] = m
    /\ unsaid' = unsaid \cup {m}
    /\ UNCHANGED <<exact, log, gone, live, base, got>>

\* A client without a cursor starts with what comes from now on, a moment in which
\* messages may be stored already and not announced.
Join(c, n) ==
    /\ got[c] = <<>> /\ n \in 0 .. Len(log)
    /\ base' = [base EXCEPT ![c] = n]
    /\ live' = live \cup {c}
    /\ UNCHANGED <<exact, log, gone, unsaid, got>>

\* A client is live no longer.
Leave(c) ==
    /\ live' = live \ {c}
    /\ UNCHANGED <<exact, log, gone, unsaid, base, got>>

\* How far into the list a client is.
Position(c) ==
    IF got[c] = <<>> THEN base[c]
    ELSE CHOOSE i \in DOMAIN log : log[i] = got[c][Len(got[c])]

\* What a client may miss.
Missing(c) == IF c \in live THEN gone \cup unsaid ELSE gone

\* Clients get messages (a live one goes to all who watch, a page or a replay is several,
\* and after a replay a client may be live): the next ones of the list, without some of
\* those that they may miss.
Give ==
    /\ DOMAIN got' = Clients
    /\ live \subseteq live' /\ live' \subseteq Clients
    /\ \A c \in Clients :
           LET had  == 1 .. Len(got[c])
               news == DOMAIN got'[c] \ had
               from == Position(c)
           IN /\ \A i \in had : i \in DOMAIN got'[c] /\ got'[c][i] = got[c][i]
              /\ \A i \in news : \E k \in DOMAIN log : got'[c][i] = log[k]
              /\ exact => \E at \in [news -> from + 1 .. Len(log)] :
                    /\ \A i \in news : got'[c][i] = log[at[i]]
                    /\ \A i, j \in news : i < j => at[i] < at[j]
                    /\ \A i \in news : \A k \in from + 1 .. at[i] :
                           log[k] \in Missing(c) \/ \E j \in news : at[j] = k
    /\ UNCHANGED <<exact, log, gone, unsaid, base>>

Next ==
    \/ \E m \in Messages : Store(m) \/ Remove(m) \/ Unanswered(m)
    \/ \E c \in Clients, n \in 0 .. Len(log) : Join(c, n)
    \/ \E c \in Clients : Leave(c)
    \/ Give

Spec == Init /\ [][Next]_vars
===============================================================================
