-------------------------- MODULE MCQueryController --------------------------
EXTENDS QueryController, TLC
CONSTANTS o1, o2
OpIds == {o1, o2}
OpSymmetry == Permutations(OpIds)

\* Versions are compared with the stored one only.
Age(q) == [q EXCEPT !.rv = IF q.rv = store.rv THEN 1 ELSE 0]
View == << Age(store), [i \in DOMAIN watch |-> Age(watch[i])], Age(cache), queued,
           [rec EXCEPT !.obj = Age(@)], operations,
           [o \in Ops |-> [ops[o] EXCEPT !.obj = Age(@)]], engine, requeueAt,
           expired, lastUid, edits, restarts>>

\* For runs whose properties do not speak of them: no guard reads a response or a usage.
Bare(q) == [Age(q) EXCEPT !.resp = NoOp, !.tok = NoOp]
BareView == << Bare(store), [i \in DOMAIN watch |-> Bare(watch[i])], Bare(cache), queued,
               [rec EXCEPT !.obj = Bare(@)], operations,
               [o \in Ops |-> [ops[o] EXCEPT !.obj = Bare(@)]],
               [o \in Ops |-> IF engine[o] = "unmetered" THEN "replied" ELSE engine[o]],
               requeueAt, expired, lastUid, edits, restarts>>

-----------------------------------------------------------------------------
(* A run may ask two questions with bounds of their own: Init, with some of the *)
(* bounds used up.                                                              *)

Start(q, uids, passed, edited, restarted, spent) ==
    /\ store = q /\ watch = (IF Exists(q) THEN <<q>> ELSE <<>>) /\ cache = Absent(0)
    /\ queued = FALSE /\ rec = Idle /\ requeueAt = {} /\ expired = passed
    /\ operations = NoOp
    /\ ops = [o \in Ops |-> IF o \in spent THEN [NoRun EXCEPT !.pc = "gone"] ELSE NoRun]
    /\ engine = [o \in Ops |-> "none"]
    /\ lastUid = uids /\ edits = edited /\ restarts = restarted

\* Two queries of one name that do not expire; or a single one that does, with a restart.
Created(uid) == [Absent(1) EXCEPT !.uid = uid]
SafetyInit == \/ Start(Absent(0), 1, {1}, MaxEdits, MaxRestarts, {})
              \/ Start(Created(1), MaxUid, {}, MaxEdits, 0, {})
SafetySpec == SafetyInit /\ [][Next]_vars

\* One query that does not expire, edited and executed more than once; or one that does
\* and another one after it, with one execution and no edit.
ProgressInit == \/ Start(Absent(0), 1, {1}, 0, 0, {})
                \/ Start(Absent(0), 0, {}, MaxEdits, 0, {o2})
ProgressSpec == ProgressInit /\ [][Next]_vars /\ Fairness
=============================================================================
