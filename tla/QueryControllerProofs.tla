------------------------ MODULE QueryControllerProofs ------------------------
(* Theorems of QueryController, for every set of goroutines and all bounds. *)
EXTENDS QueryController, TLAPS

-----------------------------------------------------------------------------
(* Types.                                                                  *)

LEMMA AbsentType == \A rv \in Nat : Absent(rv) \in Query
BY DEF Absent, Query, Phases, Terminal

LEMMA CommitType ==
    ASSUME store \in Query, watch \in Seq(Query), NEW q \in Query, Commit(q)
    PROVE  store' \in Query /\ watch' \in Seq(Query)
<1> DEFINE v == [q EXCEPT !.rv = store.rv + 1]
<1>1. store.rv + 1 \in Nat
  BY DEF Query
<1>2. v \in Query
  BY <1>1 DEF Query
<1>3. store' = v /\ watch' = Append(watch, v)
  BY DEF Commit
<1>. HIDE DEF v
<1>. QED  BY <1>2, <1>3

LEMMA RestoredType ==
    ASSUME NEW c \in Query, NEW q \in Query, NEW phase \in Phases
    PROVE  Restored(c, q, phase) \in Query
BY DEF Restored, Query

LEMMA StatusType ==
    ASSUME store \in Query, watch \in Seq(Query), NEW q \in Query, CommitStatus(q)
    PROVE  store' \in Query /\ watch' \in Seq(Query)
<1>1. /\ Sent(store.resp, q.resp) \in Ops \cup {NoOp}
      /\ Sent(store.tok, q.tok) \in Ops \cup {NoOp}
  BY DEF Query, Sent
<1>2. [store EXCEPT !.started = q.started, !.phase = q.phase,
                    !.resp = Sent(@, q.resp), !.tok = Sent(@, q.tok)] \in Query
  BY <1>1 DEF Query
<1>. QED  BY <1>2, CommitType DEF CommitStatus

LEMMA UpdateType ==
    ASSUME store \in Query, watch \in Seq(Query), NEW q \in Query, CommitUpdate(q)
    PROVE  store' \in Query /\ watch' \in Seq(Query)
<1>1. [store EXCEPT !.fin = q.fin] \in Query
  BY DEF Query
<1>. QED  BY <1>1, AbsentType, CommitType DEF CommitUpdate

LEMMA DeleteType ==
    ASSUME store \in Query, watch \in Seq(Query), CommitDelete
    PROVE  store' \in Query /\ watch' \in Seq(Query)
<1>1. [store EXCEPT !.del = TRUE] \in Query
  BY DEF Query
<1>2. CASE UNCHANGED api
  BY <1>2 DEF api
<1>. QED  BY <1>1, <1>2, AbsentType, CommitType DEF CommitDelete

LEMMA PatchType ==
    ASSUME store \in Query, watch \in Seq(Query), NEW phase \in Phases,
           PatchPhase(phase)
    PROVE  store' \in Query /\ watch' \in Seq(Query)
<1>1. [store EXCEPT !.started = TRUE, !.phase = phase] \in Query
  BY DEF Query
<1>2. CASE UNCHANGED api
  BY <1>2 DEF api
<1>. QED  BY <1>1, <1>2, CommitType DEF PatchPhase

\* What the operators on a goroutine and on the reconcile return.
LEMMA RunType ==
    ASSUME TypeOK
    PROVE  /\ NoRun \in Run /\ Idle \in Pass
           /\ \A o \in Ops : /\ Ended(o) \in Run /\ Leaving(o, "exit") \in Run
                           /\ \A pc \in OpPcs : At(o, pc) \in Run
<1>1. Absent(0) \in Query
  BY AbsentType
<1>2. NoRun \in Run /\ Idle \in Pass
  BY <1>1 DEF NoRun, Run, OpPcs, Idle, Pass
<1>. SUFFICES ASSUME NEW o \in Ops
              PROVE  /\ Ended(o) \in Run /\ Leaving(o, "exit") \in Run
                     /\ \A pc \in OpPcs : At(o, pc) \in Run
  BY <1>2
<1>3. ops[o] \in Run
  BY DEF TypeOK
<1>4. Ended(o) \in Run /\ Leaving(o, "exit") \in Run
  BY <1>2, <1>3 DEF Ended, Leaving, Run, OpPcs
<1>5. \A pc \in OpPcs : At(o, pc) \in Run
  BY <1>3 DEF At, Run
<1>. QED  BY <1>4, <1>5

LEMMA OutcomeType ==
    ASSUME TypeOK, NEW o \in Ops, NEW phase \in {"done", "error"},
           NEW resp \in Ops \cup {NoOp}, NEW tok \in Ops \cup {NoOp}
    PROVE  Outcome(o, phase, resp, tok) \in Run
<1>1. At(o, "report") \in Run
  BY RunType DEF OpPcs
<1> DEFINE obj == [At(o, "report").obj EXCEPT !.resp = resp, !.tok = tok]
<1>2. obj \in Query
  BY <1>1 DEF Run, Query
<1>3. Outcome(o, phase, resp, tok) =
        [At(o, "report") EXCEPT !.phase = phase, !.obj = obj]
  BY <1>1 DEF Outcome, Run, Query
<1>. HIDE DEF obj
<1>. QED  BY <1>1, <1>2, <1>3 DEF Run

LEMMA OpStepType ==
    ASSUME TypeOK, NEW o \in Ops, NEW from, NEW run \in Run, Step(o, from, run)
    PROVE  ops' \in [Ops -> Run]
BY DEF Step, TypeOK

LEMMA ObjType == TypeOK => Obj \in Query
BY DEF TypeOK, Obj, Pass

LEMMA CancelOperationType ==
    ASSUME TypeOK, CancelOperation
    PROVE  operations' \in Ops \cup {NoOp} /\ ops' \in [Ops -> Run]
<1>1. CASE operations = NoOp
  BY <1>1 DEF CancelOperation, TypeOK
<1>2. CASE operations \in Ops
  <2>1. [ops[operations] EXCEPT !.canceled = TRUE] \in Run
    BY <1>2 DEF TypeOK, Run
  <2>. QED  BY <1>2, <2>1, OpsAssumption DEF CancelOperation, TypeOK
<1>. QED  BY <1>1, <1>2 DEF TypeOK

\* What the steps of each party preserve.
LEMMA UsersType ==
    ASSUME TypeOK, Users \/ TTLExpire
    PROVE  TypeOK'
<1>1. [Absent(0) EXCEPT !.uid = lastUid + 1] \in Query
  <2>1. Absent(0) \in Query /\ lastUid + 1 \in Nat
    BY AbsentType DEF TypeOK
  <2>. QED  BY <2>1 DEF Query
<1>2. [store EXCEPT !.cancel = TRUE] \in Query
  BY DEF TypeOK, Query
<1>3. CASE UserCreate
  BY <1>1, <1>3, CommitType DEF UserCreate, TypeOK, ctl
<1>4. CASE UserCancel
  BY <1>2, <1>4, CommitType DEF UserCancel, TypeOK, ctl, counts
<1>5. CASE UserEdit
  BY <1>5, CommitType DEF UserEdit, TypeOK, ctl
<1>6. CASE UserDelete
  BY <1>6, DeleteType DEF UserDelete, TypeOK, ctl, counts
<1>7. CASE TTLExpire
  <2>1. expired' \subseteq Nat
    BY <1>7, ShortTTLAssumption DEF TTLExpire, TypeOK
  <2>. QED  BY <1>7, <2>1 DEF TTLExpire, TypeOK, api, ctl, counts
<1>. QED  BY <1>3, <1>4, <1>5, <1>6, <1>7 DEF Users

LEMMA InformerType ==
    ASSUME TypeOK, Informer \/ ControllerRestart
    PROVE  TypeOK'
<1>1. CASE InformerDeliver
  BY <1>1 DEF InformerDeliver, TypeOK, counts
<1>2. CASE InformerRelist
  BY <1>2 DEF InformerRelist, TypeOK, counts
<1>3. CASE InformerResync
  BY <1>3 DEF InformerResync, TypeOK, api, counts
<1>4. CASE RequeueTimer
  BY <1>4 DEF RequeueTimer, TypeOK, api, counts
<1>5. CASE ControllerRestart
  <2>1. [o \in Ops |-> IF ops[o].pc = "none" THEN ops[o] ELSE Ended(o)] \in [Ops -> Run]
    BY RunType DEF TypeOK
  <2>2. (store.uid # 0) \in BOOLEAN
    OBVIOUS
  <2>. QED  BY <1>5, <2>1, <2>2, RunType DEF ControllerRestart, TypeOK, Exists
<1>. QED  BY <1>1, <1>2, <1>3, <1>4, <1>5 DEF Informer

\* The steps of a reconcile that decide what to do.
LEMMA DecideType ==
    ASSUME TypeOK,
           \/ FetchNotFound \/ FetchExpired \/ AddFinalizer \/ Finalize
           \/ InitConditions \/ HonourCancel \/ SeeTerminal \/ SetRunning \/ LeaveRunning
    PROVE  TypeOK'
<1>1. /\ Obj \in Query
      /\ [Obj EXCEPT !.fin = TRUE] \in Query /\ [Obj EXCEPT !.fin = FALSE] \in Query
      /\ [Obj EXCEPT !.started = TRUE] \in Query
      /\ [Obj EXCEPT !.phase = "canceled"] \in Query
      /\ [Obj EXCEPT !.phase = "running"] \in Query
  BY ObjType DEF Query, Phases, Terminal
<1>2. Dequeue => queued' \in BOOLEAN
  BY DEF Dequeue, TypeOK
<1>3. \A q \in Query : \A pc \in {"expired", "update", "status", "write"} :
        Go(pc, q) => rec' \in Pass
  BY DEF Go, Pass
<1>4. Return => rec' \in Pass /\ queued' \in BOOLEAN
  BY <1>2, RunType DEF Return
<1>5. CASE FetchNotFound
  BY <1>4, <1>5 DEF FetchNotFound, RecUnchanged, TypeOK, api, counts
<1>6. CASE FetchExpired
  BY <1>2, <1>3, <1>6 DEF FetchExpired, RecUnchanged, TypeOK, api, counts
<1>7. CASE AddFinalizer
  BY <1>1, <1>2, <1>3, <1>7 DEF AddFinalizer, RecUnchanged, TypeOK, api, counts
<1>8. CASE Finalize
  BY <1>1, <1>2, <1>3, <1>8, CancelOperationType
  DEF Finalize, RecUnchanged, TypeOK, api, counts
<1>9. CASE InitConditions
  BY <1>1, <1>2, <1>3, <1>9 DEF InitConditions, RecUnchanged, TypeOK, api, counts
<1>10. CASE HonourCancel
  BY <1>1, <1>2, <1>3, <1>10, CancelOperationType
  DEF HonourCancel, RecUnchanged, TypeOK, api, counts
<1>11. CASE SeeTerminal
  <2>1. Obj.uid \in Nat
    BY <1>1 DEF Query
  <2>. QED  BY <1>4, <1>11, <2>1 DEF SeeTerminal, RecUnchanged, TypeOK, api, counts
<1>12. CASE SetRunning
  BY <1>1, <1>2, <1>3, <1>12 DEF SetRunning, RecUnchanged, TypeOK, api, counts
<1>13. CASE LeaveRunning
  BY <1>4, <1>13 DEF LeaveRunning, RecUnchanged, TypeOK, api, counts
<1>. QED  BY <1>5, <1>6, <1>7, <1>8, <1>9, <1>10, <1>11, <1>12, <1>13

LEMMA StartOperationType ==
    ASSUME TypeOK, NEW o \in Ops, StartOperation(o)
    PROVE  TypeOK'
<1> DEFINE obj == [NoRun.obj EXCEPT !.resp = Obj.resp, !.tok = Obj.tok]
           run == [NoRun EXCEPT !.pc = "dispatch", !.uid = Obj.uid, !.obj = obj]
<1>1. Obj.uid \in Nat /\ obj \in Query
  BY ObjType, RunType DEF Query, Run
<1>2. run = [NoRun EXCEPT !.pc = "dispatch", !.uid = Obj.uid,
                          !.obj.resp = Obj.resp, !.obj.tok = Obj.tok]
  BY DEF NoRun, Absent
<1>3. run \in Run
  <2>. HIDE DEF obj
  <2>. QED  BY <1>1, RunType DEF Run, OpPcs
<1>4. ops' = [ops EXCEPT ![o] = run]
  BY <1>2 DEF StartOperation
<1>. HIDE DEF run
<1>5. ops' \in [Ops -> Run]
  BY <1>3, <1>4 DEF TypeOK
<1>6. rec' \in Pass /\ queued' \in BOOLEAN
  BY RunType DEF StartOperation, Return, Dequeue, TypeOK
<1>. QED  BY <1>5, <1>6 DEF StartOperation, RecUnchanged, TypeOK, api, counts

\* The steps of a reconcile that call the API server or read the cache again.
LEMMA WriteType ==
    ASSUME TypeOK,
           DeleteExpired \/ ReconcileUpdate \/ ReconcileStatus \/ ReconcileWrite
    PROVE  TypeOK'
<1>1. /\ rec.obj \in Query /\ rec.obj.phase \in Phases
      /\ cache \in Query /\ store \in Query /\ watch \in Seq(Query)
  BY DEF TypeOK, Pass, Query
<1>2. UNCHANGED api => store' \in Query /\ watch' \in Seq(Query)
  BY <1>1 DEF api
<1>3. \A q \in Query : \A pc \in {"deleted", "write"} : Go(pc, q) => rec' \in Pass
  BY DEF Go, Pass
<1>4. CASE DeleteExpired
  <2>1. store' \in Query /\ watch' \in Seq(Query)
    BY <1>1, <1>2, <1>4, DeleteType DEF DeleteExpired
  <2>2. rec' \in Pass /\ queued' \in BOOLEAN
    BY <1>1, <1>3, <1>4, RunType DEF DeleteExpired, TypeOK
  <2>. QED  BY <1>4, <2>1, <2>2 DEF DeleteExpired, RecUnchanged, TypeOK, counts
<1>5. CASE ReconcileUpdate
  <2>1. store' \in Query /\ watch' \in Seq(Query)
    BY <1>1, <1>2, <1>5, UpdateType DEF ReconcileUpdate
  <2>2. rec' \in Pass /\ queued' \in BOOLEAN
    BY <1>5, RunType DEF ReconcileUpdate, TypeOK
  <2>. QED  BY <1>5, <2>1, <2>2 DEF ReconcileUpdate, RecUnchanged, TypeOK, counts
<1>6. CASE ReconcileStatus
  <2>1. rec' \in Pass
    BY <1>1, <1>3, <1>6, RestoredType, RunType DEF ReconcileStatus
  <2>. QED  BY <1>6, <2>1 DEF ReconcileStatus, RecUnchanged, TypeOK, api, counts
<1>7. CASE ReconcileWrite
  <2>1. store' \in Query /\ watch' \in Seq(Query)
    BY <1>1, <1>2, <1>7, StatusType DEF ReconcileWrite
  <2>2. rec' \in Pass
    BY <1>7, RunType DEF ReconcileWrite
  <2>3. queued' \in BOOLEAN
    <3>1. CASE AcceptsStatus(rec.obj)
      BY <1>7, <3>1 DEF ReconcileWrite, TypeOK
    <3>2. CASE ~AcceptsStatus(rec.obj)
      <4>1. queued' = (queued \/ Exists(store) \/ rec.obj.phase = "pending")
        BY <1>7, <3>2 DEF ReconcileWrite
      <4>. QED  BY <4>1, Zenon
    <3>. QED  BY <3>1, <3>2
  <2>. QED  BY <1>7, <2>1, <2>2, <2>3 DEF ReconcileWrite, RecUnchanged, TypeOK, counts
<1>. QED  BY <1>4, <1>5, <1>6, <1>7

LEMMA OperationType ==
    ASSUME TypeOK, NEW o \in Ops, Operation(o) \/ Engine(o)
    PROVE  TypeOK'
<1>1. /\ ops[o].obj \in Query /\ ops[o].obj.resp \in Ops \cup {NoOp}
      /\ ops[o].obj.tok \in Ops \cup {NoOp} /\ ops[o].phase \in Phases
      /\ cache \in Query /\ store \in Query /\ watch \in Seq(Query)
  BY DEF TypeOK, Run, Query, Phases, Terminal
<1>2. /\ At(o, "waiting") \in Run /\ At(o, "write") \in Run
      /\ Leaving(o, "exit") \in Run /\ Ended(o) \in Run
  BY RunType DEF OpPcs
<1>3. \A from : \A run \in Run : Step(o, from, run) => ops' \in [Ops -> Run]
  BY OpStepType
<1>4. \A status \in {"received", "provisioning", "running", "replied", "unmetered"} :
        [engine EXCEPT ![o] = status]
          \in [Ops -> {"none", "received", "provisioning", "running",
                       "replied", "unmetered"}]
  BY DEF TypeOK
<1>5. CASE OpResolveFail(o)
  BY <1>1, <1>3, <1>5, OutcomeType
  DEF OpResolveFail, OpUnchanged, TypeOK, api, counts
<1>6. CASE OpSend(o)
  BY <1>2, <1>3, <1>4, <1>6 DEF OpSend, OpUnchanged, TypeOK, api, counts
<1>7. CASE OpReply(o)
  BY <1>1, <1>3, <1>4, <1>7, OutcomeType DEF OpReply, OpUnchanged, TypeOK, api, counts
<1>8. CASE OpFail(o)
  BY <1>1, <1>3, <1>8, OutcomeType DEF OpFail, OpUnchanged, TypeOK, api, counts
<1>9. CASE OpCanceled(o)
  BY <1>2, <1>3, <1>9 DEF OpCanceled, OpUnchanged, TypeOK, api, counts
<1>10. CASE OpPanic(o)
  BY <1>2, <1>3, <1>10 DEF OpPanic, OpUnchanged, TypeOK, api, counts
<1>11. CASE OpUpdateStatus(o)
  <2> DEFINE obj == Restored(cache, ops[o].obj, ops[o].phase)
  <2>1. obj \in Query
    BY <1>1, RestoredType
  <2>. HIDE DEF obj
  <2>2. [At(o, "write") EXCEPT !.obj = obj] \in Run
    BY <1>2, <2>1 DEF Run
  <2>3. Step(o, {"report"}, Leaving(o, "exit"))
          \/ Step(o, {"report"}, [At(o, "write") EXCEPT !.obj = obj])
    BY <1>11 DEF OpUpdateStatus, obj
  <2>4. ops' \in [Ops -> Run]
    BY <1>2, <1>3, <2>2, <2>3
  <2>. QED  BY <1>11, <2>4 DEF OpUpdateStatus, OpUnchanged, TypeOK, api, counts
<1>12. CASE OpWrite(o)
  <2>1. store' \in Query /\ watch' \in Seq(Query)
    BY <1>1, <1>12, StatusType DEF OpWrite, api
  <2>2. ops' \in [Ops -> Run]
    BY <1>2, <1>3, <1>12 DEF OpWrite
  <2>. QED  BY <1>12, <2>1, <2>2 DEF OpWrite, OpUnchanged, TypeOK, counts
<1>13. CASE OpWriteAborted(o)
  BY <1>2, <1>3, <1>13 DEF OpWriteAborted, OpUnchanged, TypeOK, api, counts
<1>14. CASE OpExit(o)
  BY <1>2, <1>3, <1>14 DEF OpExit, CleanupCache, OpUnchanged, TypeOK, api, counts
<1>15. CASE EngineProvision(o)
  <2>1. store' \in Query /\ watch' \in Seq(Query)
    BY <1>1, <1>15, PatchType DEF EngineProvision, Phases
  <2>. QED  BY <1>4, <1>15, <2>1 DEF EngineProvision, TypeOK, ctl, counts
<1>16. CASE EngineRun(o)
  <2>1. store' \in Query /\ watch' \in Seq(Query)
    BY <1>1, <1>16, PatchType DEF EngineRun, Phases
  <2>. QED  BY <1>4, <1>16, <2>1 DEF EngineRun, TypeOK, ctl, counts
<1>. QED  BY <1>5, <1>6, <1>7, <1>8, <1>9, <1>10, <1>11, <1>12, <1>13, <1>14, <1>15, <1>16
          DEF Operation, Engine

LEMMA InitType == Init => TypeOK
<1>. SUFFICES ASSUME Init PROVE TypeOK
  OBVIOUS
<1>1. Absent(0) \in Query
  BY AbsentType
<1>2. NoRun \in Run /\ Idle \in Pass
  BY <1>1 DEF NoRun, Run, OpPcs, Idle, Pass
<1>3. watch \in Seq(Query)
  BY DEF Init
<1>4. /\ ops \in [Ops -> Run]
      /\ engine \in [Ops -> {"none", "received", "provisioning", "running",
                             "replied", "unmetered"}]
  BY <1>2 DEF Init
<1>5. store \in Query /\ cache \in Query /\ rec \in Pass
  BY <1>1, <1>2 DEF Init
<1>. QED  BY <1>3, <1>4, <1>5 DEF Init, TypeOK

LEMMA TypeStep ==
    ASSUME TypeOK, [Next]_vars
    PROVE  TypeOK'
<1>1. CASE UNCHANGED vars
  BY <1>1 DEF TypeOK, vars
<1>2. CASE Next
  <2>1. CASE Users \/ TTLExpire
    BY <2>1, UsersType
  <2>2. CASE Informer \/ ControllerRestart
    BY <2>2, InformerType
  <2>3. CASE Reconcile
    BY <2>3, DecideType, WriteType, StartOperationType DEF Reconcile
  <2>4. CASE \E o \in Ops : Operation(o) \/ Engine(o)
    BY <2>4, OperationType
  <2>. QED  BY <1>2, <2>1, <2>2, <2>3, <2>4 DEF Next
<1>. QED  BY <1>1, <1>2

\* Every variable holds what the code can put there, whatever the number of
\* goroutines and the bounds.
THEOREM TypeCorrect == Spec => []TypeOK
<1>1. TypeOK /\ [Next]_vars => TypeOK'
  BY TypeStep
<1>. QED  BY <1>1, InitType, PTL DEF Spec

-----------------------------------------------------------------------------
(* What the API server's operators do to the identity of the stored object. *)

Committed == /\ store' \in Query /\ store'.rv = store.rv + 1
             /\ watch' = Append(watch, store')
SameObject == store'.uid = store.uid /\ store'.fin = store.fin
GoneObject == store'.uid = 0 /\ ~store'.fin
Quiet == store' = store /\ watch' = watch

LEMMA AbsentFields == \A rv : /\ Absent(rv).uid = 0 /\ Absent(rv).rv = rv
                              /\ Absent(rv).fin = FALSE /\ Absent(rv).del = FALSE
BY DEF Absent

LEMMA CommitFacts ==
    ASSUME store \in Query, NEW q \in Query, Commit(q)
    PROVE  Committed /\ store'.uid = q.uid /\ store'.fin = q.fin /\ store'.del = q.del
<1> DEFINE v == [q EXCEPT !.rv = store.rv + 1]
<1>1. store.rv + 1 \in Nat
  BY DEF Query
<1>2. v \in Query /\ v.rv = store.rv + 1 /\ v.uid = q.uid /\ v.fin = q.fin /\ v.del = q.del
  BY <1>1 DEF Query
<1>3. store' = v /\ watch' = Append(watch, v)
  BY DEF Commit
<1>. HIDE DEF v
<1>. QED  BY <1>2, <1>3 DEF Committed

LEMMA StatusFacts ==
    ASSUME store \in Query, NEW q \in Query, CommitStatus(q)
    PROVE  Committed /\ SameObject
<1> DEFINE v == [store EXCEPT !.started = q.started, !.phase = q.phase,
                              !.resp = Sent(@, q.resp), !.tok = Sent(@, q.tok)]
<1>1. v \in Query /\ v.uid = store.uid /\ v.fin = store.fin
  BY DEF Query, Sent
<1>2. Commit(v)
  BY DEF CommitStatus
<1>. HIDE DEF v
<1>. QED  BY <1>1, <1>2, CommitFacts DEF SameObject

LEMMA PatchFacts ==
    ASSUME store \in Query, NEW phase \in Phases, PatchPhase(phase)
    PROVE  (Quiet \/ Committed) /\ SameObject
<1> DEFINE v == [store EXCEPT !.started = TRUE, !.phase = phase]
<1>1. v \in Query /\ v.uid = store.uid /\ v.fin = store.fin
  BY DEF Query
<1>2. CASE Exists(store)
  <2>1. Commit(v)
    BY <1>2 DEF PatchPhase
  <2>. HIDE DEF v
  <2>. QED  BY <1>1, <2>1, CommitFacts DEF SameObject
<1>3. CASE ~Exists(store)
  BY <1>3 DEF PatchPhase, api, Quiet, SameObject
<1>. QED  BY <1>2, <1>3

LEMMA UpdateFacts ==
    ASSUME store \in Query, NEW q \in Query, CommitUpdate(q)
    PROVE  /\ Committed
           /\ IF q.del /\ ~q.fin THEN GoneObject
                                 ELSE store'.uid = store.uid /\ store'.fin = q.fin
<1> DEFINE v == [store EXCEPT !.fin = q.fin]
<1>1. v \in Query /\ v.uid = store.uid /\ v.fin = q.fin
  BY DEF Query
<1>2. CASE q.del /\ ~q.fin
  BY <1>2, AbsentType, AbsentFields, CommitFacts DEF CommitUpdate, GoneObject
<1>3. CASE ~(q.del /\ ~q.fin)
  <2>1. Commit(v)
    BY <1>3 DEF CommitUpdate
  <2>. HIDE DEF v
  <2>. QED  BY <1>1, <1>3, <2>1, CommitFacts
<1>. QED  BY <1>2, <1>3

LEMMA DeleteFacts ==
    ASSUME store \in Query, CommitDelete
    PROVE  /\ Quiet \/ Committed
           /\ IF Backend = "crd" /\ store.fin THEN SameObject ELSE GoneObject
<1> DEFINE v == [store EXCEPT !.del = TRUE]
<1>1. v \in Query /\ v.uid = store.uid /\ v.fin = store.fin
  BY DEF Query
<1>2. CASE Backend = "crd" /\ store.fin
  <2>1. CASE store.del
    BY <1>2, <2>1 DEF CommitDelete, api, Quiet, SameObject
  <2>2. CASE ~store.del
    <3>1. Commit(v)
      BY <1>2, <2>2 DEF CommitDelete
    <3>. HIDE DEF v
    <3>. QED  BY <1>1, <1>2, <3>1, CommitFacts DEF SameObject
  <2>. QED  BY <2>1, <2>2
<1>3. CASE ~(Backend = "crd" /\ store.fin)
  BY <1>3, AbsentType, AbsentFields, CommitFacts DEF CommitDelete, GoneObject
<1>. QED  BY <1>2, <1>3

LEMMA CreateFacts ==
    ASSUME TypeOK, UserCreate
    PROVE  Committed /\ store'.fin = FALSE
<1> DEFINE v == [Absent(0) EXCEPT !.uid = lastUid + 1]
<1>1. Absent(0) \in Query /\ lastUid + 1 \in Nat
  BY AbsentType DEF TypeOK
<1>2. v \in Query /\ v.fin = FALSE
  BY <1>1, AbsentFields DEF Query
<1>3. Commit(v)
  BY DEF UserCreate
<1>. HIDE DEF v
<1>. QED  BY <1>2, <1>3, CommitFacts DEF TypeOK

-----------------------------------------------------------------------------
(* The order of the versions.  Whatever step is taken, either a version is     *)
(* added to the store and the watch, or the cache moves towards the store, or  *)
(* neither changes.                                                            *)

Ordered  == VersionOrder /\ \A q \in Copies : UpToDate(q)
Known(q) == q.rv <= cache.rv /\ UpToDate(q)
Relisted == cache' = store /\ store' = store /\ watch' = <<>>
Moved    == \/ (Quiet \/ Committed) /\ cache' = cache
            \/ InformerDeliver
            \/ Relisted

LEMMA OrderedStep ==
    ASSUME TypeOK, Ordered, Moved
    PROVE  /\ Ordered'
           /\ \A q \in Copies' : q \in Copies \/ q = store'
           /\ \A q \in Query : Known(q) => Known(q)'
<1>0. \A q \in Query : q.rv \in Nat
  BY DEF Query
<1>1. /\ watch \in Seq(Query) /\ store.rv \in Nat /\ cache.rv \in Nat
      /\ \A i \in DOMAIN watch : watch[i] \in Query /\ watch[i].rv \in Nat
  <2>1. watch \in Seq(Query) /\ store \in Query /\ cache \in Query
    BY DEF TypeOK
  <2>2. \A i \in DOMAIN watch : watch[i] \in Query
    BY <2>1
  <2>. QED  BY <1>0, <2>1, <2>2
<1>2. CASE Quiet /\ cache' = cache
  <2>1. store' = store /\ watch' = watch /\ cache' = cache
    BY <1>2 DEF Quiet
  <2>2. Copies' = Copies /\ VersionOrder'
    BY <2>1 DEF Copies, Ordered, VersionOrder
  <2>. QED  BY <2>1, <2>2 DEF Ordered, UpToDate, Known
<1>3. CASE Committed /\ cache' = cache
  <2>1. /\ Len(watch) \in Nat /\ DOMAIN watch = 1..Len(watch)
        /\ DOMAIN watch' = 1..(Len(watch) + 1)
        /\ \A i \in DOMAIN watch : watch'[i] = watch[i]
        /\ watch'[Len(watch) + 1] = store'
    BY <1>1, <1>3 DEF Committed
  <2>2. store'.rv = store.rv + 1 /\ cache' = cache
    BY <1>3 DEF Committed
  <2>3. \A i \in DOMAIN watch' : i \in DOMAIN watch \/ i = Len(watch) + 1
    BY <2>1
  <2>4. \A q \in Copies' : q \in Copies \/ q = store'
    BY <2>1, <2>2, <2>3 DEF Copies
  <2>5. \A q \in Copies : q.rv <= store.rv /\ q.rv \in Nat
    BY <1>1 DEF Copies, Ordered, VersionOrder
  <2>6. \A q \in Copies' : UpToDate(q)'
    BY <1>1, <2>2, <2>4, <2>5 DEF UpToDate
  <2>7. VersionOrder'
    <3>1. cache'.rv <= store'.rv
      BY <1>1, <2>2 DEF Ordered, VersionOrder
    <3>2. \A i \in DOMAIN watch' : cache'.rv < watch'[i].rv /\ watch'[i].rv <= store'.rv
      BY <1>1, <2>1, <2>2, <2>3 DEF Ordered, VersionOrder
    <3>3. ASSUME NEW i \in DOMAIN watch', NEW j \in DOMAIN watch', i < j
          PROVE  watch'[i].rv < watch'[j].rv
      <4>1. i \in DOMAIN watch
        BY <2>1, <3>3
      <4>2. CASE j \in DOMAIN watch
        BY <2>1, <3>3, <4>1, <4>2 DEF Ordered, VersionOrder
      <4>3. CASE j = Len(watch) + 1
        BY <1>1, <2>1, <2>2, <4>1, <4>3 DEF Ordered, VersionOrder
      <4>. QED  BY <2>3, <4>2, <4>3
    <3>. QED  BY <3>1, <3>2, <3>3 DEF VersionOrder
  <2>8. \A q \in Query : Known(q) => Known(q)'
    BY <1>1, <1>0, <2>2 DEF Known, UpToDate, Ordered, VersionOrder
  <2>. QED  BY <2>4, <2>6, <2>7, <2>8 DEF Ordered
<1>4. CASE InformerDeliver
  <2>1. /\ watch # <<>> /\ cache' = watch[1] /\ watch' = Tail(watch) /\ store' = store
    BY <1>1, <1>4 DEF InformerDeliver
  <2>2. /\ Len(watch) \in Nat \ {0} /\ DOMAIN watch = 1..Len(watch)
        /\ DOMAIN watch' = 1..(Len(watch) - 1)
        /\ \A i \in DOMAIN watch' : watch'[i] = watch[i + 1]
    BY <1>1, <2>1
  <2>3. \A i \in DOMAIN watch' : i + 1 \in DOMAIN watch /\ 1 < i + 1
    BY <2>2
  <2>4. 1 \in DOMAIN watch
    BY <2>2
  <2>5. \A q \in Copies' : q \in Copies
    BY <2>1, <2>2, <2>3, <2>4 DEF Copies
  <2>6. VersionOrder'
    <3>1. cache'.rv <= store'.rv
      BY <2>1, <2>4 DEF Ordered, VersionOrder
    <3>2. \A i \in DOMAIN watch' : cache'.rv < watch'[i].rv /\ watch'[i].rv <= store'.rv
      BY <2>1, <2>2, <2>3, <2>4 DEF Ordered, VersionOrder
    <3>3. ASSUME NEW i \in DOMAIN watch', NEW j \in DOMAIN watch', i < j
          PROVE  watch'[i].rv < watch'[j].rv
      <4>1. i + 1 < j + 1
        BY <2>2, <3>3
      <4>. QED  BY <2>2, <2>3, <4>1 DEF Ordered, VersionOrder
    <3>. QED  BY <3>1, <3>2, <3>3 DEF VersionOrder
  <2>7. \A q \in Copies' : UpToDate(q)'
    BY <2>1, <2>5 DEF Ordered, UpToDate
  <2>8. \A q \in Query : Known(q) => Known(q)'
    <3>1. cache.rv <= cache'.rv
      BY <1>1, <2>1, <2>4 DEF Ordered, VersionOrder
    <3>2. cache'.rv \in Nat
      BY <1>1, <2>1, <2>4
    <3>. QED  BY <1>1, <1>0, <2>1, <3>1, <3>2 DEF Known, UpToDate
  <2>. QED  BY <2>5, <2>6, <2>7, <2>8 DEF Ordered
<1>5. CASE Relisted
  <2>1. DOMAIN watch' = {}
    BY <1>5 DEF Relisted
  <2>2. Copies' = {store'}
    BY <1>5, <2>1 DEF Relisted, Copies
  <2>3. VersionOrder'
    BY <1>1, <1>5, <2>1 DEF Relisted, VersionOrder
  <2>4. \A q \in Query : Known(q) => Known(q)'
    BY <1>1, <1>5, <1>0 DEF Relisted, Known, UpToDate, Ordered, VersionOrder
  <2>. QED  BY <1>5, <2>2, <2>3, <2>4 DEF Ordered, UpToDate
<1>. QED  BY <1>2, <1>3, <1>4, <1>5 DEF Moved

-----------------------------------------------------------------------------
(* The parts of FinalizerProtocol, each from what it depends on.               *)

\* The finalizer is taken off, or the object removed, only where it had none.
Harmless == SameObject \/ (~store'.fin /\ (Backend = "crd" => ~store.fin))
OpKept   == operations' # NoOp =>
              /\ operations' = operations
              /\ ops'[operations].pc \in Pending \cup {"exit"}
              /\ ops'[operations].uid = ops[operations].uid

LEMMA GuardKept ==
    ASSUME FinalizerProtocol, Moved, Harmless
    PROVE  FinalizerGuard'
<1>1. \A q \in Copies' : q \in Copies \/ q = store'
  BY OrderedStep DEF FinalizerProtocol, Ordered
<1>2. ~Exists(store') => ~store'.fin
  BY DEF Harmless, SameObject, FinalizerProtocol, FinalizerGuard, Exists
<1>3. ASSUME Backend = "crd", NEW q \in Copies', q.fin /\ ~q.del
      PROVE  store'.uid = q.uid /\ store'.fin
  <2>1. CASE q = store'
    BY <1>3, <2>1
  <2>2. CASE q \in Copies
    <3>1. store.uid = q.uid /\ store.fin
      BY <1>3, <2>2 DEF FinalizerProtocol, FinalizerGuard
    <3>. QED  BY <1>3, <3>1 DEF Harmless, SameObject
  <2>. QED  BY <1>1, <2>1, <2>2
<1>. QED  BY <1>2, <1>3 DEF FinalizerGuard, Exists

LEMMA MidKept ==
    ASSUME FinalizerProtocol, Moved, rec' \in {rec, Idle}, expired \subseteq expired',
           operations' \in {operations, NoOp}
    PROVE  MidReconcile'
<1>1. CASE rec' = Idle
  BY <1>1 DEF MidReconcile, Idle
<1>2. CASE rec' = rec
  <2>1. rec.obj \in Query
    BY DEF FinalizerProtocol, TypeOK, Pass
  <2>2. \A q \in Query : Known(q) => Known(q)'
    BY OrderedStep DEF FinalizerProtocol, Ordered
  <2>3. Known(rec.obj) => /\ rec.obj.rv <= cache'.rv
                          /\ rec.obj.rv = store'.rv => rec.obj.del = store'.del
    BY <2>1, <2>2 DEF Known, UpToDate
  <2>4. rec.pc \in {"expired", "deleted", "update"} => Known(rec.obj)
    BY DEF FinalizerProtocol, MidReconcile, Known
  <2>. QED  BY <1>2, <2>3, <2>4 DEF FinalizerProtocol, MidReconcile, UpToDate
<1>. QED  BY <1>1, <1>2

LEMMA ProtocolKept ==
    ASSUME FinalizerProtocol, TypeOK', Moved, Harmless, OpKept, MidReconcile'
    PROVE  FinalizerProtocol'
<1>1. Ordered'
  BY OrderedStep DEF FinalizerProtocol, Ordered
<1>2. FinalizerGuard'
  BY GuardKept
<1>3. RegisteredOperation'
  <2>. SUFFICES ASSUME operations' # NoOp
                PROVE  /\ ops'[operations'].pc \in Pending \cup {"exit"}
                       /\ Backend = "crd" => /\ store'.uid = ops'[operations'].uid
                                             /\ store'.fin
    BY DEF RegisteredOperation
  <2>1. /\ operations' = operations /\ operations # NoOp
        /\ ops'[operations].pc \in Pending \cup {"exit"}
        /\ ops'[operations].uid = ops[operations].uid
    BY DEF OpKept
  <2>2. Backend = "crd" => store.uid = ops[operations].uid /\ store.fin
    BY <2>1 DEF FinalizerProtocol, RegisteredOperation
  <2>. QED  BY <2>1, <2>2 DEF Harmless, SameObject
<1>. QED  BY <1>1, <1>2, <1>3 DEF FinalizerProtocol, Ordered

\* The registered goroutine where no goroutine and no entry changes.
LEMMA OpUntouched ==
    ASSUME FinalizerProtocol, operations' = operations, ops' = ops
    PROVE  OpKept
BY DEF FinalizerProtocol, RegisteredOperation, OpKept

LEMMA OpAfterCancel ==
    ASSUME CancelOperation
    PROVE  OpKept /\ operations' = NoOp
BY DEF CancelOperation, OpKept

\* A goroutine's own step, unless it is the last one.
LEMMA OpAfterStep ==
    ASSUME FinalizerProtocol, NEW o \in Ops, NEW from, NEW run, Step(o, from, run),
           run.pc \in Pending \cup {"exit"}, run.uid = ops[o].uid,
           operations' = operations
    PROVE  OpKept
<1>1. CASE operations = NoOp
  BY <1>1 DEF OpKept
<1>2. CASE operations # NoOp
  <2>1. /\ ops[operations].pc \in Pending \cup {"exit"}
        /\ operations \in Ops /\ ops \in [Ops -> Run]
    BY <1>2 DEF FinalizerProtocol, RegisteredOperation, TypeOK
  <2>2. ops' = [ops EXCEPT ![o] = run]
    BY DEF Step
  <2>3. CASE operations = o
    BY <2>1, <2>2, <2>3 DEF OpKept
  <2>4. CASE operations # o
    BY <2>1, <2>2, <2>4 DEF OpKept
  <2>. QED  BY <2>3, <2>4
<1>. QED  BY <1>1, <1>2

-----------------------------------------------------------------------------
(* The steps of each party.                                                    *)

LEMMA OutsideProtocol ==
    ASSUME FinalizerProtocol, TypeOK', Users \/ TTLExpire \/ Informer \/ ControllerRestart
    PROVE  FinalizerProtocol'
<1>1. store \in Query /\ [store EXCEPT !.cancel = TRUE] \in Query
  BY DEF FinalizerProtocol, TypeOK, Query
<1>2. ~store.fin => (GoneObject => Harmless)
  BY DEF Harmless, GoneObject
<1>3. Moved /\ Harmless /\ (OpKept \/ operations' = NoOp)
        /\ operations' \in {operations, NoOp} /\ rec' \in {rec, Idle}
        /\ expired \subseteq expired'
  <2>1. CASE UserCreate
    <3>1. Committed /\ store'.fin = FALSE /\ ~store.fin
      BY <2>1, CreateFacts DEF FinalizerProtocol, FinalizerGuard, UserCreate
    <3>. QED  BY <2>1, <3>1, OpUntouched DEF UserCreate, Moved, Harmless, ctl
  <2>2. CASE UserCancel
    <3>1. Committed /\ SameObject
      <4>1. Commit([store EXCEPT !.cancel = TRUE])
        BY <2>2 DEF UserCancel
      <4>2. /\ [store EXCEPT !.cancel = TRUE].uid = store.uid
            /\ [store EXCEPT !.cancel = TRUE].fin = store.fin
        BY <1>1 DEF Query
      <4>. QED  BY <1>1, <4>1, <4>2, CommitFacts DEF SameObject
    <3>. QED  BY <2>2, <3>1, OpUntouched DEF UserCancel, Moved, Harmless, ctl
  <2>3. CASE UserEdit
    <3>1. Committed /\ SameObject
      BY <1>1, <2>3, CommitFacts DEF UserEdit, SameObject
    <3>. QED  BY <2>3, <3>1, OpUntouched DEF UserEdit, Moved, Harmless, ctl
  <2>4. CASE UserDelete
    <3>1. (Quiet \/ Committed) /\ Harmless
      BY <1>1, <2>4, DeleteFacts DEF UserDelete, Harmless, GoneObject
    <3>. QED  BY <2>4, <3>1, OpUntouched DEF UserDelete, Moved, ctl
  <2>5. CASE TTLExpire
    BY <2>5, OpUntouched DEF TTLExpire, Moved, Quiet, Harmless, SameObject, api, ctl
  <2>6. CASE InformerDeliver
    BY <2>6, OpUntouched DEF InformerDeliver, Moved, Harmless, SameObject
  <2>7. CASE InformerRelist
    BY <2>7, OpUntouched DEF InformerRelist, Moved, Relisted, Harmless, SameObject
  <2>8. CASE InformerResync
    BY <2>8, OpUntouched DEF InformerResync, Moved, Quiet, Harmless, SameObject, api
  <2>9. CASE RequeueTimer
    BY <2>9, OpUntouched DEF RequeueTimer, Moved, Quiet, Harmless, SameObject, api
  <2>10. CASE ControllerRestart
    BY <2>10 DEF ControllerRestart, Moved, Relisted, Harmless, SameObject
  <2>. QED  BY <2>1, <2>2, <2>3, <2>4, <2>5, <2>6, <2>7, <2>8, <2>9, <2>10
            DEF Users, Informer
<1>4. OpKept
  BY <1>3 DEF OpKept
<1>. QED  BY <1>3, <1>4, MidKept, ProtocolKept

\* The copy a reconcile decides on, between the fetch and the first write.
LEMMA ObjKnown ==
    ASSUME FinalizerProtocol
    PROVE  /\ Deciding => Known(Obj) /\ Obj \in Query
           /\ Fetched => Known(cache)
           /\ Deciding /\ Obj.uid \notin expired => Fetched /\ Obj = cache
<1>1. cache.rv \in Nat /\ cache \in Copies /\ Obj \in Query
  BY ObjType DEF FinalizerProtocol, TypeOK, Query, Copies
<1>2. Known(cache)
  BY <1>1 DEF Known, FinalizerProtocol
<1>. QED  BY <1>1, <1>2 DEF FinalizerProtocol, MidReconcile, Deciding, Fetched, Obj, Known

LEMMA DecideProtocol ==
    ASSUME FinalizerProtocol, TypeOK',
           \/ FetchNotFound \/ FetchExpired \/ AddFinalizer \/ Finalize
           \/ InitConditions \/ HonourCancel \/ SeeTerminal \/ SetRunning \/ LeaveRunning
    PROVE  FinalizerProtocol'
<1>1. UNCHANGED api /\ UNCHANGED <<cache, expired>>
  BY DEF FetchNotFound, FetchExpired, AddFinalizer, Finalize, InitConditions,
         HonourCancel, SeeTerminal, SetRunning, LeaveRunning, RecUnchanged
<1>2. store' = store /\ watch' = watch /\ cache' = cache /\ expired' = expired
  BY <1>1 DEF api
<1>3. Moved /\ Harmless
  BY <1>2 DEF Moved, Quiet, Harmless, SameObject
<1>4. OpKept /\ operations' \in {operations, NoOp}
  <2>1. CASE Finalize \/ HonourCancel
    BY <2>1, OpAfterCancel DEF Finalize, HonourCancel
  <2>2. CASE operations' = operations /\ ops' = ops
    BY <2>2, OpUntouched
  <2>. QED  BY <2>1, <2>2
            DEF FetchNotFound, FetchExpired, AddFinalizer, InitConditions,
                SeeTerminal, SetRunning, LeaveRunning
<1>5. MidReconcile'
  <2>1. Deciding => Known(Obj) /\ Obj \in Query
    BY ObjKnown
  <2>2. CASE rec' = Idle
    BY <1>2, <1>3, <1>4, <2>2, MidKept
  <2>3. CASE FetchExpired
    <3>1. rec' = [pc |-> "expired", obj |-> cache] /\ cache.uid \in expired
      BY <2>3 DEF FetchExpired, Go, TTLPassed
    <3>2. Known(cache)
      BY <2>3, ObjKnown DEF FetchExpired
    <3>. QED  BY <1>2, <3>1, <3>2 DEF MidReconcile, Known, UpToDate
  <2>4. CASE AddFinalizer
    <3>1. rec' = [pc |-> "update", obj |-> [Obj EXCEPT !.fin = TRUE]]
      BY <2>4 DEF AddFinalizer, Go
    <3>2. /\ [Obj EXCEPT !.fin = TRUE].fin /\ [Obj EXCEPT !.fin = TRUE].rv = Obj.rv
          /\ [Obj EXCEPT !.fin = TRUE].del = Obj.del
      BY <2>1, <2>4 DEF AddFinalizer, Query
    <3>3. Known(Obj)
      BY <2>1, <2>4 DEF AddFinalizer
    <3>. QED  BY <1>2, <3>1, <3>2, <3>3 DEF MidReconcile, Known, UpToDate
  <2>5. CASE Finalize
    <3>1. rec' = [pc |-> "update", obj |-> [Obj EXCEPT !.fin = FALSE]] /\ Obj.del
      BY <2>5 DEF Finalize, Go
    <3>2. /\ [Obj EXCEPT !.fin = FALSE].rv = Obj.rv
          /\ [Obj EXCEPT !.fin = FALSE].del = Obj.del
      BY <2>1, <2>5 DEF Finalize, Query
    <3>3. Known(Obj)
      BY <2>1, <2>5 DEF Finalize
    <3>4. operations' = NoOp
      BY <2>5, OpAfterCancel DEF Finalize
    <3>. QED  BY <1>2, <3>1, <3>2, <3>3, <3>4 DEF MidReconcile, Known, UpToDate
  <2>6. CASE rec'.pc \in {"write", "status"}
    BY <2>6 DEF MidReconcile
  <2>. QED  BY <2>2, <2>3, <2>4, <2>5, <2>6
            DEF FetchNotFound, InitConditions, HonourCancel, SeeTerminal,
                SetRunning, LeaveRunning, Return, Go
<1>. QED  BY <1>3, <1>4, <1>5, ProtocolKept

LEMMA StartProtocol ==
    ASSUME FinalizerProtocol, TypeOK', NEW o \in Ops, StartOperation(o)
    PROVE  FinalizerProtocol'
<1>1. Obj = cache /\ cache.fin /\ ~cache.del
  BY ObjKnown DEF StartOperation, Running, NoCancel, InCharge
<1>2. Backend = "crd" => store.uid = cache.uid /\ store.fin
  BY <1>1 DEF FinalizerProtocol, FinalizerGuard, Copies
<1>3. /\ store' = store /\ watch' = watch /\ cache' = cache /\ expired' = expired
      /\ operations' = o /\ rec' = Idle
  BY DEF StartOperation, RecUnchanged, Return, api
<1>4. ops'[o].pc = "dispatch" /\ ops'[o].uid = cache.uid
  <2>1. ops \in [Ops -> Run]
    BY DEF FinalizerProtocol, TypeOK
  <2>2. ops' = [ops EXCEPT ![o] = [NoRun EXCEPT !.pc = "dispatch", !.uid = cache.uid,
                                     !.obj.resp = cache.resp, !.obj.tok = cache.tok]]
    BY <1>1 DEF StartOperation
  <2>. QED  BY <2>1, <2>2 DEF NoRun
<1>5. RegisteredOperation'
  BY <1>2, <1>3, <1>4 DEF RegisteredOperation, Pending
<1>6. Moved /\ Harmless
  BY <1>3 DEF Moved, Quiet, Harmless, SameObject
<1>7. Ordered' /\ FinalizerGuard'
  BY <1>6, OrderedStep, GuardKept DEF FinalizerProtocol, Ordered
<1>8. MidReconcile'
  BY <1>3 DEF MidReconcile, Idle
<1>. QED  BY <1>5, <1>7, <1>8 DEF FinalizerProtocol, Ordered

\* The one step that takes the finalizer off.  Its copy is the newest version,
\* so nothing else on its way to the controller shows the query undeleted.
LEMMA UpdateProtocol ==
    ASSUME FinalizerProtocol, TypeOK', ReconcileUpdate
    PROVE  FinalizerProtocol'
<1>1. /\ store \in Query /\ rec.obj \in Query /\ rec.pc = "update" /\ rec' = Idle
      /\ cache' = cache /\ expired' = expired /\ operations' = operations /\ ops' = ops
  BY DEF ReconcileUpdate, RecUnchanged, FinalizerProtocol, TypeOK, Pass
<1>2. OpKept /\ MidReconcile'
  BY <1>1, OpUntouched DEF MidReconcile, Idle
<1>3. CASE ~Accepts(rec.obj)
  <2>1. Moved /\ Harmless
    BY <1>1, <1>3 DEF ReconcileUpdate, api, Moved, Quiet, Harmless, SameObject
  <2>. QED  BY <1>2, <2>1, ProtocolKept
<1>4. CASE Accepts(rec.obj)
  <2>1. CommitUpdate(rec.obj) /\ rec.obj.rv = store.rv /\ Exists(store)
    BY <1>4 DEF ReconcileUpdate, Accepts
  <2>2. /\ Committed
        /\ IF rec.obj.del /\ ~rec.obj.fin THEN GoneObject
           ELSE store'.uid = store.uid /\ store'.fin = rec.obj.fin
    BY <1>1, <2>1, UpdateFacts
  <2>3. Moved
    BY <1>1, <2>2 DEF Moved
  <2>4. CASE rec.obj.fin
    <3>1. store'.uid = store.uid /\ store'.fin /\ Exists(store')
      BY <2>1, <2>2, <2>4 DEF Exists
    <3>2. \A q \in Copies' : q \in Copies \/ q = store'
      BY <2>3, OrderedStep DEF FinalizerProtocol, Ordered
    <3>3. FinalizerGuard'
      BY <3>1, <3>2 DEF FinalizerProtocol, FinalizerGuard
    <3>4. RegisteredOperation'
      BY <1>1, <3>1 DEF FinalizerProtocol, RegisteredOperation
    <3>5. Ordered'
      BY <2>3, OrderedStep DEF FinalizerProtocol, Ordered
    <3>. QED  BY <1>2, <3>3, <3>4, <3>5 DEF FinalizerProtocol, Ordered
  <2>5. CASE ~rec.obj.fin
    <3>1. rec.obj.del /\ operations = NoOp /\ cache.rv >= store.rv /\ UpToDate(rec.obj)
      BY <1>1, <2>1, <2>5 DEF FinalizerProtocol, MidReconcile
    <3>2. GoneObject /\ store.del
      BY <2>1, <2>2, <2>5, <3>1 DEF UpToDate
    <3>3. cache.rv = store.rv /\ DOMAIN watch = {}
      <4>1. cache.rv \in Nat /\ store.rv \in Nat
        BY DEF FinalizerProtocol, TypeOK, Query
      <4>2. cache.rv = store.rv
        BY <3>1, <4>1 DEF FinalizerProtocol, VersionOrder
      <4>3. \A i \in DOMAIN watch : watch[i].rv \in Nat
        <5>1. watch \in Seq(Query)
          BY DEF FinalizerProtocol, TypeOK
        <5>2. \A i \in DOMAIN watch : watch[i] \in Query
          BY <5>1
        <5>. QED  BY <5>2 DEF Query
      <4>4. \A i \in DOMAIN watch : cache.rv < watch[i].rv /\ watch[i].rv <= store.rv
        BY DEF FinalizerProtocol, VersionOrder
      <4>5. \A i \in DOMAIN watch : FALSE
        BY <4>1, <4>2, <4>3, <4>4
      <4>. QED  BY <4>2, <4>5
    <3>4. \A q \in Copies : q.del
      BY <3>2, <3>3 DEF FinalizerProtocol, Copies, UpToDate
    <3>5. \A q \in Copies' : q \in Copies \/ q = store'
      BY <2>3, OrderedStep DEF FinalizerProtocol, Ordered
    <3>6. FinalizerGuard'
      BY <3>2, <3>4, <3>5 DEF FinalizerGuard, GoneObject
    <3>7. RegisteredOperation'
      BY <1>1, <3>1 DEF RegisteredOperation
    <3>8. Ordered'
      BY <2>3, OrderedStep DEF FinalizerProtocol, Ordered
    <3>. QED  BY <1>2, <3>6, <3>7, <3>8 DEF FinalizerProtocol, Ordered
  <2>. QED  BY <2>4, <2>5
<1>. QED  BY <1>3, <1>4

LEMMA CallProtocol ==
    ASSUME FinalizerProtocol, TypeOK', DeleteExpired \/ ReconcileStatus \/ ReconcileWrite
    PROVE  FinalizerProtocol'
<1>1. /\ store \in Query /\ cache \in Query /\ rec.obj \in Query /\ cache' = cache
      /\ expired' = expired /\ operations' = operations /\ ops' = ops
  BY DEF DeleteExpired, ReconcileStatus, ReconcileWrite, RecUnchanged,
         FinalizerProtocol, TypeOK, Pass
<1>2. OpKept
  BY <1>1, OpUntouched
<1>3. Moved /\ Harmless
  <2>1. CASE DeleteExpired
    <3>1. CASE Exists(store)
      BY <1>1, <2>1, <3>1, DeleteFacts DEF DeleteExpired, Moved, Harmless, GoneObject
    <3>2. CASE ~Exists(store)
      BY <1>1, <2>1, <3>2 DEF DeleteExpired, api, Moved, Quiet, Harmless, SameObject
    <3>. QED  BY <3>1, <3>2
  <2>2. CASE ReconcileStatus
    BY <1>1, <2>2 DEF ReconcileStatus, api, Moved, Quiet, Harmless, SameObject
  <2>3. CASE ReconcileWrite
    BY <1>1, <2>3, StatusFacts DEF ReconcileWrite, api, Moved, Quiet, Harmless, SameObject
  <2>. QED  BY <2>1, <2>2, <2>3
<1>4. MidReconcile'
  <2>1. CASE rec' = Idle
    BY <1>1, <1>3, <2>1, MidKept
  <2>2. CASE rec' = [pc |-> "deleted", obj |-> rec.obj] /\ rec.pc = "expired"
    <3>1. Known(rec.obj) /\ rec.obj.uid \in expired
      BY <2>2 DEF FinalizerProtocol, MidReconcile, Known
    <3>2. \A q \in Query : Known(q) => Known(q)'
      BY <1>3, OrderedStep DEF FinalizerProtocol, Ordered
    <3>3. /\ rec.obj.rv <= cache'.rv
          /\ rec.obj.rv = store'.rv => rec.obj.del = store'.del
      BY <1>1, <3>1, <3>2 DEF Known, UpToDate
    <3>. QED  BY <1>1, <2>2, <3>1, <3>3 DEF MidReconcile, UpToDate
  <2>3. CASE rec'.pc = "write"
    BY <2>3 DEF MidReconcile
  <2>. QED  BY <2>1, <2>2, <2>3 DEF DeleteExpired, ReconcileStatus, ReconcileWrite, Go
<1>. QED  BY <1>2, <1>3, <1>4, ProtocolKept

LEMMA OperationProtocol ==
    ASSUME FinalizerProtocol, TypeOK', NEW o \in Ops, Operation(o) \/ Engine(o)
    PROVE  FinalizerProtocol'
<1>1. /\ store \in Query /\ ops[o] \in Run /\ ops[o].obj \in Query /\ TypeOK
      /\ cache' = cache /\ expired' = expired /\ rec' = rec
  BY DEF FinalizerProtocol, TypeOK, Run, Operation, Engine, OpUnchanged, ctl,
         OpResolveFail, OpSend, OpReply, OpFail, OpCanceled, OpPanic, OpUpdateStatus,
         OpWrite, OpWriteAborted, OpExit, EngineProvision, EngineRun
<1>2. CASE Engine(o)
  <2>1. (Quiet \/ Committed) /\ SameObject
    BY <1>1, <1>2, PatchFacts DEF Engine, EngineProvision, EngineRun, Phases
  <2>2. OpKept /\ operations' = operations
    BY <1>2, OpUntouched DEF Engine, EngineProvision, EngineRun, ctl
  <2>. QED  BY <1>1, <2>1, <2>2, MidKept, ProtocolKept DEF Moved, Harmless
<1>3. CASE Operation(o)
  <2>1. (Quiet \/ Committed) /\ SameObject
    <3>1. CASE OpWrite(o)
      BY <1>1, <3>1, StatusFacts DEF OpWrite, api, Quiet, SameObject
    <3>2. CASE UNCHANGED api
      BY <3>2 DEF api, Quiet, SameObject
    <3>. QED  BY <1>3, <3>1, <3>2
              DEF Operation, OpResolveFail, OpSend, OpReply, OpFail, OpCanceled, OpPanic,
                  OpUpdateStatus, OpWriteAborted, OpExit
  <2>2. OpKept /\ operations' \in {operations, NoOp}
    <3>1. /\ Leaving(o, "exit").pc = "exit" /\ Leaving(o, "exit").uid = ops[o].uid
      BY DEF Leaving, NoRun
    <3>2. \A pc : At(o, pc).pc = pc /\ At(o, pc).uid = ops[o].uid
      BY <1>1 DEF At, Run
    <3>3. \A phase, resp, tok :
            /\ Outcome(o, phase, resp, tok).pc = "report"
            /\ Outcome(o, phase, resp, tok).uid = ops[o].uid
      BY <1>1 DEF Outcome, At, Run
    <3>4. CASE OpExit(o)
      BY <3>4 DEF OpExit, CleanupCache, OpKept
    <3>5. CASE OpUpdateStatus(o)
      <4>1. \A obj : /\ [At(o, "write") EXCEPT !.obj = obj].pc = "write"
                     /\ [At(o, "write") EXCEPT !.obj = obj].uid = ops[o].uid
        BY <1>1 DEF At, Run
      <4>. QED  BY <3>1, <3>5, <4>1, OpAfterStep DEF OpUpdateStatus, Pending
    <3>6. CASE OpResolveFail(o) \/ OpReply(o) \/ OpFail(o)
      BY <3>3, <3>6, OpAfterStep DEF OpResolveFail, OpReply, OpFail, Pending, OpUnchanged
    <3>7. CASE OpSend(o)
      BY <3>2, <3>7, OpAfterStep DEF OpSend, Pending
    <3>8. CASE OpCanceled(o) \/ OpPanic(o) \/ OpWrite(o) \/ OpWriteAborted(o)
      BY <3>1, <3>8, OpAfterStep DEF OpCanceled, OpPanic, OpWrite, OpWriteAborted
    <3>. QED  BY <1>3, <3>4, <3>5, <3>6, <3>7, <3>8 DEF Operation
  <2>. QED  BY <1>1, <2>1, <2>2, MidKept, ProtocolKept DEF Moved, Harmless
<1>. QED  BY <1>2, <1>3

\* The finalizer protocol is an invariant of the controller and its environment.
THEOREM FinalizerProtocolHolds == Spec => []FinalizerProtocol
<1>1. Init => FinalizerProtocol
  <2>. SUFFICES ASSUME Init PROVE FinalizerProtocol
    OBVIOUS
  <2>1. TypeOK
    BY InitType
  <2>2. /\ store = Absent(0) /\ cache = store /\ DOMAIN watch = {}
        /\ operations = NoOp /\ rec = Idle
    BY DEF Init
  <2>3. Copies = {store} /\ store.rv = 0 /\ ~store.fin
    BY <2>2, AbsentFields DEF Copies
  <2>4. VersionOrder /\ RegisteredOperation /\ MidReconcile
    BY <2>2, <2>3 DEF VersionOrder, RegisteredOperation, MidReconcile, Idle
  <2>. QED  BY <2>1, <2>3, <2>4 DEF FinalizerProtocol, FinalizerGuard, UpToDate
<1>2. FinalizerProtocol /\ [Next]_vars => FinalizerProtocol'
  <2>. SUFFICES ASSUME FinalizerProtocol, [Next]_vars PROVE FinalizerProtocol'
    OBVIOUS
  <2>0. TypeOK'
    BY TypeStep DEF FinalizerProtocol
  <2>1. CASE UNCHANGED vars
    BY <2>1 DEF vars, FinalizerProtocol, TypeOK, RegisteredOperation, VersionOrder,
                FinalizerGuard, MidReconcile, Copies, UpToDate, Exists
  <2>2. CASE Next
    <3>1. CASE Users \/ TTLExpire \/ Informer \/ ControllerRestart
      BY <2>0, <3>1, OutsideProtocol
    <3>2. CASE Reconcile
      BY <2>0, <3>2, DecideProtocol, StartProtocol, UpdateProtocol, CallProtocol
      DEF Reconcile
    <3>3. CASE \E o \in Ops : Operation(o) \/ Engine(o)
      BY <2>0, <3>3, OperationProtocol
    <3>. QED  BY <2>2, <3>1, <3>2, <3>3 DEF Next
  <2>. QED  BY <2>1, <2>2
<1>. QED  BY <1>1, <1>2, PTL DEF Spec

\* The operations map never outlives its goroutine, and behind the CRD the query
\* of a registered operation cannot go away before the operation is canceled.
THEOREM RegistrationSafe == Spec => []RegisteredOperation
<1>1. FinalizerProtocol => RegisteredOperation
  BY DEF FinalizerProtocol
<1>. QED  BY <1>1, FinalizerProtocolHolds, PTL

-----------------------------------------------------------------------------
(* Behind the CRD, an operation that still works for its query is the one  *)
(* that is registered (QueryController!LiveOperationRegistered).  The      *)
(* finalizer protocol alone does not give it: what is added is the history *)
(* of the name, as far as the copies that are still about show it.         *)

\* The versions a reconcile can still decide on, or will be able to.
Seen == Copies \cup {store}
               \cup (IF rec.pc \in {"expired", "deleted"} THEN {rec.obj} ELSE {})

\* What a newer version of the name shows of an older one: a later query, or the
\* same one with no cancel and no deletion undone.
Follows(q, r) ==
    Exists(q) /\ Exists(r) =>
        /\ q.uid <= r.uid
        /\ q.uid = r.uid => (q.del => r.del) /\ (q.cancel => r.cancel)

History ==
    /\ \A q \in Seen : q.uid <= lastUid /\ q.rv <= store.rv
    /\ \A q, r \in Seen : q.rv <= r.rv => Follows(q, r)
    /\ rec.pc \in {"expired", "deleted"} => Exists(rec.obj)

Begun(o)  == ops[o].pc # "none"
Active(o) == ops[o].pc \in Pending \cup {"exit"}

\* Nobody sees a query from before the ones operations were begun for.
Late ==
    \A o \in Ops : Begun(o) =>
        /\ ops[o].uid \in 1..lastUid
        /\ \A q \in Seen : Exists(q) => ops[o].uid <= q.uid

\* Whoever looks at the query of a canceled operation sees why it was canceled.
Overruled ==
    \A o \in Ops : Active(o) /\ ops[o].canceled =>
        \A q \in Seen : q.uid = ops[o].uid => q.cancel \/ q.del

\* An operation that works is registered, and no other one is at its query.
Lives(o) == Active(o) /\ ~ops[o].canceled /\ FirstOfName(o)
Sole ==
    \A o \in Ops : Lives(o) =>
        /\ operations = o
        /\ \A p \in Ops \ {o} : Active(p) => ops[p].uid # ops[o].uid

OneOperation == History /\ Late /\ Overruled /\ Sole

-----------------------------------------------------------------------------
(* What a step does to the versions.                                       *)

\* A committed version is of the stored query, with nothing undone, or of a new
\* one, or says that there is none.
Continues == /\ store'.uid = store.uid
             /\ (store.del => store'.del) /\ (store.cancel => store'.cancel)
Begins    == store'.uid = lastUid + 1 /\ lastUid' = lastUid + 1
Grown     == /\ lastUid' \in {lastUid, lastUid + 1}
             /\ \/ store' = store
                \/ /\ store'.rv = store.rv + 1
                   /\ store'.uid = 0 \/ Begins \/ Continues

LEMMA CommitContinues ==
    ASSUME store \in Query, NEW q \in Query, Commit(q), q.uid = store.uid,
           store.del => q.del, store.cancel => q.cancel
    PROVE  store'.rv = store.rv + 1 /\ Continues
<1> DEFINE v == [q EXCEPT !.rv = store.rv + 1]
<1>1. /\ v.rv = store.rv + 1 /\ v.uid = q.uid /\ v.del = q.del /\ v.cancel = q.cancel
  BY DEF Query
<1>2. store' = v
  BY DEF Commit
<1>. HIDE DEF v
<1>. QED  BY <1>1, <1>2 DEF Continues

LEMMA CommitVanishes ==
    ASSUME store \in Query, Commit(Absent(0))
    PROVE  store'.rv = store.rv + 1 /\ store'.uid = 0
<1>1. Absent(0) \in Query
  BY AbsentType
<1>. QED  BY <1>1, AbsentFields, CommitFacts DEF Committed

LEMMA CommitBegins ==
    ASSUME TypeOK, UserCreate
    PROVE  store'.rv = store.rv + 1 /\ Begins
<1> DEFINE v == [Absent(0) EXCEPT !.uid = lastUid + 1]
<1>1. Absent(0) \in Query /\ lastUid + 1 \in Nat
  BY AbsentType DEF TypeOK
<1>2. v \in Query /\ v.uid = lastUid + 1
  BY <1>1 DEF Query
<1>3. Commit(v)
  BY DEF UserCreate
<1>. HIDE DEF v
<1>. QED  BY <1>2, <1>3, CommitFacts DEF TypeOK, Committed, Begins, UserCreate

LEMMA StatusContinues ==
    ASSUME store \in Query, NEW q \in Query, CommitStatus(q)
    PROVE  store'.rv = store.rv + 1 /\ Continues
<1> DEFINE v == [store EXCEPT !.started = q.started, !.phase = q.phase,
                              !.resp = Sent(@, q.resp), !.tok = Sent(@, q.tok)]
<1>1. v \in Query /\ v.uid = store.uid /\ v.del = store.del /\ v.cancel = store.cancel
  BY DEF Query, Sent
<1>2. Commit(v)
  BY DEF CommitStatus
<1>. HIDE DEF v
<1>. QED  BY <1>1, <1>2, CommitContinues

LEMMA PatchContinues ==
    ASSUME store \in Query, NEW phase \in Phases, PatchPhase(phase)
    PROVE  store' = store \/ (store'.rv = store.rv + 1 /\ Continues)
<1> DEFINE v == [store EXCEPT !.started = TRUE, !.phase = phase]
<1>1. v \in Query /\ v.uid = store.uid /\ v.del = store.del /\ v.cancel = store.cancel
  BY DEF Query
<1>2. CASE Exists(store)
  <2>1. Commit(v)
    BY <1>2 DEF PatchPhase
  <2>. HIDE DEF v
  <2>. QED  BY <1>1, <2>1, CommitContinues
<1>3. CASE ~Exists(store)
  BY <1>3 DEF PatchPhase, api
<1>. QED  BY <1>2, <1>3

LEMMA UpdateGrows ==
    ASSUME store \in Query, NEW q \in Query, CommitUpdate(q)
    PROVE  store'.rv = store.rv + 1 /\ (store'.uid = 0 \/ Continues)
<1> DEFINE v == [store EXCEPT !.fin = q.fin]
<1>1. v \in Query /\ v.uid = store.uid /\ v.del = store.del /\ v.cancel = store.cancel
  BY DEF Query
<1>2. CASE q.del /\ ~q.fin
  BY <1>2, CommitVanishes DEF CommitUpdate
<1>3. CASE ~(q.del /\ ~q.fin)
  <2>1. Commit(v)
    BY <1>3 DEF CommitUpdate
  <2>. HIDE DEF v
  <2>. QED  BY <1>1, <2>1, CommitContinues
<1>. QED  BY <1>2, <1>3

LEMMA DeleteGrows ==
    ASSUME store \in Query, CommitDelete
    PROVE  store' = store \/ (store'.rv = store.rv + 1 /\ (store'.uid = 0 \/ Continues))
<1> DEFINE v == [store EXCEPT !.del = TRUE]
<1>1. v \in Query /\ v.uid = store.uid /\ v.del /\ v.cancel = store.cancel
  BY DEF Query
<1>2. CASE Commit(v)
  <2>. HIDE DEF v
  <2>. QED  BY <1>1, <1>2, CommitContinues
<1>3. CASE Commit(Absent(0))
  BY <1>3, CommitVanishes
<1>4. CASE UNCHANGED api
  BY <1>4 DEF api
<1>. QED  BY <1>2, <1>3, <1>4 DEF CommitDelete

\* The copy between an expired query's DELETE and what follows is the fetched one.
RecKept == rec'.pc \in {"expired", "deleted"} =>
              \/ rec'.obj = cache /\ Exists(cache)
              \/ rec'.obj = rec.obj /\ rec.pc \in {"expired", "deleted"}

LEMMA OutsideGrows ==
    ASSUME TypeOK, Users \/ TTLExpire \/ Informer \/ ControllerRestart
    PROVE  Moved /\ Grown /\ RecKept
<1>1. store \in Query /\ [store EXCEPT !.cancel = TRUE] \in Query
  BY DEF TypeOK, Query
<1>2. rec' \in {rec, Idle}
  BY DEF Users, UserCreate, UserCancel, UserEdit, UserDelete, TTLExpire, Informer,
         InformerDeliver, InformerRelist, InformerResync, RequeueTimer,
         ControllerRestart, ctl
<1>3. RecKept
  BY <1>2 DEF RecKept, Idle
<1>4. CASE UserCreate
  BY <1>3, <1>1, <1>4, CreateFacts, CommitBegins DEF UserCreate, Moved, Grown, ctl, Begins
<1>5. CASE UserCancel
  <2> DEFINE v == [store EXCEPT !.cancel = TRUE]
  <2>1. v \in Query /\ v.uid = store.uid /\ v.del = store.del /\ v.cancel
    BY <1>1 DEF Query
  <2>2. Commit(v)
    BY <1>5 DEF UserCancel
  <2>. HIDE DEF v
  <2>3. Committed /\ store'.rv = store.rv + 1 /\ Continues
    BY <1>1, <2>1, <2>2, CommitFacts, CommitContinues
  <2>. QED  BY <1>3, <1>5, <2>3 DEF UserCancel, Moved, Grown, ctl, counts
<1>6. CASE UserEdit
  BY <1>3, <1>1, <1>6, CommitFacts, CommitContinues DEF UserEdit, Moved, Grown, ctl
<1>7. CASE UserDelete
  BY <1>3, <1>1, <1>7, DeleteFacts, DeleteGrows DEF UserDelete, Moved, Grown, ctl, counts
<1>8. CASE TTLExpire
  BY <1>3, <1>8 DEF TTLExpire, Moved, Quiet, Grown, api, ctl, counts
<1>9. CASE Informer \/ ControllerRestart
  BY <1>3, <1>9
  DEF Informer, InformerDeliver, InformerRelist, InformerResync, RequeueTimer,
      ControllerRestart, Moved, Quiet, Relisted, Grown, api, counts
<1>. QED  BY <1>3, <1>4, <1>5, <1>6, <1>7, <1>8, <1>9 DEF Users

LEMMA ReconcileGrows ==
    ASSUME TypeOK, Reconcile
    PROVE  Moved /\ Grown /\ RecKept
<1>1. store \in Query /\ rec.obj \in Query
  BY DEF TypeOK, Pass
<1>2. cache' = cache /\ lastUid' = lastUid
  BY DEF Reconcile, FetchNotFound, FetchExpired, DeleteExpired, AddFinalizer, Finalize,
         InitConditions, HonourCancel, SeeTerminal, SetRunning, LeaveRunning,
         ReconcileUpdate, ReconcileStatus, ReconcileWrite, StartOperation,
         RecUnchanged, counts
<1>3. RecKept
  BY DEF Reconcile, FetchNotFound, FetchExpired, DeleteExpired, AddFinalizer, Finalize,
         InitConditions, HonourCancel, SeeTerminal, SetRunning, LeaveRunning,
         ReconcileUpdate, ReconcileStatus, ReconcileWrite, StartOperation,
         Return, Go, Idle, RecKept
<1>4. CASE UNCHANGED api
  BY <1>3, <1>2, <1>4 DEF api, Moved, Quiet, Grown
<1>5. CASE DeleteExpired
  <2>1. CASE CommitDelete
    BY <1>3, <1>1, <1>2, <2>1, DeleteFacts, DeleteGrows DEF Moved, Grown
  <2>. QED  BY <1>3, <1>4, <1>5, <2>1 DEF DeleteExpired
<1>6. CASE ReconcileUpdate
  <2>1. CASE CommitUpdate(rec.obj)
    BY <1>3, <1>1, <1>2, <2>1, UpdateFacts, UpdateGrows DEF Moved, Grown
  <2>. QED  BY <1>3, <1>4, <1>6, <2>1 DEF ReconcileUpdate
<1>7. CASE ReconcileWrite
  <2>1. CASE CommitStatus(rec.obj)
    BY <1>3, <1>1, <1>2, <2>1, StatusFacts, StatusContinues DEF Moved, Grown
  <2>. QED  BY <1>3, <1>4, <1>7, <2>1 DEF ReconcileWrite
<1>. QED  BY <1>3, <1>4, <1>5, <1>6, <1>7
          DEF Reconcile, FetchNotFound, FetchExpired, AddFinalizer, Finalize,
              InitConditions, HonourCancel, SeeTerminal, SetRunning, LeaveRunning,
              ReconcileStatus, StartOperation

LEMMA OperationGrows ==
    ASSUME TypeOK, NEW o \in Ops, Operation(o) \/ Engine(o)
    PROVE  Moved /\ Grown /\ RecKept
<1>1. store \in Query /\ ops[o].obj \in Query
  BY DEF TypeOK, Run
<1>2. cache' = cache /\ lastUid' = lastUid /\ rec' = rec
  BY DEF Operation, Engine, OpUnchanged, ctl, counts,
         OpResolveFail, OpSend, OpReply, OpFail, OpCanceled, OpPanic, OpUpdateStatus,
         OpWrite, OpWriteAborted, OpExit, EngineProvision, EngineRun
<1>3. RecKept
  BY <1>2 DEF RecKept
<1>4. CASE UNCHANGED api
  BY <1>3, <1>2, <1>4 DEF api, Moved, Quiet, Grown
<1>5. CASE Engine(o)
  <2>1. PICK phase \in Phases : PatchPhase(phase)
    BY <1>5 DEF Engine, EngineProvision, EngineRun, Phases
  <2>. QED  BY <1>1, <1>2, <1>3, <2>1, PatchFacts, PatchContinues DEF Moved, Grown
<1>6. CASE CommitStatus(ops[o].obj)
  BY <1>3, <1>1, <1>2, <1>6, StatusFacts, StatusContinues DEF Moved, Grown
<1>. QED  BY <1>3, <1>4, <1>5, <1>6
          DEF Operation, OpResolveFail, OpSend, OpReply, OpFail, OpCanceled, OpPanic,
              OpUpdateStatus, OpWrite, OpWriteAborted, OpExit

LEMMA StepGrows ==
    ASSUME TypeOK, Next
    PROVE  Moved /\ Grown /\ RecKept
BY OutsideGrows, ReconcileGrows, OperationGrows DEF Next

-----------------------------------------------------------------------------
(* The history of the name.                                                *)

LEMMA SeenType ==
    /\ TypeOK => \A q \in Seen : q \in Query
    /\ TypeOK' => \A q \in Seen' : q \in Query
<1>1. TypeOK => \A i \in DOMAIN watch : watch[i] \in Query
  <2>1. TypeOK => watch \in Seq(Query)
    BY DEF TypeOK
  <2>. QED  BY <2>1
<1>2. TypeOK' => \A i \in DOMAIN watch' : watch'[i] \in Query
  <2>1. TypeOK' => watch' \in Seq(Query)
    BY DEF TypeOK
  <2>. QED  BY <2>1
<1>. QED  BY <1>1, <1>2 DEF Seen, Copies, TypeOK, Pass

LEMMA SeenStep ==
    ASSUME FinalizerProtocol, Moved, RecKept
    PROVE  \A q \in Seen' : q \in Seen \/ q = store'
<1>1. \A q \in Copies' : q \in Copies \/ q = store'
  BY OrderedStep DEF FinalizerProtocol, Ordered
<1>2. cache \in Copies
  BY DEF Copies
<1>. QED  BY <1>1, <1>2 DEF Seen, RecKept

LEMMA HistoryStep ==
    ASSUME FinalizerProtocol, TypeOK', History, Moved, Grown, RecKept
    PROVE  History'
<1>1. \A q \in Seen' : q \in Seen \/ q = store'
  BY SeenStep
<1>2. /\ \A q \in Seen : q \in Query /\ q.rv \in Nat /\ q.uid \in Nat
      /\ \A q \in Seen' : q \in Query /\ q.rv \in Nat /\ q.uid \in Nat
  BY SeenType DEF FinalizerProtocol, Query
<1>3. store \in Seen /\ store' \in Seen' /\ cache \in Seen
  BY DEF Seen, Copies
<1>4. lastUid \in Nat /\ lastUid' \in Nat /\ lastUid <= lastUid'
  BY DEF Grown, FinalizerProtocol, TypeOK
<1>5. store' = store \/ store'.rv = store.rv + 1
  BY DEF Grown
<1>6. \A q \in Seen' : q.uid <= lastUid' /\ q.rv <= store'.rv
  <2>1. store'.uid <= lastUid'
    BY <1>2, <1>3, <1>4 DEF Grown, Begins, Continues, History
  <2>. QED  BY <1>1, <1>2, <1>3, <1>4, <1>5, <2>1 DEF History
<1>7. ASSUME NEW q \in Seen', NEW r \in Seen', q.rv <= r.rv
      PROVE  Follows(q, r)
  <2>1. CASE q \in Seen /\ r \in Seen
    BY <1>7, <2>1 DEF History
  <2>2. CASE q \in Seen /\ r = store'
    <3>1. Follows(q, store) /\ q.uid <= lastUid
      BY <1>2, <1>3, <2>2 DEF History
    <3>2. CASE store' = store
      BY <2>2, <3>1, <3>2
    <3>3. CASE store'.uid = 0
      BY <2>2, <3>3 DEF Follows, Exists
    <3>4. CASE Begins
      BY <1>2, <1>4, <2>2, <3>1, <3>4 DEF Follows, Begins
    <3>5. CASE Continues
      BY <2>2, <3>1, <3>5 DEF Follows, Continues, Exists
    <3>. QED  BY <3>2, <3>3, <3>4, <3>5 DEF Grown
  <2>3. CASE q = store' /\ q \notin Seen
    <3>1. store' # store /\ store'.rv = store.rv + 1
      BY <1>3, <1>5, <2>3
    <3>2. \A s \in Seen : s.rv < store'.rv
      BY <1>2, <1>3, <3>1 DEF History
    <3>3. r = store'
      BY <1>1, <1>2, <1>7, <2>3, <3>2
    <3>. QED  BY <1>2, <2>3, <3>3 DEF Follows
  <2>. QED  BY <1>1, <2>1, <2>2, <2>3
<1>8. rec'.pc \in {"expired", "deleted"} => Exists(rec'.obj)
  BY DEF RecKept, History
<1>. QED  BY <1>6, <1>7, <1>8 DEF History, Exists, Follows

\* The copy a reconcile decides on is the oldest one seen from then on.
LEMMA ObjOldest ==
    ASSUME FinalizerProtocol, History, Deciding
    PROVE  /\ Obj \in Seen /\ Obj \in Query /\ Exists(Obj)
           /\ \A q \in Copies \cup {store} : Follows(Obj, q)
<1>1. Known(Obj) /\ Obj \in Query
  BY ObjKnown
<1>2. cache \in Seen /\ \A q \in Copies \cup {store} : q \in Seen /\ q \in Query
  BY SeenType DEF Seen, Copies, FinalizerProtocol
<1>3. Obj \in Seen /\ Exists(Obj)
  BY <1>2 DEF Deciding, Fetched, Obj, Seen, History
<1>4. \A q \in Copies \cup {store} : Obj.rv <= q.rv
  <2>1. \A q \in Copies \cup {store} : cache.rv <= q.rv
    BY <1>2 DEF FinalizerProtocol, VersionOrder, Copies, Query
  <2>2. \A q \in Query : q.rv \in Nat
    BY DEF Query
  <2>3. Obj.rv <= cache.rv /\ cache \in Query
    BY <1>1 DEF Known, FinalizerProtocol, TypeOK
  <2>. QED  BY <1>1, <1>2, <2>1, <2>2, <2>3
<1>. QED  BY <1>1, <1>2, <1>3, <1>4 DEF History

-----------------------------------------------------------------------------
(* What a step does to the goroutines.                                     *)

Same(o) == /\ ops'[o].uid = ops[o].uid
           /\ ops'[o].pc = "none" <=> ops[o].pc = "none"
           /\ ops'[o].pc \in Pending \cup {"exit"} => Active(o)
Kept(o) == Same(o) /\ (ops'[o].pc \in Pending \cup {"exit"}
                         => ops'[o].canceled = ops[o].canceled)

LEMMA CancelRuns ==
    ASSUME TypeOK, CancelOperation
    PROVE  /\ operations' = NoOp
           /\ \A o \in Ops : Same(o) /\ (o # operations => Kept(o))
           /\ operations \in Ops /\ Active(operations) => ops'[operations].canceled
<1>1. ops \in [Ops -> Run] /\ operations' = NoOp
  BY DEF TypeOK, CancelOperation
<1>2. CASE operations = NoOp
  BY <1>1, <1>2, OpsAssumption DEF CancelOperation, Same, Kept, Active
<1>3. CASE operations # NoOp
  <2>1. ops' = [ops EXCEPT ![operations].canceled = TRUE]
    BY <1>3 DEF CancelOperation
  <2>2. ASSUME NEW o \in Ops
        PROVE  /\ ops'[o].uid = ops[o].uid /\ ops'[o].pc = ops[o].pc
               /\ o # operations => ops'[o] = ops[o]
               /\ o = operations => ops'[o].canceled
    <3>1. ops[o] \in Run
      BY <1>1
    <3>2. CASE o = operations
      <4>1. ops'[o] = [ops[o] EXCEPT !.canceled = TRUE]
        BY <1>1, <2>1, <3>2
      <4>. QED  BY <3>1, <3>2, <4>1 DEF Run
    <3>3. CASE o # operations
      BY <1>1, <2>1, <3>3
    <3>. QED  BY <3>2, <3>3
  <2>. QED  BY <1>1, <2>2 DEF Same, Kept, Active
<1>. QED  BY <1>2, <1>3

LEMMA StepRuns ==
    ASSUME TypeOK, NEW o \in Ops, NEW from, NEW run, Step(o, from, run),
           run.uid = ops[o].uid, run.canceled = ops[o].canceled \/ run.pc = "gone",
           run.pc # "none", "none" \notin from,
           run.pc \in Pending \cup {"exit"} => from \subseteq Pending \cup {"exit"}
    PROVE  \A p \in Ops : Kept(p)
<1>1. ops \in [Ops -> Run] /\ ops' = [ops EXCEPT ![o] = run] /\ ops[o].pc \in from
  BY DEF TypeOK, Step
<1>2. ASSUME NEW p \in Ops, p # o PROVE Kept(p)
  BY <1>1, <1>2 DEF Kept, Same, Active
<1>3. Kept(o)
  <2>1. ops'[o] = run
    BY <1>1
  <2>. QED  BY <1>1, <2>1 DEF Kept, Same, Active, Pending
<1>. QED  BY <1>2, <1>3, Zenon

Steady == operations' = operations /\ \A o \in Ops : Kept(o)

LEMMA OperationRuns ==
    ASSUME TypeOK, NEW o \in Ops, Operation(o) \/ Engine(o)
    PROVE  Steady \/ (OpExit(o) /\ \A p \in Ops : Kept(p))
<1>1. ops[o] \in Run
  BY DEF TypeOK
<1>2. /\ Leaving(o, "exit").pc = "exit" /\ Leaving(o, "exit").uid = ops[o].uid
      /\ Leaving(o, "exit").canceled = ops[o].canceled
      /\ Ended(o).pc = "gone" /\ Ended(o).uid = ops[o].uid
  BY DEF Leaving, Ended, NoRun
<1>3. \A pc : /\ At(o, pc).pc = pc /\ At(o, pc).uid = ops[o].uid
              /\ At(o, pc).canceled = ops[o].canceled
  BY <1>1 DEF At, Run
<1>4. \A phase, resp, tok :
        /\ Outcome(o, phase, resp, tok).pc = "report"
        /\ Outcome(o, phase, resp, tok).uid = ops[o].uid
        /\ Outcome(o, phase, resp, tok).canceled = ops[o].canceled
  BY <1>1 DEF Outcome, At, Run
<1>5. CASE Engine(o)
  BY <1>5 DEF Engine, EngineProvision, EngineRun, ctl, Steady, Kept, Same, Active
<1>6. CASE OpExit(o)
  BY <1>2, <1>6, StepRuns DEF OpExit, Pending
<1>7. CASE OpUpdateStatus(o)
  <2>1. \A obj : /\ [At(o, "write") EXCEPT !.obj = obj].pc = "write"
                 /\ [At(o, "write") EXCEPT !.obj = obj].uid = ops[o].uid
                 /\ [At(o, "write") EXCEPT !.obj = obj].canceled = ops[o].canceled
    BY <1>1 DEF At, Run
  <2>. QED  BY <1>2, <1>7, <2>1, StepRuns DEF OpUpdateStatus, Pending, Steady
<1>8. CASE OpResolveFail(o) \/ OpReply(o) \/ OpFail(o)
  BY <1>4, <1>8, StepRuns DEF OpResolveFail, OpReply, OpFail, Pending, Steady
<1>9. CASE OpSend(o)
  BY <1>3, <1>9, StepRuns DEF OpSend, Pending, Steady
<1>10. CASE OpCanceled(o) \/ OpPanic(o) \/ OpWrite(o) \/ OpWriteAborted(o)
  BY <1>2, <1>10, StepRuns
  DEF OpCanceled, OpPanic, OpWrite, OpWriteAborted, Pending, Steady
<1>. QED  BY <1>5, <1>6, <1>7, <1>8, <1>9, <1>10 DEF Operation

\* Every step leaves the map and the goroutines alone but for the four kinds the
\* argument is about.
LEMMA NextRuns ==
    ASSUME TypeOK, Next
    PROVE  \/ \E o \in Ops : StartOperation(o)
           \/ Finalize \/ HonourCancel
           \/ \E o \in Ops : OpExit(o) /\ \A p \in Ops : Kept(p)
           \/ ControllerRestart
           \/ Steady
<1>1. CASE operations' = operations /\ ops' = ops
  BY <1>1 DEF Steady, Kept, Same, Active
<1>2. CASE Users \/ TTLExpire \/ Informer
  BY <1>1, <1>2 DEF Users, UserCreate, UserCancel, UserEdit, UserDelete, TTLExpire,
       Informer, InformerDeliver, InformerRelist, InformerResync, RequeueTimer, ctl
<1>3. CASE Reconcile
  BY <1>1, <1>3
  DEF Reconcile, FetchNotFound, FetchExpired, DeleteExpired, AddFinalizer,
      InitConditions, SeeTerminal, SetRunning, LeaveRunning,
      ReconcileUpdate, ReconcileStatus, ReconcileWrite
<1>. QED  BY <1>2, <1>3, OperationRuns DEF Next

LEMMA RestartRuns ==
    ASSUME TypeOK, ControllerRestart
    PROVE  \A o \in Ops : Same(o) /\ ops'[o].pc \notin Pending \cup {"exit"}
<1>. SUFFICES ASSUME NEW o \in Ops
              PROVE  Same(o) /\ ops'[o].pc \notin Pending \cup {"exit"}
  OBVIOUS
<1>1. ops'[o] = IF ops[o].pc = "none" THEN ops[o] ELSE Ended(o)
  BY DEF ControllerRestart
<1>2. Ended(o).pc = "gone" /\ Ended(o).uid = ops[o].uid
  BY DEF Ended, NoRun
<1>. QED  BY <1>1, <1>2 DEF Same, Active, Pending

\* The goroutine a reconcile starts runs the query of the copy it decided on.
LEMMA StartRuns ==
    ASSUME FinalizerProtocol, NEW o \in Ops, StartOperation(o)
    PROVE  /\ operations = NoOp /\ operations' = o
           /\ Fetched /\ Obj = cache /\ ~cache.cancel /\ ~cache.del
           /\ ops[o].pc = "none" /\ ops'[o].pc = "dispatch"
           /\ ops'[o].uid = cache.uid /\ ops'[o].canceled = FALSE
           /\ \A p \in Ops \ {o} : ops'[p] = ops[p]
           /\ Copies' = Copies /\ store' = store /\ lastUid' = lastUid /\ rec' = Idle
<1>1. Fetched /\ Obj = cache
  BY ObjKnown DEF StartOperation, Running, NoCancel, InCharge
<1>2. ~cache.cancel /\ ~cache.del
  BY <1>1 DEF StartOperation, Running, NoCancel, InCharge, CancelWanted
<1>3. ops \in [Ops -> Run]
  BY DEF FinalizerProtocol, TypeOK
<1>4. ops' = [ops EXCEPT ![o] = [NoRun EXCEPT !.pc = "dispatch", !.uid = cache.uid,
                                   !.obj.resp = cache.resp, !.obj.tok = cache.tok]]
  BY <1>1 DEF StartOperation
<1>5. /\ ops'[o].pc = "dispatch" /\ ops'[o].uid = cache.uid
      /\ ops'[o].canceled = FALSE /\ \A p \in Ops \ {o} : ops'[p] = ops[p]
  BY <1>3, <1>4 DEF NoRun
<1>6. /\ store' = store /\ watch' = watch /\ cache' = cache /\ lastUid' = lastUid
      /\ rec' = Idle
  BY DEF StartOperation, RecUnchanged, Return, api, counts
<1>. QED  BY <1>1, <1>2, <1>5, <1>6 DEF StartOperation, Copies

-----------------------------------------------------------------------------
(* The parts of OneOperation that speak of the goroutines.                 *)

LEMMA LateStep ==
    ASSUME FinalizerProtocol, TypeOK', History, History', Late, Next
    PROVE  Late'
<1>1. Moved /\ Grown /\ RecKept
  BY StepGrows DEF FinalizerProtocol
<1>2. \A q \in Seen' : q \in Seen \/ q = store'
  BY <1>1, SeenStep
<1>3. /\ lastUid \in Nat /\ lastUid' \in Nat /\ lastUid <= lastUid'
      /\ \A o \in Ops : ops[o].uid \in Nat
      /\ store \in Query /\ store' \in Query /\ store.uid \in Nat /\ store \in Seen
  BY <1>1 DEF Grown, FinalizerProtocol, TypeOK, Run, Query, Seen
<1>4. ASSUME NEW o \in Ops, Same(o), Begun(o)'
      PROVE  /\ ops'[o].uid \in 1..lastUid'
             /\ \A q \in Seen' : Exists(q) => ops'[o].uid <= q.uid
  <2>1. Begun(o) /\ ops'[o].uid = ops[o].uid
    BY <1>4 DEF Same, Begun
  <2>2. ops[o].uid \in 1..lastUid /\ \A q \in Seen : Exists(q) => ops[o].uid <= q.uid
    BY <2>1 DEF Late
  <2>3. Exists(store') => ops[o].uid <= store'.uid
    BY <1>1, <1>3, <2>2 DEF Grown, Begins, Continues, Exists
  <2>. QED  BY <1>2, <1>3, <2>1, <2>2, <2>3
<1>5. CASE \A o \in Ops : Same(o)
  BY <1>4, <1>5 DEF Late, Exists
<1>6. CASE \E o \in Ops : StartOperation(o)
  <2>1. PICK o \in Ops : StartOperation(o)
    BY <1>6
  <2>2. Deciding /\ Obj = cache /\ ops'[o].uid = cache.uid
    BY <2>1, StartRuns DEF StartOperation, Running, NoCancel, InCharge
  <2>3. /\ cache \in Seen /\ cache \in Query /\ Exists(cache)
        /\ \A q \in Copies \cup {store} : Follows(cache, q)
    BY <2>2, ObjOldest
  <2>4. cache.uid \in 1..lastUid
    BY <1>3, <2>3 DEF History, Exists, Query
  <2>5. Seen' = Copies \cup {store}
    <3>1. Copies' = Copies /\ store' = store /\ rec' = Idle
      BY <2>1, StartRuns
    <3>2. rec'.pc = "idle"
      BY <3>1 DEF Idle
    <3>. QED  BY <3>1, <3>2 DEF Seen
  <2>6. /\ ops'[o].uid \in 1..lastUid'
        /\ \A q \in Seen' : Exists(q) => ops'[o].uid <= q.uid
    BY <1>3, <2>2, <2>3, <2>4, <2>5 DEF Follows
  <2>7. \A p \in Ops \ {o} : Same(p)
    BY <2>1, StartRuns DEF Same, Active
  <2>. QED  BY <1>4, <2>6, <2>7 DEF Late, Exists
<1>7. CASE ~\E o \in Ops : StartOperation(o)
  <2>1. CASE Finalize \/ HonourCancel
    BY <1>5, <2>1, CancelRuns DEF Finalize, HonourCancel, FinalizerProtocol
  <2>2. CASE ControllerRestart
    BY <1>5, <2>2, RestartRuns DEF FinalizerProtocol
  <2>3. CASE \A p \in Ops : Kept(p)
    BY <1>5, <2>3 DEF Kept
  <2>. QED  BY <1>7, <2>1, <2>2, <2>3, NextRuns DEF FinalizerProtocol, Steady
<1>. QED  BY <1>6, <1>7

\* The query of an operation that is canceled is the one the reconcile decided on.
LEMMA CanceledWithReason ==
    ASSUME FinalizerProtocol, Backend = "crd", History, Late, Deciding,
           Obj.cancel \/ Obj.del, operations \in Ops
    PROVE  \A q \in Copies \cup {store} :
              q.uid = ops[operations].uid => q.cancel \/ q.del
<1>1. /\ Obj \in Seen /\ Obj \in Query /\ Exists(Obj)
      /\ \A q \in Copies \cup {store} : Follows(Obj, q)
  BY ObjOldest
<1>2. Active(operations) /\ store.uid = ops[operations].uid
  BY OpsAssumption DEF FinalizerProtocol, RegisteredOperation, Active
<1>3. /\ ops[operations].uid \in 1..lastUid /\ ops[operations].uid <= Obj.uid
  BY <1>1, <1>2 DEF Late, Begun, Active, Pending
<1>4. Obj.uid = ops[operations].uid
  <2>1. Obj.uid \in Nat /\ store.uid \in Nat
    BY <1>1 DEF Query, FinalizerProtocol, TypeOK
  <2>2. store.uid # 0
    BY <1>2, <1>3
  <2>3. Obj.uid <= store.uid
    BY <1>1, <2>2 DEF Follows, Exists
  <2>. QED  BY <1>2, <1>3, <2>1, <2>3
<1>. QED  BY <1>1, <1>3, <1>4 DEF Follows, Exists

LEMMA OverruledStep ==
    ASSUME FinalizerProtocol, Backend = "crd", TypeOK', History, Late, Overruled, Next
    PROVE  Overruled'
<1>1. Moved /\ Grown /\ RecKept
  BY StepGrows DEF FinalizerProtocol
<1>2. \A q \in Seen' : q \in Seen \/ q = store'
  BY <1>1, SeenStep
<1>3. lastUid \in Nat /\ store \in Seen
  BY DEF FinalizerProtocol, TypeOK, Seen
<1>4. ASSUME NEW o \in Ops, Kept(o), Active(o)', ops'[o].canceled
      PROVE  \A q \in Seen' : q.uid = ops'[o].uid => q.cancel \/ q.del
  <2>1. Active(o) /\ ops[o].canceled /\ ops'[o].uid = ops[o].uid
    BY <1>4 DEF Kept, Same, Active
  <2>2. \A q \in Seen : q.uid = ops[o].uid => q.cancel \/ q.del
    BY <2>1 DEF Overruled
  <2>3. ops[o].uid \in 1..lastUid
    BY <2>1 DEF Late, Begun, Active, Pending
  <2>4. store'.uid = ops[o].uid => store'.cancel \/ store'.del
    BY <1>1, <1>3, <2>2, <2>3 DEF Grown, Begins, Continues
  <2>. QED  BY <1>2, <2>1, <2>2, <2>4
<1>5. CASE \A o \in Ops : Kept(o)
  BY <1>4, <1>5 DEF Overruled
<1>6. CASE \E o \in Ops : StartOperation(o)
  <2>1. PICK o \in Ops : StartOperation(o)
    BY <1>6
  <2>2. ~ops'[o].canceled /\ \A p \in Ops \ {o} : Kept(p)
    BY <2>1, StartRuns DEF Kept, Same, Active
  <2>. QED  BY <1>4, <2>2 DEF Overruled
<1>7. CASE Finalize \/ HonourCancel
  <2>1. CancelOperation /\ Deciding /\ (Obj.cancel \/ Obj.del) /\ UNCHANGED api
    BY <1>7 DEF Finalize, HonourCancel, InCharge, CancelWanted
  <2>2. \A o \in Ops : Same(o) /\ (o # operations => Kept(o))
    BY <2>1, CancelRuns DEF FinalizerProtocol
  <2>3. Seen' = Copies \cup {store}
    <3>1. rec'.pc \in {"update", "status"} /\ store' = store /\ watch' = watch
          /\ cache' = cache
      BY <1>7 DEF Finalize, HonourCancel, Go, RecUnchanged, api
    <3>. QED  BY <3>1 DEF Seen, Copies
  <2>4. operations \in Ops =>
          \A q \in Seen' : q.uid = ops'[operations].uid => q.cancel \/ q.del
    BY <2>1, <2>2, <2>3, CanceledWithReason DEF Same
  <2>. QED  BY <1>4, <2>2, <2>4 DEF Overruled
<1>8. CASE ControllerRestart
  BY <1>8, RestartRuns DEF FinalizerProtocol, Overruled, Active
<1>. QED  BY <1>5, <1>6, <1>7, <1>8, NextRuns DEF FinalizerProtocol, Steady

LEMMA SoleStep ==
    ASSUME FinalizerProtocol, Backend = "crd", History, Late, Overruled, Sole, Next
    PROVE  Sole'
<1>1. ASSUME NEW o \in Ops, \A p \in Ops : Same(p),
             Active(o)' => (ops[o].canceled => ops'[o].canceled), Lives(o)'
      PROVE  /\ Lives(o) /\ operations = o
             /\ \A p \in Ops \ {o} : Active(p)' => ops'[p].uid # ops'[o].uid
  <2>1. Active(o) /\ ~ops[o].canceled
    BY <1>1 DEF Lives, Active, Same
  <2>2. FirstOfName(o)
    BY <1>1 DEF Lives, FirstOfName, Same
  <2>3. Lives(o)
    BY <2>1, <2>2 DEF Lives
  <2>. QED  BY <1>1, <2>3 DEF Sole, Same, Active
<1>2. CASE Steady
  BY <1>1, <1>2 DEF Steady, Kept, Active, Sole
<1>3. CASE \E o \in Ops : StartOperation(o)
  <2>1. PICK o \in Ops : StartOperation(o)
    BY <1>3
  <2>2. /\ operations = NoOp /\ operations' = o /\ ops'[o].uid = cache.uid
        /\ ops[o].pc = "none" /\ ~cache.cancel /\ ~cache.del
        /\ \A p \in Ops \ {o} : ops'[p] = ops[p]
    BY <2>1, StartRuns
  <2>3. \A p \in Ops : ~Lives(p)
    BY <2>2, OpsAssumption DEF Sole
  <2>4. ASSUME NEW p \in Ops \ {o} PROVE ~Lives(p)'
    <3>1. Lives(p)' => Lives(p)
      BY <2>2 DEF Lives, Active, FirstOfName
    <3>. QED  BY <2>3, <3>1
  <2>5. ASSUME NEW p \in Ops \ {o}, Active(p)', ops'[p].uid = ops'[o].uid,
               FirstOfName(o)'
        PROVE  FALSE
    <3>1. Active(p) /\ ops[p].uid = cache.uid
      BY <2>2, <2>5 DEF Active
    <3>2. cache \in Seen
      BY DEF Seen, Copies
    <3>3. ~ops[p].canceled
      BY <2>2, <3>1, <3>2 DEF Overruled
    <3>4. FirstOfName(p)
      <4>1. \A r \in Ops : ops'[r].pc = "none" \/ ops'[r].uid >= cache.uid
        BY <2>2, <2>5 DEF FirstOfName
      <4>2. \A r \in Ops \ {o} : ops[r].pc = "none" \/ ops[r].uid >= cache.uid
        BY <2>2, <4>1
      <4>. QED  BY <2>2, <3>1, <4>2 DEF FirstOfName
    <3>. QED  BY <2>3, <3>1, <3>3, <3>4 DEF Lives
  <2>. QED  BY <2>2, <2>4, <2>5 DEF Sole, Lives, Active
<1>4. CASE Finalize \/ HonourCancel
  <2>1. /\ operations' = NoOp
        /\ \A o \in Ops : Same(o) /\ (o # operations => Kept(o))
        /\ operations \in Ops /\ Active(operations) => ops'[operations].canceled
    BY <1>4, CancelRuns DEF Finalize, HonourCancel, FinalizerProtocol
  <2>2. ASSUME NEW o \in Ops, Lives(o)' PROVE FALSE
    <3>1. Active(o)
      BY <2>1, <2>2 DEF Lives, Same, Active
    <3>2. Active(o)' => (ops[o].canceled => ops'[o].canceled)
      BY <2>1, <3>1 DEF Kept, Active
    <3>3. operations = o
      BY <1>1, <2>1, <2>2, <3>2
    <3>. QED  BY <2>1, <2>2, <3>1, <3>3 DEF Lives
  <2>. QED  BY <2>2 DEF Sole
<1>5. CASE \E p \in Ops : OpExit(p) /\ \A o \in Ops : Kept(o)
  <2>1. PICK p \in Ops : OpExit(p) /\ \A o \in Ops : Kept(o)
    BY <1>5
  <2>2. ASSUME NEW o \in Ops, Lives(o)' PROVE FALSE
    <3>1. Lives(o) /\ operations = o
      BY <1>1, <2>1, <2>2 DEF Kept, Active
    <3>2. ops[p].pc = "exit" /\ ops'[p].pc = "gone"
      BY <2>1 DEF OpExit, Step, Ended, NoRun, FinalizerProtocol, TypeOK
    <3>3. p # o
      BY <2>2, <3>2 DEF Lives, Active, Pending
    <3>4. store.uid = ops[o].uid
      BY <3>1, OpsAssumption DEF FinalizerProtocol, RegisteredOperation
    <3>5. ops[p].uid >= ops[o].uid
      BY <3>1, <3>2 DEF Lives, FirstOfName
    <3>6. /\ ops[o].uid \in 1..lastUid /\ ops[p].uid \in 1..lastUid
          /\ Exists(store) => ops[p].uid <= store.uid
      BY <3>1, <3>2 DEF Lives, Late, Begun, Active, Pending, Seen
    <3>7. ops[p].uid = ops[o].uid
      BY <3>4, <3>5, <3>6 DEF Exists, FinalizerProtocol, TypeOK
    <3>. QED  BY <3>1, <3>2, <3>3, <3>7 DEF Sole, Active
  <2>. QED  BY <2>2 DEF Sole
<1>6. CASE ControllerRestart
  BY <1>6, RestartRuns DEF FinalizerProtocol, Sole, Lives, Active
<1>. QED  BY <1>2, <1>3, <1>4, <1>5, <1>6, NextRuns DEF FinalizerProtocol

-----------------------------------------------------------------------------
\* The history of the name and its operations, as an invariant: see OneOperation.
THEOREM OneOperationHolds ==
    ASSUME Backend = "crd" PROVE Spec => []OneOperation
<1>1. Init => OneOperation
  <2>. SUFFICES ASSUME Init PROVE OneOperation
    OBVIOUS
  <2>1. /\ store = Absent(0) /\ cache = store /\ DOMAIN watch = {} /\ rec = Idle
        /\ \A o \in Ops : ops[o].pc = "none"
    BY DEF Init, NoRun
  <2>2. Seen = {store} /\ store.uid = 0 /\ store.rv = 0
    BY <2>1, AbsentFields DEF Seen, Copies, Idle
  <2>3. History
    BY <2>1, <2>2 DEF History, Follows, Exists, Idle, Init
  <2>. QED  BY <2>1, <2>3 DEF OneOperation, Late, Overruled, Sole, Lives, Begun,
                             Active, Pending
<1>2. FinalizerProtocol /\ FinalizerProtocol' /\ OneOperation /\ [Next]_vars
        => OneOperation'
  <2>. SUFFICES ASSUME FinalizerProtocol, FinalizerProtocol', OneOperation, [Next]_vars
                PROVE  OneOperation'
    OBVIOUS
  <2>1. CASE UNCHANGED vars
    BY <2>1 DEF vars, OneOperation, History, Late, Overruled, Sole, Lives, Begun,
                Active, Seen, Copies, Exists, FirstOfName
  <2>2. CASE Next
    <3>1. TypeOK /\ TypeOK' /\ Moved /\ Grown /\ RecKept
      BY <2>2, StepGrows DEF FinalizerProtocol
    <3>2. History'
      BY <3>1, HistoryStep DEF OneOperation
    <3>. QED  BY <2>2, <3>1, <3>2, LateStep, OverruledStep, SoleStep DEF OneOperation
  <2>. QED  BY <2>1, <2>2
<1>. QED  BY <1>1, <1>2, FinalizerProtocolHolds, PTL DEF Spec

\* Behind the CRD: only one goroutine works for a query, the one the operations
\* map knows, until the name is reused; so a cancel or a delete reaches it.
THEOREM WorkingOperationIsRegistered ==
    ASSUME Backend = "crd" PROVE Spec => []LiveOperationRegistered
<1>1. OneOperation => LiveOperationRegistered
  BY DEF OneOperation, Sole, Lives, Active, LiveOperationRegistered
<1>. QED  BY <1>1, OneOperationHolds, PTL
=============================================================================
