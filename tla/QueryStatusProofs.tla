-------------------------- MODULE QueryStatusProofs --------------------------
(***************************************************************************)
(* What the status of a query says, for every set of goroutines and all    *)
(* bounds: a query reported done carries a response and the token usage of *)
(* its execution, if its reply came with usage (both backends), and behind *)
(* the CRD no query ever shows the response of an earlier query of its     *)
(* name, and the controller never takes the phase of a query back.         *)
(***************************************************************************)
EXTENDS QueryControllerProofs

-----------------------------------------------------------------------------
(* Where the status of a committed version comes from.                     *)

StatusKept  == /\ store'.uid = store.uid
               /\ store'.resp = store.resp /\ store'.tok = store.tok
               /\ \/ store'.phase = store.phase
                  \/ store'.phase \in {"provisioning", "running"} /\ engine' # engine
StatusBlank == /\ store'.uid \in {0, lastUid + 1}
               /\ store'.resp = NoOp /\ store'.phase = "pending"
StatusFrom(w) == /\ AcceptsStatus(w) /\ store'.uid = store.uid
                 /\ store'.phase = w.phase /\ store'.resp = Sent(store.resp, w.resp)
                 /\ store'.tok = Sent(store.tok, w.tok)
Stored == \/ StatusKept \/ StatusBlank
          \/ rec.pc = "write" /\ StatusFrom(rec.obj)
          \/ \E o \in Ops : ops[o].pc = "write" /\ StatusFrom(ops[o].obj)

LEMMA CommitStored ==
    ASSUME store \in Query, NEW q \in Query, Commit(q)
    PROVE  /\ store'.uid = q.uid /\ store'.phase = q.phase
           /\ store'.resp = q.resp /\ store'.tok = q.tok
<1> DEFINE v == [q EXCEPT !.rv = store.rv + 1]
<1>1. v.uid = q.uid /\ v.phase = q.phase /\ v.resp = q.resp /\ v.tok = q.tok
  BY DEF Query
<1>2. store' = v
  BY DEF Commit
<1>. HIDE DEF v
<1>. QED  BY <1>1, <1>2

LEMMA CommitBlank ==
    ASSUME store \in Query, Commit(Absent(0))
    PROVE  StatusBlank
<1>1. /\ Absent(0) \in Query /\ Absent(0).uid = 0
      /\ Absent(0).resp = NoOp /\ Absent(0).phase = "pending"
  BY AbsentType DEF Absent
<1>. QED  BY <1>1, CommitStored DEF StatusBlank

LEMMA StatusStored ==
    ASSUME store \in Query, NEW w \in Query, AcceptsStatus(w), CommitStatus(w)
    PROVE  StatusFrom(w)
<1> DEFINE v == [store EXCEPT !.started = w.started, !.phase = w.phase,
                              !.resp = Sent(@, w.resp), !.tok = Sent(@, w.tok)]
<1>0. Sent(store.resp, w.resp) \in Ops \cup {NoOp} /\ Sent(store.tok, w.tok) \in Ops \cup {NoOp}
  BY DEF Query, Sent
<1>1. /\ v \in Query /\ v.uid = store.uid /\ v.phase = w.phase
      /\ v.resp = Sent(store.resp, w.resp) /\ v.tok = Sent(store.tok, w.tok)
  BY <1>0 DEF Query
<1>2. Commit(v)
  BY DEF CommitStatus
<1>. HIDE DEF v
<1>. QED  BY <1>1, <1>2, CommitStored DEF StatusFrom

LEMMA PatchStored ==
    ASSUME store \in Query, NEW phase \in {"provisioning", "running"},
           PatchPhase(phase), engine' # engine
    PROVE  StatusKept
<1> DEFINE v == [store EXCEPT !.started = TRUE, !.phase = phase]
<1>1. /\ v \in Query /\ v.uid = store.uid /\ v.phase = phase
      /\ v.resp = store.resp /\ v.tok = store.tok
  BY DEF Query, Phases
<1>2. CASE Commit(v)
  <2>. HIDE DEF v
  <2>. QED  BY <1>1, <1>2, CommitStored DEF StatusKept
<1>3. CASE UNCHANGED api
  BY <1>3 DEF api, StatusKept
<1>. QED  BY <1>2, <1>3 DEF PatchPhase

LEMMA UpdateStored ==
    ASSUME store \in Query, NEW w \in Query, CommitUpdate(w)
    PROVE  StatusKept \/ StatusBlank
<1> DEFINE v == [store EXCEPT !.fin = w.fin]
<1>1. /\ v \in Query /\ v.uid = store.uid /\ v.phase = store.phase
      /\ v.resp = store.resp /\ v.tok = store.tok
  BY DEF Query
<1>2. CASE Commit(v)
  <2>. HIDE DEF v
  <2>. QED  BY <1>1, <1>2, CommitStored DEF StatusKept
<1>3. CASE Commit(Absent(0))
  BY <1>3, CommitBlank
<1>. QED  BY <1>2, <1>3 DEF CommitUpdate

LEMMA DeleteStored ==
    ASSUME store \in Query, CommitDelete
    PROVE  StatusKept \/ StatusBlank
<1> DEFINE v == [store EXCEPT !.del = TRUE]
<1>1. /\ v \in Query /\ v.uid = store.uid /\ v.phase = store.phase
      /\ v.resp = store.resp /\ v.tok = store.tok
  BY DEF Query
<1>2. CASE Commit(v)
  <2>. HIDE DEF v
  <2>. QED  BY <1>1, <1>2, CommitStored DEF StatusKept
<1>3. CASE Commit(Absent(0))
  BY <1>3, CommitBlank
<1>4. CASE UNCHANGED api
  BY <1>4 DEF api, StatusKept
<1>. QED  BY <1>2, <1>3, <1>4 DEF CommitDelete

LEMMA UsersStored ==
    ASSUME TypeOK, Users
    PROVE  StatusKept \/ StatusBlank
<1>1. store \in Query /\ lastUid + 1 \in Nat /\ Absent(0) \in Query
  BY AbsentType DEF TypeOK
<1>2. CASE UserCreate
  <2> DEFINE v == [Absent(0) EXCEPT !.uid = lastUid + 1]
  <2>1. v \in Query /\ v.uid = lastUid + 1 /\ v.resp = NoOp /\ v.phase = "pending"
    <3>1. Absent(0).resp = NoOp /\ Absent(0).phase = "pending"
      BY DEF Absent
    <3>. QED  BY <1>1, <3>1 DEF Query
  <2>2. Commit(v)
    BY <1>2 DEF UserCreate
  <2>. HIDE DEF v
  <2>. QED  BY <1>1, <2>1, <2>2, CommitStored DEF StatusBlank
<1>3. CASE UserCancel
  <2> DEFINE v == [store EXCEPT !.cancel = TRUE]
  <2>1. /\ v \in Query /\ v.uid = store.uid /\ v.phase = store.phase
        /\ v.resp = store.resp /\ v.tok = store.tok
    BY <1>1 DEF Query
  <2>2. Commit(v)
    BY <1>3 DEF UserCancel
  <2>. HIDE DEF v
  <2>. QED  BY <1>1, <2>1, <2>2, CommitStored DEF StatusKept
<1>4. CASE UserEdit
  BY <1>1, <1>4, CommitStored DEF UserEdit, StatusKept
<1>5. CASE UserDelete
  BY <1>1, <1>5, DeleteStored DEF UserDelete
<1>. QED  BY <1>2, <1>3, <1>4, <1>5 DEF Users

LEMMA StepStored ==
    ASSUME TypeOK, Next
    PROVE  Stored
<1>1. store \in Query /\ rec.obj \in Query /\ \A o \in Ops : ops[o].obj \in Query
  BY DEF TypeOK, Pass, Run
<1>2. CASE store' = store
  BY <1>2 DEF Stored, StatusKept
<1>3. CASE Users
  BY <1>3, UsersStored DEF Stored
<1>4. CASE TTLExpire \/ Informer \/ ControllerRestart
  BY <1>2, <1>4 DEF TTLExpire, Informer, InformerDeliver, InformerRelist,
       InformerResync, RequeueTimer, ControllerRestart, api
<1>5. CASE Reconcile
  <2>1. CASE UNCHANGED api
    BY <1>2, <2>1 DEF api
  <2>2. CASE DeleteExpired
    BY <1>1, <2>1, <2>2, DeleteStored DEF DeleteExpired, Stored
  <2>3. CASE ReconcileUpdate
    BY <1>1, <2>1, <2>3, UpdateStored DEF ReconcileUpdate, Stored
  <2>4. CASE ReconcileWrite
    BY <1>1, <2>1, <2>4, StatusStored DEF ReconcileWrite, Stored
  <2>. QED  BY <1>5, <2>1, <2>2, <2>3, <2>4
            DEF Reconcile, FetchNotFound, FetchExpired, AddFinalizer, Finalize,
                InitConditions, HonourCancel, SeeTerminal, SetRunning, LeaveRunning,
                ReconcileStatus, StartOperation
<1>6. ASSUME NEW o \in Ops, Operation(o)
      PROVE  Stored
  <2>1. CASE UNCHANGED api
    BY <1>2, <2>1 DEF api
  <2>2. CASE OpWrite(o)
    BY <1>1, <2>1, <2>2, StatusStored DEF OpWrite, Step, Stored
  <2>. QED  BY <1>6, <2>1, <2>2
            DEF Operation, OpResolveFail, OpSend, OpReply, OpFail, OpCanceled, OpPanic,
                OpUpdateStatus, OpWriteAborted, OpExit
<1>7. ASSUME NEW o \in Ops, Engine(o)
      PROVE  Stored
  <2>1. engine' # engine
    <3>1. engine'[o] # engine[o]
      BY <1>7 DEF Engine, EngineProvision, EngineRun, TypeOK
    <3>. QED  BY <3>1
  <2>. QED  BY <1>1, <1>7, <2>1, PatchStored
            DEF Engine, EngineProvision, EngineRun, Stored
<1>. QED  BY <1>3, <1>4, <1>5, <1>6, <1>7 DEF Next

LEMMA RestoredFields ==
    ASSUME NEW c \in Query, NEW q \in Query, NEW phase
    PROVE  /\ Restored(c, q, phase).uid = c.uid /\ Restored(c, q, phase).rv = c.rv
           /\ Restored(c, q, phase).phase = phase /\ Restored(c, q, phase).tok = q.tok
           /\ Restored(c, q, phase).resp = IF q.resp = NoOp THEN c.resp ELSE q.resp
BY DEF Restored, Query

-----------------------------------------------------------------------------
(* How the reconcile and the goroutines come by what they write.           *)

Fixed == store' = store /\ watch' = watch /\ cache' = cache

\* The reconcile's copy with a first status, with a phase to set, and laid over
\* the cache.
Starts  == /\ rec'.pc = "write"
           /\ rec'.obj.uid = Obj.uid /\ rec'.obj.rv = Obj.rv
           /\ rec'.obj.phase = Obj.phase
           /\ rec'.obj.resp = Obj.resp /\ rec'.obj.tok = Obj.tok
Sets    == /\ rec'.pc = "status"
           /\ \/ HonourCancel /\ rec'.obj.phase = "canceled"
              \/ SetRunning /\ rec'.obj.phase = "running"
           /\ rec'.obj.uid = Obj.uid /\ rec'.obj.resp = Obj.resp
Renews  == /\ rec.pc = "status" /\ rec'.pc = "write" /\ Exists(cache)
           /\ rec'.obj = Restored(cache, rec.obj, rec.obj.phase)
RecMoves == \/ rec'.pc \in {"idle", "expired", "deleted", "update"} \/ rec' = rec
            \/ InCharge /\ Fixed /\ (Starts \/ Sets)
            \/ Fixed /\ Renews

LEMMA StepRec ==
    ASSUME TypeOK, Next
    PROVE  RecMoves
<1>1. CASE rec' \in {rec, Idle}
  BY <1>1 DEF RecMoves, Idle
<1>2. CASE Users \/ TTLExpire \/ Informer \/ ControllerRestart
  BY <1>1, <1>2 DEF Users, UserCreate, UserCancel, UserEdit, UserDelete, TTLExpire,
       Informer, InformerDeliver, InformerRelist, InformerResync, RequeueTimer,
       ControllerRestart, ctl
<1>3. ASSUME NEW o \in Ops, Operation(o) \/ Engine(o)
      PROVE  RecMoves
  BY <1>1, <1>3 DEF Operation, Engine, OpUnchanged, ctl, OpResolveFail, OpSend, OpReply,
       OpFail, OpCanceled, OpPanic, OpUpdateStatus, OpWrite, OpWriteAborted, OpExit,
       EngineProvision, EngineRun
<1>4. CASE Reconcile
  <2>1. Obj \in Query
    BY ObjType
  <2>2. CASE InitConditions
    <3>1. rec' = [pc |-> "write", obj |-> [Obj EXCEPT !.started = TRUE]] /\ Fixed
      BY <2>2 DEF InitConditions, Go, RecUnchanged, api, Fixed
    <3>. QED  BY <2>1, <2>2, <3>1 DEF InitConditions, RecMoves, Starts, Query
  <2>3. CASE HonourCancel
    <3>1. rec' = [pc |-> "status", obj |-> [Obj EXCEPT !.phase = "canceled"]] /\ Fixed
      BY <2>3 DEF HonourCancel, Go, RecUnchanged, api, Fixed
    <3>. QED  BY <2>1, <2>3, <3>1 DEF HonourCancel, RecMoves, Sets, Query
  <2>4. CASE SetRunning
    <3>1. rec' = [pc |-> "status", obj |-> [Obj EXCEPT !.phase = "running"]] /\ Fixed
      BY <2>4 DEF SetRunning, Go, RecUnchanged, api, Fixed
    <3>. QED  BY <2>1, <2>4, <3>1 DEF SetRunning, NoCancel, RecMoves, Sets, Query
  <2>5. CASE ReconcileStatus
    BY <1>1, <2>5 DEF ReconcileStatus, Go, RecUnchanged, api, Fixed, RecMoves, Renews
  <2>. QED  BY <1>1, <1>4, <2>2, <2>3, <2>4, <2>5
            DEF Reconcile, FetchNotFound, FetchExpired, DeleteExpired, AddFinalizer,
                Finalize, SeeTerminal, LeaveRunning, ReconcileUpdate, ReconcileWrite,
                StartOperation, Return, Go, RecMoves
<1>. QED  BY <1>2, <1>3, <1>4 DEF Next

\* A goroutine's status object: what it starts from, reports, and lays over the
\* cache.
Waits(o)   == /\ ops[o].pc = "dispatch" /\ ops'[o].pc = "waiting"
              /\ ops'[o].obj = ops[o].obj
Reports(o) == /\ ops[o].pc \in {"dispatch", "waiting"} /\ ops'[o].pc = "report"
              /\ ops'[o].obj.resp \in {ops[o].obj.resp, o}
              /\ ops'[o].phase \in {"done", "error"}
              /\ ops'[o].phase = "done" =>
                 /\ ops'[o].obj.resp = o
                 /\ ops'[o].obj.tok = o \/ engine'[o] = "unmetered"
Lays(o)    == /\ ops[o].pc = "report" /\ ops'[o].pc = "write"
              /\ ~CtxDone(o) /\ Exists(cache)
              /\ ops'[o].obj = Restored(cache, ops[o].obj, ops[o].phase)
Stays(o)   == /\ ops'[o].pc = ops[o].pc /\ ops'[o].obj = ops[o].obj
              /\ ops'[o].phase = ops[o].phase
RunMoves(o) == \/ ops'[o].pc \notin Pending \/ Stays(o)
               \/ StartOperation(o) \/ Waits(o) \/ Reports(o)
               \/ Fixed /\ Lays(o)

LEMMA OutcomeReports ==
    ASSUME TypeOK, NEW o \in Ops, NEW phase \in {"done", "error"},
           NEW resp \in {ops[o].obj.resp, o}, NEW tok,
           phase = "done" => resp = o /\ (tok = o \/ engine'[o] = "unmetered"),
           Step(o, {"dispatch", "waiting"}, Outcome(o, phase, resp, tok))
    PROVE  Reports(o)
<1> DEFINE obj == [ops[o].obj EXCEPT !.resp = resp, !.tok = tok]
<1>1. ops[o] \in Run /\ ops[o].obj \in Query /\ ops \in [Ops -> Run]
  BY DEF TypeOK, Run
<1>2. obj.resp = resp /\ obj.tok = tok
  BY <1>1 DEF Query
<1>3. Outcome(o, phase, resp, tok)
        = [[ops[o] EXCEPT !.pc = "report"] EXCEPT !.phase = phase, !.obj = obj]
  BY <1>1 DEF Outcome, At, Run, Query
<1>. HIDE DEF obj
<1>4. /\ Outcome(o, phase, resp, tok).pc = "report"
      /\ Outcome(o, phase, resp, tok).phase = phase
      /\ Outcome(o, phase, resp, tok).obj = obj
  BY <1>1, <1>3 DEF Run
<1>. QED  BY <1>1, <1>2, <1>4 DEF Step, Reports

LEMMA OperationMoves ==
    ASSUME TypeOK, NEW o \in Ops, Operation(o) \/ Engine(o)
    PROVE  \A p \in Ops : RunMoves(p)
<1>1. ops \in [Ops -> Run] /\ ops[o] \in Run /\ ops[o].obj \in Query
  BY DEF TypeOK, Run
<1>2. CASE Engine(o)
  BY <1>2 DEF Engine, EngineProvision, EngineRun, ctl, RunMoves, Stays
<1>3. CASE Operation(o)
  <2>1. \A p \in Ops \ {o} : ops'[p] = ops[p]
    BY <1>1, <1>3 DEF Step, Operation, OpResolveFail, OpSend, OpReply, OpFail, OpCanceled,
         OpPanic, OpUpdateStatus, OpWrite, OpWriteAborted, OpExit
  <2>2. \A p \in Ops \ {o} : RunMoves(p)
    BY <2>1 DEF RunMoves, Stays
  <2>3. RunMoves(o)
    <3>1. /\ Leaving(o, "exit").pc = "exit" /\ Ended(o).pc = "gone"
          /\ At(o, "waiting").pc = "waiting" /\ At(o, "waiting").obj = ops[o].obj
      BY <1>1 DEF Leaving, Ended, NoRun, At, Run
    <3>2. CASE OpExit(o) \/ OpCanceled(o) \/ OpPanic(o) \/ OpWrite(o) \/ OpWriteAborted(o)
      <4>1. ops'[o] \in {Leaving(o, "exit"), Ended(o)}
        BY <1>1, <3>2 DEF OpExit, OpCanceled, OpPanic, OpWrite, OpWriteAborted, Step
      <4>. QED  BY <3>1, <4>1 DEF RunMoves, Pending
    <3>3. CASE OpSend(o)
      <4>1. ops[o].pc = "dispatch" /\ ops'[o] = At(o, "waiting")
        BY <1>1, <3>3 DEF OpSend, Step
      <4>. QED  BY <3>1, <4>1 DEF RunMoves, Waits
    <3>4. CASE OpReply(o)
      <4>1. CASE Step(o, {"waiting"}, Outcome(o, "done", o, o))
        <5>1. Step(o, {"dispatch", "waiting"}, Outcome(o, "done", o, o))
          BY <4>1 DEF Step
        <5>. QED  BY <5>1, OutcomeReports DEF RunMoves
      <4>2. CASE /\ Step(o, {"waiting"}, Outcome(o, "done", o, ops[o].obj.tok))
                 /\ engine' = [engine EXCEPT ![o] = "unmetered"]
        <5>1. Step(o, {"dispatch", "waiting"}, Outcome(o, "done", o, ops[o].obj.tok))
          BY <4>2 DEF Step
        <5>2. engine'[o] = "unmetered"
          BY <4>2 DEF TypeOK
        <5>. QED  BY <5>1, <5>2, OutcomeReports DEF RunMoves
      <4>. QED  BY <3>4, <4>1, <4>2 DEF OpReply
    <3>5. CASE OpFail(o)
      BY <3>5, OutcomeReports DEF OpFail, RunMoves
    <3>6. CASE OpResolveFail(o)
      <4>1. Step(o, {"dispatch", "waiting"},
                 Outcome(o, "error", ops[o].obj.resp, ops[o].obj.tok))
        BY <3>6 DEF OpResolveFail, Step
      <4>. QED  BY <4>1, OutcomeReports DEF RunMoves
    <3>7. CASE OpUpdateStatus(o)
      <4>1. CASE CtxDone(o) \/ ~Exists(cache)
        <5>1. ops'[o] = Leaving(o, "exit")
          BY <1>1, <3>7, <4>1 DEF OpUpdateStatus, Step
        <5>. QED  BY <3>1, <5>1 DEF RunMoves, Pending
      <4>2. CASE ~CtxDone(o) /\ Exists(cache)
        <5> DEFINE obj == Restored(cache, ops[o].obj, ops[o].phase)
        <5>1. ops[o].pc = "report" /\ ops'[o] = [At(o, "write") EXCEPT !.obj = obj]
          BY <1>1, <3>7, <4>2 DEF OpUpdateStatus, Step
        <5>. HIDE DEF obj
        <5>2. ops'[o].pc = "write" /\ ops'[o].obj = obj
          BY <1>1, <5>1 DEF At, Run
        <5>3. Fixed
          BY <3>7 DEF OpUpdateStatus, OpUnchanged, api, Fixed
        <5>. QED  BY <4>2, <5>1, <5>2, <5>3 DEF RunMoves, Lays, obj
      <4>. QED  BY <4>1, <4>2
    <3>. QED  BY <1>3, <3>2, <3>3, <3>4, <3>5, <3>6, <3>7 DEF Operation
  <2>. QED  BY <2>2, <2>3, Zenon
<1>. QED  BY <1>2, <1>3, Zenon

LEMMA StepMoves ==
    ASSUME FinalizerProtocol, Next
    PROVE  \A p \in Ops : RunMoves(p)
<1>0. TypeOK /\ ops \in [Ops -> Run]
  BY DEF FinalizerProtocol, TypeOK
<1>1. CASE ops' = ops
  BY <1>1 DEF RunMoves, Stays
<1>2. CASE Users \/ TTLExpire \/ Informer
  BY <1>1, <1>2 DEF Users, UserCreate, UserCancel, UserEdit, UserDelete, TTLExpire,
       Informer, InformerDeliver, InformerRelist, InformerResync, RequeueTimer, ctl
<1>3. CASE ControllerRestart
  BY <1>0, <1>3, RestartRuns DEF RunMoves, Pending
<1>4. CASE \E o \in Ops : StartOperation(o)
  <2>1. PICK o \in Ops : StartOperation(o)
    BY <1>4
  <2>2. \A p \in Ops \ {o} : ops'[p] = ops[p]
    BY <2>1, StartRuns
  <2>. QED  BY <2>1, <2>2 DEF RunMoves, Stays
<1>5. CASE Finalize \/ HonourCancel
  <2>1. CASE operations = NoOp
    BY <1>1, <1>5, <2>1 DEF Finalize, HonourCancel, CancelOperation
  <2>2. CASE operations # NoOp
    <3>1. ops' = [ops EXCEPT ![operations].canceled = TRUE]
      BY <1>5, <2>2 DEF Finalize, HonourCancel, CancelOperation
    <3>2. \A p \in Ops : ops[p] \in Run
      BY <1>0
    <3>3. \A p \in Ops : ops'[p] \in {ops[p], [ops[p] EXCEPT !.canceled = TRUE]}
      BY <1>0, <3>1
    <3>. QED  BY <3>2, <3>3 DEF RunMoves, Stays, Run
  <2>. QED  BY <2>1, <2>2, Zenon
<1>6. CASE Reconcile
  BY <1>1, <1>4, <1>5, <1>6
  DEF Reconcile, FetchNotFound, FetchExpired, DeleteExpired, AddFinalizer,
      InitConditions, SeeTerminal, SetRunning, LeaveRunning,
      ReconcileUpdate, ReconcileStatus, ReconcileWrite
<1>. QED  BY <1>0, <1>2, <1>3, <1>6, OperationMoves, Zenon DEF Next

LEMMA BegunKept ==
    ASSUME FinalizerProtocol, Next
    PROVE  \A o \in Ops : Begun(o) => Begun(o)' /\ ops'[o].uid = ops[o].uid
<1>1. CASE \E o \in Ops : StartOperation(o)
  <2>1. PICK o \in Ops : StartOperation(o)
    BY <1>1
  <2>2. ops[o].pc = "none" /\ \A p \in Ops \ {o} : ops'[p] = ops[p]
    BY <2>1, StartRuns
  <2>. QED  BY <2>2 DEF Begun
<1>2. CASE \A o \in Ops : Same(o)
  BY <1>2 DEF Same, Begun
<1>3. CASE Finalize \/ HonourCancel
  BY <1>2, <1>3, CancelRuns DEF Finalize, HonourCancel, FinalizerProtocol
<1>4. CASE ControllerRestart
  BY <1>2, <1>4, RestartRuns DEF FinalizerProtocol
<1>5. CASE \A o \in Ops : Kept(o)
  BY <1>2, <1>5 DEF Kept
<1>. QED  BY <1>1, <1>3, <1>4, <1>5, NextRuns DEF FinalizerProtocol, Steady

\* Whether a reply came with usage is settled once it has come.
Fresh == \A o \in Ops : ops[o].pc \in {"none", "dispatch"} => engine[o] = "none"

LEMMA EngineStep ==
    ASSUME FinalizerProtocol, Fresh, Next
    PROVE  /\ Fresh'
           /\ \A o \in Ops : engine[o] = "unmetered" => engine'[o] = "unmetered"
<1>1. ops \in [Ops -> Run] /\ TypeOK
  BY DEF FinalizerProtocol, TypeOK
<1>2. ASSUME NEW o \in Ops, ops'[o].pc \in {"none", "dispatch"}
      PROVE  ops[o].pc \in {"none", "dispatch"}
  <2>1. RunMoves(o) /\ (ops[o].pc # "none" => ops'[o].pc # "none")
    BY StepMoves, BegunKept DEF Begun
  <2>2. CASE StartOperation(o)
    BY <2>2 DEF StartOperation
  <2>. QED  BY <1>2, <2>1, <2>2 DEF RunMoves, Stays, Waits, Reports, Lays, Pending
<1>3. CASE engine' = engine
  BY <1>2, <1>3 DEF Fresh
<1>4. ASSUME NEW o \in Ops, NEW status, engine' = [engine EXCEPT ![o] = status],
             ops'[o].pc \notin {"none", "dispatch"}, engine[o] # "unmetered"
      PROVE  /\ Fresh'
             /\ \A p \in Ops : engine[p] = "unmetered" => engine'[p] = "unmetered"
  <2>1. \A p \in Ops \ {o} : engine'[p] = engine[p]
    BY <1>1, <1>4 DEF TypeOK
  <2>. QED  BY <1>2, <1>4, <2>1 DEF Fresh
<1>5. ASSUME NEW o \in Ops, OpSend(o)
      PROVE  ops[o].pc = "dispatch" /\ ops'[o].pc = "waiting"
  BY <1>1, <1>5 DEF OpSend, Step, At, Run
<1>6. ASSUME NEW o \in Ops, OpReply(o)
      PROVE  ops'[o].pc = "report"
  BY <1>1, <1>6 DEF OpReply, Step, Outcome, At, Run
<1>7. ASSUME NEW o \in Ops, Engine(o)
      PROVE  /\ ops' = ops /\ engine[o] \in {"received", "provisioning"}
             /\ engine' \in {[engine EXCEPT ![o] = "provisioning"],
                             [engine EXCEPT ![o] = "running"]}
  BY <1>7 DEF Engine, EngineProvision, EngineRun, ctl
<1>8. ASSUME NEW o \in Ops, OpSend(o) \/ OpReply(o) \/ Engine(o)
      PROVE  /\ Fresh'
             /\ \A p \in Ops : engine[p] = "unmetered" => engine'[p] = "unmetered"
  <2>1. CASE OpSend(o)
    BY <1>4, <1>5, <2>1 DEF OpSend, Fresh
  <2>2. CASE OpReply(o)
    BY <1>4, <1>6, <2>2 DEF OpReply
  <2>3. CASE Engine(o)
    BY <1>4, <1>7, <2>3 DEF Fresh
  <2>. QED  BY <1>8, <2>1, <2>2, <2>3
<1>9. CASE Reconcile
  BY <1>3, <1>9
  DEF Reconcile, RecUnchanged, FetchNotFound, FetchExpired, DeleteExpired, AddFinalizer,
      Finalize, InitConditions, HonourCancel, SeeTerminal, SetRunning, LeaveRunning,
      ReconcileUpdate, ReconcileStatus, ReconcileWrite, StartOperation
<1>10. CASE Users \/ TTLExpire \/ Informer \/ ControllerRestart
  BY <1>3, <1>10 DEF Users, UserCreate, UserCancel, UserEdit, UserDelete, TTLExpire,
       Informer, InformerDeliver, InformerRelist, InformerResync, RequeueTimer,
       ControllerRestart, ctl
<1>11. ASSUME NEW o \in Ops, Operation(o)
       PROVE  OpSend(o) \/ OpReply(o) \/ engine' = engine
  BY <1>11 DEF Operation, OpResolveFail, OpFail, OpCanceled, OpPanic, OpUpdateStatus,
       OpWrite, OpWriteAborted, OpExit
<1>. QED  BY <1>3, <1>8, <1>9, <1>10, <1>11 DEF Next

-----------------------------------------------------------------------------
(* A query reported done carries one execution's response and usage.       *)

Metered(o, tok, e) == tok = o \/ e[o] = "unmetered"

Coherent(q, e) == q.phase = "done" => q.resp # NoOp /\ Metered(q.resp, q.tok, e)

\* Everything that is, was, or is about to be written is coherent.
AllCoherent ==
    /\ Fresh
    /\ \A q \in Copies \cup {store} : Coherent(q, engine)
    /\ rec.pc = "status" => rec.obj.phase # "done"
    /\ rec.pc \in {"expired", "deleted", "write"} => Coherent(rec.obj, engine)
    /\ \A o \in Ops :
        /\ ops[o].pc = "report" /\ ops[o].phase = "done" =>
             ops[o].obj.resp = o /\ Metered(o, ops[o].obj.tok, engine)
        /\ ops[o].pc = "write" => Coherent(ops[o].obj, engine)

LEMMA CoherentStep ==
    ASSUME FinalizerProtocol, AllCoherent, Next
    PROVE  AllCoherent'
<1>1. TypeOK /\ Moved /\ RecKept /\ Stored /\ RecMoves /\ \A o \in Ops : RunMoves(o)
  BY StepGrows, StepStored, StepRec, StepMoves DEF FinalizerProtocol
<1>2. cache \in Query /\ rec.obj \in Query /\ \A o \in Ops : ops[o].obj \in Query
  BY <1>1 DEF TypeOK, Pass, Run
<1>3. /\ Fresh' /\ \A o \in Ops : \A tok : Metered(o, tok, engine) => Metered(o, tok, engine')
      /\ \A q \in Query : Coherent(q, engine) => Coherent(q, engine')
  <2>1. Fresh' /\ \A o \in Ops : engine[o] = "unmetered" => engine'[o] = "unmetered"
    BY EngineStep DEF AllCoherent
  <2>. QED  BY <2>1 DEF Metered, Coherent, Query
<1>4. store \in Query /\ Coherent(cache, engine) /\ Coherent(store, engine)
  BY <1>1 DEF AllCoherent, Copies, TypeOK
<1>5. \A q \in Copies' \cup {store'} : Coherent(q, engine')
  <2>1. \A q \in Copies' : q \in Copies \/ q = store'
    BY <1>1, OrderedStep DEF FinalizerProtocol, Ordered
  <2>2. \A q \in Copies : q \in Query /\ Coherent(q, engine)
    BY <1>1 DEF AllCoherent, Copies, TypeOK
  <2>3. ASSUME NEW w \in Query, StatusFrom(w), Coherent(w, engine)
        PROVE  Coherent(store', engine')
    <3>1. store'.phase = w.phase /\ store'.resp = Sent(store.resp, w.resp)
          /\ store'.tok = Sent(store.tok, w.tok)
      BY <2>3 DEF StatusFrom
    <3>2. CASE w.phase = "done"
      <4>1. w.resp \in Ops /\ w.resp # NoOp /\ Metered(w.resp, w.tok, engine)
        BY <2>3, <3>2 DEF Coherent, Query
      <4>2. store'.resp = w.resp
        BY <3>1, <4>1 DEF Sent
      <4>3. store'.tok = w.tok \/ w.tok = NoOp
        BY <3>1 DEF Sent
      <4>4. engine'[w.resp] = "unmetered" \/ (w.tok = w.resp /\ w.tok # NoOp)
        BY <1>3, <4>1 DEF Metered
      <4>. QED  BY <4>1, <4>2, <4>3, <4>4 DEF Coherent, Metered
    <3>. QED  BY <3>1, <3>2 DEF Coherent
  <2>4. Coherent(store', engine')
    <3>1. CASE StatusKept
      <4>1. Coherent(store, engine')
        BY <1>3, <1>4
      <4>. QED  BY <3>1, <4>1 DEF StatusKept, Coherent, Metered
    <3>2. CASE StatusBlank
      BY <3>2 DEF StatusBlank, Coherent
    <3>3. CASE rec.pc = "write" /\ StatusFrom(rec.obj)
      BY <1>2, <2>3, <3>3 DEF AllCoherent
    <3>4. CASE \E o \in Ops : ops[o].pc = "write" /\ StatusFrom(ops[o].obj)
      BY <1>2, <2>3, <3>4 DEF AllCoherent
    <3>. QED  BY <1>1, <3>1, <3>2, <3>3, <3>4 DEF Stored
  <2>. QED  BY <1>3, <2>1, <2>2, <2>4
<1>6. /\ rec'.pc = "status" => rec'.obj.phase # "done"
      /\ rec'.pc \in {"expired", "deleted", "write"} => Coherent(rec'.obj, engine')
  <2>1. CASE rec'.pc \in {"idle", "expired", "deleted", "update"} \/ rec' = rec
    <3>1. rec.pc \in {"expired", "deleted", "write"} => Coherent(rec.obj, engine')
      BY <1>2, <1>3 DEF AllCoherent
    <3>2. Coherent(cache, engine')
      BY <1>2, <1>3, <1>4
    <3>. QED  BY <1>1, <2>1, <3>1, <3>2 DEF RecKept, AllCoherent
  <2>2. CASE InCharge /\ (Starts \/ Sets)
    <3>1. Obj \in Query /\ Coherent(Obj, engine)
      BY <1>1, <1>2, <1>4, <2>2, ObjType DEF InCharge, Deciding, Fetched, Obj, AllCoherent
    <3>2. Coherent(Obj, engine')
      BY <1>3, <3>1
    <3>3. CASE Starts
      BY <3>2, <3>3 DEF Starts, Coherent, Metered
    <3>4. CASE Sets
      BY <3>4 DEF Sets
    <3>. QED  BY <2>2, <3>3, <3>4
  <2>3. CASE Renews
    <3>1. rec.obj.phase # "done" /\ rec'.obj.phase = rec.obj.phase /\ rec'.pc = "write"
      BY <1>2, <2>3, RestoredFields DEF Renews, AllCoherent
    <3>. QED  BY <3>1 DEF Coherent
  <2>. QED  BY <1>1, <2>1, <2>2, <2>3 DEF RecMoves
<1>7. ASSUME NEW o \in Ops
      PROVE  /\ ops'[o].pc = "report" /\ ops'[o].phase = "done" =>
                  ops'[o].obj.resp = o /\ Metered(o, ops'[o].obj.tok, engine')
             /\ ops'[o].pc = "write" => Coherent(ops'[o].obj, engine')
  <2>1. CASE Stays(o)
    BY <1>2, <1>3, <2>1 DEF Stays, AllCoherent, Metered, Coherent
  <2>2. CASE StartOperation(o)
    BY <2>2, StartRuns
  <2>3. CASE Lays(o)
    <3>1. /\ ops'[o].obj.phase = ops[o].phase /\ ops'[o].obj.tok = ops[o].obj.tok
          /\ ops[o].obj.resp # NoOp => ops'[o].obj.resp = ops[o].obj.resp
      BY <1>2, <2>3, RestoredFields DEF Lays
    <3>2. ops[o].phase = "done" => ops[o].obj.resp = o /\ Metered(o, ops[o].obj.tok, engine)
      BY <2>3 DEF Lays, AllCoherent
    <3>3. ops[o].phase = "done" =>
              ops'[o].obj.resp = o /\ (ops'[o].obj.tok = o \/ engine'[o] = "unmetered")
      BY <1>3, <3>1, <3>2, OpsAssumption DEF Metered
    <3>. QED  BY <2>3, <3>1, <3>3, OpsAssumption DEF Lays, Coherent, Metered
  <2>4. CASE Waits(o) \/ ops'[o].pc \notin Pending
    BY <2>4 DEF Waits, Pending
  <2>5. CASE Reports(o)
    BY <2>5 DEF Reports, Metered
  <2>. QED  BY <1>1, <2>1, <2>2, <2>3, <2>4, <2>5 DEF RunMoves
<1>. QED  BY <1>3, <1>5, <1>6, <1>7 DEF AllCoherent, Coherent, Metered

\* With either backend, a query reported done has a response, and the token usage
\* is the one of the execution that gave it, however many executions raced, unless
\* the reply of that very execution came without usage.
THEOREM DoneCarriesItsResult == Spec => []DoneIsCoherent
<1>1. Init => AllCoherent
  <2>. SUFFICES ASSUME Init PROVE AllCoherent
    OBVIOUS
  <2>1. /\ store = Absent(0) /\ cache = store /\ DOMAIN watch = {} /\ rec.pc = "idle"
        /\ \A o \in Ops : ops[o].pc = "none" /\ engine[o] = "none"
    BY DEF Init, NoRun, Idle
  <2>2. store.phase = "pending" /\ Copies = {store}
    BY <2>1 DEF Absent, Copies
  <2>. QED  BY <2>1, <2>2 DEF AllCoherent, Coherent, Fresh
<1>2. FinalizerProtocol /\ AllCoherent /\ [Next]_vars => AllCoherent'
  <2>1. AllCoherent /\ UNCHANGED vars => AllCoherent'
    BY DEF vars, AllCoherent, Coherent, Copies, Fresh, Metered
  <2>. QED  BY <2>1, CoherentStep
<1>3. AllCoherent => DoneIsCoherent
  BY DEF AllCoherent, Coherent, DoneIsCoherent, Metered
<1>. QED  BY <1>1, <1>2, <1>3, FinalizerProtocolHolds, PTL DEF Spec

-----------------------------------------------------------------------------
(* Behind the CRD, a response stays with the query it was given to.         *)

\* The response is of an operation that, if it is of the name's first queries,
\* ran for the query uid.
Answers(resp, uid) ==
    \A o \in Ops : resp = o => Begun(o) /\ (FirstOfName(o) => ops[o].uid = uid)

Answered ==
    /\ \A q \in Seen : Answers(q.resp, q.uid)
    /\ rec.pc \in {"status", "write"} => Answers(rec.obj.resp, rec.obj.uid)
    /\ \A o \in Ops :
        /\ ops[o].pc \in {"dispatch", "waiting", "report"} =>
             Answers(ops[o].obj.resp, ops[o].uid)
        /\ ops[o].pc = "write" => Answers(ops[o].obj.resp, ops[o].obj.uid)

\* A status write is accepted only for the query its copy is of.
Current(w) == /\ w.rv <= store.rv
              /\ w.rv = store.rv /\ Exists(store) => w.uid = store.uid
Writes ==
    /\ rec.pc = "write" => Current(rec.obj)
    /\ \A o \in Ops : ops[o].pc = "write" => Current(ops[o].obj)

\* The finalizer holds the query a reconcile decided on until its status is laid
\* over the cache: what it finds there is the same query.
Held(q) == store.uid = q.uid /\ store.fin
Decided ==
    /\ rec.pc \in {"expired", "deleted"} /\ rec.obj.fin /\ ~rec.obj.del => Held(rec.obj)
    /\ rec.pc = "status" =>
         Held(rec.obj) /\ \A q \in Copies : Exists(q) => q.uid = rec.obj.uid

RightResponse == Answered /\ Writes /\ Decided

\* Only a reconcile's own update takes the finalizer away.
LEMMA FinKept ==
    ASSUME FinalizerProtocol, Backend = "crd", store.fin, Next, ~ReconcileUpdate
    PROVE  store'.uid = store.uid /\ store'.fin
<1>1. /\ store \in Query /\ rec.obj \in Query /\ Exists(store)
      /\ \A o \in Ops : ops[o].obj \in Query
  BY DEF FinalizerProtocol, FinalizerGuard, TypeOK, Pass, Run
<1>2. CASE UNCHANGED api
  BY <1>2 DEF api
<1>3. CASE SameObject
  BY <1>3 DEF SameObject
<1>4. CASE Users
  <2>1. CASE UserCancel
    <3> DEFINE v == [store EXCEPT !.cancel = TRUE]
    <3>1. v \in Query /\ v.uid = store.uid /\ v.fin = store.fin
      BY <1>1 DEF Query
    <3>2. Commit(v)
      BY <2>1 DEF UserCancel
    <3>. HIDE DEF v
    <3>. QED  BY <1>1, <3>1, <3>2, CommitFacts
  <2>2. CASE UserEdit
    BY <1>1, <2>2, CommitFacts DEF UserEdit
  <2>3. CASE UserDelete
    BY <1>1, <1>3, <2>3, DeleteFacts DEF UserDelete
  <2>. QED  BY <1>1, <1>4, <2>1, <2>2, <2>3 DEF Users, UserCreate
<1>5. CASE TTLExpire \/ Informer \/ ControllerRestart
  BY <1>5 DEF TTLExpire, Informer, InformerDeliver, InformerRelist,
       InformerResync, RequeueTimer, ControllerRestart, api
<1>6. CASE Reconcile
  <2>1. CASE DeleteExpired
    BY <1>1, <1>2, <1>3, <2>1, DeleteFacts DEF DeleteExpired
  <2>2. CASE ReconcileWrite
    BY <1>1, <1>2, <1>3, <2>2, StatusFacts DEF ReconcileWrite
  <2>. QED  BY <1>2, <1>6, <2>1, <2>2
            DEF Reconcile, FetchNotFound, FetchExpired, AddFinalizer, Finalize,
                InitConditions, HonourCancel, SeeTerminal, SetRunning, LeaveRunning,
                ReconcileStatus, StartOperation
<1>7. ASSUME NEW o \in Ops, Operation(o)
      PROVE  store'.uid = store.uid /\ store'.fin
  <2>1. CASE OpWrite(o)
    BY <1>1, <1>2, <1>3, <2>1, StatusFacts DEF OpWrite
  <2>. QED  BY <1>2, <1>7, <2>1
            DEF Operation, OpResolveFail, OpSend, OpReply, OpFail, OpCanceled, OpPanic,
                OpUpdateStatus, OpWriteAborted, OpExit
<1>8. ASSUME NEW o \in Ops, Engine(o)
      PROVE  store'.uid = store.uid /\ store'.fin
  BY <1>1, <1>3, <1>8, PatchFacts DEF Engine, EngineProvision, EngineRun, Phases
<1>. QED  BY <1>4, <1>5, <1>6, <1>7, <1>8 DEF Next

LEMMA DecidedStep ==
    ASSUME FinalizerProtocol, Backend = "crd", History, Decided, Next
    PROVE  Decided'
<1>1. TypeOK /\ Moved /\ Grown /\ RecKept /\ RecMoves
  BY StepGrows, StepRec DEF FinalizerProtocol
<1>2. rec'.pc # "idle" => ~ReconcileUpdate
  BY DEF ReconcileUpdate, Idle
<1>3. \A q : rec'.pc # "idle" /\ Held(q) => store'.uid = q.uid /\ store'.fin
  BY <1>2, FinKept DEF Held
<1>4. cache.fin /\ ~cache.del => Held(cache)
  BY DEF FinalizerProtocol, FinalizerGuard, Copies, Held
<1>5. CASE rec'.pc \in {"expired", "deleted"}
  <2>1. CASE rec'.obj = cache
    BY <1>3, <1>4, <1>5, <2>1 DEF Decided, Held
  <2>2. CASE rec'.obj = rec.obj /\ rec.pc \in {"expired", "deleted"}
    BY <1>3, <1>5, <2>2 DEF Decided, Held
  <2>. QED  BY <1>1, <1>5, <2>1, <2>2 DEF RecKept
<1>6. CASE rec' = rec /\ rec.pc = "status"
  <2>1. \A q \in Copies' : q \in Copies \/ q = store'
    BY <1>1, OrderedStep DEF FinalizerProtocol, Ordered
  <2>2. store'.uid = rec.obj.uid /\ store'.fin
    BY <1>3, <1>6 DEF Decided
  <2>3. \A q \in Copies' : Exists(q) => q.uid = rec.obj.uid
    BY <1>6, <2>1, <2>2 DEF Decided
  <2>. QED  BY <1>6, <2>2, <2>3 DEF Decided, Held, Exists
<1>7. CASE InCharge /\ Fixed /\ Sets
  <2>1. /\ Obj \in Seen /\ Obj \in Query /\ Exists(Obj)
        /\ \A q \in Copies \cup {store} : Follows(Obj, q)
    BY <1>7, ObjOldest DEF InCharge
  <2>2. Held(Obj)
    BY <1>4, <1>7 DEF InCharge, Deciding, Fetched, Obj, Decided
  <2>3. \A q \in Copies : q \in Seen /\ q \in Query /\ store \in Seen
    BY <1>1, SeenType DEF Seen
  <2>4. ASSUME NEW q \in Copies, Exists(q)
        PROVE  q.uid = Obj.uid
    <3>1. Follows(q, store)
      BY <2>3 DEF History
    <3>2. Exists(store) /\ store.uid = Obj.uid
      BY <2>1, <2>2 DEF Held, Exists
    <3>3. q.uid <= Obj.uid /\ Obj.uid <= q.uid
      BY <2>1, <2>4, <3>1, <3>2 DEF Follows
    <3>. QED  BY <2>1, <2>3, <3>3 DEF Query
  <2>5. Copies' = Copies /\ store' = store
    BY <1>7 DEF Fixed, Copies
  <2>6. rec'.pc = "status" /\ rec'.obj.uid = Obj.uid
    BY <1>7 DEF Sets
  <2>. QED  BY <2>2, <2>4, <2>5, <2>6 DEF Decided, Held, Exists
<1>8. CASE rec'.pc \notin {"expired", "deleted", "status"}
  BY <1>8 DEF Decided
<1>. QED  BY <1>1, <1>5, <1>6, <1>7, <1>8 DEF RecMoves, Starts, Renews

LEMMA SeenCurrent ==
    ASSUME FinalizerProtocol, History
    PROVE  \A q \in Seen : Exists(q) => Current(q)
<1>1. store \in Seen /\ \A q \in Seen : q.uid \in Nat /\ q.rv \in Nat
  BY SeenType DEF Seen, FinalizerProtocol, Query
<1>2. \A q \in Seen : Exists(q) /\ Exists(store) /\ q.rv = store.rv =>
        q.uid <= store.uid /\ store.uid <= q.uid
  BY <1>1 DEF History, Follows
<1>. QED  BY <1>1, <1>2 DEF History, Current

LEMMA WritesStep ==
    ASSUME FinalizerProtocol, TypeOK', History, Writes, Next
    PROVE  Writes'
<1>1. TypeOK /\ Grown /\ RecMoves /\ \A o \in Ops : RunMoves(o)
  BY StepGrows, StepRec, StepMoves DEF FinalizerProtocol
<1>2. /\ cache \in Query /\ rec.obj \in Query /\ \A o \in Ops : ops[o].obj \in Query
      /\ \A q \in Query : q.rv \in Nat
      /\ rec'.obj \in Query /\ \A o \in Ops : ops'[o].obj \in Query
      /\ store.rv \in Nat /\ store'.rv \in Nat
  BY <1>1 DEF TypeOK, Pass, Run, Query
<1>3. \A w \in Query : Current(w) =>
        /\ w.rv <= store'.rv
        /\ w.rv = store'.rv /\ store'.uid # 0 => w.uid = store'.uid
  BY <1>1, <1>2 DEF Grown, Current, Exists
<1>4. Exists(cache) => Current(cache)
  BY SeenCurrent DEF Seen, Copies
<1>5. \A w, c : Fixed /\ Current(c) /\ w.uid = c.uid /\ w.rv = c.rv =>
        /\ w.rv <= store'.rv
        /\ w.rv = store'.rv /\ store'.uid # 0 => w.uid = store'.uid
  BY DEF Fixed, Current, Exists
<1>6. rec'.pc = "write" =>
        /\ rec'.obj.rv <= store'.rv
        /\ rec'.obj.rv = store'.rv /\ store'.uid # 0 => rec'.obj.uid = store'.uid
  <2>1. CASE rec' = rec
    BY <1>2, <1>3, <2>1 DEF Writes
  <2>2. CASE InCharge /\ Fixed /\ Starts
    <3>1. Current(Obj)
      BY <2>2, ObjOldest, SeenCurrent DEF InCharge
    <3>. QED  BY <1>5, <2>2, <3>1 DEF Starts
  <2>3. CASE Fixed /\ Renews
    <3>1. Current(cache) /\ rec'.obj.uid = cache.uid /\ rec'.obj.rv = cache.rv
      BY <1>2, <1>4, <2>3, RestoredFields DEF Renews
    <3>. QED  BY <1>5, <2>3, <3>1
  <2>. QED  BY <1>1, <2>1, <2>2, <2>3 DEF RecMoves, Sets
<1>7. ASSUME NEW o \in Ops, ops'[o].pc = "write"
      PROVE  /\ ops'[o].obj.rv <= store'.rv
             /\ ops'[o].obj.rv = store'.rv /\ store'.uid # 0 =>
                  ops'[o].obj.uid = store'.uid
  <2>1. CASE Stays(o)
    BY <1>2, <1>3, <1>7, <2>1 DEF Stays, Writes
  <2>2. CASE StartOperation(o)
    BY <1>7, <2>2, StartRuns
  <2>3. CASE Fixed /\ Lays(o)
    <3>1. Current(cache) /\ ops'[o].obj.uid = cache.uid /\ ops'[o].obj.rv = cache.rv
      BY <1>2, <1>4, <2>3, RestoredFields DEF Lays
    <3>. QED  BY <1>5, <2>3, <3>1
  <2>. QED  BY <1>1, <1>7, <2>1, <2>2, <2>3 DEF RunMoves, Waits, Reports, Pending
<1>. QED  BY <1>6, <1>7 DEF Writes, Current, Exists

\* Answers in the next state, of a response and a uid of either state.
AnswersNext(resp, uid) ==
    \A o \in Ops : resp = o =>
        Begun(o)' /\ (FirstOfName(o)' => ops'[o].uid = uid)

LEMMA AnswersKept ==
    ASSUME FinalizerProtocol, Next, NEW resp, NEW uid, Answers(resp, uid)
    PROVE  AnswersNext(resp, uid)
<1>1. \A o \in Ops : Begun(o) => Begun(o)' /\ ops'[o].uid = ops[o].uid
  BY BegunKept
<1>. SUFFICES ASSUME NEW o \in Ops, resp = o
              PROVE  Begun(o)' /\ (FirstOfName(o)' => ops'[o].uid = uid)
  BY DEF AnswersNext
<1>2. Begun(o) /\ (FirstOfName(o) => ops[o].uid = uid)
  BY DEF Answers
<1>3. FirstOfName(o)' => FirstOfName(o)
  BY <1>1, <1>2 DEF FirstOfName, Begun
<1>. QED  BY <1>1, <1>2, <1>3

\* A goroutine that is neither canceled nor of a later query finds its own query
\* in the cache: the finalizer keeps it from going away.
LEMMA OwnQueryInCache ==
    ASSUME FinalizerProtocol, Backend = "crd", OneOperation, NEW o \in Ops,
           Lives(o), Exists(cache)
    PROVE  cache.uid = ops[o].uid
<1>1. operations = o /\ Active(o)
  BY DEF OneOperation, Sole, Lives
<1>2. store.uid = ops[o].uid
  BY <1>1, OpsAssumption DEF FinalizerProtocol, RegisteredOperation
<1>3. /\ cache \in Seen /\ store \in Seen /\ cache.rv <= store.rv
      /\ cache.uid \in Nat /\ store.uid \in Nat
  BY DEF Seen, Copies, FinalizerProtocol, VersionOrder, TypeOK, Query
<1>4. ops[o].uid \in 1..lastUid /\ ops[o].uid <= cache.uid
  BY <1>1, <1>3 DEF OneOperation, Late, Begun, Active, Pending
<1>5. Exists(store)
  BY <1>2, <1>4 DEF Exists
<1>6. cache.uid <= store.uid
  BY <1>3, <1>5 DEF OneOperation, History, Follows
<1>. QED  BY <1>2, <1>3, <1>4, <1>6

\* What the answers of Answered become, by who holds them.
LEMMA SeenAnswers ==
    ASSUME FinalizerProtocol, Backend = "crd", RightResponse, Next
    PROVE  \A q \in Seen' : AnswersNext(q.resp, q.uid)
<1>1. Moved /\ RecKept /\ Stored
  BY StepGrows, StepStored DEF FinalizerProtocol
<1>2. \A q \in Seen' : q \in Seen \/ q = store'
  BY <1>1, SeenStep
<1>3. ASSUME NEW q \in Seen
      PROVE  AnswersNext(q.resp, q.uid)
  BY AnswersKept DEF RightResponse, Answered
<1>4. AnswersNext(store'.resp, store'.uid)
  <2>1. CASE StatusKept
    <3>1. AnswersNext(store.resp, store.uid)
      BY <1>3 DEF Seen
    <3>. QED  BY <2>1, <3>1 DEF StatusKept
  <2>2. CASE StatusBlank
    BY <2>2, OpsAssumption DEF StatusBlank, AnswersNext
  <2>3. ASSUME NEW w, StatusFrom(w), Current(w), Answers(w.resp, w.uid)
        PROVE  AnswersNext(store'.resp, store'.uid)
    <3>1. w.uid = store'.uid /\ w.resp = store'.resp
      BY <2>3 DEF StatusFrom, AcceptsStatus, Current, Sent
    <3>2. AnswersNext(w.resp, w.uid)
      BY <2>3, AnswersKept
    <3>. QED  BY <3>1, <3>2
  <2>4. CASE rec.pc = "write" /\ StatusFrom(rec.obj)
    BY <2>3, <2>4 DEF RightResponse, Answered, Writes
  <2>5. CASE \E o \in Ops : ops[o].pc = "write" /\ StatusFrom(ops[o].obj)
    BY <2>3, <2>5 DEF RightResponse, Answered, Writes
  <2>. QED  BY <1>1, <2>1, <2>2, <2>4, <2>5 DEF Stored
<1>. QED  BY <1>2, <1>3, <1>4

LEMMA RecAnswers ==
    ASSUME FinalizerProtocol, Backend = "crd", OneOperation, RightResponse, Next,
           rec'.pc \in {"status", "write"}
    PROVE  AnswersNext(rec'.obj.resp, rec'.obj.uid)
<1>1. RecMoves /\ cache \in Query /\ rec.obj \in Query
  BY StepRec DEF FinalizerProtocol, TypeOK, Pass
<1>2. ASSUME NEW resp, NEW uid, Answers(resp, uid),
             rec'.obj.resp = resp, rec'.obj.uid = uid
      PROVE  AnswersNext(rec'.obj.resp, rec'.obj.uid)
  <2>1. AnswersNext(resp, uid)
    BY <1>2, AnswersKept
  <2>. QED  BY <1>2, <2>1
<1>3. CASE rec' = rec
  BY <1>2, <1>3 DEF RightResponse, Answered
<1>4. CASE InCharge /\ (Starts \/ Sets)
  <2>1. Answers(Obj.resp, Obj.uid)
    BY <1>4, ObjOldest DEF InCharge, RightResponse, Answered, OneOperation
  <2>. QED  BY <1>2, <1>4, <2>1 DEF Starts, Sets
<1>5. CASE Renews
  <2>1. /\ rec'.obj.uid = cache.uid
        /\ rec'.obj.resp = IF rec.obj.resp = NoOp THEN cache.resp ELSE rec.obj.resp
    BY <1>1, <1>5, RestoredFields DEF Renews
  <2>2. Answers(cache.resp, cache.uid)
    BY DEF RightResponse, Answered, Seen, Copies
  <2>3. cache.uid = rec.obj.uid /\ Answers(rec.obj.resp, rec.obj.uid)
    BY <1>5 DEF Renews, RightResponse, Answered, Decided, Copies
  <2>. QED  BY <1>2, <2>1, <2>2, <2>3
<1>. QED  BY <1>1, <1>3, <1>4, <1>5 DEF RecMoves

LEMMA RunAnswers ==
    ASSUME FinalizerProtocol, Backend = "crd", OneOperation, RightResponse, Next,
           NEW o \in Ops
    PROVE  /\ ops'[o].pc \in {"dispatch", "waiting", "report"} =>
                AnswersNext(ops'[o].obj.resp, ops'[o].uid)
           /\ ops'[o].pc = "write" => AnswersNext(ops'[o].obj.resp, ops'[o].obj.uid)
<1>1. /\ RunMoves(o) /\ cache \in Query /\ ops[o] \in Run /\ ops[o].obj \in Query
      /\ Begun(o) => Begun(o)' /\ ops'[o].uid = ops[o].uid
  BY StepMoves, BegunKept DEF FinalizerProtocol, TypeOK, Run
<1>2. \A resp, uid : Answers(resp, uid) => AnswersNext(resp, uid)
  BY AnswersKept
<1>3. CASE Stays(o)
  <2>1. ops[o].pc # "none" => ops'[o].uid = ops[o].uid
    BY <1>1 DEF Begun
  <2>2. /\ ops[o].pc \in {"dispatch", "waiting", "report"} =>
             AnswersNext(ops[o].obj.resp, ops[o].uid)
        /\ ops[o].pc = "write" => AnswersNext(ops[o].obj.resp, ops[o].obj.uid)
    BY <1>2 DEF RightResponse, Answered
  <2>. QED  BY <1>3, <2>1, <2>2 DEF Stays
<1>4. CASE StartOperation(o)
  <2>1. /\ ops'[o].pc = "dispatch" /\ ops'[o].uid = cache.uid
        /\ ops'[o].obj.resp = cache.resp
    <3>1. Obj = cache /\ ops'[o].pc = "dispatch" /\ ops'[o].uid = cache.uid
      BY <1>4, StartRuns
    <3>2. ops' = [ops EXCEPT ![o] = [NoRun EXCEPT !.pc = "dispatch", !.uid = cache.uid,
                                       !.obj.resp = cache.resp, !.obj.tok = cache.tok]]
      BY <1>4, <3>1 DEF StartOperation
    <3>3. ops'[o].obj.resp = cache.resp
      BY <3>2 DEF NoRun, Absent, FinalizerProtocol, TypeOK
    <3>. QED  BY <3>1, <3>3
  <2>2. AnswersNext(cache.resp, cache.uid)
    BY <1>2 DEF RightResponse, Answered, Seen, Copies
  <2>. QED  BY <2>1, <2>2
<1>5. CASE Waits(o) \/ Reports(o)
  <2>1. /\ ops[o].pc \in {"dispatch", "waiting"} /\ ops'[o].pc \in {"waiting", "report"}
        /\ ops'[o].obj.resp \in {ops[o].obj.resp, o}
    BY <1>5 DEF Waits, Reports
  <2>2. Begun(o)' /\ ops'[o].uid = ops[o].uid
    BY <1>1, <2>1 DEF Begun
  <2>3. AnswersNext(ops[o].obj.resp, ops[o].uid)
    BY <1>2, <2>1 DEF RightResponse, Answered
  <2>. QED  BY <2>1, <2>2, <2>3 DEF AnswersNext
<1>6. CASE Lays(o)
  <2>1. /\ ops[o].pc = "report" /\ ~ops[o].canceled /\ Exists(cache)
        /\ ops'[o].pc = "write" /\ ops'[o].obj.uid = cache.uid
        /\ ops'[o].obj.resp = IF ops[o].obj.resp = NoOp THEN cache.resp
                                                      ELSE ops[o].obj.resp
    BY <1>1, <1>6, RestoredFields DEF Lays, CtxDone
  <2>2. Answers(cache.resp, cache.uid)
    BY DEF RightResponse, Answered, Seen, Copies
  <2>3. Answers(ops[o].obj.resp, cache.uid)
    <3>1. Answers(ops[o].obj.resp, ops[o].uid)
      BY <2>1 DEF RightResponse, Answered
    <3>2. ASSUME NEW r \in Ops, FirstOfName(r), ops[r].uid = ops[o].uid
          PROVE  ops[r].uid = cache.uid
      <4>1. Lives(o)
        BY <2>1, <3>2 DEF Lives, Active, Pending, FirstOfName
      <4>. QED  BY <2>1, <3>2, <4>1, OwnQueryInCache
    <3>. QED  BY <3>1, <3>2 DEF Answers
  <2>4. AnswersNext(cache.resp, cache.uid) /\ AnswersNext(ops[o].obj.resp, cache.uid)
    BY <2>2, <2>3, AnswersKept
  <2>. QED  BY <2>1, <2>4
<1>7. CASE ops'[o].pc \notin Pending
  BY <1>7 DEF Pending
<1>. QED  BY <1>1, <1>3, <1>4, <1>5, <1>6, <1>7 DEF RunMoves

\* Where responses are, as an invariant: see RightResponse.
THEOREM RightResponseHolds ==
    ASSUME Backend = "crd" PROVE Spec => []RightResponse
<1>1. Init => RightResponse
  <2>. SUFFICES ASSUME Init PROVE RightResponse
    OBVIOUS
  <2>1. /\ store = Absent(0) /\ cache = store /\ DOMAIN watch = {} /\ rec.pc = "idle"
        /\ \A o \in Ops : ops[o].pc = "none"
    BY DEF Init, NoRun, Idle
  <2>2. store.resp = NoOp /\ Seen = {store}
    BY <2>1 DEF Absent, Seen, Copies
  <2>. QED  BY <2>1, <2>2, OpsAssumption
            DEF RightResponse, Answered, Answers, Writes, Decided
<1>2. FinalizerProtocol /\ FinalizerProtocol' /\ OneOperation /\ RightResponse
        /\ [Next]_vars => RightResponse'
  <2>. SUFFICES ASSUME FinalizerProtocol, FinalizerProtocol', OneOperation,
                       RightResponse, [Next]_vars
                PROVE  RightResponse'
    OBVIOUS
  <2>1. CASE UNCHANGED vars
    BY <2>1 DEF vars, RightResponse, Answered, Answers, Writes, Decided, Held, Current,
                Seen, Copies, Exists, Begun, FirstOfName
  <2>2. CASE Next
    <3>1. Answered'
      BY <2>2, SeenAnswers, RecAnswers, RunAnswers
      DEF Answered, Answers, AnswersNext
    <3>2. Writes' /\ Decided'
      BY <2>2, WritesStep, DecidedStep DEF RightResponse, OneOperation, FinalizerProtocol
    <3>. QED  BY <3>1, <3>2 DEF RightResponse
  <2>. QED  BY <2>1, <2>2
<1>. QED  BY <1>1, <1>2, OneOperationHolds, FinalizerProtocolHolds, PTL DEF Spec

\* Behind the CRD, and with FirstOfName's proviso, a query never shows the response
\* of an earlier query of its name, although the writers find it by name only.
THEOREM ResponseStaysWithItsQuery ==
    ASSUME Backend = "crd" PROVE Spec => []ResponseOfSameQuery
<1>1. RightResponse => ResponseOfSameQuery
  BY DEF RightResponse, Answered, Answers, Seen, ResponseOfSameQuery
<1>. QED  BY <1>1, RightResponseHolds, PTL

-----------------------------------------------------------------------------
(* The phase.  Its two writers lay a phase they decided on earlier over    *)
(* whatever they find; what has to be shown is that the phases they can    *)
(* meet there do not outrank it.                                           *)

\* The case the property is about: the name was not reused under an operation.
AllFirst == \A o \in Ops : FirstOfName(o) \/ ops[o].pc = "none"

\* A copy with the store's version is the store's object.
Newest == \A q \in Seen : q.rv = store.rv => q = store

\* The query uid is canceled for good: nobody works for it, or ever will.
Stopped(uid) ==
    /\ \A o \in Ops : Active(o) /\ ops[o].uid = uid => ops[o].canceled
    /\ \A q \in Seen : q.uid = uid => q.cancel \/ q.del

\* What a phase says of the operations that ran for the query.
SeenPhases ==
    /\ \A q \in Seen : Exists(q) /\ q.phase = "canceled" => Stopped(q.uid)
    /\ \A q \in Seen : Exists(q) /\ q.phase = "pending" =>
         \A o \in Ops : Begun(o) => ops[o].uid # q.uid
    /\ \A q \in Seen : Exists(q) /\ q.phase \in {"done", "error"} =>
         \E o \in Ops : Begun(o) /\ ops[o].uid = q.uid
    /\ \A q, r \in Seen :
         q.rv <= r.rv /\ Exists(q) /\ q.uid = r.uid /\ r.phase = "pending" =>
           q.phase = "pending"

\* The reconcile's status write: of a canceled query, of one it found pending and
\* is to run, or the first one, which leaves the phase as it is.  (The bound u is
\* there for RecPhases': a rigid argument of Stopped.)
RecPhases ==
    /\ rec.pc \in {"status", "write"} =>
         /\ rec.obj.uid \in 1..lastUid
         /\ rec.obj.phase = "canceled" => \A u \in {rec.obj.uid} : Stopped(u)
    /\ rec.pc = "status" => rec.obj.phase \in {"running", "canceled"}
    /\ rec.pc = "status" /\ rec.obj.phase = "running" =>
         /\ \A o \in Ops : Begun(o) => ops[o].uid # rec.obj.uid
         /\ \A q \in Copies \cup {store} : q.uid = rec.obj.uid => q.phase \notin Terminal
    /\ rec.pc = "write" /\ rec.obj.phase \in {"done", "error"} =>
         \E o \in Ops : Begun(o) /\ ops[o].uid = rec.obj.uid
    /\ rec.pc = "write" /\ rec.obj.rv = store.rv /\ Exists(store) =>
         Rank(rec.obj.phase) >= Rank(store.phase)

\* A goroutine's status write is of its own query, and of one not canceled unless
\* the write is refused.
RunPhases ==
    \A o \in Ops :
        /\ ops[o].pc = "report" => ops[o].phase \in {"done", "error"}
        /\ ops[o].pc = "write" =>
             /\ ops[o].obj.uid = ops[o].uid /\ ops[o].obj.phase \in {"done", "error"}
             /\ ops[o].obj.rv = store.rv /\ Exists(store) => store.phase # "canceled"

PhaseOrder == Newest /\ (AllFirst => SeenPhases /\ RecPhases /\ RunPhases)

LEMMA RankValues ==
    /\ Rank("pending") = 0 /\ Rank("provisioning") = 1 /\ Rank("running") = 1
    /\ Rank("done") = 2 /\ Rank("error") = 2 /\ Rank("canceled") = 3
BY DEF Rank

LEMMA AllFirstBefore ==
    ASSUME FinalizerProtocol, Next, AllFirst'
    PROVE  AllFirst
<1>1. \A o \in Ops : Begun(o) => Begun(o)' /\ ops'[o].uid = ops[o].uid
  BY BegunKept
<1>. QED  BY <1>1 DEF AllFirst, FirstOfName, Begun

LEMMA NewestStep ==
    ASSUME FinalizerProtocol, TypeOK', History, Newest, Next
    PROVE  Newest'
<1>1. Moved /\ Grown /\ RecKept
  BY StepGrows DEF FinalizerProtocol
<1>2. \A q \in Seen' : q \in Seen \/ q = store'
  BY <1>1, SeenStep
<1>3. \A q \in Seen : q.rv <= store.rv /\ q.rv \in Nat /\ store.rv \in Nat
  BY SeenType DEF History, FinalizerProtocol, TypeOK, Query
<1>. QED  BY <1>1, <1>2, <1>3 DEF Grown, Newest

\* What is accepted is written over the very version it was made from.
LEMMA AcceptedUid ==
    ASSUME Backend = "crd", NEW w, StatusFrom(w), Current(w)
    PROVE  Exists(store) /\ w.rv = store.rv /\ w.uid = store.uid /\ store'.uid = w.uid
BY DEF StatusFrom, AcceptsStatus, Current

LEMMA StoppedKept ==
    ASSUME FinalizerProtocol, Next, NEW u \in 1..lastUid, Stopped(u)
    PROVE  Stopped(u)'
<1>1. Moved /\ Grown /\ RecKept
  BY StepGrows DEF FinalizerProtocol
<1>2. store \in Seen /\ cache \in Seen /\ lastUid \in Nat
  BY DEF Seen, Copies, FinalizerProtocol, TypeOK
<1>3. \A q \in Seen' : q.uid = u => q.cancel \/ q.del
  <2>1. \A q \in Seen' : q \in Seen \/ q = store'
    BY <1>1, SeenStep
  <2>2. store'.uid = u => store'.cancel \/ store'.del
    BY <1>1, <1>2 DEF Grown, Begins, Continues, Stopped
  <2>. QED  BY <2>1, <2>2 DEF Stopped
<1>4. ASSUME NEW o \in Ops, Active(o)', ops'[o].uid = u
      PROVE  ops'[o].canceled
  <2>1. ASSUME Same(o), ops[o].canceled => ops'[o].canceled
        PROVE  ops'[o].canceled
    BY <1>4, <2>1 DEF Same, Active, Stopped
  <2>2. CASE Kept(o)
    BY <1>4, <2>1, <2>2 DEF Kept, Active
  <2>3. CASE \E p \in Ops : StartOperation(p)
    <3>1. PICK p \in Ops : StartOperation(p)
      BY <2>3
    <3>2. ops'[p].uid = cache.uid /\ ~cache.cancel /\ ~cache.del
          /\ \A r \in Ops \ {p} : ops'[r] = ops[r]
      BY <3>1, StartRuns
    <3>3. o # p
      BY <1>2, <1>4, <3>2 DEF Stopped
    <3>4. Kept(o)
      BY <3>2, <3>3 DEF Kept, Same, Active
    <3>. QED  BY <2>2, <3>4
  <2>4. CASE Finalize \/ HonourCancel
    <3>1. CancelOperation
      BY <2>4 DEF Finalize, HonourCancel
    <3>2. Same(o) /\ (o # operations => Kept(o))
          /\ (operations \in Ops /\ Active(operations) => ops'[operations].canceled)
      BY <3>1, CancelRuns DEF FinalizerProtocol
    <3>. QED  BY <1>4, <2>2, <3>2 DEF Same, Active
  <2>5. CASE ControllerRestart
    BY <1>4, <2>5, RestartRuns DEF FinalizerProtocol, Active
  <2>. QED  BY <2>2, <2>3, <2>4, <2>5, NextRuns DEF FinalizerProtocol, Steady
<1>. QED  BY <1>3, <1>4 DEF Stopped

-----------------------------------------------------------------------------
(* The parts of PhaseOrder.                                                *)

LEMMA StoredPhase ==
    ASSUME FinalizerProtocol, Backend = "crd", OneOperation, RightResponse,
           SeenPhases, RecPhases, RunPhases, Next, Exists(store')
    PROVE  \/ StatusKept
           \/ store'.phase = "pending" /\ store'.uid = lastUid + 1
           \/ /\ Exists(store) /\ store'.uid = store.uid
              /\ \/ /\ rec.pc = "write" /\ rec.obj.uid = store.uid
                    /\ store'.phase = rec.obj.phase
                    /\ Rank(store'.phase) >= Rank(store.phase)
                 \/ \E o \in Ops :
                      /\ Begun(o) /\ ops[o].uid = store.uid /\ store.phase # "canceled"
                      /\ store'.phase \in {"done", "error"}
<1>1. Stored
  BY StepStored DEF FinalizerProtocol
<1>2. CASE StatusBlank
  BY <1>2 DEF StatusBlank, Exists
<1>3. CASE rec.pc = "write" /\ StatusFrom(rec.obj)
  <2>1. /\ Exists(store) /\ rec.obj.rv = store.rv /\ rec.obj.uid = store.uid
        /\ store'.uid = store.uid /\ store'.phase = rec.obj.phase
    BY <1>3, AcceptedUid DEF RightResponse, Writes, StatusFrom
  <2>. QED  BY <1>3, <2>1 DEF RecPhases
<1>4. ASSUME NEW o \in Ops, ops[o].pc = "write", StatusFrom(ops[o].obj)
      PROVE  /\ Exists(store) /\ store'.uid = store.uid
             /\ Begun(o) /\ ops[o].uid = store.uid /\ store.phase # "canceled"
             /\ store'.phase \in {"done", "error"}
  <2>1. Current(ops[o].obj)
    BY <1>4 DEF RightResponse, Writes
  <2>2. /\ Exists(store) /\ ops[o].obj.rv = store.rv /\ ops[o].obj.uid = store.uid
        /\ store'.uid = store.uid /\ store'.phase = ops[o].obj.phase
    BY <1>4, <2>1, AcceptedUid DEF StatusFrom
  <2>. QED  BY <1>4, <2>2 DEF RunPhases, Begun
<1>. QED  BY <1>1, <1>2, <1>3, <1>4 DEF Stored

LEMMA NewRun ==
    ASSUME FinalizerProtocol, Next, NEW o \in Ops, ~Begun(o), Begun(o)'
    PROVE  StartOperation(o)
<1>1. CASE Same(o)
  BY <1>1 DEF Same, Begun
<1>2. CASE \E p \in Ops : StartOperation(p)
  <2>1. PICK p \in Ops : StartOperation(p)
    BY <1>2
  <2>2. \A r \in Ops \ {p} : ops'[r] = ops[r]
    BY <2>1, StartRuns
  <2>. QED  BY <2>1, <2>2 DEF Begun
<1>3. CASE Finalize \/ HonourCancel
  BY <1>1, <1>3, CancelRuns DEF Finalize, HonourCancel, FinalizerProtocol
<1>4. CASE ControllerRestart
  BY <1>1, <1>4, RestartRuns DEF FinalizerProtocol
<1>. QED  BY <1>1, <1>2, <1>3, <1>4, NextRuns DEF FinalizerProtocol, Steady, Kept

\* A goroutine is started for a query that is past pending in every copy.
LEMMA StartPastPending ==
    ASSUME FinalizerProtocol, OneOperation, SeenPhases, NEW o \in Ops, StartOperation(o)
    PROVE  \A q \in Seen' : q.uid = ops'[o].uid => q.phase # "pending"
<1>1. /\ Obj = cache /\ ops'[o].uid = cache.uid
      /\ Copies' = Copies /\ store' = store /\ rec' = Idle
  BY StartRuns
<1>2. Seen' = Copies \cup {store}
  <2>1. rec'.pc = "idle"
    BY <1>1 DEF Idle
  <2>. QED  BY <1>1, <2>1 DEF Seen
<1>3. Exists(cache) /\ cache.phase # "pending"
  BY <1>1 DEF StartOperation, Running, NoCancel, InCharge, Deciding, Fetched,
              OneOperation, History, Obj
<1>4. \A q \in Copies \cup {store} : cache.rv <= q.rv
  <2>1. \A q \in Seen : q.rv \in Nat
    BY SeenType DEF FinalizerProtocol, Query
  <2>. QED  BY <2>1 DEF FinalizerProtocol, VersionOrder, Copies, Seen
<1>. QED  BY <1>1, <1>2, <1>3, <1>4 DEF SeenPhases, Seen, Copies

LEMMA SeenBounds ==
    ASSUME FinalizerProtocol, OneOperation
    PROVE  /\ \A q \in Seen : /\ q \in Query /\ q.uid \in Nat /\ q.rv \in Nat
                             /\ q.phase \in Phases /\ Rank(q.phase) \in 0..3
           /\ \A q \in Seen : q.uid <= lastUid /\ q.rv <= store.rv
           /\ store \in Seen /\ cache \in Seen /\ lastUid \in Nat
           /\ \A o \in Ops : Begun(o) => ops[o].uid \in 1..lastUid
<1>1. \A q \in Seen : q \in Query
  BY SeenType DEF FinalizerProtocol
<1>2. \A q \in Query : q.uid \in Nat /\ q.rv \in Nat /\ q.phase \in Phases
  BY DEF Query
<1>3. \A phase \in Phases : Rank(phase) \in 0..3
  BY RankValues DEF Phases, Terminal
<1>4. store \in Seen /\ cache \in Seen /\ lastUid \in Nat
  BY DEF Seen, Copies, FinalizerProtocol, TypeOK
<1>5. \A q \in Seen : q.uid <= lastUid /\ q.rv <= store.rv
  BY DEF OneOperation, History
<1>6. \A o \in Ops : Begun(o) => ops[o].uid \in 1..lastUid
  BY DEF OneOperation, Late
<1>. QED  BY <1>1, <1>2, <1>3, <1>4, <1>5, <1>6

LEMMA SeenPhasesStep ==
    ASSUME FinalizerProtocol, TypeOK', Backend = "crd", OneOperation, RightResponse,
           SeenPhases, RecPhases, RunPhases, Next
    PROVE  SeenPhases'
<1>1. Moved /\ Grown /\ RecKept
  BY StepGrows DEF FinalizerProtocol
<1>2. /\ \A q \in Seen' : q \in Seen \/ q = store'
      /\ \A o \in Ops : Begun(o) => Begun(o)' /\ ops'[o].uid = ops[o].uid
  BY <1>1, SeenStep, BegunKept
<1>3. /\ \A q \in Seen : q \in Query /\ q.uid \in Nat /\ q.rv \in Nat /\ q.phase \in Phases
      /\ \A q \in Seen : q.uid <= lastUid /\ q.rv <= store.rv
      /\ store \in Seen /\ lastUid \in Nat
      /\ \A o \in Ops : Begun(o) => ops[o].uid <= lastUid
  BY SeenBounds
<1>4. \/ ~Exists(store') \/ StatusKept
      \/ store'.phase = "pending" /\ store'.uid = lastUid + 1
      \/ /\ Exists(store) /\ store'.uid = store.uid
         /\ \/ /\ rec.pc = "write" /\ rec.obj.uid = store.uid
               /\ store'.phase = rec.obj.phase
               /\ Rank(store'.phase) >= Rank(store.phase)
            \/ \E o \in Ops :
                 /\ Begun(o) /\ ops[o].uid = store.uid /\ store.phase # "canceled"
                 /\ store'.phase \in {"done", "error"}
  BY StoredPhase
\* A query that is back to pending was pending before.
<1>5. Exists(store') /\ store'.phase = "pending" /\ store'.uid # lastUid + 1
        => store'.uid = store.uid /\ store.phase = "pending"
  BY <1>3, <1>4, RankValues DEF StatusKept, Exists, Phases, Terminal
<1>6. ASSUME NEW q \in Seen', Exists(q), q.phase = "canceled"
      PROVE  Stopped(q.uid)'
  <2>1. q.uid \in 1..lastUid /\ Stopped(q.uid)
    <3>1. CASE q \in Seen
      BY <1>3, <1>6, <3>1 DEF SeenPhases, Exists
    <3>2. CASE q = store' /\ StatusKept
      BY <1>3, <1>6, <3>2 DEF StatusKept, SeenPhases, Exists
    <3>3. CASE q = store' /\ rec.pc = "write" /\ rec.obj.uid = q.uid /\ rec.obj.phase = q.phase
      BY <1>6, <3>3 DEF RecPhases
    <3>. QED  BY <1>2, <1>4, <1>6, <3>1, <3>2, <3>3
  <2>. QED  BY <2>1, StoppedKept
<1>7. ASSUME NEW q \in Seen', Exists(q), q.phase = "pending", NEW o \in Ops, Begun(o)'
      PROVE  ops'[o].uid # q.uid
  <2>1. CASE Begun(o)
    <3>1. CASE q \in Seen
      BY <1>2, <1>7, <2>1, <3>1 DEF SeenPhases
    <3>2. CASE q = store'
      BY <1>2, <1>3, <1>5, <1>7, <2>1, <3>2 DEF SeenPhases, Exists
    <3>. QED  BY <1>2, <3>1, <3>2
  <2>2. CASE ~Begun(o)
    BY <1>7, <2>2, NewRun, StartPastPending
  <2>. QED  BY <2>1, <2>2
<1>8. ASSUME NEW q \in Seen', Exists(q), q.phase \in {"done", "error"}
      PROVE  \E o \in Ops : Begun(o)' /\ ops'[o].uid = q.uid
  <2>1. \E o \in Ops : Begun(o) /\ ops[o].uid = q.uid
    <3>1. CASE q \in Seen
      BY <1>8, <3>1 DEF SeenPhases
    <3>2. CASE q = store' /\ StatusKept
      BY <1>3, <1>8, <3>2 DEF StatusKept, SeenPhases, Exists
    <3>3. CASE q = store' /\ rec.pc = "write" /\ rec.obj.uid = q.uid /\ rec.obj.phase = q.phase
      BY <1>8, <3>3 DEF RecPhases
    <3>. QED  BY <1>2, <1>4, <1>8, <3>1, <3>2, <3>3
  <2>. QED  BY <1>2, <2>1
<1>9. ASSUME NEW q \in Seen', NEW r \in Seen', q.rv <= r.rv, Exists(q),
             q.uid = r.uid, r.phase = "pending"
      PROVE  q.phase = "pending"
  <2>1. CASE q \in Seen /\ r \in Seen
    BY <1>9, <2>1 DEF SeenPhases
  <2>2. CASE q \in Seen /\ r = store'
    BY <1>3, <1>5, <1>9, <2>2 DEF SeenPhases, Exists
  <2>3. CASE q = store' /\ q \notin Seen
    <3>1. store'.rv = store.rv + 1
      BY <1>1, <1>3, <2>3 DEF Grown
    <3>2. r \notin Seen
      BY <1>3, <1>9, <2>3, <3>1
    <3>. QED  BY <1>2, <1>9, <2>3, <3>2
  <2>. QED  BY <1>2, <2>1, <2>2, <2>3
<1>. QED  BY <1>6, <1>7, <1>8, <1>9 DEF SeenPhases, Exists

\* A status write made from an older version is refused.
LEMMA NoLongerCurrent ==
    ASSUME FinalizerProtocol, Grown, NEW w \in Query, Current(w), w.rv = store'.rv
    PROVE  store' = store
<1>1. w.rv \in Nat /\ store.rv \in Nat
  BY DEF Query, FinalizerProtocol, TypeOK
<1>. QED  BY <1>1 DEF Grown, Current

LEMMA RecPhasesStep ==
    ASSUME FinalizerProtocol, TypeOK', Backend = "crd", OneOperation, RightResponse,
           Newest, AllFirst, SeenPhases, RecPhases, RunPhases, Next
    PROVE  RecPhases'
<1>1. Moved /\ Grown /\ RecKept /\ RecMoves
  BY StepGrows, StepRec DEF FinalizerProtocol
<1>2. /\ \A o \in Ops : Begun(o) => Begun(o)' /\ ops'[o].uid = ops[o].uid
      /\ \A u \in 1..lastUid : Stopped(u) => Stopped(u)'
      /\ lastUid \in Nat /\ lastUid' \in {lastUid, lastUid + 1}
      /\ rec.obj \in Query /\ cache \in Query
  BY <1>1, BegunKept, StoppedKept DEF Grown, FinalizerProtocol, TypeOK, Pass
<1>3. CASE rec'.pc \in {"idle", "expired", "deleted", "update"}
  BY <1>3 DEF RecPhases
<1>4. CASE rec' = rec
  <2>1. rec.pc = "write" /\ rec.obj.rv = store'.rv => store' = store
    BY <1>1, <1>2, NoLongerCurrent DEF RightResponse, Writes
  <2>2. rec.pc = "status" => \A o \in Ops : Begun(o)' => Begun(o)
    BY NewRun, StartRuns DEF Fetched
  <2>3. ASSUME rec.pc = "status", rec.obj.phase = "running",
               NEW q \in Copies' \cup {store'}, q.uid = rec.obj.uid
        PROVE  q.phase \notin Terminal
    <3>1. q \in Copies \cup {store} \/ q = store'
      BY <1>1, OrderedStep DEF FinalizerProtocol, Ordered
    <3>2. CASE q \in Copies \cup {store}
      BY <2>3, <3>2 DEF RecPhases
    <3>3. CASE q = store'
      <4>1. Exists(store')
        BY <2>3, <3>3 DEF RecPhases, Exists
      <4>2. ~\E o \in Ops : Begun(o) /\ ops[o].uid = rec.obj.uid
        BY <2>3 DEF RecPhases
      <4>3. StatusKept \/ store'.phase = "pending"
        BY <2>3, <3>3, <4>1, <4>2, StoredPhase
      <4>4. store.uid = rec.obj.uid => store.phase \notin Terminal
        BY <2>3 DEF RecPhases
      <4>. QED  BY <2>3, <3>3, <4>3, <4>4 DEF StatusKept, Terminal
    <3>. QED  BY <3>1, <3>2, <3>3
  <2>. QED  BY <1>2, <1>4, <2>1, <2>2, <2>3 DEF RecPhases
<1>5. CASE InCharge /\ Fixed /\ (Starts \/ Sets)
  <2>1. /\ Obj \in Seen /\ Exists(Obj) /\ Obj.uid \in 1..lastUid
        /\ Rank(Obj.phase) \in 0..3
        /\ \A q \in Copies \cup {store} : Follows(Obj, q)
    <3>1. /\ Obj \in Seen /\ Exists(Obj)
          /\ \A q \in Copies \cup {store} : Follows(Obj, q)
      BY <1>5, ObjOldest DEF InCharge, OneOperation
    <3>. QED  BY <3>1, SeenBounds DEF Exists
  <2>2. CASE Starts
    <3>1. Obj.phase = "canceled" => \A u \in {Obj.uid} : Stopped(u)'
      BY <1>2, <2>1 DEF SeenPhases
    <3>2. Obj.rv = store'.rv => Obj = store'
      BY <1>5, <2>1 DEF Newest, Fixed
    <3>. QED  BY <1>2, <2>1, <2>2, <3>1, <3>2 DEF Starts, SeenPhases, RecPhases
  <2>3. CASE Sets /\ HonourCancel
    <3>1. /\ rec'.pc = "status" /\ rec'.obj.phase = "canceled" /\ rec'.obj.uid = Obj.uid
          /\ Obj.cancel /\ CancelOperation
      BY <2>3 DEF Sets, HonourCancel, CancelWanted, SetRunning, NoCancel
    <3>2. Seen' = Copies \cup {store}
      BY <1>5, <3>1 DEF Fixed, Seen, Copies
    <3>3. \A q \in Seen' : q.uid = Obj.uid => q.cancel \/ q.del
      BY <2>1, <3>1, <3>2 DEF Follows, Exists
    <3>4. ASSUME NEW o \in Ops, Active(o)', ops'[o].uid = Obj.uid
          PROVE  ops'[o].canceled
      <4>1. Same(o) /\ (o # operations => Kept(o))
            /\ (operations \in Ops /\ Active(operations) => ops'[operations].canceled)
        BY <3>1, CancelRuns DEF FinalizerProtocol
      <4>2. Active(o) /\ FirstOfName(o)
        BY <3>4, <4>1 DEF Same, Active, Pending, AllFirst
      <4>3. o # operations => ops[o].canceled
        BY <4>2 DEF OneOperation, Sole, Lives
      <4>. QED  BY <3>4, <4>1, <4>2, <4>3 DEF Kept, Active
    <3>5. \A u \in {Obj.uid} : Stopped(u)'
      BY <3>3, <3>4 DEF Stopped
    <3>. QED  BY <1>2, <2>1, <3>1, <3>5 DEF RecPhases
  <2>4. CASE Sets /\ SetRunning
    <3>1. /\ rec'.pc = "status" /\ rec'.obj.phase = "running" /\ rec'.obj.uid = Obj.uid
          /\ Obj.phase = "pending" /\ ~Obj.cancel /\ ~Obj.del /\ ops' = ops
      BY <2>4 DEF Sets, HonourCancel, SetRunning, NoCancel, InCharge, CancelWanted, Go
    <3>2. \A o \in Ops : Begun(o) => ops[o].uid # Obj.uid
      BY <2>1, <3>1 DEF SeenPhases
    <3>3. \A q \in Copies \cup {store} : q.uid = Obj.uid => q.phase \notin Terminal
      BY <2>1, <3>1, <3>2 DEF SeenPhases, Stopped, Terminal, Seen, Exists
    <3>4. Copies' = Copies /\ store' = store
      BY <1>5 DEF Fixed, Copies
    <3>. QED  BY <1>2, <2>1, <3>1, <3>2, <3>3, <3>4 DEF RecPhases, Begun
  <2>. QED  BY <1>5, <2>2, <2>3, <2>4 DEF Sets
<1>6. CASE Fixed /\ Renews
  <2>1. /\ rec'.pc = "write" /\ rec'.obj.uid = cache.uid /\ rec'.obj.rv = cache.rv
        /\ rec'.obj.phase = rec.obj.phase /\ rec.obj.phase \in {"running", "canceled"}
    BY <1>2, <1>6, RestoredFields DEF Renews, RecPhases
  <2>2. cache.uid = rec.obj.uid /\ rec.obj.uid \in 1..lastUid
    BY <1>6 DEF Renews, RightResponse, Decided, RecPhases, Copies
  <2>3. rec.obj.phase = "canceled" => \A u \in {rec.obj.uid} : Stopped(u)'
    BY <1>2, <1>6, <2>2 DEF Renews, RecPhases
  <2>4. cache.rv = store'.rv => Rank(rec.obj.phase) >= Rank(store'.phase)
    <3>1. cache.rv = store'.rv => cache = store /\ store' = store
      BY <1>6 DEF Newest, Fixed, Seen, Copies
    <3>2. cache.phase \in Phases /\ Rank(cache.phase) \in 0..3
      BY SeenBounds
    <3>3. rec.obj.phase = "running" => cache.phase \notin Terminal
      BY <1>6, <2>2 DEF Renews, RecPhases, Copies
    <3>. QED  BY <2>1, <3>1, <3>2, <3>3, RankValues DEF Phases, Terminal
  <2>. QED  BY <1>2, <2>1, <2>2, <2>3, <2>4 DEF RecPhases
<1>. QED  BY <1>1, <1>3, <1>4, <1>5, <1>6 DEF RecMoves

LEMMA RunPhasesStep ==
    ASSUME FinalizerProtocol, TypeOK', Backend = "crd", OneOperation, RightResponse,
           Newest, AllFirst, SeenPhases, RecPhases, RunPhases, Next
    PROVE  RunPhases'
<1>1. Grown /\ cache \in Query
  BY StepGrows DEF FinalizerProtocol, TypeOK
<1>. SUFFICES ASSUME NEW o \in Ops
     PROVE  /\ ops'[o].pc = "report" => ops'[o].phase \in {"done", "error"}
            /\ ops'[o].pc = "write" =>
                 /\ ops'[o].obj.uid = ops'[o].uid
                 /\ ops'[o].obj.phase \in {"done", "error"}
                 /\ ops'[o].obj.rv = store'.rv /\ store'.uid # 0 =>
                      store'.phase # "canceled"
  BY DEF RunPhases, Exists
<1>2. RunMoves(o) /\ ops[o].obj \in Query /\ (Begun(o) => ops'[o].uid = ops[o].uid)
  BY StepMoves, BegunKept DEF FinalizerProtocol, TypeOK, Run
<1>3. CASE Stays(o)
  <2>1. ops[o].pc = "write" /\ ops[o].obj.rv = store'.rv => store' = store
    BY <1>1, <1>2, NoLongerCurrent DEF RightResponse, Writes
  <2>2. ops[o].pc = "write" => ops'[o].uid = ops[o].uid
    BY <1>2 DEF Begun
  <2>. QED  BY <1>3, <2>1, <2>2 DEF Stays, RunPhases, Exists
<1>4. CASE StartOperation(o)
  BY <1>4, StartRuns
<1>5. CASE Fixed /\ Lays(o)
  <2>1. /\ ops[o].pc = "report" /\ ops'[o].pc = "write" /\ Exists(cache)
        /\ ops'[o].obj.uid = cache.uid /\ ops'[o].obj.rv = cache.rv
        /\ ops'[o].obj.phase = ops[o].phase /\ ops[o].phase \in {"done", "error"}
    BY <1>1, <1>2, <1>5, RestoredFields DEF Lays, RunPhases
  <2>2. Active(o) /\ ~ops[o].canceled /\ Lives(o)
    BY <1>5, <2>1 DEF Lays, CtxDone, Lives, Active, Pending, AllFirst
  <2>3. cache.uid = ops[o].uid /\ ops'[o].uid = ops[o].uid
    BY <1>2, <2>1, <2>2, OwnQueryInCache DEF Begun
  <2>4. cache.phase # "canceled"
    BY <2>1, <2>2, <2>3 DEF SeenPhases, Stopped, Seen, Copies
  <2>5. cache.rv = store'.rv => cache = store'
    BY <1>5 DEF Fixed, Newest, Seen, Copies
  <2>. QED  BY <2>1, <2>3, <2>4, <2>5
<1>. QED  BY <1>2, <1>3, <1>4, <1>5 DEF RunMoves, Waits, Reports, Pending

-----------------------------------------------------------------------------
\* What a phase says of the operations, as an invariant: see PhaseOrder.
THEOREM PhaseOrderHolds ==
    ASSUME Backend = "crd" PROVE Spec => []PhaseOrder
<1>1. Init => PhaseOrder
  <2>. SUFFICES ASSUME Init PROVE PhaseOrder
    OBVIOUS
  <2>1. /\ store = Absent(0) /\ cache = store /\ DOMAIN watch = {} /\ rec.pc = "idle"
        /\ \A o \in Ops : ops[o].pc = "none"
    BY DEF Init, NoRun, Idle
  <2>2. store.uid = 0 /\ Seen = {store}
    BY <2>1, AbsentFields DEF Seen, Copies
  <2>. QED  BY <2>1, <2>2
            DEF PhaseOrder, Newest, SeenPhases, RecPhases, RunPhases, Exists
<1>2. FinalizerProtocol /\ FinalizerProtocol' /\ OneOperation /\ RightResponse
        /\ PhaseOrder /\ [Next]_vars => PhaseOrder'
  <2>. SUFFICES ASSUME FinalizerProtocol, FinalizerProtocol', OneOperation,
                       RightResponse, PhaseOrder, [Next]_vars
                PROVE  PhaseOrder'
    OBVIOUS
  <2>1. CASE UNCHANGED vars
    BY <2>1 DEF vars, PhaseOrder, Newest, AllFirst, FirstOfName, SeenPhases, RecPhases,
                RunPhases, Stopped, Seen, Copies, Exists, Begun, Active
  <2>2. CASE Next
    <3>1. TypeOK' /\ Newest'
      BY <2>2, NewestStep DEF FinalizerProtocol, PhaseOrder, OneOperation
    <3>2. AllFirst' => AllFirst
      BY <2>2, AllFirstBefore
    <3>. QED  BY <2>2, <3>1, <3>2, SeenPhasesStep, RecPhasesStep, RunPhasesStep
              DEF PhaseOrder
  <2>. QED  BY <2>1, <2>2
<1>. QED  BY <1>1, <1>2, RightResponseHolds, OneOperationHolds, FinalizerProtocolHolds,
             PTL DEF Spec

\* Behind the CRD, and until the name is reused under an operation, only an
\* engine's patch takes the phase of a query back: neither the reconcile nor a
\* goroutine does, however stale the copies they write from.
THEOREM ControllerNeverRegresses ==
    ASSUME Backend = "crd" PROVE Spec => PhaseNeverRegresses
<1> DEFINE Keeps == SameQuery /\ engine' = engine /\ AllFirst
                      => Rank(store'.phase) >= Rank(store.phase)
<1>1. FinalizerProtocol /\ OneOperation /\ RightResponse /\ PhaseOrder /\ [Next]_vars
        => [Keeps]_<<store, engine, ops>>
  <2>. SUFFICES ASSUME FinalizerProtocol, OneOperation, RightResponse, PhaseOrder, Next,
                       SameQuery, engine' = engine, AllFirst
                PROVE  Rank(store'.phase) >= Rank(store.phase)
    BY DEF vars
  <2>1. /\ store.uid <= lastUid /\ lastUid \in Nat /\ store.uid \in Nat
        /\ store.phase \in Phases /\ Rank(store.phase) \in 0..3
    BY SeenBounds
  <2>2. CASE StatusKept
    BY <2>1, <2>2 DEF StatusKept
  <2>3. CASE store'.uid = lastUid + 1
    BY <2>1, <2>3 DEF SameQuery
  <2>4. CASE store.phase # "canceled" /\ store'.phase \in {"done", "error"}
    BY <2>1, <2>4, RankValues DEF Phases, Terminal
  <2>. QED  BY <2>2, <2>3, <2>4, StoredPhase DEF PhaseOrder, SameQuery, Exists
<1>2. [][Keeps]_<<store, engine, ops>> => PhaseNeverRegresses
  BY PTL DEF PhaseNeverRegresses, AllFirst
<1>. QED  BY <1>1, <1>2, PhaseOrderHolds, RightResponseHolds, OneOperationHolds,
             FinalizerProtocolHolds, PTL DEF Spec
=============================================================================
