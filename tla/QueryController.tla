--------------------------- MODULE QueryController ---------------------------
(***************************************************************************)
(* The Query controller (ark/internal/controller/query_controller.go) and  *)
(* the parties that write the same Query object: the users, the execution  *)
(* engine that patches status.phase through the SDK's QueryStatusUpdater,  *)
(* and the API server that arbitrates the writes.                          *)
(*                                                                         *)
(* One namespaced name is modelled: the work queue, the operations map and *)
(* the writes are all keyed by it, so names do not interact.  The name may *)
(* be reused: each creation gives the object a new uid.                    *)
(***************************************************************************)
EXTENDS Naturals, Sequences

CONSTANTS
    Ops,          \* identities of the goroutines executeQueryAsync runs in
    NoOp,         \* no goroutine (also: no response, no token usage)
    Backend,      \* "crd": etcd behind the CRD; "postgres": aggregated API server
    EnginePhases, \* the phases engines report through the QueryStatusUpdater
    ShortTTL,     \* the uids whose ttl is short enough to pass within a behaviour
    NoTTL,        \* the uids created without spec.ttl (only the CRD fills it in)
    MaxUid,       \* bound: how many times the name is created
    MaxEdits,     \* bound: how many unrelated edits users make
    MaxRestarts,  \* bound: how many times the controller process restarts
    MaxLag        \* bound: undelivered versions at which others wait

ASSUME OpsAssumption == NoOp \notin Ops
ASSUME BackendAssumption == Backend \in {"crd", "postgres"}
ASSUME EnginePhasesAssumption == EnginePhases \subseteq {"provisioning", "running"}
ASSUME ShortTTLAssumption == ShortTTL \subseteq Nat
ASSUME NoTTLAssumption == NoTTL \subseteq Nat /\ (Backend = "crd" => NoTTL = {})
ASSUME BoundsAssumption == MaxUid \in Nat /\ MaxEdits \in Nat /\ MaxRestarts \in Nat
                            /\ MaxLag \in Nat

VARIABLES
    store,      \* the object the API server holds (uid 0: none)
    watch,      \* versions sent to the controller's informer, not yet delivered
    cache,      \* the informer's copy, which r.Get reads
    queued,     \* the key is in the work queue
    rec,        \* the reconcile in progress: its pc and its local obj
    operations, \* QueryReconciler.operations at this key: the op whose cancel
                \* function is stored, or NoOp
    ops,        \* the goroutines: pc, the uid they run, local obj, whether the ctx is
                \* canceled, the phase to report
    engine,     \* the engine's side of each dispatch
    requeueAt,  \* uids a RequeueAfter(expiry) timer was set for
    expired,    \* uids whose creationTimestamp + ttl (an hour without one) has passed
    lastUid, edits, restarts   \* counters behind the bounds

api    == <<store, watch>>
ctl    == <<cache, queued, rec, operations, ops, requeueAt>>
counts == <<lastUid, edits, restarts>>
vars   == <<store, watch, cache, queued, rec, operations, ops, engine,
            requeueAt, expired, lastUid, edits, restarts>>

Terminal == {"done", "error", "canceled"}
Phases   == {"pending", "provisioning", "running"} \cup Terminal

\* A version of the Query object.  resp and tok name the op whose response and
\* token usage the status holds; started: status.conditions is not empty.
Query == [uid : Nat, rv : Nat, fin : BOOLEAN, del : BOOLEAN, cancel : BOOLEAN,
          started : BOOLEAN, phase : Phases,
          resp : Ops \cup {NoOp}, tok : Ops \cup {NoOp}]

Absent(rv) == [uid |-> 0, rv |-> rv, fin |-> FALSE, del |-> FALSE,
               cancel |-> FALSE, started |-> FALSE, phase |-> "pending",
               resp |-> NoOp, tok |-> NoOp]
Exists(q)  == q.uid # 0

Idle == [pc |-> "idle", obj |-> Absent(0)]
NoRun == [pc |-> "none", uid |-> 0, obj |-> Absent(0), canceled |-> FALSE,
          phase |-> "running"]
\* A goroutine past its last status write: only whose query it ran is remembered.
Leaving(o, pc) == [NoRun EXCEPT !.pc = pc, !.uid = ops[o].uid,
                                !.canceled = ops[o].canceled]
Ended(o) == [NoRun EXCEPT !.pc = "gone", !.uid = ops[o].uid]

-----------------------------------------------------------------------------
(* The API server.  Every committed write is a new version, sent to the    *)
(* informer's watch.                                                       *)

Commit(q) == LET v == [q EXCEPT !.rv = store.rv + 1]
             IN store' = v /\ watch' = Append(watch, v)

\* Main-resource PUT: metadata and spec from obj, status from the server; an
\* object being deleted goes away with its last finalizer.
Accepts(obj) == Exists(store) /\ obj.rv = store.rv
CommitUpdate(obj) ==
    IF obj.del /\ ~obj.fin THEN Commit(Absent(0))
    ELSE Commit([store EXCEPT !.fin = obj.fin])

\* Status PUT: only the status is taken from obj.  etcd compares the sent
\* resourceVersion; the aggregated server copies the sent status onto the
\* object it just read, so the sender's resourceVersion plays no part.
AcceptsAnyStatus(obj) == Exists(store)        \* mutant: no version compared
AcceptsStatus(obj) == Exists(store) /\ (Backend = "crd" => obj.rv = store.rv)
\* A response or usage that was not sent is kept by copyStatusOnly, as it decodes
\* into the object it read.
Sent(old, new) == IF Backend = "postgres" /\ new = NoOp THEN old ELSE new
CommitStatus(obj) ==
    Commit([store EXCEPT !.started = obj.started, !.phase = obj.phase,
                         !.resp = Sent(@, obj.resp), !.tok = Sent(@, obj.tok)])

\* DELETE by name: with a finalizer etcd only marks the object; the PostgreSQL
\* backend soft-deletes the row at once, finalizers or not.
CommitDeleteAtOnce == Commit(Absent(0))       \* mutant: finalizers ignored
CommitDelete ==
    IF Backend = "crd" /\ store.fin
    THEN IF store.del THEN UNCHANGED api ELSE Commit([store EXCEPT !.del = TRUE])
    ELSE Commit(Absent(0))

\* The bound on undelivered versions.  The controller's own writes ignore it.
WatchRoom == Len(watch) < MaxLag

-----------------------------------------------------------------------------
(* The users.                                                              *)

UserCreate ==
    /\ ~Exists(store) /\ lastUid < MaxUid /\ WatchRoom
    /\ Commit([Absent(0) EXCEPT !.uid = lastUid + 1])
    /\ lastUid' = lastUid + 1
    /\ UNCHANGED <<ctl, engine, expired, edits, restarts>>

\* kubectl patch --type=merge -p '{"spec":{"cancel":true}}'
UserCancel ==
    /\ Exists(store) /\ ~store.cancel /\ WatchRoom
    /\ Commit([store EXCEPT !.cancel = TRUE])
    /\ UNCHANGED <<ctl, engine, expired, counts>>

\* A label, an annotation, another spec field: nothing the controller reads,
\* but a new resourceVersion and an event.
UserEdit ==
    /\ Exists(store) /\ edits < MaxEdits /\ WatchRoom
    /\ Commit(store)
    /\ edits' = edits + 1
    /\ UNCHANGED <<ctl, engine, expired, lastUid, restarts>>

UserDelete ==
    /\ Exists(store) /\ ~store.del /\ WatchRoom
    /\ CommitDelete
    /\ UNCHANGED <<ctl, engine, expired, counts>>

\* Time passes creationTimestamp + ttl, or the hour that stands in for no ttl.
TTLExpire ==
    /\ \E u \in ShortTTL \cap (1..lastUid) : u \notin expired /\ expired' = expired \cup {u}
    /\ UNCHANGED <<api, ctl, engine, counts>>

-----------------------------------------------------------------------------
(* controller-runtime: the informer's cache and the work queue.            *)

InformerDeliver ==
    /\ watch # <<>>
    /\ cache' = Head(watch) /\ watch' = Tail(watch) /\ queued' = TRUE
    /\ UNCHANGED <<store, rec, operations, ops, engine, requeueAt, expired, counts>>

\* A broken watch, and every relist of the PostgreSQL watch: intermediate
\* versions are skipped.
InformerRelist ==
    /\ watch # <<>>
    /\ cache' = store /\ watch' = <<>> /\ queued' = TRUE
    /\ UNCHANGED <<store, rec, operations, ops, engine, requeueAt, expired, counts>>

\* The informer's periodic resync re-delivers what the cache holds.
InformerResync ==
    /\ Exists(cache) /\ ~queued /\ WatchRoom
    /\ queued' = TRUE
    /\ UNCHANGED <<api, cache, rec, operations, ops, engine, requeueAt, expired, counts>>

RequeueTimer ==
    /\ \E u \in requeueAt \cap expired : requeueAt' = requeueAt \ {u}
    /\ queued' = TRUE
    /\ UNCHANGED <<api, cache, rec, operations, ops, engine, expired, counts>>

\* The process dies: map, goroutines, queue, timers and cache are gone; the new
\* informer lists the objects and queues each.  Requests already sent to an
\* engine are still being worked on there.
ControllerRestart ==
    /\ restarts < MaxRestarts
    /\ restarts' = restarts + 1
    /\ rec' = Idle /\ operations' = NoOp /\ requeueAt' = {}
    /\ ops' = [o \in Ops |-> IF ops[o].pc = "none" THEN ops[o] ELSE Ended(o)]
    /\ cache' = store /\ watch' = <<>> /\ queued' = Exists(store)
    /\ UNCHANGED <<store, engine, expired, lastUid, edits>>

-----------------------------------------------------------------------------
(* Reconcile.  It reads the object from the cache once and decides on that *)
(* copy, Obj.  The decision is a step; every call to the API server, and   *)
(* updateStatus's second read of the cache, is a later step of its own, so *)
(* the object may have changed by then.  An error requeues the key.        *)

Fetched  == rec.pc = "idle" /\ queued
Obj      == IF rec.pc = "idle" THEN cache ELSE rec.obj
TTLPassedOnceDone(q) == q.uid \in expired \ NoTTL /\ q.phase \in Terminal   \* mutant
TTLPassed(q) == q.uid \in expired \ NoTTL
\* Past the TTL check: either not expired, or expired and already deleted.
Deciding == \/ Fetched /\ Exists(cache) /\ ~TTLPassed(cache)
            \/ rec.pc = "deleted"

\* One step of the reconcile: where it goes, and whether the key stays queued
\* (taking the key out of the queue is part of the fetch).
Go(pc, obj)  == rec' = [pc |-> pc, obj |-> obj]
Dequeue      == queued' = (rec.pc # "idle" /\ queued)
Return       == rec' = Idle /\ Dequeue
RecUnchanged == UNCHANGED <<cache, engine, expired, counts>>

FetchNotFound ==
    /\ Fetched /\ ~Exists(cache)
    /\ Return
    /\ RecUnchanged /\ UNCHANGED <<api, operations, ops, requeueAt>>

FetchExpired ==
    /\ Fetched /\ Exists(cache) /\ TTLPassed(cache)
    /\ Go("expired", cache) /\ Dequeue
    /\ RecUnchanged /\ UNCHANGED <<api, operations, ops, requeueAt>>

\* r.Delete takes the name from obj and no precondition, and the reconcile goes
\* on with obj as it was.
DeleteExpired ==
    /\ rec.pc = "expired"
    /\ IF Exists(store) THEN CommitDelete /\ Go("deleted", rec.obj) /\ UNCHANGED queued
                        ELSE UNCHANGED api /\ rec' = Idle /\ queued' = TRUE
    /\ RecUnchanged /\ UNCHANGED <<operations, ops, requeueAt>>

AddFinalizer ==
    /\ Deciding /\ ~Obj.del /\ ~Obj.fin
    /\ Go("update", [Obj EXCEPT !.fin = TRUE]) /\ Dequeue
    /\ RecUnchanged /\ UNCHANGED <<api, operations, ops, requeueAt>>

ForgetOperation == operations' = NoOp /\ UNCHANGED ops   \* mutant: not canceled
CancelOperation ==
    /\ operations' = NoOp
    /\ ops' = IF operations = NoOp THEN ops
              ELSE [ops EXCEPT ![operations].canceled = TRUE]

\* The only finalizer in the model is the controller's own, so an object marked
\* deleted has it.
Finalize ==
    /\ Deciding /\ Obj.del /\ Obj.fin
    /\ CancelOperation
    /\ Go("update", [Obj EXCEPT !.fin = FALSE]) /\ Dequeue
    /\ RecUnchanged /\ UNCHANGED <<api, requeueAt>>

InCharge == Deciding /\ ~Obj.del /\ Obj.fin

InitConditions ==
    /\ InCharge /\ ~Obj.started
    /\ Go("write", [Obj EXCEPT !.started = TRUE]) /\ Dequeue
    /\ RecUnchanged /\ UNCHANGED <<api, operations, ops, requeueAt>>

CancelWantedWhileActive == Obj.cancel /\ Obj.phase \notin Terminal   \* mutant
CancelWanted == Obj.cancel /\ Obj.phase # "canceled"

HonourCancel ==
    /\ InCharge /\ Obj.started /\ CancelWanted
    /\ CancelOperation
    /\ Go("status", [Obj EXCEPT !.phase = "canceled"]) /\ Dequeue
    /\ RecUnchanged /\ UNCHANGED <<api, requeueAt>>

NoCancel == InCharge /\ Obj.started /\ ~CancelWanted
Running  == NoCancel /\ Obj.phase \in {"provisioning", "running"}

SeeTerminal ==
    /\ NoCancel /\ Obj.phase \in Terminal
    /\ requeueAt' = requeueAt \cup ({Obj.uid} \ expired)
    /\ Return
    /\ RecUnchanged /\ UNCHANGED <<api, operations, ops>>

SetRunning ==
    /\ NoCancel /\ Obj.phase = "pending"
    /\ Go("status", [Obj EXCEPT !.phase = "running"]) /\ Dequeue
    /\ RecUnchanged /\ UNCHANGED <<api, operations, ops, requeueAt>>

LeaveRunning ==
    /\ Running /\ (operations # NoOp \/ Obj.uid \in expired)
    /\ Return
    /\ RecUnchanged /\ UNCHANGED <<api, operations, ops, requeueAt>>

\* The goroutine gets a copy of obj; what it uses of it is the uid (its deadline
\* is that object's expiry) and the status fields it will write back.
StartOperation(o) ==
    /\ Running /\ operations = NoOp /\ Obj.uid \notin expired
    /\ ops[o].pc = "none"
    /\ ops' = [ops EXCEPT ![o] = [NoRun EXCEPT !.pc = "dispatch", !.uid = Obj.uid,
                                    !.obj.resp = Obj.resp, !.obj.tok = Obj.tok]]
    /\ operations' = o
    /\ Return
    /\ RecUnchanged /\ UNCHANGED <<api, requeueAt>>

\* r.Update: any error, NotFound included, is returned.
ReconcileUpdate ==
    /\ rec.pc = "update" /\ rec' = Idle
    /\ IF Accepts(rec.obj) THEN CommitUpdate(rec.obj) /\ UNCHANGED queued
                           ELSE UNCHANGED api /\ queued' = TRUE
    /\ RecUnchanged /\ UNCHANGED <<operations, ops, requeueAt>>

\* updateStatus reads the object again and lays phase, response and token
\* usage of the caller's copy over what it finds; NotFound counts as success.
RestoredNoUsage(copy, obj, phase) ==          \* mutant: token usage not saved
    [copy EXCEPT !.started = TRUE, !.phase = phase,
                 !.resp = IF obj.resp = NoOp THEN @ ELSE obj.resp]
Restored(copy, obj, phase) ==
    [copy EXCEPT !.started = TRUE, !.phase = phase, !.tok = obj.tok,
                 !.resp = IF obj.resp = NoOp THEN @ ELSE obj.resp]

ReconcileStatus ==
    /\ rec.pc = "status"
    /\ IF Exists(cache) THEN Go("write", Restored(cache, rec.obj, rec.obj.phase))
                        ELSE rec' = Idle
    /\ RecUnchanged /\ UNCHANGED <<api, queued, operations, ops, requeueAt>>

\* Status().Update: an error requeues.  updateStatus drops NotFound; the first
\* status (still pending) is not written through updateStatus.
ReconcileWrite ==
    /\ rec.pc = "write" /\ rec' = Idle
    /\ IF AcceptsStatus(rec.obj)
       THEN CommitStatus(rec.obj) /\ UNCHANGED queued
       ELSE /\ queued' = (queued \/ Exists(store) \/ rec.obj.phase = "pending")
            /\ UNCHANGED api
    /\ RecUnchanged /\ UNCHANGED <<operations, ops, requeueAt>>

-----------------------------------------------------------------------------
(* executeQueryAsync, one goroutine per op.                                *)

\* ctx.Err() of the goroutine's context: canceled, or past its deadline.
CtxExpired(o) == ops[o].uid \in expired       \* mutant: cancellation unnoticed
CtxDone(o) == ops[o].canceled \/ ops[o].uid \in expired

Step(o, from, run) ==
    /\ ops[o].pc \in from
    /\ ops' = [ops EXCEPT ![o] = run]

At(o, pc) == [ops[o] EXCEPT !.pc = pc]
OutcomeNamed(o, phase, resp, tok) ==          \* mutant: a phase out of the enum
    [At(o, "report") EXCEPT !.phase = IF phase = "error" THEN "failed" ELSE phase,
                            !.obj.resp = resp, !.obj.tok = tok]
Outcome(o, phase, resp, tok) ==
    [At(o, "report") EXCEPT !.phase = phase, !.obj.resp = resp, !.obj.tok = tok]

OpUnchanged == UNCHANGED <<cache, queued, rec, requeueAt, expired, counts>>

\* Impersonation, target or dispatch address fails: no response is recorded.
OpResolveFail(o) ==
    /\ Step(o, {"dispatch"}, Outcome(o, "error", ops[o].obj.resp, ops[o].obj.tok))
    /\ OpUnchanged /\ UNCHANGED <<api, operations, engine>>

OpSend(o) ==
    /\ ~CtxDone(o)
    /\ Step(o, {"dispatch"}, At(o, "waiting"))
    /\ engine' = [engine EXCEPT ![o] = "received"]
    /\ OpUnchanged /\ UNCHANGED <<api, operations>>

\* The reply may carry token usage; if not, that of the copy is written again.
OpReply(o) ==
    /\ engine[o] \notin {"replied", "unmetered"}
    /\ \/ /\ Step(o, {"waiting"}, Outcome(o, "done", o, o))
          /\ engine' = [engine EXCEPT ![o] = "replied"]
       \/ /\ Step(o, {"waiting"}, Outcome(o, "done", o, ops[o].obj.tok))
          /\ engine' = [engine EXCEPT ![o] = "unmetered"]
    /\ OpUnchanged /\ UNCHANGED <<api, operations>>

\* spec.timeout, the context's deadline, a transport error, an engine error.
OpFail(o) ==
    /\ Step(o, {"dispatch", "waiting"}, Outcome(o, "error", o, ops[o].obj.tok))
    /\ OpUnchanged /\ UNCHANGED <<api, operations, engine>>

\* context.Canceled, or a panic: the goroutine ends without touching the status.
OpCanceled(o) ==
    /\ ops[o].canceled
    /\ Step(o, {"dispatch", "waiting"}, Leaving(o, "exit"))
    /\ OpUnchanged /\ UNCHANGED <<api, operations, engine>>

OpPanic(o) ==
    /\ Step(o, {"dispatch", "waiting"}, Leaving(o, "exit"))
    /\ OpUnchanged /\ UNCHANGED <<api, operations, engine>>

\* updateStatus: nothing under a finished context; else Get and send the PUT.
OpUpdateStatus(o) ==
    /\ Step(o, {"report"},
            IF CtxDone(o) \/ ~Exists(cache) THEN Leaving(o, "exit")
            ELSE [At(o, "write") EXCEPT
                    !.obj = Restored(cache, ops[o].obj, ops[o].phase)])
    /\ OpUnchanged /\ UNCHANGED <<api, operations, engine>>

\* The PUT commits or is refused; either way the error is dropped.
OpWrite(o) ==
    /\ Step(o, {"write"}, Leaving(o, "exit"))
    /\ IF AcceptsStatus(ops[o].obj) THEN CommitStatus(ops[o].obj) ELSE UNCHANGED api
    /\ OpUnchanged /\ UNCHANGED <<operations, engine>>

\* A context that ends in time aborts the PUT.
OpWriteAborted(o) ==
    /\ CtxDone(o)
    /\ Step(o, {"write"}, Leaving(o, "exit"))
    /\ OpUnchanged /\ UNCHANGED <<api, operations, engine>>

\* The deferred operations.Delete: whatever is stored at the key goes.
KeepEntry    == UNCHANGED operations          \* mutant: no deferred Delete
CleanupCache == operations' = NoOp

OpExit(o) ==
    /\ Step(o, {"exit"}, Ended(o))
    /\ CleanupCache
    /\ OpUnchanged /\ UNCHANGED <<api, engine>>

-----------------------------------------------------------------------------
(* The engine.  It patches the phase by name, without a resourceVersion,    *)
(* and nothing stops it when the controller has given up on the request.    *)

PatchPhase(phase) ==
    IF Exists(store) THEN Commit([store EXCEPT !.started = TRUE, !.phase = phase])
                     ELSE UNCHANGED api

EngineProvision(o) ==
    /\ "provisioning" \in EnginePhases /\ engine[o] = "received" /\ WatchRoom
    /\ PatchPhase("provisioning")
    /\ engine' = [engine EXCEPT ![o] = "provisioning"]
    /\ UNCHANGED <<ctl, expired, counts>>

EngineRun(o) ==
    /\ "running" \in EnginePhases /\ engine[o] \in {"received", "provisioning"} /\ WatchRoom
    /\ PatchPhase("running")
    /\ engine' = [engine EXCEPT ![o] = "running"]
    /\ UNCHANGED <<ctl, expired, counts>>

-----------------------------------------------------------------------------
Init ==
    /\ store = Absent(0) /\ watch = <<>> /\ cache = Absent(0)
    /\ queued = FALSE /\ rec = Idle /\ requeueAt = {} /\ expired = {}
    /\ operations = NoOp
    /\ ops = [o \in Ops |-> NoRun] /\ engine = [o \in Ops |-> "none"]
    /\ lastUid = 0 /\ edits = 0 /\ restarts = 0

Users    == UserCreate \/ UserCancel \/ UserEdit \/ UserDelete
Informer == InformerDeliver \/ InformerRelist \/ InformerResync \/ RequeueTimer
Reconcile ==
    \/ FetchNotFound \/ FetchExpired \/ DeleteExpired \/ AddFinalizer \/ Finalize
    \/ InitConditions \/ HonourCancel \/ SeeTerminal \/ SetRunning
    \/ LeaveRunning \/ ReconcileUpdate \/ ReconcileStatus \/ ReconcileWrite
    \/ \E o \in Ops : StartOperation(o)
Operation(o) ==
    \/ OpResolveFail(o) \/ OpSend(o) \/ OpReply(o) \/ OpFail(o) \/ OpCanceled(o)
    \/ OpPanic(o) \/ OpUpdateStatus(o) \/ OpWrite(o) \/ OpWriteAborted(o) \/ OpExit(o)
Engine(o) == EngineProvision(o) \/ EngineRun(o)

Next ==
    \/ Users \/ TTLExpire \/ Informer \/ ControllerRestart \/ Reconcile
    \/ \E o \in Ops : Operation(o) \/ Engine(o)

Spec == Init /\ [][Next]_vars

\* Watch events and resyncs arrive, the worker serves the queue, goroutines run
\* (every wait in them has a deadline), and ttls pass.  Nothing is assumed of
\* users, engines, panics or restarts.
Fairness ==
    /\ WF_vars(InformerDeliver) /\ WF_vars(InformerResync) /\ WF_vars(RequeueTimer)
    /\ WF_vars(Reconcile) /\ WF_vars(TTLExpire)
    /\ \A o \in Ops : WF_vars(Operation(o))

FairSpec == Spec /\ Fairness

-----------------------------------------------------------------------------
OpPcs   == {"none", "dispatch", "waiting", "report", "write", "exit", "gone"}
Pending == {"dispatch", "waiting", "report", "write"}

Run    == [pc : OpPcs, uid : Nat, obj : Query, canceled : BOOLEAN,
           phase : {"running", "done", "error"}]
Pass   == [pc : {"idle", "expired", "deleted", "update", "status", "write"},
           obj : Query]

\* Every variable holds what the code can put there.
TypeOK ==
    /\ store \in Query /\ cache \in Query /\ watch \in Seq(Query)
    /\ queued \in BOOLEAN /\ operations \in Ops \cup {NoOp}
    /\ rec \in Pass
    /\ ops \in [Ops -> Run]
    /\ engine \in [Ops -> {"none", "received", "provisioning", "running",
                           "replied", "unmetered"}]
    /\ requeueAt \subseteq Nat /\ expired \subseteq Nat
    /\ lastUid \in Nat /\ edits \in Nat /\ restarts \in Nat

\* The operations map never outlives its goroutine, which would make every later
\* reconcile answer "Exists", and (behind the CRD) the query of a registered
\* operation cannot go away before the finalizer has canceled the operation.
RegisteredOperation ==
    operations # NoOp =>
        /\ ops[operations].pc \in Pending \cup {"exit"}
        /\ Backend = "crd" => store.uid = ops[operations].uid /\ store.fin

\* Why RegisteredOperation holds.  The versions on their way to the controller
\* are in order and none is newer than the store; the last one is the store's.
Copies == {cache} \cup {watch[i] : i \in DOMAIN watch}
VersionOrder ==
    /\ cache.rv <= store.rv
    /\ \A i \in DOMAIN watch : cache.rv < watch[i].rv /\ watch[i].rv <= store.rv
    /\ \A i, j \in DOMAIN watch : i < j => watch[i].rv < watch[j].rv
UpToDate(q) == q.rv = store.rv => q.del = store.del

\* A copy that shows a finalizer and no deletion cannot be of a query that is
\* gone, however old the copy is.
FinalizerGuard ==
    /\ ~Exists(store) => ~store.fin
    /\ Backend = "crd" =>
         \A q \in Copies : q.fin /\ ~q.del => store.uid = q.uid /\ store.fin

\* What a reconcile between two of its calls knows of the copy it works on.
MidReconcile ==
    /\ rec.pc \in {"expired", "deleted"} => rec.obj.uid \in expired
    /\ rec.pc \in {"expired", "deleted", "update"} =>
         rec.obj.rv <= cache.rv /\ UpToDate(rec.obj)
    /\ rec.pc = "update" /\ ~rec.obj.fin => rec.obj.del /\ operations = NoOp

\* The finalizer protocol as one inductive invariant: from any state it allows,
\* no step of any party registers an operation for a query that may go away
\* under it.
FinalizerProtocol ==
    /\ TypeOK /\ RegisteredOperation /\ VersionOrder /\ FinalizerGuard /\ MidReconcile
    /\ \A q \in Copies : UpToDate(q)

\* No operation ran for an earlier query of the same name.
FirstOfName(o) == \A p \in Ops : ops[p].pc = "none" \/ ops[p].uid >= ops[o].uid

\* An operation that still works for its query is the registered one, so cancel
\* and delete reach it and no second one runs beside it.  Not so after the name
\* was reused: the deferred operations.Delete of an earlier query's canceled
\* goroutine takes out the entry of its successor.
LiveOperationRegistered ==
    \A o \in Ops :
        ops[o].pc \in Pending /\ ~ops[o].canceled /\ FirstOfName(o) => operations = o

\* updateStatus finds the query by name: still, the response of an operation
\* never ends up in a later query of the same name (with FirstOfName's proviso).
ResponseOfSameQuery ==
    \A o \in Ops :
        store.resp = o /\ FirstOfName(o) => store.uid = ops[o].uid

\* A query reported done carries a response, and the token usage of the execution
\* that gave it, whichever executions and copies raced (restoreOnto); only where that
\* reply came without usage may an older one, or none, be recorded.
DoneIsCoherent ==
    Exists(store) /\ store.phase = "done" =>
        /\ store.resp # NoOp
        /\ store.tok = store.resp \/ engine[store.resp] = "unmetered"

Rank(phase) == CASE phase = "pending" -> 0
                 [] phase \in {"provisioning", "running"} -> 1
                 [] phase \in {"done", "error"} -> 2
                 [] phase = "canceled" -> 3

SameQuery == Exists(store) /\ store'.uid = store.uid

\* Only an engine's patch takes the phase back: not the controller's own two
\* writers, the reconcile and the goroutine, however stale the copies they
\* write from.  In particular nothing the controller does undoes canceled.
PhaseNeverRegresses ==
    [][SameQuery /\ engine' = engine /\ (\A o \in Ops : FirstOfName(o) \/ ops[o].pc = "none")
         => Rank(store'.phase) >= Rank(store.phase)]_<<store, engine, ops>>

\* spec.cancel is eventually honoured, whatever phase the query is in.
CancelHonoured ==
    \A u \in 1..MaxUid :
        store.uid = u /\ store.cancel ~> store.uid # u \/ store.phase = "canceled"

\* A query whose ttl passes is eventually gone, finalizer and all.
ExpiredReclaimed ==
    \A u \in (ShortTTL \ NoTTL) \cap (1..MaxUid) : store.uid = u ~> store.uid # u

\* A started query reaches a terminal phase, by running again if an execution's
\* result was lost; unless all the model's executions are used up.
QuerySettles ==
    \A u \in 1..MaxUid :
        store.uid = u /\ store.phase \in {"provisioning", "running"}
            ~> \/ store.uid # u \/ store.phase \in Terminal
               \/ \A o \in Ops : ops[o].pc # "none"

\* The reference of Query says that status.tokenUsage is "`promptTokens`,
\* `completionTokens`, `totalTokens` from the underlying model call": a query that is
\* done has the usage of the call that gave its response, or none.
UsageOfTheCall ==
    Exists(store) /\ store.phase = "done" => store.tok \in {store.resp, NoOp}

\* "Terminal phases (done, error, canceled) remain controller-only", and a
\* response processed before the executor's patch "is harmless" (design of the
\* provisioning phase): a query once terminal stays terminal.
TerminalIsFinal ==
    [][SameQuery /\ store.phase \in Terminal => store'.phase \in Terminal]_store

\* "WHEN the controller receives a response or error while the Query is still in
\* provisioning phase THEN the controller SHALL set the terminal phase".
Reported(o) == ops[o].pc = "write" /\ ops'[o].pc = "exit" /\ ~CtxDone(o)

ResultMakesTerminal ==
    [][\A o \in Ops :
         Reported(o) /\ SameQuery /\ store.uid = ops[o].uid
           /\ store.phase = "provisioning" /\ ~store.cancel /\ ~store.del
         => store'.phase \in Terminal]_<<store, ops>>
=============================================================================
