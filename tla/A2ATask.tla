-------------------------------- MODULE A2ATask --------------------------------
(***************************************************************************)
(* The life of one A2ATask: the controller polls the A2A server that works *)
(* on the task, copies its state to the task's status, counts failed polls *)
(* in an annotation, and ends the task by its timeout and its ttl          *)
(* (ark/internal/controller/a2atask_controller.go,                         *)
(* ark/internal/a2a/a2a_protocol.go).                                      *)
(*                                                                         *)
(* One worker reconciles a task at a time, on the informer's copy of it;   *)
(* every write of the worker is a step of its own.                         *)
(***************************************************************************)
EXTENDS Naturals, Sequences

CONSTANTS
    MaxLag,    \* bound: versions the informer is behind
    MaxFaults  \* bound: polls that fail, edits by users and restarts of the controller

ASSUME BoundsAssumption == MaxLag \in Nat \ {0} /\ MaxFaults \in Nat

VARIABLES
    backend,   \* where A2ATasks are served: as a CRD or by the aggregated API server
    server,    \* the state of the task at the A2A server
    task,      \* the stored A2ATask
    watch,     \* versions of it the informer has not received yet
    cache,     \* the informer's copy
    queued,    \* the task is in the work queue
    timer,     \* a RequeueAfter is pending
    pc,        \* what the worker does next
    obj,       \* the worker's copy
    fresh,     \* obj has the resourceVersion of the stored task
    changed,   \* the status of obj differs from the snapshot taken before the poll
    timedOut, expired,  \* timeout and ttl have passed
    faults     \* counter behind the bound

clock  == <<timedOut, expired>>
queue  == <<queued, timer>>
worker == <<pc, obj, fresh, changed>>
vars   == <<backend, server, task, watch, cache, queued, timer, pc, obj, fresh, changed,
            timedOut, expired, faults>>

States == {"submitted", "working", "input-required", "completed", "rejected"}
Phases == {"", "pending", "assigned", "running", "input-required", "completed", "failed"}
\* Mutant: a state without a phase.
ConvertUnlisted(state) ==
    CASE state = "submitted" -> "assigned"
      [] state = "working"   -> "running"
      [] OTHER               -> state
ConvertA2AStateToPhase(state) ==
    CASE state = "submitted" -> "assigned"
      [] state = "working"   -> "running"
      [] state = "rejected"  -> "failed"
      [] OTHER               -> state
IsTerminalPhase(phase) == phase \in {"completed", "failed"}

\* completed: the status of the Completed condition, if it is there; failures: the
\* annotation poll-failure-count.
Task == [exists : BOOLEAN, phase : Phases, completed : {"none", "false", "true"},
         failures : 0 .. MaxFaults]
NoTask == [exists |-> FALSE, phase |-> "", completed |-> "none", failures |-> 0]

TypeOK ==
    /\ backend \in {"crd", "postgres"} /\ server \in States
    /\ task \in Task /\ watch \in Seq(Task) /\ cache \in Task /\ obj \in Task
    /\ queued \in BOOLEAN /\ timer \in BOOLEAN /\ fresh \in BOOLEAN /\ changed \in BOOLEAN
    /\ pc \in {"idle", "delete", "begin", "fail", "poll", "record", "reset", "status"}
    /\ timedOut \in BOOLEAN /\ expired \in BOOLEAN /\ faults \in 0 .. MaxFaults

\* A task as HandleA2ATaskResponse creates it, with the server's state in its status, or
\* as a user does, without.  A CRD with a status subresource takes no status from either.
NewTask(phase) == [exists |-> TRUE, phase |-> phase, completed |-> "none", failures |-> 0]
Init ==
    /\ backend \in {"crd", "postgres"} /\ server \in States
    /\ task \in IF backend = "crd" THEN {NewTask("pending")}
               ELSE {NewTask(ConvertA2AStateToPhase(server)), NewTask("")}
    /\ watch = <<task>> /\ cache = NoTask
    /\ queued = FALSE /\ timer = FALSE
    /\ pc = "idle" /\ obj = NoTask /\ fresh = FALSE /\ changed = FALSE
    /\ timedOut = FALSE /\ expired = FALSE /\ faults = 0

-------------------------------------------------------------------------------
(* The world around the controller *)

Fault == faults < MaxFaults /\ faults' = faults + 1

\* A write is taken: watchers are told.
Stored(new) ==
    /\ Len(watch) < MaxLag
    /\ task' = new /\ watch' = Append(watch, new)

ServerWorks ==
    /\ server \notin {"completed", "rejected"}
    /\ server' \in States \ {server, "submitted"}
    /\ UNCHANGED <<backend, task, watch, cache, queue, worker, clock, faults>>

TimePasses ==
    /\ \/ ~timedOut /\ timedOut' = TRUE /\ UNCHANGED expired
       \/ ~expired /\ expired' = TRUE /\ UNCHANGED timedOut
    /\ UNCHANGED <<backend, server, task, watch, cache, queue, worker, faults>>

\* Another write to the object (labels, spec), and its deletion.
UserEdit ==
    /\ Fault /\ task.exists
    /\ Stored(task)
    /\ fresh' = FALSE
    /\ UNCHANGED <<backend, server, cache, queue, pc, obj, changed, clock>>

UserDelete ==
    /\ Fault /\ task.exists
    /\ Stored(NoTask)
    /\ fresh' = FALSE
    /\ UNCHANGED <<backend, server, cache, queue, pc, obj, changed, clock>>

\* The informer receives the next version; each event puts the task into the queue.
InformerDeliver ==
    /\ watch # <<>>
    /\ cache' = Head(watch) /\ watch' = Tail(watch)
    /\ queued' = TRUE
    /\ UNCHANGED <<backend, server, task, timer, worker, clock, faults>>

InformerResync ==
    /\ cache.exists
    /\ queued' = TRUE
    /\ UNCHANGED <<backend, server, task, watch, cache, timer, worker, clock, faults>>

RequeueTimer ==
    /\ timer /\ timer' = FALSE
    /\ queued' = TRUE
    /\ UNCHANGED <<backend, server, task, watch, cache, worker, clock, faults>>

ControllerRestart ==
    /\ Fault
    /\ cache' = task /\ watch' = <<>>
    /\ queued' = task.exists /\ timer' = FALSE
    /\ pc' = "idle" /\ obj' = NoTask /\ fresh' = FALSE /\ changed' = FALSE
    /\ UNCHANGED <<backend, server, task, clock>>

-------------------------------------------------------------------------------
(* Reconcile *)

\* Mutant: no timeout.
DecisionWithoutTimeout(t) ==
    IF ~t.exists                      THEN "idle"
    ELSE IF expired                   THEN "delete"
    ELSE IF t.completed = "none"      THEN "begin"
    ELSE IF IsTerminalPhase(t.phase)  THEN "idle"
    ELSE "poll"
\* Mutant: a task that is over is left alone.
DecisionTerminalFirst(t) ==
    IF ~t.exists \/ IsTerminalPhase(t.phase) THEN "idle"
    ELSE IF expired                   THEN "delete"
    ELSE IF t.completed = "none"      THEN "begin"
    ELSE IF timedOut                  THEN "fail"
    ELSE "poll"
\* What follows from the copy: the ttl comes first, also for a task that is over.
Decision(t) ==
    IF ~t.exists                      THEN "idle"
    ELSE IF expired                   THEN "delete"
    ELSE IF t.completed = "none"      THEN "begin"
    ELSE IF IsTerminalPhase(t.phase)  THEN "idle"
    ELSE IF timedOut                  THEN "fail"
    ELSE "poll"

\* Mutant: the condition is not set.
PreparedNoCondition(t, next) ==
    CASE next = "begin" -> [t EXCEPT !.completed = "false",
                                     !.phase = IF @ = "" THEN "pending" ELSE @]
      [] next = "fail"  -> [t EXCEPT !.phase = "failed"]
      [] OTHER          -> t
\* The worker's copy, with what is set before it is written.
Prepared(t, next) ==
    CASE next = "begin" -> [t EXCEPT !.completed = "false",
                                     !.phase = IF @ = "" THEN "pending" ELSE @]
      [] next = "fail"  -> [t EXCEPT !.completed = "true", !.phase = "failed"]
      [] OTHER          -> t

Reconcile ==
    /\ pc = "idle" /\ queued
    /\ queued' = FALSE
    /\ pc' = Decision(cache)
    /\ obj' = IF pc' = "idle" THEN NoTask ELSE Prepared(cache, pc')
    /\ fresh' = (pc' # "idle" /\ watch = <<>>)
    /\ changed' = FALSE
    /\ UNCHANGED <<backend, server, task, watch, cache, timer, clock, faults>>

\* The reconcile is over: with an error or RequeueAfter the task comes back.
Leave ==
    pc' = "idle" /\ obj' = NoTask /\ fresh' = FALSE /\ changed' = FALSE
Return(again) ==
    /\ Leave
    /\ timer' = (timer \/ again)

\* r.Delete has no precondition.
DeleteExpired ==
    /\ pc = "delete"
    /\ IF task.exists THEN Stored(NoTask) ELSE UNCHANGED <<task, watch>>
    /\ Return(~task.exists)
    /\ UNCHANGED <<backend, server, cache, queued, clock, faults>>

\* Status().Update: a CRD refuses a copy of an older version; the aggregated API server
\* puts any copy's status on the task there is.
\* Mutant: versions are not compared.
StatusTakenAlways == task.exists
StatusTaken == task.exists /\ (backend = "crd" => fresh)
WriteStatus ==
    IF StatusTaken
    THEN Stored([task EXCEPT !.phase = obj.phase, !.completed = obj.completed])
    ELSE UNCHANGED <<task, watch>>

\* The first write of the conditions, and the end by timeout.
BeginOrFail ==
    /\ pc \in {"begin", "fail"}
    /\ WriteStatus
    /\ Return(~StatusTaken)
    /\ UNCHANGED <<backend, server, cache, queued, clock, faults>>

\* updateConditionsAndEvents: set when the phase changes, to one it knows.
Condition(old, new) ==
    IF old.phase = new \/ new = "input-required" THEN old.completed
    ELSE IF IsTerminalPhase(new) THEN "true" ELSE "false"

\* What pollTaskStatus makes of an answer: the status of a working task may change with
\* its history, too.
Polled(t) == LET phase == ConvertA2AStateToPhase(server)
             IN [t EXCEPT !.phase = phase, !.completed = Condition(t, phase), !.failures = 0]

\* The write that comes next, if any.
\* Mutant: the status is written first, and the reset forgotten.
AfterPollStatusFirst(news) == IF news THEN "status" ELSE "reset"
AfterPoll(news) == IF obj.failures > 0 THEN "reset" ELSE "status"

PollAnswered(grown) ==
    LET news == grown \/ Polled(obj).phase # obj.phase
    IN /\ pc = "poll"
       /\ IF obj.failures = 0 /\ ~news
          THEN Return(TRUE)
          ELSE /\ obj' = Polled(obj)
               /\ changed' = news
               /\ pc' = AfterPoll(news)
               /\ UNCHANGED <<fresh, timer>>
       /\ UNCHANGED <<backend, server, task, watch, cache, queued, clock, faults>>

\* ... and when it does not, the A2AServer has no address, or the answer is an error.
PollFailed ==
    /\ Fault /\ pc = "poll"
    /\ obj' = [obj EXCEPT !.failures = @ + 1]
    /\ pc' = "record"
    /\ UNCHANGED <<backend, server, task, watch, cache, queue, fresh, changed, clock>>

\* r.Update: refused for a copy of an older version; a CRD leaves the status alone.
UpdateTaken == task.exists /\ fresh
Updated == IF backend = "crd" THEN [task EXCEPT !.failures = obj.failures] ELSE obj

\* handlePollFailure: an error of the update is logged only.
RecordFailure ==
    /\ pc = "record"
    /\ IF UpdateTaken THEN Stored(Updated) ELSE UNCHANGED <<task, watch>>
    /\ Return(TRUE)
    /\ UNCHANGED <<backend, server, cache, queued, clock, faults>>

\* pollTaskStatus resets the count: on success the answer replaces the copy, with the
\* status the server has; an error is logged only.
ResetFailures ==
    /\ pc = "reset"
    /\ IF UpdateTaken
       THEN /\ Stored(Updated)
            /\ LET differs == changed /\ backend = "postgres"
               IN IF differs
                  THEN pc' = "status" /\ obj' = Updated /\ UNCHANGED <<fresh, changed, timer>>
                  ELSE Return(~IsTerminalPhase(Updated.phase))
       ELSE /\ UNCHANGED <<task, watch>>
            /\ IF changed THEN pc' = "status" /\ UNCHANGED <<obj, fresh, changed, timer>>
                          ELSE Return(~IsTerminalPhase(obj.phase))
    /\ UNCHANGED <<backend, server, cache, queued, clock, faults>>

WritePolled ==
    /\ pc = "status"
    /\ WriteStatus
    /\ Return(~StatusTaken \/ ~IsTerminalPhase(obj.phase))
    /\ UNCHANGED <<backend, server, cache, queued, clock, faults>>

-------------------------------------------------------------------------------

Work ==
    \/ Reconcile \/ DeleteExpired \/ BeginOrFail
    \/ (\E grown \in BOOLEAN : PollAnswered(grown)) \/ RecordFailure \/ ResetFailures \/ WritePolled

Next ==
    \/ ServerWorks \/ TimePasses \/ UserEdit \/ UserDelete
    \/ InformerDeliver \/ InformerResync \/ RequeueTimer \/ ControllerRestart
    \/ Work \/ PollFailed

Spec == Init /\ [][Next]_vars

\* Events are delivered, timers and resyncs come, and the worker goes on; a poll is
\* answered in the end.
Fairness ==
    /\ WF_vars(InformerDeliver) /\ WF_vars(InformerResync) /\ WF_vars(RequeueTimer)
    /\ WF_vars(Work)
FairSpec == Spec /\ Fairness

-------------------------------------------------------------------------------
(* Properties *)

\* A task that is over stays as it is, whatever an older copy of it or a late poll says,
\* where writes of older copies are refused (reconcileTimeout, pollTaskStatus).
TerminalStays ==
    [][(backend = "crd" /\ IsTerminalPhase(task.phase) /\ task'.exists)
       => task'.phase = task.phase]_vars

\* The Completed condition says whether the task is over (a2atask_types.go Conditions);
\* behind the aggregated API server a task may be created as over and never say so.
ConditionAgrees ==
    (backend = "crd" /\ task.exists) =>
        (task.completed = "true" <=> IsTerminalPhase(task.phase))

\* A task that was completed by its server carries no count of failed polls, although the
\* count is written apart from the status and its errors are only logged (pollTaskStatus).
CompletedIsReset ==
    (backend = "crd" /\ task.phase = "completed") => task.failures = 0

\* A task whose server is done with it, or whose timeout has passed, is over in the end,
\* whatever fails on the way (pollTaskStatus, reconcileTimeout).
Settles ==
    (server \in {"completed", "rejected"} \/ timedOut)
    ~> (~task.exists \/ IsTerminalPhase(task.phase))

\* An expired task is removed in the end, also one that is over and has no timer left
\* (reconcileTTL).
ExpiredRemoved == expired ~> ~task.exists
===============================================================================
