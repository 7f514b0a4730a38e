----------------------------- MODULE A2ATaskProofs -----------------------------
(* Theorems of A2ATask, for every lag of the informer and number of faults. *)
EXTENDS A2ATask, SequenceTheorems, TLAPS

-------------------------------------------------------------------------------
(* The inductive invariant.                                                *)

\* What holds of every version of the task, whoever has it: no more failures are counted
\* than there were, and, behind a CRD, the condition agrees with the phase.
Agrees(t) == backend = "crd" => (t.completed = "true" <=> IsTerminalPhase(t.phase))
Sound == {t \in Task : t.failures <= faults /\ Agrees(t)}
VersionsSound ==
    task \in Sound /\ cache \in Sound /\ obj \in Sound /\ watch \in Seq(Sound)

\* The newest version is the last one on its way to the informer, or the informer's.
Newest == IF watch = <<>> THEN cache = task ELSE watch[Len(watch)] = task

\* What the worker knows of its copy ...
CopyInHand ==
    /\ pc = "idle" => ~fresh
    /\ pc # "idle" => obj.exists
    /\ pc = "poll" => ~IsTerminalPhase(obj.phase)
    /\ pc = "reset" => obj.failures = 0
    /\ (backend = "crd" /\ pc \in {"begin", "fail"}) => obj.phase # "completed"

\* ... and, while it is the newest version, of the stored task: a write that a CRD would
\* take finds a task that is not over, and the last one a count that was reset.
CopyIsNewest ==
    fresh =>
        /\ task.exists
        /\ backend = "crd" =>
              /\ pc # "delete" => ~IsTerminalPhase(task.phase)
              /\ pc = "poll" => obj.failures = task.failures
              /\ pc = "status" => task.failures = 0

Inv == TypeOK /\ VersionsSound /\ Newest /\ CopyInHand /\ CopyIsNewest /\ CompletedIsReset

LEMMA NewTaskType == NoTask \in Task /\ \A phase \in Phases : NewTask(phase) \in Task
BY BoundsAssumption DEF NewTask, NoTask, Task, Phases

LEMMA NoTaskSound == ASSUME faults \in Nat PROVE NoTask \in Sound
<1>1. NoTask.failures = 0 /\ NoTask.completed = "none" /\ NoTask.phase = ""
  BY DEF NoTask
<1>2. Agrees(NoTask)
  BY <1>1, Zenon DEF Agrees, IsTerminalPhase
<1>3. NoTask \in Task
  BY NewTaskType
<1>4. NoTask.failures <= faults
  BY DEF NoTask
<1>. QED  BY <1>2, <1>3, <1>4 DEF Sound

LEMMA InitInv == Init => Inv
<1>. SUFFICES ASSUME Init PROVE Inv
  OBVIOUS
<1>1. ConvertA2AStateToPhase(server) \in Phases
  BY Zenon DEF Init, States, ConvertA2AStateToPhase, Phases
<1>2. \E phase \in Phases : task = NewTask(phase)
  <2>1. CASE backend = "crd"
    BY <2>1 DEF Init, Phases
  <2>2. CASE backend # "crd"
    BY <1>1, <2>2, Zenon DEF Init, Phases
  <2>. QED  BY <2>1, <2>2
<1>3. task \in Task /\ NoTask \in Task /\ watch = <<task>> /\ faults = 0
  BY <1>2, NewTaskType, Zenon DEF Init
<1>4. TypeOK
  <2>1. watch \in Seq(Task) /\ faults \in 0 .. MaxFaults
    BY <1>3, BoundsAssumption
  <2>. QED  BY <1>3, <2>1, Zenon DEF Init, TypeOK
<1>5. task.failures = 0 /\ task.completed = "none"
  BY <1>2 DEF NewTask
<1>6. backend = "crd" => ~IsTerminalPhase(task.phase)
  BY DEF Init, NewTask, IsTerminalPhase
<1>7. NoTask \in Sound /\ task \in Sound
  <2>1. Agrees(task)
    BY <1>5, <1>6 DEF Agrees
  <2>. QED  BY <1>3, <1>5, <2>1, NoTaskSound DEF Sound
<1>8. VersionsSound /\ Newest
  <2>1. watch \in Seq(Sound) /\ watch # <<>> /\ watch[Len(watch)] = task
    BY <1>3, <1>7
  <2>. QED  BY <1>7, <2>1, Zenon DEF Init, VersionsSound, Newest
<1>9. CopyInHand /\ CopyIsNewest /\ CompletedIsReset
  BY <1>5, Zenon DEF Init, CopyInHand, CopyIsNewest, CompletedIsReset
<1>. QED  BY <1>4, <1>8, <1>9 DEF Inv

-------------------------------------------------------------------------------
(* Lemmas on the operators.                                                *)

\* More faults make no version unsound.
LEMMA SoundGrows ==
    ASSUME TypeOK, faults' \in Nat, faults <= faults', backend' = backend
    PROVE  Sound \subseteq Sound' /\ Seq(Sound) \subseteq Seq(Sound')
<1>1. ASSUME NEW t \in Sound PROVE t \in Sound'
  <2>1. t \in Task /\ t.failures \in Nat /\ t.failures <= faults /\ faults \in Nat
    BY BoundsAssumption DEF Sound, Task, TypeOK
  <2>2. Agrees(t)'
    BY DEF Sound, Agrees
  <2>. QED  BY <2>1, <2>2 DEF Sound
<1>. QED  BY <1>1

\* A write that is taken is sound if the new version is, and it is the newest.
LEMMA StoredSound ==
    ASSUME Inv, NEW new \in Sound, Stored(new), UNCHANGED <<backend, faults>>
    PROVE  /\ task' \in Sound' /\ watch' \in Seq(Sound')
           /\ task' \in Task /\ watch' \in Seq(Task)
           /\ watch' # <<>> /\ watch'[Len(watch')] = task'
<1>1. Sound' = Sound
  BY DEF Sound, Agrees
<1>. QED  BY <1>1 DEF Inv, VersionsSound, Stored, Sound

\* The worker's decision, and the copy it prepares.
LEMMA DecisionLemma ==
    LET next == Decision(cache)
    IN /\ next \in {"idle", "delete", "begin", "fail", "poll"}
       /\ next # "idle" => cache.exists
       /\ next = "begin" => cache.completed = "none"
       /\ next \in {"fail", "poll"} => ~IsTerminalPhase(cache.phase)
BY DEF Decision

LEMMA PreparedSound ==
    ASSUME Inv, NEW next, next = Decision(cache), NEW t, t = Prepared(cache, next)
    PROVE  /\ t \in Sound /\ t.exists = cache.exists
           /\ next = "poll" => t = cache
           /\ (backend = "crd" /\ next \in {"begin", "fail"}) => t.phase # "completed"
           /\ (backend = "crd" /\ next \notin {"idle", "delete"}) => ~IsTerminalPhase(cache.phase)
<1>1. cache \in Sound /\ cache \in Task /\ cache.failures <= faults /\ Agrees(cache)
  BY DEF Inv, VersionsSound, Sound
<1>2. CASE next = "begin"
  <2>1. t = [cache EXCEPT !.completed = "false",
                          !.phase = IF cache.phase = "" THEN "pending" ELSE cache.phase]
    BY <1>2 DEF Prepared
  <2>2. t \in Task /\ t.failures = cache.failures /\ t.exists = cache.exists
    BY <1>1, <2>1, Zenon DEF Task, Phases
  <2>3. backend = "crd" => ~IsTerminalPhase(cache.phase)
    BY <1>1, <1>2, DecisionLemma DEF Agrees
  <2>4. backend = "crd" => t.completed = "false" /\ ~IsTerminalPhase(t.phase)
    BY <1>1, <2>1, <2>3, Zenon DEF Task, IsTerminalPhase
  <2>5. Agrees(t) /\ t.failures <= faults
    BY <1>1, <2>2, <2>4 DEF Agrees
  <2>. QED  BY <1>2, <2>2, <2>3, <2>4, <2>5 DEF Sound, IsTerminalPhase
<1>3. CASE next = "fail"
  <2>1. t = [cache EXCEPT !.completed = "true", !.phase = "failed"]
    BY <1>3 DEF Prepared
  <2>2. t \in Task /\ t.failures = cache.failures /\ t.exists = cache.exists
        /\ t.completed = "true" /\ t.phase = "failed"
    BY <1>1, <2>1, Zenon DEF Task, Phases
  <2>3. Agrees(t) /\ t.failures <= faults
    BY <1>1, <2>2 DEF Agrees, IsTerminalPhase
  <2>. QED  BY <1>3, <2>2, <2>3, DecisionLemma DEF Sound
<1>4. CASE next \notin {"begin", "fail"}
  <2>1. t = cache
    BY <1>4 DEF Prepared
  <2>. QED  BY <1>1, <1>4, <2>1, DecisionLemma
<1>. QED  BY <1>2, <1>3, <1>4

LEMMA PolledSound ==
    ASSUME Inv, pc = "poll"
    PROVE  Polled(obj) \in Sound /\ Polled(obj).failures = 0 /\ Polled(obj).exists
<1>1. obj \in Sound /\ obj \in Task /\ ~IsTerminalPhase(obj.phase) /\ obj.exists
  BY DEF Inv, VersionsSound, TypeOK, CopyInHand
<1>2. ConvertA2AStateToPhase(server) \in Phases
  BY Zenon DEF Inv, TypeOK, States, ConvertA2AStateToPhase, Phases
<1>3. 0 <= faults /\ 0 \in 0 .. MaxFaults
  BY BoundsAssumption DEF Inv, TypeOK
<1>. QED  BY <1>1, <1>2, <1>3 DEF Sound, Agrees, Task, Polled, Condition, IsTerminalPhase

\* The two kinds of write a CRD or the aggregated API server makes of the copy.
LEMMA WrittenSound ==
    ASSUME Inv, task.exists, pc # "idle"
    PROVE  /\ [task EXCEPT !.phase = obj.phase, !.completed = obj.completed] \in Sound
           /\ Updated \in Sound
BY DEF Inv, VersionsSound, Sound, Agrees, Task, Updated

\* With nothing written, the versions stay sound.
LEMMA SameSound ==
    ASSUME Inv, UNCHANGED <<backend, task, watch>>, faults' \in Nat, faults <= faults'
    PROVE  /\ task' \in Sound' /\ watch' \in Seq(Sound') /\ cache \in Sound' /\ obj \in Sound'
           /\ \A t \in Sound : t \in Sound'
BY SoundGrows DEF Inv, VersionsSound

LEMMA FaultType == ASSUME TypeOK, Fault PROVE faults' \in 0 .. MaxFaults /\ faults <= faults'
BY BoundsAssumption DEF TypeOK, Fault

-------------------------------------------------------------------------------
(* The steps.                                                              *)

\* Users' writes: the copies of the worker and of the informer grow old.
LEMMA UserStep == ASSUME Inv, UserEdit \/ UserDelete PROVE Inv'
<1>1. \E new \in Sound : /\ Stored(new)
                         /\ new = task \/ new = NoTask
  BY NoTaskSound, BoundsAssumption DEF Inv, TypeOK, VersionsSound, UserEdit, UserDelete
<1>2. PICK new \in Sound : Stored(new) /\ (new = task \/ new = NoTask)
  BY <1>1
<1>3. /\ UNCHANGED <<backend, server, cache, queued, timer, pc, obj, changed, timedOut, expired>>
      /\ Fault /\ fresh' = FALSE
  BY DEF UserEdit, UserDelete, queue, clock
<1>4. faults' \in 0 .. MaxFaults /\ Sound \subseteq Sound' /\ Seq(Sound) \subseteq Seq(Sound')
  BY <1>3, FaultType, SoundGrows, BoundsAssumption DEF Inv
<1>5. /\ task' = new /\ watch' \in Seq(Sound)
      /\ watch' # <<>> /\ watch'[Len(watch')] = task'
  BY <1>2 DEF Stored, Inv, VersionsSound
<1>6. VersionsSound'
  BY <1>3, <1>4, <1>5 DEF Inv, VersionsSound
<1>7. TypeOK'
  <2>1. task' \in Task /\ watch' \in Seq(Task)
    BY <1>5 DEF Sound
  <2>. QED  BY <1>3, <1>4, <2>1 DEF Inv, TypeOK
<1>8. Newest'
  BY <1>5 DEF Newest
<1>9. CompletedIsReset'
  <2>1. CASE new = task
    BY <1>3, <1>5, <2>1 DEF Inv, CompletedIsReset
  <2>2. CASE new = NoTask
    <3>1. task' = NoTask
      BY <1>5, <2>2
    <3>2. NoTask.phase = ""
      BY DEF NoTask
    <3>. QED  BY <3>1, <3>2, Zenon DEF CompletedIsReset
  <2>. QED  BY <1>2, <2>1, <2>2
<1>10. CopyInHand' /\ CopyIsNewest'
  BY <1>3 DEF Inv, CopyInHand, CopyIsNewest, IsTerminalPhase
<1>. QED  BY <1>6, <1>7, <1>8, <1>9, <1>10 DEF Inv

\* The server, the clock, the informer, timers and a restart.
LEMMA WorldStep ==
    ASSUME Inv, ServerWorks \/ TimePasses \/ InformerDeliver \/ InformerResync \/ RequeueTimer
    PROVE  Inv'
<1>1. /\ UNCHANGED <<backend, task, faults, pc, obj, fresh, changed>>
      /\ server' \in States /\ queued' \in BOOLEAN /\ timer' \in BOOLEAN
      /\ timedOut' \in BOOLEAN /\ expired' \in BOOLEAN
  BY DEF Inv, TypeOK, ServerWorks, TimePasses, InformerDeliver, InformerResync, RequeueTimer,
         queue, worker, clock, States
<1>2. Sound' = Sound
  BY <1>1 DEF Sound, Agrees
<1>3. \/ UNCHANGED <<watch, cache>>
      \/ watch # <<>> /\ cache' = Head(watch) /\ watch' = Tail(watch)
  BY DEF ServerWorks, TimePasses, InformerDeliver, InformerResync, RequeueTimer
<1>4. watch' \in Seq(Sound) /\ cache' \in Sound /\ watch' \in Seq(Task) /\ cache' \in Task
  BY <1>3 DEF Inv, TypeOK, VersionsSound
<1>5. TypeOK' /\ VersionsSound'
  BY <1>1, <1>2, <1>4 DEF Inv, TypeOK, VersionsSound
<1>6. Newest'
  <2>1. CASE UNCHANGED <<watch, cache>>
    BY <1>1, <2>1 DEF Inv, Newest
  <2>2. CASE watch # <<>> /\ cache' = Head(watch) /\ watch' = Tail(watch)
    <3>1. watch \in Seq(Sound) /\ watch[Len(watch)] = task
      BY <2>2 DEF Inv, VersionsSound, Newest
    <3>2. CASE Len(watch) = 1
      BY <1>1, <2>2, <3>1, <3>2 DEF Newest
    <3>3. CASE Len(watch) # 1
      <4>1. /\ Tail(watch) \in Seq(Sound) /\ Len(Tail(watch)) = Len(watch) - 1
            /\ \A i \in 1 .. Len(Tail(watch)) : Tail(watch)[i] = watch[i + 1]
        BY <2>2, <3>1, HeadTailProperties
      <4>2. Len(watch) \in Nat /\ Len(watch) >= 2
        <5>1. Len(watch) \in Nat \ {0}
          BY <2>2, <3>1, EmptySeq
        <5>2. \A n \in Nat \ {0} : n # 1 => n \in Nat /\ n >= 2
          OBVIOUS
        <5>. QED  BY <3>3, <5>1, <5>2
      <4>3. Len(watch) - 1 \in 1 .. Len(Tail(watch)) /\ Len(watch) - 1 + 1 = Len(watch)
        BY <4>1, <4>2
      <4>4. Tail(watch)[Len(watch) - 1] = watch[Len(watch)]
        BY <4>1, <4>3
      <4>5. Tail(watch) # <<>>
        <5>1. Len(Tail(watch)) # 0
          BY <4>1, <4>2
        <5>. QED  BY <5>1, EmptySeq
      <4>. QED  BY <1>1, <2>2, <3>1, <4>1, <4>4, <4>5 DEF Newest
    <3>. QED  BY <3>2, <3>3
  <2>. QED  BY <1>3, <2>1, <2>2
<1>7. CopyInHand' /\ CopyIsNewest' /\ CompletedIsReset'
  BY <1>1 DEF Inv, CopyInHand, CopyIsNewest, CompletedIsReset, IsTerminalPhase
<1>. QED  BY <1>5, <1>6, <1>7 DEF Inv

LEMMA RestartStep == ASSUME Inv, ControllerRestart PROVE Inv'
<1>1. /\ UNCHANGED <<backend, server, task, timedOut, expired>> /\ Fault
      /\ cache' = task /\ watch' = <<>> /\ queued' = task.exists /\ timer' = FALSE
      /\ pc' = "idle" /\ obj' = NoTask /\ fresh' = FALSE /\ changed' = FALSE
  BY DEF ControllerRestart, clock
<1>2. faults' \in 0 .. MaxFaults /\ Sound \subseteq Sound' /\ NoTask \in Sound
  BY <1>1, FaultType, SoundGrows, NoTaskSound, BoundsAssumption DEF Inv, TypeOK
<1>3. VersionsSound'
  BY <1>1, <1>2 DEF Inv, VersionsSound
<1>4. TypeOK'
  <2>1. task.exists \in BOOLEAN /\ task \in Task
    BY DEF Inv, TypeOK, Task
  <2>2. NoTask \in Task /\ <<>> \in Seq(Task)
    BY NewTaskType
  <2>. QED  BY <1>1, <1>2, <2>1, <2>2 DEF Inv, TypeOK
<1>5. Newest' /\ CopyInHand' /\ CopyIsNewest' /\ CompletedIsReset'
  BY <1>1 DEF Inv, Newest, CopyInHand, CopyIsNewest, CompletedIsReset
<1>. QED  BY <1>3, <1>4, <1>5 DEF Inv

LEMMA ReconcileStep == ASSUME Inv, Reconcile PROVE Inv'
<1> DEFINE next == Decision(cache)
           t    == Prepared(cache, next)
<1>1. /\ UNCHANGED <<backend, server, task, watch, cache, timer, timedOut, expired, faults>>
      /\ queued' = FALSE /\ changed' = FALSE
      /\ pc' = next /\ obj' = IF next = "idle" THEN NoTask ELSE t
      /\ fresh' = (next # "idle" /\ watch = <<>>)
  BY DEF Reconcile, clock
<1>2. /\ next \in {"idle", "delete", "begin", "fail", "poll"}
      /\ next # "idle" => cache.exists
      /\ next \in {"fail", "poll"} => ~IsTerminalPhase(cache.phase)
  BY DecisionLemma
<1>3. /\ t \in Sound /\ t.exists = cache.exists
      /\ next = "poll" => t = cache
      /\ (backend = "crd" /\ next \in {"begin", "fail"}) => t.phase # "completed"
      /\ (backend = "crd" /\ next \notin {"idle", "delete"}) => ~IsTerminalPhase(cache.phase)
  BY PreparedSound
<1>. HIDE DEF next, t
<1>4. NoTask \in Sound /\ Sound' = Sound
  BY <1>1, NoTaskSound, BoundsAssumption DEF Inv, TypeOK, Sound, Agrees
<1>5. obj' \in Sound
  BY <1>1, <1>3, <1>4
<1>6. VersionsSound'
  BY <1>1, <1>4, <1>5 DEF Inv, VersionsSound
<1>7. TypeOK'
  <2>1. obj' \in Task
    BY <1>5 DEF Sound
  <2>2. fresh' \in BOOLEAN
    BY <1>1
  <2>. QED  BY <1>1, <1>2, <2>1, <2>2 DEF Inv, TypeOK
<1>8. fresh' => cache = task
  BY <1>1 DEF Inv, Newest
<1>9. CopyInHand'
  BY <1>1, <1>2, <1>3 DEF CopyInHand, IsTerminalPhase
<1>10. CopyIsNewest'
  BY <1>1, <1>2, <1>3, <1>8 DEF CopyIsNewest, IsTerminalPhase
<1>11. Newest' /\ CompletedIsReset'
  BY <1>1 DEF Inv, Newest, CompletedIsReset
<1>. QED  BY <1>6, <1>7, <1>9, <1>10, <1>11 DEF Inv

\* The worker's answers from the server.
LEMMA PollStep ==
    ASSUME Inv, PollFailed \/ (\E grown \in BOOLEAN : PollAnswered(grown))
    PROVE  Inv'
<1>1. obj \in Sound /\ obj \in Task /\ obj.failures \in Nat /\ obj.failures <= faults
      /\ Agrees(obj) /\ faults \in Nat
  BY BoundsAssumption DEF Inv, TypeOK, VersionsSound, Sound, Task
<1>2. CASE PollFailed
  <2>. PICK counted : counted = [obj EXCEPT !.failures = obj.failures + 1]
    OBVIOUS
  <2>1. /\ UNCHANGED <<backend, server, task, watch, cache, queued, timer, fresh, changed,
                       timedOut, expired>>
        /\ Fault /\ pc = "poll" /\ pc' = "record" /\ obj' = counted
    BY <1>2 DEF PollFailed, queue, clock
  <2>2. faults' = faults + 1 /\ faults' \in 0 .. MaxFaults
    BY <2>1, FaultType DEF Inv, Fault
  <2>3. counted.failures \in 0 .. MaxFaults /\ counted.failures <= faults'
    BY <1>1, <2>2, BoundsAssumption DEF Task
  <2>4. counted \in Task /\ counted.exists = obj.exists
    BY <1>1, <2>3 DEF Task
  <2>5. Agrees(counted)'
    BY <1>1, <2>1 DEF Agrees, Task
  <2>6. counted \in Sound'
    BY <2>3, <2>4, <2>5 DEF Sound
  <2>7. VersionsSound'
    <3>1. faults' \in Nat /\ faults <= faults'
      BY <1>1, <2>2
    <3>2. task' \in Sound' /\ watch' \in Seq(Sound') /\ cache \in Sound'
      BY <2>1, <3>1, SameSound
    <3>. QED  BY <2>1, <2>6, <3>2 DEF VersionsSound
  <2>8. TypeOK'
    BY <2>1, <2>2, <2>4 DEF Inv, TypeOK
  <2>9. Newest' /\ CopyInHand' /\ CopyIsNewest' /\ CompletedIsReset'
    BY <2>1, <2>4 DEF Inv, Newest, CopyInHand, CopyIsNewest, CompletedIsReset, IsTerminalPhase
  <2>. QED  BY <2>7, <2>8, <2>9 DEF Inv
<1>3. ASSUME NEW grown \in BOOLEAN, PollAnswered(grown) PROVE Inv'
  <2> DEFINE news == grown \/ Polled(obj).phase # obj.phase
  <2>1. /\ UNCHANGED <<backend, server, task, watch, cache, queued, timedOut, expired, faults>>
        /\ pc = "poll"
    BY <1>3 DEF PollAnswered, clock
  <2>2. Sound' = Sound /\ NoTask \in Sound /\ NoTask \in Task
    BY <1>1, <2>1, NoTaskSound, NewTaskType DEF Sound, Agrees
  <2>3. CASE obj.failures = 0 /\ ~news
    <3>1. pc' = "idle" /\ obj' = NoTask /\ fresh' = FALSE /\ changed' = FALSE /\ timer' = TRUE
      BY <1>3, <2>3 DEF PollAnswered, Return, Leave
    <3>. QED
      BY <2>1, <2>2, <3>1 DEF Inv, TypeOK, VersionsSound, Newest, CopyInHand, CopyIsNewest,
                              CompletedIsReset
  <2>4. CASE ~(obj.failures = 0 /\ ~news)
    <3>1. /\ obj' = Polled(obj) /\ changed' = news /\ UNCHANGED <<fresh, timer>>
          /\ pc' = IF obj.failures > 0 THEN "reset" ELSE "status"
      BY <1>3, <2>4 DEF PollAnswered, AfterPoll
    <3>2. Polled(obj) \in Sound /\ Polled(obj).failures = 0 /\ Polled(obj).exists
      BY <2>1, PolledSound
    <3>3. TypeOK' /\ VersionsSound'
      <4>1. obj' \in Task /\ changed' \in BOOLEAN /\ pc' \in {"reset", "status"}
        BY <3>1, <3>2 DEF Sound
      <4>. QED  BY <2>1, <2>2, <3>1, <3>2, <4>1 DEF Inv, TypeOK, VersionsSound
    <3>4. Newest' /\ CompletedIsReset'
      BY <2>1 DEF Inv, Newest, CompletedIsReset
    <3>5. CopyInHand'
      BY <3>1, <3>2 DEF CopyInHand
    <3>6. CopyIsNewest'
      <4>1. pc' = "status" => obj.failures = 0
        BY <1>1, <3>1
      <4>. QED  BY <2>1, <3>1, <4>1 DEF Inv, CopyIsNewest, IsTerminalPhase
    <3>. QED  BY <3>3, <3>4, <3>5, <3>6 DEF Inv
  <2>. QED  BY <2>3, <2>4
<1>. QED  BY <1>2, <1>3

\* The worker's last write of a reconcile, taken or not.
LEMMA LastWriteStep ==
    ASSUME Inv, pc # "idle", NEW new \in Sound,
           Stored(new) \/ UNCHANGED <<task, watch>>, Leave, timer' \in BOOLEAN,
           UNCHANGED <<backend, server, cache, queued, timedOut, expired, faults>>,
           (backend = "crd" /\ task' = new /\ new.phase = "completed")
              => new.failures = 0 \/ task = new
    PROVE  Inv'
<1>1. Sound' = Sound
  BY DEF Sound, Agrees
<1>2. pc' = "idle" /\ obj' = NoTask /\ fresh' = FALSE /\ changed' = FALSE
  BY DEF Leave
<1>3. NoTask \in Sound /\ NoTask \in Task
  BY NoTaskSound, NewTaskType, BoundsAssumption DEF Inv, TypeOK
<1>4. /\ task' \in Sound /\ watch' \in Seq(Sound) /\ task' \in Task /\ watch' \in Seq(Task)
      /\ Newest'
  <2>1. CASE Stored(new)
    BY <1>1, <2>1, StoredSound DEF Newest
  <2>2. CASE UNCHANGED <<task, watch>>
    BY <2>2 DEF Inv, TypeOK, VersionsSound, Newest
  <2>. QED  BY <2>1, <2>2
<1>5. TypeOK' /\ VersionsSound'
  BY <1>1, <1>2, <1>3, <1>4 DEF Inv, TypeOK, VersionsSound
<1>6. CopyInHand' /\ CopyIsNewest'
  BY <1>2 DEF CopyInHand, CopyIsNewest
<1>7. CompletedIsReset'
  <2>1. task' = new \/ task' = task
    BY DEF Stored
  <2>. QED  BY <2>1 DEF Inv, CompletedIsReset
<1>. QED  BY <1>4, <1>5, <1>6, <1>7 DEF Inv

LEMMA DeleteStep == ASSUME Inv, DeleteExpired PROVE Inv'
<1>1. NoTask \in Sound
  BY NoTaskSound, BoundsAssumption DEF Inv, TypeOK
<1>3. NoTask.failures = 0
  BY DEF NoTask
<1>2. /\ Stored(NoTask) \/ UNCHANGED <<task, watch>>
      /\ Leave /\ timer' \in BOOLEAN /\ pc # "idle"
      /\ UNCHANGED <<backend, server, cache, queued, timedOut, expired, faults>>
  BY DEF DeleteExpired, Return, clock, Inv, TypeOK
<1>. QED  BY <1>1, <1>2, <1>3, LastWriteStep

\* A status write is of a copy in hand.
LEMMA StatusStep == ASSUME Inv, BeginOrFail \/ WritePolled PROVE Inv'
<1> DEFINE new == [task EXCEPT !.phase = obj.phase, !.completed = obj.completed]
<1>1. /\ (StatusTaken /\ Stored(new)) \/ (~StatusTaken /\ UNCHANGED <<task, watch>>)
      /\ Leave /\ timer' \in BOOLEAN /\ pc \in {"begin", "fail", "status"}
      /\ UNCHANGED <<backend, server, cache, queued, timedOut, expired, faults>>
  BY DEF BeginOrFail, WritePolled, WriteStatus, Return, clock, Inv, TypeOK
<1>2. CASE StatusTaken /\ Stored(new)
  <2>1. new \in Sound
    BY <1>1, <1>2, WrittenSound DEF StatusTaken
  <2>2. new.phase = obj.phase /\ new.failures = task.failures
    BY DEF Inv, TypeOK, Task
  <2>3. (backend = "crd" /\ new.phase = "completed") => new.failures = 0
    BY <1>1, <1>2, <2>2 DEF Inv, CopyInHand, CopyIsNewest, StatusTaken
  <2>. HIDE DEF new
  <2>. QED  BY <1>1, <1>2, <2>1, <2>3, LastWriteStep
<1>3. CASE ~StatusTaken /\ UNCHANGED <<task, watch>>
  <2>1. task \in Sound
    BY DEF Inv, VersionsSound
  <2>. QED  BY <1>1, <1>3, <2>1, LastWriteStep
<1>. QED  BY <1>1, <1>2, <1>3

\* An update of the object behind a CRD finds it not over; elsewhere it is the copy.
LEMMA RecordStep == ASSUME Inv, RecordFailure PROVE Inv'
<1>1. /\ (UpdateTaken /\ Stored(Updated)) \/ (~UpdateTaken /\ UNCHANGED <<task, watch>>)
      /\ Leave /\ timer' \in BOOLEAN /\ pc = "record"
      /\ UNCHANGED <<backend, server, cache, queued, timedOut, expired, faults>>
  BY DEF RecordFailure, Return, clock, Inv, TypeOK
<1>2. CASE UpdateTaken /\ Stored(Updated)
  <2>1. Updated \in Sound
    BY <1>1, <1>2, WrittenSound DEF UpdateTaken
  <2>2. backend = "crd" => Updated.phase # "completed"
    <3>1. backend = "crd" => Updated.phase = task.phase
      BY DEF Updated, Inv, TypeOK, Task
    <3>. QED  BY <1>1, <1>2, <3>1 DEF Inv, CopyIsNewest, UpdateTaken, IsTerminalPhase
  <2>. QED  BY <1>1, <1>2, <2>1, <2>2, LastWriteStep
<1>3. CASE ~UpdateTaken /\ UNCHANGED <<task, watch>>
  <2>1. task \in Sound
    BY DEF Inv, VersionsSound
  <2>. QED  BY <1>1, <1>3, <2>1, LastWriteStep
<1>. QED  BY <1>1, <1>2, <1>3

LEMMA ResetStep == ASSUME Inv, ResetFailures PROVE Inv'
<1>1. /\ UNCHANGED <<backend, server, cache, queued, timedOut, expired, faults>>
      /\ pc = "reset" /\ obj.failures = 0 /\ obj.exists /\ obj \in Sound
  BY DEF ResetFailures, clock, Inv, CopyInHand, VersionsSound
<1>2. Sound' = Sound
  BY <1>1 DEF Sound, Agrees
<1>3. CASE Leave
  <2>1. /\ (Stored(Updated) /\ UpdateTaken) \/ UNCHANGED <<task, watch>>
        /\ timer' \in BOOLEAN
    BY <1>1, <1>3 DEF ResetFailures, Return, Leave, Inv, TypeOK
  <2>2. CASE Stored(Updated) /\ UpdateTaken
    <3>1. Updated \in Sound /\ Updated.failures = 0
      BY <1>1, <2>2, WrittenSound DEF UpdateTaken, Updated, Inv, TypeOK, Task
    <3>. QED  BY <1>1, <1>3, <2>1, <2>2, <3>1, LastWriteStep
  <2>3. CASE UNCHANGED <<task, watch>>
    <3>1. task \in Sound
      BY DEF Inv, VersionsSound
    <3>. QED  BY <1>1, <1>3, <2>1, <2>3, <3>1, LastWriteStep
  <2>. QED  BY <2>1, <2>2, <2>3
<1>4. CASE ~Leave /\ UpdateTaken
  <2>1. /\ Stored(obj) /\ backend = "postgres" /\ pc' = "status" /\ obj' = obj
        /\ UNCHANGED <<fresh, changed, timer>>
    BY <1>4 DEF ResetFailures, Return, Updated
  <2>2. /\ task' \in Sound /\ watch' \in Seq(Sound) /\ task' \in Task /\ watch' \in Seq(Task)
        /\ Newest'
    BY <1>1, <1>2, <2>1, StoredSound DEF Newest
  <2>3. TypeOK' /\ VersionsSound'
    BY <1>1, <1>2, <2>1, <2>2 DEF Inv, TypeOK, VersionsSound
  <2>4. CopyInHand' /\ CopyIsNewest' /\ CompletedIsReset'
    BY <1>1, <2>1 DEF CopyInHand, CopyIsNewest, CompletedIsReset, Stored
  <2>. QED  BY <2>2, <2>3, <2>4 DEF Inv
<1>5. CASE ~Leave /\ ~UpdateTaken
  <2>1. /\ UNCHANGED <<task, watch, obj, fresh, changed, timer>> /\ pc' = "status"
    BY <1>5 DEF ResetFailures, Return
  <2>2. TypeOK' /\ VersionsSound' /\ Newest' /\ CompletedIsReset'
    BY <1>1, <1>2, <2>1 DEF Inv, TypeOK, VersionsSound, Newest, CompletedIsReset
  <2>3. ~fresh
    BY <1>5 DEF Inv, CopyIsNewest, UpdateTaken
  <2>4. CopyInHand' /\ CopyIsNewest'
    BY <1>1, <2>1, <2>3 DEF CopyInHand, CopyIsNewest
  <2>. QED  BY <2>2, <2>4 DEF Inv
<1>. QED  BY <1>3, <1>4, <1>5

LEMMA StutterStep == ASSUME Inv, UNCHANGED vars PROVE Inv'
<1>1. Sound' = Sound
  BY DEF vars, Sound, Agrees
<1>. QED
  BY <1>1 DEF vars, Inv, TypeOK, VersionsSound, Newest, CopyInHand, CopyIsNewest,
              CompletedIsReset, IsTerminalPhase

LEMMA InvStep == Inv /\ [Next]_vars => Inv'
BY UserStep, WorldStep, RestartStep, ReconcileStep, PollStep, DeleteStep, StatusStep,
   RecordStep, ResetStep, StutterStep DEF Next, Work

LEMMA Invariance == Spec => []Inv
BY InitInv, InvStep, PTL DEF Spec

-------------------------------------------------------------------------------
(* The theorems.                                                           *)

\* Every reachable state is well-typed: among others, the count of failed polls never
\* exceeds the polls that failed.
THEOREM TypeCorrect == Spec => []TypeOK
<1>1. Inv => TypeOK
  BY DEF Inv
<1>. QED  BY <1>1, Invariance, PTL

\* Behind a CRD the Completed condition and the phase agree (updateConditionsAndEvents).
THEOREM ConditionTheorem == Spec => []ConditionAgrees
<1>1. Inv => ConditionAgrees
  BY DEF Inv, VersionsSound, Sound, Agrees, ConditionAgrees
<1>. QED  BY <1>1, Invariance, PTL

\* Behind a CRD a completed task has no failed polls left (pollTaskStatus).
THEOREM ResetTheorem == Spec => []CompletedIsReset
<1>1. Inv => CompletedIsReset
  BY DEF Inv
<1>. QED  BY <1>1, Invariance, PTL

\* Behind a CRD a task that is over stays as it is: only a copy of the newest version is
\* written, and the worker has none of a task that is over.
LEMMA TerminalStep ==
    ASSUME Inv, Next, backend = "crd", IsTerminalPhase(task.phase), task'.exists
    PROVE  task'.phase = task.phase
<1>1. CASE task' = task
  BY <1>1
<1>2. task' # NoTask
  <2>1. NoTask.exists = FALSE
    BY DEF NoTask
  <2>. QED  BY <2>1
<1>3. CASE BeginOrFail \/ WritePolled
  <2>1. ~(StatusTaken)
    BY <1>3 DEF BeginOrFail, WritePolled, StatusTaken, Inv, CopyIsNewest
  <2>. QED  BY <1>3, <2>1 DEF BeginOrFail, WritePolled, WriteStatus
<1>4. CASE RecordFailure \/ ResetFailures
  <2>1. task' = task \/ task' = Updated
    BY <1>4 DEF RecordFailure, ResetFailures, Stored
  <2>2. Updated.phase = task.phase
    BY DEF Updated, Inv, TypeOK, Task
  <2>. QED  BY <2>1, <2>2
<1>5. CASE UserEdit \/ UserDelete \/ DeleteExpired
  BY <1>1, <1>2, <1>5 DEF UserEdit, UserDelete, DeleteExpired, Stored
<1>6. CASE \/ ServerWorks \/ TimePasses \/ InformerDeliver \/ InformerResync \/ RequeueTimer
           \/ ControllerRestart \/ Reconcile \/ PollFailed
  BY <1>1, <1>6 DEF ServerWorks, TimePasses, InformerDeliver, InformerResync, RequeueTimer,
                    ControllerRestart, Reconcile, PollFailed
<1>7. CASE \E grown \in BOOLEAN : PollAnswered(grown)
  BY <1>1, <1>7 DEF PollAnswered
<1>. QED  BY <1>3, <1>4, <1>5, <1>6, <1>7 DEF Next, Work

THEOREM TerminalTheorem == Spec => TerminalStays
<1>1. Inv /\ [Next]_vars =>
        [(backend = "crd" /\ IsTerminalPhase(task.phase) /\ task'.exists)
         => task'.phase = task.phase]_vars
  BY TerminalStep DEF vars
<1>. QED  BY <1>1, Invariance, PTL DEF Spec, TerminalStays
===============================================================================
