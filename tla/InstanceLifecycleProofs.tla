---------------------- MODULE InstanceLifecycleProofs ----------------------
(***************************************************************************)
(* Proofs about InstanceLifecycle, for any number of calls, operations,    *)
(* jobs, revisions and faults.                                             *)
(*                                                                         *)
(* OneApplied is inductive once rows keep their columns and a call in      *)
(* progress inserts a draft or a validated revision, never an applied one. *)
(***************************************************************************)
EXTENDS InstanceLifecycle, SequenceTheorems, TLAPS

InstShape == DOMAIN inst = {"status", "enabled", "current", "last"}

RevsShape == revs \in Seq(RevStatus)

CallShape ==
  /\ DOMAIN call = Call
  /\ \A c \in Call : /\ DOMAIN call[c] = DOMAIN Idle
                     /\ call[c].verdict \in {"draft", "validated"}

\* Before the first operator call there is nothing at all.
Fresh ==
  /\ ops \in Nat
  /\ ops = 0 => /\ revs = <<>> /\ jobs = <<>>
                /\ agent = [job |-> NoJob, result |-> "none"]
                /\ \A c \in Call : call[c].pc = "idle"

RevInv == InstShape /\ RevsShape /\ CallShape /\ OneApplied /\ Fresh

\* A step that writes no revision and not last_applied_revision_id.
Aside == revs' = revs /\ inst'.last = inst.last /\ InstShape'

-----------------------------------------------------------------------------
\* A step that leaves revisions and last_applied_revision_id alone keeps the
\* invariant.
LEMMA AsideKeeps ==
  ASSUME RevInv, Aside, CallShape', Fresh'
  PROVE  RevInv'
BY DEF RevInv, Aside, RevsShape, OneApplied

\* The fields a call keeps.
LEMMA IdleShape == DOMAIN Idle = {"pc", "op", "status", "enabled", "was", "wasEnabled", "rev", "cur", "last",
                                  "no", "verdict", "mode", "job"}
  BY DEF Idle

\* A call that moves to its next statement keeps its fields.
LEMMA GoShape ==
  ASSUME CallShape, NEW c \in Call, NEW pc, Go(c, pc)
  PROVE  CallShape'
BY IdleShape DEF CallShape, Go

\* A call that returns has the fields of an idle one.
LEMMA ReturnShape ==
  ASSUME CallShape, NEW c \in Call, Return(c)
  PROVE  CallShape'
BY DEF CallShape, Return, Idle

\* A call may be given any row with those fields and a fresh verdict.
LEMMA SetShape ==
  ASSUME CallShape, NEW c \in Call, NEW row, call' = [call EXCEPT ![c] = row],
         DOMAIN row = DOMAIN Idle, row.verdict \in {"draft", "validated"}
  PROVE  CallShape'
BY DEF CallShape

\* A step of an operator, or one that needs a call, a job or the agent's work
\* in progress, comes after the first operator call.
LEMMA FreshKept ==
  ASSUME RevInv,
         \/ Operator
         \/ UNCHANGED ops /\ \/ \E c \in Call : call[c].pc # "idle"
                             \/ jobs # <<>>
                             \/ agent # [job |-> NoJob, result |-> "none"]
  PROVE  Fresh'
BY DEF RevInv, Fresh, Operator

\* Where there is a job the table is not empty.
LEMMA SomeJob ==
  ASSUME NEW j \in Job
  PROVE  jobs # <<>>
BY DEF Job

-----------------------------------------------------------------------------
\* The agent and the queue: no row of the instance is written.
LEMMA QueueSteps ==
  ASSUME RevInv,
         \/ AgentNextJob \/ LeaseLapse \/ AgentCrash \/ CancelJob
         \/ Execute \/ ExecuteFails \/ AgentJobResult \/ EffectsLost
         \/ \E j \in Job : CapabilityInstalled(j)
  PROVE  RevInv'
<1>1. UNCHANGED <<inst, revs, call>>
  BY DEF AgentNextJob, LeaseLapse, AgentCrash, CancelJob, Execute, ExecuteFails, AgentJobResult,
         EffectsLost, CapabilityInstalled
<1>2. Fresh'
  <2>1. CASE AgentNextJob \/ LeaseLapse \/ EffectsLost \/ \E j \in Job : CapabilityInstalled(j)
    BY <2>1, SomeJob, FreshKept DEF AgentNextJob, LeaseLapse, EffectsLost, CapabilityInstalled
  <2>2. CASE CancelJob
    BY <2>2, FreshKept DEF CancelJob
  <2>3. CASE AgentCrash \/ Execute \/ ExecuteFails \/ AgentJobResult
    <3>1. UNCHANGED ops
      BY <2>3 DEF AgentCrash, Execute, ExecuteFails, AgentJobResult
    <3>2. agent.job # NoJob \/ agent.result \in {"succeeded", "failed"}
      BY <2>3 DEF AgentCrash, Execute, ExecuteFails, AgentJobResult
    <3>3. agent # [job |-> NoJob, result |-> "none"]
      BY <3>2
    <3> QED BY <3>1, <3>3, FreshKept
  <2> QED BY <2>1, <2>2, <2>3
<1> QED BY <1>1, <1>2, AsideKeeps DEF Aside, RevInv, InstShape, CallShape

\* Steps of a call that write neither the row nor a revision.
LEMMA ReadingSteps ==
  ASSUME RevInv, NEW c \in Call,
         \/ MaterializeAccesses(c) \/ InitialApply(c) \/ CreateOperation(c) \/ CreateInstall(c)
         \/ MarkCapability(c) \/ RevisionNumber(c) \/ CreationFails(c) \/ Abort(c) \/ NotFound(c)
  PROVE  RevInv'
<1>1. UNCHANGED <<inst, revs, ops>> /\ call[c].pc # "idle"
  BY DEF MaterializeAccesses, InitialApply, CreateOperation, CreateInstall, MarkCapability, RevisionNumber,
         CreationFails, Abort, NotFound
<1>2. CallShape'
  <2>1. CASE MaterializeAccesses(c) \/ InitialApply(c)
    BY <2>1, GoShape, ReturnShape DEF MaterializeAccesses, InitialApply, RevInv
  <2>2. CASE CreateOperation(c) \/ Abort(c) \/ NotFound(c)
    BY <2>2, ReturnShape DEF CreateOperation, Abort, NotFound, RevInv
  <2>3. CASE MarkCapability(c) \/ CreationFails(c)
    BY <2>3, GoShape DEF MarkCapability, CreationFails, RevInv
  <2>4. CASE CreateInstall(c)
    <3>1. \E pc, j : call' = [call EXCEPT ![c].pc = pc, ![c].job = j]
      BY <2>4 DEF CreateInstall
    <3> QED BY <3>1, IdleShape DEF CallShape, RevInv
  <2>5. CASE RevisionNumber(c)
    BY <2>5, IdleShape DEF RevisionNumber, CallShape, RevInv
  <2> QED BY <2>1, <2>2, <2>3, <2>4, <2>5
<1> QED BY <1>1, <1>2, FreshKept, AsideKeeps DEF Aside, RevInv, InstShape

\* What UpdateInstanceStatus and DeleteInstance read fits a call's row.
LEMMA StatusReadShape ==
  ASSUME CallShape, NEW c \in Call, NEW op, statusRead(c, op)
  PROVE  CallShape'
<1> DEFINE row == [Idle EXCEPT !.op = op, !.status = queuedStatus(op), !.enabled = queuedEnabled(op),
                     !.was = inst.status,
                     !.pc = IF op = "apply" /\ runtimeCapabilityInstallNeeded THEN "install" ELSE "queue"]
<1>1. call' = [call EXCEPT ![c] = row]
  BY DEF statusRead
<1>2. DOMAIN row = DOMAIN Idle /\ row.verdict = "draft"
  BY DEF Idle
<1> HIDE DEF row
<1> QED BY <1>1, <1>2, SetShape

\* What an edit reads fits a call's row.
LEMMA RevisionReadShape ==
  ASSUME CallShape, NEW c \in Call, revisionRead(c)
  PROVE  CallShape'
<1>1. PICK verdict \in {"draft", "validated"} :
        call' = [call EXCEPT ![c] = [Idle EXCEPT !.pc = "number", !.cur = inst.current, !.last = inst.last,
                                               !.verdict = verdict]]
  BY DEF revisionRead
<1> QED BY <1>1, SetShape, IdleShape DEF Idle

\* Calls that begin.
LEMMA BeginningSteps ==
  ASSUME RevInv, NEW c \in Call,
         \/ \E op \in {"apply", "start", "stop", "restart"} : UpdateInstanceStatus(c, op)
         \/ DeleteInstance(c) \/ DiscardInstanceDraft(c)
         \/ ReplaceInstanceSpec(c) \/ RollbackInstanceRevision(c)
  PROVE  RevInv'
<1>1. Operator /\ UNCHANGED <<inst, revs>>
  BY DEF UpdateInstanceStatus, DeleteInstance, DiscardInstanceDraft, ReplaceInstanceSpec,
         RollbackInstanceRevision, revisionRead
<1>2. CallShape'
  <2>1. CASE \E op \in {"apply", "start", "stop", "restart"} : UpdateInstanceStatus(c, op)
    BY <2>1, StatusReadShape DEF UpdateInstanceStatus, RevInv
  <2>2. CASE DeleteInstance(c)
    BY <2>2, SetShape, IdleShape DEF DeleteInstance, Idle, RevInv
  <2>3. CASE DiscardInstanceDraft(c)
    BY <2>3, SetShape, IdleShape DEF DiscardInstanceDraft, Idle, RevInv
  <2>4. CASE ReplaceInstanceSpec(c) \/ RollbackInstanceRevision(c)
    BY <2>4, RevisionReadShape DEF ReplaceInstanceSpec, RollbackInstanceRevision, RevInv
  <2> QED BY <2>1, <2>2, <2>3, <2>4
<1> QED BY <1>1, <1>2, FreshKept, AsideKeeps DEF Aside, RevInv, InstShape

\* The applies of the instances that waited for a runtime.
LEMMA DependentSteps ==
  ASSUME RevInv, NEW c \in Call, NEW j \in Job, CapabilityDependents(c, j)
  PROVE  RevInv'
<1>1. UNCHANGED <<inst, revs, ops>>
  BY DEF CapabilityDependents
<1>2. CallShape'
  BY StatusReadShape DEF CapabilityDependents, RevInv, CallShape
<1> QED BY <1>1, <1>2, SomeJob, FreshKept, AsideKeeps DEF Aside, RevInv, InstShape

\* Steps that write the row's status, enabled flag or current revision.
LEMMA StatusSteps ==
  ASSUME RevInv, NEW c \in Call,
         QueueOperation(c) \/ MarkInstance(c) \/ CreateFails(c) \/ InitialMark(c) \/ RevisionCurrent(c)
  PROVE  RevInv'
<1>1. revs' = revs /\ ops' = ops /\ call[c].pc # "idle"
  BY DEF QueueOperation, MarkInstance, CreateFails, InitialMark, RevisionCurrent
<1>2. inst'.last = inst.last /\ InstShape'
  BY DEF QueueOperation, MarkInstance, CreateFails, InitialMark, initiallyMarked, RevisionCurrent, InstShape,
         RevInv
<1>3. CallShape'
  <2>1. CASE QueueOperation(c)
    <3>1. CASE Return(c)
      BY <3>1, ReturnShape DEF RevInv
    <3>2. CASE call' = [call EXCEPT ![c].pc = "create", ![c].rev = latest]
      BY <3>2, IdleShape DEF CallShape, RevInv
    <3> QED BY <2>1, <3>1, <3>2 DEF QueueOperation
  <2>2. CASE MarkInstance(c) \/ InitialMark(c)
    BY <2>2, ReturnShape DEF MarkInstance, InitialMark, RevInv
  <2>3. CASE CreateFails(c) \/ RevisionCurrent(c)
    BY <2>3, ReturnShape, GoShape DEF CreateFails, RevisionCurrent, RevInv
  <2> QED BY <2>1, <2>2, <2>3
<1> QED BY <1>1, <1>2, <1>3, FreshKept, AsideKeeps DEF Aside

-----------------------------------------------------------------------------
\* The effects of a completion.
LEMMA EffectSteps ==
  ASSUME RevInv, NEW j \in Job, applyInstanceJobCompletionSideEffects(j)
  PROVE  RevInv'
<1>1. UNCHANGED <<call, ops>>
  BY DEF applyInstanceJobCompletionSideEffects
<1>2. Fresh'
  BY <1>1, SomeJob, FreshKept
<1>3. CallShape'
  BY <1>1 DEF RevInv, CallShape
<1>4. CASE UNCHANGED <<inst, revs>>
  BY <1>2, <1>3, <1>4, AsideKeeps DEF Aside, RevInv, InstShape
<1>5. CASE Cleaned \/ DeleteFailed \/ Started \/ Stopped
  BY <1>2, <1>3, <1>5, AsideKeeps DEF Aside, RevInv, InstShape, Cleaned, DeleteFailed, Started, Stopped
<1>6. CASE ApplyFailed
  <2>1. DOMAIN revs' = DOMAIN revs /\ \A r \in DOMAIN revs : revs'[r] \in {revs[r], "failed"}
    BY <1>6 DEF ApplyFailed
  <2>2. RevsShape'
    BY <1>6, <2>1 DEF ApplyFailed, RevInv, RevsShape, RevStatus
  <2>3. inst'.last = inst.last /\ InstShape'
    BY <1>6 DEF ApplyFailed, RevInv, InstShape
  <2> QED BY <1>2, <1>3, <2>1, <2>2, <2>3 DEF RevInv, OneApplied
<1>7. CASE ApplySucceeded
  <2>1. /\ DOMAIN revs' = DOMAIN revs
        /\ \A r \in DOMAIN revs :
             /\ revs'[r] \in {revs[r], "applied", "superseded"}
             /\ revs'[r] = "applied" => r = inst.current \/ (revs[r] = "applied" /\ r # inst.last)
    <3>1. revs' = applied
      BY <1>7 DEF ApplySucceeded
    <3>2. DOMAIN applied = DOMAIN revs
      BY DEF applied
    <3>3. ASSUME NEW r \in DOMAIN revs
          PROVE  /\ applied[r] \in {revs[r], "applied", "superseded"}
                 /\ applied[r] = "applied" => r = inst.current \/ (revs[r] = "applied" /\ r # inst.last)
      BY DEF applied
    <3> QED BY <3>1, <3>2, <3>3
  <2>2. RevsShape'
    BY <1>7, <2>1 DEF ApplySucceeded, applied, RevInv, RevsShape, RevStatus
  <2>3. inst'.last = inst.current /\ InstShape'
    BY <1>7 DEF ApplySucceeded, RevInv, InstShape
  <2> QED BY <1>2, <1>3, <2>1, <2>2, <2>3 DEF RevInv, OneApplied
<1> QED BY <1>4, <1>5, <1>6, <1>7 DEF applyInstanceJobCompletionSideEffects

\* Creation, and the deletion of a row.
LEMMA RowSteps ==
  ASSUME RevInv,
         \/ ForceDeleteInstance
         \/ \E c \in Call : CreateInstance(c) \/ DiscardRow(c)
  PROVE  RevInv'
<1>1. CASE ForceDeleteInstance
  BY <1>1, FreshKept, AsideKeeps
     DEF ForceDeleteInstance, Cleaned, Aside, RevInv, InstShape, CallShape
<1>2. CASE \E c \in Call : CreateInstance(c)
  <2>1. PICK c \in Call : CreateInstance(c)
    BY <1>2
  <2>2. revs = <<>> /\ revs' = <<>> /\ Operator
    BY <2>1 DEF CreateInstance, RevInv, Fresh
  <2>3. PICK verdict \in {"draft", "validated"}, mode \in Mode \ {"edit"} :
          call' = [call EXCEPT ![c] = [Idle EXCEPT !.pc = "number", !.verdict = verdict, !.mode = mode]]
    BY <2>1 DEF CreateInstance
  <2>4. CallShape'
    BY <2>3, SetShape, IdleShape DEF Idle, RevInv
  <2>5. InstShape'
    BY <2>1 DEF CreateInstance, InstShape
  <2> QED BY <2>2, <2>4, <2>5, FreshKept DEF RevInv, RevsShape, OneApplied
<1>3. CASE \E c \in Call : DiscardRow(c)
  <2>1. PICK c \in Call : DiscardRow(c)
    BY <1>3
  <2>2. Fresh' /\ CallShape'
    BY <2>1, FreshKept, ReturnShape DEF DiscardRow, RevInv
  <2>3. CASE UNCHANGED <<inst, revs>>
    BY <2>2, <2>3, AsideKeeps DEF Aside, RevInv, InstShape
  <2>4. CASE inst' = NoInstance /\ revs' = <<>>
    BY <2>2, <2>4 DEF NoInstance, RevInv, InstShape, RevsShape, OneApplied
  <2> QED BY <2>1, <2>3, <2>4 DEF DiscardRow
<1> QED BY <1>1, <1>2, <1>3

\* Revisions written by an edit or deleted by a discard.
LEMMA RevisionSteps ==
  ASSUME RevInv, NEW c \in Call,
         RevisionSupersede(c) \/ RevisionInsert(c) \/ DiscardRevisions(c)
  PROVE  RevInv'
<1>1. UNCHANGED <<inst, ops>> /\ call[c].pc # "idle"
  BY DEF RevisionSupersede, RevisionInsert, DiscardRevisions
<1>2. Fresh' /\ InstShape' /\ CallShape'
  BY <1>1, FreshKept, GoShape, ReturnShape
     DEF RevisionSupersede, RevisionInsert, DiscardRevisions, RevInv, InstShape
<1>3. CASE RevisionSupersede(c) \/ DiscardRevisions(c)
  <2>1. DOMAIN revs' = DOMAIN revs /\ \A r \in DOMAIN revs : revs'[r] \in {revs[r], "superseded", "gone"}
    BY <1>3 DEF RevisionSupersede, superseded, DiscardRevisions
  <2>2. RevsShape'
    <3>1. CASE RevisionSupersede(c)
      BY <3>1, <2>1 DEF RevisionSupersede, superseded, RevInv, RevsShape, RevStatus
    <3>2. CASE DiscardRevisions(c)
      <4>1. revs' = [r \in 1..Len(revs) |-> "gone"] /\ Len(revs) \in Nat
        BY <3>2, LenProperties DEF DiscardRevisions, RevInv, RevsShape
      <4>2. revs' \in [1..Len(revs) -> RevStatus]
        BY <4>1 DEF RevStatus
      <4> QED BY <4>1, <4>2, SeqDef DEF RevsShape
    <3> QED BY <1>3, <3>1, <3>2
  <2> QED BY <1>1, <1>2, <2>1, <2>2 DEF RevInv, OneApplied
<1>4. CASE RevisionInsert(c)
  <2>1. CASE revs' = revs
    BY <1>1, <1>2, <2>1, AsideKeeps DEF Aside
  <2>2. CASE revs' = Append(revs, call[c].verdict)
    <3>1. call[c].verdict \in {"draft", "validated"}
      BY DEF RevInv, CallShape
    <3>2. /\ RevsShape'
          /\ \A r \in DOMAIN revs' : revs'[r] = "applied" => r \in DOMAIN revs /\ revs'[r] = revs[r]
      BY <2>2, <3>1 DEF RevInv, RevsShape, RevStatus
    <3> QED BY <1>1, <1>2, <3>2 DEF RevInv, OneApplied
  <2> QED BY <1>4, <2>1, <2>2 DEF RevisionInsert
<1> QED BY <1>3, <1>4

-----------------------------------------------------------------------------
\* Whatever calls, completions and edits interleave, at most one revision of
\* an instance is recorded as applied, and it is the one its row names.
THEOREM OneRevisionApplied == Spec => []OneApplied
<1>1. Init => RevInv
  BY IdleShape DEF Init, RevInv, InstShape, NoInstance, RevsShape, CallShape, OneApplied, Fresh, Idle
<1>2. RevInv /\ [Next]_vars => RevInv'
  <2> SUFFICES ASSUME RevInv, [Next]_vars PROVE RevInv'
    OBVIOUS
  <2>1. CASE UNCHANGED vars
    BY <2>1 DEF vars, RevInv, InstShape, RevsShape, CallShape, OneApplied, Fresh
  <2>2. CASE Next
    BY <2>2, QueueSteps, ReadingSteps, BeginningSteps, DependentSteps, StatusSteps, EffectSteps, RowSteps,
       RevisionSteps DEF Next
  <2> QED BY <2>1, <2>2
<1>3. RevInv => OneApplied
  BY DEF RevInv
<1> QED BY <1>1, <1>2, <1>3, PTL DEF Spec
=============================================================================
