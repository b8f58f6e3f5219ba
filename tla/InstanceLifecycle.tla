------------------------- MODULE InstanceLifecycle -------------------------
(***************************************************************************)
(* One service instance, from its creation to its deletion.  The control   *)
(* plane keeps its row (status, enabled, the current and the last applied  *)
(* revision), its revisions and a client's route to it; the node keeps a   *)
(* systemd unit and the configuration last rendered for it.  API calls     *)
(* write the status first and queue a job after it, each in a transaction  *)
(* of its own; the agent runs the jobs one by one; the completion of a job *)
(* then writes the row from what it finds there, not from what the job     *)
(* carried.                                                                *)
(*                                                                         *)
(* Sources: internal/infra/postgres/store.go, instance_drivers.go and      *)
(* node_remediation.go, internal/service/driver/operations.go,             *)
(* cmd/agent/instance_runtime.go.  The queue is the one of JobQueue, kept  *)
(* to what concerns these jobs: a lapsed lease is recovered at once, and a *)
(* lock is held by the running job.  "start" and "stop" stand for enable   *)
(* and disable too, which differ from them only on the node.  A route      *)
(* stands for the client's service access as well: the two are pending     *)
(* together and removed together.  The projections for the dashboard       *)
(* (instance_runtime_states, logs, audit) and the jobs the node gets for   *)
(* its route policy are left out: nothing here reads them.                 *)
(***************************************************************************)
EXTENDS Naturals, Sequences, FiniteSets

CONSTANTS
  Call,       \* API calls and completion handlers that may be in progress
  MaxOps,     \* how many calls operators make
  MaxJobs,    \* how many jobs are created
  MaxRevs,    \* how many revisions are created
  MaxFaults   \* how many crashes, lapses and failures a behaviour has

ASSUME LifecycleAssumption ==
  MaxOps \in Nat /\ MaxJobs \in Nat /\ MaxRevs \in Nat /\ MaxFaults \in Nat

VARIABLES
  inst,       \* the row of instances
  revs,       \* instance_revisions.status, by revision_no
  route,      \* client_access_routes.status of a client's route
  cap,        \* node_capabilities.status of the runtime the service needs
  jobs,       \* the jobs of the instance and the node's runtime installs
  call,       \* the calls in progress
  agent,      \* the job the agent works on and the result it has for it
  node,       \* the unit on the node and the revision rendered for it
  causes,     \* what has happened that may part the row from the node
  ops,        \* operator calls so far
  faults      \* faults so far

vars == <<inst, revs, route, cap, jobs, call, agent, node, causes, ops, faults>>

RevStatus == {"draft", "validated", "applied", "failed", "superseded", "gone"}
Mode == {"edit", "draft", "ready", "apply"}

NoJob == 0
NoRev == 0

\* What a call remembers between its statements.
Idle == [pc |-> "idle", op |-> "apply", status |-> "absent", enabled |-> FALSE,
         was |-> "absent", wasEnabled |-> FALSE,
         rev |-> NoRev, cur |-> NoRev, last |-> NoRev, no |-> NoRev, verdict |-> "draft",
         mode |-> "edit", job |-> NoJob]

NoInstance == [status |-> "absent", enabled |-> FALSE, current |-> NoRev, last |-> NoRev]

Init ==
  /\ inst = NoInstance
  /\ revs = <<>>
  /\ route = "none"
  /\ cap \in {"none", "available"}
  /\ jobs = <<>>
  /\ call = [c \in Call |-> Idle]
  /\ agent = [job |-> NoJob, result |-> "none"]
  /\ node = [unit |-> "absent", rev |-> NoRev]
  /\ causes = {}
  /\ ops = 0
  /\ faults = 0

Exists == inst.status # "absent"

Operator == ops < MaxOps /\ ops' = ops + 1

Fault == faults < MaxFaults /\ faults' = faults + 1

Go(c, pc) == call' = [call EXCEPT ![c].pc = pc]

Return(c) == call' = [call EXCEPT ![c] = Idle]

-----------------------------------------------------------------------------
(***************************************************************************)
(* Jobs, as the queue keeps them.                                          *)
(***************************************************************************)
Unfinished(j) == jobs[j].status \in {"queued", "running"}

EffectsDue(j) == jobs[j].effect \in {"pending", "dependents"}

Job == DOMAIN jobs

newJob(op, rev, enabled, dependent, priority) ==
  [op |-> op, rev |-> rev, enabled |-> enabled, dependent |-> dependent,
   priority |-> priority, status |-> "queued", effect |-> "none"]

\* CreateJob.  A reconcile of the node queues its applies with the priority
\* the runtime installs have; every other job has the default.
CreateJob(op, rev, enabled) ==
  /\ Len(jobs) < MaxJobs
  /\ \E p \in {100} \cup (IF op = "apply" THEN {60} ELSE {}) :
       jobs' = Append(jobs, newJob(op, rev, enabled, FALSE, p))

\* jobLockTarget: the lifecycle operations share one lock of the instance.
lockKind(op) == IF op \in {"start", "stop", "restart"} THEN "mutate" ELSE op

Ahead(i, j) ==
  \/ jobs[i].priority < jobs[j].priority
  \/ jobs[i].priority = jobs[j].priority /\ i < j

\* The next job of the queue, if no running job holds its lock.
AgentNextJob ==
  /\ agent.job = NoJob
  /\ \E j \in Job :
       /\ jobs[j].status = "queued"
       /\ \A i \in Job \ {j} : jobs[i].status = "queued" => Ahead(j, i)
       /\ \A i \in Job : jobs[i].status = "running" => lockKind(jobs[i].op) # lockKind(jobs[j].op)
       /\ jobs' = [jobs EXCEPT ![j].status = "running"]
       /\ agent' = [job |-> j, result |-> "none"]
  /\ UNCHANGED <<inst, revs, route, cap, call, node, causes, ops, faults>>

\* A lease lapses and the job is recovered, whether or not it is being run.
LeaseLapse ==
  /\ Fault
  /\ \E j \in Job :
       /\ jobs[j].status = "running"
       /\ jobs' = [jobs EXCEPT ![j].status = "queued"]
  /\ UNCHANGED <<inst, revs, route, cap, call, agent, node, causes, ops>>

\* The agent stops, or gives up waiting for an answer: it forgets the job it
\* was given, the result it has, or the side effects still to come.
AgentCrash ==
  /\ Fault
  /\ agent.job # NoJob
  /\ agent' = [job |-> NoJob, result |-> "none"]
  /\ causes' = IF agent.result = "posted" THEN causes \cup {"answer lost"} ELSE causes
  /\ UNCHANGED <<inst, revs, route, cap, jobs, call, node, ops>>

CancelJob ==
  /\ Operator
  /\ \E j \in Job :
       /\ jobs[j].status = "queued"
       /\ jobs' = [jobs EXCEPT ![j].status = "cancelled"]
  /\ causes' = causes \cup {"cancelled"}
  /\ UNCHANGED <<inst, revs, route, cap, call, agent, node, faults>>

-----------------------------------------------------------------------------
(***************************************************************************)
(* The node.  An apply renders the revision the job carries and restarts   *)
(* the unit, or, when the job was queued for a disabled instance, only     *)
(* takes it out of the boot sequence.                                      *)
(***************************************************************************)
MayFail(unit) == IF unit = "running" THEN {"running", "stopped"} ELSE {unit}

Apply(r) ==
  node' = [unit |-> IF r.enabled THEN "running" ELSE IF node.unit = "absent" THEN "stopped" ELSE node.unit,
           rev |-> r.rev]

Systemd(r) ==
  /\ node.unit # "absent"
  /\ node' = [node EXCEPT !.unit = IF r.op = "stop" THEN "stopped" ELSE "running"]

Delete == node' = [unit |-> "absent", rev |-> NoRev]

\* The operation runs to its end.  systemctl restart starts a stopped unit,
\* and the completion of a restart writes nothing to the row.
Execute ==
  /\ agent.job # NoJob /\ agent.result = "none"
  /\ LET r == jobs[agent.job] IN
       \/ r.op = "apply" /\ Apply(r)
       \/ r.op \in {"start", "stop", "restart"} /\ Systemd(r)
       \/ r.op = "delete" /\ Delete
       \/ r.op = "install" /\ UNCHANGED node
  /\ agent' = [agent EXCEPT !.result = "succeeded"]
  /\ causes' = IF jobs[agent.job].op = "restart" /\ node.unit = "stopped"
                 THEN causes \cup {"restart of a stopped unit"} ELSE causes
  /\ UNCHANGED <<inst, revs, route, cap, jobs, call, ops, faults>>

\* It fails: files are rolled back, a unit that was running may be down.  A
\* systemctl call on a unit that is not there fails every time.  Completions
\* write nothing for a failed start, stop, restart or install; and a failed
\* apply says nothing of an earlier attempt that went through unrecorded.
ExecuteFails ==
  /\ agent.job # NoJob /\ agent.result = "none"
  /\ LET op == jobs[agent.job].op IN
       /\ \/ op \in {"start", "stop", "restart"} /\ node.unit = "absent" /\ UNCHANGED faults
          \/ Fault
       /\ causes' = causes \cup (CASE op = "delete" -> {}
                                   [] op = "apply"  -> IF node.rev = inst.last THEN {} ELSE {"retry failed"}
                                   [] OTHER         -> {"operation failed"})
  /\ \E u \in MayFail(node.unit) : node' = [node EXCEPT !.unit = u]
  /\ agent' = [agent EXCEPT !.result = "failed"]
  /\ UNCHANGED <<inst, revs, route, cap, jobs, call, ops>>

\* completeJob: a result counts while the job is leased to the agent; the
\* agent waits for the answer, which comes after the side effects.
AgentJobResult ==
  /\ agent.result \in {"succeeded", "failed"}
  /\ IF jobs[agent.job].status = "running"
       THEN /\ jobs' = [jobs EXCEPT ![agent.job].status = agent.result, ![agent.job].effect = "pending"]
            /\ agent' = [agent EXCEPT !.result = "posted"]
       ELSE /\ agent' = [job |-> NoJob, result |-> "none"]
            /\ UNCHANGED jobs
  /\ UNCHANGED <<inst, revs, route, cap, call, node, causes, ops, faults>>

answered(j) == IF agent = [job |-> j, result |-> "posted"] THEN [job |-> NoJob, result |-> "none"] ELSE agent

-----------------------------------------------------------------------------
(***************************************************************************)
(* Side effects of a completion: applyInstanceJobCompletionSideEffects is  *)
(* one transaction.                                                        *)
(***************************************************************************)
Done(j) == jobs' = [jobs EXCEPT ![j].effect = "done"]

\* Mutant: the revision applied before keeps its status.
appliedBeside == [r \in DOMAIN revs |-> IF r = inst.current THEN "applied" ELSE revs[r]]

\* The last applied revision makes way for the current one.
applied ==
  [r \in DOMAIN revs |->
     IF revs[r] = "gone" THEN "gone"
     ELSE IF r = inst.current THEN "applied"
     ELSE IF r = inst.last /\ revs[r] = "applied" THEN "superseded"
     ELSE revs[r]]

ApplySucceeded ==
  /\ revs' = applied
  /\ inst' = [inst EXCEPT !.status = "active", !.enabled = TRUE, !.last = inst.current]
  /\ route' = IF route = "pending" THEN "active" ELSE route

ApplyFailed ==
  /\ revs' = [r \in DOMAIN revs |-> IF r = inst.current /\ revs[r] # "gone" THEN "failed" ELSE revs[r]]
  /\ inst' = [inst EXCEPT !.status = "failed"]
  /\ UNCHANGED route

Stopped ==
  /\ inst' = [inst EXCEPT !.status = "disabled", !.enabled = FALSE]
  /\ route' = IF route = "active" THEN "disabled" ELSE route
  /\ UNCHANGED revs

Started ==
  /\ inst' = [inst EXCEPT !.status = "active", !.enabled = TRUE]
  /\ route' = IF route = "disabled" THEN "active" ELSE route
  /\ UNCHANGED revs

\* cleanupInstanceControlPlaneRows
Cleaned ==
  /\ inst' = [inst EXCEPT !.status = "deleted", !.enabled = FALSE]
  /\ route' = "none"
  /\ UNCHANGED revs

DeleteFailed ==
  /\ inst' = [inst EXCEPT !.status = "failed", !.enabled = FALSE]
  /\ UNCHANGED <<revs, route>>

\* The agent may have had to install the runtime itself before an apply; then
\* the result says so and the capability becomes available.
applyInstanceJobCompletionSideEffects(j) ==
  /\ jobs[j].op # "install" /\ jobs[j].effect = "pending"
  /\ LET ok == jobs[j].status = "succeeded" IN
       /\ CASE Exists /\ jobs[j].op = "apply"  -> IF ok THEN ApplySucceeded ELSE ApplyFailed
            [] Exists /\ jobs[j].op = "delete" -> IF ok THEN Cleaned ELSE DeleteFailed
            [] Exists /\ jobs[j].op = "start" /\ ok -> Started
            [] Exists /\ jobs[j].op = "stop" /\ ok  -> Stopped
            [] OTHER -> UNCHANGED <<inst, revs, route>>
       /\ cap' \in IF jobs[j].op = "apply" /\ ok /\ Exists THEN {cap, "available"} ELSE {cap}
  /\ Done(j)
  /\ agent' = answered(j)
  /\ UNCHANGED <<call, node, causes, ops, faults>>

\* A finished install sets the capability; the instances that waited for it
\* come after.
CapabilityInstalled(j) ==
  /\ jobs[j].op = "install" /\ jobs[j].effect = "pending"
  /\ cap' = IF jobs[j].status = "succeeded" THEN "available" ELSE "failed"
  /\ IF jobs[j].status = "succeeded" /\ jobs[j].dependent
       THEN jobs' = [jobs EXCEPT ![j].effect = "dependents"] /\ UNCHANGED agent
       ELSE Done(j) /\ agent' = answered(j)
  /\ UNCHANGED <<inst, revs, route, call, node, causes, ops, faults>>

\* The completion handler dies or loses the database before its effects.  (The
\* status this leaves the job with is JobQueue's concern.)
EffectsLost ==
  /\ Fault
  /\ \E j \in Job :
       /\ EffectsDue(j)
       /\ Done(j)
       /\ agent' = answered(j)
  /\ causes' = causes \cup {"effects lost"}
  /\ UNCHANGED <<inst, revs, route, cap, call, node, ops>>

-----------------------------------------------------------------------------
(***************************************************************************)
(* Creating an instance, and discarding a draft.                           *)
(***************************************************************************)

\* createInstanceWithOptions: the row, its first revision with the steps an
\* edit takes, the accesses of the groups it belongs to and, when asked, an
\* apply.  What fails on the way is discarded, and so is a revision that is not
\* apply-ready when the caller ("ready", "apply") requires one.
CreateInstance(c) ==
  /\ Operator
  /\ ops = 0 /\ call[c].pc = "idle"
  /\ inst' = [status |-> "draft", enabled |-> TRUE, current |-> NoRev, last |-> NoRev]
  /\ \E verdict \in {"draft", "validated"}, mode \in Mode \ {"edit"} :
       call' = [call EXCEPT ![c] = [Idle EXCEPT !.pc = "number", !.verdict = verdict, !.mode = mode]]
  /\ UNCHANGED <<revs, route, cap, jobs, agent, node, causes, faults>>

afterRevision(c) ==
  CASE call[c].mode = "edit" -> "idle"
    [] call[c].mode \in {"ready", "apply"} /\ call[c].verdict = "draft" -> "discard"
    [] OTHER -> "materialize"

\* materializeClientAccessGroupsForInstance
MaterializeAccesses(c) ==
  /\ call[c].pc = "materialize" /\ Exists
  /\ route' \in {"none", "pending"}
  /\ IF call[c].mode = "apply" THEN Go(c, "initial") ELSE Return(c)
  /\ UNCHANGED <<inst, revs, cap, jobs, agent, node, causes, ops, faults>>

\* latestInstanceSpec
latest == IF revs # <<>> /\ revs[Len(revs)] # "gone" THEN Len(revs) ELSE NoRev

InitialApply(c) ==
  /\ call[c].pc = "initial" /\ Exists
  /\ IF latest = NoRev
       THEN Go(c, "discard") /\ UNCHANGED jobs
       ELSE CreateJob("apply", latest, TRUE) /\ Go(c, "initialMark")
  /\ UNCHANGED <<inst, revs, route, cap, agent, node, causes, ops, faults>>

\* The job may have run already: only an instance nothing has happened to is
\* marked.
initiallyMarked == IF inst.status \in {"draft", "failed"} THEN [inst EXCEPT !.status = "provisioning"] ELSE inst

InitialMark(c) ==
  /\ call[c].pc = "initialMark"
  /\ inst' = initiallyMarked
  /\ Return(c)
  /\ causes' = IF inst.status = "failed" THEN causes \cup {"stale status"} ELSE causes
  /\ UNCHANGED <<revs, route, cap, jobs, agent, node, ops, faults>>

\* DiscardInstanceDraft checks first; then its statements run one by one.
DiscardInstanceDraft(c) ==
  /\ Operator
  /\ call[c].pc = "idle"
  /\ inst.status = "draft" /\ route = "none"
  /\ ~ \E j \in Job : jobs[j].op # "install"
  /\ call' = [call EXCEPT ![c] = [Idle EXCEPT !.pc = "discard"]]
  /\ UNCHANGED <<inst, revs, route, cap, jobs, agent, node, causes, faults>>

\* discardUnqueuedInstanceDraft
DiscardRevisions(c) ==
  /\ call[c].pc = "discard" /\ Exists
  /\ revs' = [r \in DOMAIN revs |-> "gone"]
  /\ Go(c, "discardRow")
  /\ causes' = IF \E d \in Call \ {c} : call[d].pc # "idle" THEN causes \cup {"discarded under a call"} ELSE causes
  /\ UNCHANGED <<inst, route, cap, jobs, agent, node, ops, faults>>

\* A service access keeps the row; jobs lose their reference to it.
DiscardRow(c) ==
  /\ call[c].pc = "discardRow" /\ Exists
  /\ IF route = "none"
       THEN inst' = NoInstance /\ revs' = <<>>
       ELSE UNCHANGED <<inst, revs>>
  /\ Return(c)
  /\ causes' = IF \E j \in Job : jobs[j].op # "install" THEN causes \cup {"discarded under a call"} ELSE causes
  /\ UNCHANGED <<route, cap, jobs, agent, node, ops, faults>>

-----------------------------------------------------------------------------
(***************************************************************************)
(* UpdateInstanceStatus and DeleteInstance: read the row, write the status *)
(* the operation is queued with, create the job.                           *)
(***************************************************************************)

\* driver.OperationFor: an apply leaves "enabled" and a restart leaves both as
\* they were read.
queuedStatus(op) ==
  CASE op = "apply" -> "provisioning"
    [] op = "start" -> "active"
    [] op = "stop"  -> "disabled"
    [] OTHER        -> inst.status

queuedEnabled(op) ==
  CASE op = "start" -> TRUE
    [] op = "stop"  -> FALSE
    [] OTHER        -> inst.enabled

current == IF inst.current = NoRev THEN "none" ELSE revs[inst.current]

runtimeCapabilityInstallNeeded == cap # "available"

\* The reads of UpdateInstanceStatus.  Nothing keeps it from a deleted row.
statusRead(c, op) ==
  /\ Exists
  /\ op = "apply" => current \in {"validated", "applied"}
  /\ call' = [call EXCEPT ![c] = [Idle EXCEPT !.op = op, !.status = queuedStatus(op), !.enabled = queuedEnabled(op),
                !.was = inst.status,
                !.pc = IF op = "apply" /\ runtimeCapabilityInstallNeeded THEN "install" ELSE "queue"]]

Editing(c) == call[c].pc \in {"number", "supersede", "insert", "current"}

UpdateInstanceStatus(c, op) ==
  /\ Operator
  /\ call[c].pc = "idle"
  /\ statusRead(c, op)
  /\ causes' = IF op = "apply" /\ \E d \in Call : Editing(d) THEN causes \cup {"edited during apply"} ELSE causes
  /\ UNCHANGED <<inst, revs, route, cap, jobs, agent, node, faults>>

\* What parts the row from the node here: an apply of a disabled instance,
\* which leaves its unit as it was, and a restart that writes back a status it
\* read before another operation changed it.
parted(c) ==
  (IF call[c].op = "apply" /\ ~call[c].enabled THEN {"disabled apply"} ELSE {})
    \cup (IF call[c].op = "restart" /\ inst.status # call[c].was THEN {"stale status"} ELSE {})

\* The payload carries the latest revision; then the status is written.
QueueOperation(c) ==
  /\ call[c].pc = "queue" /\ Exists
  /\ IF call[c].op = "apply" /\ latest = NoRev
       THEN Return(c) /\ UNCHANGED <<inst, causes>>
       ELSE /\ inst' = [inst EXCEPT !.status = call[c].status, !.enabled = call[c].enabled]
            /\ call' = [call EXCEPT ![c].pc = "create", ![c].rev = latest]
            /\ causes' = causes \cup parted(c)
  /\ UNCHANGED <<revs, route, cap, jobs, agent, node, ops, faults>>

CreateOperation(c) ==
  /\ call[c].pc = "create" /\ Exists
  /\ CreateJob(call[c].op, call[c].rev, call[c].enabled)
  /\ Return(c)
  /\ UNCHANGED <<inst, revs, route, cap, agent, node, causes, ops, faults>>

\* CreateNodeCapabilityInstallJobWithDependents: the instance joins the install
\* that is under way, or a new one is queued and the capability set with it.
CreateInstall(c) ==
  /\ call[c].pc = "install" /\ Exists
  /\ LET active == {j \in Job : jobs[j].op = "install" /\ Unfinished(j)} IN
       IF active # {}
         THEN \E j \in active :
                /\ \A i \in active : i <= j
                /\ jobs' = [jobs EXCEPT ![j].dependent = TRUE]
                /\ call' = [call EXCEPT ![c].pc = "capMark", ![c].job = j]
                /\ UNCHANGED cap
         ELSE /\ Len(jobs) < MaxJobs
              /\ jobs' = Append(jobs, newJob("install", NoRev, FALSE, TRUE, 60))
              /\ call' = [call EXCEPT ![c].pc = "mark", ![c].job = Len(jobs) + 1]
              /\ cap' = "installing"
  /\ UNCHANGED <<inst, revs, route, agent, node, causes, ops, faults>>

\* markCapabilityInstallQueued
MarkCapability(c) ==
  /\ call[c].pc = "capMark"
  /\ cap' = "installing"
  /\ Go(c, "mark")
  /\ UNCHANGED <<inst, revs, route, jobs, agent, node, causes, ops, faults>>

\* The status comes last: the install may have ended, and its apply with it.
MarkInstance(c) ==
  /\ call[c].pc = "mark" /\ Exists
  /\ inst' = [inst EXCEPT !.status = call[c].status, !.enabled = call[c].enabled]
  /\ Return(c)
  /\ causes' = IF Unfinished(call[c].job) THEN causes ELSE causes \cup {"stale status"}
  /\ UNCHANGED <<revs, route, cap, jobs, agent, node, ops, faults>>

\* Mutant: the instances that waited are forgotten.
dependentsDropped(c, j) ==
  /\ jobs[j].effect = "dependents"
  /\ Done(j)
  /\ agent' = answered(j)
  /\ UNCHANGED <<inst, revs, route, cap, call, node, causes, ops, faults>>

\* queueApplyJobsForCapabilityDependents: UpdateInstanceStatus for an instance
\* that waited; when it refuses, the refusal is only logged.
CapabilityDependents(c, j) ==
  /\ jobs[j].effect = "dependents"
  /\ \/ /\ call[c].pc = "idle"
        /\ statusRead(c, "apply")
        /\ UNCHANGED causes
     \/ /\ ~(Exists /\ current \in {"validated", "applied"})
        /\ causes' = IF Exists THEN causes \cup {"apply refused"} ELSE causes
        /\ UNCHANGED call
  /\ Done(j)
  /\ agent' = answered(j)
  /\ UNCHANGED <<inst, revs, route, cap, node, ops, faults>>

DeleteInstance(c) ==
  /\ Operator
  /\ call[c].pc = "idle"
  /\ inst.status \notin {"absent", "deleted", "deleting"}
  /\ call' = [call EXCEPT ![c] = [Idle EXCEPT !.op = "delete", !.status = "deleting",
                !.was = inst.status, !.wasEnabled = inst.enabled, !.pc = "queue"]]
  /\ UNCHANGED <<inst, revs, route, cap, jobs, agent, node, causes, faults>>

\* A statement of a creation fails: what there is of the instance is discarded.
CreationFails(c) ==
  /\ Fault
  /\ call[c].mode # "edit" /\ call[c].pc \notin {"idle", "discard", "discardRow"}
  /\ Go(c, "discard")
  /\ UNCHANGED <<inst, revs, route, cap, jobs, agent, node, causes, ops>>

\* The job cannot be created: a delete puts back the row it read, any other
\* operation leaves the status it has written.
CreateFails(c) ==
  /\ Fault
  /\ call[c].pc = "create"
  /\ inst' = IF call[c].op = "delete" /\ Exists
               THEN [inst EXCEPT !.status = call[c].was, !.enabled = call[c].wasEnabled] ELSE inst
  /\ Return(c)
  /\ causes' = causes \cup {"aborted"}
  /\ UNCHANGED <<revs, route, cap, jobs, agent, node, ops>>

\* ForceDeleteInstance: for a node that is lost, so nothing is done there.
ForceDeleteInstance ==
  /\ Operator
  /\ inst.status \notin {"absent", "deleted"}
  /\ Cleaned
  /\ jobs' = [j \in Job |-> IF Unfinished(j) /\ jobs[j].op # "install"
                              THEN [jobs[j] EXCEPT !.status = "cancelled"] ELSE jobs[j]]
  /\ causes' = causes \cup {"force deleted"}
  /\ UNCHANGED <<cap, call, agent, node, faults>>

-----------------------------------------------------------------------------
(***************************************************************************)
(* Revisions.  createInstanceRevision is five statements and no            *)
(* transaction.                                                            *)
(***************************************************************************)
\* An apply is under way from its first read to its side effects.
ApplyUnderWay ==
  \/ \E c \in Call : call[c].op = "apply" /\ call[c].pc \in {"materialize", "initial", "initialMark", "queue", "create", "install", "capMark", "mark"}
  \/ \E j \in Job : jobs[j].op \in {"apply", "install"} /\ (Unfinished(j) \/ EffectsDue(j))

\* GetInstance, and then the validation of the spec.
revisionRead(c) ==
  /\ call[c].pc = "idle" /\ Exists /\ Len(revs) < MaxRevs
  /\ \E verdict \in {"draft", "validated"} :
       call' = [call EXCEPT ![c] = [Idle EXCEPT !.pc = "number", !.cur = inst.current, !.last = inst.last,
                                               !.verdict = verdict]]
  /\ causes' = causes \cup (IF \E d \in Call : Editing(d) THEN {"concurrent edits"} ELSE {})
                      \cup (IF ApplyUnderWay THEN {"edited during apply"} ELSE {})
  /\ UNCHANGED <<inst, revs, route, cap, jobs, agent, node, faults>>

ReplaceInstanceSpec(c) == Operator /\ revisionRead(c)

\* Any revision but the current one that was good once.
RollbackInstanceRevision(c) ==
  /\ Operator
  /\ \E r \in DOMAIN revs \ {inst.current} : revs[r] \in {"validated", "applied", "superseded"}
  /\ revisionRead(c)

RevisionNumber(c) ==
  /\ call[c].pc = "number"
  /\ call' = [call EXCEPT ![c].pc = "supersede", ![c].no = Len(revs) + 1]
  /\ UNCHANGED <<inst, revs, route, cap, jobs, agent, node, causes, ops, faults>>

superseded(c) ==
  [r \in DOMAIN revs |->
     IF r = call[c].cur /\ r # call[c].last /\ revs[r] \in {"draft", "validated", "failed"}
       THEN "superseded" ELSE revs[r]]

RevisionSupersede(c) ==
  /\ call[c].pc = "supersede"
  /\ revs' = superseded(c)
  /\ Go(c, "insert")
  /\ UNCHANGED <<inst, route, cap, jobs, agent, node, causes, ops, faults>>

\* unique(instance_id, revision_no) stops the second of two that took a number.
RevisionInsert(c) ==
  /\ call[c].pc = "insert"
  /\ IF call[c].no = Len(revs) + 1 /\ Exists
       THEN /\ revs' = Append(revs, call[c].verdict)
            /\ Go(c, "current")
       ELSE /\ IF call[c].mode = "edit" THEN Return(c) ELSE Go(c, "discard")
            /\ UNCHANGED revs
  /\ UNCHANGED <<inst, route, cap, jobs, agent, node, causes, ops, faults>>

RevisionCurrent(c) ==
  /\ call[c].pc = "current" /\ Exists
  /\ inst' = [inst EXCEPT !.current = call[c].no]
  /\ IF afterRevision(c) = "idle" THEN Return(c) ELSE Go(c, afterRevision(c))
  /\ UNCHANGED <<revs, route, cap, jobs, agent, node, causes, ops, faults>>

-----------------------------------------------------------------------------
\* The process serving a call dies, or its client goes away.
Abort(c) ==
  /\ Fault
  /\ call[c].pc # "idle"
  /\ Return(c)
  /\ causes' = causes \cup {"aborted"}
  /\ UNCHANGED <<inst, revs, route, cap, jobs, agent, node, ops>>

\* The instance was discarded under a call: its next statement finds no row.
NotFound(c) ==
  /\ ~Exists
  /\ call[c].pc # "idle"
  /\ Return(c)
  /\ UNCHANGED <<inst, revs, route, cap, jobs, agent, node, causes, ops, faults>>

Next ==
  \/ AgentNextJob \/ LeaseLapse \/ AgentCrash \/ CancelJob
  \/ Execute \/ ExecuteFails \/ AgentJobResult \/ EffectsLost
  \/ \E j \in Job : applyInstanceJobCompletionSideEffects(j) \/ CapabilityInstalled(j)
  \/ ForceDeleteInstance
  \/ \E c \in Call :
       \/ CreateInstance(c) \/ MaterializeAccesses(c) \/ InitialApply(c) \/ InitialMark(c)
       \/ DiscardInstanceDraft(c) \/ DiscardRevisions(c) \/ DiscardRow(c)
       \/ \E op \in {"apply", "start", "stop", "restart"} : UpdateInstanceStatus(c, op)
       \/ QueueOperation(c) \/ CreateOperation(c) \/ CreateFails(c) \/ CreationFails(c)
       \/ CreateInstall(c) \/ MarkCapability(c) \/ MarkInstance(c)
       \/ \E j \in Job : CapabilityDependents(c, j)
       \/ DeleteInstance(c)
       \/ ReplaceInstanceSpec(c) \/ RollbackInstanceRevision(c)
       \/ RevisionNumber(c) \/ RevisionSupersede(c) \/ RevisionInsert(c) \/ RevisionCurrent(c)
       \/ Abort(c) \/ NotFound(c)

Spec == Init /\ [][Next]_vars

-----------------------------------------------------------------------------
(***************************************************************************)
(* Properties.                                                             *)
(***************************************************************************)
\* At most one revision is 'applied', and the instance's row says which.  (The
\* completion of an apply retires the revision applied before; edits in
\* progress, with what they read before it, must not undo that.)
OneApplied == \A r \in DOMAIN revs : revs[r] = "applied" => r = inst.last

\* Nothing is queued, running or in progress.
Settled ==
  /\ \A j \in Job : ~Unfinished(j) /\ ~EffectsDue(j)
  /\ \A c \in Call : call[c].pc = "idle"
  /\ agent.job = NoJob

\* When nothing is under way, the row tells the truth about the node - an
\* active instance runs the revision recorded as applied, a disabled one is
\* down and no client is routed to it, of a deleted one nothing is left, and
\* none is "provisioning" or "deleting" - unless one of the causes on record
\* has parted them.  Lost leases, repeated attempts, crashes of the agent and
\* failed applies and deletes are not among them.
SettledAgrees ==
  Settled /\ causes = {} =>
    /\ inst.status = "active" => node = [unit |-> "running", rev |-> inst.last]
    /\ inst.status = "disabled" => node.unit # "running" /\ route # "active"
    /\ inst.status \in {"deleted", "draft", "absent"} => node.unit = "absent"
    /\ inst.status \notin {"provisioning", "deleting"}

\* docs/USER_GUIDE_EN.md:22 - only apply-ready revisions should be applied: no
\* revision becomes 'applied' that validation has left a draft.
OnlyReadyApplied ==
  [][\A r \in DOMAIN revs \cap DOMAIN revs' :
       revs'[r] = "applied" => revs[r] # "draft"]_vars
=============================================================================
