------------------------------ MODULE JobQueue ------------------------------
(***************************************************************************)
(* The job queue of the control plane: the tables jobs and resource_locks, *)
(* the claim / complete / cancel / recover transactions on them            *)
(* (internal/infra/postgres/store.go), the node remediation operations     *)
(* that cancel and requeue jobs (node_remediation.go), the worker loop     *)
(* (cmd/worker/main.go) and the agent loop with the two HTTP handlers it   *)
(* talks to (cmd/agent/control_loop.go, internal/api/http/server.go).      *)
(*                                                                         *)
(* One action is one database transaction, or one step of a process        *)
(* between two of them.  Expiry times are kept as the time left (ttl):     *)
(* ttl > 0 is "expires_at after now", ttl = 0 is "equal to now", ttl = -1  *)
(* is "before now", however long ago.  Tick moves all the clocks.          *)
(***************************************************************************)
EXTENDS Integers, FiniteSets

CONSTANTS
  Job,         \* ids of job rows
  Node,        \* nodes; a node also stands for the lease owner "agent:<id>"
  Worker,      \* worker processes; a worker id is a lease owner
  Template,    \* the job rows the control plane inserts
  ShortLease,  \* jobLeaseDuration, in ticks
  LongLease,   \* longNodeJobLeaseDuration, in ticks
  MaxLag,      \* most time between computing a lock's expiry and its job's
  StuckAfter,  \* stuckNodeJobAfter, in ticks
  MaxFaults,   \* how many crashes, losses and overruns a behaviour has
  API,         \* an API process running a completion's side effects
  None

Executor == Worker \cup Node

LiveStatus     == {"queued", "running", "retrying"}
TerminalStatus == {"succeeded", "failed", "cancelled"}

(***************************************************************************)
(* Job types, as the code lists and tests them.                            *)
(***************************************************************************)
InventoryTypes == {"node.inventory", "node.inventory.sync", "node.services.discover"}

\* The types AgentNextJob asks for and ClaimJob leaves alone.
AgentTypes ==
  InventoryTypes \cup
  {"node.capability.install", "node.capability.verify", "node.channel.probe",
   "node.agent.rotate_token", "node.emergency_cleanup", "node.reboot",
   "node.backhaul.apply", "node.backhaul.probe", "node.backhaul.cleanup",
   "node.external_egress.apply", "node.external_egress.probe",
   "node.external_egress.cleanup", "node.route_policy.apply",
   "node.route_policy.cleanup", "node.firewall.preview", "node.firewall.apply",
   "node.firewall.observe", "node.firewall.disable", "instance.restart",
   "instance.apply", "instance.start", "instance.stop", "instance.enable",
   "instance.disable", "instance.diagnose", "instance.delete"}

\* The types the worker's runOnce has a handler for.
WorkerTypes ==
  {"platform.control_plane_tls.apply", "node.bootstrap", "client.provision",
   "client_access_group.provision", "artifact.build"}

JobTypes == AgentTypes \cup WorkerTypes

ApplyTypes  == {"node.backhaul.apply", "node.external_egress.apply", "node.route_policy.apply",
                "node.firewall.apply", "instance.apply", "platform.control_plane_tls.apply"}
DeleteTypes == {"instance.delete"}
InstanceTypes == {"instance.restart", "instance.apply", "instance.start", "instance.stop",
                  "instance.enable", "instance.disable", "instance.diagnose", "instance.delete"}
NodeTypes   == (AgentTypes \ InstanceTypes) \cup {"node.bootstrap"}

LongLeaseTypes ==
  {"client_access_group.provision", "node.capability.install", "node.emergency_cleanup",
   "node.reboot", "node.backhaul.apply", "node.external_egress.apply",
   "node.external_egress.cleanup", "instance.apply", "instance.delete"}

jobLeaseDurationForType(type) == IF type \in LongLeaseTypes THEN LongLease ELSE ShortLease

\* The unique key of resource_locks that a job's row needs, NoLock if none.
NoLock == <<>>

LockKind(type) == CASE type \in DeleteTypes -> "delete"
                    [] type \in ApplyTypes  -> "apply"
                    [] OTHER                -> "mutate"

jobLockTarget(r) ==
  CASE r.type \in InventoryTypes                       -> NoLock
    [] r.type \notin InventoryTypes /\ r.instance # None
                                                       -> <<"instance", r.instance, LockKind(r.type)>>
    [] r.type \in NodeTypes \ InventoryTypes /\ r.instance = None /\ r.node # None
                                                       -> <<"node", r.node, "bootstrap">>
    [] r.type = "client.provision" /\ r.instance = None /\ r.scope # None
                                                       -> <<"client", r.scope, "provision">>
    [] r.type = "client_access_group.provision" /\ r.instance = None /\ r.scope # None
                                                       -> <<"access_group", r.scope, "provision">>
    [] OTHER                                           -> NoLock

ASSUME LeaseAssumption ==
  /\ ShortLease \in Nat /\ LongLease \in Nat /\ MaxLag \in Nat
  /\ MaxLag < ShortLease /\ ShortLease <= LongLease
  /\ StuckAfter \in Nat /\ MaxFaults \in Nat

\* touches: the nodes whose force retire cancels the job (its node, the node
\* of its instance, the ends of its backhaul link, the nodes of the instances
\* its payload names); instances: those whose force delete cancels it.
ASSUME TemplateAssumption ==
  /\ \A t \in Template :
       /\ t.type \in JobTypes
       /\ t.priority \in Nat
       /\ t.type \in AgentTypes => t.node \in Node
       /\ t.type \in NodeTypes => t.node \in Node
       /\ t.node \in Node => t.node \in t.touches
  /\ None \notin Template

ASSUME JobAssumption == IsFiniteSet(Job) /\ None \notin Job

ASSUME OwnerAssumption == Worker \cap Node = {} /\ None \notin Executor /\ API \notin Worker \cup {None}

-----------------------------------------------------------------------------
VARIABLES
  jobs,     \* the jobs table: job id -> row
  locks,    \* the resource_locks table: a set of rows
  exec,     \* the job each worker and each agent is executing
  results,  \* job results agents have sent and the API has not handled
  effect,   \* job id -> progress of its completion's side effects
  claims,   \* node_agents.last_job_claim_* / last_job_result_at, per node
  requeue,  \* per node, the stale claim RequeueNodeStuckJob has loaded
  copyOf,   \* the job a requeued job was copied from
  retired,  \* nodes with status 'retired'
  faults    \* faults so far

vars == <<jobs, locks, exec, results, effect, claims, requeue, copyOf, retired, faults>>

\* Variables only the processes around the two tables change.
processVars == <<exec, results, effect, claims, requeue, copyOf, retired, faults>>

Absent == [status |-> "absent", row |-> None, priority |-> 0, created |-> 0,
           lockedBy |-> None, ttl |-> -1]

NoClaim  == [job |-> None, age |-> 0, answered |-> FALSE]
NoEffect == [phase |-> "none", by |-> None]

Init ==
  /\ jobs = [j \in Job |-> Absent]
  /\ locks = {}
  /\ exec = [e \in Executor |-> None]
  /\ results = {}
  /\ effect = [j \in Job |-> NoEffect]
  /\ claims = [n \in Node |-> NoClaim]
  /\ requeue = [n \in Node |-> None]
  /\ copyOf = [j \in Job |-> None]
  /\ retired = {}
  /\ faults = 0

-----------------------------------------------------------------------------
(***************************************************************************)
(* Inserting jobs.  Priority 0 has become 100 before the insert.           *)
(***************************************************************************)
Inserted(row, priority) ==
  [status |-> "queued", row |-> row, priority |-> priority,
   created |-> Cardinality({j \in Job : jobs[j].status # "absent"}) + 1,
   lockedBy |-> None, ttl |-> -1]

CreateJob(j, t) ==
  /\ jobs[j].status = "absent"
  /\ jobs' = [jobs EXCEPT ![j] = Inserted(t, t.priority)]
  /\ UNCHANGED <<locks, processVars>>

\* QueueNodeRuntimeReconcile moves the jobs it queued to priority 60.
setQueuedJobPriority(j) ==
  /\ jobs[j].status = "queued"
  /\ jobs[j].row.type \in {"instance.apply", "node.route_policy.apply", "node.firewall.apply"}
  /\ jobs' = [jobs EXCEPT ![j].priority = 60]
  /\ UNCHANGED <<locks, processVars>>

-----------------------------------------------------------------------------
(***************************************************************************)
(* Stale lease recovery, on given contents of the two tables: it is the    *)
(* first step of several transactions.                                     *)
(***************************************************************************)
Released(r, status) == [r EXCEPT !.status = status, !.lockedBy = None, !.ttl = -1]

StaleLease(r) == r.status = "running" /\ r.ttl < 0

\* Mutants: recovery invents a status; recovery forgets the jobs.
recoveredToUnknown(js) == [j \in Job |-> IF StaleLease(js[j]) THEN Released(js[j], "stale") ELSE js[j]]
recoveredNothing(js) == js

recoveredJobs(js) == [j \in Job |-> IF StaleLease(js[j]) THEN Released(js[j], "retrying") ELSE js[j]]

\* Mutant: expires_at <= now, a tick early.
recoveredLocksEarly(ls) == {l \in ls : l.ttl > 0}

recoveredLocks(ls) == {l \in ls : l.ttl >= 0}

\* ListJobs, GetJob and every other reader that recovers before it reads.
RecoverStaleJobLeases ==
  /\ jobs' = recoveredJobs(jobs)
  /\ locks' = recoveredLocks(locks)
  /\ UNCHANGED processVars

-----------------------------------------------------------------------------
(***************************************************************************)
(* Claiming.  The candidates are read in priority and creation order, FOR  *)
(* UPDATE SKIP LOCKED: rows that a concurrent transaction holds (skipped)  *)
(* are passed over.  The loop goes on to the next candidate when the lock  *)
(* row of the first is taken, but the failed insert has aborted the        *)
(* transaction, so every later statement fails too: only the head of the   *)
(* candidates can be claimed, and a claim that fails rolls back the        *)
(* recovery it began with.                                                 *)
(***************************************************************************)
Waiting(js) == {j \in Job : js[j].status \in {"queued", "retrying"}}

workerCandidates(js) == {j \in Waiting(js) : js[j].row.type \notin AgentTypes}

agentCandidates(js, n) ==
  {j \in Waiting(js) : js[j].row.type \in AgentTypes /\ js[j].row.node = n}

Ahead(js, i, j) ==
  \/ js[i].priority < js[j].priority
  \/ js[i].priority = js[j].priority /\ js[i].created < js[j].created

IsHead(js, candidates, j) ==
  j \in candidates /\ \A i \in candidates \ {j} : Ahead(js, j, i)

\* Mutant: a lock whose job's lease ends at this moment no longer counts.
LockFreeAtExpiry(ls, r) == \A l \in ls : l.key = jobLockTarget(r) => jobs[l.job].ttl <= 0

LockFree(ls, r) == \A l \in ls : l.key # jobLockTarget(r)

LockRows(j, r, lag) ==
  IF jobLockTarget(r) = NoLock THEN {}
  ELSE {[key |-> jobLockTarget(r), job |-> j, ttl |-> jobLeaseDurationForType(r.type) - lag]}

Leased(r, owner) ==
  [r EXCEPT !.status = "running", !.lockedBy = owner, !.ttl = jobLeaseDurationForType(r.row.type)]

claimJob(owner, js, ls, candidates, j) ==
  /\ \E skipped \in SUBSET candidates : IsHead(js, candidates \ skipped, j)
  /\ LockFree(ls, js[j].row)
  /\ \E lag \in 0..MaxLag : locks' = ls \cup LockRows(j, js[j].row, lag)
  /\ jobs' = [js EXCEPT ![j] = Leased(@, owner)]

\* runOnce: a worker takes its next job when it is done with the last one.
ClaimJob(w) ==
  /\ exec[w] = None
  /\ \A j \in Job : effect[j] # [phase |-> "pending", by |-> w]
  /\ \E j \in Job :
       /\ claimJob(w, recoveredJobs(jobs), recoveredLocks(locks),
                   workerCandidates(recoveredJobs(jobs)), j)
       /\ exec' = [exec EXCEPT ![w] = j]
  /\ UNCHANGED <<results, effect, claims, requeue, copyOf, retired, faults>>

Fault == faults < MaxFaults /\ faults' = faults + 1

\* An agent's poll.  Resolving the secrets of the job may fail, and the answer
\* may be lost, after the claim has committed: the job then stays running with
\* nobody executing it, before or after the claim was recorded.
AgentNextJob(n) ==
  /\ n \notin retired
  /\ exec[n] = None
  /\ \E j \in Job :
       /\ claimJob(n, recoveredJobs(jobs), recoveredLocks(locks),
                   agentCandidates(recoveredJobs(jobs), n), j)
       /\ \/ /\ exec' = [exec EXCEPT ![n] = j]
             /\ claims' = [claims EXCEPT ![n] = [job |-> j, age |-> 0, answered |-> FALSE]]
             /\ UNCHANGED faults
          \/ /\ Fault
             /\ \/ claims' = claims
                \/ claims' = [claims EXCEPT ![n] = [job |-> j, age |-> 0, answered |-> FALSE]]
             /\ UNCHANGED exec
  /\ UNCHANGED <<results, effect, requeue, copyOf, retired>>

-----------------------------------------------------------------------------
(***************************************************************************)
(* Completing.  completeJob commits the final status and the release of    *)
(* the lock rows, and applies the side effects in later transactions.      *)
(***************************************************************************)
locksWithout(ls, js) == {l \in ls : l.job \notin js}

\* Mutant: the lock rows stay.
completedKeepingLocks(js, ls, j, status, by) ==
  /\ jobs' = [js EXCEPT ![j] = Released(@, status)]
  /\ locks' = ls
  /\ effect' = [effect EXCEPT ![j] = [phase |-> "pending", by |-> by]]

completed(js, ls, j, status, by) ==
  /\ jobs' = [js EXCEPT ![j] = Released(@, status)]
  /\ locks' = locksWithout(ls, {j})
  /\ effect' = [effect EXCEPT ![j] = [phase |-> "pending", by |-> by]]

\* Mutant: the "already finished" check is dropped.
CompleteJobAgain(w, status) ==
  /\ exec[w] # None
  /\ completed(jobs, locks, exec[w], status, w)
  /\ exec' = [exec EXCEPT ![w] = None]
  /\ UNCHANGED <<results, claims, requeue, copyOf, retired, faults>>

\* A worker's handler has ended.  Its completion checks no lease.
CompleteJob(w, status) ==
  /\ exec[w] # None
  /\ IF jobs[exec[w]].status \in TerminalStatus
     THEN UNCHANGED <<jobs, locks, effect>>
     ELSE completed(jobs, locks, exec[w], status, w)
  /\ exec' = [exec EXCEPT ![w] = None]
  /\ UNCHANGED <<results, claims, requeue, copyOf, retired, faults>>

\* The agent has executed its job and posts the result; it polls again when
\* the request has been answered or has timed out.
AgentSubmit(n, status) ==
  /\ exec[n] # None
  /\ results' = results \cup {[job |-> exec[n], status |-> status]}
  /\ exec' = [exec EXCEPT ![n] = None]
  /\ UNCHANGED <<jobs, locks, effect, claims, requeue, copyOf, retired, faults>>

\* completeJob with requireLease, for the owner "agent:<node of the job>".
leaseHeld(r) == r.status = "running" /\ r.lockedBy = r.row.node /\ r.ttl > 0

\* agentJobResult: recover (GetJob), then CompleteAgentJob.
AgentJobResult(m) ==
  /\ m \in results
  /\ results' = results \ {m}
  /\ LET js == recoveredJobs(jobs)
         ls == recoveredLocks(locks)
     IN  IF leaseHeld(js[m.job]) /\ js[m.job].row.node \notin retired
         THEN completed(js, ls, m.job, m.status, API)
         ELSE jobs' = js /\ locks' = ls /\ UNCHANGED effect
  /\ UNCHANGED <<exec, claims, requeue, copyOf, retired, faults>>

\* An answer to an API handler is followed by RecordAgentJobResult.
answered(j) ==
  IF effect[j].by = API
  THEN claims' = [claims EXCEPT ![jobs[j].row.node].answered = TRUE]
  ELSE UNCHANGED claims

ApplyJobCompletionSideEffects(j) ==
  /\ effect[j].phase = "pending"
  /\ effect' = [effect EXCEPT ![j] = [phase |-> "applied", by |-> None]]
  /\ answered(j)
  /\ UNCHANGED <<jobs, locks, exec, results, requeue, copyOf, retired, faults>>

\* Mutant: the failure is only logged.
logSideEffectFailure(j) ==
  /\ effect[j].phase = "pending"
  /\ effect' = [effect EXCEPT ![j] = [phase |-> "failed", by |-> None]]
  /\ answered(j)
  /\ UNCHANGED <<jobs, locks, exec, results, requeue, copyOf, retired, faults>>

markJobCompletionSideEffectFailure(j) ==
  /\ effect[j].phase = "pending"
  /\ effect' = [effect EXCEPT ![j] = [phase |-> "failed", by |-> None]]
  /\ jobs' = [jobs EXCEPT ![j] = Released(@, "failed")]
  /\ answered(j)
  /\ UNCHANGED <<locks, exec, results, requeue, copyOf, retired, faults>>

\* The process dies between the commit and the side effects.
CompletionCrash(j) ==
  /\ effect[j].phase = "pending"
  /\ Fault
  /\ effect' = [effect EXCEPT ![j] = [phase |-> "lost", by |-> None]]
  /\ UNCHANGED <<jobs, locks, exec, results, claims, requeue, copyOf, retired>>

-----------------------------------------------------------------------------
(***************************************************************************)
(* Operator actions.                                                       *)
(***************************************************************************)
CancelJob(j) ==
  /\ jobs[j].status # "absent"
  /\ LET js == recoveredJobs(jobs)
         ls == recoveredLocks(locks)
     IN  IF js[j].status \in {"queued", "retrying"}
         THEN /\ jobs' = [js EXCEPT ![j] = Released(@, "cancelled")]
              /\ locks' = locksWithout(ls, {j})
         ELSE jobs' = js /\ locks' = ls
  /\ UNCHANGED processVars

cancelled(js) ==
  [j \in Job |-> IF j \in js THEN Released(jobs[j], "cancelled") ELSE jobs[j]]

\* ForceRetireNode cancels the live jobs that touch the node, whoever runs
\* them, and drops their locks and those on the node itself.
ForceRetireNode(n) ==
  /\ n \notin retired
  /\ retired' = retired \cup {n}
  /\ LET js == {j \in Job : jobs[j].status \in LiveStatus /\ n \in jobs[j].row.touches}
     IN  /\ jobs' = cancelled(js)
         /\ locks' = {l \in locksWithout(locks, js) : ~(l.key[1] = "node" /\ l.key[2] = n)}
  /\ UNCHANGED <<exec, results, effect, claims, requeue, copyOf, faults>>

ForceDeleteInstance(i) ==
  /\ LET js == {j \in Job : jobs[j].status \in LiveStatus /\ i \in jobs[j].row.instances}
     IN  /\ js # {}
         /\ jobs' = cancelled(js)
         /\ locks' = locksWithout(locks, js)
  /\ UNCHANGED processVars

\* RequeueNodeStuckJob reads the node's last claim outside its transaction ...
loadNodeStaleClaim(n) ==
  /\ requeue[n] = None
  /\ claims[n].job # None
  /\ claims[n].age >= StuckAfter
  /\ ~claims[n].answered
  /\ jobs[claims[n].job].status \in {"running", "retrying"}
  /\ requeue' = [requeue EXCEPT ![n] = claims[n].job]
  /\ UNCHANGED <<jobs, locks, exec, results, effect, claims, copyOf, retired, faults>>

\* ... and in it cancels that job, if it is still running or retrying, and
\* queues a copy of it, in any case.  GetJob on the copy recovers leases.
RequeueNodeStuckJob(n, k) ==
  /\ requeue[n] # None
  /\ jobs[k].status = "absent"
  /\ LET s  == requeue[n]
         js == [jobs EXCEPT ![s] = IF @.status \in {"running", "retrying"}
                                   THEN Released(@, "cancelled") ELSE @,
                            ![k] = Inserted(jobs[s].row, jobs[s].priority)]
     IN  /\ jobs' = recoveredJobs(js)
         /\ locks' = recoveredLocks(locksWithout(locks, {s}))
         /\ copyOf' = [copyOf EXCEPT ![k] = s]
  /\ requeue' = [requeue EXCEPT ![n] = None]
  /\ UNCHANGED <<exec, results, effect, claims, retired, faults>>

-----------------------------------------------------------------------------
(***************************************************************************)
(* Time and faults.                                                        *)
(***************************************************************************)
Crash(e) ==
  /\ exec[e] # None
  /\ Fault
  /\ exec' = [exec EXCEPT ![e] = None]
  /\ UNCHANGED <<jobs, locks, results, effect, claims, requeue, copyOf, retired>>

LoseResult(m) ==
  /\ m \in results
  /\ Fault
  /\ results' = results \ {m}
  /\ UNCHANGED <<jobs, locks, exec, effect, claims, requeue, copyOf, retired>>

\* Somebody is still working for the current lease of j.
InProgress(j) ==
  /\ jobs[j].status = "running"
  /\ \/ \E e \in Executor : exec[e] = j /\ jobs[j].lockedBy = e
     \/ \E m \in results : m.job = j

\* The next tick ends the lease of a job before its executor is done.
Overrun == \E j \in Job : InProgress(j) /\ jobs[j].ttl = 1

Less(ttl) == IF ttl > -1 THEN ttl - 1 ELSE ttl

Tick ==
  /\ IF Overrun THEN Fault ELSE UNCHANGED faults
  /\ jobs' = [j \in Job |-> [jobs[j] EXCEPT !.ttl = Less(@)]]
  /\ locks' = {[l EXCEPT !.ttl = Less(@)] : l \in locks}
  /\ claims' = [n \in Node |-> [claims[n] EXCEPT !.age = IF @ < StuckAfter THEN @ + 1 ELSE @]]
  /\ UNCHANGED <<exec, results, effect, requeue, copyOf, retired>>

-----------------------------------------------------------------------------
ResultStatus == {"succeeded", "failed"}

Next ==
  \/ \E j \in Job, t \in Template : CreateJob(j, t)
  \/ \E j \in Job : \/ setQueuedJobPriority(j)
                    \/ CancelJob(j)
                    \/ ApplyJobCompletionSideEffects(j)
                    \/ markJobCompletionSideEffectFailure(j)
                    \/ CompletionCrash(j)
  \/ RecoverStaleJobLeases
  \/ \E w \in Worker : ClaimJob(w) \/ \E s \in ResultStatus : CompleteJob(w, s)
  \/ \E n \in Node : \/ AgentNextJob(n)
                     \/ \E s \in ResultStatus : AgentSubmit(n, s)
                     \/ ForceRetireNode(n)
                     \/ loadNodeStaleClaim(n)
                     \/ \E k \in Job : RequeueNodeStuckJob(n, k)
  \/ \E i \in UNION {t.instances : t \in Template} : ForceDeleteInstance(i)
  \/ \E m \in results : AgentJobResult(m) \/ LoseResult(m)
  \/ \E e \in Executor : Crash(e)
  \/ Tick

Spec == Init /\ [][Next]_vars

(***************************************************************************)
(* Fairness: workers and agents poll on a timer for ever and finish what   *)
(* they execute, requests arrive, completions run on, time passes.         *)
(* Nothing is assumed of operators, of readers of the job list (so not of  *)
(* RecoverStaleJobLeases) or of faults.                                    *)
(***************************************************************************)
Fairness ==
  /\ WF_vars(Tick)
  /\ \A w \in Worker : /\ WF_vars(ClaimJob(w))
                       /\ WF_vars(\E s \in ResultStatus : CompleteJob(w, s))
  /\ \A n \in Node : /\ WF_vars(AgentNextJob(n))
                     /\ WF_vars(\E s \in ResultStatus : AgentSubmit(n, s))
  /\ WF_vars(\E m \in results : AgentJobResult(m))
  /\ \A j \in Job : WF_vars(ApplyJobCompletionSideEffects(j) \/ markJobCompletionSideEffectFailure(j))

LiveSpec == Spec /\ Fairness

-----------------------------------------------------------------------------
(***************************************************************************)
(* Properties.                                                             *)
(***************************************************************************)
JobRow == [status: LiveStatus \cup TerminalStatus \cup {"absent"},
           row: Template \cup {None}, priority: Nat, created: Nat,
           lockedBy: Executor \cup {None}, ttl: Nat \cup {-1}]

LockKeys == {jobLockTarget(t) : t \in Template} \ {NoLock}

LockRow == [key: LockKeys, job: Job, ttl: Nat \cup {-1}]

\* Every table row and every process has the shape its definition gives it;
\* a job that was inserted has the row it was inserted with.
TypeOK ==
  /\ jobs \in [Job -> JobRow]
  /\ \A j \in Job : jobs[j].status = "absent" <=> jobs[j].row = None
  /\ locks \in SUBSET LockRow
  /\ exec \in [Executor -> Job \cup {None}]
  /\ results \in SUBSET [job: Job, status: ResultStatus]
  /\ effect \in [Job -> [phase: {"none", "pending", "applied", "failed", "lost"},
                         by: Worker \cup {API, None}]]
  /\ claims \in [Node -> [job: Job \cup {None}, age: 0..StuckAfter, answered: BOOLEAN]]
  /\ requeue \in [Node -> Job \cup {None}]
  /\ copyOf \in [Job -> Job \cup {None}]
  /\ retired \in SUBSET Node
  /\ faults \in 0..MaxFaults

\* A row of resource_locks never outlives what it protects: it belongs to a
\* running job that needs exactly that key, and it expires no later than that
\* job's lease.  (claimJob inserts the row, and recovery, completion, cancel,
\* requeue and the two force operations are each meant to remove it.)
NoOrphanLock ==
  \A l \in locks : /\ jobs[l.job].status = "running"
                   /\ jobLockTarget(jobs[l.job].row) = l.key
                   /\ l.ttl <= jobs[l.job].ttl

\* Exclusion by resource: when two jobs that need the same lock are both
\* running, one of them has less than MaxLag of its lease left.  (The lock's
\* expiry is computed before the lease's, in acquireJobResourceLockTx and then
\* in claimJob, and neither table is locked against the other.)
LeaseExclusion ==
  \A i, j \in Job :
    (/\ i # j
     /\ jobs[i].status = "running" /\ jobs[j].status = "running"
     /\ jobLockTarget(jobs[i].row) # NoLock
     /\ jobLockTarget(jobs[i].row) = jobLockTarget(jobs[j].row))
    => jobs[i].ttl < MaxLag \/ jobs[j].ttl < MaxLag

\* Exactly the running jobs are leased, each to an executor that may run its
\* type: an agent's job to the agent of its own node, any other to a worker.
\* (So the "legacy" branch of recovery, for running rows without a lease, is
\* dead, and agentJobResult can compute the owner from the job's node.)
RunningIsLeased ==
  \A j \in Job :
    /\ jobs[j].status = "running" <=> jobs[j].lockedBy # None
    /\ jobs[j].status = "running" =>
         IF jobs[j].row.type \in AgentTypes
         THEN jobs[j].lockedBy = jobs[j].row.node
         ELSE jobs[j].lockedBy \in Worker

\* What a completion still has to do agrees with the row it committed: side
\* effects are pending only for a job with a final status, and a job whose
\* side effects failed says so, so markJobCompletionSideEffectFailure always
\* finds the status it compares with.
EffectAgreesWithStatus ==
  \A j \in Job : /\ effect[j].phase # "none" => jobs[j].status \in {"succeeded", "failed"}
                 /\ effect[j].phase = "failed" => jobs[j].status = "failed"

\* A final status is final: the only change is that a success turns into a
\* failure while its side effects are being applied.
TerminalStable ==
  [][\A j \in Job :
       jobs[j].status \in TerminalStatus =>
         \/ jobs'[j].status = jobs[j].status
         \/ /\ jobs[j].status = "succeeded" /\ jobs'[j].status = "failed"
            /\ effect[j].phase = "pending"]_vars

\* The queue as JobLease sees it.  A lease or lock that has expired is gone,
\* whether or not a recovery has taken it out of its table.
LeasePhase(r) ==
  CASE r.status = "absent"                    -> "absent"
    [] r.status = "running" /\ r.ttl >= 0     -> "leased"
    [] r.status = "running" /\ r.ttl < 0      -> "waiting"
    [] r.status \in {"queued", "retrying"}    -> "waiting"
    [] r.status \in {"succeeded", "failed"}   -> "done"
    [] OTHER                                  -> "cancelled"

leasePhases(js) == [j \in Job |-> LeasePhase(js[j])]

leaseKeys(js) == [j \in Job |-> IF js[j].status = "absent" THEN NoLock ELSE jobLockTarget(js[j].row)]

heldKeys(ls) == {<<l.key, l.job>> : l \in {l \in ls : l.ttl >= 0}}

owedEffects(ef) == [j \in Job |-> CASE ef[j].phase = "none"    -> "none"
                                   [] ef[j].phase = "pending" -> "due"
                                   [] OTHER                   -> "settled"]

LeaseView == INSTANCE JobLease
  WITH Key <- LockKeys, NoKey <- NoLock, phase <- leasePhases(jobs), key <- leaseKeys(jobs),
       held <- heldKeys(locks), owed <- owedEffects(effect)

\* The queue keeps the promise of JobLease: every transaction, tick and fault
\* is one of its steps or none.  Recovery, which runs inside other
\* transactions and may be rolled back with them, is never a step.
ImplementsJobLease == LeaseView!Spec

\* Every job for which an executor exists finishes, or its node is retired:
\* dead agents, lost answers and lapsed leases only delay it.
JobsFinish ==
  \A j \in Job : jobs[j].status \in LiveStatus ~>
                   \/ jobs[j].status \in TerminalStatus
                   \/ jobs[j].status # "absent" /\ jobs[j].row.node \in retired

-----------------------------------------------------------------------------
(***************************************************************************)
(* A statement the repository makes of the queue that the code does not    *)
(* keep; it is the one property of a run that must fail.                   *)
(***************************************************************************)
\* store.go:3396 - a lock on the node does not prevent the agent from being
\* given an inventory job: whenever one is waiting, an undisturbed poll of an
\* idle agent is given some job.
InventoryNotBlocked ==
  \A n \in Node \ retired :
    LET js   == recoveredJobs(jobs)
        cand == agentCandidates(js, n)
    IN  (exec[n] = None /\ \E j \in cand : js[j].row.type \in InventoryTypes)
        => \E j \in cand : IsHead(js, cand, j) /\ LockFree(recoveredLocks(locks), js[j].row)
=============================================================================
