------------------------------ MODULE NodeJobs ------------------------------
(***************************************************************************)
(* The queue of JobQueue as the features that configure a node see it: a   *)
(* feature appends a job of one node, the node's agent takes its jobs one  *)
(* by one and in their order, runs the feature's handler, and submits a    *)
(* result; the completion first makes the job terminal and then, in a      *)
(* statement of its own, applies the feature's side effects.               *)
(*                                                                         *)
(* Sources: internal/infra/postgres/store.go, node_remediation.go,         *)
(* cmd/agent/control_loop.go.  JobQueue models leases and locks; here a    *)
(* lapsed lease is recovered at once and the node's lock is held by its    *)
(* running job, which is what JobQueue's NoOrphanLock and LeaseExclusion   *)
(* give.  Left out: a requeue that races the job's own completion, and the *)
(* requeue of a job that waits to be retried (JobQueue has both).          *)
(***************************************************************************)
EXTENDS Naturals, Sequences

CONSTANTS
  Node,       \* the nodes
  MaxJobs,    \* how many jobs are created
  MaxFaults   \* how many crashes, lapses and failures a behaviour has

VARIABLES
  jobs,       \* the feature's rows of jobs, oldest first
  agent,      \* by node: the job its agent works on, what is left to do, the result
  faults      \* faults so far

jobVars == <<jobs, agent, faults>>

NoJob == 0

AgentIdle == [job |-> NoJob, todo |-> <<>>, warned |-> FALSE, result |-> "none"]

JobsInit ==
  /\ jobs = <<>>
  /\ agent = [n \in Node |-> AgentIdle]
  /\ faults = 0

Fault == faults < MaxFaults /\ faults' = faults + 1

Job == DOMAIN jobs

Unfinished(j) == jobs[j].status \in {"queued", "running"}

\* CreateJob: the row carries the feature's type, scope, payload and priority.
newJob(type, node, scope, payload, priority) ==
  [type |-> type, node |-> node, scope |-> scope, payload |-> payload,
   priority |-> priority, status |-> "queued", effect |-> "none"]

QueueAt(priority, type, node, scope, payload) ==
  /\ Len(jobs) < MaxJobs
  /\ jobs' = Append(jobs, newJob(type, node, scope, payload, priority))

\* The jobs of a feature that gives all of them the default priority.
Queue(type, node, scope, payload) == QueueAt(100, type, node, scope, payload)

NextId == Len(jobs) + 1

-----------------------------------------------------------------------------
(***************************************************************************)
(* AgentNextJob: the waiting job of the node with the least priority, the  *)
(* oldest of those, once no other holds the node's lock.  A feature says   *)
(* what the handler will do.                                               *)
(***************************************************************************)
Before(j, i) ==
  \/ jobs[j].priority < jobs[i].priority
  \/ jobs[j].priority = jobs[i].priority /\ j <= i

Claimable(n, j) ==
  /\ agent[n].job = NoJob
  /\ jobs[j].status = "queued" /\ jobs[j].node = n
  /\ \A i \in Job : jobs[i].node = n => /\ jobs[i].status # "running"
                                        /\ jobs[i].status = "queued" => Before(j, i)

Claim(n, j, todo) ==
  /\ jobs' = [jobs EXCEPT ![j].status = "running"]
  /\ agent' = [agent EXCEPT ![n] = [AgentIdle EXCEPT !.job = j, !.todo = todo]]

\* The claim has been committed, but the payload could not be completed: the
\* answer is an error and the agent has no job.
ClaimWithoutAnswer(j) == jobs' = [jobs EXCEPT ![j].status = "running"] /\ UNCHANGED agent

Working(n) == agent[n].job # NoJob /\ agent[n].result = "none"

Finish(n, result) == agent' = [agent EXCEPT ![n].result = result, ![n].todo = <<>>]

\* The next command of the handler has been run.
Advance(n) == agent' = [agent EXCEPT ![n].todo = Tail(@)]

Warn(n) == agent' = [agent EXCEPT ![n].todo = Tail(@), ![n].warned = TRUE]

\* agentJobResult and completeJob: refused when the lease is gone.  Otherwise
\* the agent waits for the answer, which comes after the side effects.
AgentJobResult(n) ==
  LET j == agent[n].job
  IN  /\ agent[n].result \in {"succeeded", "failed"}
      /\ IF jobs[j].status = "running"
         THEN /\ jobs' = [jobs EXCEPT ![j].status = agent[n].result, ![j].effect = "pending"]
              /\ agent' = [agent EXCEPT ![n].result = "sent"]
         ELSE agent' = [agent EXCEPT ![n] = AgentIdle] /\ UNCHANGED jobs
      /\ UNCHANGED faults

\* The answer to whoever still waits for j's result.
Answer(j) == agent' = [n \in Node |-> IF agent[n].job = j THEN AgentIdle ELSE agent[n]]

\* applyJobCompletionSideEffects has run for j, or has returned an error.
EffectDue(j) == jobs[j].effect = "pending"

EffectDone(j) == jobs' = [jobs EXCEPT ![j].effect = "applied"] /\ Answer(j)

EffectRefused(j) == jobs' = [jobs EXCEPT ![j].effect = "failed", ![j].status = "failed"] /\ Answer(j)

\* The process dies between the completion and its side effects.
CompletionCrash ==
  /\ Fault
  /\ \E j \in Job : EffectDue(j) /\ jobs' = [jobs EXCEPT ![j].effect = "lost"] /\ Answer(j)

LeaseLapse ==
  /\ Fault
  /\ \E j \in Job : jobs[j].status = "running" /\ jobs' = [jobs EXCEPT ![j].status = "queued"]
  /\ UNCHANGED agent

\* The agent restarts wherever its handler is, loses the result it has, or no
\* longer waits for the answer to it.
AgentCrash ==
  /\ Fault
  /\ \E n \in Node : agent[n].job # NoJob /\ agent' = [agent EXCEPT ![n] = AgentIdle]
  /\ UNCHANGED jobs

CancelJob ==
  /\ \E j \in Job : jobs[j].status = "queued" /\ jobs' = [jobs EXCEPT ![j].status = "cancelled"]
  /\ UNCHANGED <<agent, faults>>

\* RequeueNodeStuckJob: the stuck job is cancelled and a copy of it queued.
RequeueNodeStuckJob ==
  /\ Fault
  /\ Len(jobs) < MaxJobs
  /\ \E j \in Job :
       /\ jobs[j].status = "running"
       /\ jobs' = Append([jobs EXCEPT ![j].status = "cancelled"],
                         newJob(jobs[j].type, jobs[j].node, jobs[j].scope, jobs[j].payload,
                                jobs[j].priority))
  /\ UNCHANGED agent

\* No agent is in the middle of a job.
Quiet == \A n \in Node : agent[n].job = NoJob
=============================================================================
