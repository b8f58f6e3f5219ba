---------------------------- MODULE RuntimeStates ----------------------------
(***************************************************************************)
(* The runtime state of an instance, as the control plane shows it: one    *)
(* row that queued jobs, completions and the agent's reports write over    *)
(* each other, with a verdict on runtime, health and drift.                *)
(*                                                                         *)
(* Sources: internal/infra/postgres/runtime_states.go, store.go,           *)
(* node_remediation.go, cmd/agent/runtime_report.go, control_loop.go.  One *)
(* instance with an endpoint port on one node.  The agent reports between  *)
(* its jobs and waits for the answer; a report it no longer waits for may  *)
(* still arrive.  The operator's calls are taken whole but for the row's   *)
(* own write, which follows the job (InstanceLifecycle splits them).  The  *)
(* history of observations follows the row and is left out.                *)
(***************************************************************************)
EXTENDS NodeJobs

CONSTANTS
  OpenVPN,    \* whether the service is OpenVPN
  MaxRev,
  MaxOps,
  MaxEvents   \* how often the unit changes by itself

VARIABLES
  inst,       \* the row of instances
  node,       \* what is on the node: the config's revision, the unit, its port
  row,        \* the row of instance_runtime_states
  report,     \* the report under way
  queued,     \* jobs whose call has yet to write the row
  raced,      \* a revision was made while an apply was under way
  ops, events

vars == <<inst, node, row, report, queued, raced, ops, events, jobs, agent, faults>>

TheNode == CHOOSE n \in Node : TRUE
NoRow == [by |-> "none"]
NoReport == [stage |-> "none", waits |-> FALSE]
Transition == {"activating", "deactivating", "reloading"}

Init ==
  /\ inst = [cur |-> 1, applied |-> 0, status |-> "draft", enabled |-> TRUE]
  /\ node = [rev |-> 0, unit |-> "inactive", port |-> FALSE]
  /\ row = NoRow
  /\ report = NoReport
  /\ queued = {}
  /\ raced = FALSE
  /\ ops = 0 /\ events = 0
  /\ JobsInit

-----------------------------------------------------------------------------
(***************************************************************************)
(* The verdicts.  A report r has the revision of the config (0 when there  *)
(* is none), the unit's state, whether the endpoint port listens, and the  *)
(* revision the agent says it observed; i is the row of the instance.      *)
(***************************************************************************)
desiredInstanceStopped(i) == ~i.enabled \/ i.status \in {"disabled", "deleted", "deleting"}

\* A config that cannot be read, or a unit that failed, is an error; a config
\* that is missing before the current revision has been applied is not.
runtimeReportConfigMissingBeforeApply(i, r) == r.rev = 0 /\ i.applied # i.cur

reportError(i, r) ==
  r.unit = "failed" \/ (r.rev = 0 /\ ~runtimeReportConfigMissingBeforeApply(i, r))

openVPNRuntimeReportOperationalDuringTransition(i, r) ==
  /\ OpenVPN
  /\ ~desiredInstanceStopped(i) /\ r.unit \in Transition
  /\ r.rev # 0 /\ r.port
  /\ i.applied = i.cur /\ r.observed = i.cur

runtimeStatusFromAgentReport(i, r) ==
  IF reportError(i, r) THEN "failed"
  ELSE CASE r.unit = "active" -> "active"
         [] r.unit = "inactive" -> "stopped"
         [] r.unit \in Transition ->
              IF openVPNRuntimeReportOperationalDuringTransition(i, r) THEN "active" ELSE "transitioning"
         [] OTHER -> IF desiredInstanceStopped(i) THEN "stopped" ELSE "unknown"

\* evaluateSystemdActiveCheck, evaluateConfigObservedCheck,
\* evaluateEndpointListeningCheck, for a report of a unit that is meant to run.
systemdCheck(r) == CASE r.unit = "active" -> "ok" [] r.unit = "failed" -> "failed"
                     [] r.unit = "unknown" -> "unknown" [] OTHER -> "warning"
configCheck(i, r) == IF r.rev # 0 THEN "ok" ELSE IF reportError(i, r) THEN "failed" ELSE "warning"
endpointCheck(r) == IF r.port THEN "ok" ELSE "warning"
evaluateDriverHealthChecks(i, r) == {systemdCheck(r), configCheck(i, r), endpointCheck(r)}

healthStatusFromAgentReport(i, r) ==
  LET checks == evaluateDriverHealthChecks(i, r)
  IN  IF reportError(i, r) THEN "unhealthy"
      ELSE IF r.unit \in Transition
        THEN IF openVPNRuntimeReportOperationalDuringTransition(i, r) THEN "healthy" ELSE "provisioning"
      ELSE IF desiredInstanceStopped(i) THEN IF r.unit = "active" THEN "degraded" ELSE "stopped"
      ELSE IF "failed" \in checks THEN "unhealthy"
      ELSE IF r.unit # "active" THEN IF r.unit = "unknown" THEN "unknown" ELSE "degraded"
      ELSE IF "warning" \in checks THEN "degraded" ELSE "healthy"

\* A wrong form: what the agent says it observed is not looked at.
driftOfUnit(i, r) ==
  IF i.cur # i.applied THEN "pending_apply"
  ELSE IF openVPNRuntimeReportOperationalDuringTransition(i, r) THEN "in_sync"
  ELSE IF desiredInstanceStopped(i) = (r.unit = "active") THEN "drifted" ELSE "in_sync"

driftStatusFromAgentReport(i, r) ==
  IF i.cur # i.applied THEN "pending_apply"
  ELSE IF r.observed # 0 /\ r.observed # i.cur THEN "drifted"
  ELSE IF desiredInstanceStopped(i) THEN IF r.unit = "active" THEN "drifted" ELSE "in_sync"
  ELSE IF r.unit \in Transition
    THEN IF openVPNRuntimeReportOperationalDuringTransition(i, r) THEN "in_sync" ELSE "pending_apply"
  ELSE IF r.unit # "active" THEN "drifted" ELSE "in_sync"

\* runtimeStatusFromJob, healthStatusFromRuntime, driftStatusForInstance, of a
\* job that is under way or has ended; what it found is not used here.
jobVerdict(i, type, status) ==
  IF status = "queued" THEN [runtime |-> "provisioning", health |-> "provisioning", drift |-> "pending_apply"]
  ELSE IF status = "failed" THEN [runtime |-> "failed", health |-> "unhealthy", drift |-> "unknown"]
  ELSE IF type = "instance.apply" THEN [runtime |-> "active", health |-> "healthy", drift |-> "in_sync"]
  ELSE [runtime |-> "stopped", health |-> "stopped",
        drift |-> IF i.cur = i.applied THEN "in_sync" ELSE "pending_apply"]

\* The row a queued or completed job writes.
jobRow(by, i, type, status) ==
  LET v == jobVerdict(i, type, status)
  IN  [by |-> by, cur |-> i.cur, seen |-> node, stopped |-> FALSE,
       runtime |-> v.runtime, health |-> v.health, drift |-> v.drift]

-----------------------------------------------------------------------------
(***************************************************************************)
(* The operator.                                                           *)
(***************************************************************************)
\* One call at a time.
Op == queued = {} /\ ops < MaxOps /\ ops' = ops + 1

ApplyUnderWay == \E j \in Job : jobs[j].type = "instance.apply" /\ (Unfinished(j) \/ EffectDue(j))

\* createInstanceRevision.
NewRevision ==
  /\ inst.cur < MaxRev /\ Op
  /\ inst' = [inst EXCEPT !.cur = @ + 1]
  /\ raced' = (raced \/ ApplyUnderWay)
  /\ UNCHANGED <<node, row, report, queued, events, jobVars>>

QueueJob(type, i) ==
  /\ Op
  /\ inst' = i
  /\ Queue(type, TheNode, "i", inst.cur)
  /\ queued' = queued \cup {NextId}
  /\ UNCHANGED <<node, row, report, raced, events, agent, faults>>

\* UpdateInstanceStatus, for apply and disable.
QueueApply == inst.status \notin {"deleting", "deleted"} /\ QueueJob("instance.apply", [inst EXCEPT !.status = "provisioning"])
QueueDisable ==
  /\ inst.status \notin {"deleting", "deleted"} /\ inst.applied # 0
  /\ QueueJob("instance.disable", [inst EXCEPT !.status = "disabled", !.enabled = FALSE])
DeleteInstance ==
  /\ inst.status \notin {"deleting", "deleted"}
  /\ QueueJob("instance.delete", [inst EXCEPT !.status = "deleting", !.enabled = FALSE])

\* upsertInstanceRuntimeStateForQueuedJob, at the end of the call.
QueuedWrites ==
  /\ \E j \in queued :
       /\ queued' = queued \ {j}
       /\ row' = jobRow("queue", inst, jobs[j].type, "queued")
  /\ UNCHANGED <<inst, node, report, raced, ops, events, jobVars>>

-----------------------------------------------------------------------------
(***************************************************************************)
(* The node.                                                               *)
(***************************************************************************)
UnitChanges ==
  /\ events < MaxEvents /\ events' = events + 1
  /\ node.rev # 0
  /\ \E u \in {"active", "inactive", "failed", "activating", "unknown"}, p \in BOOLEAN :
       /\ u # node.unit
       /\ node' = [node EXCEPT !.unit = u, !.port = p]
  /\ UNCHANGED <<inst, row, report, queued, raced, ops, jobVars>>

\* runControlLoop: the next job is fetched after the report.
AgentClaim ==
  /\ ~report.waits
  /\ \E j \in Job : Claimable(TheNode, j) /\ Claim(TheNode, j, <<>>)
  /\ UNCHANGED <<inst, node, row, report, queued, raced, ops, events, faults>>

\* The handlers, as far as the report sees them; an apply that fails has
\* written its config or has not.
AgentWorks ==
  LET j == agent[TheNode].job
      after(type, rev) ==
        IF type = "instance.apply" THEN [rev |-> rev, unit |-> "active", port |-> TRUE]
        ELSE IF type = "instance.disable" THEN [node EXCEPT !.unit = "inactive", !.port = FALSE]
        ELSE [rev |-> 0, unit |-> "inactive", port |-> FALSE]
  IN  /\ Working(TheNode)
      /\ \/ node' = after(jobs[j].type, jobs[j].payload) /\ Finish(TheNode, "succeeded")
         \/ /\ jobs[j].type = "instance.apply" /\ events < MaxEvents
            /\ node' \in {node, [rev |-> jobs[j].payload, unit |-> "failed", port |-> FALSE]}
            /\ Finish(TheNode, "failed")
      /\ UNCHANGED <<inst, row, report, queued, raced, ops, events, jobs, faults>>

AgentSubmits ==
  /\ AgentJobResult(TheNode)
  /\ UNCHANGED <<inst, node, row, report, queued, raced, ops, events>>

\* applyInstanceJobCompletionSideEffects, in one transaction.
completed(type, status) ==
  IF status = "failed" THEN IF type = "instance.disable" THEN inst ELSE [inst EXCEPT !.status = "failed"]
  ELSE IF type = "instance.apply" THEN [inst EXCEPT !.status = "active", !.enabled = TRUE, !.applied = inst.cur]
  ELSE IF type = "instance.disable" THEN [inst EXCEPT !.status = "disabled", !.enabled = FALSE]
  ELSE [inst EXCEPT !.status = "deleted", !.enabled = FALSE]

SideEffects ==
  /\ \E j \in Job :
       /\ EffectDue(j) /\ EffectDone(j)
       /\ inst' = completed(jobs[j].type, jobs[j].status)
       /\ row' = IF inst'.status = "deleted" THEN NoRow
                 ELSE jobRow("job", inst', jobs[j].type, jobs[j].status)
  /\ UNCHANGED <<node, report, queued, raced, ops, events, faults>>

-----------------------------------------------------------------------------
(***************************************************************************)
(* A report: reportInstanceRuntime and SubmitAgentInstanceRuntimeReports.  *)
(***************************************************************************)
\* ListAgentInstanceRuntimeTargets; nothing is sent when there is no target.
ReportTargets ==
  /\ report = NoReport /\ agent[TheNode].job = NoJob
  /\ inst.status # "deleted"
  /\ report' = [stage |-> "targets", waits |-> TRUE, applied |-> inst.applied]
  /\ UNCHANGED <<inst, node, row, queued, raced, ops, events, jobVars>>

\* collectInstanceRuntimeReport: what it says it observed is the revision the
\* control plane had named, as long as there is a config.
collectInstanceRuntimeReport ==
  /\ report.stage = "targets"
  /\ report' = [stage |-> "sent", waits |-> TRUE,
                r |-> [rev |-> node.rev, unit |-> node.unit, port |-> node.port,
                       observed |-> IF node.rev # 0 THEN report.applied ELSE 0]]
  /\ UNCHANGED <<inst, node, row, queued, raced, ops, events, jobVars>>

\* The agent has given up on the answer.
ReportTimeout ==
  /\ Fault
  /\ report.stage \in {"sent", "read", "wrote"} /\ report.waits
  /\ report' = [report EXCEPT !.waits = FALSE]
  /\ UNCHANGED <<inst, node, row, queued, raced, ops, events, jobs, agent>>

\* upsertInstanceRuntimeStateForAgentReport reads the instance first.
ReportReads ==
  /\ report.stage = "sent"
  /\ report' = IF inst.status = "deleted" THEN [report EXCEPT !.stage = "wrote"]
               ELSE [stage |-> "read", waits |-> report.waits, r |-> report.r, i |-> inst]
  /\ UNCHANGED <<inst, node, row, queued, raced, ops, events, jobVars>>

ReportWrites ==
  /\ report.stage = "read"
  /\ row' = [by |-> "agent", cur |-> report.i.cur, seen |-> report.r,
             stopped |-> desiredInstanceStopped(report.i),
             runtime |-> runtimeStatusFromAgentReport(report.i, report.r),
             health |-> healthStatusFromAgentReport(report.i, report.r),
             drift |-> driftStatusFromAgentReport(report.i, report.r)]
  /\ report' = [report EXCEPT !.stage = "wrote"]
  /\ UNCHANGED <<inst, node, queued, raced, ops, events, jobVars>>

\* A wrong form: rows of a deleted instance are left.
keepOrphanInstanceRuntimeRows == row

\* deleteOrphanInstanceRuntimeRows, at the end of every request with reports.
deleteOrphanInstanceRuntimeRows == IF inst.status = "deleted" THEN NoRow ELSE row

ReportEnds ==
  /\ report.stage = "wrote"
  /\ row' = deleteOrphanInstanceRuntimeRows
  /\ report' = NoReport
  /\ UNCHANGED <<inst, node, queued, raced, ops, events, jobVars>>

Faults ==
  /\ CompletionCrash \/ LeaseLapse \/ AgentCrash
  /\ UNCHANGED <<inst, node, row, queued, report, raced, ops, events>>

Next ==
  \/ NewRevision \/ QueueApply \/ QueueDisable \/ DeleteInstance \/ QueuedWrites
  \/ UnitChanges \/ AgentClaim \/ AgentWorks \/ AgentSubmits \/ SideEffects
  \/ ReportTargets \/ collectInstanceRuntimeReport \/ ReportTimeout
  \/ ReportReads \/ ReportWrites \/ ReportEnds \/ Faults

-----------------------------------------------------------------------------
(***************************************************************************)
(* Properties.                                                             *)
(***************************************************************************)
\* A report that shows an instance as healthy found it serving: the config
\* there, the port listening, the unit active or, for OpenVPN, in transition
\* with the current revision applied; and no such unit was meant to be stopped.
HealthyIsServing ==
  row.by = "agent" /\ row.health = "healthy" =>
    /\ row.seen.rev # 0 /\ row.seen.port /\ ~row.stopped
    /\ row.seen.unit = "active" \/ (OpenVPN /\ row.seen.unit \in Transition /\ row.drift = "in_sync")

\* A report that names a revision and shows the instance as in sync found the
\* current revision on the node, however late it arrived, unless a revision was
\* made during an apply (whose completion counts that revision as applied).
InSyncIsCurrent ==
  row.by = "agent" /\ row.drift = "in_sync" /\ ~raced /\ row.seen.observed # 0 => row.seen.rev = row.cur

\* The verdict that a report writes on an instance, on its health and on its
\* drift, is true of what the agent saw.
VerdictHolds == HealthyIsServing /\ InSyncIsCurrent

\* The runtime state of a deleted instance is gone once no report is under way,
\* whatever report had read the instance before; only a call that queued a job
\* can still leave a row.
DeletedHasNoState ==
  inst.status = "deleted" /\ report = NoReport => row = NoRow \/ row.by = "queue"

Spec == Init /\ [][Next]_vars
=============================================================================
