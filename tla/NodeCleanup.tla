----------------------------- MODULE NodeCleanup ----------------------------
(***************************************************************************)
(* The emergency cleanup of a node: the job lists the node's instances as  *)
(* they are when it is asked for, the agent deletes those and then         *)
(* whatever else on the host looks managed within the job's scope, may     *)
(* schedule its own removal, and the completion closes the rows of every   *)
(* instance of the node.  Applies of instances are queued and run around   *)
(* it, a reconcile queues one for every instance.                          *)
(*                                                                         *)
(* Sources: cmd/agent/node_cleanup.go; internal/infra/postgres/            *)
(* node_remediation.go, store.go.  What is on the host is a set of things: *)
(* the instances, and one element each for the backhaul, the route policy, *)
(* the external egress units, its L2TP processes, the packages these need, *)
(* and files in the same directories that are not managed.  The nginx      *)
(* front end follows the instances and is left out.                        *)
(***************************************************************************)
EXTENDS NodeJobs

CONSTANTS
  Instance,   \* instances that may be created
  InUnit,     \* those the sweep knows by their unit's name; others by their config's header
  MaxOps

VARIABLES
  row,      \* by instance: status of its row
  host,     \* what is on the node
  trouble,  \* what went wrong in the cleanup under way
  removal,  \* of the agent itself
  agentRow, \* node_agents and nodes: the agent's status
  wiped,    \* a cleanup of the whole node has been asked for
  ops

vars == <<row, host, trouble, removal, agentRow, wiped, ops, jobs, agent, faults>>

TheNode == CHOOSE n \in Node : TRUE
Transit == {"backhaul", "route_policy"}
Fixed == Transit \cup {"egress", "l2tp", "packages", "foreign"}
NoRemoval == [at |-> "none", scope |-> "none"]

Init ==
  /\ row = [i \in Instance |-> "absent"]
  /\ host = Fixed
  /\ trouble = {}
  /\ removal = NoRemoval
  /\ agentRow = "active"
  /\ wiped = FALSE
  /\ ops = 0
  /\ JobsInit

Op == ops < MaxOps /\ ops' = ops + 1

Present(i) == row[i] \notin {"absent", "deleted"}

-----------------------------------------------------------------------------
(* What operators ask for. *)

CreateInstance ==
  /\ Op
  /\ \E i \in Instance :
        /\ row[i] = "absent"
        /\ row' = [row EXCEPT ![i] = "draft"]
        /\ Queue("apply", TheNode, i, [instances |-> {i}, scope |-> "none", agent |-> FALSE])
  /\ UNCHANGED <<host, trouble, removal, agentRow, wiped, agent, faults>>

\* Of QueueNodeRuntimeReconcile only the applies of instances matter here.
QueueNodeRuntimeReconcile ==
  /\ Op
  /\ \E i \in Instance :
        /\ Present(i)
        /\ QueueAt(60, "apply", TheNode, i, [instances |-> {i}, scope |-> "none", agent |-> FALSE])
  /\ UNCHANGED <<row, host, trouble, removal, agentRow, wiped, agent, faults>>

nodeInstanceCleanupPayloads == {i \in Instance : Present(i)}

\* normalizeNodeCleanupScope: without a scope, removing the agent means a wipe.
CreateNodeEmergencyCleanupJob ==
  /\ Op
  /\ \E includeAgent \in BOOLEAN, scope \in {"services_only", "full_node"} :
        /\ QueueAt(1, "cleanup", TheNode, TheNode,
                   [instances |-> nodeInstanceCleanupPayloads, scope |-> scope, agent |-> includeAgent])
        /\ wiped' = (wiped \/ scope = "full_node")
  /\ UNCHANGED <<row, host, trouble, removal, agentRow, agent, faults>>

-----------------------------------------------------------------------------
(* The agent. *)

Steps(type) ==
  IF type = "cleanup" THEN <<"instances", "units", "l2tp", "packages", "configs", "end">>
  ELSE <<"end">>

AgentNextJob ==
  /\ removal.at # "gone" /\ agentRow = "active"
  /\ \E j \in Job : Claimable(TheNode, j) /\ Claim(TheNode, j, Steps(jobs[j].type))
  /\ trouble' = {}
  /\ UNCHANGED <<row, host, removal, agentRow, wiped, ops, faults>>

TheJob == jobs[agent[TheNode].job]

Step(name) ==
  /\ Working(TheNode)
  /\ TheJob.type = "cleanup"
  /\ Head(agent[TheNode].todo) = name
  /\ Advance(TheNode)
  /\ UNCHANGED <<row, removal, agentRow, wiped, ops, jobs>>

\* A command of the step has failed: the thing stays, and what says so is kept.
Fails(what) == Fault /\ host' = host /\ trouble' = trouble \cup {what}

Removes(things) == host' = host \ things /\ UNCHANGED <<trouble, faults>>

emergencyCleanupInstances ==
  Step("instances") /\ (Removes(TheJob.payload.instances) \/ Fails("instance"))

isEmergencyManagedUnitForScope(scope) ==
  (IF scope = "full_node" THEN Transit ELSE {}) \cup {"egress"} \cup InUnit

\* The units of the scope, the policy rules and the managed directories.
emergencyCleanupUnits ==
  /\ Step("units")
  /\ Removes(isEmergencyManagedUnitForScope(TheJob.payload.scope)) \/ Fails("warning")

emergencyCleanupL2TPRuntime ==
  Step("l2tp") /\ (Removes({"l2tp"}) \/ Fails("error"))

purgeEmergencyL2TPPackages ==
  /\ Step("packages")
  /\ IF TheJob.payload.scope = "full_node"
       THEN Removes({"packages"}) \/ Fails("error")
       ELSE UNCHANGED <<host, trouble, faults>>

\* Configs of OpenVPN and WireGuard that carry the agent's header.
emergencyCleanupManagedServiceConfigPaths ==
  Step("configs") /\ (Removes(Instance \ InUnit) \/ Fails("warning"))

\* Mutant: the agent's removal is scheduled whatever the sweep met.
scheduleAlways == TheJob.payload.agent

scheduleAgentSelfRemoval == TheJob.payload.agent /\ "error" \notin trouble

\* The end of emergencyCleanupNode.  The removal, when it is asked for and
\* the sweep met no error, comes before an instance that failed is counted.
emergencyCleanupNode ==
  /\ Working(TheNode)
  /\ TheJob.type = "cleanup"
  /\ Head(agent[TheNode].todo) = "end"
  /\ removal' = IF scheduleAgentSelfRemoval
                 THEN [at |-> "scheduled", scope |-> TheJob.payload.scope] ELSE removal
  /\ Finish(TheNode, IF trouble \cap {"error", "instance"} = {} THEN "succeeded" ELSE "failed")
  /\ UNCHANGED <<row, host, trouble, agentRow, wiped, ops, jobs, faults>>

\* The timer of the removal fires; what the agent was doing ends there.
AgentSelfRemoval ==
  /\ removal.at = "scheduled"
  /\ removal' = [removal EXCEPT !.at = "gone"]
  /\ agent' = [agent EXCEPT ![TheNode] = AgentIdle]
  /\ UNCHANGED <<row, host, trouble, agentRow, wiped, ops, jobs, faults>>

ApplyInstance ==
  /\ Working(TheNode)
  /\ TheJob.type \in {"apply", "route_policy"}
  /\ \/ /\ host' = host \cup (IF TheJob.type = "apply" THEN TheJob.payload.instances
                              ELSE {"route_policy"})
        /\ Finish(TheNode, "succeeded") /\ UNCHANGED faults
     \/ Fault /\ Finish(TheNode, "failed") /\ UNCHANGED host
  /\ UNCHANGED <<row, trouble, removal, agentRow, wiped, ops, jobs>>

-----------------------------------------------------------------------------
(* Completions. *)

\* applyNodeEmergencyCleanupResult closes every instance the node has now,
\* not the ones the job listed.
applyNodeEmergencyCleanupResult(j) ==
  /\ row' = [i \in Instance |-> IF Present(i) THEN "deleted" ELSE row[i]]
  /\ agentRow' = IF jobs[j].payload.agent THEN "removed" ELSE agentRow
  /\ IF ~jobs[j].payload.agent /\ jobs[j].payload.scope = "services_only" /\ Len(jobs) < MaxJobs
       THEN jobs' = Append([jobs EXCEPT ![j].effect = "applied"],
                           newJob("route_policy", TheNode, TheNode, jobs[j].payload, 100))
       ELSE jobs' = [jobs EXCEPT ![j].effect = "applied"]
  /\ Answer(j)

\* Mutant: the row of an instance that has been deleted is left alone.
activateUnlessDeleted(i) == IF row[i] = "deleted" THEN row ELSE [row EXCEPT ![i] = "active"]

activate(i) == [row EXCEPT ![i] = "active"]

applyInstanceJobCompletionSideEffects(j) ==
  /\ row' = IF jobs[j].status = "succeeded" THEN activate(jobs[j].scope)
            ELSE [row EXCEPT ![jobs[j].scope] = "failed"]
  /\ EffectDone(j)
  /\ UNCHANGED agentRow

SideEffects ==
  /\ \E j \in Job :
        /\ EffectDue(j)
        /\ \/ jobs[j].type = "cleanup" /\ jobs[j].status = "succeeded" /\ applyNodeEmergencyCleanupResult(j)
           \/ jobs[j].type = "apply" /\ applyInstanceJobCompletionSideEffects(j)
           \/ /\ \/ jobs[j].type = "route_policy"
                 \/ jobs[j].type = "cleanup" /\ jobs[j].status = "failed"
              /\ EffectDone(j)
              /\ UNCHANGED <<row, agentRow>>
  /\ UNCHANGED <<host, trouble, removal, wiped, ops, faults>>

QueueStep ==
  /\ AgentJobResult(TheNode) \/ CancelJob \/ CompletionCrash \/ LeaseLapse \/ AgentCrash
  /\ UNCHANGED <<row, host, trouble, removal, agentRow, wiped, ops>>

Next ==
  \/ CreateInstance \/ QueueNodeRuntimeReconcile \/ CreateNodeEmergencyCleanupJob
  \/ AgentNextJob \/ emergencyCleanupInstances \/ emergencyCleanupUnits
  \/ emergencyCleanupL2TPRuntime \/ purgeEmergencyL2TPPackages
  \/ emergencyCleanupManagedServiceConfigPaths \/ emergencyCleanupNode
  \/ AgentSelfRemoval \/ ApplyInstance \/ SideEffects \/ QueueStep

Spec == Init /\ [][Next]_vars

-----------------------------------------------------------------------------
(***************************************************************************)
(* Cleanups of the services, however many and however they fail or repeat, *)
(* leave the node's transit, its packages and the files it does not manage *)
(* where they are.                                                         *)
(***************************************************************************)
TransitSurvives == ~wiped => (Transit \cup {"packages", "foreign"}) \subseteq host

(***************************************************************************)
(* An agent takes itself away from a node only after a sweep that left no  *)
(* L2TP process behind and, when the whole node is wiped, none of the      *)
(* packages: when their teardown or purge failed, the agent stays so that  *)
(* the wipe can be repeated.                                               *)
(***************************************************************************)
AgentStaysForRepair ==
  /\ removal # NoRemoval => "l2tp" \notin host
  /\ removal.scope = "full_node" => "packages" \notin host

\* What a cleanup must not take from a node: the transit it was not asked to
\* remove, and the agent as long as a wipe has to be repeated.
SweepLeavesWhatStays == TransitSurvives /\ AgentStaysForRepair

(***************************************************************************)
(* When nothing is queued or under way and no fault has happened, every    *)
(* instance that runs on the node is one the control plane knows to be     *)
(* there, although the cleanup closes the rows of instances which its job  *)
(* did not list and whose applies come after it.                           *)
(***************************************************************************)
NoOrphanRuntime ==
  (\A j \in Job : ~Unfinished(j) /\ ~EffectDue(j)) /\ Quiet /\ faults = 0 /\ removal = NoRemoval =>
    host \cap Instance \subseteq {i \in Instance : row[i] \in {"active", "failed"}}
=============================================================================
