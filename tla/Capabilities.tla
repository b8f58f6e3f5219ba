---------------------------- MODULE Capabilities ----------------------------
(***************************************************************************)
(* The runtime a service needs on a node: an apply that finds it missing   *)
(* is put off behind an install job, which further applies join; the agent *)
(* installs from the binary repository, from packages or from one and then *)
(* the other, verifies, reports its inventory, and the completion queues   *)
(* the applies that wait.                                                  *)
(*                                                                         *)
(* Sources: internal/infra/postgres/store.go, binary_repository.go;        *)
(* cmd/agent/capability.go, binary_repository.go; internal/api/http/       *)
(* public.go.  One node and one service; the runtime is there or not, what *)
(* a command prints is whether it worked.  A repeated apt command is one   *)
(* command; the service's own start after an install is left out.          *)
(***************************************************************************)
EXTENDS NodeJobs, FiniteSets, SequencesExt

CONSTANTS
  Instance,   \* instances of the service
  MaxOps

VARIABLES
  nginx,     \* the service is nginx; otherwise shadowsocks, which knows all strategies
  cap,       \* the row of node_capabilities
  inst,      \* by instance: what its row says
  call,      \* by instance: the apply request under way
  artifact,  \* an active artifact of the service is registered
  ticket,    \* by job: its download ticket
  present,   \* the runtime is on the node and works
  policy,    \* /usr/sbin/policy-rc.d: none, the agent's, or foreign
  run,       \* the agent's install under way: its strategy, whether all went well, the guard
  owed,      \* instances recorded as dependents and not answered yet
  ops

featureVars == <<nginx, cap, inst, call, artifact, ticket, present, policy, run, owed, ops>>
vars == <<featureVars, jobVars>>

TheNode == CHOOSE n \in Node : TRUE
NoCall == [pc |-> "idle", job |-> NoJob]
NoRun == [by |-> "none", ok |-> TRUE, made |-> FALSE]
Row(status, source) == [status |-> status, source |-> source]

Init ==
  /\ nginx \in BOOLEAN
  /\ cap = Row("missing", "inventory")
  /\ inst = [i \in Instance |-> "draft"]
  /\ call = [i \in Instance |-> NoCall]
  /\ artifact \in BOOLEAN
  /\ ticket = [j \in 1..MaxJobs |-> "none"]
  /\ present = FALSE
  /\ policy \in {"none", "foreign"}
  /\ run = NoRun
  /\ owed = {}
  /\ ops = 0
  /\ JobsInit

Op == ops < MaxOps /\ ops' = ops + 1

-----------------------------------------------------------------------------
(***************************************************************************)
(* CreateNodeCapabilityInstallJobWithDependents.  When none is asked for,  *)
(* the strategy is the repository when it has an artifact, and the         *)
(* service's own otherwise.                                                *)
(***************************************************************************)
findActiveCapabilityInstallJob == {j \in Job : jobs[j].type = "install" /\ Unfinished(j)}

strategyOf(asked) ==
  IF asked # "none" THEN asked
  ELSE IF nginx THEN "nginx_org_repo"
  ELSE IF artifact THEN "binary_repository" ELSE "ubuntu_repo"

\* The job, its ticket when one is needed, and the mark, in one transaction.
createCapabilityInstallJob(asked, deps) ==
  LET withTicket == artifact /\ ~nginx
  IN  /\ QueueAt(60, "install", TheNode, TheNode,
                 [by |-> strategyOf(asked), deps |-> deps, ticket |-> IF withTicket THEN NextId ELSE NoJob])
      /\ ticket' = IF withTicket THEN [ticket EXCEPT ![NextId] = "active"] ELSE ticket
      /\ cap' = Row("installing", "installer")
      /\ owed' = owed \cup deps

\* Mutant: whatever became of the job meanwhile.
mergeAnyway(j) == TRUE

\* The row is locked and must still wait or run.
mergeable(j) == Unfinished(j)

runtimeCapabilityInstallNeeded == cap.status # "available"

Applies(deps) == [n \in 1..Cardinality(deps) |->
  newJob("apply", TheNode, SetToSeq(deps)[n], [by |-> "none", deps |-> {}, ticket |-> NoJob], 100)]

\* What UpdateInstanceStatus does for an instance whose apply is not put off.
queueApply(deps) ==
  /\ Len(jobs) + Cardinality(deps) <= MaxJobs
  /\ jobs' = jobs \o Applies(deps)
  /\ inst' = [i \in Instance |-> IF i \in deps THEN "applying" ELSE inst[i]]

\* UpdateInstanceStatus of an apply, statement by statement.
UpdateInstanceStatus(i) ==
  /\ call[i].pc = "idle" /\ Op
  /\ IF runtimeCapabilityInstallNeeded
     THEN call' = [call EXCEPT ![i].pc = "find"] /\ UNCHANGED <<jobs, inst>>
     ELSE queueApply({i}) /\ UNCHANGED call
  /\ UNCHANGED <<cap, artifact, ticket, present, policy, run, owed, agent, faults>>

FindInstall(i) ==
  /\ call[i].pc = "find"
  /\ call' = [call EXCEPT ![i] =
       IF findActiveCapabilityInstallJob = {} THEN [pc |-> "create", job |-> NoJob]
       ELSE [pc |-> "merge", job |-> CHOOSE j \in findActiveCapabilityInstallJob :
                                       \A k \in findActiveCapabilityInstallJob : k <= j]]
  /\ UNCHANGED <<cap, inst, artifact, ticket, present, policy, run, owed, ops, jobVars>>

CreateInstall(i) ==
  /\ call[i].pc = "create"
  /\ createCapabilityInstallJob("none", {i})
  /\ call' = [call EXCEPT ![i].pc = "status"]
  /\ UNCHANGED <<inst, artifact, present, policy, run, ops, agent, faults>>

mergeCapabilityInstallJobDependents(i) ==
  LET j == call[i].job
  IN  /\ call[i].pc = "merge"
      /\ IF mergeable(j)
         THEN /\ jobs' = [jobs EXCEPT ![j].payload.deps = @ \cup {i}]
              /\ owed' = owed \cup {i}
              /\ call' = [call EXCEPT ![i].pc = "mark"]
         ELSE call' = [call EXCEPT ![i] = NoCall] /\ UNCHANGED <<jobs, owed>>
      /\ UNCHANGED <<cap, inst, artifact, ticket, present, policy, run, ops, agent, faults>>

markCapabilityInstallQueued(i) ==
  /\ call[i].pc = "mark"
  /\ cap' = Row("installing", "installer")
  /\ call' = [call EXCEPT ![i].pc = "status"]
  /\ UNCHANGED <<inst, artifact, ticket, present, policy, run, owed, ops, jobVars>>

WriteStatus(i) ==
  /\ call[i].pc = "status"
  /\ inst' = [inst EXCEPT ![i] = "applying"]
  /\ call' = [call EXCEPT ![i] = NoCall]
  /\ UNCHANGED <<cap, artifact, ticket, present, policy, run, owed, ops, jobVars>>

\* The operator's own install, without dependents.
CreateNodeCapabilityInstallJob ==
  /\ Op
  /\ findActiveCapabilityInstallJob = {}
  /\ \E asked \in {"none"} \cup (IF nginx THEN {} ELSE {"ubuntu_repo"}) : createCapabilityInstallJob(asked, {})
  /\ UNCHANGED <<inst, call, artifact, present, policy, run, agent, faults>>

CreateNodeCapabilityVerifyJob ==
  /\ Op
  /\ \E type \in {"verify", "inventory"} :
       Queue(type, TheNode, TheNode, [by |-> "none", deps |-> {}, ticket |-> NoJob])
  /\ UNCHANGED <<cap, inst, call, artifact, ticket, present, policy, run, owed, agent, faults>>

CreateBinaryArtifact ==
  /\ ~artifact /\ artifact' = TRUE /\ Op
  /\ UNCHANGED <<cap, inst, call, ticket, present, policy, run, owed, jobVars>>

-----------------------------------------------------------------------------
(***************************************************************************)
(* The agent.                                                              *)
(***************************************************************************)
Steps(by) ==
  CASE by = "binary_repository" -> <<"download", "copy", "verify", "sync">>
    [] by = "ubuntu_repo" -> <<"update", "guard", "install", "verify", "sync">>
    [] by = "nginx_org_repo" -> <<"repository", "install", "enable", "verify", "sync">>
    [] by = "nginx_ubuntu_repo" -> <<"update", "purge", "install", "enable", "verify", "sync">>
    [] by = "verify" -> <<"verify", "sync">>
    [] by = "inventory" -> <<"sync">>
    [] by = "apply" -> <<"apply">>

AgentNextJob ==
  /\ \E j \in Job :
       LET by == IF jobs[j].type = "install" THEN jobs[j].payload.by ELSE jobs[j].type
       IN  Claimable(TheNode, j) /\ Claim(TheNode, j, Steps(by)) /\ run' = [NoRun EXCEPT !.by = by]
  /\ UNCHANGED <<cap, inst, call, artifact, ticket, present, policy, owed, ops, faults>>

TheJob == jobs[agent[TheNode].job]

At(step) == Working(TheNode) /\ agent[TheNode].todo # <<>> /\ Head(agent[TheNode].todo) = step

\* Mutant: the guard is only taken away after an install that worked.
guardLeft(ok) == IF run.made /\ ok THEN "none" ELSE policy

\* The deferred cleanup of preventPackageServiceAutostart.
guardRemoved(ok) == IF run.made THEN "none" ELSE policy

\* What a failed step of an install leads to: another strategy, or the end.
fallback(step) ==
  IF run.by = "ubuntu_repo" /\ TheJob.payload.ticket # NoJob THEN {"binary_repository"}
  ELSE IF run.by = "nginx_org_repo" /\ step \in {"repository", "install"} THEN {"nginx_ubuntu_repo"}
  ELSE IF run.by = "nginx_org_repo" /\ step = "verify" THEN {"nginx_ubuntu_repo", "none"}
  ELSE {"none"}

\* The step worked; the guard goes when installUbuntuPackageCapability returns.
Went(step) ==
  /\ Advance(TheNode)
  /\ IF step = "verify" THEN policy' = guardRemoved(TRUE) /\ run' = [run EXCEPT !.made = FALSE]
     ELSE UNCHANGED <<policy, run>>

FailedStep(step) ==
  /\ \E next \in fallback(step) :
       IF next = "none"
       THEN /\ agent' = [agent EXCEPT ![TheNode].todo = <<"sync">>]
            /\ run' = [run EXCEPT !.ok = FALSE, !.made = FALSE]
       ELSE /\ agent' = [agent EXCEPT ![TheNode].todo = Steps(next)]
            /\ run' = [NoRun EXCEPT !.by = next]
  /\ policy' = guardRemoved(FALSE)

quietly == UNCHANGED <<cap, inst, call, artifact, owed, ops, jobs, faults>>

\* apt update and its candidate, the nginx repository, the unit.
PrepareStep(step) ==
  /\ step \in {"update", "repository", "enable"}
  /\ At(step)
  /\ Went(step) \/ FailedStep(step)
  /\ UNCHANGED <<ticket, present>> /\ quietly

preventPackageServiceAutostart ==
  /\ At("guard")
  /\ \/ /\ policy' = IF policy = "none" THEN "agent" ELSE policy
        /\ run' = [run EXCEPT !.made = (policy = "none")]
        /\ Advance(TheNode)
     \/ FailedStep("guard")
  /\ UNCHANGED <<ticket, present>> /\ quietly

\* A download leaves the ticket as it is, so that a retry can use it again: an
\* expired mark is rolled back with the request that it refuses.
ResolveBinaryDownloadTicket(j) ==
  LET t == jobs[j].payload.ticket IN t = j /\ ticket[t] = "active" /\ artifact

\* downloadBinaryRepositoryArtifact: the digest and the signature are checked
\* before the file is used.
downloadBinaryRepositoryArtifact ==
  LET j == agent[TheNode].job
  IN  /\ At("download")
      /\ \/ ResolveBinaryDownloadTicket(j) /\ Went("download")
         \/ FailedStep("download")
      /\ UNCHANGED <<ticket, present>> /\ quietly

Installs(step) ==
  /\ At(step)
  /\ \/ Went(step) /\ present' = TRUE
     \/ FailedStep(step) /\ UNCHANGED present
  /\ UNCHANGED ticket /\ quietly

\* The rest of installBinaryRepositoryCapability: the executable, alone or out
\* of an archive, replaces the one in place; a package or a script is run.
installBinaryRepositoryCapability == Installs("copy")

\* The package, after a repair of the package state when that is the trouble.
installUbuntuPackageCapability == Installs("install")

\* installNginxUbuntuRepo takes nginx off the node before it installs it.
PurgeNginx ==
  /\ At("purge")
  /\ \/ Went("purge") /\ present' = FALSE
     \/ FailedStep("purge") /\ present' \in {present, FALSE}
  /\ UNCHANGED ticket /\ quietly

\* Mutant: an install whose commands worked counts as verified.
trustInstall == TRUE

verified == present

verifyCapability ==
  /\ At("verify")
  /\ \/ verified /\ Went("verify")
     \/ FailedStep("verify")
  /\ UNCHANGED <<ticket, present>> /\ quietly

\* A unit whose state systemd tells makes the runtime available too, and what
\* it says of a unit it does not know depends on its version.
deriveCapabilities ==
  {Row(status, "inventory") : status \in IF present THEN {"available"} ELSE {"available", "missing"}}

\* The inventory is submitted, or the request fails, and the job ends.
recordCapabilityInventorySync ==
  /\ At("sync")
  /\ cap' \in deriveCapabilities \cup {cap}
  /\ Finish(TheNode, IF run.ok THEN "succeeded" ELSE "failed")
  /\ run' = NoRun
  /\ UNCHANGED <<inst, call, artifact, ticket, present, policy, owed, ops, jobs, faults>>

ApplyInstance ==
  /\ At("apply")
  /\ (present /\ Finish(TheNode, "succeeded")) \/ Finish(TheNode, "failed")
  /\ run' = NoRun
  /\ UNCHANGED <<cap, inst, call, artifact, ticket, present, policy, owed, ops, jobs, faults>>

-----------------------------------------------------------------------------
(***************************************************************************)
(* The completion, the tickets' lifetime, and the queue's own steps.       *)
(***************************************************************************)
Due(j) == jobs[j].effect \in {"pending", "dependents"}

\* A ticket is used once its job has told of a verified download, whatever
\* became of the install after it; a failure to mark it is only logged.
ticketUsed(j) ==
  LET t == jobs[j].payload.ticket
  IN  IF jobs[j].type = "install" /\ t = j /\ ticket[t] \in {"active", "lapsed"}
      THEN {ticket, [ticket EXCEPT ![t] = "used"]} ELSE {ticket}

\* applyJobCompletionSideEffects of a capability job: its row first ...
CapabilityEffects(j) ==
  /\ EffectDue(j) /\ jobs[j].type \in {"install", "verify"}
  /\ cap' = Row(IF jobs[j].status = "failed" THEN "failed" ELSE "available", "installer")
  /\ ticket' \in ticketUsed(j)
  /\ jobs' = [jobs EXCEPT ![j].effect = "dependents"]
  /\ UNCHANGED <<inst, call, artifact, present, policy, run, owed, ops, agent, faults>>

\* ... then the instances that wait: they fail with the install, or
\* UpdateInstanceStatus is called again for them.  It finds the row that has
\* just been written, unless a request has marked it since.
DependentEffects(j) ==
  LET deps == jobs[j].payload.deps
  IN  /\ jobs[j].effect = "dependents"
      /\ Answer(j)
      /\ \/ /\ jobs[j].status = "failed"
            /\ inst' = [i \in Instance |-> IF i \in deps THEN "failed" ELSE inst[i]]
            /\ jobs' = [jobs EXCEPT ![j].effect = "applied"]
            /\ owed' = owed \ deps
         \/ /\ jobs[j].status # "failed" /\ ~runtimeCapabilityInstallNeeded
            /\ Len(jobs) + Cardinality(deps) <= MaxJobs
            /\ jobs' = [jobs EXCEPT ![j].effect = "applied"] \o Applies(deps)
            /\ inst' = [i \in Instance |-> IF i \in deps THEN "applying" ELSE inst[i]]
            /\ owed' = owed \ deps
         \/ /\ jobs[j].status # "failed" /\ runtimeCapabilityInstallNeeded
            /\ Len(jobs) < MaxJobs \/ deps = {}
            /\ jobs' = IF deps = {} THEN [jobs EXCEPT ![j].effect = "applied"]
                       ELSE Append([jobs EXCEPT ![j].effect = "applied"],
                              newJob("install", TheNode, TheNode,
                                     [by |-> strategyOf("none"), deps |-> deps, ticket |-> NoJob], 60))
            /\ UNCHANGED <<inst, owed>>
      /\ UNCHANGED <<cap, call, artifact, ticket, present, policy, run, ops, faults>>

InstanceEffects(j) ==
  /\ EffectDue(j) /\ jobs[j].type = "apply"
  /\ inst' = [inst EXCEPT ![jobs[j].scope] = IF jobs[j].status = "succeeded" THEN "active" ELSE "failed"]
  /\ EffectDone(j)
  /\ UNCHANGED <<cap, call, artifact, ticket, present, policy, run, owed, ops, faults>>

InventoryEffects(j) ==
  /\ EffectDue(j) /\ jobs[j].type = "inventory"
  /\ EffectDone(j)
  /\ UNCHANGED <<featureVars, faults>>

\* Two hours pass; the worker's sweep marks what has lapsed.  Nothing reads
\* the ticket of a job that is finished.
TicketTime ==
  /\ \E j \in {k \in Job : Unfinished(k)} :
       \/ ticket[j] = "active" /\ ticket' = [ticket EXCEPT ![j] = "lapsed"]
       \/ ticket[j] = "lapsed" /\ ticket' = [ticket EXCEPT ![j] = "expired"]
  /\ UNCHANGED <<cap, inst, call, artifact, present, policy, run, owed, ops, jobVars>>

\* A cancelled install says nothing to its dependents.
Cancel ==
  /\ CancelJob
  /\ owed' = owed \ UNION {jobs[j].payload.deps : j \in {k \in Job : jobs'[k].status # jobs[k].status}}
  /\ UNCHANGED <<cap, inst, call, artifact, ticket, present, policy, run, ops>>

QueueStep ==
  /\ AgentJobResult(TheNode) \/ CompletionCrash \/ LeaseLapse \/ AgentCrash \/ RequeueNodeStuckJob
  /\ UNCHANGED featureVars

Next ==
  /\ UNCHANGED nginx
  /\ \/ \E i \in Instance :
          \/ UpdateInstanceStatus(i) \/ FindInstall(i) \/ CreateInstall(i)
          \/ mergeCapabilityInstallJobDependents(i) \/ markCapabilityInstallQueued(i) \/ WriteStatus(i)
     \/ CreateNodeCapabilityInstallJob \/ CreateNodeCapabilityVerifyJob \/ CreateBinaryArtifact
     \/ AgentNextJob \/ (\E step \in {"update", "repository", "enable"} : PrepareStep(step))
     \/ preventPackageServiceAutostart \/ downloadBinaryRepositoryArtifact
     \/ installBinaryRepositoryCapability \/ installUbuntuPackageCapability
     \/ PurgeNginx \/ verifyCapability \/ recordCapabilityInventorySync \/ ApplyInstance
     \/ \E j \in Job : CapabilityEffects(j) \/ DependentEffects(j) \/ InstanceEffects(j) \/ InventoryEffects(j)
     \/ TicketTime \/ Cancel \/ QueueStep

Spec == Init /\ [][Next]_vars

-----------------------------------------------------------------------------
(***************************************************************************)
(* An apply that has been put off behind an install is answered: when      *)
(* nothing is queued or under way, every instance that was recorded with   *)
(* an install, its own or one it joined while that was ending, has had its *)
(* apply queued or has been told of the failure.  Exempt are the installs  *)
(* an operator cancelled and the completions a crash interrupted.          *)
(***************************************************************************)
RequestsAnswered ==
  (\A j \in Job : ~Unfinished(j) /\ ~Due(j) /\ jobs[j].effect # "lost") => owed = {}

(***************************************************************************)
(* Without a crash or a lapsed lease, a runtime that the installer calls   *)
(* available is on the node, although a fallback takes the runtime away    *)
(* before it installs it, and a late mark or completion may overwrite what *)
(* an inventory said in between.                                           *)
(***************************************************************************)
InstalledIsPresent ==
  faults = 0 /\ cap = Row("available", "installer") /\ Quiet => present

(***************************************************************************)
(* Unless the agent crashes, an install ends with the package policy of    *)
(* the node as it was: the agent's own guard is gone on every path, a      *)
(* foreign one is still there.                                             *)
(***************************************************************************)
GuardRestored ==
  /\ faults = 0 /\ Quiet => policy # "agent"
  /\ run.made => policy = "agent"
=============================================================================
