------------------------------ MODULE Backhaul ------------------------------
(***************************************************************************)
(* One backhaul link between an ingress and an egress node: its transport  *)
(* profiles, the jobs that put a profile on the two nodes and take it off  *)
(* again, the promotion of a standby, and the route policy of the ingress  *)
(* node, which follows the selected transport.                             *)
(*                                                                         *)
(* Sources: internal/infra/postgres/backhaul.go,                           *)
(* backhaul_xray_convergence.go, access_routes.go; cmd/agent/backhaul.go,  *)
(* route_policy.go.  A handler reads the link, works, and writes it        *)
(* without a lock, so a call is a sequence of steps.  No Xray instance     *)
(* refers to the link: one that does takes the route refresh over with an  *)
(* instance.apply of its own.  Node is Role: a role names its node.        *)
(***************************************************************************)
EXTENDS NodeJobs, SequencesExt

CONSTANTS
  Setup,       \* what a link may have: its profiles, in the order of their priority
  Managed,     \* those with activation mode managed_systemd
  MaxOps       \* calls of operators

VARIABLES
  order,       \* what this link has; it stays so
  link,        \* the row of backhaul_links: status, selected_transport_id
  transport,   \* rows of backhaul_transports: status, applied sides, health
  call,        \* the operator's call in progress
  refresh,     \* route policy payloads that are built and not yet inserted
  astray,      \* a call or a refresh was cut off, a refresh overtaken by a change of the link,
               \* or a failure made the link active again
  manifest,    \* by node: the profiles whose files are on it
  runtime,     \* by node: the profiles whose unit and interface are up
  route,       \* the transport the ingress node's policy routes through
  ops

vars == <<order, link, transport, call, refresh, astray, manifest, runtime, route, ops, jobs, agent, faults>>
nodeVars == <<manifest, runtime, route>>

Role == {"ingress", "egress"}
None == "none"
Profiles == ToSet(order)
Idle == [op |-> "idle", todo |-> <<>>, target |-> None]
RouteCall == "call"                  \* the owner of a refresh that is no job

Init ==
  /\ order \in Setup
  /\ link = [status |-> "planned", selected |-> Head(order), batch |-> 0]
  /\ transport = [t \in Profiles |-> [status |-> "planned", applied |-> {}, health |-> {}]]
  /\ call = Idle
  /\ refresh = {}
  /\ astray = FALSE
  /\ manifest = [n \in Role |-> {}]
  /\ runtime = [n \in Role |-> {}]
  /\ route = None
  /\ ops = 0
  /\ JobsInit

-----------------------------------------------------------------------------
(***************************************************************************)
(* The calls.  A call first reads the link (GetBackhaulLink finds no       *)
(* deleted one) and decides; todo is what is left of it.                   *)
(***************************************************************************)
\* listRoutePolicyBackhauls: the selected transport, when it and its link are
\* active.
listRoutePolicyBackhauls ==
  IF link.status = "active" /\ transport[link.selected].status = "active"
  THEN link.selected ELSE None

\* The steps that insert a job of every profile on both nodes, the ingress
\* first.
perSide(kind) ==
  [k \in 1..(2 * Len(order)) |->
     <<kind, order[(k + 1) \div 2], IF k % 2 = 1 THEN "ingress" ELSE "egress">>]

\* CreateBackhaulApplyJobs: one job after the other, and then the statuses.
applySteps == perSide("apply") \o << <<"link", "pending_apply">>, <<"transports", "pending_apply">> >>

\* CreateBackhaulDeleteJobs, with a batch of its own.
deleteSteps == perSide("cleanup") \o << <<"link", "disabled">>, <<"transports", "disabled">> >>

Start(op, target, todo) ==
  /\ call = Idle /\ ops < MaxOps
  /\ link.status # "deleted"
  /\ ops' = ops + 1
  /\ call' = [op |-> op, target |-> target, todo |-> todo]
  /\ UNCHANGED <<transport, refresh, astray, nodeVars, jobVars>>

CreateBackhaulApplyJobs == Start("apply", None, applySteps) /\ UNCHANGED link

CreateBackhaulDeleteJobs ==
  /\ Start("delete", None, deleteSteps)
  /\ link' = [link EXCEPT !.batch = @ + 1]   \* batch only names the jobs of this call

CreateBackhaulProbeJobs ==
  /\ link.status = "active" /\ transport[link.selected].status = "active"
  /\ Start("probe", link.selected, << <<"probe", link.selected, "ingress">>,
                                      <<"probe", link.selected, "egress">> >>)
  /\ UNCHANGED link

\* SetBackhaulRouteEnabled: an active link is refreshed, one whose selected
\* transport is up becomes active, any other is applied.
EnableBackhaulRoute ==
  /\ link.status # "pending_apply"
  /\ Start("enable", link.selected,
       CASE link.status = "active" -> << <<"refresh">> >>
         [] link.status # "active" /\ transport[link.selected].status = "active" -> << <<"activate">>, <<"refresh">> >>
         [] OTHER -> applySteps)
  /\ UNCHANGED link

DisableBackhaulRoute ==
  /\ link.status # "disabled"
  /\ Start("disable", None, << <<"link", "disabled">>, <<"build">> >>)
  /\ UNCHANGED link

\* PromoteBackhaulTransport: only a transport that is active and applied on
\* both sides, and whose driver can carry kernel routes.
promotable(t) ==
  /\ t \in Managed
  /\ transport[t].status = "active"
  /\ transport[t].applied = Role

\* Mutant: a promotion does not refresh the route policy.
promoteOnly == << <<"promote">> >>

promoteSteps == << <<"promote">>, <<"refresh">> >>

PromoteBackhaulTransport(t) ==
  /\ link.status # "disabled"
  /\ promotable(t)
  /\ Start("promote", t, IF t = link.selected /\ link.status = "active" THEN << <<"refresh">> >>
                         ELSE promoteSteps)
  /\ UNCHANGED link

-----------------------------------------------------------------------------
Doing(kind) == call # Idle /\ Head(call.todo)[1] = kind

Done == call' = IF Len(call.todo) = 1 THEN Idle ELSE [call EXCEPT !.todo = Tail(@)]

\* The update finds no row: the call ends with an error.
Abort == call' = Idle

priorityOf(kind) == CASE kind = "probe" -> 70 [] kind = "apply" -> 75 [] kind = "cleanup" -> 90

\* buildBackhaulApplyPayload, buildBackhaulProbePayload, buildBackhaulCleanupPayload.
CreateSideJob ==
  /\ call # Idle
  /\ LET s == Head(call.todo)
     IN  /\ s[1] \in {"apply", "cleanup", "probe"}
         /\ QueueAt(priorityOf(s[1]), s[1], s[3], "link",
                    [t |-> s[2], batch |-> IF s[1] = "cleanup" THEN link.batch ELSE 0])
  /\ Done
  /\ UNCHANGED <<link, transport, refresh, astray, nodeVars, ops, agent, faults>>

\* The unconditional updates at the end of apply, delete and disable.
SetLinkStatus ==
  /\ Doing("link")
  /\ link' = [link EXCEPT !.status = Head(call.todo)[2]]
  /\ Done
  /\ UNCHANGED <<transport, refresh, astray, nodeVars, ops, jobVars>>

SetTransportStatuses ==
  /\ Doing("transports")
  /\ transport' = [t \in Profiles |-> [transport[t] EXCEPT !.status = Head(call.todo)[2]]]
  /\ Done
  /\ UNCHANGED <<link, refresh, astray, nodeVars, ops, jobVars>>

ActivateLink ==
  /\ Doing("activate")
  /\ IF link.status # "deleted"
     THEN link' = [link EXCEPT !.status = "active"] /\ Done
     ELSE UNCHANGED link /\ Abort
  /\ UNCHANGED <<transport, refresh, astray, nodeVars, ops, jobVars>>

PromoteLink ==
  /\ Doing("promote")
  /\ IF link.status \notin {"deleted", "disabled"}
     THEN link' = [link EXCEPT !.status = "active", !.selected = call.target] /\ Done
     ELSE UNCHANGED link /\ Abort
  /\ UNCHANGED <<transport, refresh, astray, nodeVars, ops, jobVars>>

\* queueBackhaulRouteRefreshOrXrayConvergence looks at the link again.
CallRefresh ==
  /\ Doing("refresh")
  /\ call' = IF link.status = "active" THEN [call EXCEPT !.todo = << <<"build">> >>] ELSE Idle
  /\ UNCHANGED <<link, transport, refresh, astray, nodeVars, ops, jobVars>>

\* CreateNodeRoutePolicyApplyJob builds the payload first and inserts the job
\* in a statement of its own.
CallBuildsRoutes ==
  /\ Doing("build")
  /\ refresh' = refresh \cup {[owner |-> RouteCall, job |-> NoJob, via |-> listRoutePolicyBackhauls]}
  /\ call' = [call EXCEPT !.todo = << <<"insert">> >>]
  /\ UNCHANGED <<link, transport, astray, nodeVars, ops, jobVars>>

CreateNodeRoutePolicyApplyJob ==
  \E r \in refresh :
    /\ Len(jobs) < MaxJobs
    /\ refresh' = refresh \ {r}
    /\ astray' = (astray \/ r.via # listRoutePolicyBackhauls)
    /\ LET added == Append(jobs, newJob("route", "ingress", "node", [t |-> r.via, batch |-> 0], 80))
       IN  IF r.owner = RouteCall
           THEN jobs' = added /\ Done /\ UNCHANGED agent
           ELSE jobs' = [added EXCEPT ![r.job].effect = "applied"] /\ Answer(r.job) /\ UNCHANGED call
    /\ UNCHANGED <<link, transport, nodeVars, ops, faults>>

\* The control plane dies in the middle of a call: what it has written stays.
CallCrash ==
  /\ Fault /\ call # Idle
  /\ Abort
  /\ refresh' = {r \in refresh : r.owner # RouteCall}
  /\ astray' = TRUE
  /\ UNCHANGED <<link, transport, nodeVars, ops, jobs, agent>>

-----------------------------------------------------------------------------
(***************************************************************************)
(* The side effects of a result.                                           *)
(***************************************************************************)
\* refreshBackhaulLinkApplyStatus: the link follows its selected transport.
refreshBackhaulLinkApplyStatus(tr) ==
  LET s == tr[link.selected].status
  IN  IF link.status \in {"deleted", "disabled"} \/ s = "disabled" THEN link.status
      ELSE IF s = "planned" THEN "pending_apply" ELSE s

backhaulApplyCompleteStatus(t) == IF t \in Managed THEN "active" ELSE "materialized"

\* ApplyBackhaulJobResult up to the refresh of the route policy.  An applied
\* side is never taken back.
ApplyBackhaulJobResult(j) ==
  LET t == jobs[j].payload.t
      ok == jobs[j].status = "succeeded"
      applied == transport[t].applied \cup {jobs[j].node}
      tr == [transport EXCEPT
               ![t].applied = IF ok THEN applied ELSE @,
               ![t].status = IF ~ok THEN "failed"
                             ELSE IF applied = Role THEN backhaulApplyCompleteStatus(t) ELSE @]
      status == refreshBackhaulLinkApplyStatus(tr)
  IN  /\ EffectDue(j) /\ jobs[j].type = "apply"
      /\ transport' = tr
      /\ link' = [link EXCEPT !.status = status]
      /\ CASE ok /\ status = "deleted" -> EffectRefused(j)   \* queueBackhaulRoutePolicyRefresh finds no link
           [] ok /\ status = "active" -> jobs' = [jobs EXCEPT ![j].effect = "refresh"] /\ UNCHANGED agent
           [] OTHER -> EffectDone(j)
      /\ astray' = (astray \/ (~ok /\ status = "active" /\ link.status # "active"))
      /\ UNCHANGED <<call, refresh, nodeVars, ops, faults>>

ResultBuildsRoutes(j) ==
  /\ jobs[j].effect = "refresh" /\ ~ \E r \in refresh : r.job = j
  /\ refresh' = refresh \cup {[owner |-> "result", job |-> j, via |-> listRoutePolicyBackhauls]}
  /\ UNCHANGED <<link, transport, call, astray, nodeVars, ops, jobVars>>

ApplyBackhaulProbeResult(j) ==
  /\ EffectDue(j) /\ jobs[j].type = "probe"
  /\ transport' = [transport EXCEPT ![jobs[j].payload.t].health =
                     IF jobs[j].status = "succeeded" THEN @ \cup {jobs[j].node} ELSE @ \ {jobs[j].node}]
  /\ EffectDone(j)
  /\ UNCHANGED <<link, call, refresh, astray, nodeVars, ops, faults>>

\* The jobs of a batch, and whether they all have succeeded.
batchOf(b) == {i \in Job : jobs[i].type = "cleanup" /\ jobs[i].payload.batch = b}

\* Mutant: a failed or cancelled cleanup does not keep the link.
batchFinished(b) == \A i \in batchOf(b) : ~Unfinished(i)

batchSucceeded(b) == \A i \in batchOf(b) : jobs[i].status = "succeeded"

ApplyBackhaulCleanupResult(j) ==
  LET w == jobs[j].payload
      ok == jobs[j].status = "succeeded"
  IN  /\ EffectDue(j) /\ jobs[j].type = "cleanup"
      /\ transport' = [transport EXCEPT ![w.t].status = IF ok THEN "disabled" ELSE "failed"]
      /\ link' = [link EXCEPT !.status = IF batchSucceeded(w.batch) THEN "deleted"
                                         ELSE IF ok THEN @ ELSE "failed"]
      /\ EffectDone(j)
      /\ UNCHANGED <<call, refresh, astray, nodeVars, ops, faults>>

\* A route policy job has no side effects.
RouteJobDone(j) ==
  /\ EffectDue(j) /\ jobs[j].type = "route"
  /\ EffectDone(j)
  /\ UNCHANGED <<link, transport, call, refresh, astray, nodeVars, ops, faults>>

-----------------------------------------------------------------------------
(***************************************************************************)
(* The agent.  A handler is a sequence of commands, any of which may fail  *)
(* or be cut off.                                                          *)
(***************************************************************************)
handler(j) ==
  CASE jobs[j].type = "apply" ->
         IF jobs[j].payload.t \in Managed THEN <<"write", "siblings", "start">> ELSE <<"write">>
    [] jobs[j].type = "cleanup" -> <<"stop", "remove">>
    [] jobs[j].type = "probe" -> <<"probe">>
    [] jobs[j].type = "route" -> <<"route">>

AgentNextJob(n, j) ==
  /\ Claimable(n, j)
  /\ Claim(n, j, handler(j))
  /\ UNCHANGED <<link, transport, call, refresh, astray, nodeVars, ops, faults>>

\* cleanupSiblingBackhaulRuntime and cleanupPreviousBackhaulRuntime: every
\* other profile of the link that has a manifest in this role goes down.
cleanupSiblingBackhaulRuntime(n, t) ==
  /\ runtime' = [runtime EXCEPT ![n] = @ \ (manifest[n] \ {t})]
  /\ manifest' = [manifest EXCEPT ![n] = @ \cap {t}]

AgentCommand(n) ==
  LET k == Head(agent[n].todo)
      t == jobs[agent[n].job].payload.t
      last == Len(agent[n].todo) = 1
  IN  /\ Working(n) /\ agent[n].todo # <<>>
      /\ CASE k = "write" -> manifest' = [manifest EXCEPT ![n] = @ \cup {t}] /\ UNCHANGED <<runtime, route>>
           [] k = "siblings" -> cleanupSiblingBackhaulRuntime(n, t) /\ UNCHANGED route
           [] k = "start" -> runtime' = [runtime EXCEPT ![n] = @ \cup {t}] /\ UNCHANGED <<manifest, route>>
           [] k = "stop" -> runtime' = [runtime EXCEPT ![n] = @ \ {t}] /\ UNCHANGED <<manifest, route>>
           [] k = "remove" -> manifest' = [manifest EXCEPT ![n] = @ \ {t}] /\ UNCHANGED <<runtime, route>>
           [] k = "probe" -> \A m \in Role : t \in runtime[m]
                             /\ UNCHANGED <<manifest, runtime, route>>
           [] k = "route" -> route' = t /\ UNCHANGED <<manifest, runtime>>
      /\ IF last THEN Finish(n, "succeeded") ELSE Advance(n)
      /\ UNCHANGED <<link, transport, call, refresh, astray, ops, jobs, faults>>

\* A command fails and the handler returns at once; a unit that does not
\* start is stopped again (recordBackhaulActivationCleanup).  A probe fails
\* when the tunnel is not up on both nodes, any other command is a fault.
CommandFails(n) ==
  LET k == Head(agent[n].todo)
      t == jobs[agent[n].job].payload.t
  IN  /\ Working(n) /\ agent[n].todo # <<>>
      /\ IF k = "probe" THEN (\E m \in Role : t \notin runtime[m]) /\ UNCHANGED faults ELSE Fault
      /\ runtime' = IF k = "start" THEN [runtime EXCEPT ![n] = @ \ {t}] ELSE runtime
      /\ Finish(n, "failed")
      /\ UNCHANGED <<link, transport, call, refresh, astray, manifest, route, ops, jobs>>

\* A result whose route refresh was not finished loses it with the process.
ResultCrash ==
  /\ Fault
  /\ \E j \in Job : /\ jobs[j].effect = "refresh"
                    /\ jobs' = [jobs EXCEPT ![j].effect = "lost"]
                    /\ refresh' = {r \in refresh : r.job # j}
                    /\ Answer(j)
  /\ astray' = TRUE
  /\ UNCHANGED <<link, transport, call, nodeVars, ops>>

QueueStep ==
  /\ \/ \E n \in Node : AgentJobResult(n)
     \/ CompletionCrash \/ LeaseLapse \/ AgentCrash \/ CancelJob \/ RequeueNodeStuckJob
  /\ UNCHANGED <<link, transport, call, refresh, astray, nodeVars, ops>>

Next ==
  /\ UNCHANGED order
  /\ \/ CreateBackhaulApplyJobs \/ CreateBackhaulDeleteJobs \/ CreateBackhaulProbeJobs
     \/ EnableBackhaulRoute \/ DisableBackhaulRoute
     \/ \E t \in Profiles : PromoteBackhaulTransport(t)
     \/ CreateSideJob \/ SetLinkStatus \/ SetTransportStatuses
     \/ ActivateLink \/ PromoteLink \/ CallRefresh \/ CallBuildsRoutes
     \/ CreateNodeRoutePolicyApplyJob \/ CallCrash \/ ResultCrash
     \/ \E j \in Job : \/ ApplyBackhaulJobResult(j) \/ ResultBuildsRoutes(j)
                       \/ ApplyBackhaulProbeResult(j) \/ ApplyBackhaulCleanupResult(j)
                       \/ RouteJobDone(j)
     \/ \E n \in Node : \/ \E j \in Job : AgentNextJob(n, j)
                        \/ AgentCommand(n) \/ CommandFails(n)
     \/ QueueStep

Spec == Init /\ [][Next]_vars

-----------------------------------------------------------------------------
\* Nothing is in progress: no call, no job, no side effect, no handler.
AtRest ==
  /\ call = Idle /\ refresh = {} /\ Quiet
  /\ \A j \in Job : ~Unfinished(j) /\ jobs[j].effect \notin {"pending", "refresh"}

\* A link becomes deleted only after both nodes have been cleaned: no file and
\* no tunnel of it is left, whatever job is still under way, unless a profile
\* was applied again once the deletion had begun, the call that queues the
\* cleanups has not ended, or a call was cut off.
DeletedIsClean ==
  /\ call = Idle /\ ~astray /\ link.status = "deleted"
  /\ \A a, c \in Job : jobs[a].type = "apply" /\ jobs[c].type = "cleanup" => a < c
  => \A n \in Role : manifest[n] = {} /\ runtime[n] = {}

\* At rest, the ingress node routes through the transport that the active
\* link has selected, when all route policy jobs have succeeded (a requeue
\* repeats an old payload) and no refresh was lost or overtaken: every way a
\* link becomes active, or changes its transport, ends in a refresh of the
\* ingress node's policy.
RouteFollowsLink ==
  /\ AtRest /\ ~astray /\ listRoutePolicyBackhauls # None
  /\ \A j \in Job : jobs[j].type = "route" => jobs[j].status = "succeeded"
  => route = listRoutePolicyBackhauls

=============================================================================
