--------------------------- MODULE ExternalEgress ---------------------------
(***************************************************************************)
(* Provider profiles and their deployment on one node.  Operators edit     *)
(* profiles and deployments while jobs run; database triggers repeat the   *)
(* checks the API made before its transaction.  The node keeps, for each   *)
(* deployment, a unit, the routing script that was written with it, an     *)
(* `ip rule` that sends marked traffic to the deployment's table, and the  *)
(* routes of that table.                                                   *)
(*                                                                         *)
(* Sources: internal/infra/postgres/external_egress.go,                    *)
(* migrations/000024 and 000025, cmd/agent/external_egress.go.  A profile  *)
(* is its status and the version of its secrets (0: none); what is inside  *)
(* a provider's configuration, and how it is parsed and rendered, is left  *)
(* out.  A provider that cannot be started or a command that fails is a    *)
(* fault.  A profile has one deployment, since nothing relates nodes.      *)
(***************************************************************************)
EXTENDS NodeJobs, FiniteSets

CONSTANTS
  Profile, Protocol,  \* the profiles and the protocol each was created with
  Table,              \* routing tables, numbered as their rules are ordered
  Call,               \* API calls that may be in progress
  MaxCfg, MaxOps      \* how often secrets change, how many calls are made

VARIABLES
  profile,   \* rows of external_egress_profiles, with their secrets and groups
  dep,       \* rows of external_egress_deployments
  server,    \* an enabled xl2tpd instance on the node
  call,      \* what a call has read
  run,       \* on the node: unit, the configuration it was written from, script
  rules,     \* on the node: the policy rules, <<profile, table>>
  routes,    \* on the node: the default routes of each table
  moved,     \* the tables a deployment was given before its current one
  ops

nodeVars == <<run, rules, routes>>
dbVars == <<profile, dep, server, moved>>
vars == <<profile, dep, server, call, run, rules, routes, moved, ops, jobs, agent, faults>>

TheNode == CHOOSE n \in Node : TRUE
NoTable == 0
Loopback == {"vless", "shadowsocks"}
PolicyRouted(p) == Protocol[p] \notin Loopback
L2TP(p) == Protocol[p] = "l2tp_ipsec"

Idle == [op |-> "idle", p |-> CHOOSE p \in Profile : TRUE, seen |-> "none"]
NoProfile == [status |-> "none", cfg |-> 0, group |-> FALSE]
NoDep == [desired |-> "none", status |-> "absent", table |-> NoTable, job |-> NoJob]
NotInstalled == [unit |-> "absent", cfg |-> 0, script |-> NoTable]

Init ==
  /\ profile \in [Profile -> {NoProfile, [status |-> "active", cfg |-> 1, group |-> FALSE]}]
  /\ dep = [p \in Profile |-> NoDep]
  /\ server = FALSE
  /\ call = [c \in Call |-> Idle]
  /\ run = [p \in Profile |-> NotInstalled]
  /\ rules = {}
  /\ routes = [t \in Table |-> {}]
  /\ moved = [p \in Profile |-> {}]
  /\ ops = 0
  /\ JobsInit

Operator == ops < MaxOps /\ ops' = ops + 1

Live(d) == d.status \notin {"absent", "inactive", "deleted"}

-----------------------------------------------------------------------------
(***************************************************************************)
(* The triggers.                                                           *)
(***************************************************************************)
\* Mutant: migration 000024 without its deployment trigger.
noReferenceGuard(p, d) == TRUE

\* A deployment that is to be active needs an active profile.
megavpn_validate_external_egress_reference(p, d) ==
  d.desired = "active" /\ Live(d) => profile[p].status = "active"

\* An L2TP client deployment shares its node with no other and no server.
megavpn_guard_l2tp_runtime_exclusivity(p, d) ==
  (L2TP(p) /\ d.desired = "active" /\ d.status # "deleted") =>
    /\ ~server
    /\ \A q \in Profile \ {p} :
         ~(L2TP(q) /\ dep[q].desired = "active" /\ dep[q].status # "deleted" /\ profile[q].status # "deleted")

WriteDeployment(p, d) ==
  /\ megavpn_validate_external_egress_reference(p, d)
  /\ megavpn_guard_l2tp_runtime_exclusivity(p, d)
  /\ dep' = [dep EXCEPT ![p] = d]

\* A profile leaves "active" only when no group and no live deployment needs it.
megavpn_guard_external_egress_profile_lifecycle(p, status) ==
  (status # profile[p].status /\ status # "active") => ~profile[p].group /\ ~Live(dep[p])

-----------------------------------------------------------------------------
(***************************************************************************)
(* Profiles.                                                               *)
(***************************************************************************)
CreateExternalEgressProfile(p, status, cfg) ==
  /\ Operator
  /\ profile[p].status = "none"
  /\ status = "active" => cfg > 0
  /\ profile' = [profile EXCEPT ![p].status = status, ![p].cfg = cfg]
  /\ UNCHANGED <<dep, server, moved, call, nodeVars, jobVars>>

\* GetExternalEgressProfile, before the transaction of an update or a deploy.
ReadProfile(c, op, p) ==
  /\ Operator
  /\ call[c] = Idle
  /\ profile[p].status \notin {"none", "deleted"}
  /\ op = "deploy" => profile[p].status = "active"
  /\ call' = [call EXCEPT ![c] = [op |-> op, p |-> p, seen |-> profile[p].status]]
  /\ UNCHANGED <<dbVars, nodeVars, jobVars>>

\* The row is written only if it is not deleted; the secrets always are.
UpdateExternalEgressProfile(c, status, newSecrets) ==
  LET p == call[c].p
      s == IF status = "keep" THEN call[c].seen ELSE status
      cfg == IF newSecrets THEN profile[p].cfg + 1 ELSE profile[p].cfg
      live == profile[p].status # "deleted"
  IN  /\ call[c].op = "update"
      /\ cfg <= MaxCfg
      /\ s = "active" => cfg > 0
      /\ live => megavpn_guard_external_egress_profile_lifecycle(p, s)
      /\ profile' = [profile EXCEPT ![p].cfg = cfg, ![p].status = IF live THEN s ELSE @]
      /\ IF s = "active" /\ newSecrets /\ dep[p].desired = "active" /\ Live(dep[p])
         THEN dep' = [dep EXCEPT ![p].status = "pending"]
         ELSE UNCHANGED dep
      /\ call' = [call EXCEPT ![c] = Idle]
      /\ UNCHANGED <<server, moved, nodeVars, ops, jobVars>>

DeleteExternalEgressProfile(p) ==
  /\ Operator
  /\ profile[p].status \notin {"none", "deleted"}
  /\ ~profile[p].group /\ ~Live(dep[p])
  /\ profile' = [profile EXCEPT ![p] = [status |-> "deleted", cfg |-> 0, group |-> FALSE]]
  /\ dep' = IF dep[p].status = "absent" THEN dep
            ELSE [dep EXCEPT ![p].desired = "deleted", ![p].status = "deleted", ![p].job = NoJob]
  /\ UNCHANGED <<server, moved, call, nodeVars, jobVars>>

\* A client access group names the profile, or stops naming it.
AssignGroup(p) ==
  /\ Operator
  /\ profile[p].group \/ profile[p].status = "active"
  /\ profile' = [profile EXCEPT ![p].group = ~@]
  /\ UNCHANGED <<dep, server, moved, call, nodeVars, jobVars>>

-----------------------------------------------------------------------------
(***************************************************************************)
(* Deployments.                                                            *)
(***************************************************************************)
\* allocateExternalEgressNodeResources: rows keep their table when deleted.
TableFree(p, t) == \A q \in Profile \ {p} : dep[q].table # t

CreateExternalEgressDeployment(c, t) ==
  LET p == call[c].p
  IN  /\ call[c].op = "deploy"
      /\ L2TP(p) => ~server /\ \A q \in Profile \ {p} :
                      ~(L2TP(q) /\ dep[q].desired = "active" /\ dep[q].status # "deleted")
      /\ TableFree(p, t)
      /\ WriteDeployment(p, [dep[p] EXCEPT !.desired = "active", !.status = "pending", !.table = t])
      /\ call' = [call EXCEPT ![c] = Idle]
      /\ moved' = IF dep[p].table \in {NoTable, t} THEN moved
                  ELSE [moved EXCEPT ![p] = @ \cup {dep[p].table}]
      /\ UNCHANGED <<profile, server, nodeVars, ops, jobVars>>

\* The call ends in an error: a check of the transaction, or a trigger.
Refuse(c) ==
  /\ call[c] # Idle
  /\ call' = [call EXCEPT ![c] = Idle]
  /\ UNCHANGED <<dbVars, nodeVars, ops, jobVars>>

ActiveJobs(p) == {j \in Job : jobs[j].scope = p /\ Unfinished(j)}

DeleteExternalEgressDeployment(p) ==
  /\ Operator
  /\ dep[p].desired = "inactive" /\ dep[p].status = "inactive"
  /\ ActiveJobs(p) = {}
  /\ dep' = [dep EXCEPT ![p].desired = "deleted", ![p].status = "deleted", ![p].job = NoJob]
  /\ UNCHANGED <<profile, server, moved, call, nodeVars, jobVars>>

\* CreateInstance of an xl2tpd server, or its removal: the check the API makes
\* first is repeated by the trigger on instances.
ensureXL2TPDServerNodeAvailable ==
  \A q \in Profile : ~(L2TP(q) /\ dep[q].desired = "active" /\ dep[q].status # "deleted"
                       /\ profile[q].status # "deleted")

ToggleServer ==
  /\ Operator
  /\ server \/ ensureXL2TPDServerNodeAvailable
  /\ server' = ~server
  /\ UNCHANGED <<profile, dep, moved, call, nodeVars, jobVars>>

Desired(p, type) ==
  CASE type = "apply" -> "active" [] type = "cleanup" -> "inactive" [] type = "probe" -> dep[p].desired

\* Only a cleanup may be asked of a profile or deployment that is not active;
\* a deployment has one job at a time.
createExternalEgressJob(p, type) ==
  /\ Operator
  /\ dep[p].status # "absent"
  /\ type # "cleanup" => /\ profile[p].status = "active"
                         /\ dep[p].desired # "deleted" /\ dep[p].status # "deleted"
  /\ type = "probe" => dep[p].desired = "active"
  /\ ActiveJobs(p) = {}
  /\ Queue(type, TheNode, p, type)
  /\ WriteDeployment(p, [dep[p] EXCEPT !.desired = Desired(p, type), !.status = "queued", !.job = NextId])
  /\ UNCHANGED <<profile, server, moved, call, nodeVars, agent, faults>>

Outcome(j) ==
  IF jobs[j].status # "succeeded" THEN "failed"
  ELSE IF jobs[j].type = "cleanup" THEN "inactive" ELSE "active"

\* Mutant: the result of any job of the deployment is written.
anyResult(p, j) == TRUE

\* where id=$1 and last_job_id=$5
resultCurrent(p, j) == dep[p].job = j

ApplyExternalEgressJobResult(j) ==
  LET p == jobs[j].scope
      d == [dep[p] EXCEPT !.status = Outcome(j)]
  IN  /\ EffectDue(j)
      /\ \/ resultCurrent(p, j) /\ WriteDeployment(p, d) /\ EffectDone(j)
         \/ resultCurrent(p, j) /\ EffectRefused(j) /\ UNCHANGED dep
            /\ ~(megavpn_validate_external_egress_reference(p, d) /\ megavpn_guard_l2tp_runtime_exclusivity(p, d))
         \/ ~resultCurrent(p, j) /\ EffectDone(j) /\ UNCHANGED dep
      /\ UNCHANGED <<profile, server, moved, call, nodeVars, ops, faults>>

-----------------------------------------------------------------------------
(***************************************************************************)
(* The agent.  A handler is the list of its commands; the list is fixed    *)
(* when the job arrives, since nothing else changes these parts of the     *)
(* node.                                                                   *)
(***************************************************************************)
Cmd(name, p, t, cfg, onFail) == [name |-> name, p |-> p, t |-> t, cfg |-> cfg, onFail |-> onFail]

\* The guard part of the script and of the handler: the table refuses traffic
\* before the rule sends any to it.
installExternalEgressFailClosedGuard(p, t, onFail) ==
  <<Cmd("flush", p, t, 0, onFail), Cmd("unreachable", p, t, 0, onFail),
    Cmd("ruledel", p, t, 0, "skip"), Cmd("ruleadd", p, t, 0, onFail)>>

Guard(p, t, onFail) ==
  IF PolicyRouted(p) /\ t # NoTable THEN installExternalEgressFailClosedGuard(p, t, onFail) ELSE <<>>

\* systemctl disable --now: ExecStop has the script that was written with the
\* unit guard the table it knows; systemd ignores its failures.
stopUnit(p, onFail) ==
  (IF run[p].unit = "up" THEN Guard(p, run[p].script, "skip") ELSE <<>>)
    \o <<Cmd("stop", p, NoTable, 0, onFail)>>

\* systemctl enable --now: ExecStart, and the script in ExecStartPost.
startUnit(p, t, cfg) == Guard(p, t, "abort") \o <<Cmd("start", p, t, cfg, "abort")>>

\* An L2TP runtime takes UDP/1701 over from what is left of other deployments.
prepareExternalEgressL2TPTakeover(p) ==
  LET Stale == IF L2TP(p) THEN {q \in Profile \ {p} : L2TP(q) /\ run[q].unit # "absent"} ELSE {}
  IN  IF Stale = {} THEN <<>> ELSE <<Cmd("evict", CHOOSE q \in Stale : TRUE, NoTable, 0, "abort")>>

applyExternalEgress(p, t, cfg) ==
  <<Cmd("check", p, t, cfg, "abort")>> \o stopUnit(p, "abort") \o prepareExternalEgressL2TPTakeover(p)
    \o Guard(p, t, "abort") \o <<Cmd("write", p, t, cfg, "abort")>> \o startUnit(p, t, cfg)
    \o <<Cmd("probe", p, t, cfg, "abort")>>

cleanupExternalEgress(p, t) ==
  stopUnit(p, "warn")
    \o <<Cmd("policy", p, t, 0, "warn"), Cmd("remove", p, t, 0, "warn"), Cmd("end", p, t, 0, "warn")>>

handler(type, p, t, cfg) ==
  CASE type = "apply"   -> applyExternalEgress(p, t, cfg)
    [] type = "cleanup" -> cleanupExternalEgress(p, t)
    [] type = "probe"   -> <<Cmd("probe", p, t, cfg, "abort")>>

\* hydrateExternalEgressJobSecrets: the payload is completed from the rows as
\* they are when the job is claimed.
hydrated(j) ==
  LET p == jobs[j].scope
  IN  dep[p].status # "deleted" /\ (jobs[j].type = "apply" => profile[p].cfg > 0)

AgentNextJob(n, j) ==
  /\ Claimable(n, j)
  /\ LET p == jobs[j].scope
     IN  IF hydrated(j) THEN Claim(n, j, handler(jobs[j].type, p, dep[p].table, profile[p].cfg))
                        ELSE ClaimWithoutAnswer(j)
  /\ UNCHANGED <<dbVars, call, nodeVars, ops, faults>>

\* The unit stops, and so does what it had started, once it is known to be its own.
terminateRuntime(k) ==
  /\ run' = [run EXCEPT ![k.p].unit = IF @ = "up" THEN "stopped" ELSE @]
  /\ routes' = IF run[k.p].unit = "up" /\ run[k.p].script # NoTable
               THEN [routes EXCEPT ![run[k.p].script] = @ \ {"provider"}] ELSE routes
  /\ UNCHANGED rules

\* The commands of the route script, which the handler runs by itself, too.
routeScript(k) ==
  CASE k.name = "flush" -> routes' = [routes EXCEPT ![k.t] = {}] /\ UNCHANGED <<run, rules>>
    [] k.name = "unreachable" ->
         routes' = [routes EXCEPT ![k.t] = @ \cup {"unreachable"}] /\ UNCHANGED <<run, rules>>
    [] k.name = "ruledel" -> rules' = rules \ {<<k.p, k.t>>} /\ UNCHANGED <<run, routes>>
    [] k.name = "ruleadd" -> rules' = rules \cup {<<k.p, k.t>>} /\ UNCHANGED <<run, routes>>

\* Configuration, unit and script are rendered from the secrets of the job.
renderExternalEgressRuntime(k) ==
  /\ run' = [run EXCEPT ![k.p] = [unit |-> "stopped", cfg |-> k.cfg,
                                  script |-> IF PolicyRouted(k.p) THEN k.t ELSE NoTable]]
  /\ UNCHANGED <<rules, routes>>

\* The unit starts and its interface is given the table's default route.
startRuntime(k) ==
  /\ run' = [run EXCEPT ![k.p].unit = "up"]
  /\ routes' = IF PolicyRouted(k.p) THEN [routes EXCEPT ![k.t] = @ \cup {"provider"}] ELSE routes
  /\ UNCHANGED rules

\* A stale L2TP runtime goes with its rule and its table.
evictRuntime(k) ==
  /\ run' = [run EXCEPT ![k.p] = NotInstalled]
  /\ rules' = rules \ {<<k.p, run[k.p].script>>}
  /\ routes' = IF run[k.p].script = NoTable THEN routes ELSE [routes EXCEPT ![run[k.p].script] = {}]

\* The table is the installed script's, else the one of the job.
cleanupExternalEgressPolicy(k) ==
  LET t == IF run[k.p].script # NoTable THEN run[k.p].script ELSE k.t
  IN  /\ UNCHANGED run
      /\ IF PolicyRouted(k.p)
         THEN rules' = rules \ {<<k.p, t>>} /\ routes' = [routes EXCEPT ![t] = {}]
         ELSE UNCHANGED <<rules, routes>>

removeRuntime(k) == run' = [run EXCEPT ![k.p] = NotInstalled] /\ UNCHANGED <<rules, routes>>

\* One command of a handler succeeds.
Effect(k) ==
  CASE k.name \in {"check", "end"} -> UNCHANGED nodeVars
    [] k.name = "stop"   -> terminateRuntime(k)
    [] k.name = "write"  -> renderExternalEgressRuntime(k)
    [] k.name = "start"  -> startRuntime(k)
    [] k.name = "evict"  -> evictRuntime(k)
    [] k.name = "policy" -> cleanupExternalEgressPolicy(k)
    [] k.name = "remove" -> removeRuntime(k)
    [] k.name \in {"flush", "unreachable", "ruledel", "ruleadd"} -> routeScript(k)

\* probeExternalEgress: unit, rule and provider route must all be there.
probeExternalEgress(k) ==
  /\ run[k.p].unit = "up"
  /\ PolicyRouted(k.p) => <<k.p, k.t>> \in rules /\ "provider" \in routes[k.t]

AgentCommand(n) ==
  LET k == Head(agent[n].todo)
  IN  /\ Working(n)
      /\ \/ /\ k.name \notin {"probe", "end"}
            /\ Effect(k) /\ Advance(n)
         \/ /\ k.name = "probe"
            /\ Finish(n, IF probeExternalEgress(k) THEN "succeeded" ELSE "failed")
            /\ UNCHANGED nodeVars
         \/ /\ k.name = "end"
            /\ Finish(n, IF agent[n].warned THEN "failed" ELSE "succeeded")
            /\ UNCHANGED nodeVars
      /\ UNCHANGED <<dbVars, call, ops, jobs, faults>>

\* A command fails: an apply ends there, a cleanup notes it and goes on.  What
\* L2TP teardown could not verify keeps its files for a retry.
CommandFails(n) ==
  LET k == Head(agent[n].todo)
  IN  /\ Working(n)
      /\ Fault
      /\ k.name # "end"
      /\ CASE k.onFail = "abort" -> Finish(n, "failed")
           [] k.onFail = "warn"  -> Warn(n)
           [] k.onFail = "skip"  -> Advance(n)
      /\ UNCHANGED <<dbVars, call, nodeVars, ops, jobs>>

\* The provider's interface goes away, and its route with it.
ProviderLoss(p) ==
  /\ Fault
  /\ run[p].unit = "up"
  /\ run' = [run EXCEPT ![p].unit = "stopped"]
  /\ routes' = IF run[p].script = NoTable THEN routes
               ELSE [routes EXCEPT ![run[p].script] = @ \ {"provider"}]
  /\ UNCHANGED <<dbVars, call, rules, ops, jobs, agent>>

-----------------------------------------------------------------------------
QueueStep ==
  /\ \/ \E n \in Node : AgentJobResult(n)
     \/ CompletionCrash \/ LeaseLapse \/ AgentCrash \/ CancelJob \/ RequeueNodeStuckJob
  /\ UNCHANGED <<dbVars, call, nodeVars, ops>>

Next ==
  \/ \E p \in Profile : \/ \E s \in {"draft", "active"}, g \in {0, 1} : CreateExternalEgressProfile(p, s, g)
                        \/ DeleteExternalEgressProfile(p)
                        \/ AssignGroup(p)
                        \/ DeleteExternalEgressDeployment(p)
                        \/ \E t \in {"apply", "probe", "cleanup"} : createExternalEgressJob(p, t)
                        \/ ProviderLoss(p)
  \/ \E c \in Call : \/ \E o \in {"update", "deploy"}, p \in Profile : ReadProfile(c, o, p)
                     \/ \E s \in {"keep", "active", "disabled"}, b \in BOOLEAN : UpdateExternalEgressProfile(c, s, b)
                     \/ \E t \in Table : CreateExternalEgressDeployment(c, t)
                     \/ Refuse(c)
  \/ ToggleServer
  \/ \E j \in Job : \/ ApplyExternalEgressJobResult(j)
                    \/ \E n \in Node : AgentNextJob(n, j)
  \/ \E n \in Node : AgentCommand(n) \/ CommandFails(n)
  \/ QueueStep

Spec == Init /\ [][Next]_vars

-----------------------------------------------------------------------------
\* Whatever calls overlap, a group and a live deployment name an active
\* profile: the check CreateExternalEgressDeployment makes before its
\* transaction may be stale, the trigger's is not.
NeededProfileActive ==
  \A p \in Profile : profile[p].group \/ (dep[p].desired = "active" /\ Live(dep[p]))
                     => profile[p].status = "active"

\* UDP/1701 of a node has one user: one L2TP deployment or the L2TP server,
\* also when an inactive deployment is reactivated by an apply job.
OneL2TPRuntime ==
  \A p \in Profile : L2TP(p) /\ dep[p].desired = "active" /\ dep[p].status # "deleted" /\ profile[p].status # "deleted"
    => /\ ~server
       /\ \A q \in Profile \ {p} : ~(L2TP(q) /\ dep[q].desired = "active" /\ dep[q].status # "deleted"
                                     /\ profile[q].status # "deleted")

\* What the triggers hold together while calls overlap whose own checks were
\* made before their transactions: both of the above.
DeploymentsAdmissible == NeededProfileActive /\ OneL2TPRuntime

\* A deployment the control plane calls active is installed, and one it calls
\* inactive has left neither unit, files nor a rule on the node (unless it was
\* given another table: a cleanup knows one table, the installed script's or
\* else its job's), whatever results came late, twice or not at all, and also
\* while a job of another deployment is at work on the node.
DeploymentAgrees ==
  \A p \in Profile :
    /\ dep[p].status = "active" => run[p].unit # "absent"
    /\ dep[p].status = "inactive" =>
         run[p].unit = "absent" /\ ((\E t \in Table : <<p, t>> \in rules) => moved[p] # {})
=============================================================================
