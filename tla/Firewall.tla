------------------------------ MODULE Firewall ------------------------------
(***************************************************************************)
(* Firewall policies, their revisions and their rollout to one node.       *)
(* Operators edit policies and address lists; a preview or an apply takes  *)
(* a copy of both into the job's payload, checks it in later statements,   *)
(* and only then inserts the job.  The node keeps one nftables table,      *)
(* which an apply replaces in one script.                                  *)
(*                                                                         *)
(* Sources: internal/infra/postgres/firewall.go, cmd/agent/firewall.go.    *)
(* A policy's rules and defaults are a version number and whether strict   *)
(* defaults would drop input; the address lists are whether they name      *)
(* management sources.  How rules are rendered is left out.                *)
(***************************************************************************)
EXTENDS NodeJobs, FiniteSets

CONSTANTS
  Policy, Baseline,   \* policies; the baseline ones cannot be deleted
  Call,               \* API calls that may be in progress
  MaxVersion, MaxOps  \* how often a policy is edited, how many calls are made

VARIABLES
  policy,    \* rows of firewall_policies with their rules
  trusted,   \* trusted_control_plane and trusted_operators have entries
  revs,      \* rows of firewall_revisions, oldest first
  state,     \* the node's row of firewall_node_state
  call,      \* the payload a call has built
  table,     \* on the node: the nftables table
  late,      \* a result was applied after a younger job had been taken
  ops

dbVars == <<policy, trusted, revs, state>>
vars == <<policy, trusted, revs, state, call, table, late, ops, jobs, agent, faults>>

TheNode == CHOOSE n \in Node : TRUE
None == "no policy"
NoRev == 0
AcceptAll == [kind |-> "accept"]   \* the chains exist, with policy accept
Absent == [kind |-> "absent"]
Loaded(w) == [kind |-> "loaded", rev |-> w.rev, pol |-> w.pol, version |-> w.version,
              trusted |-> w.trusted, strict |-> w.strict]

NoState == [status |-> "none", pol |-> None, rev |-> NoRev, desired |-> NoRev]
Idle == [op |-> "idle"]

Init ==
  /\ policy = [p \in Policy |-> [version |-> 1, status |-> "active", drop |-> TRUE]]
  /\ trusted = TRUE
  /\ revs = <<>>
  /\ state = NoState
  /\ call = [c \in Call |-> Idle]
  /\ table = Absent
  /\ late = FALSE
  /\ ops = 0
  /\ JobsInit

Operator == ops < MaxOps /\ ops' = ops + 1

-----------------------------------------------------------------------------
(***************************************************************************)
(* The catalogue.                                                          *)
(***************************************************************************)
\* UpdateFirewallPolicy and the calls that create, update or delete its rules.
EditPolicy(p) ==
  /\ Operator
  /\ policy[p].status = "active" /\ policy[p].version < MaxVersion
  /\ \E d \in BOOLEAN :
       policy' = [policy EXCEPT ![p].version = @ + 1, ![p].drop = d]
  /\ UNCHANGED <<trusted, revs, state, call, table, late, jobVars>>

\* upsertFirewallManagementCIDRs and the calls for address lists and entries.
EditAddressLists ==
  /\ Operator
  /\ trusted' = ~trusted
  /\ UNCHANGED <<policy, revs, state, call, table, late, jobVars>>

\* The references are counted in one statement, the rows marked in the next.
DeleteFirewallPolicyCheck(c, p) ==
  /\ Operator
  /\ call[c] = Idle
  /\ p \notin Baseline /\ policy[p].status = "active" /\ state.pol # p
  /\ call' = [call EXCEPT ![c] = [op |-> "delete", pol |-> p]]
  /\ UNCHANGED <<dbVars, table, late, jobVars>>

DeleteFirewallPolicy(c) ==
  /\ call[c].op = "delete"
  /\ policy' = [policy EXCEPT ![call[c].pol].status = "deleted"]
  /\ call' = [call EXCEPT ![c] = Idle]
  /\ UNCHANGED <<trusted, revs, state, table, late, ops, jobVars>>

-----------------------------------------------------------------------------
(***************************************************************************)
(* Jobs.                                                                   *)
(***************************************************************************)
nextFirewallRevisionNo(p) ==
  1 + Cardinality({i \in DOMAIN revs : revs[i].pol = p})

buildFirewallJobPayload(c, op, p, strict) ==
  /\ Operator
  /\ call[c] = Idle
  /\ policy[p].status = "active"
  /\ call' = [call EXCEPT ![c] =
       [op |-> op, pol |-> p, version |-> policy[p].version, drop |-> policy[p].drop,
        trusted |-> trusted, strict |-> strict, no |-> nextFirewallRevisionNo(p), rev |-> NoRev]]
  /\ UNCHANGED <<dbVars, table, late, jobVars>>

\* It reads the lists again: they need not be the ones of the payload.
validateFirewallStrictJobSafety(w) == w.strict /\ w.drop => trusted

\* Mutant: the address lists are not part of the hash.
samePolicyAndRules(v, w) == v.pol = w.pol /\ v.version = w.version /\ v.strict = w.strict

\* firewallStablePayloadHash
firewallStablePayloadHash(v, w) ==
  v.pol = w.pol /\ v.version = w.version /\ v.strict = w.strict /\ v.trusted = w.trusted

requireMatchingFirewallPreview(w) ==
  \E j \in Job : /\ jobs[j].type = "preview" /\ jobs[j].status = "succeeded"
                 /\ jobs[j].payload.strict /\ firewallStablePayloadHash(jobs[j].payload, w)

CreateFirewallPreviewJob(c) ==
  /\ call[c].op = "preview"
  /\ validateFirewallStrictJobSafety(call[c])
  /\ Queue("preview", TheNode, TheNode, call[c])
  /\ call' = [call EXCEPT ![c] = Idle]
  /\ UNCHANGED <<dbVars, table, late, ops, agent, faults>>

\* One transaction: revision, job and the node's row.  unique(policy_id,
\* revision_no) refuses the second of two calls that read the same maximum.
CreateFirewallApplyJob(c) ==
  LET w == call[c]
      r == Len(revs) + 1
  IN  /\ w.op = "apply"
      /\ validateFirewallStrictJobSafety(w)
      /\ w.strict => requireMatchingFirewallPreview(w)
      /\ ~\E i \in DOMAIN revs : revs[i].pol = w.pol /\ revs[i].no = w.no
      /\ revs' = Append(revs, [pol |-> w.pol, no |-> w.no])
      /\ Queue("apply", TheNode, TheNode, [w EXCEPT !.rev = r])
      /\ state' = [state EXCEPT !.pol = w.pol, !.desired = r, !.status = "pending"]
      /\ call' = [call EXCEPT ![c] = Idle]
      /\ UNCHANGED <<policy, trusted, table, late, ops, agent, faults>>

Refuse(c) ==
  /\ call[c] # Idle
  /\ call' = [call EXCEPT ![c] = Idle]
  /\ UNCHANGED <<dbVars, table, late, ops, jobVars>>

CreateFirewallDisableJob ==
  /\ Operator
  /\ Queue("disable", TheNode, TheNode, [rev |-> NoRev])
  /\ state' = [NoState EXCEPT !.status = "pending_disable"]
  /\ UNCHANGED <<policy, trusted, revs, call, table, late, agent, faults>>

Succeeded(j) == jobs[j].status = "succeeded"

\* Mutant: a failed apply has replaced the revision too.
applyResultAlways(w, ok) ==
  state' = [status |-> IF ok THEN "applied" ELSE "failed", pol |-> w.pol, rev |-> w.rev, desired |-> w.rev]

applyFirewallApplyJobResult(w, ok) ==
  state' = [status |-> IF ok THEN "applied" ELSE "failed", pol |-> w.pol,
            rev |-> IF ok THEN w.rev ELSE state.rev, desired |-> w.rev]

applyFirewallDisableJobResult(ok) ==
  state' = [NoState EXCEPT !.status = IF ok THEN "disabled" ELSE "failed"]

\* ApplyFirewallJobResult: which job the row names is not looked at.
ApplyFirewallJobResult(j) ==
  /\ EffectDue(j)
  /\ CASE jobs[j].type = "apply"   -> applyFirewallApplyJobResult(jobs[j].payload, Succeeded(j))
       [] jobs[j].type = "disable" -> applyFirewallDisableJobResult(Succeeded(j))
       [] OTHER                    -> UNCHANGED state
  /\ late' = (late \/ \E i \in Job : i > j /\ jobs[i].status # "queued")
  /\ EffectDone(j)
  /\ UNCHANGED <<policy, trusted, revs, call, table, ops, faults>>

-----------------------------------------------------------------------------
(***************************************************************************)
(* The agent.                                                              *)
(***************************************************************************)
\* handleNodeFirewallJob
handleNodeFirewallJob(type) ==
  CASE type = "apply"   -> <<"render", "chains", "load", "end">>
    [] type = "disable" -> <<"delete", "end">>
    [] OTHER            -> <<"render", "end">>

AgentNextJob(n, j) ==
  /\ Claimable(n, j)
  /\ Claim(n, j, handleNodeFirewallJob(jobs[j].type))
  /\ UNCHANGED <<dbVars, call, table, late, ops, faults>>

\* ensureFirewallNFTChains, runNFTScript and disableNodeFirewall.
AgentCommand(n) ==
  LET k == Head(agent[n].todo)
      w == jobs[agent[n].job].payload
  IN  /\ Working(n)
      /\ table' = CASE k = "chains" /\ table = Absent -> AcceptAll
                    [] k = "reset"                    -> AcceptAll
                    [] k = "load"                     -> Loaded(w)
                    [] k = "delete"                   -> Absent
                    [] OTHER                          -> table
      /\ IF k = "end" THEN Finish(n, "succeeded") ELSE Advance(n)
      /\ UNCHANGED <<dbVars, call, late, ops, jobs, faults>>

\* A command fails, and the handler ends.  nft loads a script whole or not at all.
CommandFails(n) ==
  /\ Working(n)
  /\ Head(agent[n].todo) # "end"
  /\ Fault
  /\ Finish(n, "failed")
  /\ UNCHANGED <<dbVars, call, table, late, ops, jobs>>

-----------------------------------------------------------------------------
QueueStep ==
  /\ \/ \E n \in Node : AgentJobResult(n)
     \/ CompletionCrash \/ LeaseLapse \/ AgentCrash \/ CancelJob \/ RequeueNodeStuckJob
  /\ UNCHANGED <<dbVars, call, table, late, ops>>

Next ==
  \/ \E p \in Policy : EditPolicy(p)
  \/ EditAddressLists
  \/ \E c \in Call : \/ \E p \in Policy : DeleteFirewallPolicyCheck(c, p)
                     \/ DeleteFirewallPolicy(c)
                     \/ \E o \in {"preview", "apply"}, p \in Policy, s \in BOOLEAN : buildFirewallJobPayload(c, o, p, s)
                     \/ CreateFirewallPreviewJob(c)
                     \/ CreateFirewallApplyJob(c)
                     \/ Refuse(c)
  \/ CreateFirewallDisableJob
  \/ \E j \in Job : \/ ApplyFirewallJobResult(j)
                    \/ \E n \in Node : AgentNextJob(n, j)
  \/ \E n \in Node : AgentCommand(n) \/ CommandFails(n)
  \/ QueueStep

Spec == Init /\ [][Next]_vars

-----------------------------------------------------------------------------
rollouts == {j \in Job : jobs[j].type \in {"apply", "disable"}}

\* docs/FIREWALL.md: a strict table on the node is one a preview on that node
\* has rendered, from the same rules and the same address lists, whatever was
\* edited between the two calls.
StrictWasPreviewed ==
  table.kind = "loaded" /\ table.strict =>
    \E j \in Job : /\ jobs[j].type = "preview" /\ jobs[j].status = "succeeded"
                   /\ jobs[j].payload.pol = table.pol /\ jobs[j].payload.version = table.version
                   /\ jobs[j].payload.trusted = table.trusted /\ jobs[j].payload.strict

\* Once the youngest rollout has reported, and no older result came in after
\* it was taken, the row says what is on the node: the revision it calls applied
\* is loaded, a disabled node has no table, and an apply that failed half way
\* has left the revision before it in force (if every rollout has reported: a
\* disable that was cancelled, or whose side effects were lost, may have
\* removed the table and left the row its revision).
SettledFirewallAgrees ==
  \A m \in rollouts :
    (~late /\ (\A j \in rollouts : j <= m) /\ jobs[m].effect = "applied") =>
      /\ state.status = "applied" => table.kind = "loaded" /\ table.rev = state.rev
      /\ state.status = "disabled" => table = Absent
      /\ state.status = "failed" /\ state.rev # NoRev /\ (\A j \in rollouts : jobs[j].effect = "applied")
           => table.kind = "loaded"
=============================================================================
