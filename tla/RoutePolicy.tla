----------------------------- MODULE RoutePolicy ----------------------------
(***************************************************************************)
(* The route policy of an ingress node: which access routes of clients the *)
(* control plane projects as enforceable and over which backhaul links,    *)
(* the snapshot and the script the agent leaves on the node, and what the  *)
(* script does to the kernel's marks, rules and tables each time it runs.  *)
(*                                                                         *)
(* Sources: internal/infra/postgres/access_routes.go, backhaul.go;         *)
(* cmd/agent/route_policy.go, route_policy_enforcement.go.  A destination  *)
(* is a set of addresses.  System routes of Xray instances are rendered    *)
(* like those of clients, in a chain and a priority range of their own,    *)
(* and are left out.                                                       *)
(***************************************************************************)
EXTENDS NodeJobs, FiniteSets, SequencesExt

CONSTANTS
  Route,     \* the client routes, in the order of the projection
  Link,      \* the backhaul links, in the order of listRoutePolicyBackhauls
  MaxOps

VARIABLES
  row,       \* by route: status of its row of client_access_routes
  live,      \* the links whose selected transport the control plane has as active
  snapshot,  \* on the node: the routes of the snapshot file
  script,    \* on the node: the script of the route policy unit
  up,        \* on the node: the links whose interface answers
  kernel,    \* on the node: marks, in order, and entries of routing tables
  ran,       \* history: how the last run of a script ended, "stale" once an
             \* interface has come back since
  cut,       \* an apply ended after it had replaced the snapshot
  ops

vars == <<row, live, snapshot, script, up, kernel, ran, cut, ops, jobs, agent, faults>>
nodeVars == <<snapshot, script, kernel, ran>>

Routes == DOMAIN Route
Links == DOMAIN Link
TheNode == CHOOSE n \in Node : TRUE
NoScript == [rules |-> <<>>, flush |-> {}, present |-> FALSE]
NoKernel == [marks |-> <<>>, entries |-> {}]

Init ==
  /\ row = [r \in Routes |-> "none"]
  /\ live = Links
  /\ up = Links
  /\ snapshot = <<>>
  /\ script = NoScript
  /\ kernel = NoKernel
  /\ ran = "never"
  /\ cut = FALSE
  /\ ops = 0
  /\ JobsInit

-----------------------------------------------------------------------------
(***************************************************************************)
(* The projection.                                                         *)
(***************************************************************************)
\* routeSourceIdentity and routeSourceIdentityEnforceable: only WireGuard
\* gives a client an address of its own.
routeSourceIdentityEnforceable(r) == Route[r].service = "wireguard"

routeDestinationEnforceable(r) == Route[r].dtype \in {"cidr", "endpoint"}

\* Ports need a protocol that has them.
routeProtocolPortsEnforceable(r) == Route[r].protocol \in {"any", "icmp"} => Route[r].ports = {}

\* routeEgressProjection of a route on an ingress node: where it leaves, and
\* over which live links, best first.
routeEgressProjection(r, links) ==
  LET x == Route[r]
      candidates == SelectSeq([i \in Links |-> i], LAMBDA l : l \in links /\ Link[l].egress = x.egress)
  IN  CASE x.mode = "local" -> [status |-> "candidate", links |-> <<>>, table |-> 0]
        [] x.mode = "node" /\ candidates # <<>> ->
             [status |-> "candidate", links |-> candidates, table |-> Link[Head(candidates)].table]
        [] OTHER -> [status |-> "blocked", links |-> <<>>, table |-> 0]

routeEgressEnforceable(r, e) == e.status = "candidate" /\ (Route[r].mode = "local" \/ e.links # <<>>)

\* routeEnforcementProjection.
enforceable(r, status, e) ==
  /\ status = "active"
  /\ Route[r].action = "allow"
  /\ routeSourceIdentityEnforceable(r)
  /\ routeDestinationEnforceable(r)
  /\ routeProtocolPortsEnforceable(r)
  /\ routeEgressEnforceable(r, e)

\* buildNodeRoutePolicyPayload: every route that is not revoked, in order.
buildNodeRoutePolicyPayload(rows, links) ==
  LET shown == SelectSeq([i \in Routes |-> i], LAMBDA r : rows[r] \notin {"none", "revoked"})
  IN  [i \in DOMAIN shown |->
         LET e == routeEgressProjection(shown[i], links)
         IN  [id |-> shown[i], candidate |-> enforceable(shown[i], rows[shown[i]], e), egress |-> e]]

Operator == ops < MaxOps /\ ops' = ops + 1

QueuePolicy(type, payload) == QueueAt(IF type = "apply" THEN 80 ELSE 85, type, TheNode, "node", payload)

\* CreateClientAccessRoute, UpdateClientAccessRouteStatus and
\* DeleteClientAccessRoute: the row, and then queueRoutePolicyForRoute.
EditRoute(r, status) ==
  /\ Operator
  /\ row[r] # status /\ (status # "active" => row[r] # "none")
  /\ row' = [row EXCEPT ![r] = status]
  /\ QueuePolicy("apply", buildNodeRoutePolicyPayload(row', live))
  /\ UNCHANGED <<live, up, nodeVars, cut, agent, faults>>

\* A link becomes active or stops being so, and its ingress node is refreshed.
EditLink(l) ==
  /\ Operator
  /\ live' = IF l \in live THEN live \ {l} ELSE live \cup {l}
  /\ QueuePolicy("apply", buildNodeRoutePolicyPayload(row, live'))
  /\ UNCHANGED <<row, up, nodeVars, cut, agent, faults>>

CreateNodeRoutePolicyCleanupJob ==
  /\ Operator
  /\ QueuePolicy("cleanup", buildNodeRoutePolicyPayload(row, live))
  /\ UNCHANGED <<row, live, up, nodeVars, cut, agent, faults>>

-----------------------------------------------------------------------------
(***************************************************************************)
(* The script.                                                             *)
(***************************************************************************)
\* routePolicyKernelRuleFromRoute: what the agent makes of an entry of the
\* snapshot.  A local breakout has no table and is skipped.
kernelRule(p) == p.candidate /\ p.egress.table # 0
rulesOf(w) == SelectSeq(w, kernelRule)

\* routePolicyCleanupTargetsFromSnapshot, from rules and from snapshots.
target(p) == [to |-> Route[p.id].to, table |-> p.egress.table]
targetsOf(w) == {target(rulesOf(w)[i]) : i \in DOMAIN rulesOf(w)}

\* renderRoutePolicyKernelScript.
renderRoutePolicyKernelScript(w, previous) ==
  [rules |-> rulesOf(w), flush |-> targetsOf(w) \cup targetsOf(previous), present |-> TRUE]

\* route_policy_replace_route: an entry of the same destination, table and
\* metric is replaced; a candidate that does not answer is taken out.
replaceRoute(entries, p, l) ==
  LET new == [to |-> Route[p.id].to, table |-> p.egress.table, metric |-> Link[l].metric, via |-> l]
  IN  IF l \in up
      THEN {e \in entries : <<e.to, e.table, e.metric>> # <<new.to, new.table, new.metric>>} \cup {new}
      ELSE entries \ {new}

\* Mutant: of the candidates of a rule only the first is installed.
firstCandidateOnly(entries, p) == replaceRoute(entries, p, Head(p.egress.links))

\* ipRoutePolicyRouteCommands, in the order of the candidates.
routeCommands(entries, p) == FoldLeft(LAMBDA acc, l : replaceRoute(acc, p, l), entries, p.egress.links)

ready(p) == \E i \in DOMAIN p.egress.links : p.egress.links[i] \in up

flushed(k, targets) == {e \in k.entries : [to |-> e.to, table |-> e.table] \notin targets}

\* One run: the marks and the rules go, the targets are flushed, and the rules
\* come back one after the other until one has no candidate that answers:
\* there the script stops.
runScript(s) ==
  LET stop == CHOOSE n \in 0..Len(s.rules) :
                /\ \A i \in 1..n : ready(s.rules[i])
                /\ n = Len(s.rules) \/ ~ready(s.rules[n + 1])
      tried == SubSeq(s.rules, 1, IF stop = Len(s.rules) THEN stop ELSE stop + 1)
  IN  [kernel |-> [marks |-> SubSeq(s.rules, 1, stop),
                   entries |-> FoldLeft(routeCommands, flushed(kernel, s.flush), tried)],
       ok |-> stop = Len(s.rules)]

Run(s) ==
  /\ kernel' = runScript(s).kernel
  /\ ran' = IF runScript(s).ok THEN "ok" ELSE "failed"

\* The timer starts the unit again every 20 seconds.
TimerRuns ==
  /\ script.present
  /\ Run(script)
  /\ UNCHANGED <<row, live, up, snapshot, script, cut, ops, jobVars>>

\* An interface goes away, with its entries, or comes back.
InterfaceChanges(l) ==
  /\ Fault
  /\ up' = IF l \in up THEN up \ {l} ELSE up \cup {l}
  /\ kernel' = [kernel EXCEPT !.entries = {e \in @ : e.via # l}]
  /\ ran' = IF l \notin up /\ ran = "ok" THEN "stale" ELSE ran
  /\ UNCHANGED <<row, live, snapshot, script, cut, ops, jobs, agent>>

-----------------------------------------------------------------------------
(***************************************************************************)
(* The agent: applyRoutePolicy and cleanupRoutePolicy.                     *)
(***************************************************************************)
handler(type) == IF type = "apply" THEN <<"snapshot", "script", "run">> ELSE <<"clean", "remove">>

\* The previous snapshot is read before it is overwritten.
AgentNextJob(n, j) ==
  /\ Claimable(n, j)
  /\ jobs' = [jobs EXCEPT ![j].status = "running"]
  /\ agent' = [agent EXCEPT ![n] = [AgentIdle EXCEPT !.job = j,
                 !.todo = << <<"read", snapshot>> >> \o handler(jobs[j].type)]]
  /\ UNCHANGED <<row, live, up, nodeVars, cut, ops, faults>>

\* Mutant: the cleanup goes by the payload of its job alone.
cleanByPayload(w, previous) == targetsOf(w)

\* renderRoutePolicyCleanupScript: by the payload and by the file.
renderRoutePolicyCleanupScript(w, previous) == targetsOf(w) \cup targetsOf(previous)

AgentCommand(n) ==
  LET previous == Head(agent[n].todo)[2]
      k == agent[n].todo[2]
      w == jobs[agent[n].job].payload
  IN  /\ Working(n) /\ Len(agent[n].todo) > 1
      /\ CASE k = "snapshot" -> snapshot' = w /\ UNCHANGED <<script, kernel, ran>>
           [] k = "script" -> script' = renderRoutePolicyKernelScript(w, previous)
                              /\ UNCHANGED <<snapshot, kernel, ran>>
           [] k = "run" -> Run(script) /\ UNCHANGED <<snapshot, script>>
           [] k = "clean" -> /\ kernel' = [marks |-> <<>>,
                                           entries |-> flushed(kernel, renderRoutePolicyCleanupScript(w, previous))]
                             /\ script' = [script EXCEPT !.present = FALSE]   \* disable --now
                             /\ ran' = "cleaned" /\ UNCHANGED snapshot
           [] k = "remove" -> snapshot' = <<>> /\ script' = NoScript /\ UNCHANGED <<kernel, ran>>
      /\ IF Len(agent[n].todo) > 2
         THEN agent' = [agent EXCEPT ![n].todo = <<Head(@)>> \o SubSeq(@, 3, Len(@))]
         ELSE Finish(n, IF k = "run" /\ ~runScript(script).ok THEN "failed" ELSE "succeeded")
      /\ UNCHANGED <<row, live, up, cut, ops, jobs, faults>>

replaced(n) == jobs[agent[n].job].type = "apply" /\ agent[n].todo # <<>> /\ agent[n].todo[2] \in {"script", "run"}

\* A command fails: the handler returns with what it has done.
CommandFails(n) ==
  /\ Working(n) /\ Fault
  /\ Finish(n, "failed")
  /\ cut' = (cut \/ replaced(n))
  /\ UNCHANGED <<row, live, up, nodeVars, ops, jobs>>

AgentDies ==
  /\ AgentCrash
  /\ cut' = (cut \/ \E n \in Node : agent'[n] # agent[n] /\ Working(n) /\ replaced(n))
  /\ UNCHANGED <<row, live, up, nodeVars, ops>>

JobDone(j) ==
  /\ EffectDue(j)
  /\ EffectDone(j)
  /\ UNCHANGED <<row, live, up, nodeVars, cut, ops, faults>>

QueueStep ==
  /\ \/ \E n \in Node : AgentJobResult(n)
     \/ CompletionCrash \/ LeaseLapse \/ CancelJob \/ RequeueNodeStuckJob
  /\ UNCHANGED <<row, live, up, nodeVars, cut, ops>>

Next ==
  \/ \E r \in Routes, status \in {"active", "disabled", "revoked"} : EditRoute(r, status)
  \/ \E l \in Links : EditLink(l) \/ InterfaceChanges(l)
  \/ CreateNodeRoutePolicyCleanupJob \/ TimerRuns \/ AgentDies
  \/ \E n \in Node : \/ \E j \in Job : AgentNextJob(n, j)
                     \/ AgentCommand(n) \/ CommandFails(n)
  \/ \E j \in Job : JobDone(j)
  \/ QueueStep

Spec == Init /\ [][Next]_vars

-----------------------------------------------------------------------------
(***************************************************************************)
(* What the kernel does with a packet: the last mark that matches decides, *)
(* then the narrowest entry of the mark's table, then the least metric.    *)
(***************************************************************************)
Packet == [from : {Route[r].from : r \in Routes}, to : UNION {Route[r].to : r \in Routes},
           protocol : {"tcp", "udp"}, port : UNION {Route[r].ports : r \in Routes} \cup {0}]

\* nftRoutePolicyMarkCommand.
matches(pkt, r) ==
  /\ pkt.from = Route[r].from /\ pkt.to \in Route[r].to
  /\ Route[r].protocol \in {"any", pkt.protocol}
  /\ Route[r].ports = {} \/ pkt.port \in Route[r].ports

marksOf(pkt) == {i \in DOMAIN kernel.marks : matches(pkt, kernel.marks[i].id)}

lookup(pkt, table) ==
  LET hits == {e \in kernel.entries : e.table = table /\ pkt.to \in e.to}
  IN  {e \in hits : \A f \in hits : \/ Cardinality(e.to) < Cardinality(f.to)
                                    \/ Cardinality(e.to) = Cardinality(f.to) /\ e.metric <= f.metric}

\* The links a packet leaves over; none when it is not marked.
leavesOver(pkt) ==
  IF marksOf(pkt) = {} THEN {}
  ELSE {e.via : e \in lookup(pkt, kernel.marks[CHOOSE i \in marksOf(pkt) :
                                                 \A k \in marksOf(pkt) : k <= i].egress.table)}

-----------------------------------------------------------------------------
\* A packet is marked only for a route of the installed script that matches
\* it, and then leaves over a link to that route's egress node, the one with
\* the least metric of those that answer: no entry that an older policy has
\* left in the table takes it elsewhere, unless an apply was cut off between
\* its snapshot and its script.  (A link that comes back is used again from
\* the next run of the timer on.)
MarkedLeavesByPolicy ==
  ran = "ok" /\ ~cut /\ Quiet =>
    \A pkt \in Packet : marksOf(pkt) # {} =>
      \E i \in marksOf(pkt) :
        LET links == ToSet(kernel.marks[i].egress.links) \cap up
        IN  links # {} => leavesOver(pkt) = {l \in links : \A k \in links : Link[l].metric <= Link[k].metric}

\* After a cleanup nothing of the policy is left in the kernel, though the
\* routes may have changed since they were installed, unless an apply was cut
\* off before.
CleanupLeavesNothing == ran = "cleaned" /\ ~cut => kernel = NoKernel
=============================================================================
