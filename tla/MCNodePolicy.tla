---------------------------- MODULE MCNodePolicy ----------------------------
(***************************************************************************)
(* One run for the policies a node enforces: external egress, the firewall *)
(* jobs, the firewall script and the route policy.  The four share no      *)
(* state, so a behaviour belongs to one of them: "part" says to which, the *)
(* variables of the others stay Off.                                       *)
(***************************************************************************)
EXTENDS FiniteSets, Integers

CONSTANTS
  Parts,                  \* the parts this run visits
  Node, Call,
  Profile, Protocol, Table, MaxCfg, MaxJobs,           \* external egress
  Policy, Baseline, MaxVersion, MaxRolloutJobs,        \* the firewall's rollout
  MaxOps, MaxFaults

\* A table of its own for every deployment; 0 is the row that has none.
ASSUME TableAssumption == 0 \notin Table

VARIABLES
  part,
  jobs, agent, faults, ops, call,
  profile, dep, server, run, rules, routes, moved,
  policy, trusted, revs, state, table, late,
  lists, job, plan,
  row, live, snapshot, script, up, kernel, ran, cut

Off == "off"

-----------------------------------------------------------------------------
Egress == INSTANCE ExternalEgress

\* Every profile is an L2TP client, of which a node runs one.
MCProtocol == [p \in Profile |-> "l2tp_ipsec"]

Fire == INSTANCE Firewall WITH MaxJobs <- MaxRolloutJobs

Entry(prio, chain, action, proto, srcList, srcCIDR, dstList, dstCIDR, ports, states, enabled) ==
  [prio |-> prio, chain |-> chain, action |-> action, proto |-> proto,
   srcList |-> srcList, srcCIDR |-> srcCIDR, dstList |-> dstList, dstCIDR |-> dstCIDR,
   ports |-> ports, states |-> states, enabled |-> enabled]

\* Rules of each chain: by list, by address, by port, by state, and disabled.
MCRule == {
  Entry(10, "input", "accept", "tcp", "trusted_operators", {}, "", {}, {22}, {"new"}, TRUE),
  Entry(20, "input", "drop", "any", "", {}, "", {}, {}, {}, TRUE),
  Entry(15, "input", "accept", "udp", "", {2}, "", {}, {}, {}, TRUE),
  Entry(5, "input", "drop", "tcp", "", {1}, "", {}, {22}, {}, FALSE),
  Entry(30, "forward", "accept", "any", "vpn_client_sources", {}, "", {}, {}, {}, TRUE),
  Entry(25, "forward", "drop", "any", "vpn_client_sources", {}, "trusted_operators", {}, {}, {}, TRUE),
  Entry(40, "output", "accept", "tcp", "", {}, "", {2}, {443}, {}, TRUE),
  Entry(35, "output", "reject", "any", "", {}, "", {}, {}, {"new"}, TRUE)}

\* Up to two entries, of either family, disjoint: an address, a whole family, a name.
MCLists == [trusted_operators : {L \in SUBSET {{}, {1}, {1, 2}, {3}} :
                                   /\ Cardinality(L) <= 2
                                   /\ \A x, y \in L : x # y => x \cap y = {}},
            vpn_client_sources : {{}, {{}}, {{1}}, {{1}, {3}}}]

Script == INSTANCE FirewallRules
  WITH V4 <- {1, 2}, V6 <- {3, 4}, Lists <- MCLists, Rule <- MCRule, MaxRules <- 2, CoreAddr <- 2

\* Overlapping routes of two clients and two links to one egress node.
MCRoute == <<
  [from |-> "c1", to |-> {"a", "b"}, service |-> "wireguard", dtype |-> "cidr", protocol |-> "any",
   ports |-> {}, action |-> "allow", mode |-> "node", egress |-> "e1"],
  [from |-> "c1", to |-> {"a"}, service |-> "wireguard", dtype |-> "endpoint", protocol |-> "tcp",
   ports |-> {443}, action |-> "allow", mode |-> "node", egress |-> "e1"],
  [from |-> "c2", to |-> {"a"}, service |-> "wireguard", dtype |-> "cidr", protocol |-> "udp",
   ports |-> {}, action |-> "allow", mode |-> "local", egress |-> "none"] >>

MCLink == << [egress |-> "e1", metric |-> 10, table |-> 101], [egress |-> "e1", metric |-> 50, table |-> 102] >>

Routing == INSTANCE RoutePolicy
  WITH Node <- {"n1"}, Route <- MCRoute, Link <- MCLink, MaxOps <- 3, MaxJobs <- 3, MaxFaults <- 1

-----------------------------------------------------------------------------
queueVars == <<jobs, agent, faults, ops>>
egressVars == <<profile, dep, server, run, rules, routes, moved>>
fireVars == <<trusted, revs, state, table, late>>
scriptVars == <<lists, job, plan>>
routingVars == <<row, live, snapshot, script, up, kernel, ran, cut>>
vars == <<part, queueVars, call, egressVars, policy, fireVars, scriptVars, routingVars>>

queueOff == jobs = Off /\ agent = Off /\ faults = Off /\ ops = Off
egressOff == profile = Off /\ dep = Off /\ server = Off /\ run = Off /\ rules = Off /\ routes = Off /\ moved = Off
fireOff == trusted = Off /\ revs = Off /\ state = Off /\ table = Off /\ late = Off
scriptOff == lists = Off /\ job = Off /\ plan = Off
routingOff ==
  row = Off /\ live = Off /\ snapshot = Off /\ script = Off /\ up = Off /\ kernel = Off /\ ran = Off /\ cut = Off

Init ==
  /\ part \in Parts
  /\ \/ part = "egress" /\ Egress!Init /\ policy = Off /\ fireOff /\ scriptOff /\ routingOff
     \/ part = "firewall" /\ Fire!Init /\ egressOff /\ scriptOff /\ routingOff
     \/ part = "script" /\ Script!Init /\ queueOff /\ call = Off /\ egressOff /\ fireOff /\ routingOff
     \/ part = "routing" /\ Routing!Init /\ call = Off /\ policy = Off /\ egressOff /\ fireOff /\ scriptOff

Next ==
  \/ /\ part = "egress" /\ Egress!Next
     /\ UNCHANGED <<part, policy, fireVars, scriptVars, routingVars>>
  \/ /\ part = "firewall" /\ Fire!Next
     /\ UNCHANGED <<part, egressVars, scriptVars, routingVars>>
  \/ /\ part = "script" /\ Script!Next
     /\ UNCHANGED <<part, queueVars, call, egressVars, fireVars, routingVars>>
  \/ /\ part = "routing" /\ Routing!Next
     /\ UNCHANGED <<part, call, policy, egressVars, fireVars, scriptVars>>

Spec == Init /\ [][Next]_vars

-----------------------------------------------------------------------------
\* A profile that is needed is active, and a node runs one L2TP client or an
\* L2TP server, whatever calls race (megavpn_validate_external_egress_reference,
\* megavpn_guard_l2tp_runtime_exclusivity).
DeploymentsAdmissible == part = "egress" => Egress!DeploymentsAdmissible

\* What a deployment says agrees with what is on its node
\* (the result's guard in applyExternalEgressJobResult).
DeploymentAgrees == part = "egress" => Egress!DeploymentAgrees

\* A strict apply runs what a preview has shown (firewallStablePayloadHash).
StrictWasPreviewed == part = "firewall" => Fire!StrictWasPreviewed

\* What a settled node's firewall row says agrees with its table
\* (applyFirewallApplyJobResult, handleNodeFirewallJob).
SettledFirewallAgrees == part = "firewall" => Fire!SettledFirewallAgrees

\* The nft script denies what the catalogue denies (renderNodeFirewallScript).
ScriptMeansPolicy == part = "script" => Script!ScriptMeansPolicy

\* A strict script leaves the agent its way to the control plane
\* (the order of the script's system rules).
StrictKeepsControlPlane == part = "script" => Script!StrictKeepsControlPlane

\* Traffic a policy marks leaves by the egress the policy names, or not at all
\* (the route policy script's commands).
MarkedLeavesByPolicy == part = "routing" => Routing!MarkedLeavesByPolicy

\* A cleanup leaves none of the rules and routes that earlier policies set
\* (renderRoutePolicyCleanupScript).
CleanupLeavesNothing == part = "routing" => Routing!CleanupLeavesNothing
=============================================================================
