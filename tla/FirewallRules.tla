---------------------------- MODULE FirewallRules ----------------------------
(***************************************************************************)
(* What a firewall policy becomes on a node: the checks the control plane  *)
(* makes of a strict apply, the nftables script the agent renders, and the *)
(* verdict that script gives a packet, against what the catalogue says of  *)
(* that packet.                                                            *)
(*                                                                         *)
(* Sources: cmd/agent/firewall.go, internal/infra/postgres/firewall.go,    *)
(* bootstrap.go.  An address is a number, an address-list entry the set of *)
(* addresses of one family it covers (empty: a DNS name, which is never    *)
(* rendered), a rule's CIDR likewise (empty: none).  Packets carry no      *)
(* payload; source ports and ICMP are left out.                            *)
(***************************************************************************)
EXTENDS Integers, Sequences, SequencesExt, FiniteSetsExt

CONSTANTS
  V4, V6,        \* the addresses of each family
  Lists,         \* the contents of the address lists, by key
  Rule, MaxRules,\* the rules a policy may have, and how many it has
  CoreAddr       \* the address of the control plane, when its URL names one

VARIABLES
  policy,  \* defaults of the chains and the rules
  lists,   \* the entries of each address list
  job,     \* the apply job: strict or not, and whether the URL names an address
  plan     \* the script of the agent

vars == <<policy, lists, job, plan>>

Chain == {"input", "forward", "output"}
Family == {"ip", "ip6"}
AddrOf(f) == IF f = "ip" THEN V4 ELSE V6
Addr == V4 \cup V6
FamilyOf(a) == IF a \in V4 THEN "ip" ELSE "ip6"
SSH == 22
HTTPS == 443
Port == {SSH, HTTPS}
Packet ==
  {p \in [chain : Chain, src : Addr, dst : Addr, proto : {"tcp", "udp"}, port : Port, state : {"new", "established"}] :
     FamilyOf(p.src) = FamilyOf(p.dst)}

NotRendered == [status |-> "none", lines |-> <<>>, base |-> [c \in Chain |-> "accept"]]
RenderError == [NotRendered EXCEPT !.status = "error"]

Init ==
  /\ policy \in [default : [Chain -> {"accept", "drop", "reject"}], rules : SeqOf(Rule, MaxRules)]
  /\ \A c \in Chain : policy.default[c] = "reject" => c = "input"
  /\ lists \in Lists
  /\ job \in [strict : BOOLEAN, ip : BOOLEAN]
  /\ plan = NotRendered

-----------------------------------------------------------------------------
(***************************************************************************)
(* The control plane.                                                      *)
(***************************************************************************)
\* firewallAddressValueIsAny and the queries for entries the agent can render.
firewallAddressValueIsAny(e) == e \in {V4, V6}

firewallAddressListHasRenderableNonAnyEntries(key) ==
  \E e \in lists[key] : e # {} /\ ~firewallAddressValueIsAny(e)

firewallRuleAllowsNewState(r) == r.states = {} \/ "new" \in r.states

ActiveAccept(chain) ==
  {i \in DOMAIN policy.rules : LET r == policy.rules[i]
                               IN  r.enabled /\ r.chain = chain /\ r.action = "accept" /\ firewallRuleAllowsNewState(r)}

firewallHasRenderableTrustedManagementSources ==
  firewallAddressListHasRenderableNonAnyEntries("trusted_operators")

firewallPolicyAllowsStrictForwardSources ==
  \E i \in ActiveAccept("forward") :
    /\ policy.rules[i].srcList = "vpn_client_sources"
    /\ firewallAddressListHasRenderableNonAnyEntries(policy.rules[i].srcList)

firewallPolicyAllowsStrictControlPlaneOutput ==
  \E i \in ActiveAccept("output") :
    LET r == policy.rules[i]
    IN  /\ r.proto \in {"tcp", "any"}
        /\ IF r.dstCIDR # {} THEN ~firewallAddressValueIsAny(r.dstCIDR)
           ELSE r.dstList # "" /\ firewallAddressListHasRenderableNonAnyEntries(r.dstList)

\* Every list an accept rule names must have something to render.
validateFirewallStrictAddressLists ==
  \A i \in DOMAIN policy.rules :
    LET r == policy.rules[i]
    IN  r.enabled /\ r.action = "accept" =>
          \A key \in {r.srcList, r.dstList} \ {""} : \E e \in lists[key] : e # {}

\* The node forwards traffic, as every ingress and egress node does.  With a
\* management source firewallPolicyAllowsStrictSSHBootstrapPort always agrees.
validateFirewallStrictJobSafety ==
  job.strict =>
    /\ validateFirewallStrictAddressLists
    /\ policy.default["input"] # "accept" => firewallHasRenderableTrustedManagementSources
    /\ policy.default["forward"] # "accept" => firewallPolicyAllowsStrictForwardSources
    /\ policy.default["output"] # "accept" => firewallPolicyAllowsStrictControlPlaneOutput

-----------------------------------------------------------------------------
(***************************************************************************)
(* The agent.  A line matches every packet of its chain that each of its   *)
(* conditions, a set, lets through.                                        *)
(***************************************************************************)
AnyState == {"new", "established"}
AnyProto == {"tcp", "udp"}

Line(chain, states, src, dst, proto, ports, action) ==
  [chain |-> chain, states |-> states, src |-> src, dst |-> dst, proto |-> proto, ports |-> ports, action |-> action]

\* parseNodeFirewallAddressLists and renderNodeFirewallAddressListSets: the nft
\* set of one family.
setForFamily(key, f) == UNION {e \in lists[key] : e # {} /\ e \subseteq AddrOf(f)}

families(key) == {f \in Family : setForFamily(key, f) # {}}

\* The addresses a rule admits on one side, its list before its CIDR.
Side(key, cidr, f) ==
  IF key # "" THEN setForFamily(key, f) ELSE IF cidr # {} THEN cidr ELSE Addr

SideFamilies(key, cidr) ==
  IF key # "" THEN families(key) ELSE IF cidr # {} THEN {FamilyOf(CHOOSE a \in cidr : TRUE)} ELSE Family

\* Mutant: a rule with lists is rendered for IPv4 only.
familiesIPv4Only(r) == {"ip"}

\* One line per family both sides have; none is an error.
nodeFirewallRuleFamilies(r) == SideFamilies(r.srcList, r.srcCIDR) \cap SideFamilies(r.dstList, r.dstCIDR)

\* The protocol is written only with a port: a line without one matches all.
renderNodeFirewallRuleLine(r, f) ==
  Line(r.chain, IF r.states = {} THEN AnyState ELSE r.states,
       Side(r.srcList, r.srcCIDR, f), Side(r.dstList, r.dstCIDR, f),
       IF r.ports = {} THEN AnyProto ELSE {r.proto}, IF r.ports = {} THEN Port ELSE r.ports, r.action)

Unconditional(r) == r.srcList = "" /\ r.dstList = "" /\ r.srcCIDR = {} /\ r.dstCIDR = {}

renderNodeFirewallRule(r) ==
  IF Unconditional(r) THEN <<renderNodeFirewallRuleLine(r, "ip")>>
  ELSE SetToSeq({renderNodeFirewallRuleLine(r, f) : f \in nodeFirewallRuleFamilies(r)})

\* parseNodeFirewallRules: enabled ones, by priority.
parseNodeFirewallRules ==
  SelectSeq(SortSeq(policy.rules, LAMBDA r, s : r.prio < s.prio), LAMBDA r : r.enabled)

\* A list that covers a whole family is not used at all.
renderNodeFirewallSSHBootstrapRules ==
  LET ok == \A e \in lists["trusted_operators"] : ~firewallAddressValueIsAny(e)
      fs == IF ok THEN families("trusted_operators") ELSE {}
  IN  SetToSeq({Line("input", AnyState, setForFamily("trusted_operators", f), Addr, {"tcp"}, {SSH}, "accept") : f \in fs})

hasExplicitControlPlaneOutputAllow ==
  \E i \in ActiveAccept("output") :
    LET r == policy.rules[i]
    IN  /\ r.proto \in {"tcp", "any"}
        /\ IF r.proto = "tcp" THEN r.ports = {} \/ HTTPS \in r.ports ELSE r.ports = {}
        /\ IF r.dstCIDR # {} THEN ~firewallAddressValueIsAny(r.dstCIDR) ELSE r.dstList # ""

renderNodeFirewallControlPlaneOutputRule ==
  IF job.ip THEN <<Line("output", AnyState, Addr, {CoreAddr}, {"tcp"}, {HTTPS}, "accept")>> ELSE <<>>

Established(chain) == Line(chain, {"established"}, Addr, Addr, AnyProto, Port, "accept")

renderNodeFirewallSafetyRules ==
  LET closed(chain) == job.strict /\ policy.default[chain] # "accept"
  IN  (IF closed("input") THEN <<Established("input")>> \o renderNodeFirewallSSHBootstrapRules ELSE <<>>)
        \o (IF closed("forward") THEN <<Established("forward")>> ELSE <<>>)
        \o (IF closed("output") THEN <<Established("output")>> \o renderNodeFirewallControlPlaneOutputRule ELSE <<>>)

renderNodeFirewallDefaultRejectRules ==
  IF job.strict /\ policy.default["input"] = "reject"
  THEN <<Line("input", AnyState, Addr, Addr, AnyProto, Port, "reject")>> ELSE <<>>

nftBasePolicy(chain) == IF job.strict /\ policy.default[chain] # "accept" THEN "drop" ELSE "accept"

\* A rule no family fits, or a strict output that would cut the agent off.
renderFails ==
  \/ \E i \in DOMAIN policy.rules :
       LET r == policy.rules[i]
       IN  r.enabled /\ ~Unconditional(r) /\ nodeFirewallRuleFamilies(r) = {}
  \/ job.strict /\ policy.default["output"] # "accept" /\ ~job.ip /\ ~hasExplicitControlPlaneOutputAllow

\* Mutant: the catalogue's rules come before the system's.
catalogueFirst ==
  FlattenSeq([i \in 1..Len(parseNodeFirewallRules) |-> renderNodeFirewallRule(parseNodeFirewallRules[i])])
    \o renderNodeFirewallSafetyRules \o renderNodeFirewallDefaultRejectRules

\* The order of the script.
scriptLines ==
  renderNodeFirewallSafetyRules
    \o FlattenSeq([i \in 1..Len(parseNodeFirewallRules) |-> renderNodeFirewallRule(parseNodeFirewallRules[i])])
    \o renderNodeFirewallDefaultRejectRules

renderNodeFirewallPlan ==
  /\ plan.status = "none"
  /\ validateFirewallStrictJobSafety
  /\ plan' = IF renderFails THEN RenderError
             ELSE [status |-> "ready", lines |-> scriptLines, base |-> [c \in Chain |-> nftBasePolicy(c)]]
  /\ UNCHANGED <<policy, lists, job>>

Next == renderNodeFirewallPlan

Spec == Init /\ [][Next]_vars

-----------------------------------------------------------------------------
(***************************************************************************)
(* Verdicts.                                                               *)
(***************************************************************************)
LineMatches(l, p) ==
  l.chain = p.chain /\ p.state \in l.states /\ p.src \in l.src /\ p.dst \in l.dst
    /\ p.proto \in l.proto /\ p.port \in l.ports

\* External: the first line of the chain that matches, else the base policy.
nftVerdict(p) ==
  LET M == {i \in 1..Len(plan.lines) : LineMatches(plan.lines[i], p)}
  IN  IF M = {} THEN plan.base[p.chain] ELSE plan.lines[Min(M)].action

Denied(v) == v # "accept"

\* What the catalogue says of one side of a rule: the entries of its list, of
\* whatever family, before its CIDR.
Admits(key, cidr, a) ==
  IF key # "" THEN a \in UNION lists[key] ELSE cidr # {} => a \in cidr

RuleMatches(r, p) ==
  /\ r.enabled /\ r.chain = p.chain
  /\ Admits(r.srcList, r.srcCIDR, p.src) /\ Admits(r.dstList, r.dstCIDR, p.dst)
  /\ r.proto \in {"any", p.proto} /\ (r.ports # {} => p.port \in r.ports)
  /\ r.states # {} => p.state \in r.states

CatalogueVerdict(p) ==
  LET M == {i \in DOMAIN policy.rules : RuleMatches(policy.rules[i], p)}
      first == CHOOSE i \in M : \A k \in M : policy.rules[i].prio <= policy.rules[k].prio
  IN  IF M # {} THEN policy.rules[first].action
      ELSE IF job.strict THEN policy.default[p.chain] ELSE "accept"

\* What strict mode keeps open whatever the rules say.
SystemAccepts(p) ==
  /\ job.strict /\ policy.default[p.chain] # "accept"
  /\ \/ p.state = "established"
     \/ p.chain = "input" /\ p.proto = "tcp" /\ p.port = SSH /\ p.src \in UNION lists["trusted_operators"]
     \/ p.chain = "output" /\ job.ip /\ p.dst = CoreAddr /\ p.proto = "tcp" /\ p.port = HTTPS

BarePortless(r) == r.proto # "any" /\ r.ports = {}

\* For rules of distinct priorities: but for what strict mode keeps
\* open, the script denies exactly the packets the catalogue denies.  Rules
\* that name a protocol and no port are excluded: they are rendered without
\* the protocol.
ScriptMeansPolicy ==
  plan.status = "ready" /\ (\A i \in DOMAIN policy.rules : ~BarePortless(policy.rules[i])) =>
    \A p \in Packet : ~SystemAccepts(p) => (Denied(nftVerdict(p)) <=> Denied(CatalogueVerdict(p)))

\* A strict script never cuts the agent off from a control plane that is named
\* by its address, nor an established session, whatever the rules say.
StrictKeepsControlPlane ==
  plan.status = "ready" /\ job.strict =>
    \A p \in Packet : /\ p.chain = "output" /\ job.ip /\ p.dst = CoreAddr /\ p.proto = "tcp" /\ p.port = HTTPS
                         /\ policy.default["output"] # "accept" => nftVerdict(p) = "accept"
                      /\ p.state = "established" /\ policy.default[p.chain] # "accept" => nftVerdict(p) = "accept"

=============================================================================
