---------------------------- MODULE XrayRouting ----------------------------
(***************************************************************************)
(* How the traffic of an Xray client leaves the node: the egress a group   *)
(* and the instance ask for, what the three resolvers make of it with the  *)
(* backhauls there are, and the rules and outbounds that are rendered from *)
(* the result.                                                             *)
(*                                                                         *)
(* Sources: internal/infra/postgres/client_access_metadata.go,             *)
(* instance_drivers.go (Xray), access_routes.go (ResolveXrayVLESSEgress),  *)
(* backhaul_xray_convergence.go; internal/accesspolicy/vless.go;           *)
(* cmd/worker/driver_state.go.  The spec of one instance is followed       *)
(* through edits, link changes and resolutions; modes that are spelled     *)
(* several ways are one mode.  A spec with an own config_json, custom      *)
(* rules, and groups served by external egress are left out, and so is a   *)
(* group with the key default, whose outbound would have the tag of the    *)
(* instance's.                                                             *)
(***************************************************************************)
EXTENDS Naturals, Sequences, SequencesExt

CONSTANTS
  Group,       \* the keys of the groups, in their order in the spec
  Catalogued,  \* the groups of the catalogue; the others exist in the spec alone
  Client,
  EgressNode,
  Address,     \* by egress node: addresses the ingress side of its backhaul may have
  MaxOps       \* how many edits and link changes a behaviour has

VARIABLES
  role,       \* of the instance's node: "ingress" or "egress"
  template,   \* the catalogue: by group its mode, node and ad block
  spec,       \* groups, the instance's egress and its outbound, managed clients, stats
  link,       \* by egress node: the address of its active backhaul, or None
  fresh,      \* the resolver that has run since the last edit or link change, or None
  resolved,   \* groups a resolver has seen since their mode was edited
  ops

vars == <<role, template, spec, link, fresh, resolved, ops>>

None == "none"
Groups == Range(Group)
Modes == {"default", "local", "block", "instance_only"} \X {None} \cup {"node"} \X EgressNode

\* via: where the group's own outbound sends from; by: who resolved it.
PolicyGroup(p) ==
  [mode |-> p.mode, node |-> p.node, ads |-> p.ads,
   tag |-> IF p.mode = "block" THEN "block" ELSE "direct", via |-> None, by |-> None]

Policy(mode, ads) == [mode |-> mode[1], node |-> mode[2], ads |-> ads]

\* vlessAccessPolicySpecGroup has written the catalogue's groups; the operator
\* has not said where the instance's traffic leaves.
Init ==
  /\ role \in {"ingress", "egress"}
  /\ \E mode \in Modes : template = [g \in Catalogued |-> Policy(mode, FALSE)]
  /\ spec = [group |-> [g \in Groups |-> PolicyGroup(Policy(<<"default", None>>, FALSE))],
             mode |-> "unset", node |-> None, egress |-> None, via |-> None,
             client |-> [c \in Client |-> Head(Group)], stats |-> FALSE]
  /\ link \in {l \in [EgressNode -> UNION {Address[n] : n \in EgressNode} \cup {None}] :
                 \A n \in EgressNode : l[n] \in Address[n] \cup {None}}
  /\ fresh = None
  /\ resolved = {}
  /\ ops = 0

-----------------------------------------------------------------------------
(***************************************************************************)
(* ResolveXrayVLESSEgress: "local" on an egress node, the address of the   *)
(* backhaul to the node that is asked for, or to the only one there is;    *)
(* otherwise an error.                                                     *)
(***************************************************************************)
listRoutePolicyBackhauls == {n \in EgressNode : link[n] # None}

ResolveXrayVLESSEgress(n) ==
  IF role = "egress" THEN [node |-> None, via |-> "local"]
  ELSE IF n # None THEN [node |-> n, via |-> link[n]]
  ELSE IF \E m \in EgressNode : listRoutePolicyBackhauls = {m}
       THEN LET m == CHOOSE m \in listRoutePolicyBackhauls : TRUE IN [node |-> m, via |-> link[m]]
       ELSE [node |-> None, via |-> None]

Failed(r) == r.via = None

\* resolveXrayDefaultEgressWithResolver and ensureXrayInstanceDefaultEgress:
\* what the operator asks for comes before what was resolved earlier; where
\* neither says anything the worker chooses (auto) and the control plane
\* leaves the spec alone.
defaultRequest(s) ==
  CASE s.mode = "local" -> "local"
    [] s.mode = "node" -> s.node
    [] s.mode = "unset" -> IF s.egress = "local" THEN "local" ELSE s.egress

defaultFails(s, worker) ==
  LET q == defaultRequest(s)
  IN  q # "local" /\ (worker \/ q # None) /\ Failed(ResolveXrayVLESSEgress(q))

resolveXrayDefaultEgress(s, worker) ==
  LET q == defaultRequest(s)
      r == IF q = "local" THEN [node |-> None, via |-> "local"] ELSE ResolveXrayVLESSEgress(q)
  IN  IF q = None /\ ~worker THEN s
      ELSE [s EXCEPT !.egress = IF r.via = "local" THEN "local" ELSE r.node,
                     !.via = IF r.via = "local" THEN None ELSE r.via]

\* clearResolvedXrayVLESSGroupEgress takes back what any resolver wrote,
\* clearWorkerResolvedVLESSGroupEgressLocal what the worker wrote.
clearResolved(g, worker) ==
  IF g.by = None \/ (worker /\ g.by # "worker") THEN g
  ELSE [g EXCEPT !.via = None, !.by = None]

groupFails(g) == g.mode = "node" /\ Failed(ResolveXrayVLESSEgress(g.node))

\* Mutant: what an earlier resolution wrote stays.
resolveNodeOnly(g, worker) ==
  LET r == ResolveXrayVLESSEgress(g.node)
  IN  IF g.mode # "node" THEN g
      ELSE IF r.via = "local" THEN [g EXCEPT !.tag = "direct", !.via = None, !.by = "control-plane"]
           ELSE [g EXCEPT !.tag = "egress", !.via = r.via, !.by = "control-plane"]

\* One group in resolveXrayVLESSGroupEgressWithResolver, and in
\* ensureXrayVLESSGroupEgress of the worker.
resolveXrayVLESSGroupEgress(g, worker) ==
  LET r == ResolveXrayVLESSEgress(g.node)
      by == IF worker THEN "worker" ELSE "control-plane"
  IN  CASE g.mode \in {"default", "instance_only"} -> clearResolved(g, worker)
        [] g.mode = "local" -> clearResolved([g EXCEPT !.tag = "direct"], worker)
        [] g.mode = "block" -> clearResolved([g EXCEPT !.tag = "block"], worker)
        [] g.mode = "node" ->
             IF r.via = "local" THEN [g EXCEPT !.tag = "direct", !.via = None, !.by = by]
             ELSE [g EXCEPT !.tag = "egress", !.via = r.via, !.by = by]

resolvedSpec(s, worker) ==
  [resolveXrayDefaultEgress(s, worker) EXCEPT
     !.group = [g \in Groups |-> resolveXrayVLESSGroupEgress(s.group[g], worker)]]

Resolves(s, worker) ==
  /\ ~defaultFails(s, worker)
  /\ \A g \in Groups : ~groupFails(s.group[g])

-----------------------------------------------------------------------------
(***************************************************************************)
(* Rendering.                                                              *)
(***************************************************************************)
Default == "egress-default"

\* xrayVLESSGroups: a group's own outbound names its tag; a tag that is not
\* built in and has no outbound is direct.
groupTag(s, g) == IF s.group[g].via # None THEN g
                  ELSE IF s.group[g].tag = "block" THEN "block" ELSE "direct"

\* hydrateXrayVLESSGroupTargetRules: only its target, everything else blocked.
hydratedTag(s, g) ==
  IF s.group[g].mode = "instance_only" /\ s.group[g].via = None THEN "block" ELSE groupTag(s, g)

xrayEffectiveVLESSGroupOutboundTag(s, g) ==
  LET tag == hydratedTag(s, g)
  IN  IF s.group[g].mode = "local" THEN "direct"
      ELSE IF s.group[g].mode = "block" THEN "block"
      ELSE IF tag = "direct" /\ s.via # None THEN Default ELSE tag

\* Clients of a group the spec does not have are in the default one.
usersOf(s, g) == {c \in Client : (IF s.client[c] \in Groups THEN s.client[c] ELSE Head(Group)) = g}

Rule(inbound, users, dest, tag) == [inbound |-> inbound, users |-> users, dest |-> dest, tag |-> tag]

\* xrayVLESSGroupRoutingRules, per group: advertisements, its rules, the rest.
groupRules(s, g) ==
  LET users == usersOf(s, g)
  IN  IF users = {} THEN <<>>
      ELSE (IF s.group[g].ads THEN <<Rule("vless-in", users, "ads", "block")>> ELSE <<>>)
           \o (IF s.group[g].mode = "instance_only"
               THEN <<Rule("vless-in", users, "target", "direct")>> ELSE <<>>)
           \o <<Rule("vless-in", users, "any", xrayEffectiveVLESSGroupOutboundTag(s, g))>>

xrayVLESSGroupRoutingRules(s) == FlattenSeq([n \in DOMAIN Group |-> groupRules(s, Group[n])])

\* applyXrayVLESSGroupRouting, then applyXrayStatsRoutingRule in front.
routingRules(s) ==
  (IF s.stats THEN <<Rule("api", {}, "any", "api")>> ELSE <<>>)
  \o xrayVLESSGroupRoutingRules(s)
  \o (IF s.via = None THEN <<>> ELSE <<Rule("vless-in", Client, "any", Default)>>)

\* xrayOutboundsForSpec: the address an outbound sends from.
outbound(s, tag) ==
  IF tag = Default THEN s.via
  ELSE IF tag \in {"direct", "block", "api"} THEN tag ELSE s.group[tag].via

Matches(r, inbound, c, dest) ==
  /\ r.inbound = inbound
  /\ c \in r.users \/ r.inbound = "api"
  /\ r.dest \in {"any", dest}

\* Xray takes the first rule that matches, and the first outbound if none does.
Routed(s, inbound, c, dest) ==
  LET rules == routingRules(s)
      hits == {n \in DOMAIN rules : Matches(rules[n], inbound, c, dest)}
  IN  IF hits = {} THEN "direct"
      ELSE outbound(s, rules[CHOOSE n \in hits : \A k \in hits : n <= k].tag)

-----------------------------------------------------------------------------
(***************************************************************************)
(* Edits, and the three that resolve.                                      *)
(***************************************************************************)
Edit == ops < MaxOps /\ ops' = ops + 1 /\ fresh' = None /\ UNCHANGED role

\* UpdateClientAccessGroup with a policy NormalizeVLESS accepts.
EditCatalogue ==
  /\ \E g \in Catalogued, mode \in Modes, ads \in BOOLEAN :
       template' = [template EXCEPT ![g] = Policy(mode, ads)]
  /\ Edit
  /\ UNCHANGED <<spec, link, resolved>>

\* A new revision of the instance with another mode for a group that is not in
\* the catalogue; what a resolver wrote into the group comes along.
EditGroup ==
  /\ \E g \in Groups \ Catalogued, mode \in Modes :
       /\ spec' = [spec EXCEPT !.group[g] =
            [@ EXCEPT !.mode = mode[1], !.node = mode[2], !.tag = IF mode[1] = "block" THEN "block" ELSE "direct"]]
       /\ resolved' = resolved \ {g}
  /\ Edit
  /\ UNCHANGED <<template, link>>

\* ... with another egress for the instance, or traffic accounting.
EditInstance ==
  /\ \E mode \in {"local"} \X {None} \cup {"node"} \X EgressNode, stats \in BOOLEAN :
       spec' = [spec EXCEPT !.mode = mode[1], !.node = mode[2], !.stats = stats]
  /\ Edit
  /\ UNCHANGED <<template, link, resolved>>

\* A backhaul is lost, comes, or its selected transport changes.
LinkChanges ==
  /\ \E n \in EgressNode : \E a \in (Address[n] \cup {None}) \ {link[n]} : link' = [link EXCEPT ![n] = a]
  /\ Edit
  /\ UNCHANGED <<template, spec, resolved>>

Becomes(s, resolver) ==
  /\ spec' = s
  /\ fresh' = resolver
  /\ resolved' = Groups
  /\ UNCHANGED <<role, template, link, ops>>

\* specWithVLESSAccessPolicyCatalogSnapshot: the catalogue's groups are written
\* anew.
withCatalogue ==
  [spec EXCEPT !.group = [g \in Groups |->
     IF g \in Catalogued THEN PolicyGroup(template[g]) ELSE spec.group[g]]]

\* Mutant: the spec is saved though its egress could not be resolved.
syncAnyway ==
  IF Resolves(withCatalogue, FALSE) THEN Becomes(resolvedSpec(withCatalogue, FALSE), "control-plane")
  ELSE spec' = withCatalogue /\ fresh' = None /\ UNCHANGED <<role, template, link, resolved, ops>>

syncXrayVLESSAccessPolicySpec ==
  LET s == withCatalogue
  IN  Resolves(s, FALSE) /\ Becomes(resolvedSpec(s, FALSE), "control-plane")

\* refreshXrayRemoteEgressForBackhaul: of the groups as the spec has them.
refreshXrayRemoteEgressForBackhaul ==
  /\ spec.node # None \/ spec.egress \in EgressNode \/ \E g \in Groups : spec.group[g].node # None
  /\ Resolves(spec, FALSE)
  /\ Becomes(resolvedSpec(spec, FALSE), "control-plane")

\* ensureXrayInstanceDriverState; the bindings say which group a client is in.
ensureXrayInstanceDriverState ==
  /\ Resolves(spec, TRUE)
  /\ \E of \in [Client -> Groups] :
       Becomes([resolvedSpec(spec, TRUE) EXCEPT !.client = of], "worker")

Next ==
  \/ EditCatalogue \/ EditGroup \/ EditInstance \/ LinkChanges
  \/ syncXrayVLESSAccessPolicySpec \/ refreshXrayRemoteEgressForBackhaul
  \/ ensureXrayInstanceDriverState

-----------------------------------------------------------------------------
(***************************************************************************)
(* Properties.                                                             *)
(***************************************************************************)
GroupOf(c) == IF spec.client[c] \in Groups THEN spec.client[c] ELSE Head(Group)

Reaches(n) == IF role = "egress" THEN "direct" ELSE link[n]

Intended(c, dest) ==
  LET p == spec.group[GroupOf(c)]
  IN  IF p.ads /\ dest = "ads" THEN "block"
      ELSE CASE p.mode = "local" -> "direct"
             [] p.mode = "block" -> "block"
             [] p.mode = "instance_only" -> IF dest = "target" THEN "direct" ELSE "block"
             [] p.mode = "node" -> Reaches(p.node)
             [] p.mode = "default" ->
                  IF spec.mode = "node" THEN Reaches(spec.node)
                  ELSE IF spec.mode = "unset" /\ spec.egress \in EgressNode THEN Reaches(spec.egress)
                  ELSE "direct"

\* The worker leaves in place what the control plane resolved for a group that
\* has another mode since.
LeftBehind(g) == fresh = "worker" /\ spec.group[g].by = "control-plane" /\ spec.group[g].mode # "node"

(***************************************************************************)
(* Whatever the edits before it, the config rendered from a spec that a    *)
(* resolver has brought up to date sends each client's traffic where its   *)
(* group's policy and the backhauls say: out of the selected node, out of  *)
(* this one, nowhere, or only to the target; and the statistics inbound to *)
(* the API.                                                                *)
(***************************************************************************)
RoutedAsIntended ==
  fresh # None => \A c \in Client, dest \in {"ads", "target", "other"} :
    /\ ~LeftBehind(GroupOf(c)) => Routed(spec, "vless-in", c, dest) = Intended(c, dest)
    /\ spec.stats => Routed(spec, "api", c, dest) = "api"

(***************************************************************************)
(* A group that is to leave by another node is never rendered to leave by  *)
(* the ingress node itself, even when its backhaul is gone or has moved    *)
(* since it was resolved: the failing resolution keeps the spec as it is.  *)
(***************************************************************************)
RemoteNeverDirect ==
  \A c \in Client, dest \in {"ads", "target", "other"} :
    role = "ingress" /\ GroupOf(c) \in resolved /\ spec.group[GroupOf(c)].mode = "node" =>
      Routed(spec, "vless-in", c, dest) # "direct"

Spec == Init /\ [][Next]_vars
=============================================================================
