------------------------------ MODULE MCAccess ------------------------------
(***************************************************************************)
(* One run for what gives clients access: "groups" are two access groups   *)
(* over two Xray instances, "retried" fewer calls with a fault, "peer" one *)
(* client of a WireGuard instance, "ports" two clients of a service with a *)
(* port per access, "xray" the routing of an Xray instance on an ingress   *)
(* or an egress node.  "part" says which of them a behaviour is of, the    *)
(* variables of the others stay Off.                                       *)
(***************************************************************************)
EXTENDS Sequences

CONSTANTS
  Parts,          \* the parts this run visits
  Key,            \* of the part "xray": the groups, in their order in the spec
  Catalogued, RoutedClient, EgressNode,
  Address,        \* by egress node: addresses of its backhaul
  MaxEdits

\* The groups staff, of the catalogue, and own; two addresses for one of the nodes.
MCKey == <<"staff", "own">>
MCAddress == [n \in {"n1", "n2"} |-> IF n = "n1" THEN {"a1", "a2"} ELSE {"b1"}]

\* There is a group, a key is no outbound that is built in, and the names that
\* stand for no node, no address and this node are of no node and no address.
ASSUME KeyAssumption ==
  /\ Key \in Seq(STRING) /\ Key # <<>>
  /\ \A n \in DOMAIN Key : Key[n] \notin {"direct", "block", "api", "egress-default"}
  /\ Catalogued \subseteq {Key[n] : n \in DOMAIN Key}

ASSUME NodeAssumption == EgressNode \cap {"none", "local"} = {}

ASSUME AddressAssumption ==
  \A n \in EgressNode : Address[n] \cap {"none", "local", "direct", "block", "api"} = {}

VARIABLES
  part,
  jobs, agent, faults, ops, call, worker, access, spec, runtime,
  group, member, exists,
  client, row, file, minted, retired, returned,
  role, template, link, fresh, resolved

Off == "off"

Groups == INSTANCE AccessGroups
  WITH Group <- <<"g1", "g2">>, Client <- {"c1"}, Instance <- {"i1", "i2"}, Node <- {"i1", "i2", "worker"},
       Initial <- {"i1"}, Created <- {"g1"}, Call <- {"k1"}, MaxOps <- 3, MaxJobs <- 4, MaxFaults <- 0

Retried == INSTANCE AccessGroups
  WITH Group <- <<"g1", "g2">>, Client <- {"c1"}, Instance <- {"i1", "i2"}, Node <- {"i1", "i2", "worker"},
       Initial <- {"i1"}, Created <- {"g1"}, Call <- {"k1"}, MaxOps <- 2, MaxJobs <- 4, MaxFaults <- 1

Peer == INSTANCE Provisioning
  WITH Client <- {"c1"}, Instance <- {"i1"}, Node <- {"i1", "worker"}, Driver <- [i \in {"i1"} |-> "wireguard"],
       MaxOps <- 3, MaxJobs <- 6, MaxFaults <- 0

Ports == INSTANCE Provisioning
  WITH Client <- {"c1", "c2"}, Instance <- {"i1"}, Node <- {"i1", "worker"}, Driver <- [i \in {"i1"} |-> "ports"],
       MaxOps <- 2, MaxJobs <- 4, MaxFaults <- 1

Xray == INSTANCE XrayRouting WITH Group <- Key, Client <- RoutedClient, MaxOps <- MaxEdits

-----------------------------------------------------------------------------
jobVars == <<jobs, agent, faults, call, worker, access, runtime>>
groupVars == <<group, member, exists>>
clientVars == <<client, row, file, minted, retired, returned>>
routeVars == <<role, template, link, fresh, resolved>>
vars == <<part, ops, spec, jobVars, groupVars, clientVars, routeVars>>

jobsOff ==
  /\ jobs = Off /\ agent = Off /\ faults = Off /\ call = Off
  /\ worker = Off /\ access = Off /\ runtime = Off
groupsOff == group = Off /\ member = Off /\ exists = Off
clientsOff == client = Off /\ row = Off /\ file = Off /\ minted = Off /\ retired = Off /\ returned = Off
routesOff == role = Off /\ template = Off /\ link = Off /\ fresh = Off /\ resolved = Off

Init ==
  /\ part \in Parts
  /\ \/ part = "groups" /\ Groups!Init /\ clientsOff /\ routesOff
     \/ part = "retried" /\ Retried!Init /\ clientsOff /\ routesOff
     \/ part = "peer" /\ Peer!Init /\ groupsOff /\ routesOff
     \/ part = "ports" /\ Ports!Init /\ groupsOff /\ routesOff
     \/ part = "xray" /\ Xray!Init /\ jobsOff /\ groupsOff /\ clientsOff

Next ==
  /\ UNCHANGED part
  /\ \/ part = "groups" /\ Groups!Next /\ UNCHANGED <<clientVars, routeVars>>
     \/ part = "retried" /\ Retried!Next /\ UNCHANGED <<clientVars, routeVars>>
     \/ part = "peer" /\ Peer!Next /\ UNCHANGED <<groupVars, routeVars>>
     \/ part = "ports" /\ Ports!Next /\ UNCHANGED <<groupVars, routeVars>>
     \/ part = "xray" /\ Xray!Next /\ UNCHANGED <<jobVars, groupVars, clientVars>>

Spec == Init /\ [][Next]_vars

-----------------------------------------------------------------------------
(***************************************************************************)
(* Every member of an active group is served on every instance the group   *)
(* covers once calls, worker and agents are at rest (materialization of    *)
(* the bindings, driver state, apply).                                     *)
(***************************************************************************)
MemberServed ==
  (part = "groups" => Groups!MemberServed) /\ (part = "retried" => Retried!MemberServed)

(***************************************************************************)
(* At rest an access that is meant to work does: the instance runs with    *)
(* the credential and address of the row, and so does the config the       *)
(* client was given (handleClientProvisionJobWithApply).                   *)
(***************************************************************************)
AccessWorks == (part = "peer" => Peer!AccessWorks) /\ (part = "ports" => Ports!AccessWorks)

(***************************************************************************)
(* A credential that a client had been handed when RotateServiceAccess was *)
(* called is not the one in use once the jobs are done.                    *)
(***************************************************************************)
RotationTakesEffect ==
  (part = "peer" => Peer!RotationTakesEffect) /\ (part = "ports" => Ports!RotationTakesEffect)

(***************************************************************************)
(* nextWireGuardClientAddress and nextAvailablePort give no two accesses   *)
(* of an instance one address, except one that comes back from revocation. *)
(***************************************************************************)
UniqueAddress == (part = "peer" => Peer!UniqueAddress) /\ (part = "ports" => Ports!UniqueAddress)

(***************************************************************************)
(* The config rendered from a resolved spec sends each client's traffic    *)
(* where its group's policy and the backhauls say, whatever edits came     *)
(* before (buildXrayServerConfig after one of the three resolvers).        *)
(***************************************************************************)
RoutedAsIntended == part = "xray" => Xray!RoutedAsIntended

(***************************************************************************)
(* A group that is to leave by another node is never rendered to leave by  *)
(* the ingress node itself, also when its backhaul is gone: a resolution   *)
(* that fails (ResolveXrayVLESSEgress) changes nothing.                    *)
(***************************************************************************)
RemoteNeverDirect == part = "xray" => Xray!RemoteNeverDirect
=============================================================================
