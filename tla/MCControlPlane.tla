--------------------------- MODULE MCControlPlane ---------------------------
(***************************************************************************)
(* One run for parts of the control plane that share no state: traffic     *)
(* accounting, runtime states, the emergency cleanup of a node and the     *)
(* installs of runtimes.  A behaviour belongs to the part "part" names; the *)
(* variables of the other parts stay Off.                                  *)
(***************************************************************************)
EXTENDS Integers, FiniteSets

CONSTANTS
  Parts,          \* the parts this run visits
  Node,
  Instance,       \* instances of a node, and of a service that is installed
  InUnit,         \* those a sweep finds by their unit, the others by their config
  Solo,           \* those that ask for packages; all ask for nginx
  OpenVPN,        \* the instance of runtime states, of which the handlers read more than of others
  MaxOps, MaxInstallOps, MaxJobs, MaxSweepJobs, MaxFaults, MaxRev, MaxEvents,
  Usage,          \* by part of traffic accounting: its streams with their kinds
  InstanceOf, MaxBytes, MaxClock, MaxSpan, Retention, PruneBudget, MaxGaps

\* A WireGuard peer on each of two instances, which makes two samples in one
\* request; and an Xray stream alone, for longer and with more faults.
MCUsage ==
  [p \in {"traffic", "stream"} |->
     IF p = "traffic" THEN [s \in {"s1", "s2"} |-> "wireguard"] ELSE [s \in {"s1"} |-> "xray"]]
MCInstanceOf == [s \in {"s1", "s2"} |-> IF s = "s1" THEN "i1" ELSE "i2"]

\* A node has finitely many streams, and budgets are numbers.
ASSUME UsageAssumption ==
  /\ \A p \in {"traffic", "stream"} : IsFiniteSet(DOMAIN Usage[p])
  /\ PruneBudget \in Nat /\ Retention \in Nat

VARIABLES
  part,
  jobs, agent, faults, ops, row,
  kinds, used, counter, base, last, clock, net, rows, access, instance, first, pruned, spoiled, doubted,
  inst, node, report, queued, raced, events,
  host, trouble, removal, agentRow, wiped,
  nginx, cap, call, artifact, ticket, present, policy, run, owed

Off == "off"

-----------------------------------------------------------------------------
Traffic == INSTANCE TrafficAccounting
  WITH Setup <- {Usage[p] : p \in {"traffic", "stream"}}, MaxFaults <- MaxGaps

Runtime == INSTANCE RuntimeStates

Cleanup == INSTANCE NodeCleanup WITH MaxJobs <- MaxSweepJobs

\* Two parts: instances of nginx, whose installs fall back, without crashes; and
\* of shadowsocks, which is installed from the repository or from packages.
Caps == INSTANCE Capabilities WITH MaxOps <- MaxInstallOps

-----------------------------------------------------------------------------
trafficVars == <<kinds, used, counter, base, last, clock, net, rows, access, instance, first, pruned, spoiled, doubted>>
queueVars == <<jobs, agent, ops>>
runtimeVars == <<node, report, queued, raced, events>>
cleanupVars == <<host, trouble, removal, agentRow, wiped>>
capabilityVars == <<nginx, cap, call, artifact, ticket, present, policy, run, owed>>
vars == <<part, faults, row, inst, trafficVars, queueVars, runtimeVars, cleanupVars, capabilityVars>>

trafficOff ==
  /\ kinds = Off /\ used = Off /\ counter = Off /\ base = Off /\ last = Off /\ clock = Off /\ net = Off /\ rows = Off
  /\ access = Off /\ instance = Off /\ first = Off /\ pruned = Off /\ spoiled = Off /\ doubted = Off
queueOff == jobs = Off /\ agent = Off /\ ops = Off
runtimeOff == node = Off /\ report = Off /\ queued = Off /\ raced = Off /\ events = Off
cleanupOff == host = Off /\ trouble = Off /\ removal = Off /\ agentRow = Off /\ wiped = Off
capabilityOff ==
  /\ nginx = Off /\ cap = Off /\ call = Off /\ artifact = Off /\ ticket = Off /\ present = Off
  /\ policy = Off /\ run = Off /\ owed = Off

Init ==
  /\ part \in Parts
  /\ \/ part \in {"traffic", "stream"} /\ Traffic!Init /\ kinds = Usage[part] /\ queueOff
     \/ part = "runtime" /\ Runtime!Init
     \/ part = "cleanup" /\ Cleanup!Init
     \/ part = "nginx" /\ Caps!Init /\ nginx
     \/ part = "packages" /\ Caps!Init /\ ~nginx
  /\ IF part \notin {"traffic", "stream"} THEN trafficOff ELSE TRUE
  /\ IF part # "runtime" THEN runtimeOff ELSE TRUE
  /\ IF part # "cleanup" THEN cleanupOff ELSE TRUE
  /\ IF part \notin {"nginx", "packages"} THEN capabilityOff ELSE TRUE
  /\ IF part \notin {"runtime", "cleanup"} THEN row = Off ELSE TRUE
  /\ IF part \notin {"runtime", "nginx", "packages"} THEN inst = Off ELSE TRUE

Next ==
  /\ UNCHANGED part
  /\ \/ part = "traffic" /\ Traffic!Next /\ UNCHANGED queueVars /\ clock' < MaxClock /\ faults' < MaxGaps
     \/ part = "stream" /\ Traffic!Next /\ UNCHANGED queueVars
     \/ part = "runtime" /\ Runtime!Next
     \/ part = "cleanup" /\ Cleanup!Next
     \/ part = "nginx" /\ Caps!Next /\ faults' = 0
     \/ part = "packages" /\ Caps!Next /\ \A i \in Instance \ Solo : inst'[i] = inst[i] /\ call'[i] = call[i]
  /\ IF part \notin {"traffic", "stream"} THEN UNCHANGED trafficVars ELSE TRUE
  /\ IF part # "runtime" THEN UNCHANGED runtimeVars ELSE TRUE
  /\ IF part # "cleanup" THEN UNCHANGED cleanupVars ELSE TRUE
  /\ IF part \notin {"nginx", "packages"} THEN UNCHANGED capabilityVars ELSE TRUE
  /\ IF part \notin {"runtime", "cleanup"} THEN UNCHANGED row ELSE TRUE
  /\ IF part \notin {"runtime", "nginx", "packages"} THEN UNCHANGED inst ELSE TRUE

Spec == Init /\ [][Next]_vars

-----------------------------------------------------------------------------
\* The control plane never counts more bytes of a client than it has used,
\* whatever is reported twice, lost or reset (traffic_accounting.go).
NoOvercount == part \in {"traffic", "stream"} => Traffic!NoOvercount

\* Usage the agent has counted as delivered is in the rows, unless retention
\* or a known gap took it (traffic_accounting.go of the agent and the store).
NothingLost == part \in {"traffic", "stream"} => Traffic!NothingLost

\* A collector shown active has delivered a sample of every active instance
\* within the window (trafficAccountingCollectorStatus).
ActiveMeansObserved == part \in {"traffic", "stream"} => Traffic!ActiveMeansObserved

\* A report that is sent again counts once (the sample's idempotency key).
ResendIsIdempotent == part = "stream" => Traffic!ResendIsIdempotent

\* A runtime shown healthy was serving, and one shown in sync ran the current
\* revision (healthStatusFromAgentReport, driftStatusFromAgentReport).
VerdictHolds == part = "runtime" => Runtime!VerdictHolds

\* A deleted instance keeps no runtime state once the reports under way have
\* ended (deleteOrphanInstanceRuntimeRows).
DeletedHasNoState == part = "runtime" => Runtime!DeletedHasNoState

\* A cleanup of services leaves the node's transit alone, and the agent removes
\* itself only from a node its sweep has emptied (isEmergencyManagedUnitForScope,
\* emergencyCleanupNode).
SweepLeavesWhatStays == part = "cleanup" => Cleanup!SweepLeavesWhatStays

\* What runs on a node after a cleanup is known to the control plane
\* (applyNodeEmergencyCleanupResult).
NoOrphanRuntime == part = "cleanup" => Cleanup!NoOrphanRuntime

\* An apply that waits for an install is answered
\* (mergeCapabilityInstallJobDependents, queueApplyJobsForCapabilityDependents).
RequestsAnswered == part \in {"nginx", "packages"} => Caps!RequestsAnswered

\* A runtime the installer calls available is on the node (installCapability).
InstalledIsPresent == part \in {"nginx", "packages"} => Caps!InstalledIsPresent

\* An install leaves the node's package policy as it was
\* (preventPackageServiceAutostart).
GuardRestored == part \in {"nginx", "packages"} => Caps!GuardRestored
=============================================================================
