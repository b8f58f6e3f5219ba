----------------------------- MODULE MCBackhaul -----------------------------
(***************************************************************************)
(* One run for links of one profile, with a fault, and of two, one of      *)
(* which can be promoted, without.  "part" says which of them a behaviour  *)
(* is of.                                                                  *)
(***************************************************************************)
EXTENDS Sequences

CONSTANTS
  Parts,      \* the parts this run visits
  Links,      \* by part: the profiles of the link
  Faultless,  \* the parts without faults
  Activated,  \* the profiles with activation mode managed_systemd
  MaxOps, MaxJobs, MaxFaults

MCLinks == [p \in {"one", "two"} |-> IF p = "one" THEN <<"t1">> ELSE <<"t1", "t2">>]

\* A link has at least one profile, and an order of them.
ASSUME LinkAssumption ==
  \A p \in Parts : Links[p] \in Seq({Links[p][k] : k \in DOMAIN Links[p]}) \ {<<>>}

VARIABLES part, order, link, transport, call, refresh, astray, manifest, runtime, route, ops, jobs, agent, faults

Link == INSTANCE Backhaul
  WITH Node <- {"ingress", "egress"}, Setup <- {Links[p] : p \in Parts}, Managed <- Activated

vars == <<part, order, link, transport, call, refresh, astray, manifest, runtime, route, ops, jobs, agent, faults>>

Init ==
  /\ part \in Parts
  /\ Link!Init
  /\ order = Links[part]

Next ==
  /\ UNCHANGED part
  /\ Link!Next
  /\ part \in Faultless => UNCHANGED faults

Spec == Init /\ [][Next]_vars

-----------------------------------------------------------------------------
\* A link that has been deleted has left nothing on its nodes
\* (the cleanup batch and applyBackhaulCleanupJobResult).
DeletedIsClean == Link!DeletedIsClean

\* At rest, the ingress node routes by the transport the link has selected
\* (PromoteBackhaulTransport and the route refreshes).
RouteFollowsLink == Link!RouteFollowsLink
=============================================================================
