-------------------------- MODULE NodePolicyProofs --------------------------
(***************************************************************************)
(* Proofs about what is rolled out to a node, for every number of nodes,   *)
(* policies, profiles, calls, jobs and faults: the deployments of          *)
(* ExternalEgress (the module Egress below) and the table of Firewall.     *)
(*                                                                         *)
(* EgressInv holds what the triggers of the database compare.  EgressNode  *)
(* and what it rests on follow a deployment's last job: while it is under  *)
(* way the row says neither active nor inactive, and what it did on the    *)
(* node no later job undoes.  FireInv follows a payload from the call that *)
(* copies it to the table it is loaded into.  FireAgree relates the order  *)
(* of the jobs to what the row and the table say: a job is taken once all  *)
(* older ones are over, so the table is the work of the youngest job       *)
(* taken, and the row the report of the youngest rollout unless an older   *)
(* result came in late.                                                    *)
(***************************************************************************)
EXTENDS MCNodePolicy, Naturals, Sequences, SequenceTheorems, FiniteSetTheorems, TLAPS

-----------------------------------------------------------------------------
(* The parts of MCNodePolicy: a behaviour stays in the part it begins in. *)

\* The first state of the part "egress" is one of ExternalEgress.
LEMMA EgressBegins == Init /\ part = "egress" => Egress!Init
  BY DEF Init

\* A step of the part "egress" is a step of ExternalEgress or leaves it alone,
\* and no step leads from one part to another.
LEMMA EgressGoesOn ==
  [Next]_vars => part' = part /\ (part = "egress" => [Egress!Next]_Egress!vars)
  BY DEF Next, vars, queueVars, egressVars, Egress!vars, Egress!dbVars

\* The first state of the part "firewall" is one of Firewall.
LEMMA FireBegins == Init /\ part = "firewall" => Fire!Init
  BY DEF Init

\* A step of the part "firewall" is a step of Firewall or leaves it alone.
LEMMA FireGoesOn ==
  [Next]_vars => part' = part /\ (part = "firewall" => [Fire!Next]_Fire!vars)
  BY DEF Next, vars, queueVars, fireVars, Fire!vars

-----------------------------------------------------------------------------
EgressRows ==
  /\ DOMAIN profile = Profile
  /\ DOMAIN dep = Profile
  /\ \A p \in Profile : /\ DOMAIN profile[p] = {"status", "cfg", "group"}
                        /\ DOMAIN dep[p] = {"desired", "status", "table", "job"}

\* The call in progress names one of the profiles.
EgressCalls ==
  /\ DOMAIN call = Call
  /\ \A c \in Call : call[c].op \in {"update", "deploy"} => call[c].p \in Profile

EgressInv == EgressRows /\ EgressCalls /\ Egress!DeploymentsAdmissible

\* No deployment exists at first.
LEMMA EgressInitially == Egress!Init => EgressInv
<1> SUFFICES ASSUME Egress!Init PROVE EgressInv  OBVIOUS
<1>1. \A p \in Profile : /\ DOMAIN profile[p] = {"status", "cfg", "group"}
                         /\ profile[p].group = FALSE
  BY DEF Egress!Init, Egress!NoProfile
<1>2. EgressRows
  BY <1>1 DEF Egress!Init, Egress!NoDep, EgressRows
<1>3. EgressCalls
  BY DEF Egress!Init, Egress!Idle, EgressCalls
<1>4. Egress!DeploymentsAdmissible
  BY <1>1 DEF Egress!Init, Egress!NoDep, Egress!DeploymentsAdmissible, Egress!NeededProfileActive, Egress!OneL2TPRuntime
<1> QED  BY <1>2, <1>3, <1>4 DEF EgressInv

\* A deployment row that passes the two triggers keeps the rows admissible.
LEMMA EgressWrites ==
  ASSUME EgressInv, NEW p, NEW d, Egress!WriteDeployment(p, d), UNCHANGED <<profile, server>>,
         p \in Profile => DOMAIN d = {"desired", "status", "table", "job"}
  PROVE  EgressRows' /\ Egress!DeploymentsAdmissible'
  BY DEF EgressInv, EgressRows, Egress!WriteDeployment, Egress!Live, Egress!L2TP,
         Egress!megavpn_validate_external_egress_reference, Egress!megavpn_guard_l2tp_runtime_exclusivity,
         Egress!DeploymentsAdmissible, Egress!NeededProfileActive, Egress!OneL2TPRuntime

\* The calls of a step that starts none: they are unchanged, or one has ended.
CallsOnlyEnd == call' = call \/ \E c \in Call : call' = [call EXCEPT ![c] = Egress!Idle]

\* A call that ends leaves the others what they are.
LEMMA CallsEnd ==
  ASSUME EgressCalls, CallsOnlyEnd  PROVE  EgressCalls'
  BY DEF EgressCalls, CallsOnlyEnd, Egress!Idle

\* The calls of one statement on a profile, its group or its deployment.
LEMMA EgressProfiles ==
  ASSUME EgressInv, NEW p \in Profile,
         \/ \E s \in {"draft", "active"}, g \in {0, 1} : Egress!CreateExternalEgressProfile(p, s, g)
         \/ Egress!DeleteExternalEgressProfile(p)
         \/ Egress!AssignGroup(p)
         \/ Egress!DeleteExternalEgressDeployment(p)
  PROVE  EgressInv'
<1> USE DEF EgressInv, EgressRows, Egress!Live, Egress!L2TP, Egress!DeploymentsAdmissible,
            Egress!NeededProfileActive, Egress!OneL2TPRuntime
<1>1. ASSUME NEW s \in {"draft", "active"}, NEW g \in {0, 1}, Egress!CreateExternalEgressProfile(p, s, g)
      PROVE  EgressInv'
  <2>1. EgressCalls'
    BY <1>1, CallsEnd DEF CallsOnlyEnd, Egress!CreateExternalEgressProfile
  <2> QED  BY <1>1, <2>1 DEF Egress!CreateExternalEgressProfile
<1>2. CASE Egress!DeleteExternalEgressProfile(p)
  <2>1. EgressCalls'
    BY <1>2, CallsEnd DEF CallsOnlyEnd, Egress!DeleteExternalEgressProfile
  <2> QED  BY <1>2, <2>1 DEF Egress!DeleteExternalEgressProfile
<1>3. CASE Egress!AssignGroup(p)
  <2>1. EgressCalls'
    BY <1>3, CallsEnd DEF CallsOnlyEnd, Egress!AssignGroup
  <2> QED  BY <1>3, <2>1 DEF Egress!AssignGroup
<1>4. CASE Egress!DeleteExternalEgressDeployment(p)
  <2>1. EgressCalls'
    BY <1>4, CallsEnd DEF CallsOnlyEnd, Egress!DeleteExternalEgressDeployment
  <2> QED  BY <1>4, <2>1 DEF Egress!DeleteExternalEgressDeployment
<1> QED  BY <1>1, <1>2, <1>3, <1>4

\* UpdateExternalEgressProfile, whose check and write are apart.
LEMMA EgressUpdates ==
  ASSUME EgressInv, NEW c \in Call, NEW s \in {"keep", "active", "disabled"}, NEW b \in BOOLEAN,
         Egress!UpdateExternalEgressProfile(c, s, b)
  PROVE  EgressInv'
<1> USE DEF EgressInv, EgressRows, Egress!Live, Egress!L2TP, Egress!DeploymentsAdmissible,
            Egress!NeededProfileActive, Egress!OneL2TPRuntime
<1>1. EgressCalls'
  BY CallsEnd DEF CallsOnlyEnd, Egress!UpdateExternalEgressProfile
<1> DEFINE p0 == call[c].p
           s0 == IF s = "keep" THEN call[c].seen ELSE s
<1>2. p0 \in Profile
  BY DEF EgressCalls, Egress!UpdateExternalEgressProfile
<1>3. /\ DOMAIN profile' = Profile
      /\ \A q \in Profile : DOMAIN profile'[q] = {"status", "cfg", "group"} /\ profile'[q].group = profile[q].group
      /\ \A q \in Profile \ {p0} : profile'[q].status = profile[q].status
      /\ profile'[p0].status = IF profile[p0].status # "deleted" THEN s0 ELSE profile[p0].status
  <2> DEFINE st == IF profile[p0].status # "deleted" THEN s0 ELSE profile[p0].status
             g == IF b THEN profile[p0].cfg + 1 ELSE profile[p0].cfg
  <2>1. profile' = [profile EXCEPT ![p0].cfg = g, ![p0].status = st]
    BY Zenon DEF Egress!UpdateExternalEgressProfile
  <2> HIDE DEF g, st, p0, s0
  <2>2. PICK x, y, z : /\ profile' = [profile EXCEPT ![x].cfg = y, ![x].status = z]
                     /\ x \in Profile /\ x = p0 /\ z = st
    BY <1>2, <2>1, Zenon
  <2>3. /\ DOMAIN profile' = Profile
        /\ \A q \in Profile : DOMAIN profile'[q] = {"status", "cfg", "group"} /\ profile'[q].group = profile[q].group
        /\ \A q \in Profile \ {x} : profile'[q].status = profile[q].status
        /\ profile'[x].status = z
    BY <2>2
  <2> QED  BY <2>2, <2>3 DEF st
<1>4. /\ DOMAIN dep' = Profile
      /\ \A q \in Profile : /\ DOMAIN dep'[q] = {"desired", "status", "table", "job"}
                             /\ dep'[q].desired = dep[q].desired
                             /\ \/ dep'[q].status = dep[q].status
                                \/ dep'[q].status = "pending" /\ dep[q].desired = "active" /\ Egress!Live(dep[q])
  <2>1. \/ dep' = dep
        \/ dep' = [dep EXCEPT ![p0].status = "pending"] /\ dep[p0].desired = "active" /\ Egress!Live(dep[p0])
    BY Zenon DEF Egress!UpdateExternalEgressProfile
  <2> QED  BY <2>1, <1>2
<1>5. profile[p0].status # "deleted" /\ s0 # profile[p0].status /\ s0 # "active"
        => ~profile[p0].group /\ ~Egress!Live(dep[p0])
  BY DEF Egress!UpdateExternalEgressProfile, Egress!megavpn_guard_external_egress_profile_lifecycle
<1>6. server' = server
  BY DEF Egress!UpdateExternalEgressProfile
<1> HIDE DEF p0, s0
<1> QED  BY <1>1, <1>2, <1>3, <1>4, <1>5, <1>6 DEF p0

\* The rows a job's step writes: the deployment's, through the triggers, or none.
LEMMA EgressDeployments ==
  ASSUME EgressInv, NEW p, NEW d, Egress!WriteDeployment(p, d), UNCHANGED <<profile, server>>, CallsOnlyEnd,
         p \in Profile => DOMAIN d = {"desired", "status", "table", "job"}
  PROVE  EgressInv'
<1>1. EgressRows' /\ Egress!DeploymentsAdmissible'
  BY EgressWrites
<1>2. EgressCalls'
  BY CallsEnd DEF EgressInv
<1> QED  BY <1>1, <1>2 DEF EgressInv

\* The agent and the queue write no row the property reads.
LEMMA EgressUntouched ==
  ASSUME EgressInv, UNCHANGED <<profile, dep, server>>, CallsOnlyEnd  PROVE  EgressInv'
<1>1. EgressCalls'
  BY CallsEnd DEF EgressInv
<1> QED
  BY <1>1 DEF EgressInv, EgressRows, Egress!DeploymentsAdmissible, Egress!NeededProfileActive,
              Egress!OneL2TPRuntime, Egress!Live, Egress!L2TP

\* Every step keeps the invariant.
LEMMA EgressStep == EgressInv /\ [Egress!Next]_(Egress!vars) => EgressInv'
<1> SUFFICES ASSUME EgressInv, [Egress!Next]_(Egress!vars)  PROVE EgressInv'
  OBVIOUS
<1>1. ASSUME NEW p \in Profile,
             \/ \E s \in {"draft", "active"}, g \in {0, 1} : Egress!CreateExternalEgressProfile(p, s, g)
             \/ Egress!DeleteExternalEgressProfile(p)
             \/ Egress!AssignGroup(p)
             \/ Egress!DeleteExternalEgressDeployment(p)
      PROVE  EgressInv'
  BY <1>1, EgressProfiles
<1>2. ASSUME NEW c \in Call, NEW s \in {"keep", "active", "disabled"}, NEW b \in BOOLEAN,
             Egress!UpdateExternalEgressProfile(c, s, b)
      PROVE  EgressInv'
  BY <1>2, EgressUpdates
<1>3. ASSUME NEW p \in Profile, NEW t \in {"apply", "probe", "cleanup"}, Egress!createExternalEgressJob(p, t)
      PROVE  EgressInv'
  <2> DEFINE d == [dep[p] EXCEPT !.desired = Egress!Desired(p, t), !.status = "queued", !.job = Egress!NextId]
  <2>1. Egress!WriteDeployment(p, d) /\ UNCHANGED <<profile, server>> /\ CallsOnlyEnd
    BY <1>3 DEF Egress!createExternalEgressJob, CallsOnlyEnd
  <2>2. DOMAIN d = {"desired", "status", "table", "job"}
    BY DEF EgressInv, EgressRows
  <2>3. PICK e : e = d
    OBVIOUS
  <2> HIDE DEF d
  <2> QED  BY <2>1, <2>2, <2>3, EgressDeployments
<1>4. ASSUME NEW c \in Call, NEW t \in Table, Egress!CreateExternalEgressDeployment(c, t)
      PROVE  EgressInv'
  <2>1. PICK p : p = call[c].p
    OBVIOUS
  <2> DEFINE d == [dep[p] EXCEPT !.desired = "active", !.status = "pending", !.table = t]
  <2>2. Egress!WriteDeployment(p, d) /\ UNCHANGED <<profile, server>> /\ CallsOnlyEnd
    BY <1>4, <2>1 DEF Egress!CreateExternalEgressDeployment, CallsOnlyEnd
  <2>3. p \in Profile => DOMAIN d = {"desired", "status", "table", "job"}
    BY DEF EgressInv, EgressRows
  <2>4. PICK e : e = d
    OBVIOUS
  <2> HIDE DEF d
  <2> QED  BY <2>2, <2>3, <2>4, EgressDeployments
<1>5. ASSUME NEW j \in Egress!Job, Egress!ApplyExternalEgressJobResult(j)
      PROVE  EgressInv'
  <2>1. PICK p : p = jobs[j].scope
    OBVIOUS
  <2> DEFINE d == [dep[p] EXCEPT !.status = Egress!Outcome(j)]
  <2>2. /\ Egress!WriteDeployment(p, d) \/ UNCHANGED dep
        /\ UNCHANGED <<profile, server>> /\ CallsOnlyEnd
    BY <1>5, <2>1 DEF Egress!ApplyExternalEgressJobResult, CallsOnlyEnd, Egress!dbVars
  <2>3. p \in Profile => DOMAIN d = {"desired", "status", "table", "job"}
    BY DEF EgressInv, EgressRows
  <2>4. PICK e : e = d
    OBVIOUS
  <2> HIDE DEF d
  <2> QED  BY <2>2, <2>3, <2>4, EgressDeployments, EgressUntouched
<1>6. CASE Egress!ToggleServer
  <2>1. EgressCalls'
    BY <1>6, CallsEnd DEF EgressInv, CallsOnlyEnd, Egress!ToggleServer
  <2> QED
    BY <1>6, <2>1 DEF Egress!ToggleServer, Egress!ensureXL2TPDServerNodeAvailable, EgressInv, EgressRows,
       Egress!Live, Egress!L2TP, Egress!DeploymentsAdmissible, Egress!NeededProfileActive, Egress!OneL2TPRuntime
<1>7. ASSUME NEW c \in Call, NEW o \in {"update", "deploy"}, NEW p \in Profile, Egress!ReadProfile(c, o, p)
      PROVE  EgressInv'
  <2>1. EgressCalls'
    BY <1>7 DEF EgressInv, EgressCalls, Egress!ReadProfile
  <2> QED
    BY <1>7, <2>1 DEF Egress!ReadProfile, Egress!dbVars, EgressInv, EgressRows, Egress!Live, Egress!L2TP,
       Egress!DeploymentsAdmissible, Egress!NeededProfileActive, Egress!OneL2TPRuntime
<1>8. CASE UNCHANGED <<profile, dep, server>> /\ CallsOnlyEnd
  BY <1>8, EgressUntouched
<1>9. ASSUME \/ \E p \in Profile : Egress!ProviderLoss(p)
             \/ \E c \in Call : Egress!Refuse(c)
             \/ \E j \in Egress!Job, n \in Node : Egress!AgentNextJob(n, j)
             \/ \E n \in Node : Egress!AgentCommand(n) \/ Egress!CommandFails(n)
             \/ Egress!QueueStep
             \/ UNCHANGED Egress!vars
      PROVE  UNCHANGED <<profile, dep, server>> /\ CallsOnlyEnd
  BY <1>9 DEF CallsOnlyEnd, Egress!ProviderLoss, Egress!Refuse, Egress!AgentNextJob, Egress!AgentCommand,
              Egress!CommandFails, Egress!QueueStep, Egress!vars, Egress!dbVars
<1> QED  BY <1>1, <1>2, <1>3, <1>4, <1>5, <1>6, <1>7, <1>8, <1>9 DEF Egress!Next

\* Whatever API calls overlap, and whenever the results of jobs come in, a
\* profile that a group or a live deployment needs is active and a node has one
\* L2TP user (the triggers of migrations 000024 and 000025).
THEOREM EgressAdmissible ==
  /\ Egress!Spec => []Egress!DeploymentsAdmissible
  /\ Spec => []DeploymentsAdmissible
<1> DEFINE Here == part = "egress" => EgressInv
<1>1. EgressInv => Egress!DeploymentsAdmissible
  BY DEF EgressInv
<1>2. Egress!Spec => []Egress!DeploymentsAdmissible
  BY EgressInitially, EgressStep, <1>1, PTL DEF Egress!Spec
<1>3. Init => Here
  BY EgressInitially, EgressBegins
<1>4. Here /\ [Next]_vars => Here'
  BY EgressStep, EgressGoesOn
<1>5. Here => DeploymentsAdmissible
  BY <1>1 DEF DeploymentsAdmissible
<1>6. Spec => []DeploymentsAdmissible
  BY <1>3, <1>4, <1>5, PTL DEF Spec
<1> QED  BY <1>2, <1>6

-----------------------------------------------------------------------------
(* The deployments of the part "egress" and what they leave on their node. *)

EgressGuard == {"flush", "unreachable", "ruledel", "ruleadd"}
EgressTables == Table \cup {0}
EgressTypes == {"apply", "probe", "cleanup"}

EgressCmd ==
  [name : EgressGuard \cup {"check", "stop", "evict", "write", "start", "probe", "policy", "remove", "end"},
   p : Profile, t : EgressTables, cfg : Nat, onFail : {"abort", "warn", "skip"}]

EgressJob ==
  [type : EgressTypes, node : {Egress!TheNode}, scope : Profile, payload : EgressTypes, priority : {100},
   status : {"queued", "running", "succeeded", "failed", "cancelled"},
   effect : {"none", "pending", "applied", "lost", "failed"}]

EgressAgent ==
  [job : Nat, todo : Seq(EgressCmd), warned : BOOLEAN, result : {"none", "succeeded", "failed", "sent"}]

EgressDep ==
  [desired : {"none", "active", "inactive", "deleted"},
   status : {"absent", "pending", "queued", "active", "inactive", "failed", "deleted"},
   table : EgressTables, job : Nat]

EgressRun == [unit : {"absent", "stopped", "up"}, cfg : Nat, script : EgressTables]

EgressType ==
  /\ \A p \in Profile : profile[p].cfg \in Nat
  /\ jobs \in Seq(EgressJob)
  /\ agent \in [Node -> EgressAgent]
  /\ dep \in [Profile -> EgressDep]
  /\ run \in [Profile -> EgressRun]
  /\ rules \subseteq Profile \X Table
  /\ moved \in [Profile -> SUBSET Table]

\* The last job the deployment of p was given.
HasJob(p) == dep[p].job # 0
LastJob(p) == jobs[dep[p].job]
NotStarted(i) == jobs[i].status \in {"queued", "cancelled"}

\* What a cleanup, an apply or a probe that succeeded says of the node.
RulesGone(p) == (\E t \in Table : <<p, t>> \in rules) => moved[p] # {}
HasDone(p, type) ==
  IF type = "cleanup" THEN run[p].unit = "absent" /\ RulesGone(p) ELSE run[p].unit # "absent"

\* A job has side effects once it is terminal, and its result is applied once.
EgressEffects ==
  \A j \in DOMAIN jobs : jobs[j].effect = "none" <=> jobs[j].status \notin {"succeeded", "failed"}

\* What a deployment's row says of its last job.
EgressLast ==
  \A p \in Profile :
    /\ dep[p].table = 0 => dep[p].status = "absent" /\ \A j \in DOMAIN jobs : jobs[j].scope # p
    /\ dep[p].job \in 0..Len(jobs)
    /\ HasJob(p) => LastJob(p).scope = p
    /\ HasJob(p) /\ LastJob(p).type # "cleanup"
         => dep[p].desired = "active" /\ dep[p].status \in {"queued", "pending", "active", "failed"}
    /\ dep[p].status \in {"absent", "deleted"} => ~HasJob(p)
    /\ dep[p].status \in {"active", "inactive"} =>
         /\ HasJob(p) /\ LastJob(p).status = "succeeded" /\ LastJob(p).effect = "applied"
         /\ LastJob(p).type = "cleanup" <=> dep[p].status = "inactive"

\* A job that is not over is its deployment's last one, or a copy of it.
EgressPending ==
  \A j \in DOMAIN jobs :
    Egress!Unfinished(j) => /\ HasJob(jobs[j].scope) /\ LastJob(jobs[j].scope).type = jobs[j].type
                            /\ dep[jobs[j].scope].job = j \/ LastJob(jobs[j].scope).status = "cancelled"

\* A deployment that kept its table has rules and a script of no other.
EgressOneTable ==
  \A p \in Profile :
    /\ moved[p] = {} => /\ \A t \in Table : <<p, t>> \in rules => t = dep[p].table
                        /\ run[p].script \in {0, dep[p].table}
    /\ \A t \in Table : <<p, t>> \in rules => Egress!PolicyRouted(p)

\* The agent works for the last job of a deployment, or for one so old that the
\* last one waits for it; an L2TP apply keeps other L2TP deployments waiting.
AgentAlone(n, j, p) ==
  /\ n = Egress!TheNode
  /\ j \in DOMAIN jobs
  /\ IF agent[n].result = "sent" THEN jobs[j].effect = "pending" ELSE jobs[j].effect = "none"
  /\ HasJob(p) /\ dep[p].job # j => NotStarted(dep[p].job)
  /\ jobs[j].type = "apply" /\ Egress!L2TP(p) =>
       \A q \in Profile \ {p} :
         Egress!L2TP(q) /\ HasJob(q) /\ LastJob(q).type # "cleanup" => NotStarted(dep[q].job)

EgressAgents ==
  \A n \in Node : IF agent[n].job = 0 THEN agent[n].result = "none"
                                      ELSE AgentAlone(n, agent[n].job, jobs[agent[n].job].scope)

\* A command of a job of the given type of p.
CommandOf(k, p, type) ==
  IF type = "cleanup" THEN k.p = p
  ELSE /\ k.name \notin {"policy", "remove", "end"}
       /\ k.name = "probe" => k.onFail = "abort"
       /\ k.name = "evict" => type = "apply" /\ Egress!L2TP(p) /\ Egress!L2TP(k.p) /\ k.p # p
       /\ k.name # "evict" => k.p = p

CommandTable(k, p) ==
  /\ k.name = "ruleadd" => k.t # 0 /\ Egress!PolicyRouted(p)
  /\ k.name \in {"ruleadd", "policy", "write"} /\ moved[p] = {} => k.t = dep[p].table

\* The order in which a cleanup goes about it; the other handlers end in a probe.
CleanupOrder(k, m, L) ==
  /\ m = L => k.name = "end"
  /\ m = L - 1 => k.name = "remove"
  /\ m = L - 2 => k.name = "policy"
  /\ m = L - 3 => k.name = "stop"
  /\ m < L - 3 => k.name \in EgressGuard
  /\ m > L - 3 => k.onFail = "warn"

TodoShape(s, type) ==
  /\ Len(s) > 0
  /\ type # "cleanup" => s[Len(s)].name = "probe"
  /\ type = "cleanup" => \A m \in 1..Len(s) : CleanupOrder(s[m], m, Len(s))

\* What is left to do, and what that says of the node already.
Progress(n, p, type) ==
  /\ agent[n].result = "none" =>
       /\ \A m \in 1..Len(agent[n].todo) :
            CommandOf(agent[n].todo[m], p, type) /\ CommandTable(agent[n].todo[m], p)
       /\ TodoShape(agent[n].todo, type)
       /\ type = "cleanup" /\ ~agent[n].warned => /\ Len(agent[n].todo) <= 2 => RulesGone(p)
                                                  /\ Len(agent[n].todo) = 1 => run[p].unit = "absent"
  /\ agent[n].result = "succeeded" => HasDone(p, type)

EgressHandlers ==
  \A n \in Node : agent[n].job # 0 => Progress(n, jobs[agent[n].job].scope, jobs[agent[n].job].type)

\* What the last job has reported is still so.
EgressReports ==
  \A p \in Profile : HasJob(p) /\ LastJob(p).status = "succeeded" => HasDone(p, LastJob(p).type)

EgressNode ==
  /\ EgressType /\ EgressEffects /\ EgressLast /\ EgressPending
  /\ EgressOneTable /\ EgressAgents /\ EgressHandlers /\ EgressReports

-----------------------------------------------------------------------------
\* No profile has been deployed at first.
LEMMA EgressNodeInitially == Egress!Init => EgressNode
<1> SUFFICES ASSUME Egress!Init PROVE EgressNode  OBVIOUS
<1> USE DEF Egress!Init, Egress!JobsInit
<1>1. jobs = <<>> /\ Len(jobs) = 0 /\ DOMAIN jobs = {}
  OBVIOUS
<1>2. \A n \in Node : agent[n].job = 0 /\ agent[n].result = "none"
  BY DEF Egress!AgentIdle, Egress!NoJob
<1>3. \A p \in Profile : /\ dep[p] = Egress!NoDep /\ dep[p].job = 0 /\ dep[p].status = "absent"
                         /\ run[p].script = 0
  BY DEF Egress!NoDep, Egress!NoJob, Egress!NotInstalled, Egress!NoTable
<1>4. EgressType
  <2>1. \A p \in Profile : profile[p].cfg \in Nat
    BY DEF Egress!NoProfile
  <2>2. Egress!AgentIdle \in EgressAgent
    BY DEF Egress!AgentIdle, EgressAgent, Egress!NoJob
  <2>3. Egress!NoDep \in EgressDep /\ Egress!NotInstalled \in EgressRun
    BY DEF Egress!NoDep, EgressDep, Egress!NoJob, Egress!NotInstalled, EgressRun, Egress!NoTable, EgressTables
  <2> QED  BY <1>1, <2>1, <2>2, <2>3 DEF EgressType
<1>5. EgressEffects /\ EgressPending
  BY <1>1 DEF EgressEffects, EgressPending
<1>6. EgressLast
  BY <1>1, <1>3 DEF EgressLast, HasJob
<1>7. EgressOneTable /\ EgressReports
  BY <1>3 DEF EgressOneTable, EgressReports, HasJob
<1>8. EgressAgents /\ EgressHandlers
  BY <1>2 DEF EgressAgents, EgressHandlers
<1> QED  BY <1>4, <1>5, <1>6, <1>7, <1>8 DEF EgressNode

\* The rows of the queue have the fields of a job.
LEMMA EgressJobsTyped ==
  ASSUME EgressType
  PROVE  /\ Len(jobs) \in Nat /\ DOMAIN jobs = 1..Len(jobs)
         /\ \A j \in DOMAIN jobs : /\ jobs[j] \in EgressJob
                                   /\ jobs[j].scope \in Profile /\ jobs[j].type \in EgressTypes
                                   /\ jobs[j].node = Egress!TheNode /\ jobs[j].priority = 100
<1>1. Len(jobs) \in Nat /\ DOMAIN jobs = 1..Len(jobs) /\ \A j \in DOMAIN jobs : jobs[j] \in EgressJob
  BY DEF EgressType
<1>2. \A r \in EgressJob : /\ r.scope \in Profile /\ r.type \in EgressTypes
                           /\ r.node = Egress!TheNode /\ r.priority = 100
  BY DEF EgressJob
<1> QED  BY <1>1, <1>2

\* The job an agent works for is one of them.
LEMMA EgressAgentJobs ==
  ASSUME EgressNode, NEW n \in Node, agent[n].job # 0
  PROVE  /\ n = Egress!TheNode /\ agent[n].job \in DOMAIN jobs
         /\ jobs[agent[n].job].scope \in Profile /\ jobs[agent[n].job].type \in EgressTypes
         /\ dep[jobs[agent[n].job].scope].table # 0
<1>1. n = Egress!TheNode /\ agent[n].job \in DOMAIN jobs
  BY DEF EgressNode, EgressAgents, AgentAlone
<1>2. jobs[agent[n].job].scope \in Profile /\ jobs[agent[n].job].type \in EgressTypes
  BY <1>1, EgressJobsTyped DEF EgressNode
<1> QED  BY <1>1, <1>2 DEF EgressNode, EgressLast

\* A call that ends a deployment's life, marks it for another apply or gives it
\* a table, and what it leaves of the row.
EgressRewrites(p) ==
  /\ dep'[p] \in EgressDep
  /\ moved'[p] \in SUBSET Table /\ moved[p] \subseteq moved'[p]
  /\ dep'[p].table # dep[p].table => dep'[p].table # 0 /\ (dep[p].table = 0 \/ moved'[p] # {})
  /\ \/ dep'[p].desired = dep[p].desired /\ dep'[p].status = dep[p].status /\ dep'[p].job = dep[p].job
     \/ /\ dep'[p].desired = "active" /\ dep'[p].status = "pending" /\ dep'[p].job = dep[p].job
        /\ dep'[p].table # 0
     \/ /\ dep'[p].status = "deleted" /\ dep'[p].job = 0 /\ dep'[p].table = dep[p].table
        /\ dep[p].status \in {"inactive", "deleted"}

\* Such a call keeps what is known of the jobs, the agent and the node.
LEMMA EgressRewritten ==
  ASSUME EgressNode, UNCHANGED <<jobs, agent, run, rules>>,
         DOMAIN dep' = Profile, dep' \in [Profile -> EgressDep], moved' \in [Profile -> SUBSET Table],
         \A p \in Profile : profile'[p].cfg \in Nat, \A p \in Profile : EgressRewrites(p)
  PROVE  EgressNode'
<1> USE DEF EgressNode, EgressRewrites
<1>1. EgressType'
  BY DEF EgressType
<1>2. EgressEffects'
  BY DEF EgressEffects
<1>3. \A p \in Profile : dep'[p].job # dep[p].job => dep'[p].job = 0 /\ LastJob(p).status = "succeeded"
  BY DEF EgressLast, HasJob
<1>4. EgressLast'
  <2> SUFFICES ASSUME NEW p \in Profile PROVE EgressLast!(p)'
    BY DEF EgressLast
  <2>1. EgressLast!(p) /\ EgressRewrites(p)
    BY DEF EgressLast
  <2>2. dep'[p].job \in 0..Len(jobs)
    BY <2>1, <1>3, EgressJobsTyped
  <2>3. dep'[p].table = 0 => dep[p].table = 0
    BY <2>1
  <2>4. dep'[p].table = 0 => dep'[p].status = "absent"
    BY <2>1, <2>3
  <2> QED  BY <2>1, <2>2, <2>3, <2>4, <1>3 DEF HasJob, LastJob
<1>5. EgressPending'
  BY <1>3, EgressJobsTyped DEF EgressPending, HasJob, LastJob, Egress!Unfinished
<1>6. EgressReports'
  BY DEF EgressReports, HasJob, LastJob, HasDone, RulesGone
<1>7. EgressOneTable'
  BY TableAssumption DEF EgressOneTable, EgressType
<1>8. EgressAgents'
  <2> SUFFICES ASSUME NEW n \in Node, agent[n].job # 0
               PROVE  AgentAlone(n, agent[n].job, jobs[agent[n].job].scope)'
    BY DEF EgressAgents
  <2>1. AgentAlone(n, agent[n].job, jobs[agent[n].job].scope)
    BY DEF EgressAgents
  <2>2. jobs[agent[n].job].scope \in Profile
    BY EgressAgentJobs
  <2> QED  BY <2>1, <2>2 DEF AgentAlone, HasJob, LastJob, NotStarted
<1>9. EgressHandlers'
  <2> SUFFICES ASSUME NEW n \in Node, agent[n].job # 0
               PROVE  Progress(n, jobs[agent[n].job].scope, jobs[agent[n].job].type)'
    BY DEF EgressHandlers
  <2>1. PICK p, type : p = jobs[agent[n].job].scope /\ type = jobs[agent[n].job].type
    OBVIOUS
  <2>2. p \in Profile /\ dep[p].table # 0
    BY <2>1, EgressAgentJobs
  <2>3. \A k : CommandTable(k, p) => CommandTable(k, p)'
    BY <2>2 DEF CommandTable
  <2>4. (RulesGone(p) => RulesGone(p)') /\ (HasDone(p, type) => HasDone(p, type)')
    BY <2>2 DEF RulesGone, HasDone
  <2>5. Progress(n, p, type)
    BY <2>1 DEF EgressHandlers
  <2>6. Progress(n, p, type)'
    BY <2>3, <2>4, <2>5 DEF Progress
  <2> QED  BY <2>1, <2>6
<1> QED  BY <1>1, <1>2, <1>4, <1>5, <1>6, <1>7, <1>8, <1>9

\* A row that no call touches.
LEMMA EgressKept ==
  ASSUME EgressNode, NEW p \in Profile, dep'[p] = dep[p], moved'[p] = moved[p]  PROVE EgressRewrites(p)
  BY DEF EgressNode, EgressType, EgressRewrites

\* The calls on profiles, groups and the server, and the readings of a call.
LEMMA EgressCallsKeep ==
  ASSUME EgressInv, EgressNode,
         \/ \E p \in Profile, s \in {"draft", "active"}, g \in {0, 1} : Egress!CreateExternalEgressProfile(p, s, g)
         \/ \E p \in Profile : Egress!AssignGroup(p)
         \/ Egress!ToggleServer
         \/ \E c \in Call, o \in {"update", "deploy"}, p \in Profile : Egress!ReadProfile(c, o, p)
         \/ \E c \in Call : Egress!Refuse(c)
  PROVE  EgressNode'
<1>1. UNCHANGED <<jobs, agent, run, rules, dep, moved>>
  BY DEF Egress!CreateExternalEgressProfile, Egress!AssignGroup, Egress!ToggleServer, Egress!ReadProfile,
         Egress!Refuse, Egress!jobVars, Egress!nodeVars, Egress!dbVars
<1>2. \A p \in Profile : profile'[p].cfg \in Nat
  <2> USE DEF EgressNode, EgressType, EgressInv, EgressRows
  <2>1. ASSUME NEW q \in Profile, NEW s, NEW g \in {0, 1}, Egress!CreateExternalEgressProfile(q, s, g)
        PROVE  \A p \in Profile : profile'[p].cfg \in Nat
    <3>1. profile' = [profile EXCEPT ![q].status = s, ![q].cfg = g]
      BY <2>1 DEF Egress!CreateExternalEgressProfile
    <3>2. \A p \in Profile : profile'[p].cfg = profile[p].cfg \/ profile'[p].cfg = g
      BY <3>1
    <3> QED  BY <3>2
  <2>2. ASSUME NEW q \in Profile, Egress!AssignGroup(q)
        PROVE  \A p \in Profile : profile'[p].cfg \in Nat
    BY <2>2 DEF Egress!AssignGroup
  <2>3. CASE profile' = profile
    BY <2>3
  <2>4. \/ Egress!ToggleServer
        \/ \E c \in Call, o \in {"update", "deploy"}, p \in Profile : Egress!ReadProfile(c, o, p)
        \/ \E c \in Call : Egress!Refuse(c)
        => profile' = profile
    BY DEF Egress!ToggleServer, Egress!ReadProfile, Egress!Refuse, Egress!dbVars
  <2> QED  BY <2>1, <2>2, <2>3, <2>4
<1>3. \A p \in Profile : EgressRewrites(p)
  BY <1>1, EgressKept
<1> QED  BY <1>1, <1>2, <1>3, EgressRewritten DEF EgressNode, EgressType

\* UpdateExternalEgressProfile marks a live deployment for another apply.
LEMMA EgressUpdateKeeps ==
  ASSUME EgressInv, EgressNode, NEW c \in Call, NEW s \in {"keep", "active", "disabled"}, NEW b \in BOOLEAN,
         Egress!UpdateExternalEgressProfile(c, s, b)
  PROVE  EgressNode'
<1>1. UNCHANGED <<jobs, agent, run, rules, moved>>
  BY DEF Egress!UpdateExternalEgressProfile, Egress!jobVars, Egress!nodeVars
<1>2. PICK p : p = call[c].p
  OBVIOUS
<1>3. p \in Profile
  BY <1>2 DEF EgressInv, EgressCalls, Egress!UpdateExternalEgressProfile
<1>4. \/ dep' = dep
      \/ dep' = [dep EXCEPT ![p].status = "pending"] /\ dep[p].desired = "active" /\ dep[p].status # "absent"
  BY <1>2, Zenon DEF Egress!UpdateExternalEgressProfile, Egress!Live
<1>5. \A q \in Profile : EgressRewrites(q) /\ dep'[q] \in EgressDep
  <2> SUFFICES ASSUME NEW q \in Profile PROVE EgressRewrites(q) /\ dep'[q] \in EgressDep  OBVIOUS
  <2>1. CASE dep'[q] = dep[q]
    BY <1>1, <2>1, EgressKept DEF EgressRewrites
  <2>2. CASE dep'[q] # dep[q]
    <3>1. /\ dep[q].desired = "active" /\ dep[q].table # 0
          /\ dep'[q] = [dep[q] EXCEPT !.status = "pending"]
      BY <1>3, <1>4, <2>2 DEF EgressNode, EgressType, EgressLast
    <3>2. dep[q] \in EgressDep
      BY DEF EgressNode, EgressType
    <3>3. dep'[q] \in EgressDep
      BY <3>1, <3>2 DEF EgressDep
    <3> QED  BY <1>1, <3>1, <3>2, <3>3 DEF EgressRewrites, EgressDep, EgressNode, EgressType
  <2> QED  BY <2>1, <2>2
<1>6. dep' \in [Profile -> EgressDep]
  BY <1>4, <1>5 DEF EgressNode, EgressType
<1>7. \A q \in Profile : profile'[q].cfg \in Nat
  <2> DEFINE st == IF profile[p].status # "deleted" THEN IF s = "keep" THEN call[c].seen ELSE s ELSE profile[p].status
             g == IF b THEN profile[p].cfg + 1 ELSE profile[p].cfg
  <2>1. profile' = [profile EXCEPT ![p].cfg = g, ![p].status = st]
    BY <1>2, Zenon DEF Egress!UpdateExternalEgressProfile
  <2>2. g \in Nat
    BY <1>3 DEF EgressNode, EgressType
  <2>3. PICK y, z : y = g /\ z = st
    OBVIOUS
  <2> HIDE DEF g, st
  <2>4. profile' = [profile EXCEPT ![p].cfg = y, ![p].status = z] /\ y \in Nat
    BY <2>1, <2>2, <2>3, Zenon
  <2> QED  BY <2>4, <1>3 DEF EgressInv, EgressRows, EgressNode, EgressType
<1> QED  BY <1>1, <1>5, <1>6, <1>7, EgressRewritten DEF EgressNode, EgressType

\* The calls that delete a profile or a deployment.
LEMMA EgressDeletesKeep ==
  ASSUME EgressInv, EgressNode, NEW p \in Profile,
         Egress!DeleteExternalEgressProfile(p) \/ Egress!DeleteExternalEgressDeployment(p)
  PROVE  EgressNode'
<1>1. UNCHANGED <<jobs, agent, run, rules, moved>>
  BY DEF Egress!DeleteExternalEgressProfile, Egress!DeleteExternalEgressDeployment, Egress!jobVars, Egress!nodeVars
<1>2. \/ dep' = dep
      \/ /\ dep' = [dep EXCEPT ![p].desired = "deleted", ![p].status = "deleted", ![p].job = 0]
         /\ dep[p].status \in {"inactive", "deleted"}
  <2>1. CASE Egress!DeleteExternalEgressProfile(p)
    BY <2>1, Zenon DEF Egress!DeleteExternalEgressProfile, Egress!NoJob, Egress!Live
  <2>2. CASE Egress!DeleteExternalEgressDeployment(p)
    BY <2>2, Zenon DEF Egress!DeleteExternalEgressDeployment, Egress!NoJob
  <2> QED  BY <2>1, <2>2
<1>3. \A q \in Profile : EgressRewrites(q) /\ dep'[q] \in EgressDep
  <2> SUFFICES ASSUME NEW q \in Profile PROVE EgressRewrites(q) /\ dep'[q] \in EgressDep  OBVIOUS
  <2>1. CASE dep'[q] = dep[q]
    BY <1>1, <2>1, EgressKept DEF EgressRewrites
  <2>2. CASE dep'[q] # dep[q]
    <3>1. /\ dep[q].status \in {"inactive", "deleted"}
          /\ dep'[q] = [dep[q] EXCEPT !.desired = "deleted", !.status = "deleted", !.job = 0]
      BY <1>2, <2>2 DEF EgressNode, EgressType
    <3>2. dep[q] \in EgressDep
      BY DEF EgressNode, EgressType
    <3>3. dep'[q] = [desired |-> "deleted", status |-> "deleted", table |-> dep[q].table, job |-> 0]
      BY <3>1, <3>2 DEF EgressDep
    <3>4. dep'[q] \in EgressDep
      BY <3>2, <3>3 DEF EgressDep
    <3> QED  BY <1>1, <3>1, <3>3, <3>4 DEF EgressRewrites, EgressNode, EgressType
  <2> QED  BY <2>1, <2>2
<1>4. dep' \in [Profile -> EgressDep]
  <2>1. dep' = [q \in Profile |-> dep'[q]]
    BY <1>2 DEF EgressNode, EgressType
  <2> QED  BY <2>1, <1>3
<1>5. \A q \in Profile : profile'[q].cfg \in Nat
  <2>1. \/ profile' = profile
        \/ profile' = [profile EXCEPT ![p] = [status |-> "deleted", cfg |-> 0, group |-> FALSE]]
    BY DEF Egress!DeleteExternalEgressProfile, Egress!DeleteExternalEgressDeployment
  <2>2. \A q \in Profile : profile'[q].cfg = profile[q].cfg \/ profile'[q].cfg = 0
    BY <2>1 DEF EgressInv, EgressRows
  <2> QED  BY <2>2 DEF EgressNode, EgressType
<1> QED  BY <1>1, <1>3, <1>4, <1>5, EgressRewritten DEF EgressNode, EgressType

\* CreateExternalEgressDeployment, which may give the deployment another table.
LEMMA EgressDeploysKeep ==
  ASSUME EgressInv, EgressNode, NEW c \in Call, NEW t \in Table, Egress!CreateExternalEgressDeployment(c, t)
  PROVE  EgressNode'
<1>1. UNCHANGED <<jobs, agent, run, rules, profile>>
  BY DEF Egress!CreateExternalEgressDeployment, Egress!jobVars, Egress!nodeVars
<1>2. PICK p : p = call[c].p
  OBVIOUS
<1>3. p \in Profile
  BY <1>2 DEF EgressInv, EgressCalls, Egress!CreateExternalEgressDeployment
<1>4. /\ dep' = [dep EXCEPT ![p] = [dep[p] EXCEPT !.desired = "active", !.status = "pending", !.table = t]]
      /\ moved' = IF dep[p].table \in {0, t} THEN moved ELSE [moved EXCEPT ![p] = @ \cup {dep[p].table}]
  BY <1>2, Zenon DEF Egress!CreateExternalEgressDeployment, Egress!WriteDeployment, Egress!NoTable
<1>5. \A q \in Profile : EgressRewrites(q) /\ dep'[q] \in EgressDep /\ moved'[q] \in SUBSET Table
  <2> SUFFICES ASSUME NEW q \in Profile PROVE EgressRewrites(q) /\ dep'[q] \in EgressDep /\ moved'[q] \in SUBSET Table
    OBVIOUS
  <2>1. CASE q # p
    <3>1. dep'[q] = dep[q] /\ moved'[q] = moved[q]
      BY <1>3, <1>4, <2>1 DEF EgressNode, EgressType
    <3> QED  BY <3>1, EgressKept DEF EgressRewrites
  <2>2. CASE q = p
    <3>1. dep[q] \in EgressDep /\ moved[q] \in SUBSET Table
      BY DEF EgressNode, EgressType
    <3>2. dep'[q] = [dep[q] EXCEPT !.desired = "active", !.status = "pending", !.table = t]
      BY <1>4, <2>2 DEF EgressNode, EgressType
    <3>3. /\ moved'[q] = IF dep[q].table \in {0, t} THEN moved[q] ELSE moved[q] \cup {dep[q].table}
      BY <1>4, <2>2 DEF EgressNode, EgressType
    <3>4. dep'[q] \in EgressDep /\ dep'[q].table = t /\ dep'[q].status = "pending" /\ dep'[q].desired = "active"
          /\ dep'[q].job = dep[q].job /\ dep[q].table \in EgressTables
      BY <3>1, <3>2 DEF EgressDep, EgressTables
    <3> QED  BY <3>1, <3>3, <3>4, TableAssumption DEF EgressRewrites, EgressTables
  <2> QED  BY <2>1, <2>2
<1>6. dep' \in [Profile -> EgressDep] /\ moved' \in [Profile -> SUBSET Table]
  BY <1>4, <1>5 DEF EgressNode, EgressType
<1> QED  BY <1>1, <1>5, <1>6, EgressRewritten DEF EgressNode, EgressType

-----------------------------------------------------------------------------
\* What a step does to a row of the queue: nothing, a claim or a lapse, a
\* cancellation, a completion, or what becomes of its side effects.
RowMoves(i) ==
  /\ jobs'[i].type = jobs[i].type /\ jobs'[i].scope = jobs[i].scope
  /\ \/ jobs'[i].status = jobs[i].status /\ jobs'[i].effect = jobs[i].effect
     \/ Egress!Unfinished(i) /\ jobs'[i].status \in {"queued", "running", "cancelled"} /\ jobs'[i].effect = "none"
     \/ /\ jobs[i].status = "running" /\ jobs'[i].status \in {"succeeded", "failed"} /\ jobs'[i].effect = "pending"
        /\ jobs'[i].status = "succeeded" => HasDone(jobs[i].scope, jobs[i].type)
     \/ jobs[i].effect = "pending" /\ jobs'[i].effect \in {"lost", "applied"} /\ jobs'[i].status = jobs[i].status
     \/ jobs[i].effect = "pending" /\ jobs'[i].effect = "failed" /\ jobs'[i].status = "failed"

\* The row of a deployment after it: unchanged, or with the outcome of its last
\* job, whose side effects are done.
OutcomeWritten(p) ==
  \/ dep'[p] = dep[p]
  \/ /\ HasJob(p) /\ LastJob(p).effect = "pending" /\ LastJob(p)'.effect = "applied"
     /\ LastJob(p)'.status = LastJob(p).status
     /\ dep'[p] = [dep[p] EXCEPT !.status = IF LastJob(p).status # "succeeded" THEN "failed"
                                            ELSE IF LastJob(p).type = "cleanup" THEN "inactive" ELSE "active"]

\* Such a step keeps what the rows say of each other and of the node.
LEMMA EgressRowsMoved ==
  ASSUME EgressNode, UNCHANGED <<run, rules, moved>>,
         DOMAIN jobs' = DOMAIN jobs, Len(jobs') = Len(jobs), \A i \in DOMAIN jobs : RowMoves(i),
         \A p \in Profile : OutcomeWritten(p)
  PROVE  EgressEffects' /\ EgressLast' /\ EgressPending' /\ EgressOneTable' /\ EgressReports'
<1> USE DEF EgressNode
<1>1. \A p \in Profile : /\ dep'[p].job = dep[p].job /\ dep'[p].table = dep[p].table
                         /\ dep'[p].desired = dep[p].desired
                         /\ dep[p].job \in 0..Len(jobs)
  <2> SUFFICES ASSUME NEW p \in Profile
               PROVE  /\ dep'[p].job = dep[p].job /\ dep'[p].table = dep[p].table
                      /\ dep'[p].desired = dep[p].desired
                      /\ dep[p].job \in 0..Len(jobs)
    OBVIOUS
  <2>1. dep[p] \in EgressDep /\ dep[p].job \in 0..Len(jobs)
    BY DEF EgressType, EgressLast
  <2>2. PICK o : dep'[p] = dep[p] \/ dep'[p] = [dep[p] EXCEPT !.status = o]
    BY DEF OutcomeWritten
  <2> QED  BY <2>1, <2>2 DEF EgressDep
<1>2. \A p \in Profile : HasJob(p) => /\ dep[p].job \in DOMAIN jobs /\ RowMoves(dep[p].job)
                                      /\ LastJob(p)' = jobs'[dep[p].job]
  BY <1>1, EgressJobsTyped DEF HasJob, LastJob
<1>3. EgressEffects'
  BY DEF EgressEffects, RowMoves, Egress!Unfinished
<1>4. EgressLast'
  <2> SUFFICES ASSUME NEW p \in Profile PROVE EgressLast!(p)'
    BY DEF EgressLast
  <2>1. EgressLast!(p) /\ OutcomeWritten(p)
    BY DEF EgressLast
  <2>2. \A i \in DOMAIN jobs : jobs'[i].scope = jobs[i].scope
    BY DEF RowMoves
  <2>3. /\ HasJob(p)' <=> HasJob(p)
        /\ HasJob(p) => LastJob(p)'.scope = LastJob(p).scope /\ LastJob(p)'.type = LastJob(p).type
    BY <1>1, <1>2 DEF HasJob, LastJob, RowMoves
  <2>4. CASE dep'[p] = dep[p]
    <3>1. dep[p].status \in {"active", "inactive"} =>
             LastJob(p)'.status = LastJob(p).status /\ LastJob(p)'.effect = LastJob(p).effect
      BY <2>1, <1>2 DEF RowMoves, LastJob, Egress!Unfinished
    <3> QED  BY <2>1, <2>2, <2>3, <2>4, <3>1
  <2>5. CASE dep'[p] # dep[p]
    <3>1. dep[p].table # 0
      BY <1>2, <2>1, <2>5 DEF OutcomeWritten, HasJob, LastJob
    <3>2. /\ HasJob(p) /\ LastJob(p)'.effect = "applied" /\ LastJob(p)'.status = LastJob(p).status
          /\ dep'[p].status = IF LastJob(p).status # "succeeded" THEN "failed"
                              ELSE IF LastJob(p).type = "cleanup" THEN "inactive" ELSE "active"
      BY <2>1, <2>5 DEF OutcomeWritten, EgressType, EgressDep
    <3> QED  BY <1>1, <2>1, <2>2, <2>3, <3>1, <3>2
  <2> QED  BY <2>4, <2>5
<1>5. EgressPending'
  <2> SUFFICES ASSUME NEW j \in DOMAIN jobs, Egress!Unfinished(j)' PROVE EgressPending!(j)!2'
    BY DEF EgressPending
  <2>1. PICK p \in Profile : p = jobs[j].scope /\ p = jobs'[j].scope
    BY EgressJobsTyped DEF RowMoves
  <2>2. Egress!Unfinished(j) /\ jobs'[j].type = jobs[j].type
    BY DEF RowMoves, Egress!Unfinished, EgressEffects
  <2>3. HasJob(p) /\ LastJob(p).type = jobs[j].type /\ (dep[p].job = j \/ LastJob(p).status = "cancelled")
    BY <2>1, <2>2 DEF EgressPending
  <2>4. LastJob(p)'.type = LastJob(p).type /\ (LastJob(p).status = "cancelled" => LastJob(p)'.status = "cancelled")
    BY <1>2, <2>3 DEF RowMoves, LastJob, Egress!Unfinished, EgressEffects
  <2> QED  BY <1>1, <2>1, <2>2, <2>3, <2>4 DEF HasJob
<1>6. EgressOneTable'
  BY <1>1 DEF EgressOneTable
<1>7. EgressReports'
  <2> SUFFICES ASSUME NEW p \in Profile, HasJob(p)', LastJob(p)'.status = "succeeded" PROVE HasDone(p, LastJob(p).type)'
    BY DEF EgressReports
  <2>1. HasJob(p) /\ LastJob(p)'.type = LastJob(p).type
    BY <1>1, <1>2 DEF HasJob, RowMoves, LastJob
  <2>2. HasDone(p, LastJob(p).type)
    BY <1>2, <2>1 DEF EgressReports, RowMoves, LastJob, EgressLast
  <2>3. PICK type : type = LastJob(p).type
    OBVIOUS
  <2>4. HasDone(p, type) => HasDone(p, type)'
    BY DEF HasDone, RulesGone
  <2> QED  BY <2>1, <2>2, <2>3, <2>4
<1> QED  BY <1>3, <1>4, <1>5, <1>6, <1>7

\* An agent whose job a step leaves alone, and which lets no waiting job start.
LEMMA EgressAgentKept ==
  ASSUME EgressNode, NEW n \in Node, agent[n].job # 0, agent'[n] = agent[n],
         UNCHANGED <<run, rules, moved>>, DOMAIN jobs \subseteq DOMAIN jobs',
         \A i \in DOMAIN jobs : /\ jobs'[i].type = jobs[i].type /\ jobs'[i].scope = jobs[i].scope
                                /\ NotStarted(i) => NotStarted(i)',
         jobs'[agent[n].job].effect = jobs[agent[n].job].effect,
         \A p \in Profile : /\ dep'[p].table = dep[p].table
                            /\ \/ dep'[p].job = dep[p].job
                               \/ NotStarted(dep[p].job)'
  PROVE  /\ AgentAlone(n, agent[n].job, jobs[agent[n].job].scope)'
         /\ Progress(n, jobs[agent[n].job].scope, jobs[agent[n].job].type)'
<1>1. PICK j, p, type : j = agent[n].job /\ p = jobs[j].scope /\ type = jobs[j].type
  OBVIOUS
<1>2. j \in DOMAIN jobs /\ p \in Profile /\ n = Egress!TheNode
  BY <1>1, EgressAgentJobs
<1>3. j = agent'[n].job /\ p = jobs'[j].scope /\ type = jobs'[j].type
  BY <1>1, <1>2
<1>4. \A q \in Profile : HasJob(q) => dep[q].job \in DOMAIN jobs
  BY EgressJobsTyped DEF EgressNode, EgressLast, HasJob
<1>5. AgentAlone(n, j, p) /\ Progress(n, p, type)
  BY <1>1 DEF EgressNode, EgressAgents, EgressHandlers
<1>6. AgentAlone(n, j, p)'
  BY <1>1, <1>2, <1>4, <1>5 DEF AgentAlone, HasJob, LastJob, NotStarted
<1>7. Progress(n, p, type)'
  BY <1>2, <1>5 DEF Progress, CommandTable, RulesGone, HasDone
<1> QED  BY <1>3, <1>6, <1>7

\* The queue's rows after one of them has been rewritten.
LEMMA EgressOneRow ==
  ASSUME EgressType, NEW j \in DOMAIN jobs, NEW r \in EgressJob, jobs' = [jobs EXCEPT ![j] = r]
  PROVE  /\ jobs' \in Seq(EgressJob) /\ DOMAIN jobs' = DOMAIN jobs /\ Len(jobs') = Len(jobs)
         /\ jobs'[j] = r /\ \A i \in DOMAIN jobs \ {j} : jobs'[i] = jobs[i]
  BY DEF EgressType

\* Who waits for the answer to j is idle after it, the others are as before.
LEMMA EgressAnswered ==
  ASSUME EgressNode, NEW j, Egress!Answer(j)
  PROVE  /\ agent' \in [Node -> EgressAgent]
         /\ \A n \in Node : \/ agent[n].job = j /\ agent'[n].job = 0 /\ agent'[n].result = "none"
                            \/ agent[n].job # j /\ agent'[n] = agent[n]
<1>1. Egress!AgentIdle \in EgressAgent /\ Egress!AgentIdle.job = 0 /\ Egress!AgentIdle.result = "none"
  BY DEF Egress!AgentIdle, EgressAgent, Egress!NoJob
<1> QED  BY <1>1 DEF Egress!Answer, EgressNode, EgressType

\* The agents after a step that lets no waiting job start: each has its job and
\* is as before, or has none.
LEMMA EgressAgentsStay ==
  ASSUME EgressNode, UNCHANGED <<run, rules, moved>>, DOMAIN jobs \subseteq DOMAIN jobs',
         \A i \in DOMAIN jobs : /\ jobs'[i].type = jobs[i].type /\ jobs'[i].scope = jobs[i].scope
                                /\ NotStarted(i) => NotStarted(i)',
         \A p \in Profile : /\ dep'[p].table = dep[p].table
                            /\ \/ dep'[p].job = dep[p].job
                               \/ NotStarted(dep[p].job)',
         \A n \in Node : \/ agent'[n].job = 0 /\ agent'[n].result = "none"
                         \/ agent[n].job = 0 /\ agent'[n] = agent[n]
                         \/ agent'[n] = agent[n] /\ jobs'[agent[n].job].effect = jobs[agent[n].job].effect
  PROVE  EgressAgents' /\ EgressHandlers'
<1> SUFFICES ASSUME NEW n \in Node
             PROVE  /\ agent'[n].job = 0 => agent'[n].result = "none"
                    /\ agent'[n].job # 0 => /\ AgentAlone(n, agent[n].job, jobs[agent[n].job].scope)'
                                            /\ Progress(n, jobs[agent[n].job].scope, jobs[agent[n].job].type)'
  BY DEF EgressAgents, EgressHandlers
<1>1. agent[n].job = 0 => agent[n].result = "none"
  BY DEF EgressNode, EgressAgents
<1>2. ASSUME agent'[n].job # 0
      PROVE  /\ AgentAlone(n, agent[n].job, jobs[agent[n].job].scope)'
             /\ Progress(n, jobs[agent[n].job].scope, jobs[agent[n].job].type)'
  BY <1>2, EgressAgentKept
<1> QED  BY <1>1, <1>2

\* The side effects of a result are done, refused by a trigger, or lost.
LEMMA EgressEffectsKeep ==
  ASSUME EgressNode, NEW j \in DOMAIN jobs,
         jobs[j].effect = "pending", Egress!Answer(j), UNCHANGED <<run, rules, moved, profile>>,
         \/ jobs' = [jobs EXCEPT ![j].effect = "applied"]
         \/ jobs' = [jobs EXCEPT ![j].effect = "lost"] /\ dep' = dep
         \/ jobs' = [jobs EXCEPT ![j].effect = "failed", ![j].status = "failed"] /\ dep' = dep,
         \/ dep' = dep
         \/ dep[jobs[j].scope].job = j
            /\ dep' = [dep EXCEPT ![jobs[j].scope] = [dep[jobs[j].scope] EXCEPT !.status = Egress!Outcome(j)]]
  PROVE  EgressNode'
<1> USE DEF EgressNode
<1>1. jobs[j] \in EgressJob
  BY EgressJobsTyped
<1>2. PICK r : jobs' = [jobs EXCEPT ![j] = r] /\ r \in EgressJob
               /\ r.type = jobs[j].type /\ r.scope = jobs[j].scope
               /\ \/ r.effect = "applied" /\ r.status = jobs[j].status
                  \/ r.effect = "lost" /\ r.status = jobs[j].status /\ dep' = dep
                  \/ r.effect = "failed" /\ r.status = "failed" /\ dep' = dep
  <2>1. CASE jobs' = [jobs EXCEPT ![j].effect = "applied"]
    <3>1. PICK r : r = [jobs[j] EXCEPT !.effect = "applied"]
      OBVIOUS
    <3>2. r \in EgressJob /\ r.type = jobs[j].type /\ r.scope = jobs[j].scope /\ r.effect = "applied" /\ r.status = jobs[j].status
      BY <1>1, <3>1 DEF EgressJob
    <3>3. jobs' = [jobs EXCEPT ![j] = r]
      BY <2>1, <3>1
    <3> QED  BY <3>2, <3>3
  <2>2. CASE jobs' = [jobs EXCEPT ![j].effect = "lost"] /\ dep' = dep
    <3>1. PICK r : r = [jobs[j] EXCEPT !.effect = "lost"]
      OBVIOUS
    <3>2. r \in EgressJob /\ r.type = jobs[j].type /\ r.scope = jobs[j].scope /\ r.effect = "lost" /\ r.status = jobs[j].status
      BY <1>1, <3>1 DEF EgressJob
    <3>3. jobs' = [jobs EXCEPT ![j] = r]
      BY <2>2, <3>1
    <3> QED  BY <2>2, <3>2, <3>3
  <2>3. CASE jobs' = [jobs EXCEPT ![j].effect = "failed", ![j].status = "failed"] /\ dep' = dep
    <3>1. PICK r : r = [jobs[j] EXCEPT !.effect = "failed", !.status = "failed"]
      OBVIOUS
    <3>2. r \in EgressJob /\ r.type = jobs[j].type /\ r.scope = jobs[j].scope /\ r.effect = "failed" /\ r.status = "failed"
      BY <1>1, <3>1 DEF EgressJob
    <3>3. jobs' = [jobs EXCEPT ![j] = r]
      BY <2>3, <3>1, <1>1 DEF EgressType
    <3> QED  BY <2>3, <3>2, <3>3
  <2> QED  BY <2>1, <2>2, <2>3
<1>3. /\ jobs' \in Seq(EgressJob) /\ DOMAIN jobs' = DOMAIN jobs /\ Len(jobs') = Len(jobs)
      /\ jobs'[j] = r /\ \A i \in DOMAIN jobs \ {j} : jobs'[i] = jobs[i]
  BY <1>2, EgressOneRow
<1>4. \A i \in DOMAIN jobs : RowMoves(i) /\ (NotStarted(i) => NotStarted(i)')
  BY <1>2, <1>3 DEF RowMoves, NotStarted, EgressEffects
<1>5. PICK p \in Profile : p = jobs[j].scope
  BY EgressJobsTyped
<1>6. \A q \in Profile : OutcomeWritten(q) /\ dep'[q] \in EgressDep
                         /\ dep'[q].table = dep[q].table /\ dep'[q].job = dep[q].job
  <2> SUFFICES ASSUME NEW q \in Profile
               PROVE  OutcomeWritten(q) /\ dep'[q] \in EgressDep
                      /\ dep'[q].table = dep[q].table /\ dep'[q].job = dep[q].job
    OBVIOUS
  <2>1. dep[q] \in EgressDep
    BY DEF EgressType
  <2>2. CASE dep'[q] = dep[q]
    BY <2>1, <2>2 DEF OutcomeWritten
  <2>3. CASE dep'[q] # dep[q]
    <3>1. /\ q = p /\ dep[q].job = j /\ r.effect = "applied" /\ r.status = jobs[j].status
          /\ dep'[q] = [dep[q] EXCEPT !.status = Egress!Outcome(j)]
      BY <1>2, <1>5, <2>3 DEF EgressType
    <3>2. j # 0
      BY EgressJobsTyped
    <3>3. dep'[q] \in EgressDep /\ dep'[q].table = dep[q].table /\ dep'[q].job = dep[q].job
      BY <2>1, <3>1 DEF EgressDep, Egress!Outcome
    <3>4. OutcomeWritten(q)
      BY <1>3, <3>1, <3>2, <3>3 DEF OutcomeWritten, HasJob, LastJob, Egress!Outcome
    <3> QED  BY <3>3, <3>4
  <2> QED  BY <2>2, <2>3
<1>7. dep' \in [Profile -> EgressDep]
  <2>1. dep' = [q \in Profile |-> dep'[q]]
    BY <1>5 DEF EgressType
  <2> QED  BY <2>1, <1>6
<1>8. EgressEffects' /\ EgressLast' /\ EgressPending' /\ EgressOneTable' /\ EgressReports'
  BY <1>3, <1>4, <1>6, EgressRowsMoved
<1>9. EgressAgents' /\ EgressHandlers'
  <2>1. \A n \in Node : \/ agent'[n].job = 0 /\ agent'[n].result = "none"
                        \/ agent[n].job = 0 /\ agent'[n] = agent[n]
                        \/ agent'[n] = agent[n] /\ jobs'[agent[n].job].effect = jobs[agent[n].job].effect
    BY <1>3, EgressAnswered, EgressAgentJobs
  <2> QED  BY <1>3, <1>4, <1>6, <2>1, EgressAgentsStay DEF RowMoves
<1>10. EgressType'
  BY <1>3, <1>7, EgressAnswered DEF EgressType
<1> QED  BY <1>8, <1>9, <1>10

\* A result is applied to the row of its deployment, or refused.
LEMMA EgressResultsKeep ==
  ASSUME EgressNode, NEW j \in DOMAIN jobs, Egress!ApplyExternalEgressJobResult(j)
  PROVE  EgressNode'
<1>1. /\ jobs[j].effect = "pending" /\ UNCHANGED <<run, rules, moved, profile>>
      /\ Egress!EffectDone(j) \/ (Egress!EffectRefused(j) /\ dep' = dep)
      /\ dep' = dep \/ (/\ Egress!resultCurrent(jobs[j].scope, j)
                        /\ Egress!WriteDeployment(jobs[j].scope, [dep[jobs[j].scope] EXCEPT !.status = Egress!Outcome(j)]))
  <2>1. jobs[j].effect = "pending" /\ UNCHANGED <<run, rules, moved, profile>>
    BY DEF Egress!ApplyExternalEgressJobResult, Egress!EffectDue, Egress!nodeVars
  <2> QED  BY <2>1, Zenon DEF Egress!ApplyExternalEgressJobResult
<1>2. Egress!Answer(j)
  BY <1>1 DEF Egress!EffectDone, Egress!EffectRefused
<1> QED
  BY <1>1, <1>2, EgressEffectsKeep
     DEF Egress!EffectDone, Egress!EffectRefused, Egress!resultCurrent, Egress!WriteDeployment

\* A job is appended: its deployment's new last job, or the copy of a stuck one.
LEMMA EgressAppended ==
  ASSUME EgressType, NEW r \in EgressJob, NEW js \in Seq(EgressJob), Len(js) = Len(jobs), jobs' = Append(js, r)
  PROVE  /\ jobs' \in Seq(EgressJob) /\ Len(jobs') = Len(jobs) + 1 /\ DOMAIN jobs' = 1..(Len(jobs) + 1)
         /\ jobs'[Len(jobs) + 1] = r /\ \A i \in DOMAIN jobs : jobs'[i] = js[i]
  BY DEF EgressType

\* createExternalEgressJob gives the deployment a new last job.
LEMMA EgressCreatesKeep ==
  ASSUME EgressNode, NEW p \in Profile, NEW t \in EgressTypes, Egress!createExternalEgressJob(p, t)
  PROVE  EgressNode'
<1> USE DEF EgressNode
<1>1. /\ UNCHANGED <<run, rules, moved, profile, agent>>
      /\ dep[p].status # "absent" /\ Egress!ActiveJobs(p) = {}
      /\ t = "probe" => dep[p].desired = "active"
      /\ jobs' = Append(jobs, Egress!newJob(t, Egress!TheNode, p, t, 100))
      /\ dep' = [dep EXCEPT ![p] = [dep[p] EXCEPT !.desired = Egress!Desired(p, t), !.status = "queued",
                                                   !.job = Len(jobs) + 1]]
  BY DEF Egress!createExternalEgressJob, Egress!Queue, Egress!QueueAt, Egress!WriteDeployment, Egress!nodeVars,
         Egress!NextId
<1>2. PICK r : r = Egress!newJob(t, Egress!TheNode, p, t, 100)
  OBVIOUS
<1>3. /\ r \in EgressJob /\ r.type = t /\ r.scope = p /\ r.status = "queued" /\ r.effect = "none"
  BY <1>2 DEF Egress!newJob, EgressJob
<1>4. /\ jobs' \in Seq(EgressJob) /\ Len(jobs') = Len(jobs) + 1 /\ DOMAIN jobs' = 1..(Len(jobs) + 1)
      /\ jobs'[Len(jobs) + 1] = r /\ \A i \in DOMAIN jobs : jobs'[i] = jobs[i]
  BY <1>1, <1>2, <1>3, EgressAppended DEF EgressType
<1>5. Len(jobs) \in Nat /\ DOMAIN jobs = 1..Len(jobs)
  BY EgressJobsTyped
<1>6. PICK d : /\ d = [dep[p] EXCEPT !.desired = Egress!Desired(p, t), !.status = "queued", !.job = Len(jobs) + 1]
  OBVIOUS
<1>7. d \in EgressDep /\ d.status = "queued" /\ d.job = Len(jobs) + 1 /\ d.table = dep[p].table
      /\ (t # "cleanup" => d.desired = "active")
  <2>1. dep[p] \in EgressDep
    BY DEF EgressType
  <2>2. PICK x : x = Egress!Desired(p, t) /\ x \in {"active", "inactive"} /\ (t # "cleanup" => x = "active")
    BY <1>1 DEF Egress!Desired, EgressTypes
  <2>3. d = [dep[p] EXCEPT !.desired = x, !.status = "queued", !.job = Len(jobs) + 1]
    BY <1>6, <2>2
  <2>4. d = [desired |-> x, status |-> "queued", table |-> dep[p].table, job |-> Len(jobs) + 1]
    BY <2>1, <2>3 DEF EgressDep
  <2>5. dep[p].table \in EgressTables /\ Len(jobs) + 1 \in Nat
    BY <1>5, <2>1 DEF EgressDep
  <2> QED  BY <2>2, <2>4, <2>5 DEF EgressDep
<1>8. dep' = [dep EXCEPT ![p] = d]
  BY <1>1, <1>6
<1>9. dep'[p] = d /\ \A q \in Profile \ {p} : dep'[q] = dep[q]
  BY <1>8 DEF EgressType
<1>10. EgressType'
  BY <1>1, <1>4, <1>7, <1>8 DEF EgressType
<1>11. \A q \in Profile \ {p} : HasJob(q) => dep[q].job \in DOMAIN jobs /\ HasJob(q)' /\ LastJob(q)' = LastJob(q)
  BY <1>4, <1>5, <1>9 DEF HasJob, LastJob, EgressLast
<1>12. HasJob(p)' /\ LastJob(p)' = r
  BY <1>4, <1>5, <1>7, <1>9 DEF HasJob, LastJob
<1>13. dep[p].table # 0
  BY <1>1 DEF EgressLast
<1>14. EgressEffects'
  BY <1>3, <1>4, <1>5 DEF EgressEffects
<1>15. EgressLast'
  <2> SUFFICES ASSUME NEW q \in Profile PROVE EgressLast!(q)'
    BY DEF EgressLast
  <2>1. CASE q = p
    BY <1>3, <1>4, <1>5, <1>7, <1>9, <1>12, <1>13, <2>1
  <2>2. CASE q # p
    <3>1. EgressLast!(q)
      BY DEF EgressLast
    <3>2. \A j \in DOMAIN jobs' : jobs'[j].scope = q => j \in DOMAIN jobs /\ jobs[j].scope = q
      BY <1>3, <1>4, <1>5, <2>2
    <3>3. HasJob(q)' <=> HasJob(q)
      BY <1>9, <2>2 DEF HasJob
    <3> QED  BY <1>4, <1>5, <1>9, <1>11, <2>2, <3>1, <3>2, <3>3
  <2> QED  BY <2>1, <2>2
<1>16. EgressPending'
  <2> SUFFICES ASSUME NEW j \in DOMAIN jobs', Egress!Unfinished(j)' PROVE EgressPending!(j)!2'
    BY DEF EgressPending
  <2>1. CASE j = Len(jobs) + 1
    BY <1>3, <1>4, <1>7, <1>9, <1>12, <2>1
  <2>2. CASE j # Len(jobs) + 1
    <3>1. j \in DOMAIN jobs /\ jobs'[j] = jobs[j] /\ Egress!Unfinished(j)
      BY <1>4, <1>5, <2>2 DEF Egress!Unfinished
    <3>2. jobs[j].scope \in Profile \ {p}
      BY <1>1, <3>1, EgressJobsTyped DEF Egress!ActiveJobs, Egress!Job
    <3> QED  BY <1>9, <1>11, <3>1, <3>2 DEF EgressPending
  <2> QED  BY <2>1, <2>2
<1>17. EgressOneTable'
  BY <1>1, <1>7, <1>9 DEF EgressOneTable
<1>18. EgressReports'
  <2> SUFFICES ASSUME NEW q \in Profile, HasJob(q)', LastJob(q)'.status = "succeeded" PROVE HasDone(q, LastJob(q).type)'
    BY DEF EgressReports
  <2>1. q # p /\ HasJob(q)
    BY <1>3, <1>9, <1>12 DEF HasJob
  <2>2. LastJob(q)' = LastJob(q) /\ HasDone(q, LastJob(q).type)
    BY <1>11, <2>1 DEF EgressReports
  <2> QED  BY <1>1, <2>2 DEF HasDone, RulesGone
<1>19. EgressAgents' /\ EgressHandlers'
  <2>1. DOMAIN jobs \subseteq DOMAIN jobs'
    BY <1>4, <1>5
  <2>2. \A i \in DOMAIN jobs : /\ jobs'[i].type = jobs[i].type /\ jobs'[i].scope = jobs[i].scope
                               /\ NotStarted(i) => NotStarted(i)'
    BY <1>4 DEF NotStarted
  <2>3. \A q \in Profile : dep'[q].table = dep[q].table /\ (dep'[q].job = dep[q].job \/ NotStarted(dep[q].job)')
    BY <1>3, <1>4, <1>7, <1>9 DEF NotStarted
  <2>4. \A n \in Node : \/ agent[n].job = 0 /\ agent'[n] = agent[n]
                        \/ agent'[n] = agent[n] /\ jobs'[agent[n].job].effect = jobs[agent[n].job].effect
    BY <1>1, <1>4, EgressAgentJobs
  <2> QED  BY <1>1, <2>1, <2>2, <2>3, <2>4, EgressAgentsStay
<1> QED  BY <1>10, <1>14, <1>15, <1>16, <1>17, <1>18, <1>19

\* One row moves and no deployment, node or table does.
LEMMA EgressRowKeeps ==
  ASSUME EgressNode, NEW j \in DOMAIN jobs, NEW r \in EgressJob, jobs' = [jobs EXCEPT ![j] = r],
         UNCHANGED <<run, rules, moved, profile, dep>>, agent' \in [Node -> EgressAgent],
         r.type = jobs[j].type, r.scope = jobs[j].scope, RowMoves(j)
  PROVE  /\ EgressType' /\ EgressEffects' /\ EgressLast' /\ EgressPending' /\ EgressOneTable' /\ EgressReports'
         /\ DOMAIN jobs' = DOMAIN jobs /\ jobs'[j] = r /\ \A i \in DOMAIN jobs \ {j} : jobs'[i] = jobs[i]
<1>1. /\ jobs' \in Seq(EgressJob) /\ DOMAIN jobs' = DOMAIN jobs /\ Len(jobs') = Len(jobs)
      /\ jobs'[j] = r /\ \A i \in DOMAIN jobs \ {j} : jobs'[i] = jobs[i]
  BY EgressOneRow DEF EgressNode
<1>2. \A i \in DOMAIN jobs : RowMoves(i)
  BY <1>1 DEF RowMoves
<1>3. \A p \in Profile : OutcomeWritten(p)
  BY DEF OutcomeWritten
<1>4. EgressType'
  BY <1>1 DEF EgressNode, EgressType
<1> QED  BY <1>1, <1>2, <1>3, <1>4, EgressRowsMoved

\* A lease lapses, or a waiting job is cancelled.
LEMMA EgressLapses ==
  ASSUME EgressNode, NEW j \in DOMAIN jobs, NEW s \in {"queued", "cancelled"}, Egress!Unfinished(j),
         jobs' = [jobs EXCEPT ![j].status = s], UNCHANGED <<run, rules, moved, profile, dep, agent>>
  PROVE  EgressNode'
<1> USE DEF EgressNode
<1>1. jobs[j] \in EgressJob /\ jobs[j].effect = "none"
  BY EgressJobsTyped DEF EgressEffects, Egress!Unfinished
<1>2. PICK r : r = [jobs[j] EXCEPT !.status = s]
  OBVIOUS
<1>3. r \in EgressJob /\ r.type = jobs[j].type /\ r.scope = jobs[j].scope /\ r.status = s /\ r.effect = "none"
  BY <1>1, <1>2 DEF EgressJob
<1>4. jobs' = [jobs EXCEPT ![j] = r] /\ jobs'[j] = r
  BY <1>2 DEF EgressType
<1>5. RowMoves(j)
  BY <1>3, <1>4 DEF RowMoves
<1>6. agent' \in [Node -> EgressAgent]
  BY DEF EgressType
<1>7. /\ EgressType' /\ EgressEffects' /\ EgressLast' /\ EgressPending' /\ EgressOneTable' /\ EgressReports'
      /\ DOMAIN jobs' = DOMAIN jobs /\ jobs'[j] = r /\ \A i \in DOMAIN jobs \ {j} : jobs'[i] = jobs[i]
  BY <1>3, <1>4, <1>5, <1>6, EgressRowKeeps
<1>8. EgressAgents' /\ EgressHandlers'
  <2>1. \A i \in DOMAIN jobs : /\ jobs'[i].type = jobs[i].type /\ jobs'[i].scope = jobs[i].scope
                               /\ jobs'[i].effect = jobs[i].effect
                               /\ NotStarted(i) => NotStarted(i)'
    BY <1>1, <1>3, <1>7 DEF NotStarted
  <2>2. \A n \in Node : \/ agent[n].job = 0 /\ agent'[n] = agent[n]
                        \/ agent'[n] = agent[n] /\ jobs'[agent[n].job].effect = jobs[agent[n].job].effect
    BY <2>1, EgressAgentJobs
  <2> QED  BY <1>7, <2>1, <2>2, EgressAgentsStay
<1> QED  BY <1>7, <1>8

\* RequeueNodeStuckJob: the copy is of the type of its deployment's last job.
LEMMA EgressRequeuesKeep ==
  ASSUME EgressNode, NEW j \in DOMAIN jobs, jobs[j].status = "running",
         jobs' = Append([jobs EXCEPT ![j].status = "cancelled"],
                        Egress!newJob(jobs[j].type, jobs[j].node, jobs[j].scope, jobs[j].payload, jobs[j].priority)),
         UNCHANGED <<run, rules, moved, profile, dep, agent>>
  PROVE  EgressNode'
<1> USE DEF EgressNode
<1>1. jobs[j] \in EgressJob /\ jobs[j].effect = "none"
  BY EgressJobsTyped DEF EgressEffects
<1>2. PICK c, r, js : /\ c = [jobs[j] EXCEPT !.status = "cancelled"]
                      /\ r = Egress!newJob(jobs[j].type, jobs[j].node, jobs[j].scope, jobs[j].payload, jobs[j].priority)
                      /\ js = [jobs EXCEPT ![j] = c]
  OBVIOUS
<1>3. c \in EgressJob /\ c.type = jobs[j].type /\ c.scope = jobs[j].scope /\ c.status = "cancelled" /\ c.effect = "none"
  BY <1>1, <1>2 DEF EgressJob
<1>4. r \in EgressJob /\ r.type = jobs[j].type /\ r.scope = jobs[j].scope /\ r.status = "queued" /\ r.effect = "none"
  BY <1>1, <1>2 DEF EgressJob, Egress!newJob
<1>5. /\ js \in Seq(EgressJob) /\ Len(js) = Len(jobs) /\ DOMAIN js = DOMAIN jobs
      /\ js[j] = c /\ \A i \in DOMAIN jobs \ {j} : js[i] = jobs[i]
  BY <1>2, <1>3 DEF EgressType
<1>6. jobs' = Append(js, r)
  BY <1>2
<1>7. /\ jobs' \in Seq(EgressJob) /\ Len(jobs') = Len(jobs) + 1 /\ DOMAIN jobs' = 1..(Len(jobs) + 1)
      /\ jobs'[Len(jobs) + 1] = r /\ \A i \in DOMAIN jobs : jobs'[i] = js[i]
  BY <1>4, <1>5, <1>6, EgressAppended
<1>8. Len(jobs) \in Nat /\ DOMAIN jobs = 1..Len(jobs)
  BY EgressJobsTyped
<1>9. /\ jobs'[j] = c /\ \A i \in DOMAIN jobs \ {j} : jobs'[i] = jobs[i]
  BY <1>5, <1>7
<1>10. PICK p \in Profile : p = jobs[j].scope
  BY EgressJobsTyped
<1>11. /\ HasJob(p) /\ LastJob(p).type = jobs[j].type /\ (dep[p].job = j \/ LastJob(p).status = "cancelled")
  BY <1>10 DEF EgressPending, Egress!Unfinished
<1>12. \A q \in Profile : HasJob(q) => /\ dep[q].job \in DOMAIN jobs
                                       /\ LastJob(q)' = IF dep[q].job = j THEN c ELSE LastJob(q)
  BY <1>8, <1>9 DEF HasJob, LastJob, EgressLast
<1>13. \A q \in Profile : HasJob(q)' <=> HasJob(q)
  BY DEF HasJob
<1>14. EgressType' /\ EgressEffects'
  BY <1>3, <1>4, <1>7, <1>8, <1>9 DEF EgressType, EgressEffects
<1>15. EgressLast'
  <2> SUFFICES ASSUME NEW q \in Profile PROVE EgressLast!(q)'
    BY DEF EgressLast
  <2>1. EgressLast!(q)
    BY DEF EgressLast
  <2>2. \A i \in DOMAIN jobs' : jobs'[i].scope = q => \E k \in DOMAIN jobs : jobs[k].scope = q
    BY <1>3, <1>4, <1>7, <1>8, <1>9
  <2>3. dep[q].job = j => jobs[j].status = "succeeded" \/ dep[q].status \notin {"active", "inactive"}
    BY <2>1 DEF LastJob
  <2> QED  BY <1>3, <1>7, <1>8, <1>12, <1>13, <2>1, <2>2, <2>3 DEF LastJob
<1>16. EgressPending'
  <2> SUFFICES ASSUME NEW i \in DOMAIN jobs', Egress!Unfinished(i)' PROVE EgressPending!(i)!2'
    BY DEF EgressPending
  <2>1. LastJob(p)'.type = jobs[j].type /\ LastJob(p)'.status = "cancelled"
    BY <1>3, <1>11, <1>12
  <2>2. CASE i = Len(jobs) + 1
    BY <1>4, <1>7, <1>10, <1>11, <1>13, <2>1, <2>2
  <2>3. CASE i # Len(jobs) + 1
    <3>1. i \in DOMAIN jobs /\ i # j /\ jobs'[i] = jobs[i] /\ Egress!Unfinished(i)
      BY <1>3, <1>7, <1>8, <1>9, <2>3 DEF Egress!Unfinished
    <3>2. jobs[i].scope \in Profile /\ EgressPending!(i)!2
      BY <3>1, EgressJobsTyped DEF EgressPending
    <3>3. CASE jobs[i].scope = p
      BY <1>11, <1>13, <2>1, <3>1, <3>2, <3>3
    <3>4. CASE jobs[i].scope # p
      <4>1. PICK q \in Profile : q = jobs[i].scope
        BY <3>2
      <4>2. HasJob(q) /\ LastJob(q).type = jobs[i].type /\ (dep[q].job = i \/ LastJob(q).status = "cancelled")
        BY <3>2, <4>1
      <4>3. LastJob(q).scope = q
        BY <4>2 DEF EgressLast
      <4>4. dep[q].job # j
        BY <1>10, <3>4, <4>1, <4>3 DEF LastJob
      <4>5. LastJob(q)' = LastJob(q) /\ HasJob(q)'
        BY <1>12, <1>13, <4>2, <4>4
      <4> QED  BY <3>1, <4>1, <4>2, <4>5
    <3> QED  BY <3>3, <3>4
  <2> QED  BY <2>2, <2>3
<1>17. EgressOneTable'
  BY DEF EgressOneTable
<1>18. EgressReports'
  <2> SUFFICES ASSUME NEW q \in Profile, HasJob(q)', LastJob(q)'.status = "succeeded" PROVE HasDone(q, LastJob(q).type)'
    BY DEF EgressReports
  <2>1. LastJob(q)' = LastJob(q) /\ HasDone(q, LastJob(q).type)
    BY <1>3, <1>12, <1>13 DEF EgressReports
  <2> QED  BY <2>1 DEF HasDone, RulesGone
<1>19. EgressAgents' /\ EgressHandlers'
  <2>1. DOMAIN jobs \subseteq DOMAIN jobs'
    BY <1>7, <1>8
  <2>2. \A i \in DOMAIN jobs : /\ jobs'[i].type = jobs[i].type /\ jobs'[i].scope = jobs[i].scope
                               /\ jobs'[i].effect = jobs[i].effect
                               /\ NotStarted(i) => NotStarted(i)'
    BY <1>1, <1>3, <1>9 DEF NotStarted
  <2>3. \A n \in Node : \/ agent[n].job = 0 /\ agent'[n] = agent[n]
                        \/ agent'[n] = agent[n] /\ jobs'[agent[n].job].effect = jobs[agent[n].job].effect
    BY <2>2, EgressAgentJobs
  <2> QED  BY <2>1, <2>2, <2>3, EgressAgentsStay
<1> QED  BY <1>14, <1>15, <1>16, <1>17, <1>18, <1>19

\* An agent that restarts, or whose result is refused, has no job.
LEMMA EgressCrashKeeps ==
  ASSUME EgressNode, NEW n \in Node, agent' = [agent EXCEPT ![n] = Egress!AgentIdle],
         UNCHANGED <<run, rules, moved, profile, dep, jobs>>
  PROVE  EgressNode'
<1> USE DEF EgressNode
<1>1. Egress!AgentIdle \in EgressAgent /\ Egress!AgentIdle.job = 0 /\ Egress!AgentIdle.result = "none"
  BY DEF Egress!AgentIdle, EgressAgent, Egress!NoJob
<1>2. agent' \in [Node -> EgressAgent] /\ agent'[n] = Egress!AgentIdle /\ \A m \in Node \ {n} : agent'[m] = agent[m]
  BY <1>1 DEF EgressType
<1>3. EgressAgents' /\ EgressHandlers'
  <2>1. \A m \in Node : \/ agent'[m].job = 0 /\ agent'[m].result = "none"
                        \/ agent'[m] = agent[m] /\ jobs'[agent[m].job].effect = jobs[agent[m].job].effect
    BY <1>1, <1>2
  <2> QED  BY <2>1, EgressAgentsStay DEF NotStarted
<1>4. EgressType'
  BY <1>2 DEF EgressType
<1>5. EgressEffects' /\ EgressOneTable'
  BY DEF EgressEffects, EgressOneTable
<1>6. EgressLast' /\ EgressReports'
  BY DEF EgressLast, EgressReports, HasJob, LastJob, HasDone, RulesGone
<1>7. EgressPending'
  BY DEF EgressPending, HasJob, LastJob, Egress!Unfinished
<1> QED  BY <1>3, <1>4, <1>5, <1>6, <1>7

\* The only agent with a job is the one of the node.
LEMMA EgressOneAgent ==
  ASSUME EgressNode, NEW n \in Node, agent[n].job # 0
  PROVE  \A m \in Node \ {n} : agent[m].job = 0 /\ agent[m].result = "none"
  BY EgressAgentJobs DEF EgressNode, EgressAgents

\* The agents when one of them has a job.
LEMMA EgressOneWorks ==
  ASSUME NEW n \in Node, NEW j, agent'[n].job = j, j # 0,
         \A m \in Node \ {n} : agent'[m].job = 0 /\ agent'[m].result = "none",
         AgentAlone(n, j, jobs[j].scope)', Progress(n, jobs[j].scope, jobs[j].type)'
  PROVE  EgressAgents' /\ EgressHandlers'
<1>1. /\ AgentAlone(n, agent[n].job, jobs[agent[n].job].scope)'
      /\ Progress(n, jobs[agent[n].job].scope, jobs[agent[n].job].type)'
  OBVIOUS
<1>2. \A m \in Node : m = n \/ m \in Node \ {n}
  OBVIOUS
<1>3. EgressHandlers'
  BY <1>1, <1>2 DEF EgressHandlers
<1>4. EgressAgents'
  BY <1>1, <1>2 DEF EgressAgents
<1> QED  BY <1>3, <1>4

\* agentJobResult: the completion is accepted while the job runs.
LEMMA EgressAcceptKeeps ==
  ASSUME EgressNode, NEW n \in Node, Egress!AgentJobResult(n), UNCHANGED <<run, rules, moved, profile, dep>>
  PROVE  EgressNode'
<1> USE DEF EgressNode
<1>1. agent[n].result \in {"succeeded", "failed"}
  BY DEF Egress!AgentJobResult
<1>2. agent[n].job # 0
  BY <1>1 DEF EgressAgents
<1>3. PICK j : j = agent[n].job
  OBVIOUS
<1>4. j \in DOMAIN jobs /\ AgentAlone(n, j, jobs[j].scope) /\ Progress(n, jobs[j].scope, jobs[j].type)
  BY <1>2, <1>3, EgressAgentJobs DEF EgressAgents, EgressHandlers
<1>5. CASE jobs[j].status # "running"
  <2>1. agent' = [agent EXCEPT ![n] = Egress!AgentIdle] /\ jobs' = jobs
    BY <1>3, <1>5 DEF Egress!AgentJobResult
  <2> QED  BY <2>1, EgressCrashKeeps
<1>6. CASE jobs[j].status = "running"
  <2>1. /\ jobs' = [jobs EXCEPT ![j].status = agent[n].result, ![j].effect = "pending"]
        /\ agent' = [agent EXCEPT ![n].result = "sent"]
    BY <1>3, <1>6, Zenon DEF Egress!AgentJobResult
  <2>2. jobs[j] \in EgressJob
    BY <1>4, EgressJobsTyped
  <2>3. PICK x : x = agent[n].result
    OBVIOUS
  <2>4. PICK r : r = [jobs[j] EXCEPT !.status = x, !.effect = "pending"]
    OBVIOUS
  <2>5. r \in EgressJob /\ r.type = jobs[j].type /\ r.scope = jobs[j].scope /\ r.status = x /\ r.effect = "pending"
    BY <1>1, <2>2, <2>3, <2>4 DEF EgressJob
  <2>6. jobs' = [jobs EXCEPT ![j] = r] /\ jobs'[j] = r
    BY <1>4, <2>1, <2>3, <2>4 DEF EgressType
  <2>7. RowMoves(j)
    BY <1>1, <1>4, <1>6, <2>3, <2>5, <2>6 DEF RowMoves, Progress
  <2>8. /\ agent' \in [Node -> EgressAgent] /\ agent'[n].job = j /\ agent'[n].result = "sent"
        /\ \A m \in Node \ {n} : agent'[m] = agent[m]
    <3>1. agent[n] \in EgressAgent
      BY DEF EgressType
    <3>2. PICK a : a = [agent[n] EXCEPT !.result = "sent"]
      OBVIOUS
    <3>3. a \in EgressAgent /\ a.job = j /\ a.result = "sent"
      BY <1>3, <3>1, <3>2 DEF EgressAgent
    <3>4. agent' = [agent EXCEPT ![n] = a]
      BY <2>1, <3>2
    <3> QED  BY <3>3, <3>4 DEF EgressType
  <2>9. /\ EgressType' /\ EgressEffects' /\ EgressLast' /\ EgressPending' /\ EgressOneTable' /\ EgressReports'
        /\ DOMAIN jobs' = DOMAIN jobs /\ jobs'[j] = r /\ \A i \in DOMAIN jobs \ {j} : jobs'[i] = jobs[i]
    BY <1>4, <2>5, <2>6, <2>7, <2>8, EgressRowKeeps
  <2>10. \A m \in Node \ {n} : agent'[m].job = 0 /\ agent'[m].result = "none"
    BY <1>2, <2>8, EgressOneAgent
  <2>11. AgentAlone(n, j, jobs[j].scope)'
    <3>1. PICK p \in Profile : p = jobs[j].scope
      BY <1>4, EgressJobsTyped
    <3>2. \A q \in Profile : HasJob(q) => dep[q].job \in DOMAIN jobs /\ (q # p => dep[q].job # j)
      BY <3>1, EgressJobsTyped DEF EgressLast, HasJob, LastJob
    <3>3. AgentAlone(n, j, p)'
      BY <1>4, <2>5, <2>8, <2>9, <3>1, <3>2 DEF AgentAlone, HasJob, LastJob, NotStarted
    <3> QED  BY <2>5, <2>9, <3>1, <3>3
  <2>12. Progress(n, jobs[j].scope, jobs[j].type)'
    BY <2>8 DEF Progress
  <2>13. EgressAgents' /\ EgressHandlers'
    BY <1>2, <1>3, <2>8, <2>10, <2>11, <2>12, EgressOneWorks
  <2> QED  BY <2>9, <2>13
<1> QED  BY <1>5, <1>6

\* The steps of the queue that concern the deployments.
LEMMA EgressQueueKeeps ==
  ASSUME EgressNode, Egress!QueueStep  PROVE EgressNode'
<1>1. UNCHANGED <<run, rules, moved, profile, dep>>
  BY DEF Egress!QueueStep, Egress!dbVars, Egress!nodeVars
<1>2. ASSUME NEW n \in Node, Egress!AgentJobResult(n) PROVE EgressNode'
  BY <1>1, <1>2, EgressAcceptKeeps
<1>3. CASE Egress!CompletionCrash
  <2>1. PICK j \in DOMAIN jobs : /\ jobs[j].effect = "pending" /\ jobs' = [jobs EXCEPT ![j].effect = "lost"]
                                 /\ Egress!Answer(j)
    BY <1>3 DEF Egress!CompletionCrash, Egress!Job, Egress!EffectDue
  <2> QED  BY <1>1, <2>1, EgressEffectsKeep
<1>4. CASE Egress!LeaseLapse
  <2>1. PICK j \in DOMAIN jobs : jobs[j].status = "running" /\ jobs' = [jobs EXCEPT ![j].status = "queued"] /\ agent' = agent
    BY <1>4 DEF Egress!LeaseLapse, Egress!Job
  <2> QED  BY <1>1, <2>1, EgressLapses DEF Egress!Unfinished
<1>5. CASE Egress!AgentCrash
  <2>1. PICK n \in Node : agent' = [agent EXCEPT ![n] = Egress!AgentIdle] /\ jobs' = jobs
    BY <1>5 DEF Egress!AgentCrash
  <2> QED  BY <1>1, <2>1, EgressCrashKeeps
<1>6. CASE Egress!CancelJob
  <2>1. PICK j \in DOMAIN jobs : jobs[j].status = "queued" /\ jobs' = [jobs EXCEPT ![j].status = "cancelled"] /\ agent' = agent
    BY <1>6 DEF Egress!CancelJob, Egress!Job
  <2> QED  BY <1>1, <2>1, EgressLapses DEF Egress!Unfinished
<1>7. CASE Egress!RequeueNodeStuckJob
  <2>1. PICK j \in DOMAIN jobs :
          /\ jobs[j].status = "running" /\ agent' = agent
          /\ jobs' = Append([jobs EXCEPT ![j].status = "cancelled"],
                            Egress!newJob(jobs[j].type, jobs[j].node, jobs[j].scope, jobs[j].payload, jobs[j].priority))
    BY <1>7 DEF Egress!RequeueNodeStuckJob, Egress!Job
  <2> QED  BY <1>1, <2>1, EgressRequeuesKeep
<1> QED  BY <1>2, <1>3, <1>4, <1>5, <1>6, <1>7 DEF Egress!QueueStep

-----------------------------------------------------------------------------
(* The handlers. *)

\* The commands a job of the given type of p may have.
CommandsOf(p, type) == {k \in EgressCmd : CommandOf(k, p, type) /\ CommandTable(k, p)}

\* A table the handler of p may name.
HandlerTable(p, t) == t \in EgressTables /\ (t # 0 /\ moved[p] = {} => t = dep[p].table)

\* Commands that name no table.
LEMMA EgressPlainCmd ==
  ASSUME NEW p \in Profile, NEW type \in EgressTypes, NEW t \in EgressTables, NEW cfg \in Nat,
         NEW onFail \in {"abort", "warn", "skip"},
         NEW name \in {"check", "stop", "start", "flush", "unreachable", "ruledel"}
  PROVE  Egress!Cmd(name, p, t, cfg, onFail) \in CommandsOf(p, type)
  BY DEF CommandsOf, CommandOf, CommandTable, EgressCmd, Egress!Cmd, EgressGuard

\* The guard adds the rule of the table it is given.
LEMMA EgressGuardCmds ==
  ASSUME NEW p \in Profile, NEW type \in EgressTypes, NEW t, HandlerTable(p, t), NEW onFail \in {"abort", "warn", "skip"}
  PROVE  /\ Egress!Guard(p, t, onFail) \in Seq(CommandsOf(p, type))
         /\ \A m \in 1..Len(Egress!Guard(p, t, onFail)) : Egress!Guard(p, t, onFail)[m].name \in EgressGuard
<1>1. CASE Egress!PolicyRouted(p) /\ t # 0
  <2>1. PICK a, b, c, d : /\ a = Egress!Cmd("flush", p, t, 0, onFail) /\ b = Egress!Cmd("unreachable", p, t, 0, onFail)
                          /\ c = Egress!Cmd("ruledel", p, t, 0, "skip") /\ d = Egress!Cmd("ruleadd", p, t, 0, onFail)
    OBVIOUS
  <2>2. Egress!Guard(p, t, onFail) = <<a, b, c, d>>
    BY <1>1, <2>1 DEF Egress!Guard, Egress!installExternalEgressFailClosedGuard, Egress!NoTable
  <2>3. {a, b, c} \subseteq CommandsOf(p, type)
    BY <2>1, EgressPlainCmd DEF HandlerTable
  <2>4. d \in CommandsOf(p, type)
    BY <1>1, <2>1 DEF CommandsOf, CommandOf, CommandTable, EgressCmd, Egress!Cmd, EgressGuard, HandlerTable
  <2>5. {a.name, b.name, c.name, d.name} \subseteq EgressGuard
    BY <2>1 DEF Egress!Cmd, EgressGuard
  <2> QED  BY <2>2, <2>3, <2>4, <2>5
<1>2. CASE ~(Egress!PolicyRouted(p) /\ t # 0)
  <2>1. Egress!Guard(p, t, onFail) = <<>>
    BY <1>2 DEF Egress!Guard, Egress!NoTable
  <2> QED  BY <2>1
<1> QED  BY <1>1, <1>2

\* Stopping the unit: the guard of its script, if it is up, and the stop.
LEMMA EgressStopCmds ==
  ASSUME EgressNode, NEW p \in Profile, NEW type \in EgressTypes, NEW onFail \in {"abort", "warn"}
  PROVE  \E g \in Seq(CommandsOf(p, type)) :
           /\ Egress!stopUnit(p, onFail) = g \o <<Egress!Cmd("stop", p, 0, 0, onFail)>>
           /\ \A m \in 1..Len(g) : g[m].name \in EgressGuard
           /\ Egress!Cmd("stop", p, 0, 0, onFail) \in CommandsOf(p, type)
<1>1. HandlerTable(p, run[p].script)
  BY DEF HandlerTable, EgressNode, EgressType, EgressRun, EgressOneTable
<1>2. PICK t : t = run[p].script
  OBVIOUS
<1>3. PICK g : g = IF run[p].unit = "up" THEN Egress!Guard(p, t, "skip") ELSE <<>>
  OBVIOUS
<1>4. g \in Seq(CommandsOf(p, type)) /\ \A m \in 1..Len(g) : g[m].name \in EgressGuard
  <2>1. CASE run[p].unit = "up"
    <3>1. g = Egress!Guard(p, t, "skip")
      BY <1>3, <2>1
    <3>2. HandlerTable(p, t)
      BY <1>1, <1>2
    <3> QED  BY <3>1, <3>2, EgressGuardCmds
  <2>2. CASE run[p].unit # "up"
    <3>1. g = <<>>
      BY <1>3, <2>2
    <3> QED  BY <3>1
  <2> QED  BY <2>1, <2>2
<1>5. Egress!stopUnit(p, onFail) = g \o <<Egress!Cmd("stop", p, 0, 0, onFail)>>
  BY <1>2, <1>3 DEF Egress!stopUnit, Egress!NoTable
<1>6. Egress!Cmd("stop", p, 0, 0, onFail) \in CommandsOf(p, type)
  BY EgressPlainCmd DEF EgressTables
<1> QED  BY <1>4, <1>5, <1>6

\* What the handlers of a job are made of.
LEMMA EgressHandlerCmds ==
  ASSUME EgressNode, NEW p \in Profile, NEW type \in EgressTypes, NEW t, t = dep[p].table, t # 0, NEW cfg \in Nat
  PROVE  /\ Egress!handler(type, p, t, cfg) \in Seq(CommandsOf(p, type))
         /\ TodoShape(Egress!handler(type, p, t, cfg), type)
         /\ type = "cleanup" => Len(Egress!handler(type, p, t, cfg)) > 3
<1>0. PICK S : S = CommandsOf(p, type)
  OBVIOUS
<1>1. t \in EgressTables /\ HandlerTable(p, t)
  BY DEF EgressNode, EgressType, EgressDep, HandlerTable
<1>2. \A a, b \in Seq(S) : a \o b \in Seq(S)
  BY ConcatProperties
<1>3. PICK pr : pr = Egress!Cmd("probe", p, t, cfg, "abort")
  OBVIOUS
<1>4. type # "cleanup" => pr \in S /\ pr.name = "probe"
  BY <1>0, <1>1, <1>3 DEF CommandsOf, CommandOf, CommandTable, EgressCmd, Egress!Cmd
<1>5. CASE type = "probe"
  <2>1. Egress!handler(type, p, t, cfg) = <<pr>>
    BY <1>3, <1>5 DEF Egress!handler
  <2>2. Len(<<pr>>) = 1 /\ <<pr>>[1] = pr /\ <<pr>> \in Seq(S)
    BY <1>4, <1>5
  <2>3. PICK s : s = <<pr>> /\ Len(s) = 1 /\ s[1] = pr /\ s \in Seq(S)
    BY <2>2
  <2>4. TodoShape(s, type)
    BY <1>4, <1>5, <2>3 DEF TodoShape
  <2> QED  BY <1>0, <1>5, <2>1, <2>3, <2>4
<1>6. CASE type = "apply"
  <2>1. PICK s1 : s1 \in Seq(S) /\ s1 = Egress!stopUnit(p, "abort")
    <3>1. PICK g \in Seq(S) : /\ Egress!stopUnit(p, "abort") = g \o <<Egress!Cmd("stop", p, 0, 0, "abort")>>
                              /\ Egress!Cmd("stop", p, 0, 0, "abort") \in S
      BY <1>0, EgressStopCmds
    <3> QED  BY <1>2, <3>1
  <2>2. PICK s2 : s2 \in Seq(S) /\ s2 = Egress!prepareExternalEgressL2TPTakeover(p)
    <3> DEFINE Stale == IF Egress!L2TP(p) THEN {q \in Profile \ {p} : Egress!L2TP(q) /\ run[q].unit # "absent"} ELSE {}
    <3>1. CASE Stale = {}
      <4>1. Egress!prepareExternalEgressL2TPTakeover(p) = <<>>
        BY <3>1 DEF Egress!prepareExternalEgressL2TPTakeover
      <4>2. <<>> \in Seq(S)
        OBVIOUS
      <4> QED  BY <4>1, <4>2
    <3>2. CASE Stale # {}
      <4>1. PICK q : q = CHOOSE x \in Stale : TRUE
        OBVIOUS
      <4>2. q \in Stale
        BY <3>2, <4>1
      <4>3. q \in Profile \ {p} /\ Egress!L2TP(p) /\ Egress!L2TP(q)
        BY <4>2
      <4>4. Egress!Cmd("evict", q, 0, 0, "abort") \in S
        BY <1>0, <1>6, <4>3 DEF CommandsOf, CommandOf, CommandTable, EgressCmd, Egress!Cmd, EgressTables
      <4>5. Egress!prepareExternalEgressL2TPTakeover(p) = <<Egress!Cmd("evict", q, 0, 0, "abort")>>
        BY <3>2, <4>1 DEF Egress!prepareExternalEgressL2TPTakeover, Egress!NoTable
      <4>6. <<Egress!Cmd("evict", q, 0, 0, "abort")>> \in Seq(S)
        BY <4>4
      <4> QED  BY <4>5, <4>6
    <3> QED  BY <3>1, <3>2
  <2>3. PICK s3 : s3 \in Seq(S) /\ s3 = Egress!Guard(p, t, "abort")
    BY <1>0, <1>1, EgressGuardCmds
  <2>4. PICK a, w, st : /\ a = Egress!Cmd("check", p, t, cfg, "abort") /\ w = Egress!Cmd("write", p, t, cfg, "abort")
                        /\ st = Egress!Cmd("start", p, t, cfg, "abort")
    OBVIOUS
  <2>5. a \in S /\ st \in S
    BY <1>0, <1>1, <2>4, EgressPlainCmd
  <2>6. w \in S
    BY <1>0, <1>1, <1>6, <2>4 DEF CommandsOf, CommandOf, CommandTable, EgressCmd, Egress!Cmd
  <2>7. Egress!handler(type, p, t, cfg) = ((((((<<a>> \o s1) \o s2) \o s3) \o <<w>>) \o (s3 \o <<st>>)) \o <<pr>>)
    BY <1>3, <1>6, <2>1, <2>2, <2>3, <2>4 DEF Egress!handler, Egress!applyExternalEgress, Egress!startUnit
  <2>8. PICK x : x \in Seq(S) /\ Egress!handler(type, p, t, cfg) = x \o <<pr>>
    <3>1. <<a>> \in Seq(S) /\ <<w>> \in Seq(S) /\ <<st>> \in Seq(S)
      BY <2>5, <2>6
    <3>2. ((<<a>> \o s1) \o s2) \o s3 \in Seq(S)
      BY <1>2, <2>1, <2>2, <2>3, <3>1
    <3>3. s3 \o <<st>> \in Seq(S)
      BY <1>2, <2>3, <3>1
    <3>4. ((((<<a>> \o s1) \o s2) \o s3) \o <<w>>) \o (s3 \o <<st>>) \in Seq(S)
      BY <1>2, <3>1, <3>2, <3>3
    <3> QED  BY <2>7, <3>4
  <2>9. <<pr>> \in Seq(S) /\ Len(<<pr>>) = 1
    BY <1>4, <1>6
  <2>10. /\ x \o <<pr>> \in Seq(S) /\ Len(x \o <<pr>>) = Len(x) + 1 /\ (x \o <<pr>>)[Len(x) + 1] = pr
         /\ Len(x) \in Nat
    BY <2>8, <2>9, ConcatProperties
  <2>11. PICK y, n : y = x \o <<pr>> /\ y \in Seq(S) /\ Len(y) = n /\ y[n] = pr /\ n \in Nat /\ n > 0
    <3>1. Len(x) + 1 \in Nat /\ Len(x) + 1 > 0
      BY <2>10
    <3> QED  BY <2>10, <3>1, Zenon
  <2>12. TodoShape(y, type)
    BY <1>4, <1>6, <2>11 DEF TodoShape
  <2> QED  BY <1>0, <1>6, <2>8, <2>11, <2>12, Zenon
<1>7. CASE type = "cleanup"
  <2>1. PICK c0, c1, c2, c3 :
          /\ c0 = Egress!Cmd("stop", p, 0, 0, "warn") /\ c1 = Egress!Cmd("policy", p, t, 0, "warn")
          /\ c2 = Egress!Cmd("remove", p, t, 0, "warn") /\ c3 = Egress!Cmd("end", p, t, 0, "warn")
    OBVIOUS
  <2>2. PICK g \in Seq(S) : /\ Egress!stopUnit(p, "warn") = g \o <<c0>>
                            /\ c0 \in S /\ \A m \in 1..Len(g) : g[m].name \in EgressGuard
    BY <1>0, <2>1, EgressStopCmds
  <2>3. Egress!handler(type, p, t, cfg) = (g \o <<c0>>) \o <<c1, c2, c3>>
    BY <1>7, <2>1, <2>2 DEF Egress!handler, Egress!cleanupExternalEgress
  <2>4. c1 \in S /\ c2 \in S /\ c3 \in S
    BY <1>0, <1>1, <1>7, <2>1 DEF CommandsOf, CommandOf, CommandTable, EgressCmd, Egress!Cmd
  <2>5. /\ c0.name = "stop" /\ c1.name = "policy" /\ c2.name = "remove" /\ c3.name = "end"
        /\ c1.onFail = "warn" /\ c2.onFail = "warn" /\ c3.onFail = "warn"
    BY <2>1 DEF Egress!Cmd
  <2>6. PICK h : h = g \o <<c0>>
    OBVIOUS
  <2>7. /\ h \in Seq(S) /\ Len(h) = Len(g) + 1 /\ Len(g) \in Nat
        /\ h[Len(g) + 1] = c0 /\ \A m \in 1..Len(g) : h[m] = g[m]
    <3>1. <<c0>> \in Seq(S) /\ Len(<<c0>>) = 1 /\ <<c0>>[1] = c0
      BY <2>2
    <3> QED  BY <2>2, <2>6, <3>1, ConcatProperties
  <2>8. PICK e : e = <<c1, c2, c3>>
    OBVIOUS
  <2>9. e \in Seq(S) /\ Len(e) = 3 /\ e[1] = c1 /\ e[2] = c2 /\ e[3] = c3
    BY <2>4, <2>8
  <2>10. PICK s : s = h \o e
    OBVIOUS
  <2>11. /\ s \in Seq(S) /\ Len(s) = Len(h) + 3
         /\ \A m \in 1..Len(s) : s[m] = IF m <= Len(h) THEN h[m] ELSE e[m - Len(h)]
    <3>1. /\ h \o e \in Seq(S) /\ Len(h \o e) = Len(h) + Len(e)
          /\ \A i \in 1..Len(h) + Len(e) : (h \o e)[i] = IF i <= Len(h) THEN h[i] ELSE e[i - Len(h)]
      BY <2>7, <2>9, ConcatProperties, Zenon
    <3> QED  BY <2>7, <2>9, <2>10, <3>1
  <2>12. TodoShape(s, type)
    <3>1. /\ Len(s) = Len(g) + 4 /\ s[Len(g) + 1] = c0 /\ s[Len(g) + 2] = c1 /\ s[Len(g) + 3] = c2
          /\ s[Len(g) + 4] = c3
      <4>1. PICK L \in Nat : L = Len(g) /\ Len(h) = L + 1 /\ Len(s) = L + 4
        BY <2>7, <2>11
      <4>2. s[L + 1] = h[L + 1] /\ s[L + 2] = e[(L + 2) - (L + 1)] /\ s[L + 3] = e[(L + 3) - (L + 1)]
            /\ s[L + 4] = e[(L + 4) - (L + 1)]
        BY <2>11, <4>1
      <4>3. (L + 2) - (L + 1) = 1 /\ (L + 3) - (L + 1) = 2 /\ (L + 4) - (L + 1) = 3
        OBVIOUS
      <4> QED  BY <2>7, <2>9, <4>1, <4>2, <4>3
    <3>2. \A m \in 1..Len(g) : s[m].name \in EgressGuard
      BY <2>2, <2>7, <2>11
    <3>3. \A m \in 1..Len(s) : m \in 1..Len(g) \/ m \in {Len(g) + 1, Len(g) + 2, Len(g) + 3, Len(g) + 4}
      BY <2>7, <3>1
    <3> QED  BY <1>7, <2>5, <2>7, <3>1, <3>2, <3>3 DEF TodoShape, CleanupOrder
  <2> QED  BY <1>0, <2>3, <2>6, <2>7, <2>8, <2>10, <2>11, <2>12
<1> QED  BY <1>5, <1>6, <1>7 DEF EgressTypes

\* The agent takes a job: no deployment it could disturb has started another.
LEMMA EgressClaimsKeep ==
  ASSUME EgressInv, EgressNode, NEW n \in Node, NEW j \in DOMAIN jobs, Egress!AgentNextJob(n, j)
  PROVE  EgressNode'
<1> USE DEF EgressNode
<1>1. /\ UNCHANGED <<run, rules, moved, profile, dep>>
      /\ agent[n].job = 0 /\ jobs[j].status = "queued" /\ jobs[j].node = n
  BY DEF Egress!AgentNextJob, Egress!Claimable, Egress!dbVars, Egress!nodeVars, Egress!NoJob
<1>2. PICK p \in Profile, type \in EgressTypes : p = jobs[j].scope /\ type = jobs[j].type
  BY EgressJobsTyped
<1>3. n = Egress!TheNode /\ \A m \in Node : agent[m].job = 0 /\ agent[m].result = "none"
  BY <1>1, EgressJobsTyped, EgressAgentJobs DEF EgressAgents
<1>4. PICK r : r = [jobs[j] EXCEPT !.status = "running"]
  OBVIOUS
<1>5. r \in EgressJob /\ r.type = type /\ r.scope = p /\ r.status = "running" /\ r.effect = "none"
  <2>1. jobs[j] \in EgressJob /\ jobs[j].effect = "none"
    BY <1>1, EgressJobsTyped DEF EgressEffects
  <2> QED  BY <1>2, <1>4, <2>1 DEF EgressJob
<1>6. jobs' = [jobs EXCEPT ![j] = r] /\ jobs'[j] = r
  <2>1. jobs' = [jobs EXCEPT ![j].status = "running"]
    BY DEF Egress!AgentNextJob, Egress!Claim, Egress!ClaimWithoutAnswer
  <2> QED  BY <1>4, <2>1 DEF EgressType
<1>7. RowMoves(j)
  BY <1>1, <1>2, <1>5, <1>6 DEF RowMoves, Egress!Unfinished
<1>8. j # 0
  BY EgressJobsTyped
<1>9. CASE agent' = agent
  <2>1. agent' \in [Node -> EgressAgent]
    BY <1>9 DEF EgressType
  <2>2. EgressAgents' /\ EgressHandlers'
    BY <1>3, <1>9 DEF EgressAgents, EgressHandlers
  <2> QED  BY <1>1, <1>2, <1>5, <1>6, <1>7, <2>1, <2>2, EgressRowKeeps
<1>10. CASE agent' # agent
  <2>1. PICK t, cfg : t = dep[p].table /\ cfg = profile[p].cfg
    OBVIOUS
  <2>2. PICK s : s = Egress!handler(type, p, t, cfg)
    OBVIOUS
  <2>3. PICK a : a = [Egress!AgentIdle EXCEPT !.job = j, !.todo = s]
    OBVIOUS
  <2>4. agent' = [agent EXCEPT ![n] = a]
    BY <1>2, <1>10, <2>1, <2>2, <2>3 DEF Egress!AgentNextJob, Egress!Claim, Egress!ClaimWithoutAnswer
  <2>5. t # 0 /\ cfg \in Nat
    BY <1>2, <2>1 DEF EgressType, EgressLast
  <2>6. s \in Seq(CommandsOf(p, type)) /\ TodoShape(s, type) /\ (type = "cleanup" => Len(s) > 3)
    BY <2>1, <2>2, <2>5, EgressHandlerCmds
  <2>7. s \in Seq(EgressCmd) /\ \A m \in 1..Len(s) : CommandOf(s[m], p, type) /\ CommandTable(s[m], p)
    BY <2>6 DEF CommandsOf
  <2>8. a = [job |-> j, todo |-> s, warned |-> FALSE, result |-> "none"]
    BY <2>3 DEF Egress!AgentIdle
  <2>9. a \in EgressAgent
    BY <2>7, <2>8, EgressJobsTyped DEF EgressAgent
  <2>10. agent' \in [Node -> EgressAgent] /\ agent'[n] = a /\ \A m \in Node \ {n} : agent'[m] = agent[m]
    BY <2>4, <2>9 DEF EgressType
  <2>11. /\ EgressType' /\ EgressEffects' /\ EgressLast' /\ EgressPending' /\ EgressOneTable' /\ EgressReports'
         /\ DOMAIN jobs' = DOMAIN jobs /\ jobs'[j] = r /\ \A i \in DOMAIN jobs \ {j} : jobs'[i] = jobs[i]
    BY <1>1, <1>2, <1>5, <1>6, <1>7, <2>10, EgressRowKeeps
  <2>12. /\ HasJob(p) /\ LastJob(p).type = type /\ (dep[p].job = j \/ LastJob(p).status = "cancelled")
    BY <1>1, <1>2 DEF EgressPending, Egress!Unfinished
  <2>13. \A q \in Profile : HasJob(q) => dep[q].job \in DOMAIN jobs /\ LastJob(q).scope = q
    BY EgressJobsTyped DEF EgressLast, HasJob, LastJob
  <2>14. HasJob(p) /\ dep[p].job # j => NotStarted(dep[p].job)'
    BY <1>1, <2>11, <2>12, <2>13 DEF NotStarted, LastJob
  <2>15. ASSUME type = "apply", Egress!L2TP(p), NEW q \in Profile \ {p}, Egress!L2TP(q), HasJob(q)
         PROVE  LastJob(q).type = "cleanup"
    <3>1. /\ dep[p].desired = "active" /\ dep[p].status \in {"queued", "pending", "active", "failed"}
      BY <2>12, <2>15 DEF EgressLast
    <3>2. ASSUME LastJob(q).type # "cleanup" PROVE FALSE
      <4>1. /\ dep[q].desired = "active" /\ dep[q].status \in {"queued", "pending", "active", "failed"}
        BY <2>15, <3>2 DEF EgressLast
      <4>2. profile[p].status = "active" /\ profile[q].status = "active"
        BY <3>1, <4>1 DEF EgressInv, Egress!DeploymentsAdmissible, Egress!NeededProfileActive, Egress!Live
      <4> QED  BY <2>15, <3>1, <4>1, <4>2 DEF EgressInv, Egress!DeploymentsAdmissible, Egress!OneL2TPRuntime
    <3> QED  BY <3>2
  <2>16. \A q \in Profile \ {p} : HasJob(q) => LastJob(q)' = LastJob(q)
    BY <1>1, <1>2, <2>11, <2>13 DEF LastJob
  <2>17. AgentAlone(n, j, p)'
    <3>1. jobs'[j].type = type /\ jobs'[j].effect = "none" /\ agent'[n].result = "none" /\ j \in DOMAIN jobs'
      BY <1>5, <2>8, <2>10, <2>11
    <3>2. HasJob(p)' /\ dep'[p].job # j => NotStarted(dep[p].job)'
      BY <1>1, <2>14 DEF HasJob
    <3>3. type = "apply" /\ Egress!L2TP(p) =>
            \A q \in Profile \ {p} : ~(Egress!L2TP(q) /\ HasJob(q)' /\ LastJob(q)'.type # "cleanup")
      BY <1>1, <2>15, <2>16 DEF HasJob
    <3> QED  BY <1>1, <1>3, <3>1, <3>2, <3>3 DEF AgentAlone
  <2>18. Progress(n, p, type)'
    <3>1. \A k : CommandTable(k, p) => CommandTable(k, p)'
      BY <1>1 DEF CommandTable
    <3> QED  BY <2>6, <2>7, <2>8, <2>10, <3>1 DEF Progress
  <2>19. EgressAgents' /\ EgressHandlers'
    <3>1. AgentAlone(n, j, jobs[j].scope)' /\ Progress(n, jobs[j].scope, jobs[j].type)'
      BY <1>5, <2>11, <2>17, <2>18
    <3>2. agent'[n].job = j /\ \A m \in Node \ {n} : agent'[m].job = 0 /\ agent'[m].result = "none"
      BY <1>3, <2>8, <2>10
    <3> QED  BY <1>8, <3>1, <3>2, EgressOneWorks
  <2> QED  BY <2>11, <2>19
<1> QED  BY <1>9, <1>10

\* What a command that succeeds leaves of the unit, script and rules of q.
Touches(k, q) ==
  /\ run'[q] \in EgressRun
  /\ k.p # q => run'[q] = run[q]
  /\ \A t \in Table : <<q, t>> \in rules' => <<q, t>> \in rules \/ (k.p = q /\ k.name = "ruleadd" /\ t = k.t)
  /\ k.p = q =>
       /\ k.name \in {"remove", "evict"} => run'[q].unit = "absent" /\ run'[q].script = 0
       /\ k.name = "write" => run'[q].unit # "absent" /\ run'[q].script \in {0, k.t}
       /\ k.name \notin {"remove", "evict", "write"} =>
            /\ run'[q].script = run[q].script
            /\ k.name # "start" => (run'[q].unit = "absent" <=> run[q].unit = "absent")
            /\ k.name = "start" => run'[q].unit # "absent"
       /\ k.name = "policy" /\ moved[q] = {} => \A t \in Table : <<q, t>> \notin rules'

\* The effect of a command, one by one.
LEMMA EgressTouches ==
  ASSUME EgressNode, NEW k \in EgressCmd, k.name \notin {"probe", "end"}, CommandTable(k, k.p), Egress!Effect(k)
  PROVE  /\ \A q \in Profile : Touches(k, q)
         /\ run' \in [Profile -> EgressRun] /\ rules' \subseteq Profile \X Table
<1> USE DEF EgressNode
<1>1. /\ k.p \in Profile /\ k.t \in EgressTables /\ k.cfg \in Nat
      /\ k.name \in EgressGuard \cup {"check", "stop", "evict", "write", "start", "policy", "remove"}
  BY DEF EgressCmd
<1>2. /\ run \in [Profile -> EgressRun] /\ rules \subseteq Profile \X Table
      /\ \A q \in Profile : run[q] \in EgressRun /\ run[q].script \in EgressTables
  BY DEF EgressType, EgressRun
<1>3. Egress!NotInstalled \in EgressRun /\ Egress!NotInstalled.unit = "absent" /\ Egress!NotInstalled.script = 0
  BY DEF Egress!NotInstalled, EgressRun, Egress!NoTable, EgressTables
<1>4. CASE k.name = "check"
  <2>1. run' = run /\ rules' = rules
    BY <1>4 DEF Egress!Effect, Egress!nodeVars
  <2> QED  BY <1>2, <1>4, <2>1 DEF Touches
<1>5. CASE k.name = "stop"
  <2>1. rules' = rules /\ run' = [run EXCEPT ![k.p].unit = IF @ = "up" THEN "stopped" ELSE @]
    BY <1>5 DEF Egress!Effect, Egress!terminateRuntime
  <2>2. PICK u : u = IF run[k.p].unit = "up" THEN "stopped" ELSE run[k.p].unit
    OBVIOUS
  <2>3. PICK x : x = [run[k.p] EXCEPT !.unit = u]
    OBVIOUS
  <2>4. x \in EgressRun /\ x.script = run[k.p].script /\ (x.unit = "absent" <=> run[k.p].unit = "absent")
    BY <1>1, <1>2, <2>2, <2>3 DEF EgressRun
  <2>5. run' = [run EXCEPT ![k.p] = x]
    BY <2>1, <2>2, <2>3
  <2> QED  BY <1>1, <1>2, <1>5, <2>1, <2>4, <2>5 DEF Touches
<1>6. CASE k.name = "write"
  <2>1. PICK x : x = [unit |-> "stopped", cfg |-> k.cfg, script |-> IF Egress!PolicyRouted(k.p) THEN k.t ELSE 0]
    OBVIOUS
  <2>2. rules' = rules /\ run' = [run EXCEPT ![k.p] = x]
    BY <1>6, <2>1 DEF Egress!Effect, Egress!renderExternalEgressRuntime, Egress!NoTable
  <2>3. x \in EgressRun /\ x.script \in {0, k.t} /\ x.unit = "stopped"
    BY <1>1, <2>1 DEF EgressRun, EgressTables
  <2> QED  BY <1>1, <1>2, <1>6, <2>2, <2>3 DEF Touches
<1>7. CASE k.name = "start"
  <2>1. PICK x : x = [run[k.p] EXCEPT !.unit = "up"]
    OBVIOUS
  <2>2. rules' = rules /\ run' = [run EXCEPT ![k.p] = x]
    BY <1>7, <2>1 DEF Egress!Effect, Egress!startRuntime
  <2>3. x \in EgressRun /\ x.script = run[k.p].script /\ x.unit = "up"
    BY <1>1, <1>2, <2>1 DEF EgressRun
  <2> QED  BY <1>1, <1>2, <1>7, <2>2, <2>3 DEF Touches
<1>8. CASE k.name = "evict"
  <2>1. /\ rules' = rules \ {<<k.p, run[k.p].script>>} /\ run' = [run EXCEPT ![k.p] = Egress!NotInstalled]
    BY <1>8 DEF Egress!Effect, Egress!evictRuntime
  <2> QED  BY <1>1, <1>2, <1>3, <1>8, <2>1 DEF Touches
<1>9. CASE k.name = "remove"
  <2>1. rules' = rules /\ run' = [run EXCEPT ![k.p] = Egress!NotInstalled]
    BY <1>9 DEF Egress!Effect, Egress!removeRuntime
  <2> QED  BY <1>1, <1>2, <1>3, <1>9, <2>1 DEF Touches
<1>10. CASE k.name = "policy"
  <2>1. PICK t : t = IF run[k.p].script # 0 THEN run[k.p].script ELSE k.t
    OBVIOUS
  <2>2. run' = run /\ rules' = IF Egress!PolicyRouted(k.p) THEN rules \ {<<k.p, t>>} ELSE rules
    BY <1>10, <2>1 DEF Egress!Effect, Egress!cleanupExternalEgressPolicy, Egress!NoTable
  <2>3. moved[k.p] = {} => t = dep[k.p].table
    BY <1>1, <1>10, <2>1 DEF EgressOneTable, CommandTable
  <2>4. moved[k.p] = {} => \A x \in Table : <<k.p, x>> \notin rules'
    BY <1>1, <2>2, <2>3 DEF EgressOneTable
  <2>5. rules' \subseteq rules
    BY <2>2
  <2> QED  BY <1>1, <1>2, <1>10, <2>2, <2>4, <2>5 DEF Touches
<1>11. CASE k.name \in EgressGuard
  <2>1. Egress!routeScript(k)
    BY <1>11 DEF Egress!Effect, EgressGuard
  <2>2. CASE k.name \in {"flush", "unreachable"}
    <3>1. run' = run /\ rules' = rules
      BY <2>1, <2>2 DEF Egress!routeScript
    <3> QED  BY <1>2, <2>2, <3>1 DEF Touches
  <2>3. CASE k.name = "ruledel"
    <3>1. run' = run /\ rules' = rules \ {<<k.p, k.t>>}
      BY <2>1, <2>3 DEF Egress!routeScript
    <3> QED  BY <1>2, <2>3, <3>1 DEF Touches
  <2>4. CASE k.name = "ruleadd"
    <3>1. run' = run /\ rules' = rules \cup {<<k.p, k.t>>}
      BY <2>1, <2>4 DEF Egress!routeScript
    <3>2. k.t \in Table
      BY <1>1, <2>4 DEF CommandTable, EgressTables
    <3> QED  BY <1>1, <1>2, <2>4, <3>1, <3>2 DEF Touches
  <2> QED  BY <1>11, <2>2, <2>3, <2>4 DEF EgressGuard
<1> QED  BY <1>1, <1>4, <1>5, <1>6, <1>7, <1>8, <1>9, <1>10, <1>11

\* A command of the agent's job leaves alone what other jobs have reported.
LEMMA EgressTouchKeeps ==
  ASSUME EgressNode, NEW n \in Node, NEW j, NEW p, NEW type, NEW k, j = agent[n].job, j # 0,
         p = jobs[j].scope, type = jobs[j].type, agent[n].result = "none",
         k.p \in Profile, CommandOf(k, p, type), CommandTable(k, k.p),
         \A q \in Profile : Touches(k, q), UNCHANGED <<jobs, dep, moved>>
  PROVE  EgressOneTable' /\ EgressReports'
<1> USE DEF EgressNode
<1>1. AgentAlone(n, j, p) /\ p \in Profile /\ j \in DOMAIN jobs
  BY EgressAgentJobs DEF EgressAgents
<1>2. EgressOneTable'
  <2> SUFFICES ASSUME NEW q \in Profile PROVE EgressOneTable!(q)'
    BY DEF EgressOneTable
  <2>1. EgressOneTable!(q) /\ Touches(k, q)
    BY DEF EgressOneTable
  <2> QED  BY <2>1 DEF Touches, CommandTable
<1>3. EgressReports'
  <2> SUFFICES ASSUME NEW q \in Profile, HasJob(q), LastJob(q).status = "succeeded"
               PROVE  HasDone(q, LastJob(q).type)'
    BY DEF EgressReports, HasJob, LastJob
  <2>1. PICK y : y = LastJob(q).type
    OBVIOUS
  <2>2. HasDone(q, y) /\ Touches(k, q)
    BY <2>1 DEF EgressReports
  <2>3. jobs[j].status # "succeeded"
    BY <1>1 DEF AgentAlone, EgressEffects
  <2>4. q # p
    <3>1. HasJob(p) /\ dep[p].job # j => NotStarted(dep[p].job)
      BY <1>1 DEF AgentAlone
    <3> QED  BY <2>3, <3>1 DEF NotStarted, LastJob
  <2>5. ASSUME k.p # q PROVE HasDone(q, y)'
    BY <2>2, <2>5 DEF Touches, HasDone, RulesGone
  <2>6. ASSUME k.p = q PROVE HasDone(q, y)'
    <3>1. k.name = "evict" /\ type = "apply" /\ Egress!L2TP(p) /\ Egress!L2TP(q)
      BY <2>4, <2>6 DEF CommandOf
    <3>2. y = "cleanup"
      <4>1. Egress!L2TP(q) /\ HasJob(q) /\ LastJob(q).type # "cleanup" => NotStarted(dep[q].job)
        BY <1>1, <2>4, <3>1 DEF AgentAlone
      <4> QED  BY <2>1, <3>1, <4>1 DEF NotStarted, LastJob
    <3> QED  BY <2>2, <2>6, <3>1, <3>2 DEF Touches, HasDone, RulesGone
  <2>7. HasDone(q, y)'
    BY <2>5, <2>6
  <2> QED  BY <2>1, <2>7 DEF LastJob
<1> QED  BY <1>2, <1>3

\* What is left of a handler after its first command.
LEMMA EgressTail ==
  ASSUME NEW s \in Seq(EgressCmd), NEW type, TodoShape(s, type),
         type = "cleanup" => Head(s).name # "end", type # "cleanup" => Head(s).name # "probe"
  PROVE  /\ Head(s) = s[1] /\ Tail(s) \in Seq(EgressCmd) /\ Len(Tail(s)) = Len(s) - 1
         /\ \A m \in 1..Len(Tail(s)) : Tail(s)[m] = s[m + 1]
         /\ TodoShape(Tail(s), type)
<1>1. /\ Len(s) \in Nat /\ Len(s) > 0 /\ s # <<>>
  BY DEF TodoShape
<1>2. /\ Head(s) = s[1] /\ Tail(s) \in Seq(EgressCmd) /\ Len(Tail(s)) = Len(s) - 1
      /\ \A m \in 1..Len(Tail(s)) : Tail(s)[m] = s[m + 1]
  BY <1>1
<1>3. Len(s) > 1
  <2>1. 1 \in 1..Len(s)
    BY <1>1
  <2>2. CASE type = "cleanup"
    <3>1. CleanupOrder(s[1], 1, Len(s))
      BY <2>1, <2>2 DEF TodoShape
    <3> QED  BY <1>1, <1>2, <2>2, <3>1 DEF CleanupOrder
  <2>3. CASE type # "cleanup"
    BY <1>1, <1>2, <2>1, <2>3 DEF TodoShape
  <2> QED  BY <2>2, <2>3
<1>4. PICK t : t = Tail(s)
  OBVIOUS
<1>5. TodoShape(t, type)
  <2>1. CASE type = "cleanup"
    <3>1. PICK L : L = Len(t)
      OBVIOUS
    <3>2. L \in Nat /\ Len(s) = L + 1 /\ L > 0 /\ \A m \in 1..L : t[m] = s[m + 1] /\ m + 1 \in 1..(L + 1)
      BY <1>1, <1>2, <1>3, <1>4, <3>1
    <3>3. \A m \in 1..(L + 1) : CleanupOrder(s[m], m, L + 1)
      BY <2>1, <3>2 DEF TodoShape
    <3>4. \A m \in 1..L : CleanupOrder(t[m], m, L)
      BY <3>2, <3>3 DEF CleanupOrder
    <3> QED  BY <2>1, <3>1, <3>2, <3>4 DEF TodoShape
  <2>2. CASE type # "cleanup"
    <3>1. Len(t) \in 1..Len(t) /\ Len(t) + 1 = Len(s) /\ Len(t) > 0
      BY <1>1, <1>2, <1>3, <1>4
    <3>2. t[Len(t)] = s[Len(t) + 1]
      BY <1>2, <1>4, <3>1
    <3>3. t[Len(t)].name = "probe"
      BY <2>2, <3>1, <3>2 DEF TodoShape
    <3> QED  BY <2>2, <3>1, <3>3 DEF TodoShape
  <2> QED  BY <2>1, <2>2
<1> QED  BY <1>2, <1>4, <1>5

\* The agent of n has run k, the first command of s, or that has failed.
WorkDone(n, p, type, s, k, a) ==
  /\ \/ run' = run /\ rules' = rules
     \/ \A q \in Profile : Touches(k, q)
  /\ \/ a.result = "failed"
     \/ a.result = "succeeded" /\ HasDone(p, type)'
     \/ /\ a.result = "none" /\ a.todo = Tail(s) /\ k.name \notin {"probe", "end"}
        /\ \/ a.warned
           \/ a.warned = agent[n].warned /\ k.onFail = "skip" /\ run' = run /\ rules' = rules
           \/ a.warned = agent[n].warned /\ \A q \in Profile : Touches(k, q)

\* The steps of an agent at work: it has done the first command, or that has
\* failed, and goes on with the rest or ends.
LEMMA EgressWorkKeeps ==
  ASSUME EgressNode, NEW n \in Node, NEW j, NEW p, NEW type, NEW s, NEW k, NEW a,
         j = agent[n].job, j # 0, p = jobs[j].scope, type = jobs[j].type, agent[n].result = "none",
         s = agent[n].todo, k = Head(s),
         UNCHANGED <<jobs, dep, moved, profile>>,
         agent' = [agent EXCEPT ![n] = a], a \in EgressAgent, a.job = j,
         run' \in [Profile -> EgressRun], rules' \subseteq Profile \X Table,
         WorkDone(n, p, type, s, k, a)
  PROVE  EgressNode'
<1> USE DEF EgressNode
<1>1. AgentAlone(n, j, p) /\ Progress(n, p, type) /\ p \in Profile /\ type \in EgressTypes /\ j \in DOMAIN jobs
  BY EgressAgentJobs DEF EgressAgents, EgressHandlers
<1>2. s \in Seq(EgressCmd)
  BY DEF EgressType, EgressAgent
<1>3. TodoShape(s, type) /\ \A m \in 1..Len(s) : CommandOf(s[m], p, type) /\ CommandTable(s[m], p)
  BY <1>1 DEF Progress
<1>4. /\ Len(s) \in Nat /\ Len(s) > 0 /\ k = s[1] /\ k \in EgressCmd /\ k.p \in Profile
  <2>1. Len(s) \in Nat /\ Len(s) > 0 /\ s # <<>>
    BY <1>2, <1>3 DEF TodoShape
  <2>2. k = s[1] /\ k \in EgressCmd
    BY <1>2, <2>1
  <2> QED  BY <2>1, <2>2 DEF EgressCmd
<1>5. CommandOf(k, p, type) /\ CommandTable(k, k.p)
  <2>1. CommandOf(k, p, type) /\ CommandTable(k, p)
    BY <1>3, <1>4
  <2> QED  BY <2>1 DEF CommandOf, CommandTable
<1>6. EgressOneTable' /\ EgressReports'
  <2>1. CASE run' = run /\ rules' = rules
    BY <2>1 DEF EgressOneTable, EgressReports, HasJob, LastJob, HasDone, RulesGone
  <2>2. CASE \A q \in Profile : Touches(k, q)
    BY <1>4, <1>5, <2>2, EgressTouchKeeps
  <2> QED  BY <2>1, <2>2 DEF WorkDone
<1>7. EgressType'
  BY DEF EgressType
<1>8. EgressEffects' /\ EgressLast' /\ EgressPending'
  BY DEF EgressEffects, EgressLast, EgressPending, HasJob, LastJob, Egress!Unfinished
<1>9. agent'[n] = a /\ \A m \in Node \ {n} : agent'[m] = agent[m]
  BY DEF EgressType
<1>10. \A m \in Node \ {n} : agent'[m].job = 0 /\ agent'[m].result = "none"
  BY <1>9, EgressOneAgent
<1>11. AgentAlone(n, j, p)'
  <2>1. a.result # "sent"
    BY DEF WorkDone
  <2> QED  BY <1>1, <1>9, <2>1 DEF AgentAlone, HasJob, LastJob, NotStarted
<1>12. Progress(n, p, type)'
  <2>1. CASE a.result \in {"failed", "succeeded"}
    BY <1>9, <2>1 DEF Progress, WorkDone
  <2>2. CASE a.result = "none"
    <3>1. a.todo = Tail(s) /\ k.name \notin {"probe", "end"}
      BY <2>2 DEF WorkDone
    <3>2. PICK t : t = Tail(s)
      OBVIOUS
    <3>3. /\ t \in Seq(EgressCmd) /\ Len(t) = Len(s) - 1 /\ TodoShape(t, type)
          /\ \A m \in 1..Len(t) : t[m] = s[m + 1]
      BY <1>2, <1>3, <3>1, <3>2, EgressTail
    <3>4. \A m \in 1..Len(t) : CommandOf(t[m], p, type) /\ CommandTable(t[m], p)'
      <4>1. \A m \in 1..Len(t) : m + 1 \in 1..Len(s)
        BY <1>4, <3>3
      <4>2. \A x : CommandTable(x, p) => CommandTable(x, p)'
        BY DEF CommandTable
      <4> QED  BY <1>3, <3>3, <4>1, <4>2
    <3>5. ASSUME type = "cleanup", ~a.warned
          PROVE  /\ Len(t) <= 2 => RulesGone(p)'
                 /\ Len(t) = 1 => run'[p].unit = "absent"
      <4>0. /\ Len(t) <= 2 => Len(s) = 3 \/ Len(s) <= 2
            /\ Len(t) = 1 => Len(s) = 2
        <5>1. PICK x, y : x \in Nat /\ y = x - 1 /\ x = Len(s) /\ y = Len(t)
          BY <1>4, <3>3
        <5>2. x \in Nat /\ y = x - 1
          BY <5>1
        <5>3. /\ y <= 2 => x = 3 \/ x <= 2
              /\ y = 1 => x = 2
          BY ONLY <5>2
        <5> QED  BY <5>1, <5>3
      <4>1. ~agent[n].warned
        BY <2>2, <3>5 DEF EgressType, EgressAgent, WorkDone
      <4>2. /\ Len(s) <= 2 => RulesGone(p)
        BY <1>1, <3>5, <4>1 DEF Progress
      <4>3. /\ Len(s) = 3 => k.name = "policy" /\ k.onFail = "warn"
            /\ Len(s) = 2 => k.name = "remove" /\ k.onFail = "warn"
            /\ Len(s) < 4 => k.name # "ruleadd"
            /\ k.p = p
        <5>1. 1 \in 1..Len(s)
          BY <1>4
        <5>2. CleanupOrder(k, 1, Len(s))
          BY <1>3, <1>4, <3>5, <5>1 DEF TodoShape
        <5>3. k.p = p
          BY <1>5, <3>5 DEF CommandOf
        <5>4. PICK L \in Nat : L = Len(s)
          BY <1>4
        <5>5. CleanupOrder(k, 1, L) /\ L > 0
          BY <1>4, <5>2, <5>4
        <5>6. L = 3 => k.name = "policy" /\ k.onFail = "warn"
          BY <5>5 DEF CleanupOrder
        <5>7. L = 2 => k.name = "remove" /\ k.onFail = "warn"
          BY <5>5 DEF CleanupOrder
        <5>8. L = 1 => k.name = "end"
          BY <5>5 DEF CleanupOrder
        <5>9. L < 4 => k.name # "ruleadd"
          BY <5>5, <5>6, <5>7, <5>8
        <5> QED  BY <5>3, <5>4, <5>6, <5>7, <5>9
      <4>4. \/ k.onFail = "skip" /\ run' = run /\ rules' = rules
            \/ Touches(k, p)
        BY <1>1, <2>2, <3>5 DEF WorkDone
      <4>5. Len(t) <= 2 => RulesGone(p)'
        <5>1. ASSUME Len(s) = 3 PROVE RulesGone(p)'
          <6>1. Touches(k, p) /\ k.name = "policy"
            BY <4>3, <4>4, <5>1
          <6>2. moved[p] = {} => \A u \in Table : <<p, u>> \notin rules'
            BY <4>3, <6>1 DEF Touches
          <6> QED  BY <6>2 DEF RulesGone
        <5>2. ASSUME Len(s) <= 2 PROVE RulesGone(p)'
          <6>1. RulesGone(p) /\ k.name # "ruleadd"
            BY <1>4, <4>2, <4>3, <5>2
          <6>2. CASE rules' = rules
            BY <6>1, <6>2 DEF RulesGone
          <6>3. CASE Touches(k, p)
            <7>1. \A u \in Table : <<p, u>> \in rules' => <<p, u>> \in rules
              BY <6>1, <6>3 DEF Touches
            <7> QED  BY <6>1, <7>1 DEF RulesGone
          <6> QED  BY <4>4, <6>2, <6>3
        <5> QED  BY <4>0, <5>1, <5>2
      <4>6. ASSUME Len(t) = 1 PROVE run'[p].unit = "absent"
        <5>1. Len(s) = 2
          BY <4>0, <4>6
        <5>2. Touches(k, p) /\ k.name = "remove" /\ k.p = p
          BY <4>3, <4>4, <5>1
        <5> QED  BY <5>2 DEF Touches
      <4> QED  BY <4>5, <4>6
    <3> QED  BY <1>9, <2>2, <3>1, <3>2, <3>3, <3>4, <3>5 DEF Progress
  <2>3. a.result \in {"failed", "succeeded", "none"}
    BY DEF WorkDone
  <2> QED  BY <2>1, <2>2, <2>3
<1>13. EgressAgents' /\ EgressHandlers'
  <2>1. AgentAlone(n, j, jobs[j].scope)' /\ Progress(n, jobs[j].scope, jobs[j].type)'
    BY <1>11, <1>12
  <2> QED  BY <1>9, <1>10, <2>1, EgressOneWorks
<1> QED  BY <1>6, <1>7, <1>8, <1>13

\* What the agent that works for a job is about to do.
LEMMA EgressWorking ==
  ASSUME EgressNode, NEW n \in Node, Egress!Working(n)
  PROVE  /\ agent[n] \in EgressAgent /\ agent[n].job # 0 /\ agent[n].result = "none"
         /\ agent[n].todo \in Seq(EgressCmd) /\ agent[n].todo # <<>> /\ Tail(agent[n].todo) \in Seq(EgressCmd)
         /\ Head(agent[n].todo) \in EgressCmd
         /\ CommandOf(Head(agent[n].todo), jobs[agent[n].job].scope, jobs[agent[n].job].type)
         /\ CommandTable(Head(agent[n].todo), Head(agent[n].todo).p)
         /\ jobs[agent[n].job].type = "cleanup" =>
              /\ Head(agent[n].todo).name # "probe"
              /\ Head(agent[n].todo).name = "end" => Len(agent[n].todo) = 1
<1> USE DEF EgressNode
<1>1. agent[n] \in EgressAgent /\ agent[n].job # 0 /\ agent[n].result = "none"
  BY DEF Egress!Working, Egress!NoJob, EgressType
<1>2. PICK s, p, type : s = agent[n].todo /\ p = jobs[agent[n].job].scope /\ type = jobs[agent[n].job].type
  OBVIOUS
<1>3. s \in Seq(EgressCmd)
  BY <1>1, <1>2 DEF EgressAgent
<1>4. Progress(n, p, type)
  BY <1>1, <1>2 DEF EgressHandlers
<1>5. TodoShape(s, type) /\ \A m \in 1..Len(s) : CommandOf(s[m], p, type) /\ CommandTable(s[m], p)
  BY <1>1, <1>2, <1>4 DEF Progress
<1>6. Len(s) \in Nat /\ Len(s) > 0 /\ s # <<>>
  BY <1>3, <1>5 DEF TodoShape
<1>7. 1 \in 1..Len(s) /\ Head(s) = s[1] /\ Head(s) \in EgressCmd /\ Tail(s) \in Seq(EgressCmd)
  BY <1>3, <1>6
<1>8. CommandOf(Head(s), p, type) /\ CommandTable(Head(s), p)
  BY <1>5, <1>7
<1>9. CommandTable(Head(s), Head(s).p)
  BY <1>8 DEF CommandOf, CommandTable
<1>10. ASSUME type = "cleanup" PROVE Head(s).name # "probe" /\ (Head(s).name = "end" => Len(s) = 1)
  <2>1. PICK x, k : x = Len(s) /\ k = Head(s)
    OBVIOUS
  <2>2. x \in Nat /\ x > 0 /\ CleanupOrder(k, 1, x)
    BY <1>5, <1>6, <1>7, <1>10, <2>1 DEF TodoShape
  <2>3. k.name # "probe" /\ (k.name = "end" => x = 1)
    <3>1. x = 1 => k.name = "end"
      BY <2>2 DEF CleanupOrder
    <3>2. x = 2 => k.name = "remove"
      BY <2>2 DEF CleanupOrder
    <3>3. x = 3 => k.name = "policy"
      BY <2>2 DEF CleanupOrder
    <3>4. x = 4 => k.name = "stop"
      BY <2>2 DEF CleanupOrder
    <3>5. x > 4 => k.name \in EgressGuard
      BY <2>2 DEF CleanupOrder
    <3>6. x \in 1..4 \/ x > 4
      BY <2>2
    <3> QED  BY <3>1, <3>2, <3>3, <3>4, <3>5, <3>6 DEF EgressGuard
  <2> QED  BY <2>1, <2>3
<1> QED  BY <1>1, <1>2, <1>3, <1>6, <1>7, <1>8, <1>9, <1>10

\* What a step of a handler makes of its agent.
LEMMA EgressAgentMoves ==
  ASSUME NEW f \in [Node -> EgressAgent], NEW n \in Node, NEW r \in {"succeeded", "failed"},
         Tail(f[n].todo) \in Seq(EgressCmd)
  PROVE  /\ \E a \in EgressAgent :
              /\ [f EXCEPT ![n].todo = Tail(@)] = [f EXCEPT ![n] = a]
              /\ a.job = f[n].job /\ a.todo = Tail(f[n].todo)
              /\ a.warned = f[n].warned /\ a.result = f[n].result
         /\ \E a \in EgressAgent :
              /\ [f EXCEPT ![n].todo = Tail(@), ![n].warned = TRUE] = [f EXCEPT ![n] = a]
              /\ a.job = f[n].job /\ a.todo = Tail(f[n].todo) /\ a.warned /\ a.result = f[n].result
         /\ \E a \in EgressAgent :
              /\ [f EXCEPT ![n].result = r, ![n].todo = <<>>] = [f EXCEPT ![n] = a]
              /\ a.job = f[n].job /\ a.result = r
<1>1. PICK b \in EgressAgent : b = f[n]
  OBVIOUS
<1>2. PICK t \in Seq(EgressCmd) : t = Tail(b.todo)
  BY <1>1
<1>3. PICK a : a = [b EXCEPT !.todo = t]
  OBVIOUS
<1>4. a \in EgressAgent /\ a.job = b.job /\ a.todo = t /\ a.warned = b.warned /\ a.result = b.result
  BY <1>3 DEF EgressAgent
<1>5. [f EXCEPT ![n].todo = Tail(@)] = [f EXCEPT ![n] = a]
  BY <1>1, <1>2, <1>3
<1>6. PICK c : c = [b EXCEPT !.todo = t, !.warned = TRUE]
  OBVIOUS
<1>7. c \in EgressAgent /\ c.job = b.job /\ c.todo = t /\ c.warned /\ c.result = b.result
  BY <1>6 DEF EgressAgent
<1>8. [f EXCEPT ![n].todo = Tail(@), ![n].warned = TRUE] = [f EXCEPT ![n] = c]
  BY <1>1, <1>2, <1>6
<1>0. PICK e : e \in Seq(EgressCmd) /\ e = <<>>
  <2>1. <<>> \in Seq(EgressCmd)
    OBVIOUS
  <2> QED  BY <2>1
<1>9. PICK d : d = [b EXCEPT !.result = r, !.todo = e]
  OBVIOUS
<1>10. d \in EgressAgent /\ d.job = b.job /\ d.result = r
  BY <1>0, <1>9 DEF EgressAgent
<1>11. [f EXCEPT ![n].result = r, ![n].todo = <<>>] = [f EXCEPT ![n] = d]
  BY <1>0, <1>1, <1>9
<1>12. \E x \in EgressAgent :
         /\ [f EXCEPT ![n].todo = Tail(@)] = [f EXCEPT ![n] = x]
         /\ x.job = f[n].job /\ x.todo = Tail(f[n].todo)
         /\ x.warned = f[n].warned /\ x.result = f[n].result
  BY <1>1, <1>2, <1>4, <1>5, Zenon
<1>13. \E x \in EgressAgent :
         /\ [f EXCEPT ![n].todo = Tail(@), ![n].warned = TRUE] = [f EXCEPT ![n] = x]
         /\ x.job = f[n].job /\ x.todo = Tail(f[n].todo) /\ x.warned /\ x.result = f[n].result
  BY <1>1, <1>2, <1>7, <1>8, Zenon
<1>14. \E x \in EgressAgent :
         /\ [f EXCEPT ![n].result = r, ![n].todo = <<>>] = [f EXCEPT ![n] = x]
         /\ x.job = f[n].job /\ x.result = r
  BY <1>1, <1>10, <1>11, Zenon
<1> QED  BY <1>12, <1>13, <1>14

\* A command has been run.
LEMMA EgressCommandKeeps ==
  ASSUME EgressNode, NEW n \in Node, Egress!AgentCommand(n)
  PROVE  EgressNode'
<1>1. PICK s, j, p, type, k, w :
        /\ s = agent[n].todo /\ j = agent[n].job /\ p = jobs[j].scope /\ type = jobs[j].type
        /\ k = Head(s) /\ w = agent[n].warned
  OBVIOUS
<1>2. Egress!Working(n) /\ UNCHANGED <<jobs, dep, moved, profile>>
  BY DEF Egress!AgentCommand, Egress!dbVars
<1>3. /\ agent[n] \in EgressAgent /\ j # 0 /\ agent[n].result = "none" /\ s \in Seq(EgressCmd) /\ k \in EgressCmd
      /\ Tail(s) \in Seq(EgressCmd) /\ CommandOf(k, p, type) /\ CommandTable(k, k.p)
      /\ type = "cleanup" => k.name # "probe" /\ (k.name = "end" => Len(s) = 1)
  BY <1>1, <1>2, EgressWorking
<1>4. /\ run \in [Profile -> EgressRun] /\ rules \subseteq Profile \X Table
      /\ agent \in [Node -> EgressAgent] /\ j \in Nat /\ w \in BOOLEAN
  BY <1>1, <1>3 DEF EgressNode, EgressType, EgressAgent
<1>5. CASE k.name \notin {"probe", "end"} /\ Egress!Effect(k) /\ Egress!Advance(n)
  <2>1. agent' = [agent EXCEPT ![n].todo = Tail(@)]
    BY <1>5 DEF Egress!Advance
  <2>2. PICK a \in EgressAgent :
          /\ [agent EXCEPT ![n].todo = Tail(@)] = [agent EXCEPT ![n] = a]
          /\ a.job = agent[n].job /\ a.todo = Tail(agent[n].todo)
          /\ a.warned = agent[n].warned /\ a.result = agent[n].result
    BY <1>1, <1>3, <1>4, EgressAgentMoves
  <2>3. agent' = [agent EXCEPT ![n] = a]
    BY <2>1, <2>2
  <2>4. /\ \A q \in Profile : Touches(k, q)
        /\ run' \in [Profile -> EgressRun] /\ rules' \subseteq Profile \X Table
    BY <1>3, <1>5, EgressTouches
  <2>5. a.job = j /\ a.result = "none" /\ a.todo = Tail(s) /\ a.warned = agent[n].warned
    BY <1>1, <1>3, <2>2
  <2>6. WorkDone(n, p, type, s, k, a)
    BY <1>5, <2>4, <2>5 DEF WorkDone
  <2> QED  BY <1>1, <1>2, <1>3, <2>2, <2>3, <2>4, <2>5, <2>6, EgressWorkKeeps
<1>6. ASSUME NEW r \in {"succeeded", "failed"}, Egress!Finish(n, r), UNCHANGED Egress!nodeVars,
             r = "succeeded" => HasDone(p, type)
      PROVE  EgressNode'
  <2>1. agent' = [agent EXCEPT ![n].result = r, ![n].todo = <<>>]
    BY <1>6 DEF Egress!Finish
  <2>0. /\ agent \in [Node -> EgressAgent] /\ r \in {"succeeded", "failed"}
        /\ Tail(agent[n].todo) \in Seq(EgressCmd)
    BY <1>1, <1>3, <1>4
  <2>2. PICK a \in EgressAgent :
          /\ [agent EXCEPT ![n].result = r, ![n].todo = <<>>] = [agent EXCEPT ![n] = a]
          /\ a.job = agent[n].job /\ a.result = r
    <3>1. \E a \in EgressAgent :
            /\ [agent EXCEPT ![n].result = "succeeded", ![n].todo = <<>>] = [agent EXCEPT ![n] = a]
            /\ a.job = agent[n].job /\ a.result = "succeeded"
      BY <2>0, EgressAgentMoves
    <3>2. \E a \in EgressAgent :
            /\ [agent EXCEPT ![n].result = "failed", ![n].todo = <<>>] = [agent EXCEPT ![n] = a]
            /\ a.job = agent[n].job /\ a.result = "failed"
      BY <2>0, EgressAgentMoves
    <3>3. CASE r = "succeeded"
      BY <3>1, <3>3
    <3>4. CASE r = "failed"
      BY <3>2, <3>4
    <3> QED  BY <2>0, <3>3, <3>4
  <2>3. agent' = [agent EXCEPT ![n] = a]
    BY <2>1, <2>2
  <2>4. run' = run /\ rules' = rules
    BY <1>6 DEF Egress!nodeVars
  <2>5. r = "succeeded" => HasDone(p, type)'
    BY <1>2, <1>6, <2>4 DEF HasDone, RulesGone
  <2>6. a.job = j /\ (a.result = "failed" \/ (a.result = "succeeded" /\ HasDone(p, type)'))
    BY <1>1, <1>6, <2>2, <2>5
  <2>7. WorkDone(n, p, type, s, k, a) /\ run' \in [Profile -> EgressRun] /\ rules' \subseteq Profile \X Table
    BY <1>4, <2>4, <2>6 DEF WorkDone
  <2> QED  BY <1>1, <1>2, <1>3, <2>2, <2>3, <2>6, <2>7, EgressWorkKeeps
<1>7. ASSUME k.name = "probe", Egress!Finish(n, IF Egress!probeExternalEgress(k) THEN "succeeded" ELSE "failed"),
             UNCHANGED Egress!nodeVars
      PROVE  EgressNode'
  <2>1. Egress!probeExternalEgress(k) => HasDone(p, type)
    <3>1. type # "cleanup" /\ k.p = p
      <4>1. type # "cleanup"
        BY <1>3, <1>7
      <4> QED  BY <1>3, <1>7, <4>1 DEF CommandOf
    <3> QED  BY <3>1 DEF Egress!probeExternalEgress, HasDone
  <2>2. CASE Egress!probeExternalEgress(k)
    BY <1>6, <1>7, <2>1, <2>2
  <2>3. CASE ~Egress!probeExternalEgress(k)
    BY <1>6, <1>7, <2>3
  <2> QED  BY <2>2, <2>3
<1>8. ASSUME k.name = "end", Egress!Finish(n, IF agent[n].warned THEN "failed" ELSE "succeeded"),
             UNCHANGED Egress!nodeVars
      PROVE  EgressNode'
  <2>1. CASE agent[n].warned
    BY <1>6, <1>8, <2>1
  <2>2. CASE ~agent[n].warned
    <3>1. type = "cleanup"
      BY <1>3, <1>8 DEF CommandOf
    <3>2. Len(s) = 1
      BY <1>3, <1>8, <3>1
    <3>3. Progress(n, p, type)
      BY <1>1, <1>3 DEF EgressNode, EgressHandlers
    <3>4. HasDone(p, type)
      BY <1>1, <1>3, <2>2, <3>1, <3>2, <3>3 DEF Progress, HasDone
    <3> QED  BY <1>6, <1>8, <2>2, <3>4
  <2> QED  BY <2>1, <2>2
<1> QED  BY <1>1, <1>5, <1>7, <1>8 DEF Egress!AgentCommand

\* A command has failed: the handler gives up, notes it, or never minds.
LEMMA EgressFailsKeep ==
  ASSUME EgressNode, NEW n \in Node, Egress!CommandFails(n)
  PROVE  EgressNode'
<1>1. PICK s, j, p, type, k, w :
        /\ s = agent[n].todo /\ j = agent[n].job /\ p = jobs[j].scope /\ type = jobs[j].type
        /\ k = Head(s) /\ w = agent[n].warned
  OBVIOUS
<1>2. /\ Egress!Working(n) /\ UNCHANGED <<jobs, dep, moved, profile>> /\ run' = run /\ rules' = rules
      /\ k.name # "end"
  BY <1>1 DEF Egress!CommandFails, Egress!dbVars, Egress!nodeVars
<1>3. /\ agent[n] \in EgressAgent /\ j # 0 /\ agent[n].result = "none" /\ s \in Seq(EgressCmd) /\ k \in EgressCmd
      /\ Tail(s) \in Seq(EgressCmd) /\ CommandOf(k, p, type) /\ CommandTable(k, k.p)
      /\ type = "cleanup" => k.name # "probe"
  BY <1>1, <1>2, EgressWorking
<1>4. /\ run' \in [Profile -> EgressRun] /\ rules' \subseteq Profile \X Table
      /\ agent \in [Node -> EgressAgent]
  BY <1>1, <1>2, <1>3 DEF EgressNode, EgressType
<1>5. k.onFail # "abort" => k.name \notin {"probe", "end"}
  <2>1. CASE type = "cleanup"
    BY <1>2, <1>3, <2>1
  <2>2. CASE type # "cleanup"
    BY <1>2, <1>3, <2>2 DEF CommandOf
  <2> QED  BY <2>1, <2>2
<1>6. k.onFail \in {"abort", "warn", "skip"}
  BY <1>3 DEF EgressCmd
<1>7. CASE k.onFail = "abort"
  <2>1. agent' = [agent EXCEPT ![n].result = "failed", ![n].todo = <<>>]
    BY <1>1, <1>7 DEF Egress!CommandFails, Egress!Finish
  <2>2. PICK a \in EgressAgent :
          /\ [agent EXCEPT ![n].result = "failed", ![n].todo = <<>>] = [agent EXCEPT ![n] = a]
          /\ a.job = agent[n].job /\ a.result = "failed"
    BY <1>1, <1>3, <1>4, EgressAgentMoves
  <2>3. agent' = [agent EXCEPT ![n] = a] /\ a.job = j
    BY <1>1, <2>1, <2>2
  <2>4. WorkDone(n, p, type, s, k, a)
    BY <1>2, <2>2 DEF WorkDone
  <2> QED  BY <1>1, <1>2, <1>3, <1>4, <2>2, <2>3, <2>4, EgressWorkKeeps
<1>8. CASE k.onFail = "warn"
  <2>1. agent' = [agent EXCEPT ![n].todo = Tail(@), ![n].warned = TRUE]
    BY <1>1, <1>8 DEF Egress!CommandFails, Egress!Warn
  <2>2. PICK a \in EgressAgent :
          /\ [agent EXCEPT ![n].todo = Tail(@), ![n].warned = TRUE] = [agent EXCEPT ![n] = a]
          /\ a.job = agent[n].job /\ a.todo = Tail(agent[n].todo) /\ a.warned /\ a.result = agent[n].result
    BY <1>1, <1>3, <1>4, EgressAgentMoves
  <2>3. agent' = [agent EXCEPT ![n] = a] /\ a.job = j /\ a.todo = Tail(s) /\ a.result = "none" /\ a.warned
    BY <1>1, <1>3, <2>1, <2>2
  <2>4. WorkDone(n, p, type, s, k, a)
    BY <1>2, <1>5, <1>8, <2>3 DEF WorkDone
  <2> QED  BY <1>1, <1>2, <1>3, <1>4, <2>2, <2>3, <2>4, EgressWorkKeeps
<1>9. CASE k.onFail = "skip"
  <2>1. agent' = [agent EXCEPT ![n].todo = Tail(@)]
    BY <1>1, <1>9 DEF Egress!CommandFails, Egress!Advance
  <2>2. PICK a \in EgressAgent :
          /\ [agent EXCEPT ![n].todo = Tail(@)] = [agent EXCEPT ![n] = a]
          /\ a.job = agent[n].job /\ a.todo = Tail(agent[n].todo)
          /\ a.warned = agent[n].warned /\ a.result = agent[n].result
    BY <1>1, <1>3, <1>4, EgressAgentMoves
  <2>3. agent' = [agent EXCEPT ![n] = a] /\ a.job = j /\ a.todo = Tail(s) /\ a.result = "none"
    BY <1>1, <1>3, <2>1, <2>2
  <2>4. WorkDone(n, p, type, s, k, a)
    BY <1>2, <1>5, <1>9, <2>2, <2>3 DEF WorkDone
  <2> QED  BY <1>1, <1>2, <1>3, <1>4, <2>2, <2>3, <2>4, EgressWorkKeeps
<1> QED  BY <1>6, <1>7, <1>8, <1>9

\* The provider's interface is gone; its unit is still installed.
LEMMA EgressLossKeeps ==
  ASSUME EgressNode, NEW p \in Profile, Egress!ProviderLoss(p)
  PROVE  EgressNode'
<1>1. /\ run' = [run EXCEPT ![p].unit = "stopped"] /\ run[p].unit = "up" /\ rules' = rules
      /\ UNCHANGED <<jobs, agent, dep, moved, profile>>
  BY DEF Egress!ProviderLoss, Egress!dbVars
<1>2. run \in [Profile -> EgressRun]
  BY DEF EgressNode, EgressType
<1>3. PICK r : r = [run[p] EXCEPT !.unit = "stopped"]
  OBVIOUS
<1>4. run' = [run EXCEPT ![p] = r] /\ r \in EgressRun /\ r.unit = "stopped" /\ r.script = run[p].script
  <2>1. run[p] \in EgressRun
    BY <1>2
  <2>2. r \in EgressRun /\ r.unit = "stopped" /\ r.script = run[p].script
    BY <1>3, <2>1 DEF EgressRun
  <2>3. run' = [run EXCEPT ![p] = r]
    BY <1>1, <1>3
  <2> QED  BY <2>2, <2>3
<1>5. /\ run' \in [Profile -> EgressRun]
      /\ \A q \in Profile : /\ run'[q].script = run[q].script
                            /\ run'[q].unit = "absent" <=> run[q].unit = "absent"
  <2>1. run'[p] = r /\ \A q \in Profile \ {p} : run'[q] = run[q]
    BY <1>2, <1>4
  <2>2. run' \in [Profile -> EgressRun]
    BY <1>2, <1>4
  <2> QED  BY <1>1, <1>4, <2>1, <2>2
<1>6. \A q \in Profile : \A t : HasDone(q, t)' <=> HasDone(q, t)
  BY <1>1, <1>5 DEF HasDone, RulesGone
<1>7. EgressType'
  BY <1>1, <1>5 DEF EgressNode, EgressType
<1>8. EgressEffects' /\ EgressLast' /\ EgressPending'
  BY <1>1 DEF EgressNode, EgressEffects, EgressLast, EgressPending, HasJob, LastJob, Egress!Unfinished
<1>9. EgressOneTable'
  BY <1>1, <1>5 DEF EgressNode, EgressOneTable
<1>10. EgressAgents'
  BY <1>1 DEF EgressNode, EgressAgents, AgentAlone, HasJob, LastJob, NotStarted
<1>11. EgressHandlers'
  <2> SUFFICES ASSUME NEW n \in Node, agent[n].job # 0
               PROVE  Progress(n, jobs[agent[n].job].scope, jobs[agent[n].job].type)'
    BY <1>1 DEF EgressHandlers
  <2>1. PICK q, t : q = jobs[agent[n].job].scope /\ t = jobs[agent[n].job].type
    OBVIOUS
  <2>2. q \in Profile
    BY <2>1, EgressAgentJobs
  <2>3. Progress(n, q, t)
    BY <2>1 DEF EgressNode, EgressHandlers
  <2>4. Progress(n, q, t)'
    BY <1>1, <1>5, <1>6, <2>2, <2>3 DEF Progress, CommandTable, RulesGone
  <2> QED  BY <1>1, <2>1, <2>4
<1>12. EgressReports'
  BY <1>1, <1>6 DEF EgressNode, EgressReports, HasJob, LastJob
<1> QED  BY <1>7, <1>8, <1>9, <1>10, <1>11, <1>12 DEF EgressNode

\* Every step keeps what the node has in line with what the rows say of it.
LEMMA EgressNodeStep == EgressInv /\ EgressNode /\ [Egress!Next]_Egress!vars => EgressNode'
<1> SUFFICES ASSUME EgressInv, EgressNode, [Egress!Next]_Egress!vars PROVE EgressNode'  OBVIOUS
<1>1. ASSUME NEW p \in Profile,
             \/ \E s \in {"draft", "active"}, g \in {0, 1} : Egress!CreateExternalEgressProfile(p, s, g)
             \/ Egress!DeleteExternalEgressProfile(p)
             \/ Egress!AssignGroup(p)
             \/ Egress!DeleteExternalEgressDeployment(p)
             \/ \E t \in {"apply", "probe", "cleanup"} : Egress!createExternalEgressJob(p, t)
             \/ Egress!ProviderLoss(p)
      PROVE  EgressNode'
  <2>1. CASE \E s \in {"draft", "active"}, g \in {0, 1} : Egress!CreateExternalEgressProfile(p, s, g)
    BY <2>1, EgressCallsKeep
  <2>2. CASE Egress!AssignGroup(p)
    BY <2>2, EgressCallsKeep
  <2>3. CASE Egress!DeleteExternalEgressProfile(p) \/ Egress!DeleteExternalEgressDeployment(p)
    BY <2>3, EgressDeletesKeep
  <2>4. CASE \E t \in {"apply", "probe", "cleanup"} : Egress!createExternalEgressJob(p, t)
    BY <2>4, EgressCreatesKeep DEF EgressTypes
  <2>5. CASE Egress!ProviderLoss(p)
    BY <2>5, EgressLossKeeps
  <2> QED  BY <1>1, <2>1, <2>2, <2>3, <2>4, <2>5
<1>2. ASSUME NEW c \in Call,
             \/ \E o \in {"update", "deploy"}, p \in Profile : Egress!ReadProfile(c, o, p)
             \/ \E s \in {"keep", "active", "disabled"}, b \in BOOLEAN : Egress!UpdateExternalEgressProfile(c, s, b)
             \/ \E t \in Table : Egress!CreateExternalEgressDeployment(c, t)
             \/ Egress!Refuse(c)
      PROVE  EgressNode'
  <2>1. CASE \E o \in {"update", "deploy"}, p \in Profile : Egress!ReadProfile(c, o, p)
    BY <2>1, EgressCallsKeep
  <2>2. CASE Egress!Refuse(c)
    BY <2>2, EgressCallsKeep
  <2>3. CASE \E s \in {"keep", "active", "disabled"}, b \in BOOLEAN : Egress!UpdateExternalEgressProfile(c, s, b)
    BY <2>3, EgressUpdateKeeps
  <2>4. CASE \E t \in Table : Egress!CreateExternalEgressDeployment(c, t)
    BY <2>4, EgressDeploysKeep
  <2> QED  BY <1>2, <2>1, <2>2, <2>3, <2>4
<1>3. CASE Egress!ToggleServer
  BY <1>3, EgressCallsKeep
<1>4. ASSUME NEW j \in DOMAIN jobs,
             \/ Egress!ApplyExternalEgressJobResult(j)
             \/ \E n \in Node : Egress!AgentNextJob(n, j)
      PROVE  EgressNode'
  BY <1>4, EgressResultsKeep, EgressClaimsKeep
<1>5. ASSUME NEW n \in Node, Egress!AgentCommand(n) \/ Egress!CommandFails(n)
      PROVE  EgressNode'
  BY <1>5, EgressCommandKeeps, EgressFailsKeep
<1>6. CASE Egress!QueueStep
  BY <1>6, EgressQueueKeeps
<1>7. CASE UNCHANGED Egress!vars
  <2> USE DEF EgressNode
  <2>1. UNCHANGED <<profile, jobs, agent, dep, run, rules, moved>>
    BY <1>7 DEF Egress!vars
  <2>2. EgressType' /\ EgressEffects' /\ EgressLast' /\ EgressPending' /\ EgressOneTable'
    BY <2>1 DEF EgressType, EgressEffects, EgressLast, EgressPending, EgressOneTable, HasJob, LastJob,
                Egress!Unfinished
  <2>3. EgressAgents' /\ EgressReports'
    BY <2>1 DEF EgressAgents, EgressReports, AgentAlone, HasJob, LastJob, NotStarted, HasDone, RulesGone
  <2>4. EgressHandlers'
    BY <2>1 DEF EgressHandlers, Progress, CommandTable, HasDone, RulesGone
  <2> QED  BY <2>2, <2>3, <2>4
<1> QED
  BY <1>1, <1>2, <1>3, <1>4, <1>5, <1>6, <1>7, Zenon DEF Egress!Next, Egress!Job

\* Whatever results come late, twice or not at all, a deployment the control
\* plane calls active is installed on its node, and one it calls inactive has
\* left neither unit, files nor a rule there, unless it was given another
\* table: the result is written only where it is the last job's, and no other
\* job of the deployment, nor another deployment's, undoes what it reports.
THEOREM DeploymentsAgree ==
  /\ Egress!Spec => []Egress!DeploymentAgrees
  /\ Spec => []DeploymentAgrees
<1> DEFINE Both == EgressInv /\ EgressNode
<1> DEFINE Here == part = "egress" => Both
<1>1. Both => Egress!DeploymentAgrees
  <2> SUFFICES ASSUME EgressNode, NEW p \in Profile
               PROVE  /\ dep[p].status = "active" => run[p].unit # "absent"
                      /\ dep[p].status = "inactive" =>
                           /\ run[p].unit = "absent"
                           /\ (\E t \in Table : <<p, t>> \in rules) => moved[p] # {}
    BY DEF Egress!DeploymentAgrees
  <2>1. ASSUME dep[p].status \in {"active", "inactive"}
        PROVE  /\ HasDone(p, LastJob(p).type)
               /\ LastJob(p).type = "cleanup" <=> dep[p].status = "inactive"
    <3>1. /\ HasJob(p) /\ LastJob(p).status = "succeeded"
          /\ LastJob(p).type = "cleanup" <=> dep[p].status = "inactive"
      BY <2>1 DEF EgressNode, EgressLast
    <3> QED  BY <3>1 DEF EgressNode, EgressReports
  <2> QED  BY <2>1 DEF HasDone, RulesGone
<1>2. Egress!Init => Both
  BY EgressInitially, EgressNodeInitially
<1>3. Both /\ [Egress!Next]_Egress!vars => Both'
  BY EgressStep, EgressNodeStep
<1>4. Egress!Spec => []Egress!DeploymentAgrees
  BY <1>1, <1>2, <1>3, PTL DEF Egress!Spec
<1>5. Init => Here
  BY <1>2, EgressBegins
<1>6. Here /\ [Next]_vars => Here'
  BY <1>3, EgressGoesOn
<1>7. Here => DeploymentAgrees
  BY <1>1 DEF DeploymentAgrees
<1>8. Spec => []DeploymentAgrees
  BY <1>5, <1>6, <1>7, PTL DEF Spec
<1> QED  BY <1>4, <1>8

-----------------------------------------------------------------------------
FirePayload ==
  [op : {"preview", "apply"}, pol : Policy, version : Nat, drop : BOOLEAN,
   trusted : BOOLEAN, strict : BOOLEAN, no : Nat, rev : Nat]

FireRow ==
  [type : {"preview", "apply", "disable"}, node : {Fire!TheNode}, scope : {Fire!TheNode},
   payload : FirePayload \cup [rev : {0}], priority : {100},
   status : {"queued", "running", "succeeded", "failed", "cancelled"},
   effect : {"none", "pending", "applied", "lost"}]

FireCall == {Fire!Idle} \cup [op : {"delete"}, pol : Policy] \cup FirePayload

FireTodo ==
  {<<>>, <<"end">>, <<"render", "end">>, <<"delete", "end">>, <<"load", "end">>,
   <<"chains", "load", "end">>, <<"render", "chains", "load", "end">>}

\* What may be left of the handler of a job.
FireLeft(type) ==
  IF type = "apply"
    THEN {<<"render", "chains", "load", "end">>, <<"chains", "load", "end">>, <<"load", "end">>, <<"end">>}
    ELSE IF type = "disable" THEN {<<"delete", "end">>, <<"end">>} ELSE {<<"render", "end">>, <<"end">>}

FireAgent == [job : Nat, todo : FireTodo, warned : BOOLEAN, result : {"none", "succeeded", "failed", "sent"}]

FireType ==
  /\ policy \in [Policy -> [version : Nat, status : {"active", "deleted"}, drop : BOOLEAN]]
  /\ trusted \in BOOLEAN
  /\ revs \in Seq([pol : Policy, no : Nat])
  /\ call \in [Call -> FireCall]
  /\ jobs \in Seq(FireRow)
  /\ agent \in [Node -> FireAgent]

\* A preview on the node has rendered w, strictly.
Previewed(w) ==
  \E j \in DOMAIN jobs : /\ jobs[j].type = "preview" /\ jobs[j].status = "succeeded"
                         /\ jobs[j].payload.pol = w.pol /\ jobs[j].payload.version = w.version
                         /\ jobs[j].payload.trusted = w.trusted /\ jobs[j].payload.strict

\* The rows: only a disable job has no payload, and a strict apply has passed
\* requireMatchingFirewallPreview.
FireRows ==
  \A j \in DOMAIN jobs :
    /\ jobs[j].type # "disable" => jobs[j].payload \in FirePayload
    /\ jobs[j].type = "apply" /\ jobs[j].payload.strict => Previewed(jobs[j].payload)

\* The agent runs the commands of the job it was given.
FireHandlers ==
  \A n \in Node :
    /\ agent[n].job \in 0..Len(jobs)
    /\ Fire!Working(n) => agent[n].todo \in FireLeft(jobs[agent[n].job].type)

FireInv == FireType /\ FireRows /\ FireHandlers /\ Fire!StrictWasPreviewed

\* Jobs are never removed or changed but for their status, and a job that has
\* succeeded stays so.
FireJobsGrow ==
  /\ DOMAIN jobs \subseteq DOMAIN jobs'
  /\ \A j \in DOMAIN jobs : /\ jobs'[j].type = jobs[j].type /\ jobs'[j].payload = jobs[j].payload
                            /\ jobs[j].status = "succeeded" => jobs'[j].status = "succeeded"

\* One row rewritten in its status or effect.
LEMMA FireRewritten ==
  ASSUME jobs \in Seq(FireRow), NEW j \in DOMAIN jobs, NEW r \in FireRow, jobs' = [jobs EXCEPT ![j] = r],
         r.type = jobs[j].type, r.payload = jobs[j].payload,
         jobs[j].status = "succeeded" => r.status = "succeeded"
  PROVE  jobs' \in Seq(FireRow) /\ FireJobsGrow /\ DOMAIN jobs' = DOMAIN jobs /\ Len(jobs') = Len(jobs)
<1>1. j \in 1..Len(jobs)
  OBVIOUS
<1>2. jobs' \in Seq(FireRow) /\ Len(jobs') = Len(jobs) /\ DOMAIN jobs' = DOMAIN jobs
  BY <1>1, ExceptSeq
<1>3. FireJobsGrow
  BY <1>2 DEF FireJobsGrow
<1> QED  BY <1>2, <1>3

\* One row appended.
LEMMA FireAppended ==
  ASSUME jobs \in Seq(FireRow), NEW r \in FireRow, jobs' = Append(jobs, r)
  PROVE  /\ jobs' \in Seq(FireRow) /\ FireJobsGrow
         /\ Len(jobs') = Len(jobs) + 1 /\ DOMAIN jobs' = DOMAIN jobs \cup {Len(jobs) + 1}
         /\ jobs'[Len(jobs) + 1] = r
         /\ \A j \in DOMAIN jobs : jobs'[j] = jobs[j]
  BY AppendProperties DEF FireJobsGrow

\* A preview that succeeded stays.
LEMMA FirePreviewsStay ==
  ASSUME FireJobsGrow, NEW w, Previewed(w)  PROVE  Previewed(w)'
  BY DEF FireJobsGrow, Previewed

\* Old rows keep what FireRows says; new ones bring it.
LEMMA FireRowsKept ==
  ASSUME FireRows, FireJobsGrow,
         \A j \in DOMAIN jobs' \ DOMAIN jobs :
           /\ jobs'[j].type # "disable" => jobs'[j].payload \in FirePayload
           /\ jobs'[j].type = "apply" /\ jobs'[j].payload.strict => Previewed(jobs'[j].payload)
  PROVE  FireRows'
<1> SUFFICES ASSUME NEW j \in DOMAIN jobs'
             PROVE  /\ jobs'[j].type # "disable" => jobs'[j].payload \in FirePayload
                    /\ jobs'[j].type = "apply" /\ jobs'[j].payload.strict => Previewed(jobs[j].payload)'
  BY DEF FireRows
<1>1. PICK w : w = jobs'[j].payload
  OBVIOUS
<1>2. /\ jobs'[j].type # "disable" => w \in FirePayload
      /\ jobs'[j].type = "apply" /\ w.strict => Previewed(w)
  BY <1>1 DEF FireRows, FireJobsGrow
<1>3. Previewed(w) => Previewed(w)'
  BY FirePreviewsStay
<1>4. Previewed(w)' = Previewed(jobs[j].payload)'
  BY <1>1 DEF Previewed
<1> QED  BY <1>1, <1>2, <1>3, <1>4

\* A step that leaves the table leaves its preview.
LEMMA FireTableKept ==
  ASSUME Fire!StrictWasPreviewed, FireJobsGrow, UNCHANGED table  PROVE  Fire!StrictWasPreviewed'
  BY DEF Fire!StrictWasPreviewed, FireJobsGrow, Fire!Job

\* An agent that goes on, ends its job or has a result.
LEMMA FireAgentsKept ==
  ASSUME FireType, FireHandlers, FireJobsGrow, jobs' \in Seq(FireRow),
         \A n \in Node : \/ agent'[n] = agent[n]
                         \/ agent'[n] = Fire!AgentIdle
                         \/ agent'[n].job = agent[n].job /\ agent'[n].result # "none"
  PROVE  FireHandlers'
<1>1. Len(jobs) \in Nat /\ Len(jobs') \in Nat /\ Len(jobs) <= Len(jobs') /\ DOMAIN jobs = 1..Len(jobs)
  BY DEF FireType, FireJobsGrow
<1> SUFFICES ASSUME NEW n \in Node
             PROVE  /\ agent'[n].job \in 0..Len(jobs')
                    /\ Fire!Working(n)' => agent'[n].todo \in FireLeft(jobs'[agent'[n].job].type)
  BY DEF FireHandlers
<1>2. agent[n].job \in 0..Len(jobs)
  BY DEF FireHandlers
<1>3. CASE agent'[n] = agent[n]
  BY <1>1, <1>2, <1>3 DEF FireHandlers, Fire!Working, Fire!NoJob, FireJobsGrow
<1>4. CASE agent'[n] = Fire!AgentIdle
  BY <1>1, <1>4 DEF Fire!AgentIdle, Fire!Working, Fire!NoJob
<1>5. CASE agent'[n].job = agent[n].job /\ agent'[n].result # "none"
  BY <1>1, <1>2, <1>5 DEF Fire!Working
<1> QED  BY <1>3, <1>4, <1>5

\* Nothing is queued or loaded at first.
LEMMA FireInitially == Fire!Init => FireInv
<1> SUFFICES ASSUME Fire!Init  PROVE  FireInv  OBVIOUS
<1> USE DEF Fire!Init, Fire!JobsInit
<1>1. FireType
  <2>1. agent \in [Node -> FireAgent]
    BY DEF FireAgent, FireTodo, Fire!AgentIdle, Fire!NoJob
  <2>2. call \in [Call -> FireCall]
    BY DEF FireCall
  <2> QED  BY <2>1, <2>2 DEF FireType
<1>2. FireRows
  BY DEF FireRows
<1>3. FireHandlers
  <2>1. Len(jobs) = 0
    OBVIOUS
  <2>2. \A n \in Node : agent[n].job = 0
    BY DEF Fire!AgentIdle, Fire!NoJob
  <2> HIDE DEF Fire!Init
  <2>3. 0 \in 0..Len(jobs)
    BY <2>1
  <2>4. \A n \in Node : ~Fire!Working(n)
    BY <2>2 DEF Fire!Working, Fire!NoJob
  <2> QED  BY <2>2, <2>3, <2>4, Zenon DEF FireHandlers
<1>4. Fire!StrictWasPreviewed
  BY DEF Fire!StrictWasPreviewed, Fire!Absent
<1> QED  BY <1>1, <1>2, <1>3, <1>4 DEF FireInv

\* The catalogue and the calls that only read it.
LEMMA FireCatalogue ==
  ASSUME FireInv,
         \/ \E p \in Policy : Fire!EditPolicy(p)
         \/ Fire!EditAddressLists
         \/ \E c \in Call, p \in Policy : Fire!DeleteFirewallPolicyCheck(c, p)
         \/ \E c \in Call : Fire!DeleteFirewallPolicy(c)
         \/ \E c \in Call, o \in {"preview", "apply"}, p \in Policy, s \in BOOLEAN : Fire!buildFirewallJobPayload(c, o, p, s)
         \/ \E c \in Call : Fire!Refuse(c)
  PROVE  FireInv'
<1> USE DEF Fire!dbVars, Fire!jobVars
<1>1. UNCHANGED <<jobs, agent, table>>
  BY DEF Fire!EditPolicy, Fire!EditAddressLists, Fire!DeleteFirewallPolicyCheck, Fire!DeleteFirewallPolicy,
         Fire!buildFirewallJobPayload, Fire!Refuse
<1>2. FireJobsGrow
  BY <1>1 DEF FireJobsGrow
<1>3. FireType'
  <2> USE <1>1 DEF FireInv, FireType
  <2>1. ASSUME NEW p \in Policy, Fire!EditPolicy(p)  PROVE  FireType'
    <3>1. PICK d \in BOOLEAN : policy' = [policy EXCEPT ![p].version = @ + 1, ![p].drop = d]
      BY <2>1 DEF Fire!EditPolicy
    <3>2. PICK v \in Nat : v = policy[p].version + 1
      OBVIOUS
    <3>3. policy' = [policy EXCEPT ![p].version = v, ![p].drop = d]
      BY <3>1, <3>2, Zenon
    <3>4. policy' \in [Policy -> [version : Nat, status : {"active", "deleted"}, drop : BOOLEAN]]
      BY <3>3
    <3> QED  BY <2>1, <3>4 DEF Fire!EditPolicy
  <2>2. CASE Fire!EditAddressLists
    BY <2>2 DEF Fire!EditAddressLists
  <2>3. ASSUME NEW c \in Call, NEW p \in Policy, Fire!DeleteFirewallPolicyCheck(c, p)  PROVE  FireType'
    <3>1. [op |-> "delete", pol |-> p] \in FireCall
      BY DEF FireCall
    <3> QED  BY <2>3, <3>1 DEF Fire!DeleteFirewallPolicyCheck
  <2>4. ASSUME NEW c \in Call, Fire!DeleteFirewallPolicy(c)  PROVE  FireType'
    <3>1. Fire!Idle \in FireCall
      BY DEF FireCall
    <3> QED  BY <2>4, <3>1 DEF Fire!DeleteFirewallPolicy
  <2>5. ASSUME NEW c \in Call, NEW o \in {"preview", "apply"}, NEW p \in Policy, NEW s \in BOOLEAN,
               Fire!buildFirewallJobPayload(c, o, p, s)
        PROVE  FireType'
    <3>1. Fire!nextFirewallRevisionNo(p) \in Nat
      <4>1. IsFiniteSet({i \in DOMAIN revs : revs[i].pol = p})
        BY FS_Interval, FS_Subset
      <4>2. PICK k \in Nat : k = Cardinality({i \in DOMAIN revs : revs[i].pol = p})
        BY <4>1, FS_CardinalityType
      <4>3. k = Fire!Cardinality({i \in DOMAIN revs : revs[i].pol = p})
        BY <4>2, Zenon DEF Cardinality, Fire!Cardinality
      <4> QED  BY <4>3 DEF Fire!nextFirewallRevisionNo
    <3>2. [op |-> o, pol |-> p, version |-> policy[p].version, drop |-> policy[p].drop, trusted |-> trusted,
           strict |-> s, no |-> Fire!nextFirewallRevisionNo(p), rev |-> 0] \in FireCall
      BY <3>1 DEF FirePayload, FireCall
    <3>3. call' \in [Call -> FireCall]
      BY <2>5, <3>2 DEF Fire!buildFirewallJobPayload, Fire!NoRev
    <3> QED  BY <2>5, <3>3 DEF Fire!buildFirewallJobPayload
  <2>6. ASSUME NEW c \in Call, Fire!Refuse(c)  PROVE  FireType'
    <3>1. Fire!Idle \in FireCall
      BY DEF FireCall
    <3> QED  BY <2>6, <3>1 DEF Fire!Refuse
  <2> QED  BY <2>1, <2>2, <2>3, <2>4, <2>5, <2>6
<1>4. FireRows'
  BY <1>1, <1>2, FireRowsKept DEF FireInv
<1>5. FireHandlers'
  BY <1>1, <1>2, FireAgentsKept DEF FireInv, FireType
<1>6. Fire!StrictWasPreviewed'
  BY <1>1, <1>2, FireTableKept DEF FireInv
<1> QED  BY <1>3, <1>4, <1>5, <1>6 DEF FireInv

\* A new job of the node.
LEMMA FireQueued ==
  ASSUME FireInv, NEW type \in {"preview", "apply", "disable"}, NEW w,
         jobs' = Append(jobs, Fire!newJob(type, Fire!TheNode, Fire!TheNode, w, 100)),
         type = "disable" => w = [rev |-> Fire!NoRev],
         type # "disable" => w \in FirePayload,
         type = "apply" /\ w.strict => Previewed(w),
         UNCHANGED <<agent, table>>
  PROVE  jobs' \in Seq(FireRow) /\ FireRows' /\ FireHandlers' /\ Fire!StrictWasPreviewed'
<1> DEFINE r == Fire!newJob(type, Fire!TheNode, Fire!TheNode, w, 100)
<1>1. r \in FireRow
  <2>1. w \in FirePayload \cup [rev : {0}]
    BY DEF Fire!NoRev
  <2> QED  BY <2>1 DEF Fire!newJob, FireRow
<1>2. r.type = type /\ r.payload = w
  BY DEF Fire!newJob
<1>3. jobs \in Seq(FireRow)
  BY DEF FireInv, FireType
<1> HIDE DEF r
<1>4. jobs' = Append(jobs, r)
  BY DEF r
<1>5. /\ jobs' \in Seq(FireRow) /\ FireJobsGrow
      /\ DOMAIN jobs' = DOMAIN jobs \cup {Len(jobs) + 1}
      /\ jobs'[Len(jobs) + 1] = r
  BY <1>1, <1>3, <1>4, FireAppended
<1>6. FireRows'
  BY <1>2, <1>5, FireRowsKept DEF FireInv
<1>7. FireHandlers'
  BY <1>5, FireAgentsKept DEF FireInv, FireType
<1>8. Fire!StrictWasPreviewed'
  BY <1>5, FireTableKept DEF FireInv
<1> QED  BY <1>5, <1>6, <1>7, <1>8

\* Only a preview and an apply carry a payload.
LEMMA FireCallOps ==
  ASSUME FireType, NEW c \in Call
  PROVE  /\ call[c].op \in {"preview", "apply"} => call[c] \in FirePayload
         /\ Fire!Idle \in FireCall
  BY DEF FireType, FireCall, FirePayload, Fire!Idle

\* CreateFirewallPreviewJob.
LEMMA FirePreviews ==
  ASSUME FireInv, NEW c \in Call, Fire!CreateFirewallPreviewJob(c)  PROVE  FireInv'
<1>1. PICK w : w = call[c]
  OBVIOUS
<1>2. w \in FirePayload /\ Fire!Idle \in FireCall
  BY <1>1, FireCallOps DEF FireInv, Fire!CreateFirewallPreviewJob
<1>3. /\ jobs' = Append(jobs, Fire!newJob("preview", Fire!TheNode, Fire!TheNode, w, 100))
      /\ UNCHANGED <<policy, trusted, revs, agent, table>>
      /\ call' = [call EXCEPT ![c] = Fire!Idle]
  BY <1>1 DEF Fire!CreateFirewallPreviewJob, Fire!Queue, Fire!QueueAt, Fire!dbVars
<1>4. jobs' \in Seq(FireRow) /\ FireRows' /\ FireHandlers' /\ Fire!StrictWasPreviewed'
  BY <1>2, <1>3, FireQueued
<1>5. FireType'
  BY <1>2, <1>3, <1>4 DEF FireInv, FireType
<1> QED  BY <1>4, <1>5 DEF FireInv

\* CreateFirewallApplyJob: the payload of a strict one has its preview.
LEMMA FireApplies ==
  ASSUME FireInv, NEW c \in Call, Fire!CreateFirewallApplyJob(c)  PROVE  FireInv'
<1>1. PICK v, r : v = call[c] /\ r = Len(revs) + 1
  OBVIOUS
<1>2. v \in FirePayload /\ Fire!Idle \in FireCall
  BY <1>1, FireCallOps DEF FireInv, Fire!CreateFirewallApplyJob
<1>3. r \in Nat
  BY <1>1 DEF FireInv, FireType
<1> DEFINE w == [v EXCEPT !.rev = r]
<1>4. /\ w \in FirePayload
      /\ w.pol = v.pol /\ w.version = v.version /\ w.trusted = v.trusted /\ w.strict = v.strict
  BY <1>2, <1>3 DEF FirePayload
<1>5. /\ jobs' = Append(jobs, Fire!newJob("apply", Fire!TheNode, Fire!TheNode, w, 100))
      /\ UNCHANGED <<policy, trusted, agent, table>>
      /\ call' = [call EXCEPT ![c] = Fire!Idle]
      /\ revs' = Append(revs, [pol |-> v.pol, no |-> v.no])
      /\ v.strict => Fire!requireMatchingFirewallPreview(v)
  BY <1>1 DEF Fire!CreateFirewallApplyJob, Fire!Queue, Fire!QueueAt
<1>6. w.strict => Previewed(w)
  BY <1>4, <1>5 DEF Fire!requireMatchingFirewallPreview, Fire!firewallStablePayloadHash, Previewed, Fire!Job
<1>7. PICK x : x = w
  OBVIOUS
<1> HIDE DEF w
<1>8. jobs' \in Seq(FireRow) /\ FireRows' /\ FireHandlers' /\ Fire!StrictWasPreviewed'
  BY <1>4, <1>5, <1>6, <1>7, FireQueued
<1>9. revs' \in Seq([pol : Policy, no : Nat])
  <2>1. [pol |-> v.pol, no |-> v.no] \in [pol : Policy, no : Nat]
    BY <1>2 DEF FirePayload
  <2> QED  BY <1>5, <2>1, AppendProperties DEF FireInv, FireType
<1>10. FireType'
  BY <1>2, <1>5, <1>8, <1>9 DEF FireInv, FireType
<1> QED  BY <1>8, <1>10 DEF FireInv

\* CreateFirewallDisableJob.
LEMMA FireDisables ==
  ASSUME FireInv, Fire!CreateFirewallDisableJob  PROVE  FireInv'
<1>1. PICK w : w = [rev |-> Fire!NoRev]
  OBVIOUS
<1>2. /\ jobs' = Append(jobs, Fire!newJob("disable", Fire!TheNode, Fire!TheNode, w, 100))
      /\ UNCHANGED <<policy, trusted, revs, call, agent, table>>
  BY <1>1 DEF Fire!CreateFirewallDisableJob, Fire!Queue, Fire!QueueAt
<1>3. jobs' \in Seq(FireRow) /\ FireRows' /\ FireHandlers' /\ Fire!StrictWasPreviewed'
  BY <1>1, <1>2, FireQueued
<1>4. FireType'
  BY <1>2, <1>3 DEF FireInv, FireType
<1> QED  BY <1>3, <1>4 DEF FireInv

\* A step of the queue or of an agent that leaves the node's table alone: it
\* rewrites one row, or none, and no agent is handed more work.
LEMMA FireQueueSteps ==
  ASSUME FireInv, UNCHANGED <<policy, trusted, revs, call, table>>, jobs' \in Seq(FireRow), FireJobsGrow,
         DOMAIN jobs' = DOMAIN jobs,
         agent' \in [Node -> FireAgent],
         \A n \in Node : \/ agent'[n] = agent[n]
                         \/ agent'[n] = Fire!AgentIdle
                         \/ agent'[n].job = agent[n].job /\ agent'[n].result # "none"
  PROVE  FireInv'
<1>1. FireType'
  BY DEF FireInv, FireType
<1>2. FireRows'
  BY FireRowsKept DEF FireInv
<1>3. FireHandlers'
  BY FireAgentsKept DEF FireInv
<1>4. Fire!StrictWasPreviewed'
  BY FireTableKept DEF FireInv
<1> QED  BY <1>1, <1>2, <1>3, <1>4 DEF FireInv

\* The idle agent is an agent.
LEMMA FireIdle == Fire!AgentIdle \in FireAgent
  BY DEF Fire!AgentIdle, FireAgent, FireTodo, Fire!NoJob

\* Whoever waited for the answer is idle.
LEMMA FireAnswered ==
  ASSUME FireType, NEW j, Fire!Answer(j)
  PROVE  agent' \in [Node -> FireAgent] /\ \A n \in Node : agent'[n] = agent[n] \/ agent'[n] = Fire!AgentIdle
  BY FireIdle DEF FireType, Fire!Answer

\* The handler ends with a result.
LEMMA FireFinished ==
  ASSUME FireType, NEW n \in Node, NEW res \in {"succeeded", "failed"}, Fire!Finish(n, res)
  PROVE  /\ agent' \in [Node -> FireAgent]
         /\ \A m \in Node : agent'[m] = agent[m] \/ (agent'[m].job = agent[m].job /\ agent'[m].result # "none")
<1>1. <<>> \in FireTodo
  BY DEF FireTodo
<1>2. agent' = [agent EXCEPT ![n] = [agent[n] EXCEPT !.result = res, !.todo = <<>>]]
  BY Zenon DEF Fire!Finish
<1>3. agent[n] \in FireAgent
  BY DEF FireType
<1>4. PICK a : a = [agent[n] EXCEPT !.result = res, !.todo = <<>>]
  OBVIOUS
<1>5. a \in FireAgent /\ a.job = agent[n].job /\ a.result # "none"
  BY <1>1, <1>3, <1>4 DEF FireAgent
<1> QED  BY <1>2, <1>4, <1>5 DEF FireType

\* One row's status or effect.
LEMMA FireStatus ==
  ASSUME FireType, NEW j \in DOMAIN jobs, jobs[j].status # "succeeded",
         NEW st \in {"queued", "running", "succeeded", "failed", "cancelled"},
         jobs' = [jobs EXCEPT ![j].status = st]
  PROVE  jobs' \in Seq(FireRow) /\ FireJobsGrow /\ DOMAIN jobs' = DOMAIN jobs /\ Len(jobs') = Len(jobs)
<1>1. jobs[j] \in FireRow
  BY DEF FireType
<1>2. PICK r : r = [jobs[j] EXCEPT !.status = st]
  OBVIOUS
<1>3. r \in FireRow /\ r.type = jobs[j].type /\ r.payload = jobs[j].payload
  BY <1>1, <1>2 DEF FireRow
<1>4. jobs' = [jobs EXCEPT ![j] = r]
  BY <1>2, Zenon
<1> QED  BY <1>3, <1>4, FireRewritten DEF FireType

\* One row's effect.
LEMMA FireEffect ==
  ASSUME FireType, NEW j \in DOMAIN jobs, NEW ef \in {"none", "pending", "applied", "lost"},
         jobs' = [jobs EXCEPT ![j].effect = ef]
  PROVE  jobs' \in Seq(FireRow) /\ FireJobsGrow /\ DOMAIN jobs' = DOMAIN jobs /\ Len(jobs') = Len(jobs)
<1>1. jobs[j] \in FireRow
  BY DEF FireType
<1>2. PICK r : r = [jobs[j] EXCEPT !.effect = ef]
  OBVIOUS
<1>3. r \in FireRow /\ r.type = jobs[j].type /\ r.payload = jobs[j].payload /\ r.status = jobs[j].status
  BY <1>1, <1>2 DEF FireRow
<1>4. jobs' = [jobs EXCEPT ![j] = r]
  BY <1>2, Zenon
<1> QED  BY <1>3, <1>4, FireRewritten DEF FireType

\* ApplyFirewallJobResult does not touch the table.
LEMMA FireResults ==
  ASSUME FireInv, NEW j \in Fire!Job, Fire!ApplyFirewallJobResult(j)  PROVE  FireInv'
<1>1. /\ UNCHANGED <<policy, trusted, revs, call, table>>
      /\ jobs' = [jobs EXCEPT ![j].effect = "applied"] /\ Fire!Answer(j)
  BY DEF Fire!ApplyFirewallJobResult, Fire!EffectDone
<1>2. jobs' \in Seq(FireRow) /\ FireJobsGrow /\ DOMAIN jobs' = DOMAIN jobs
  BY <1>1, FireEffect DEF FireInv, Fire!Job
<1>3. agent' \in [Node -> FireAgent] /\ \A n \in Node : agent'[n] = agent[n] \/ agent'[n] = Fire!AgentIdle
  BY <1>1, FireAnswered DEF FireInv
<1> QED  BY <1>1, <1>2, <1>3, FireQueueSteps

\* AgentNextJob hands out the handler of the job.
LEMMA FireClaims ==
  ASSUME FireInv, NEW n \in Node, NEW j \in Fire!Job, Fire!AgentNextJob(n, j)  PROVE  FireInv'
<1> DEFINE todo == Fire!handleNodeFirewallJob(jobs[j].type)
<1>1. /\ UNCHANGED <<policy, trusted, revs, call, table>>
      /\ jobs' = [jobs EXCEPT ![j].status = "running"] /\ jobs[j].status = "queued"
      /\ agent' = [agent EXCEPT ![n] = [Fire!AgentIdle EXCEPT !.job = j, !.todo = todo]]
  BY DEF Fire!AgentNextJob, Fire!Claim, Fire!Claimable, Fire!dbVars
<1>2. jobs' \in Seq(FireRow) /\ FireJobsGrow /\ DOMAIN jobs' = DOMAIN jobs /\ Len(jobs') = Len(jobs)
  BY <1>1, FireStatus DEF FireInv, Fire!Job
<1>3. todo \in FireTodo /\ todo \in FireLeft(jobs[j].type)
  <2>1. CASE jobs[j].type = "apply"
    BY <2>1 DEF Fire!handleNodeFirewallJob, FireTodo, FireLeft
  <2>2. CASE jobs[j].type = "disable"
    BY <2>2 DEF Fire!handleNodeFirewallJob, FireTodo, FireLeft
  <2>3. CASE jobs[j].type \notin {"apply", "disable"}
    BY <2>3 DEF Fire!handleNodeFirewallJob, FireTodo, FireLeft
  <2> QED  BY <2>1, <2>2, <2>3
<1>4. j \in 1..Len(jobs) /\ j \in Nat /\ Len(jobs) \in Nat
  BY DEF FireInv, FireType, Fire!Job
<1>5. PICK a : a = [Fire!AgentIdle EXCEPT !.job = j, !.todo = todo]
  OBVIOUS
<1> HIDE DEF todo
<1>6. a \in FireAgent /\ a.job = j /\ a.todo = todo
  <2>1. a = [job |-> j, todo |-> todo, warned |-> FALSE, result |-> "none"]
    BY <1>5, Zenon DEF Fire!AgentIdle
  <2> QED  BY <2>1, <1>3, <1>4 DEF FireAgent
<1>7. agent' = [agent EXCEPT ![n] = a]
  BY <1>1, <1>5
<1>8. FireType'
  BY <1>1, <1>2, <1>6, <1>7 DEF FireInv, FireType
<1>9. FireRows'
  BY <1>2, FireRowsKept DEF FireInv
<1>10. FireHandlers'
  <2> SUFFICES ASSUME NEW m \in Node
               PROVE  /\ agent'[m].job \in 0..Len(jobs')
                      /\ Fire!Working(m)' => agent'[m].todo \in FireLeft(jobs'[agent'[m].job].type)
    BY DEF FireHandlers
  <2>1. CASE m = n
    <3>1. agent'[m] = a
      BY <2>1, <1>7 DEF FireInv, FireType
    <3>2. jobs'[j].type = jobs[j].type
      BY <1>2 DEF FireJobsGrow, Fire!Job
    <3> QED  BY <3>1, <3>2, <1>2, <1>3, <1>4, <1>6
  <2>2. CASE m # n
    <3>1. agent'[m] = agent[m] /\ agent[m].job \in 0..Len(jobs)
      BY <2>2, <1>7 DEF FireInv, FireType, FireHandlers
    <3>2. Fire!Working(m)' => Fire!Working(m) /\ jobs'[agent[m].job].type = jobs[agent[m].job].type
      BY <3>1, <1>2, <1>4 DEF FireJobsGrow, Fire!Working, Fire!NoJob, FireInv, FireType
    <3> QED  BY <3>1, <3>2, <1>2 DEF FireInv, FireHandlers
  <2> QED  BY <2>1, <2>2
<1>11. Fire!StrictWasPreviewed'
  BY <1>1, <1>2, FireTableKept DEF FireInv
<1> QED  BY <1>8, <1>9, <1>10, <1>11 DEF FireInv

\* The commands of a handler, one by one.
LEMMA FireTodoSteps ==
  ASSUME NEW type \in {"preview", "apply", "disable"}, NEW todo \in FireLeft(type)
  PROVE  /\ Head(todo) \in {"render", "chains", "load", "delete", "end"}
         /\ Head(todo) # "end" => Tail(todo) \in FireLeft(type) /\ Tail(todo) \in FireTodo
         /\ Head(todo) = "end" => todo = <<"end">>
         /\ Head(todo) = "load" => type = "apply"
         /\ Head(todo) = "delete" => type = "disable"
         /\ Head(todo) = "chains" => type = "apply" /\ Tail(todo) # <<"end">>
         /\ Head(todo) = "render" /\ type # "preview" => Tail(todo) # <<"end">>
<1>1. CASE todo = <<"end">>
  BY <1>1
<1>2. CASE todo = <<"render", "end">> /\ type = "preview"
  BY <1>2 DEF FireTodo, FireLeft
<1>3. CASE todo = <<"delete", "end">> /\ type = "disable"
  BY <1>3 DEF FireTodo, FireLeft
<1>4. CASE todo = <<"load", "end">> /\ type = "apply"
  BY <1>4 DEF FireTodo, FireLeft
<1>5. CASE todo = <<"chains", "load", "end">> /\ type = "apply"
  BY <1>5 DEF FireTodo, FireLeft
<1>6. CASE todo = <<"render", "chains", "load", "end">> /\ type = "apply"
  BY <1>6 DEF FireTodo, FireLeft
<1> QED  BY <1>1, <1>2, <1>3, <1>4, <1>5, <1>6 DEF FireLeft

\* A load comes from an apply, whose payload has its preview.
LEMMA FireCommands ==
  ASSUME FireInv, NEW n \in Node, Fire!AgentCommand(n)  PROVE  FireInv'
<1>1. PICK k, w, todo, j : /\ todo = agent[n].todo /\ k = Head(todo)
                           /\ j = agent[n].job /\ w = jobs[j].payload
  OBVIOUS
<1>2. /\ UNCHANGED <<policy, trusted, revs, call, jobs>> /\ Fire!Working(n)
      /\ k = "end" => Fire!Finish(n, "succeeded")
      /\ k # "end" => agent' = [agent EXCEPT ![n].todo = Tail(@)]
  BY <1>1 DEF Fire!AgentCommand, Fire!Advance, Fire!dbVars
<1>3. /\ agent[n] \in FireAgent /\ j \in 1..Len(jobs) /\ j \in DOMAIN jobs
      /\ jobs[j].type \in {"preview", "apply", "disable"} /\ todo \in FireLeft(jobs[j].type)
  <2>1. agent[n] \in FireAgent /\ Len(jobs) \in Nat
    BY DEF FireInv, FireType
  <2>2. j \in 0..Len(jobs) /\ j # 0
    BY <1>1, <1>2 DEF FireInv, FireHandlers, Fire!Working, Fire!NoJob
  <2>3. todo \in FireLeft(jobs[j].type)
    BY <1>1, <1>2 DEF FireInv, FireHandlers
  <2>4. j \in DOMAIN jobs /\ jobs[j] \in FireRow
    BY <2>1, <2>2 DEF FireInv, FireType
  <2>5. jobs[j].type \in {"preview", "apply", "disable"}
    BY <2>4 DEF FireRow
  <2> QED  BY <2>1, <2>2, <2>3, <2>4, <2>5
<1>4. FireJobsGrow /\ jobs' \in Seq(FireRow) /\ DOMAIN jobs' = DOMAIN jobs
  BY <1>2 DEF FireJobsGrow, FireInv, FireType
<1>5. FireRows'
  BY <1>4, FireRowsKept DEF FireInv
<1>6. agent' \in [Node -> FireAgent] /\ FireHandlers'
  <2>1. CASE k = "end"
    <3>1. /\ agent' \in [Node -> FireAgent]
          /\ \A m \in Node : agent'[m] = agent[m] \/ (agent'[m].job = agent[m].job /\ agent'[m].result # "none")
      BY <1>2, <2>1, FireFinished DEF FireInv
    <3> QED  BY <3>1, <1>4, FireAgentsKept DEF FireInv
  <2>2. CASE k # "end"
    <3>1. Tail(todo) \in FireTodo /\ Tail(todo) \in FireLeft(jobs[j].type)
      BY <1>1, <1>3, <2>2, FireTodoSteps
    <3>2. PICK a : a = [agent[n] EXCEPT !.todo = Tail(todo)]
      OBVIOUS
    <3>3. agent' = [agent EXCEPT ![n] = a]
      BY <1>1, <1>2, <2>2, <3>2
    <3>4. a \in FireAgent /\ a.job = j /\ a.todo = Tail(todo) /\ a.result = agent[n].result
      BY <1>1, <1>3, <3>1, <3>2 DEF FireAgent
    <3>5. agent' \in [Node -> FireAgent] /\ agent'[n] = a /\ \A m \in Node : m # n => agent'[m] = agent[m]
      BY <3>3, <3>4 DEF FireInv, FireType
    <3>6. FireHandlers'
      <4> SUFFICES ASSUME NEW m \in Node
                   PROVE  /\ agent'[m].job \in 0..Len(jobs)
                          /\ Fire!Working(m)' => agent'[m].todo \in FireLeft(jobs[agent'[m].job].type)
        BY <1>2 DEF FireHandlers
      <4>1. CASE m = n
        <5>1. agent'[m].job = j /\ agent'[m].todo = Tail(todo) /\ j \in 0..Len(jobs)
          BY <4>1, <1>3, <3>4, <3>5 DEF FireInv, FireType
        <5> QED  BY <5>1, <3>1
      <4>2. CASE m # n
        BY <4>2, <3>5 DEF FireInv, FireHandlers, Fire!Working
      <4> QED  BY <4>1, <4>2
    <3> QED  BY <3>5, <3>6
  <2> QED  BY <2>1, <2>2
<1>7. Fire!StrictWasPreviewed'
  <2>1. CASE k = "load"
    <3>1. jobs[j].type = "apply"
      BY <1>1, <1>3, <2>1, FireTodoSteps
    <3>2. w \in FirePayload /\ (w.strict => Previewed(w))
      BY <1>1, <1>3, <3>1 DEF FireInv, FireRows
    <3>3. table' = Fire!Loaded(w)
      BY <1>1, <2>1 DEF Fire!AgentCommand
    <3>4. /\ table'.strict = w.strict /\ table'.pol = w.pol
          /\ table'.version = w.version /\ table'.trusted = w.trusted
      BY <3>3 DEF Fire!Loaded
    <3> QED  BY <3>2, <3>4, <1>2 DEF Fire!StrictWasPreviewed, Previewed, Fire!Job
  <2>2. CASE k # "load"
    <3>1. table' = table \/ table' = Fire!AcceptAll \/ table' = Fire!Absent
      BY <1>1, <2>2 DEF Fire!AgentCommand
    <3>2. CASE table' = table
      BY <3>2, <1>4, FireTableKept DEF FireInv
    <3>3. CASE table' = Fire!AcceptAll \/ table' = Fire!Absent
      BY <3>3 DEF Fire!StrictWasPreviewed, Fire!AcceptAll, Fire!Absent
    <3> QED  BY <3>1, <3>2, <3>3
  <2> QED  BY <2>1, <2>2
<1>8. FireType'
  BY <1>2, <1>6 DEF FireInv, FireType
<1> QED  BY <1>5, <1>6, <1>7, <1>8 DEF FireInv

\* A failed command leaves the table.
LEMMA FireFailures ==
  ASSUME FireInv, NEW n \in Node, Fire!CommandFails(n)  PROVE  FireInv'
<1>1. UNCHANGED <<policy, trusted, revs, call, table, jobs>> /\ Fire!Finish(n, "failed")
  BY DEF Fire!CommandFails, Fire!dbVars
<1>2. FireJobsGrow /\ jobs' \in Seq(FireRow) /\ DOMAIN jobs' = DOMAIN jobs
  BY <1>1 DEF FireJobsGrow, FireInv, FireType
<1>3. /\ agent' \in [Node -> FireAgent]
      /\ \A m \in Node : agent'[m] = agent[m] \/ (agent'[m].job = agent[m].job /\ agent'[m].result # "none")
  BY <1>1, FireFinished DEF FireInv
<1> QED  BY <1>1, <1>2, <1>3, FireQueueSteps

\* The copy of a stuck apply has the payload of the original.
LEMMA FireRequeues ==
  ASSUME FireInv, Fire!RequeueNodeStuckJob, UNCHANGED <<policy, trusted, revs, call, table>>  PROVE  FireInv'
<1>1. PICK j \in DOMAIN jobs :
        /\ jobs[j].status = "running"
        /\ jobs' = Append([jobs EXCEPT ![j].status = "cancelled"],
                          Fire!newJob(jobs[j].type, jobs[j].node, jobs[j].scope, jobs[j].payload, jobs[j].priority))
        /\ UNCHANGED agent
  BY DEF Fire!RequeueNodeStuckJob, Fire!Job
<1>2. jobs \in Seq(FireRow) /\ jobs[j] \in FireRow /\ j \in 1..Len(jobs) /\ Len(jobs) \in Nat
  BY DEF FireInv, FireType
<1>3. PICK r, x, s :
        /\ r = [jobs[j] EXCEPT !.status = "cancelled"]
        /\ x = Fire!newJob(jobs[j].type, jobs[j].node, jobs[j].scope, jobs[j].payload, jobs[j].priority)
        /\ s = [jobs EXCEPT ![j] = r]
  OBVIOUS
<1>4. r \in FireRow /\ r.type = jobs[j].type /\ r.payload = jobs[j].payload
  BY <1>2, <1>3 DEF FireRow
<1>5. x \in FireRow /\ x.type = jobs[j].type /\ x.payload = jobs[j].payload
  BY <1>2, <1>3 DEF FireRow, Fire!newJob
<1>6. /\ s \in Seq(FireRow) /\ Len(s) = Len(jobs)
      /\ \A i \in 1..Len(jobs) : s[i] = IF i = j THEN r ELSE jobs[i]
  BY <1>2, <1>3, <1>4, ExceptSeq
<1>7. jobs' = Append(s, x)
  BY <1>1, <1>3, Zenon
<1>8. /\ jobs' \in Seq(FireRow) /\ Len(jobs') = Len(jobs) + 1
      /\ \A i \in 1..Len(jobs) : jobs'[i] = IF i = j THEN r ELSE jobs[i]
      /\ jobs'[Len(jobs) + 1] = x
  BY <1>5, <1>6, <1>7, AppendProperties
<1>9. FireJobsGrow /\ DOMAIN jobs' = DOMAIN jobs \cup {Len(jobs) + 1}
  BY <1>1, <1>2, <1>4, <1>8 DEF FireJobsGrow
<1>10. FireRows'
  BY <1>1, <1>5, <1>8, <1>9, FireRowsKept DEF FireInv, FireRows
<1>11. FireHandlers'
  BY <1>1, <1>8, <1>9, FireAgentsKept DEF FireInv
<1>12. Fire!StrictWasPreviewed'
  BY <1>9, FireTableKept DEF FireInv
<1>13. FireType'
  BY <1>1, <1>8 DEF FireInv, FireType
<1> QED  BY <1>10, <1>11, <1>12, <1>13 DEF FireInv

\* The steps of the queue.
LEMMA FireQueueStep ==
  ASSUME FireInv, Fire!QueueStep  PROVE  FireInv'
<1>1. UNCHANGED <<policy, trusted, revs, call, table>>
  BY DEF Fire!QueueStep, Fire!dbVars
<1>2. ASSUME NEW n \in Node, Fire!AgentJobResult(n)  PROVE  FireInv'
  <2>1. PICK j, res : j = agent[n].job /\ res = agent[n].result
    OBVIOUS
  <2>2. agent[n] \in FireAgent
    BY DEF FireInv, FireType
  <2>3. CASE jobs[j].status = "running"
    <3>1. /\ res \in {"succeeded", "failed"}
          /\ jobs' = [jobs EXCEPT ![j] = [jobs[j] EXCEPT !.status = res, !.effect = "pending"]]
          /\ agent' = [agent EXCEPT ![n].result = "sent"]
      BY <1>2, <2>1, <2>3, Zenon DEF Fire!AgentJobResult
    <3>2. /\ agent' \in [Node -> FireAgent]
          /\ \A m \in Node : agent'[m] = agent[m] \/ (agent'[m].job = agent[m].job /\ agent'[m].result # "none")
      BY <2>2, <3>1 DEF FireInv, FireType, FireAgent
    <3>3. PICK r : r = [jobs[j] EXCEPT !.status = res, !.effect = "pending"]
      OBVIOUS
    <3>4. CASE j \in DOMAIN jobs
      <4>1. jobs[j] \in FireRow
        BY <3>4 DEF FireInv, FireType
      <4>2. r \in FireRow /\ r.type = jobs[j].type /\ r.payload = jobs[j].payload
        BY <3>1, <3>3, <4>1 DEF FireRow
      <4>3. jobs' = [jobs EXCEPT ![j] = r]
        BY <3>1, <3>3
      <4>4. jobs' \in Seq(FireRow) /\ FireJobsGrow /\ DOMAIN jobs' = DOMAIN jobs
        BY <2>3, <3>4, <4>2, <4>3, FireRewritten DEF FireInv, FireType
      <4> QED  BY <1>1, <3>2, <4>4, FireQueueSteps
    <3>5. CASE j \notin DOMAIN jobs
      <4>1. jobs' = jobs
        BY <3>1, <3>5 DEF FireInv, FireType
      <4> QED  BY <1>1, <3>2, <4>1, FireQueueSteps DEF FireJobsGrow, FireInv, FireType
    <3> QED  BY <3>4, <3>5
  <2>4. CASE jobs[j].status # "running"
    <3>1. jobs' = jobs /\ agent' = [agent EXCEPT ![n] = Fire!AgentIdle]
      BY <1>2, <2>1, <2>4 DEF Fire!AgentJobResult
    <3>2. agent' \in [Node -> FireAgent] /\ \A m \in Node : agent'[m] = agent[m] \/ agent'[m] = Fire!AgentIdle
      BY <3>1, FireIdle DEF FireInv, FireType
    <3> QED  BY <1>1, <3>1, <3>2, FireQueueSteps DEF FireJobsGrow, FireInv, FireType
  <2> QED  BY <2>3, <2>4
<1>3. CASE Fire!CompletionCrash
  <2>1. PICK j \in DOMAIN jobs : jobs' = [jobs EXCEPT ![j].effect = "lost"] /\ Fire!Answer(j)
    BY <1>3 DEF Fire!CompletionCrash, Fire!Job
  <2>2. jobs' \in Seq(FireRow) /\ FireJobsGrow /\ DOMAIN jobs' = DOMAIN jobs
    BY <2>1, FireEffect DEF FireInv
  <2>3. agent' \in [Node -> FireAgent] /\ \A n \in Node : agent'[n] = agent[n] \/ agent'[n] = Fire!AgentIdle
    BY <2>1, FireAnswered DEF FireInv
  <2> QED  BY <1>1, <2>2, <2>3, FireQueueSteps
<1>4. CASE Fire!LeaseLapse \/ Fire!CancelJob
  <2>1. PICK j \in DOMAIN jobs, st \in {"queued", "cancelled"} :
          /\ jobs[j].status # "succeeded" /\ jobs' = [jobs EXCEPT ![j].status = st] /\ UNCHANGED agent
    BY <1>4 DEF Fire!LeaseLapse, Fire!CancelJob, Fire!Job
  <2>2. jobs' \in Seq(FireRow) /\ FireJobsGrow /\ DOMAIN jobs' = DOMAIN jobs
    BY <2>1, FireStatus DEF FireInv
  <2>3. agent' \in [Node -> FireAgent] /\ \A n \in Node : agent'[n] = agent[n]
    BY <2>1 DEF FireInv, FireType
  <2> QED  BY <1>1, <2>2, <2>3, FireQueueSteps
<1>5. CASE Fire!AgentCrash
  <2>1. /\ UNCHANGED jobs
        /\ \E n \in Node : agent' = [agent EXCEPT ![n] = Fire!AgentIdle]
    BY <1>5 DEF Fire!AgentCrash
  <2>2. agent' \in [Node -> FireAgent] /\ \A m \in Node : agent'[m] = agent[m] \/ agent'[m] = Fire!AgentIdle
    BY <2>1, FireIdle DEF FireInv, FireType
  <2> QED  BY <1>1, <2>1, <2>2, FireQueueSteps DEF FireJobsGrow, FireInv, FireType
<1>6. CASE Fire!RequeueNodeStuckJob
  BY <1>1, <1>6, FireRequeues
<1> QED  BY <1>2, <1>3, <1>4, <1>5, <1>6 DEF Fire!QueueStep

\* Every step keeps the invariant.
LEMMA FireStep == FireInv /\ [Fire!Next]_Fire!vars => FireInv'
<1> SUFFICES ASSUME FireInv, [Fire!Next]_Fire!vars  PROVE  FireInv'
  OBVIOUS
<1>1. ASSUME UNCHANGED Fire!vars  PROVE FireInv'
  <2>1. UNCHANGED <<policy, trusted, revs, call, table, jobs, agent>>
    BY <1>1 DEF Fire!vars
  <2> QED
    BY <2>1, FireQueueSteps DEF FireJobsGrow, FireInv, FireType
<1> QED
  BY <1>1, FireCatalogue, FirePreviews, FireApplies, FireDisables, FireResults, FireClaims, FireCommands,
     FireFailures, FireQueueStep, Zenon DEF Fire!Next

\* A strict table on the node is one that a preview on that node has rendered
\* from the same rules and address lists, whatever was edited between the two
\* calls, whichever jobs were lost, requeued or reported late
\* (requireMatchingFirewallPreview, firewallStablePayloadHash, runNFTScript).
THEOREM StrictTablesWerePreviewed ==
  /\ Fire!Spec => []Fire!StrictWasPreviewed
  /\ Spec => []StrictWasPreviewed
<1> DEFINE Here == part = "firewall" => FireInv
<1>1. FireInv => Fire!StrictWasPreviewed
  BY DEF FireInv
<1>2. Fire!Spec => []Fire!StrictWasPreviewed
  BY FireInitially, FireStep, <1>1, PTL DEF Fire!Spec
<1>3. Init => Here
  BY FireInitially, FireBegins
<1>4. Here /\ [Next]_vars => Here'
  BY FireStep, FireGoesOn
<1>5. Here => StrictWasPreviewed
  BY <1>1 DEF StrictWasPreviewed
<1>6. Spec => []StrictWasPreviewed
  BY <1>3, <1>4, <1>5, PTL DEF Spec
<1> QED  BY <1>2, <1>6

-----------------------------------------------------------------------------
FireOver(j) == jobs[j].status \in {"succeeded", "failed", "cancelled"}

FireTaken(j) == jobs[j].status \in {"running", "succeeded", "failed"}

\* The table is what j makes of it.
FireShown(j) ==
  /\ jobs[j].type = "apply" => table = Fire!Loaded(jobs[j].payload)
  /\ jobs[j].type = "disable" => table = Fire!Absent

\* A younger job of one of the types.
FireLater(j, T) == \E i \in DOMAIN jobs : i > j /\ jobs[i].type \in T

\* A job is taken once all the older ones are over, and has side effects once
\* it has a result.
FireQueue ==
  \A j \in DOMAIN jobs :
    /\ jobs[j].effect # "none" <=> jobs[j].status \in {"succeeded", "failed"}
    /\ FireTaken(j) => \A i \in DOMAIN jobs : i < j => FireOver(i)

\* The agent works on the youngest job that was taken, and has changed the
\* table to its liking when it is about to report success.
FireBusy ==
  \A n \in Node : agent[n].job # Fire!NoJob =>
    /\ n = Fire!TheNode
    /\ \A j \in DOMAIN jobs : j > agent[n].job => ~FireTaken(j)
    /\ agent[n].result # "sent" => jobs[agent[n].job].status \notin {"succeeded", "failed"}
    /\ \/ agent[n].result = "succeeded"
       \/ agent[n].result = "none" /\ agent[n].todo = <<"end">>
       => FireShown(agent[n].job)

\* What a job that succeeded made of the table is there until a younger rollout.
FireTable ==
  \A j \in DOMAIN jobs : jobs[j].status = "succeeded" =>
    /\ FireShown(j) \/ FireLater(j, {"apply", "disable"})
    /\ jobs[j].type = "apply" => table.kind = "loaded" \/ FireLater(j, {"disable"})

\* The row is the result of the youngest rollout.
FireReport ==
  \A m \in DOMAIN jobs :
    (/\ jobs[m].type \in {"apply", "disable"} /\ ~FireLater(m, {"apply", "disable"})
     /\ ~late /\ jobs[m].effect = "applied") =>
      /\ jobs[m].type = "apply" =>
           IF jobs[m].status = "succeeded" THEN state.status = "applied" /\ state.rev = jobs[m].payload.rev
                                           ELSE state.status = "failed"
      /\ jobs[m].type = "disable" =>
           /\ state.rev = Fire!NoRev
           /\ state.status = IF jobs[m].status = "succeeded" THEN "disabled" ELSE "failed"

\* The row's revision is in force, or a disable has not been accounted for.
FireInForce ==
  /\ DOMAIN state = {"status", "pol", "rev", "desired"}
  /\ ~late /\ state.rev # Fire!NoRev =>
       table.kind = "loaded" \/ \E j \in DOMAIN jobs : jobs[j].type = "disable" /\ jobs[j].effect # "applied"

FireAgree == FireQueue /\ FireBusy /\ FireTable /\ FireReport /\ FireInForce

\* What no step does to the rows of jobs.
FireMove ==
  /\ DOMAIN jobs \subseteq DOMAIN jobs'
  /\ \A j \in DOMAIN jobs :
       /\ jobs'[j].type = jobs[j].type /\ jobs'[j].payload = jobs[j].payload
       /\ FireOver(j) => jobs'[j].status = jobs[j].status
  /\ \A j \in DOMAIN jobs' \ DOMAIN jobs :
       /\ jobs'[j].status = "queued" /\ jobs'[j].effect = "none"
       /\ \A i \in DOMAIN jobs : i < j

FireAppliedSame == \A j \in DOMAIN jobs : jobs'[j].effect = "applied" <=> jobs[j].effect = "applied"

\* No side effects run: the row still is the youngest report.
LEMMA FireReportKept ==
  ASSUME FireQueue, FireReport, FireMove, FireAppliedSame, UNCHANGED <<state, late>>
  PROVE  FireReport'
<1> SUFFICES ASSUME NEW m \in DOMAIN jobs',
                    jobs'[m].type \in {"apply", "disable"}, ~FireLater(m, {"apply", "disable"})',
                    ~late, jobs'[m].effect = "applied"
             PROVE  /\ jobs'[m].type = "apply" =>
                         IF jobs'[m].status = "succeeded"
                           THEN state.status = "applied" /\ state.rev = jobs'[m].payload.rev
                           ELSE state.status = "failed"
                    /\ jobs'[m].type = "disable" =>
                         /\ state.rev = Fire!NoRev
                         /\ state.status = IF jobs'[m].status = "succeeded" THEN "disabled" ELSE "failed"
  BY DEF FireReport
<1>1. m \in DOMAIN jobs /\ jobs[m].effect = "applied"
  BY DEF FireMove, FireAppliedSame
<1>2. jobs'[m].status = jobs[m].status /\ jobs'[m].type = jobs[m].type /\ jobs'[m].payload = jobs[m].payload
  BY <1>1 DEF FireMove, FireQueue, FireOver
<1>3. ~FireLater(m, {"apply", "disable"})
  BY DEF FireLater, FireMove
<1> QED  BY <1>1, <1>2, <1>3 DEF FireReport

\* Neither row nor table changes.
LEMMA FireInForceKept ==
  ASSUME FireInForce, FireMove, FireAppliedSame, UNCHANGED <<state, late, table>>
  PROVE  FireInForce'
  BY DEF FireInForce, FireMove, FireAppliedSame

\* The steps that neither take a job nor report one nor touch the table.
LEMMA FireJobsKept ==
  ASSUME FireType, FireType', FireHandlers, FireQueue, FireBusy, FireTable, FireMove, UNCHANGED table,
         \A j \in DOMAIN jobs :
           /\ \/ jobs'[j].status = jobs[j].status
              \/ ~FireOver(j) /\ jobs'[j].status \in {"queued", "cancelled"}
           /\ jobs'[j].effect # "none" <=> jobs[j].effect # "none",
         \A n \in Node : \/ agent'[n] = agent[n]
                         \/ agent'[n].job = Fire!NoJob
                         \/ /\ agent'[n].job = agent[n].job /\ agent'[n].result = "failed"
                            /\ agent[n].result # "sent"
  PROVE  FireQueue' /\ FireBusy' /\ FireTable'
<1>1. /\ Len(jobs) \in Nat /\ DOMAIN jobs = 1..Len(jobs)
      /\ Len(jobs') \in Nat /\ DOMAIN jobs' = 1..Len(jobs')
      /\ \A j \in DOMAIN jobs : jobs[j] \in FireRow
  BY DEF FireType
<1>2. FireQueue'
  <2> SUFFICES ASSUME NEW j \in DOMAIN jobs'
               PROVE  /\ jobs'[j].effect # "none" <=> jobs'[j].status \in {"succeeded", "failed"}
                      /\ FireTaken(j)' => \A i \in DOMAIN jobs' : i < j => FireOver(i)'
    BY DEF FireQueue
  <2>1. CASE j \in DOMAIN jobs
    <3>1. jobs[j].status \in {"queued", "running", "succeeded", "failed", "cancelled"}
      BY <1>1, <2>1 DEF FireRow
    <3>2. jobs'[j].effect # "none" <=> jobs'[j].status \in {"succeeded", "failed"}
      BY <2>1, <3>1 DEF FireQueue, FireOver
    <3>3. FireTaken(j)' => FireTaken(j)
      BY <2>1 DEF FireTaken
    <3>4. \A i \in DOMAIN jobs' : i < j => i \in DOMAIN jobs
      BY <1>1, <2>1
    <3> QED  BY <2>1, <3>2, <3>3, <3>4 DEF FireQueue, FireOver
  <2>2. CASE j \notin DOMAIN jobs
    BY <2>2 DEF FireMove, FireTaken
  <2> QED  BY <2>1, <2>2
<1>3. FireBusy'
  <2> SUFFICES ASSUME NEW n \in Node, agent'[n].job # Fire!NoJob
               PROVE  /\ n = Fire!TheNode
                      /\ \A j \in DOMAIN jobs' : j > agent'[n].job => ~FireTaken(j)'
                      /\ agent'[n].result # "sent" => jobs'[agent'[n].job].status \notin {"succeeded", "failed"}
                      /\ \/ agent'[n].result = "succeeded"
                         \/ agent'[n].result = "none" /\ agent'[n].todo = <<"end">>
                         => FireShown(agent[n].job)'
    BY DEF FireBusy
  <2>1. agent'[n].job = agent[n].job /\ agent[n].job \in DOMAIN jobs
    BY <1>1 DEF FireHandlers, Fire!NoJob
  <2>2. \A j \in DOMAIN jobs : FireTaken(j)' => FireTaken(j)
    BY DEF FireTaken
  <2>3. \A j \in DOMAIN jobs' : j > agent[n].job => ~FireTaken(j)'
    BY <2>1, <2>2 DEF FireBusy, FireMove, FireTaken
  <2>4. agent'[n].result # "sent" => jobs'[agent[n].job].status \notin {"succeeded", "failed"}
    BY <2>1 DEF FireBusy
  <2>5. PICK a : a = agent[n].job
    OBVIOUS
  <2>6. FireShown(a) => FireShown(a)'
    BY <2>1, <2>5 DEF FireShown, FireMove
  <2>7. FireShown(a)' => FireShown(agent[n].job)'
    BY <2>1, <2>5 DEF FireShown
  <2> QED  BY <2>1, <2>3, <2>4, <2>5, <2>6, <2>7 DEF FireBusy
<1>4. FireTable'
  <2> SUFFICES ASSUME NEW j \in DOMAIN jobs', jobs'[j].status = "succeeded"
               PROVE  /\ FireShown(j)' \/ FireLater(j, {"apply", "disable"})'
                      /\ jobs'[j].type = "apply" => table.kind = "loaded" \/ FireLater(j, {"disable"})'
    BY DEF FireTable
  <2>1. j \in DOMAIN jobs /\ jobs[j].status = "succeeded"
    BY DEF FireMove
  <2>2. ASSUME NEW T, FireLater(j, T)  PROVE  FireLater(j, T)'
    BY <2>2 DEF FireLater, FireMove
  <2>3. FireShown(j) => FireShown(j)'
    BY <2>1 DEF FireShown, FireMove
  <2> QED  BY <2>1, <2>2, <2>3 DEF FireTable, FireMove
<1> QED  BY <1>2, <1>3, <1>4

\* The rows of a step that leaves them, appends one, or rewrites one's status
\* or effect.
LEMMA FireMoveSame ==
  ASSUME UNCHANGED jobs  PROVE  FireMove /\ FireAppliedSame
  BY DEF FireMove, FireAppliedSame

\* One row appended.
LEMMA FireMoveAppend ==
  ASSUME FireType, NEW r \in FireRow, jobs' = Append(jobs, r), r.status = "queued", r.effect = "none"
  PROVE  FireMove /\ FireAppliedSame /\ \A j \in DOMAIN jobs : jobs'[j] = jobs[j]
<1>1. /\ jobs' \in Seq(FireRow) /\ Len(jobs) \in Nat /\ DOMAIN jobs = 1..Len(jobs)
      /\ DOMAIN jobs' = DOMAIN jobs \cup {Len(jobs) + 1} /\ jobs'[Len(jobs) + 1] = r
      /\ \A j \in DOMAIN jobs : jobs'[j] = jobs[j]
  BY FireAppended DEF FireType
<1>2. \A j \in DOMAIN jobs : j < Len(jobs) + 1
  BY <1>1
<1> QED  BY <1>1, <1>2 DEF FireMove, FireAppliedSame

\* One row rewritten in its status or effect.
LEMMA FireMoveRewrite ==
  ASSUME FireType, NEW j \in DOMAIN jobs, NEW r \in FireRow, jobs' = [jobs EXCEPT ![j] = r],
         r.type = jobs[j].type, r.payload = jobs[j].payload, FireOver(j) => r.status = jobs[j].status
  PROVE  /\ FireMove /\ jobs'[j] = r /\ DOMAIN jobs' = DOMAIN jobs
         /\ \A i \in DOMAIN jobs : i # j => jobs'[i] = jobs[i]
         /\ (r.effect = "applied" <=> jobs[j].effect = "applied") => FireAppliedSame
<1>1. DOMAIN jobs' = DOMAIN jobs /\ jobs'[j] = r /\ \A i \in DOMAIN jobs : i # j => jobs'[i] = jobs[i]
  BY DEF FireType
<1>2. FireMove
  BY <1>1 DEF FireMove, FireOver
<1>3. (r.effect = "applied" <=> jobs[j].effect = "applied") => FireAppliedSame
  BY <1>1 DEF FireAppliedSame
<1> QED  BY <1>1, <1>2, <1>3

\* No job has reported at first.
LEMMA FireAgreeInitially == Fire!Init => FireAgree
<1> SUFFICES ASSUME Fire!Init  PROVE  FireAgree
  OBVIOUS
<1>1. DOMAIN jobs = {} /\ \A n \in Node : agent[n].job = Fire!NoJob
  BY DEF Fire!Init, Fire!JobsInit, Fire!AgentIdle
<1>2. state.rev = Fire!NoRev /\ DOMAIN state = {"status", "pol", "rev", "desired"}
  BY DEF Fire!Init, Fire!NoState
<1> QED  BY <1>1, <1>2 DEF FireAgree, FireQueue, FireBusy, FireTable, FireReport, FireInForce

\* The catalogue, and the calls that only read it or end.
LEMMA FireAgreeStill ==
  ASSUME FireInv, FireInv', FireAgree, UNCHANGED <<jobs, agent, table, state, late>>  PROVE  FireAgree'
<1>1. FireMove /\ FireAppliedSame
  BY FireMoveSame
<1>2. FireQueue' /\ FireBusy' /\ FireTable'
  BY <1>1, FireJobsKept DEF FireInv, FireAgree
<1> QED  BY <1>1, <1>2, FireReportKept, FireInForceKept DEF FireAgree

\* A new rollout makes the report of the older ones moot.
LEMMA FireAgreeQueued ==
  ASSUME FireInv, FireInv', FireAgree, NEW type \in {"preview", "apply", "disable"}, NEW w,
         jobs' = Append(jobs, Fire!newJob(type, Fire!TheNode, Fire!TheNode, w, 100)),
         w \in FirePayload \cup [rev : {0}],
         UNCHANGED <<agent, table, late>>,
         DOMAIN state' = {"status", "pol", "rev", "desired"},
         state'.rev \in {state.rev, Fire!NoRev},
         type = "preview" => UNCHANGED state
  PROVE  FireAgree'
<1>1. PICK r : r = Fire!newJob(type, Fire!TheNode, Fire!TheNode, w, 100)
  OBVIOUS
<1>2. r \in FireRow /\ r.type = type /\ r.status = "queued" /\ r.effect = "none"
  BY <1>1 DEF Fire!newJob, FireRow
<1>3. FireMove /\ FireAppliedSame /\ \A j \in DOMAIN jobs : jobs'[j] = jobs[j]
  BY <1>1, <1>2, FireMoveAppend DEF FireInv
<1>4. FireQueue' /\ FireBusy' /\ FireTable'
  BY <1>3, FireJobsKept DEF FireInv, FireAgree
<1>5. FireInForce'
  BY <1>3 DEF FireAgree, FireInForce, FireMove, FireAppliedSame
<1>6. FireReport'
  <2>1. CASE type = "preview"
    BY <1>3, <2>1, FireReportKept DEF FireAgree
  <2>2. CASE type # "preview"
    <3>1. /\ DOMAIN jobs' = DOMAIN jobs \cup {Len(jobs) + 1} /\ jobs'[Len(jobs) + 1] = r
          /\ \A j \in DOMAIN jobs : j < Len(jobs) + 1
      BY <1>1, <1>2, FireAppended DEF FireInv, FireType
    <3>2. \A m \in DOMAIN jobs : FireLater(m, {"apply", "disable"})'
      BY <1>2, <2>2, <3>1 DEF FireLater
    <3> QED  BY <1>2, <3>1, <3>2 DEF FireReport
  <2> QED  BY <2>1, <2>2
<1> QED  BY <1>4, <1>5, <1>6 DEF FireAgree

\* The three calls that queue a job.
LEMMA FireAgreeCalls ==
  ASSUME FireInv, FireInv', FireAgree,
         \/ \E c \in Call : Fire!CreateFirewallPreviewJob(c) \/ Fire!CreateFirewallApplyJob(c)
         \/ Fire!CreateFirewallDisableJob
  PROVE  FireAgree'
<1>1. ASSUME NEW c \in Call, Fire!CreateFirewallPreviewJob(c)  PROVE  FireAgree'
  <2>1. PICK w : w = call[c]
    OBVIOUS
  <2>2. w \in FirePayload
    BY <1>1, <2>1, FireCallOps DEF FireInv, Fire!CreateFirewallPreviewJob
  <2>3. /\ jobs' = Append(jobs, Fire!newJob("preview", Fire!TheNode, Fire!TheNode, w, 100))
        /\ UNCHANGED <<agent, table, late, state>>
    BY <1>1, <2>1 DEF Fire!CreateFirewallPreviewJob, Fire!Queue, Fire!QueueAt, Fire!dbVars
  <2>4. DOMAIN state' = {"status", "pol", "rev", "desired"}
    BY <2>3 DEF FireAgree, FireInForce
  <2> QED  BY <2>2, <2>3, <2>4, FireAgreeQueued
<1>2. ASSUME NEW c \in Call, Fire!CreateFirewallApplyJob(c)  PROVE  FireAgree'
  <2>1. PICK v, r : v = call[c] /\ r = Len(revs) + 1
    OBVIOUS
  <2>2. v \in FirePayload
    <3>1. call[c].op = "apply"
      BY <1>2, Zenon DEF Fire!CreateFirewallApplyJob
    <3> QED  BY <2>1, <3>1, FireCallOps DEF FireInv
  <2>3. r \in Nat
    BY <2>1 DEF FireInv, FireType
  <2>4. PICK w : w = [v EXCEPT !.rev = r]
    OBVIOUS
  <2>5. w \in FirePayload
    BY <2>2, <2>3, <2>4 DEF FirePayload
  <2>6. /\ jobs' = Append(jobs, Fire!newJob("apply", Fire!TheNode, Fire!TheNode, w, 100))
        /\ UNCHANGED <<agent, table, late>>
        /\ state' = [state EXCEPT !.pol = v.pol, !.desired = r, !.status = "pending"]
    BY <1>2, <2>1, <2>4, Zenon DEF Fire!CreateFirewallApplyJob, Fire!Queue, Fire!QueueAt
  <2>7. DOMAIN state' = {"status", "pol", "rev", "desired"} /\ state'.rev = state.rev
    BY <2>6 DEF FireAgree, FireInForce
  <2> QED  BY <2>5, <2>6, <2>7, FireAgreeQueued
<1>3. CASE Fire!CreateFirewallDisableJob
  <2>1. PICK w : w = [rev |-> Fire!NoRev]
    OBVIOUS
  <2>2. /\ jobs' = Append(jobs, Fire!newJob("disable", Fire!TheNode, Fire!TheNode, w, 100))
        /\ UNCHANGED <<agent, table, late>>
        /\ state' = [Fire!NoState EXCEPT !.status = "pending_disable"]
    BY <1>3, <2>1 DEF Fire!CreateFirewallDisableJob, Fire!Queue, Fire!QueueAt
  <2>3. state' = [status |-> "pending_disable", pol |-> Fire!None, rev |-> Fire!NoRev, desired |-> Fire!NoRev]
    BY <2>2, Zenon DEF Fire!NoState
  <2>4. DOMAIN state' = {"status", "pol", "rev", "desired"} /\ state'.rev = Fire!NoRev
    BY <2>3
  <2>5. w \in [rev : {0}]
    BY <2>1 DEF Fire!NoRev
  <2> QED  BY <2>2, <2>4, <2>5, FireAgreeQueued
<1> QED  BY <1>1, <1>2, <1>3

\* A result's side effects: the row says what the youngest rollout did, unless
\* this result is late.
LEMMA FireAgreeResults ==
  ASSUME FireInv, FireInv', FireAgree, NEW j \in Fire!Job, Fire!ApplyFirewallJobResult(j)  PROVE  FireAgree'
<1>1. /\ j \in DOMAIN jobs /\ jobs[j] \in FireRow /\ jobs[j].effect = "pending"
      /\ jobs' = [jobs EXCEPT ![j].effect = "applied"] /\ Fire!Answer(j) /\ UNCHANGED table
      /\ late' = (late \/ \E i \in DOMAIN jobs : i > j /\ jobs[i].status # "queued")
  BY DEF Fire!ApplyFirewallJobResult, Fire!EffectDue, Fire!EffectDone, Fire!Job, FireInv, FireType
<1>2. PICK r : r = [jobs[j] EXCEPT !.effect = "applied"]
  OBVIOUS
<1>3. /\ r \in FireRow /\ r.type = jobs[j].type /\ r.payload = jobs[j].payload
      /\ r.status = jobs[j].status /\ r.effect = "applied"
  BY <1>1, <1>2 DEF FireRow
<1>4. jobs' = [jobs EXCEPT ![j] = r]
  BY <1>1, <1>2, Zenon
<1>5. /\ FireMove /\ jobs'[j] = r /\ DOMAIN jobs' = DOMAIN jobs
      /\ \A i \in DOMAIN jobs : i # j => jobs'[i] = jobs[i]
  BY <1>1, <1>3, <1>4, FireMoveRewrite DEF FireInv
<1>6. \A n \in Node : agent'[n] = agent[n] \/ agent'[n].job = Fire!NoJob
  BY <1>1 DEF Fire!Answer, Fire!AgentIdle
<1>7. FireQueue' /\ FireBusy' /\ FireTable'
  BY <1>1, <1>3, <1>5, <1>6, FireJobsKept DEF FireInv, FireAgree
<1>8. jobs[j].type \in {"preview", "apply", "disable"} /\ jobs[j].status \in {"succeeded", "failed"}
  BY <1>1 DEF FireAgree, FireQueue, FireRow
<1>9. /\ jobs[j].type = "preview" => UNCHANGED state
      /\ jobs[j].type = "apply" =>
           /\ DOMAIN state' = {"status", "pol", "rev", "desired"}
           /\ state'.status = IF jobs[j].status = "succeeded" THEN "applied" ELSE "failed"
           /\ state'.rev = IF jobs[j].status = "succeeded" THEN jobs[j].payload.rev ELSE state.rev
      /\ jobs[j].type = "disable" =>
           /\ DOMAIN state' = {"status", "pol", "rev", "desired"}
           /\ state'.status = IF jobs[j].status = "succeeded" THEN "disabled" ELSE "failed"
           /\ state'.rev = Fire!NoRev
  <2>1. CASE jobs[j].type = "preview"
    BY <2>1 DEF Fire!ApplyFirewallJobResult
  <2>2. CASE jobs[j].type = "apply"
    BY <2>2 DEF Fire!ApplyFirewallJobResult, Fire!applyFirewallApplyJobResult, Fire!Succeeded
  <2>3. CASE jobs[j].type = "disable"
    <3>1. state' = [Fire!NoState EXCEPT !.status = IF jobs[j].status = "succeeded" THEN "disabled" ELSE "failed"]
      BY <2>3 DEF Fire!ApplyFirewallJobResult, Fire!applyFirewallDisableJobResult, Fire!Succeeded
    <3>2. state' = [status |-> IF jobs[j].status = "succeeded" THEN "disabled" ELSE "failed",
                    pol |-> Fire!None, rev |-> Fire!NoRev, desired |-> Fire!NoRev]
      BY <3>1, Zenon DEF Fire!NoState
    <3> QED  BY <2>3, <3>2
  <2> QED  BY <1>8, <2>1, <2>2, <2>3
<1>10. FireReport'
  <2> SUFFICES ASSUME NEW m \in DOMAIN jobs',
                      jobs'[m].type \in {"apply", "disable"}, ~FireLater(m, {"apply", "disable"})',
                      ~late', jobs'[m].effect = "applied"
               PROVE  /\ jobs'[m].type = "apply" =>
                           IF jobs'[m].status = "succeeded"
                             THEN state'.status = "applied" /\ state'.rev = jobs'[m].payload.rev
                             ELSE state'.status = "failed"
                      /\ jobs'[m].type = "disable" =>
                           /\ state'.rev = Fire!NoRev
                           /\ state'.status = IF jobs'[m].status = "succeeded" THEN "disabled" ELSE "failed"
    BY DEF FireReport
  <2>1. CASE m = j
    BY <1>3, <1>5, <1>9, <2>1
  <2>2. CASE m # j
    <3>1. m \in DOMAIN jobs /\ jobs'[m] = jobs[m] /\ m \in Nat /\ j \in Nat
      BY <1>1, <1>5, <2>2 DEF FireInv, FireType
    <3>2. jobs[m].status # "queued"
      <4>1. jobs[m].effect # "none"
        BY <3>1
      <4> QED  BY <3>1, <4>1 DEF FireAgree, FireQueue
    <3>3. m < j
      <4>1. ~\E i \in DOMAIN jobs : i > j /\ jobs[i].status # "queued"
        BY <1>1, Zenon
      <4>2. ~(m > j)
        BY <3>1, <3>2, <4>1
      <4> QED  BY <2>2, <3>1, <4>2
    <3>4. jobs[j].type = "preview"
      BY <1>1, <1>3, <1>5, <1>8, <3>1, <3>3 DEF FireLater
    <3>5. ~FireLater(m, {"apply", "disable"})
      BY <1>5 DEF FireLater, FireMove
    <3> QED  BY <1>1, <1>9, <3>1, <3>4, <3>5 DEF FireAgree, FireReport
  <2> QED  BY <2>1, <2>2
<1>11. FireInForce'
  <2>1. DOMAIN state' = {"status", "pol", "rev", "desired"}
    BY <1>8, <1>9 DEF FireAgree, FireInForce
  <2> SUFFICES ASSUME ~late', state'.rev # Fire!NoRev
               PROVE  \/ table'.kind = "loaded"
                      \/ \E i \in DOMAIN jobs' : jobs'[i].type = "disable" /\ jobs'[i].effect # "applied"
    BY <2>1 DEF FireInForce
  <2>2. jobs[j].type # "disable"
    BY <1>9
  <2>3. CASE state'.rev = state.rev
    BY <1>1, <1>5, <2>2, <2>3 DEF FireAgree, FireInForce
  <2>4. CASE state'.rev # state.rev
    <3>1. jobs[j].type = "apply" /\ jobs[j].status = "succeeded"
      BY <1>8, <1>9, <2>2, <2>4
    <3>2. table.kind = "loaded" \/ FireLater(j, {"disable"})
      BY <1>1, <3>1 DEF FireAgree, FireTable
    <3>3. ASSUME FireLater(j, {"disable"})
          PROVE  \E i \in DOMAIN jobs : jobs[i].type = "disable" /\ i # j /\ jobs[i].effect # "applied"
      <4>1. PICK i \in DOMAIN jobs : i > j /\ jobs[i].type = "disable"
        BY <3>3 DEF FireLater
      <4>2. jobs[i].status = "queued"
        BY <1>1, <4>1
      <4>3. jobs[i].effect = "none"
        BY <4>2 DEF FireAgree, FireQueue
      <4> QED  BY <2>2, <4>1, <4>3
    <3> QED  BY <1>1, <1>5, <3>2, <3>3
  <2> QED  BY <2>3, <2>4
<1> QED  BY <1>7, <1>10, <1>11 DEF FireAgree

\* No job succeeds: what the table shows of the ones that did stays.
LEMMA FireTableStays ==
  ASSUME FireTable, FireMove, UNCHANGED table,
         \A j \in DOMAIN jobs : jobs'[j].status = "succeeded" => jobs[j].status = "succeeded"
  PROVE  FireTable'
<1> SUFFICES ASSUME NEW j \in DOMAIN jobs', jobs'[j].status = "succeeded"
             PROVE  /\ FireShown(j)' \/ FireLater(j, {"apply", "disable"})'
                    /\ jobs'[j].type = "apply" => table.kind = "loaded" \/ FireLater(j, {"disable"})'
  BY DEF FireTable
<1>1. j \in DOMAIN jobs /\ jobs[j].status = "succeeded"
  BY DEF FireMove
<1>2. ASSUME NEW T, FireLater(j, T)  PROVE  FireLater(j, T)'
  BY <1>2 DEF FireLater, FireMove
<1>3. FireShown(j) => FireShown(j)'
  BY <1>1 DEF FireShown, FireMove
<1> QED  BY <1>1, <1>2, <1>3 DEF FireTable, FireMove

\* The agent takes the oldest job that waits: everything older is over.
LEMMA FireAgreeClaims ==
  ASSUME FireInv, FireInv', FireAgree, NEW n \in Node, NEW j \in Fire!Job, Fire!AgentNextJob(n, j)  PROVE  FireAgree'
<1>1. /\ j \in DOMAIN jobs /\ jobs[j] \in FireRow /\ jobs[j].status = "queued" /\ jobs[j].node = n
      /\ jobs' = [jobs EXCEPT ![j].status = "running"]
      /\ UNCHANGED <<table, state, late>>
      /\ DOMAIN jobs = 1..Len(jobs) /\ Len(jobs) \in Nat
  BY DEF Fire!AgentNextJob, Fire!Claimable, Fire!Claim, Fire!Job, FireInv, FireType, Fire!dbVars
<1>2. PICK r : r = [jobs[j] EXCEPT !.status = "running"]
  OBVIOUS
<1>3. /\ r \in FireRow /\ r.type = jobs[j].type /\ r.payload = jobs[j].payload
      /\ r.status = "running" /\ r.effect = jobs[j].effect
  BY <1>1, <1>2 DEF FireRow
<1>4. jobs' = [jobs EXCEPT ![j] = r]
  BY <1>1, <1>2, Zenon
<1>5. /\ FireMove /\ jobs'[j] = r /\ DOMAIN jobs' = DOMAIN jobs /\ FireAppliedSame
      /\ \A i \in DOMAIN jobs : i # j => jobs'[i] = jobs[i]
  <2>1. ~FireOver(j)
    BY <1>1 DEF FireOver
  <2>2. /\ FireMove /\ jobs'[j] = r /\ DOMAIN jobs' = DOMAIN jobs
        /\ \A i \in DOMAIN jobs : i # j => jobs'[i] = jobs[i]
        /\ (r.effect = "applied" <=> jobs[j].effect = "applied") => FireAppliedSame
    BY <1>1, <1>3, <1>4, <2>1, FireMoveRewrite DEF FireInv
  <2> QED  BY <1>3, <2>2
<1>6. \A i \in DOMAIN jobs : i < j => FireOver(i)
  <2> SUFFICES ASSUME NEW i \in DOMAIN jobs, i < j  PROVE  FireOver(i)
    OBVIOUS
  <2>1. jobs[i] \in FireRow
    BY DEF FireInv, FireType
  <2>2. /\ jobs[i].node = jobs[j].node /\ jobs[i].priority = 100 /\ jobs[j].priority = 100
        /\ jobs[i].status \in {"queued", "running", "succeeded", "failed", "cancelled"}
    BY <1>1, <2>1 DEF FireRow
  <2>3. jobs[i].status # "running" /\ (jobs[i].status = "queued" => Fire!Before(j, i))
    BY <1>1, <2>2 DEF Fire!AgentNextJob, Fire!Claimable, Fire!Job
  <2>4. ~Fire!Before(j, i)
    BY <1>1, <2>2 DEF Fire!Before
  <2> QED  BY <2>2, <2>3, <2>4 DEF FireOver
<1>7. FireQueue'
  <2> SUFFICES ASSUME NEW k \in DOMAIN jobs
               PROVE  /\ jobs'[k].effect # "none" <=> jobs'[k].status \in {"succeeded", "failed"}
                      /\ FireTaken(k)' => \A i \in DOMAIN jobs : i < k => FireOver(i)'
    BY <1>5 DEF FireQueue
  <2>1. CASE k = j
    BY <1>1, <1>3, <1>5, <1>6, <2>1 DEF FireAgree, FireQueue, FireOver
  <2>2. CASE k # j
    <3>1. jobs'[k] = jobs[k]
      BY <1>5, <2>2
    <3>2. FireTaken(k)' => \A i \in DOMAIN jobs : i < k => FireOver(i)
      BY <3>1 DEF FireAgree, FireQueue, FireTaken
    <3>3. ~FireOver(j)
      BY <1>1 DEF FireOver
    <3> QED  BY <1>5, <3>1, <3>2, <3>3 DEF FireAgree, FireQueue, FireOver
  <2> QED  BY <2>1, <2>2
<1>8. n = Fire!TheNode
  <2>1. jobs[j].node \in {Fire!TheNode}
    <3>1. jobs[j] \in FireRow
      BY <1>1
    <3> QED  BY <3>1 DEF FireRow
  <2> QED  BY <1>1, <2>1
<1>9. PICK a, todo : todo = Fire!handleNodeFirewallJob(jobs[j].type) /\ a = [Fire!AgentIdle EXCEPT !.job = j, !.todo = todo]
  BY Zenon
<1>10. a.job = j /\ a.result = "none" /\ a.todo # <<"end">>
  <2>1. a = [job |-> j, todo |-> todo, warned |-> FALSE, result |-> "none"]
    BY <1>9, Zenon DEF Fire!AgentIdle
  <2>2. todo # <<"end">>
    BY <1>9 DEF Fire!handleNodeFirewallJob
  <2> QED  BY <2>1, <2>2
<1>11. agent' = [agent EXCEPT ![n] = a]
  BY <1>9 DEF Fire!AgentNextJob, Fire!Claim
<1>12. agent'[n] = a /\ \A m \in Node : m # n => agent'[m] = agent[m]
  BY <1>11 DEF FireInv, FireType
<1>13. FireBusy'
  <2> SUFFICES ASSUME NEW m \in Node, agent'[m].job # Fire!NoJob
               PROVE  /\ m = Fire!TheNode
                      /\ \A k \in DOMAIN jobs' : k > agent'[m].job => ~FireTaken(k)'
                      /\ agent'[m].result # "sent" => jobs'[agent'[m].job].status \notin {"succeeded", "failed"}
                      /\ \/ agent'[m].result = "succeeded"
                         \/ agent'[m].result = "none" /\ agent'[m].todo = <<"end">>
                         => FireShown(agent[m].job)'
    BY DEF FireBusy
  <2>1. m = n
    BY <1>8, <1>12 DEF FireAgree, FireBusy
  <2>2. ASSUME NEW k \in DOMAIN jobs, k > j  PROVE  ~FireTaken(k)'
    <3>1. ~FireTaken(k)
      BY <1>1, <2>2 DEF FireAgree, FireQueue, FireOver
    <3> QED  BY <1>1, <1>5, <2>2, <3>1 DEF FireTaken
  <2> QED  BY <1>3, <1>5, <1>8, <1>10, <1>12, <2>1, <2>2
<1>14. FireTable'
  BY <1>1, <1>3, <1>5, FireTableStays DEF FireAgree
<1> QED  BY <1>1, <1>5, <1>7, <1>13, <1>14, FireReportKept, FireInForceKept DEF FireAgree

\* A command of the agent's handler.  Every job that succeeded is older than
\* the one at work, so what the command takes away a younger rollout took.
LEMMA FireAgreeCommands ==
  ASSUME FireInv, FireInv', FireAgree, NEW n \in Node, Fire!AgentCommand(n)  PROVE  FireAgree'
<1>1. PICK k, todo, j : todo = agent[n].todo /\ k = Head(todo) /\ j = agent[n].job
  OBVIOUS
<1>2. /\ UNCHANGED <<jobs, state, late>> /\ j # Fire!NoJob /\ agent[n].result = "none"
      /\ table' = CASE k = "chains" /\ table = Fire!Absent -> Fire!AcceptAll
                    [] k = "reset"                    -> Fire!AcceptAll
                    [] k = "load"                     -> Fire!Loaded(jobs[j].payload)
                    [] k = "delete"                   -> Fire!Absent
                    [] OTHER                          -> table
      /\ k = "end" => Fire!Finish(n, "succeeded")
      /\ k # "end" => agent' = [agent EXCEPT ![n].todo = Tail(@)]
  BY <1>1 DEF Fire!AgentCommand, Fire!Advance, Fire!Working, Fire!dbVars
<1>3. /\ j \in DOMAIN jobs /\ jobs[j] \in FireRow /\ agent[n] \in FireAgent
      /\ DOMAIN jobs = 1..Len(jobs) /\ Len(jobs) \in Nat
      /\ jobs[j].type \in {"preview", "apply", "disable"} /\ todo \in FireLeft(jobs[j].type)
  <2>1. agent[n] \in FireAgent /\ Len(jobs) \in Nat /\ DOMAIN jobs = 1..Len(jobs)
    BY DEF FireInv, FireType
  <2>2. j \in 0..Len(jobs) /\ j # 0
    BY <1>1, <1>2 DEF FireInv, FireHandlers, Fire!NoJob
  <2>3. todo \in FireLeft(jobs[j].type)
    BY <1>1, <1>2 DEF FireInv, FireHandlers, Fire!Working
  <2>4. j \in DOMAIN jobs /\ jobs[j] \in FireRow
    BY <2>1, <2>2 DEF FireInv, FireType
  <2>5. jobs[j].type \in {"preview", "apply", "disable"}
    BY <2>4 DEF FireRow
  <2> QED  BY <2>1, <2>3, <2>4, <2>5
<1>4. /\ k \in {"render", "chains", "load", "delete", "end"}
      /\ k = "end" => todo = <<"end">>
      /\ k = "load" => jobs[j].type = "apply"
      /\ k = "delete" => jobs[j].type = "disable"
      /\ k = "chains" => jobs[j].type = "apply" /\ Tail(todo) # <<"end">>
      /\ k = "render" /\ jobs[j].type # "preview" => Tail(todo) # <<"end">>
  BY <1>1, <1>3, FireTodoSteps
<1>5. /\ n = Fire!TheNode /\ jobs[j].status \notin {"succeeded", "failed"} /\ jobs[j].effect = "none"
      /\ \A i \in DOMAIN jobs : i > j => ~FireTaken(i)
      /\ todo = <<"end">> => FireShown(j)
  BY <1>1, <1>2, <1>3 DEF FireAgree, FireBusy, FireQueue
<1>6. /\ agent'[n].job = j /\ agent'[n].result \in {"none", "succeeded"}
      /\ agent'[n].result = "succeeded" => k = "end"
      /\ agent'[n].result = "none" => agent'[n].todo = Tail(todo) /\ k # "end"
      /\ \A m \in Node : m # n => agent'[m] = agent[m]
  <2>1. CASE k = "end"
    <3>1. agent' = [agent EXCEPT ![n] = [agent[n] EXCEPT !.result = "succeeded", !.todo = <<>>]]
      BY <1>2, <2>1, Zenon DEF Fire!Finish
    <3>2. PICK a : a = [agent[n] EXCEPT !.result = "succeeded", !.todo = <<>>]
      OBVIOUS
    <3>3. a.job = j /\ a.result = "succeeded"
      BY <1>1, <1>3, <3>2 DEF FireAgent
    <3> QED  BY <2>1, <3>1, <3>2, <3>3 DEF FireInv, FireType
  <2>2. CASE k # "end"
    <3>1. PICK a : a = [agent[n] EXCEPT !.todo = Tail(todo)]
      OBVIOUS
    <3>2. agent' = [agent EXCEPT ![n] = a]
      BY <1>1, <1>2, <2>2, <3>1
    <3>3. a.job = j /\ a.result = "none" /\ a.todo = Tail(todo)
      BY <1>1, <1>2, <1>3, <3>1 DEF FireAgent
    <3> QED  BY <2>2, <3>2, <3>3 DEF FireInv, FireType
  <2> QED  BY <2>1, <2>2
<1>7. FireMove /\ FireAppliedSame
  BY <1>2, FireMoveSame
<1>8. FireQueue'
  BY <1>2 DEF FireAgree, FireQueue, FireTaken, FireOver
<1>9. /\ k \in {"render", "end"} => table' = table
      /\ k = "chains" => table' = table \/ (table = Fire!Absent /\ table' = Fire!AcceptAll)
      /\ k = "load" => table' = Fire!Loaded(jobs[j].payload)
      /\ k = "delete" => table' = Fire!Absent
  BY <1>2
<1>10. FireBusy'
  <2> SUFFICES ASSUME NEW m \in Node, agent'[m].job # Fire!NoJob
               PROVE  /\ m = Fire!TheNode
                      /\ \A i \in DOMAIN jobs' : i > agent'[m].job => ~FireTaken(i)'
                      /\ agent'[m].result # "sent" => jobs'[agent'[m].job].status \notin {"succeeded", "failed"}
                      /\ \/ agent'[m].result = "succeeded"
                         \/ agent'[m].result = "none" /\ agent'[m].todo = <<"end">>
                         => FireShown(agent[m].job)'
    BY DEF FireBusy
  <2>1. m = n
    BY <1>5, <1>6 DEF FireAgree, FireBusy
  <2>2. \A i \in DOMAIN jobs : i > j => ~FireTaken(i)'
    BY <1>2, <1>5 DEF FireTaken
  <2>3. ASSUME \/ agent'[n].result = "succeeded"
               \/ agent'[n].result = "none" /\ agent'[n].todo = <<"end">>
        PROVE  FireShown(j)'
    <3>1. CASE k = "end"
      BY <1>2, <1>4, <1>5, <1>9, <3>1 DEF FireShown
    <3>2. CASE k # "end"
      <4>1. Tail(todo) = <<"end">>
        BY <1>6, <2>3, <3>2
      <4> QED  BY <1>2, <1>3, <1>4, <1>9, <3>2, <4>1 DEF FireShown
    <3> QED  BY <3>1, <3>2
  <2>4. FireShown(j)' => FireShown(agent[n].job)'
    BY <1>6 DEF FireShown
  <2> QED  BY <1>2, <1>5, <1>6, <2>1, <2>2, <2>3, <2>4
<1>11. FireTable'
  <2>1. CASE table' = table
    BY <1>2, <1>7, <2>1, FireTableStays DEF FireAgree
  <2>2. CASE table' # table
    <3> SUFFICES ASSUME NEW i \in DOMAIN jobs, jobs[i].status = "succeeded"
                 PROVE  /\ FireLater(i, {"apply", "disable"})
                        /\ jobs[i].type = "apply" => table'.kind = "loaded" \/ FireLater(i, {"disable"})
      <4>1. \A i, T : FireLater(i, T)' <=> FireLater(i, T)
        BY <1>2 DEF FireLater
      <4> QED  BY <1>2, <4>1 DEF FireTable
    <3>1. k \in {"chains", "load", "delete"}
      BY <1>4, <1>9, <2>2
    <3>2. i < j
      BY <1>3, <1>5 DEF FireTaken
    <3>3. FireLater(i, {"apply", "disable"})
      BY <1>3, <1>4, <3>1, <3>2 DEF FireLater
    <3>4. CASE k = "delete"
      BY <1>3, <1>4, <3>2, <3>3, <3>4 DEF FireLater
    <3>5. CASE k = "load"
      BY <1>9, <3>3, <3>5 DEF Fire!Loaded
    <3>6. CASE k = "chains"
      BY <1>9, <2>2, <3>3, <3>6 DEF FireAgree, FireTable, Fire!Absent
    <3> QED  BY <3>1, <3>4, <3>5, <3>6
  <2> QED  BY <2>1, <2>2
<1>12. FireInForce'
  <2>1. CASE k = "delete"
    BY <1>2, <1>3, <1>4, <1>5, <2>1 DEF FireAgree, FireInForce
  <2>2. CASE k = "load"
    BY <1>2, <1>9, <2>2 DEF FireAgree, FireInForce, Fire!Loaded
  <2>3. CASE k = "chains" /\ table = Fire!Absent
    BY <1>2, <2>3 DEF FireAgree, FireInForce, Fire!Absent
  <2>4. CASE table' = table
    BY <1>2, <1>7, <2>4, FireInForceKept DEF FireAgree
  <2> QED  BY <1>4, <1>9, <2>1, <2>2, <2>3, <2>4
<1> QED  BY <1>2, <1>7, <1>8, <1>10, <1>11, <1>12, FireReportKept DEF FireAgree

\* A failed command ends the handler and leaves the table.
LEMMA FireAgreeFailures ==
  ASSUME FireInv, FireInv', FireAgree, NEW n \in Node, Fire!CommandFails(n)  PROVE  FireAgree'
<1>1. UNCHANGED <<jobs, state, late, table>> /\ Fire!Finish(n, "failed") /\ agent[n].result = "none"
  BY DEF Fire!CommandFails, Fire!Working, Fire!dbVars
<1>2. \A m \in Node : \/ agent'[m] = agent[m]
                      \/ agent'[m].job = agent[m].job /\ agent'[m].result = "failed" /\ agent[m].result # "sent"
  <2>1. agent' = [agent EXCEPT ![n] = [agent[n] EXCEPT !.result = "failed", !.todo = <<>>]]
    BY <1>1, Zenon DEF Fire!Finish
  <2>2. PICK a : a = [agent[n] EXCEPT !.result = "failed", !.todo = <<>>]
    OBVIOUS
  <2>3. agent[n] \in FireAgent
    BY DEF FireInv, FireType
  <2>4. a.job = agent[n].job /\ a.result = "failed"
    BY <2>2, <2>3 DEF FireAgent
  <2> QED  BY <1>1, <2>1, <2>2, <2>4 DEF FireInv, FireType
<1>3. FireMove /\ FireAppliedSame
  BY <1>1, FireMoveSame
<1>4. FireQueue' /\ FireBusy' /\ FireTable'
  BY <1>1, <1>2, <1>3, FireJobsKept DEF FireInv, FireAgree
<1> QED  BY <1>1, <1>3, <1>4, FireReportKept, FireInForceKept DEF FireAgree

\* The agent's result is accepted: what the job was to do to the table is done.
LEMMA FireAgreeAccepts ==
  ASSUME FireInv, FireInv', FireAgree, UNCHANGED <<state, late, table>>, NEW n \in Node, Fire!AgentJobResult(n)
  PROVE  FireAgree'
<1>1. PICK j, res : j = agent[n].job /\ res = agent[n].result
  OBVIOUS
<1>2. agent[n] \in FireAgent /\ res \in {"succeeded", "failed"} /\ j \in 0..Len(jobs) /\ Len(jobs) \in Nat
      /\ DOMAIN jobs = 1..Len(jobs)
  BY <1>1 DEF FireInv, FireType, FireHandlers, Fire!AgentJobResult
<1>3. CASE j \in DOMAIN jobs /\ jobs[j].status = "running"
  <2>1. PICK r : r = [jobs[j] EXCEPT !.status = res, !.effect = "pending"]
    OBVIOUS
  <2>2. jobs[j] \in FireRow /\ ~FireOver(j)
    BY <1>3 DEF FireInv, FireType, FireOver
  <2>3. /\ r \in FireRow /\ r.type = jobs[j].type /\ r.payload = jobs[j].payload
        /\ r.status = res /\ r.effect = "pending"
    BY <1>2, <2>1, <2>2 DEF FireRow
  <2>4. jobs' = [jobs EXCEPT ![j] = r] /\ agent' = [agent EXCEPT ![n].result = "sent"]
    BY <1>1, <1>3, <2>1, Zenon DEF Fire!AgentJobResult
  <2>5. /\ FireMove /\ jobs'[j] = r /\ DOMAIN jobs' = DOMAIN jobs
        /\ \A i \in DOMAIN jobs : i # j => jobs'[i] = jobs[i]
        /\ (r.effect = "applied" <=> jobs[j].effect = "applied") => FireAppliedSame
    BY <1>3, <2>2, <2>3, <2>4, FireMoveRewrite DEF FireInv
  <2>6. jobs[j].effect = "none"
    BY <1>3 DEF FireAgree, FireQueue
  <2>7. FireAppliedSame
    BY <2>3, <2>5, <2>6
  <2>8. FireQueue'
    <3> SUFFICES ASSUME NEW k \in DOMAIN jobs
                 PROVE  /\ jobs'[k].effect # "none" <=> jobs'[k].status \in {"succeeded", "failed"}
                        /\ FireTaken(k)' => \A i \in DOMAIN jobs : i < k => FireOver(i)'
      BY <2>5 DEF FireQueue
    <3>1. FireTaken(k)' => FireTaken(k)
      BY <1>3, <2>5 DEF FireTaken
    <3>2. \A i \in DOMAIN jobs : FireOver(i) => FireOver(i)'
      BY <2>2, <2>5 DEF FireOver
    <3>3. jobs'[k].effect # "none" <=> jobs'[k].status \in {"succeeded", "failed"}
      BY <1>2, <2>3, <2>5 DEF FireAgree, FireQueue
    <3> QED  BY <3>1, <3>2, <3>3 DEF FireAgree, FireQueue
  <2>9. agent'[n].job = j /\ agent'[n].result = "sent" /\ \A m \in Node : m # n => agent'[m] = agent[m]
    BY <1>1, <1>2, <2>4 DEF FireInv, FireType, FireAgent
  <2>10. j # Fire!NoJob /\ n = Fire!TheNode
    BY <1>1, <1>2, <1>3 DEF FireAgree, FireBusy, Fire!NoJob
  <2>11. FireBusy'
    <3> SUFFICES ASSUME NEW m \in Node, agent'[m].job # Fire!NoJob
                 PROVE  /\ m = Fire!TheNode
                        /\ \A k \in DOMAIN jobs' : k > agent'[m].job => ~FireTaken(k)'
                        /\ agent'[m].result = "sent"
      BY DEF FireBusy
    <3>1. m = n
      BY <2>9, <2>10 DEF FireAgree, FireBusy
    <3>2. \A k \in DOMAIN jobs : k > j => ~FireTaken(k)'
      BY <1>1, <1>2, <1>3, <2>5, <2>10 DEF FireAgree, FireBusy, FireTaken
    <3> QED  BY <2>5, <2>9, <2>10, <3>1, <3>2
  <2>12. FireTable'
    <3> SUFFICES ASSUME NEW k \in DOMAIN jobs, jobs'[k].status = "succeeded"
                 PROVE  /\ FireShown(k)' \/ FireLater(k, {"apply", "disable"})'
                        /\ jobs'[k].type = "apply" => table.kind = "loaded" \/ FireLater(k, {"disable"})'
      BY <2>5 DEF FireTable
    <3>2. CASE k = j
      <4>1. FireShown(j)
        BY <1>1, <2>3, <2>5, <2>10, <3>2 DEF FireAgree, FireBusy
      <4>2. jobs'[k].type = "apply" => table.kind = "loaded"
        BY <2>3, <2>5, <3>2, <4>1 DEF FireShown, Fire!Loaded
      <4> QED  BY <2>5, <3>2, <4>1, <4>2 DEF FireShown, FireMove
    <3>3. CASE k # j
      <4>1. jobs'[k] = jobs[k]
        BY <2>5, <3>3
      <4>2. ASSUME NEW T, FireLater(k, T)  PROVE  FireLater(k, T)'
        BY <2>5, <4>2 DEF FireLater, FireMove
      <4>3. FireShown(k) => FireShown(k)'
        BY <4>1 DEF FireShown
      <4> QED  BY <4>1, <4>2, <4>3 DEF FireAgree, FireTable
    <3> QED  BY <3>2, <3>3
  <2> QED  BY <2>5, <2>7, <2>8, <2>11, <2>12, FireReportKept, FireInForceKept DEF FireAgree
<1>4. CASE j \notin DOMAIN jobs \/ jobs[j].status # "running"
  <2>1. jobs' = jobs
    <3>1. CASE jobs[j].status # "running"
      BY <1>1, <3>1 DEF Fire!AgentJobResult
    <3>2. CASE j \notin DOMAIN jobs
      <4>1. \/ jobs' = jobs
            \/ jobs' = [jobs EXCEPT ![j] = [jobs[j] EXCEPT !.status = res, !.effect = "pending"]]
        BY <1>1, Zenon DEF Fire!AgentJobResult
      <4> QED  BY <3>2, <4>1 DEF FireInv, FireType
    <3> QED  BY <1>4, <3>1, <3>2
  <2>2. \A m \in Node : agent'[m] = agent[m] \/ agent'[m].job = Fire!NoJob
    <3>1. CASE agent' = [agent EXCEPT ![n] = Fire!AgentIdle]
      BY <3>1 DEF FireInv, FireType, Fire!AgentIdle
    <3>2. CASE j \notin DOMAIN jobs /\ agent' = [agent EXCEPT ![n].result = "sent"]
      BY <1>1, <1>2, <3>2 DEF FireInv, FireType, FireAgent, Fire!NoJob
    <3> QED  BY <1>1, <1>4, <3>1, <3>2 DEF Fire!AgentJobResult
  <2>3. FireMove /\ FireAppliedSame
    BY <2>1, FireMoveSame
  <2>4. FireQueue' /\ FireBusy' /\ FireTable'
    BY <2>1, <2>2, <2>3, FireJobsKept DEF FireInv, FireAgree
  <2> QED  BY <2>3, <2>4, FireReportKept, FireInForceKept DEF FireAgree
<1> QED  BY <1>3, <1>4

\* Lost side effects, a lapsed lease, a cancelled job and a crash of the agent
\* rewrite one row or none.
LEMMA FireAgreeLosses ==
  ASSUME FireInv, FireInv', FireAgree, UNCHANGED <<state, late, table>>,
         Fire!CompletionCrash \/ Fire!LeaseLapse \/ Fire!CancelJob \/ Fire!AgentCrash
  PROVE  FireAgree'
<1>1. CASE Fire!AgentCrash
  <2>1. UNCHANGED jobs /\ \E n \in Node : agent' = [agent EXCEPT ![n] = Fire!AgentIdle]
    BY <1>1 DEF Fire!AgentCrash
  <2>2. \A m \in Node : agent'[m] = agent[m] \/ agent'[m].job = Fire!NoJob
    BY <2>1 DEF FireInv, FireType, Fire!AgentIdle
  <2>3. FireMove /\ FireAppliedSame
    BY <2>1, FireMoveSame
  <2>4. FireQueue' /\ FireBusy' /\ FireTable'
    BY <2>1, <2>2, <2>3, FireJobsKept DEF FireInv, FireAgree
  <2> QED  BY <2>3, <2>4, FireReportKept, FireInForceKept DEF FireAgree
<1>2. CASE Fire!CompletionCrash
  <2>1. PICK j \in DOMAIN jobs : jobs[j].effect = "pending" /\ jobs' = [jobs EXCEPT ![j].effect = "lost"] /\ Fire!Answer(j)
    BY <1>2 DEF Fire!CompletionCrash, Fire!EffectDue, Fire!Job
  <2>2. PICK r : r = [jobs[j] EXCEPT !.effect = "lost"]
    OBVIOUS
  <2>3. jobs[j] \in FireRow
    BY DEF FireInv, FireType
  <2>4. /\ r \in FireRow /\ r.type = jobs[j].type /\ r.payload = jobs[j].payload
        /\ r.status = jobs[j].status /\ r.effect = "lost"
    BY <2>2, <2>3 DEF FireRow
  <2>5. jobs' = [jobs EXCEPT ![j] = r]
    BY <2>1, <2>2, Zenon
  <2>6. /\ FireMove /\ jobs'[j] = r /\ DOMAIN jobs' = DOMAIN jobs
        /\ \A i \in DOMAIN jobs : i # j => jobs'[i] = jobs[i]
        /\ (r.effect = "applied" <=> jobs[j].effect = "applied") => FireAppliedSame
    BY <2>4, <2>5, FireMoveRewrite DEF FireInv
  <2>7. \A n \in Node : agent'[n] = agent[n] \/ agent'[n].job = Fire!NoJob
    BY <2>1 DEF Fire!Answer, Fire!AgentIdle
  <2>8. FireQueue' /\ FireBusy' /\ FireTable'
    BY <2>1, <2>4, <2>6, <2>7, FireJobsKept DEF FireInv, FireAgree
  <2> QED  BY <2>1, <2>4, <2>6, <2>8, FireReportKept, FireInForceKept DEF FireAgree
<1>3. CASE Fire!LeaseLapse \/ Fire!CancelJob
  <2>1. PICK j \in DOMAIN jobs, st \in {"queued", "cancelled"} :
          /\ jobs[j].status \in {"queued", "running"} /\ jobs' = [jobs EXCEPT ![j].status = st] /\ UNCHANGED agent
    BY <1>3 DEF Fire!LeaseLapse, Fire!CancelJob, Fire!Job
  <2>2. PICK r : r = [jobs[j] EXCEPT !.status = st]
    OBVIOUS
  <2>3. jobs[j] \in FireRow /\ ~FireOver(j)
    BY <2>1 DEF FireInv, FireType, FireOver
  <2>4. /\ r \in FireRow /\ r.type = jobs[j].type /\ r.payload = jobs[j].payload
        /\ r.status = st /\ r.effect = jobs[j].effect
    BY <2>2, <2>3 DEF FireRow
  <2>5. jobs' = [jobs EXCEPT ![j] = r]
    BY <2>1, <2>2, Zenon
  <2>6. /\ FireMove /\ jobs'[j] = r /\ DOMAIN jobs' = DOMAIN jobs
        /\ \A i \in DOMAIN jobs : i # j => jobs'[i] = jobs[i]
        /\ (r.effect = "applied" <=> jobs[j].effect = "applied") => FireAppliedSame
    BY <2>3, <2>4, <2>5, FireMoveRewrite DEF FireInv
  <2>7. FireQueue' /\ FireBusy' /\ FireTable'
    BY <2>1, <2>3, <2>4, <2>6, FireJobsKept DEF FireInv, FireAgree
  <2> QED  BY <2>4, <2>6, <2>7, FireReportKept, FireInForceKept DEF FireAgree
<1> QED  BY <1>1, <1>2, <1>3

\* The stuck job is cancelled and its copy waits behind everything.
LEMMA FireAgreeRequeues ==
  ASSUME FireInv, FireInv', FireAgree, UNCHANGED <<state, late, table>>, Fire!RequeueNodeStuckJob
  PROVE  FireAgree'
<1>1. PICK j \in DOMAIN jobs :
        /\ jobs[j].status = "running"
        /\ jobs' = Append([jobs EXCEPT ![j].status = "cancelled"],
                          Fire!newJob(jobs[j].type, jobs[j].node, jobs[j].scope, jobs[j].payload, jobs[j].priority))
        /\ UNCHANGED agent
  BY DEF Fire!RequeueNodeStuckJob, Fire!Job
<1>2. jobs \in Seq(FireRow) /\ jobs[j] \in FireRow /\ j \in 1..Len(jobs) /\ Len(jobs) \in Nat
  BY DEF FireInv, FireType
<1>3. PICK r, x, s :
        /\ r = [jobs[j] EXCEPT !.status = "cancelled"]
        /\ x = Fire!newJob(jobs[j].type, jobs[j].node, jobs[j].scope, jobs[j].payload, jobs[j].priority)
        /\ s = [jobs EXCEPT ![j] = r]
  OBVIOUS
<1>4. /\ r \in FireRow /\ r.type = jobs[j].type /\ r.payload = jobs[j].payload
      /\ r.status = "cancelled" /\ r.effect = jobs[j].effect
  BY <1>2, <1>3 DEF FireRow
<1>5. x \in FireRow /\ x.status = "queued" /\ x.effect = "none"
  BY <1>2, <1>3 DEF FireRow, Fire!newJob
<1>6. /\ s \in Seq(FireRow) /\ Len(s) = Len(jobs)
      /\ \A i \in 1..Len(jobs) : s[i] = IF i = j THEN r ELSE jobs[i]
  BY <1>2, <1>3, <1>4, ExceptSeq
<1>7. jobs' = Append(s, x)
  BY <1>1, <1>3, Zenon
<1>8. /\ Len(jobs') = Len(jobs) + 1 /\ jobs' \in Seq(FireRow)
      /\ \A i \in 1..Len(jobs) : jobs'[i] = IF i = j THEN r ELSE jobs[i]
      /\ jobs'[Len(jobs) + 1] = x
  BY <1>5, <1>6, <1>7, AppendProperties
<1>9. DOMAIN jobs = 1..Len(jobs) /\ DOMAIN jobs' = 1..(Len(jobs) + 1)
  BY <1>2, <1>8
<1>10. ~FireOver(j)
  BY <1>1 DEF FireOver
<1>11. FireMove
  BY <1>2, <1>4, <1>5, <1>8, <1>9, <1>10 DEF FireMove
<1>12. FireAppliedSame
  BY <1>4, <1>8, <1>9 DEF FireAppliedSame
<1>13. \A i \in DOMAIN jobs :
         /\ \/ jobs'[i].status = jobs[i].status
            \/ ~FireOver(i) /\ jobs'[i].status \in {"queued", "cancelled"}
         /\ jobs'[i].effect # "none" <=> jobs[i].effect # "none"
  BY <1>4, <1>8, <1>9, <1>10
<1>14. \A n \in Node : agent'[n] = agent[n]
  BY <1>1
<1>15. FireQueue' /\ FireBusy' /\ FireTable'
  BY <1>11, <1>13, <1>14, FireJobsKept DEF FireInv, FireAgree
<1> QED  BY <1>11, <1>12, <1>15, FireReportKept, FireInForceKept DEF FireAgree

\* Every step keeps the agreement.
LEMMA FireAgreeStep == FireInv /\ FireInv' /\ FireAgree /\ [Fire!Next]_Fire!vars => FireAgree'
<1> SUFFICES ASSUME FireInv, FireInv', FireAgree, [Fire!Next]_Fire!vars  PROVE  FireAgree'
  OBVIOUS
<1>1. CASE UNCHANGED Fire!vars
  <2>1. UNCHANGED <<jobs, agent, table, state, late>>
    BY <1>1 DEF Fire!vars
  <2> QED  BY <2>1, FireAgreeStill
<1>2. ASSUME \/ \E p \in Policy : Fire!EditPolicy(p)
             \/ Fire!EditAddressLists
             \/ \E c \in Call, p \in Policy : Fire!DeleteFirewallPolicyCheck(c, p)
             \/ \E c \in Call : Fire!DeleteFirewallPolicy(c)
             \/ \E c \in Call, o \in {"preview", "apply"}, p \in Policy, s \in BOOLEAN :
                  Fire!buildFirewallJobPayload(c, o, p, s)
             \/ \E c \in Call : Fire!Refuse(c)
      PROVE  FireAgree'
  <2>1. UNCHANGED <<jobs, agent, table, state, late>>
    BY <1>2 DEF Fire!EditPolicy, Fire!EditAddressLists, Fire!DeleteFirewallPolicyCheck, Fire!DeleteFirewallPolicy,
                Fire!buildFirewallJobPayload, Fire!Refuse, Fire!dbVars, Fire!jobVars
  <2> QED  BY <2>1, FireAgreeStill
<1>3. CASE Fire!QueueStep
  <2>1. UNCHANGED <<state, late, table>>
    BY <1>3 DEF Fire!QueueStep, Fire!dbVars
  <2>2. \/ \E n \in Node : Fire!AgentJobResult(n)
        \/ Fire!CompletionCrash \/ Fire!LeaseLapse \/ Fire!AgentCrash \/ Fire!CancelJob \/ Fire!RequeueNodeStuckJob
    BY <1>3 DEF Fire!QueueStep
  <2> QED  BY <2>1, <2>2, FireAgreeAccepts, FireAgreeLosses, FireAgreeRequeues
<1> QED
  BY <1>1, <1>2, <1>3, FireAgreeCalls, FireAgreeResults, FireAgreeClaims, FireAgreeCommands, FireAgreeFailures,
     Zenon DEF Fire!Next

\* Once the youngest rollout has reported, and no older result came in after it
\* was taken, the node's row says what nftables has: the revision it calls
\* applied is loaded, a disabled node has no table, and a failed apply has left
\* the table before it, whichever jobs lapsed, were requeued or cancelled or
\* lost their side effects (ApplyFirewallJobResult, handleNodeFirewallJob).
THEOREM RowAgreesWithTable ==
  /\ Fire!Spec => []Fire!SettledFirewallAgrees
  /\ Spec => []SettledFirewallAgrees
<1> DEFINE Here == part = "firewall" => FireInv /\ FireAgree
<1>1. FireInv /\ FireAgree => Fire!SettledFirewallAgrees
  <2> SUFFICES ASSUME FireInv, FireAgree, NEW m \in Fire!rollouts,
                      ~late, \A j \in Fire!rollouts : j <= m, jobs[m].effect = "applied"
               PROVE  /\ state.status = "applied" => table.kind = "loaded" /\ table.rev = state.rev
                      /\ state.status = "disabled" => table = Fire!Absent
                      /\ state.status = "failed" /\ state.rev # Fire!NoRev /\ (\A j \in Fire!rollouts : jobs[j].effect = "applied")
                           => table.kind = "loaded"
    BY DEF Fire!SettledFirewallAgrees
  <2>1. m \in DOMAIN jobs /\ jobs[m].type \in {"apply", "disable"} /\ m \in Nat /\ \A j \in DOMAIN jobs : j \in Nat
    BY DEF Fire!rollouts, Fire!Job, FireInv, FireType
  <2>2. ~FireLater(m, {"apply", "disable"})
    BY <2>1 DEF FireLater, Fire!rollouts, Fire!Job
  <2>3. /\ jobs[m].type = "apply" =>
             IF jobs[m].status = "succeeded" THEN state.status = "applied" /\ state.rev = jobs[m].payload.rev
                                             ELSE state.status = "failed"
        /\ jobs[m].type = "disable" =>
             /\ state.rev = Fire!NoRev
             /\ state.status = IF jobs[m].status = "succeeded" THEN "disabled" ELSE "failed"
    BY <2>1, <2>2 DEF FireAgree, FireReport
  <2>4. jobs[m].status = "succeeded" => FireShown(m)
    BY <2>1, <2>2 DEF FireAgree, FireTable
  <2>5. state.status = "applied" => table.kind = "loaded" /\ table.rev = state.rev
    BY <2>1, <2>3, <2>4 DEF FireShown, Fire!Loaded
  <2>6. state.status = "disabled" => table = Fire!Absent
    BY <2>1, <2>3, <2>4 DEF FireShown
  <2>7. ASSUME state.rev # Fire!NoRev, \A j \in Fire!rollouts : jobs[j].effect = "applied"  PROVE  table.kind = "loaded"
    BY <2>7 DEF FireAgree, FireInForce, Fire!rollouts, Fire!Job
  <2> QED  BY <2>5, <2>6, <2>7
<1>2. Fire!Spec => []Fire!SettledFirewallAgrees
  BY FireInitially, FireAgreeInitially, FireStep, FireAgreeStep, <1>1, PTL DEF Fire!Spec
<1>3. Init => Here
  BY FireInitially, FireAgreeInitially, FireBegins
<1>4. Here /\ [Next]_vars => Here'
  BY FireStep, FireAgreeStep, FireGoesOn
<1>5. Here => SettledFirewallAgrees
  BY <1>1 DEF SettledFirewallAgrees
<1>6. Spec => []SettledFirewallAgrees
  BY <1>3, <1>4, <1>5, PTL DEF Spec
<1> QED  BY <1>2, <1>6
=============================================================================
