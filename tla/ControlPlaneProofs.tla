------------------------- MODULE ControlPlaneProofs -------------------------
(***************************************************************************)
(* Proofs about parts of the control plane that share no state, for every  *)
(* number of instances, jobs, calls and faults: the emergency cleanup of a *)
(* node (NodeCleanup), the runtime states (RuntimeStates, Runtime), the    *)
(* runtimes a service needs on its node (Capabilities, Caps) and the       *)
(* accounting of traffic (TrafficAccounting, Traffic).                     *)
(*                                                                         *)
(* SweepInv says how far a sweep is: once it is past the teardown of L2TP  *)
(* or the purge of the packages, these are gone or an error is on record,  *)
(* and nothing a node is given afterwards brings them back.                *)
(* RunInv says that what runs on the node has a row that knows of it, or   *)
(* the completion of its apply under way, and what a sweep has passed.     *)
(* RtInv says that, as long as no revision was made during an apply, what  *)
(* counts as applied or is about to is what the node has, and that a       *)
(* report under way which names the current revision saw it there.         *)
(* CapInv says that whoever is owed an answer is with an install that is   *)
(* still to give one, and, as long as nothing has gone wrong, how far the  *)
(* agent's install is and what it has made of the node by then.            *)
(* UsageInv follows the bytes of a stream: what is stored, with what is on *)
(* its way and what the next report will find, is at most what was moved   *)
(* (NotOver) and at least what the agent has committed (NotLost).          *)
(***************************************************************************)
EXTENDS MCControlPlane, Naturals, Sequences, FiniteSets, SequenceTheorems, FiniteSetTheorems,
        FunctionTheorems, WellFoundedInduction, TLAPS

-----------------------------------------------------------------------------
(* The parts of MCControlPlane: a behaviour stays in the part it begins in. *)

\* The first state of a part is one of its component.
LEMMA CleanupBegins == Init /\ part = "cleanup" => Cleanup!Init
  BY DEF Init

\* A step of the part "cleanup" is a step of NodeCleanup or leaves it alone,
\* and no step leads from one part to another.
LEMMA CleanupGoesOn ==
  [Next]_vars => part' = part /\ (part = "cleanup" => [Cleanup!Next]_Cleanup!vars)
  BY DEF Next, vars, queueVars, cleanupVars, Cleanup!vars

\* The first state of the part "runtime".
LEMMA RuntimeBegins == Init /\ part = "runtime" => Runtime!Init
  BY DEF Init

\* A step of the part "runtime".
LEMMA RuntimeGoesOn ==
  [Next]_vars => part' = part /\ (part = "runtime" => [Runtime!Next]_Runtime!vars)
  BY DEF Next, vars, queueVars, runtimeVars, Runtime!vars

\* The first state of the parts "nginx" and "packages".
LEMMA InstallsBegin == Init /\ part \in {"nginx", "packages"} => Caps!Init
  BY DEF Init

\* A step of the parts "nginx" and "packages".
LEMMA InstallsGoOn ==
  [Next]_vars => part' = part /\ (part \in {"nginx", "packages"} => [Caps!Next]_Caps!vars)
  BY DEF Next, vars, queueVars, capabilityVars, Caps!vars, Caps!featureVars, Caps!jobVars

\* The first state of the parts "traffic" and "stream".
LEMMA TrafficBegins == Init /\ part \in {"traffic", "stream"} => Traffic!Init
  BY DEF Init

\* A step of the parts "traffic" and "stream".
LEMMA TrafficGoesOn ==
  [Next]_vars => part' = part /\ (part \in {"traffic", "stream"} => [Traffic!Next]_Traffic!vars)
  BY DEF Next, vars, queueVars, trafficVars, Traffic!vars

-----------------------------------------------------------------------------
\* The node exists, and an instance is none of the other things on a host:
\* these have names of their own there.
SweepNames ==
  /\ Cleanup!TheNode \in Node
  /\ InUnit \subseteq Instance
  /\ Instance \cap Cleanup!Fixed = {}

SweepPayload ==
  [instances : SUBSET Instance, scope : {"none", "services_only", "full_node"}, agent : BOOLEAN]

SweepRow ==
  [type : {"apply", "cleanup", "route_policy"}, node : {Cleanup!TheNode}, scope : Instance \cup {Cleanup!TheNode},
   payload : SweepPayload, priority : Nat,
   status : {"queued", "running", "succeeded", "failed", "cancelled"},
   effect : {"none", "pending", "applied", "lost"}]

\* What is left of a sweep: before the L2TP teardown, between it and the
\* purge of the packages, and after both.
BeforeL2TP ==
  {<<"instances", "units", "l2tp", "packages", "configs", "end">>,
   <<"units", "l2tp", "packages", "configs", "end">>,
   <<"l2tp", "packages", "configs", "end">>}
BeforePackages == {<<"packages", "configs", "end">>}
AfterPackages == {<<"configs", "end">>, <<"end">>}

SweepTodo == {<<>>} \cup BeforeL2TP \cup BeforePackages \cup AfterPackages

SweepAgent == [job : Nat, todo : SweepTodo, warned : BOOLEAN, result : {"none", "succeeded", "failed", "sent"}]

SweepType ==
  /\ jobs \in Seq(SweepRow)
  /\ agent \in [Node -> SweepAgent]
  /\ agent[Cleanup!TheNode].job \in 0..Len(jobs)
  /\ wiped \in BOOLEAN
  /\ removal \in [at : {"none", "scheduled", "gone"}, scope : {"none", "services_only", "full_node"}]

\* Without a wipe no queued or running sweep has the whole node for its scope.
SweepScopes ==
  ~wiped => \A j \in DOMAIN jobs : jobs[j].type = "cleanup" => jobs[j].payload.scope # "full_node"

\* How far the sweep under way is, and what it has left on the host.
SweepProgress ==
  Cleanup!Working(Cleanup!TheNode) /\ Cleanup!TheJob.type = "cleanup" =>
    /\ agent[Cleanup!TheNode].todo # <<>>
    /\ agent[Cleanup!TheNode].todo \notin BeforeL2TP => "l2tp" \notin host \/ "error" \in trouble
    /\ agent[Cleanup!TheNode].todo \in AfterPackages /\ Cleanup!TheJob.payload.scope = "full_node"
         => "packages" \notin host \/ "error" \in trouble

SweepInv == SweepType /\ SweepScopes /\ SweepProgress /\ Cleanup!SweepLeavesWhatStays

\* Jobs are never removed, and change in their status and effect only.
SweepJobsGrow ==
  /\ DOMAIN jobs \subseteq DOMAIN jobs'
  /\ \A j \in DOMAIN jobs : jobs'[j].type = jobs[j].type /\ jobs'[j].payload = jobs[j].payload

-----------------------------------------------------------------------------
(* The queue. *)

\* One row rewritten in its status or effect.
LEMMA SweepRewritten ==
  ASSUME jobs \in Seq(SweepRow), NEW j \in DOMAIN jobs, NEW r \in SweepRow, jobs' = [jobs EXCEPT ![j] = r],
         r.type = jobs[j].type, r.payload = jobs[j].payload
  PROVE  jobs' \in Seq(SweepRow) /\ SweepJobsGrow /\ DOMAIN jobs' = DOMAIN jobs
<1>1. j \in 1..Len(jobs)
  OBVIOUS
<1>2. jobs' \in Seq(SweepRow) /\ Len(jobs') = Len(jobs) /\ DOMAIN jobs' = DOMAIN jobs
  BY <1>1, ExceptSeq
<1>3. SweepJobsGrow
  BY <1>2 DEF SweepJobsGrow
<1> QED  BY <1>2, <1>3

\* What Append does to a sequence.
LEMMA Appended ==
  ASSUME NEW S, NEW K \in Seq(S), NEW q \in S
  PROVE  /\ Append(K, q) \in Seq(S) /\ DOMAIN Append(K, q) = DOMAIN K \cup {Len(K) + 1}
         /\ Append(K, q)[Len(K) + 1] = q /\ \A i \in DOMAIN K : Append(K, q)[i] = K[i]
  BY AppendProperties

\* One row appended.
LEMMA SweepAppended ==
  ASSUME jobs \in Seq(SweepRow), NEW r \in SweepRow, jobs' = Append(jobs, r)
  PROVE  /\ jobs' \in Seq(SweepRow) /\ SweepJobsGrow
         /\ \A j \in DOMAIN jobs' \ DOMAIN jobs : jobs'[j] = r
  BY AppendProperties DEF SweepJobsGrow

\* One row's status.
LEMMA SweepStatus ==
  ASSUME SweepType, NEW j \in DOMAIN jobs,
         NEW st \in {"queued", "running", "succeeded", "failed", "cancelled"},
         jobs' = [jobs EXCEPT ![j].status = st]
  PROVE  jobs' \in Seq(SweepRow) /\ SweepJobsGrow /\ DOMAIN jobs' = DOMAIN jobs
<1>1. jobs[j] \in SweepRow
  BY DEF SweepType
<1>2. PICK r : r = [jobs[j] EXCEPT !.status = st]
  OBVIOUS
<1>3. r \in SweepRow /\ r.type = jobs[j].type /\ r.payload = jobs[j].payload
  BY <1>1, <1>2 DEF SweepRow
<1>4. jobs' = [jobs EXCEPT ![j] = r]
  BY <1>2, Zenon
<1> QED  BY <1>3, <1>4, SweepRewritten DEF SweepType

\* One row's effect.
LEMMA SweepEffect ==
  ASSUME SweepType, NEW j \in DOMAIN jobs, NEW ef \in {"none", "pending", "applied", "lost"}
  PROVE  LET r == [jobs[j] EXCEPT !.effect = ef]
         IN  /\ [jobs EXCEPT ![j].effect = ef] = [jobs EXCEPT ![j] = r]
             /\ r \in SweepRow /\ r.type = jobs[j].type /\ r.payload = jobs[j].payload
<1>1. jobs[j] \in SweepRow
  BY DEF SweepType
<1>2. PICK r : r = [jobs[j] EXCEPT !.effect = ef]
  OBVIOUS
<1>3. r \in SweepRow /\ r.type = jobs[j].type /\ r.payload = jobs[j].payload
  BY <1>1, <1>2 DEF SweepRow
<1> QED  BY <1>2, <1>3

\* The agent that goes on as it was, is idle, or has ended its handler.
SweepAgentKept ==
  /\ agent' \in [Node -> SweepAgent]
  /\ \/ agent'[Cleanup!TheNode] = agent[Cleanup!TheNode]
     \/ agent'[Cleanup!TheNode] = Cleanup!AgentIdle
     \/ agent'[Cleanup!TheNode].job = agent[Cleanup!TheNode].job /\ agent'[Cleanup!TheNode].result # "none"

\* A step of the queue or of an operator, away from the host: nothing the
\* sweep has to leave is touched, and a new job is no wipe nobody asked for.
LEMMA SweepElsewhere ==
  ASSUME SweepNames, SweepInv, UNCHANGED <<host, trouble>>,
         jobs' \in Seq(SweepRow), SweepJobsGrow, SweepAgentKept,
         wiped' \in BOOLEAN, wiped => wiped',
         removal' \in [at : {"none", "scheduled", "gone"}, scope : {"none", "services_only", "full_node"}],
         Cleanup!AgentStaysForRepair',
         \A j \in DOMAIN jobs' \ DOMAIN jobs :
            jobs'[j].type = "cleanup" /\ jobs'[j].payload.scope = "full_node" => wiped'
  PROVE  SweepInv'
<1> USE DEF SweepNames, SweepInv
<1>1. Len(jobs) \in Nat /\ Len(jobs') \in Nat /\ Len(jobs) <= Len(jobs') /\ DOMAIN jobs = 1..Len(jobs)
  BY DEF SweepType, SweepJobsGrow
<1>2. agent'[Cleanup!TheNode].job \in 0..Len(jobs')
  BY <1>1 DEF SweepAgentKept, SweepType, Cleanup!AgentIdle, Cleanup!NoJob
<1>3. SweepType'
  BY <1>2 DEF SweepType, SweepAgentKept
<1>4. SweepScopes'
  BY DEF SweepScopes, SweepJobsGrow
<1>5. SweepProgress'
  <2>1. CASE agent'[Cleanup!TheNode] = agent[Cleanup!TheNode]
    BY <1>1, <2>1 DEF SweepProgress, SweepType, SweepJobsGrow, Cleanup!Working, Cleanup!NoJob, Cleanup!TheJob
  <2>2. CASE agent'[Cleanup!TheNode] = Cleanup!AgentIdle
    BY <2>2 DEF SweepProgress, Cleanup!Working, Cleanup!AgentIdle
  <2>3. CASE agent'[Cleanup!TheNode].job = agent[Cleanup!TheNode].job /\ agent'[Cleanup!TheNode].result # "none"
    BY <2>3 DEF SweepProgress, Cleanup!Working
  <2> QED  BY <2>1, <2>2, <2>3 DEF SweepAgentKept
<1>6. Cleanup!SweepLeavesWhatStays'
  BY DEF Cleanup!SweepLeavesWhatStays, Cleanup!TransitSurvives
<1> QED  BY <1>3, <1>4, <1>5, <1>6

\* The idle agent is an agent.
LEMMA SweepIdle == Cleanup!AgentIdle \in SweepAgent
  BY DEF Cleanup!AgentIdle, SweepAgent, SweepTodo, Cleanup!NoJob

\* Whoever waited for the answer is idle.
LEMMA SweepAnswered ==
  ASSUME SweepNames, SweepType, NEW j, Cleanup!Answer(j)  PROVE  SweepAgentKept
  BY SweepIdle DEF SweepNames, SweepType, Cleanup!Answer, SweepAgentKept

\* The handler ends with a result.
LEMMA SweepFinished ==
  ASSUME SweepNames, SweepType, NEW res \in {"succeeded", "failed"}, Cleanup!Finish(Cleanup!TheNode, res)
  PROVE  SweepAgentKept /\ agent'[Cleanup!TheNode].result # "none"
<1>1. <<>> \in SweepTodo
  BY DEF SweepTodo
<1>2. agent' = [agent EXCEPT ![Cleanup!TheNode] = [agent[Cleanup!TheNode] EXCEPT !.result = res, !.todo = <<>>]]
  BY Zenon DEF Cleanup!Finish
<1>3. agent[Cleanup!TheNode] \in SweepAgent
  BY DEF SweepType, SweepNames
<1>4. PICK a : a = [agent[Cleanup!TheNode] EXCEPT !.result = res, !.todo = <<>>]
  OBVIOUS
<1>5. a \in SweepAgent /\ a.job = agent[Cleanup!TheNode].job /\ a.result # "none"
  BY <1>1, <1>3, <1>4 DEF SweepAgent
<1> QED  BY <1>2, <1>4, <1>5 DEF SweepType, SweepNames, SweepAgentKept

\* Results, cancellations, lost completions, lapsed leases and restarts.
LEMMA SweepQueueStep ==
  ASSUME SweepNames, SweepInv, Cleanup!QueueStep  PROVE  SweepInv'
<1> USE DEF SweepInv
<1>1. UNCHANGED <<host, trouble, removal, wiped>> /\ wiped' \in BOOLEAN /\ Cleanup!AgentStaysForRepair'
  BY DEF Cleanup!QueueStep, SweepType, Cleanup!SweepLeavesWhatStays, Cleanup!AgentStaysForRepair
<1>2. /\ removal' \in [at : {"none", "scheduled", "gone"}, scope : {"none", "services_only", "full_node"}]
      /\ Cleanup!TheNode \in Node /\ agent[Cleanup!TheNode] \in SweepAgent
  BY <1>1 DEF SweepType, SweepNames
<1>3. SUFFICES jobs' \in Seq(SweepRow) /\ SweepJobsGrow /\ DOMAIN jobs' = DOMAIN jobs /\ SweepAgentKept
  BY <1>1, <1>2, SweepElsewhere
<1>4. CASE Cleanup!AgentJobResult(Cleanup!TheNode)
  <2>1. PICK j, res : j = agent[Cleanup!TheNode].job /\ res = agent[Cleanup!TheNode].result
    OBVIOUS
  <2>2. CASE jobs[j].status = "running"
    <3>1. /\ res \in {"succeeded", "failed"}
          /\ jobs' = [jobs EXCEPT ![j] = [jobs[j] EXCEPT !.status = res, !.effect = "pending"]]
          /\ agent' = [agent EXCEPT ![Cleanup!TheNode].result = "sent"]
      BY <1>4, <2>1, <2>2, Zenon DEF Cleanup!AgentJobResult
    <3>2. SweepAgentKept
      BY <1>2, <3>1 DEF SweepType, SweepAgent, SweepAgentKept
    <3>3. PICK r : r = [jobs[j] EXCEPT !.status = res, !.effect = "pending"]
      OBVIOUS
    <3>4. CASE j \in DOMAIN jobs
      <4>1. jobs[j] \in SweepRow
        BY <3>4 DEF SweepType
      <4>2. r \in SweepRow /\ r.type = jobs[j].type /\ r.payload = jobs[j].payload
        BY <3>1, <3>3, <4>1 DEF SweepRow
      <4> QED  BY <3>1, <3>2, <3>3, <3>4, <4>2, SweepRewritten DEF SweepType
    <3>5. CASE j \notin DOMAIN jobs
      <4>1. jobs' = jobs
        BY <3>1, <3>5 DEF SweepType
      <4> QED  BY <3>2, <4>1 DEF SweepType, SweepJobsGrow
    <3> QED  BY <3>4, <3>5
  <2>3. CASE jobs[j].status # "running"
    <3>1. jobs' = jobs /\ agent' = [agent EXCEPT ![Cleanup!TheNode] = Cleanup!AgentIdle]
      BY <1>4, <2>1, <2>3 DEF Cleanup!AgentJobResult
    <3> QED  BY <1>2, <3>1, SweepIdle DEF SweepType, SweepJobsGrow, SweepAgentKept
  <2> QED  BY <2>2, <2>3
<1>5. CASE Cleanup!CompletionCrash
  <2>1. PICK j \in DOMAIN jobs : jobs' = [jobs EXCEPT ![j].effect = "lost"] /\ Cleanup!Answer(j)
    BY <1>5 DEF Cleanup!CompletionCrash, Cleanup!Job
  <2>2. PICK r : r = [jobs[j] EXCEPT !.effect = "lost"]
    OBVIOUS
  <2>3. jobs' = [jobs EXCEPT ![j] = r] /\ r \in SweepRow /\ r.type = jobs[j].type /\ r.payload = jobs[j].payload
    BY <2>1, <2>2, SweepEffect
  <2> QED  BY <2>1, <2>3, SweepRewritten, SweepAnswered DEF SweepType
<1>6. CASE Cleanup!LeaseLapse \/ Cleanup!CancelJob
  <2>1. PICK j \in DOMAIN jobs, st \in {"queued", "cancelled"} :
          jobs' = [jobs EXCEPT ![j].status = st] /\ UNCHANGED agent
    BY <1>6 DEF Cleanup!LeaseLapse, Cleanup!CancelJob, Cleanup!Job
  <2> QED  BY <2>1, SweepStatus DEF SweepAgentKept, SweepType
<1>7. CASE Cleanup!AgentCrash
  <2>1. UNCHANGED jobs /\ \E n \in Node : agent' = [agent EXCEPT ![n] = Cleanup!AgentIdle]
    BY <1>7 DEF Cleanup!AgentCrash
  <2> QED  BY <1>2, <2>1, SweepIdle DEF SweepType, SweepJobsGrow, SweepAgentKept
<1> QED  BY <1>4, <1>5, <1>6, <1>7 DEF Cleanup!QueueStep

-----------------------------------------------------------------------------
(* Operators. *)

\* The node starts with everything it has to keep.
LEMMA SweepInitially == SweepNames /\ Cleanup!Init => SweepInv
<1> SUFFICES ASSUME SweepNames, Cleanup!Init  PROVE  SweepInv  OBVIOUS
<1> USE DEF Cleanup!Init, Cleanup!JobsInit, SweepNames
<1>1. SweepType
  <2>1. Len(jobs) = 0 /\ jobs \in Seq(SweepRow)
    OBVIOUS
  <2>2. agent \in [Node -> SweepAgent]
    BY SweepIdle
  <2>3. agent[Cleanup!TheNode].job = 0
    BY DEF Cleanup!AgentIdle, Cleanup!NoJob
  <2>4. wiped \in BOOLEAN /\ removal = Cleanup!NoRemoval
    OBVIOUS
  <2> HIDE DEF Cleanup!Init
  <2>5. agent[Cleanup!TheNode].job \in 0..Len(jobs)
    BY <2>1, <2>3
  <2> QED  BY <2>1, <2>2, <2>4, <2>5 DEF SweepType, Cleanup!NoRemoval
<1>2. SweepScopes
  BY DEF SweepScopes
<1>3. SweepProgress
  BY DEF SweepProgress, Cleanup!Working, Cleanup!AgentIdle
<1>4. Cleanup!SweepLeavesWhatStays
  BY DEF Cleanup!SweepLeavesWhatStays, Cleanup!TransitSurvives, Cleanup!AgentStaysForRepair, Cleanup!NoRemoval, Cleanup!Fixed, Cleanup!Transit
<1> QED  BY <1>1, <1>2, <1>3, <1>4 DEF SweepInv

\* A job queued by an operator: an apply, or a cleanup of its scope.
LEMMA SweepQueued ==
  ASSUME SweepNames, SweepInv, Cleanup!CreateInstance \/ Cleanup!QueueNodeRuntimeReconcile \/ Cleanup!CreateNodeEmergencyCleanupJob
  PROVE  SweepInv'
<1> USE DEF SweepInv
<1>1. UNCHANGED <<host, trouble, removal, agent>>
  BY DEF Cleanup!CreateInstance, Cleanup!QueueNodeRuntimeReconcile, Cleanup!CreateNodeEmergencyCleanupJob
<1>2. PICK r \in SweepRow : /\ jobs' = Append(jobs, r)
                            /\ wiped' \in BOOLEAN /\ (wiped => wiped')
                            /\ r.type = "cleanup" /\ r.payload.scope = "full_node" => wiped'
  <2>1. CASE Cleanup!CreateInstance \/ Cleanup!QueueNodeRuntimeReconcile
    <3>1. PICK i \in Instance, p \in {60, 100} :
            /\ jobs' = Append(jobs, Cleanup!newJob("apply", Cleanup!TheNode, i, [instances |-> {i}, scope |-> "none", agent |-> FALSE], p))
            /\ wiped' = wiped
      BY <2>1 DEF Cleanup!CreateInstance, Cleanup!QueueNodeRuntimeReconcile, Cleanup!Queue, Cleanup!QueueAt
    <3>2. Cleanup!newJob("apply", Cleanup!TheNode, i, [instances |-> {i}, scope |-> "none", agent |-> FALSE], p) \in SweepRow
      BY DEF Cleanup!newJob, SweepRow, SweepPayload
    <3> QED  BY <3>1, <3>2 DEF Cleanup!newJob, SweepType
  <2>2. CASE Cleanup!CreateNodeEmergencyCleanupJob
    <3>1. PICK w \in BOOLEAN, scope \in {"services_only", "full_node"} :
            /\ jobs' = Append(jobs, Cleanup!newJob("cleanup", Cleanup!TheNode, Cleanup!TheNode,
                         [instances |-> Cleanup!nodeInstanceCleanupPayloads, scope |-> scope, agent |-> w], 1))
            /\ wiped' = (wiped \/ scope = "full_node")
      BY <2>2, Zenon DEF Cleanup!CreateNodeEmergencyCleanupJob, Cleanup!QueueAt
    <3>2. PICK S \in SUBSET Instance : S = Cleanup!nodeInstanceCleanupPayloads
      BY DEF Cleanup!nodeInstanceCleanupPayloads
    <3>3. Cleanup!newJob("cleanup", Cleanup!TheNode, Cleanup!TheNode, [instances |-> S, scope |-> scope, agent |-> w], 1) \in SweepRow
      BY DEF Cleanup!newJob, SweepRow, SweepPayload
    <3>4. wiped' \in BOOLEAN /\ (wiped => wiped') /\ (scope = "full_node" => wiped')
      BY <3>1
    <3> QED  BY <3>1, <3>2, <3>3, <3>4 DEF Cleanup!newJob
  <2> QED  BY <2>1, <2>2
<1>3. jobs' \in Seq(SweepRow) /\ SweepJobsGrow /\ \A j \in DOMAIN jobs' \ DOMAIN jobs : jobs'[j] = r
  BY <1>2, SweepAppended DEF SweepType
<1>4. SweepAgentKept
  BY <1>1 DEF SweepAgentKept, SweepType
<1>5. /\ removal' \in [at : {"none", "scheduled", "gone"}, scope : {"none", "services_only", "full_node"}]
      /\ Cleanup!AgentStaysForRepair'
  BY <1>1 DEF SweepType, Cleanup!SweepLeavesWhatStays, Cleanup!AgentStaysForRepair
<1> QED  BY <1>1, <1>2, <1>3, <1>4, <1>5, SweepElsewhere

-----------------------------------------------------------------------------
(* The agent. *)

\* The commands of a sweep, one by one.
LEMMA SweepTodoSteps ==
  ASSUME NEW todo \in SweepTodo, todo # <<>>
  PROVE  /\ Head(todo) # "end" => Tail(todo) \in SweepTodo /\ Tail(todo) # <<>>
         /\ Head(todo) \in {"instances", "units"} => Tail(todo) \in BeforeL2TP
         /\ Head(todo) = "l2tp" => Tail(todo) \notin AfterPackages
         /\ Head(todo) = "packages" => todo \notin BeforeL2TP
         /\ Head(todo) = "configs" => todo \in AfterPackages
         /\ Head(todo) = "end" => todo \in AfterPackages
         /\ todo \in AfterPackages => todo \notin BeforeL2TP
<1> USE DEF SweepTodo, BeforeL2TP, BeforePackages, AfterPackages
<1>1. CASE todo = <<"instances", "units", "l2tp", "packages", "configs", "end">>
  BY <1>1
<1>2. CASE todo = <<"units", "l2tp", "packages", "configs", "end">>
  BY <1>2
<1>3. CASE todo = <<"l2tp", "packages", "configs", "end">>
  BY <1>3
<1>4. CASE todo = <<"packages", "configs", "end">>
  BY <1>4
<1>5. CASE todo = <<"configs", "end">>
  BY <1>5
<1>6. CASE todo = <<"end">>
  BY <1>6
<1> QED  BY <1>1, <1>2, <1>3, <1>4, <1>5, <1>6

\* AgentNextJob hands out a sweep that has not begun.
LEMMA SweepClaims ==
  ASSUME SweepNames, SweepInv, Cleanup!AgentNextJob  PROVE  SweepInv'
<1> USE DEF SweepInv
<1>1. PICK j \in DOMAIN jobs : Cleanup!Claim(Cleanup!TheNode, j, Cleanup!Steps(jobs[j].type))
  BY DEF Cleanup!AgentNextJob, Cleanup!Job
<1>2. PICK todo : todo = Cleanup!Steps(jobs[j].type)
  OBVIOUS
<1>3. todo \in SweepTodo /\ (jobs[j].type = "cleanup" => todo \in BeforeL2TP /\ todo # <<>> /\ todo \notin AfterPackages)
  BY <1>2 DEF Cleanup!Steps, SweepTodo, BeforeL2TP, AfterPackages
<1>4. /\ jobs' = [jobs EXCEPT ![j].status = "running"]
      /\ agent' = [agent EXCEPT ![Cleanup!TheNode] = [Cleanup!AgentIdle EXCEPT !.job = j, !.todo = todo]]
  BY <1>1, <1>2 DEF Cleanup!Claim
<1>5. jobs' \in Seq(SweepRow) /\ SweepJobsGrow /\ DOMAIN jobs' = DOMAIN jobs
  BY <1>4, SweepStatus
<1>6. PICK a : a = [Cleanup!AgentIdle EXCEPT !.job = j, !.todo = todo]
  OBVIOUS
<1>7. a = [job |-> j, todo |-> todo, warned |-> FALSE, result |-> "none"]
  BY <1>6, Zenon DEF Cleanup!AgentIdle
<1>8. j \in Nat /\ j \in 0..Len(jobs') /\ Cleanup!TheNode \in Node
  BY <1>5 DEF SweepType, SweepNames
<1>9. a \in SweepAgent
  BY <1>3, <1>7, <1>8 DEF SweepAgent
<1>10. agent' \in [Node -> SweepAgent] /\ agent'[Cleanup!TheNode] = a
  BY <1>4, <1>6, <1>8, <1>9 DEF SweepType
<1>11. UNCHANGED <<host, removal, wiped>>
  BY DEF Cleanup!AgentNextJob
<1>12. SweepType'
  BY <1>5, <1>7, <1>8, <1>10, <1>11 DEF SweepType
<1>13. SweepScopes'
  BY <1>5, <1>11 DEF SweepScopes, SweepJobsGrow
<1>14. SweepProgress'
  <2>1. Cleanup!TheJob'.type = jobs[j].type /\ agent'[Cleanup!TheNode].todo = todo
    BY <1>5, <1>7, <1>10 DEF Cleanup!TheJob, SweepJobsGrow
  <2> QED  BY <2>1, <1>3 DEF SweepProgress
<1>15. Cleanup!SweepLeavesWhatStays'
  BY <1>11 DEF Cleanup!SweepLeavesWhatStays, Cleanup!TransitSurvives, Cleanup!AgentStaysForRepair
<1> QED  BY <1>12, <1>13, <1>14, <1>15

\* A command of the sweep has been run: the next one is at the head, and what
\* it took from the host is left to the step's own argument.
LEMMA SweepAdvanced ==
  ASSUME SweepNames, SweepInv, NEW name \in {"instances", "units", "l2tp", "packages", "configs"}, Cleanup!Step(name)
  PROVE  /\ SweepType' /\ SweepScopes' /\ Cleanup!TheJob' = Cleanup!TheJob /\ UNCHANGED <<jobs, wiped, removal>>
         /\ agent[Cleanup!TheNode].todo \in SweepTodo /\ agent[Cleanup!TheNode].todo # <<>> /\ Head(agent[Cleanup!TheNode].todo) = name
         /\ agent'[Cleanup!TheNode].todo = Tail(agent[Cleanup!TheNode].todo)
         /\ agent[Cleanup!TheNode].job \in DOMAIN jobs /\ Cleanup!TheJob \in SweepRow /\ Cleanup!TheJob.type = "cleanup"
         /\ SweepProgress => /\ agent[Cleanup!TheNode].todo \notin BeforeL2TP => "l2tp" \notin host \/ "error" \in trouble
                             /\ agent[Cleanup!TheNode].todo \in AfterPackages /\ Cleanup!TheJob.payload.scope = "full_node"
                                  => "packages" \notin host \/ "error" \in trouble
<1> USE DEF SweepInv
<1>1. /\ Cleanup!Working(Cleanup!TheNode) /\ Cleanup!TheJob.type = "cleanup" /\ Head(agent[Cleanup!TheNode].todo) = name
      /\ UNCHANGED <<jobs, wiped, removal>>
      /\ agent' = [agent EXCEPT ![Cleanup!TheNode].todo = Tail(@)]
  BY DEF Cleanup!Step, Cleanup!Advance
<1>2. agent[Cleanup!TheNode] \in SweepAgent /\ Cleanup!TheNode \in Node /\ agent[Cleanup!TheNode].job \in 0..Len(jobs)
  BY DEF SweepType, SweepNames
<1>3. agent[Cleanup!TheNode].todo \in SweepTodo /\ agent[Cleanup!TheNode].todo # <<>>
  BY <1>1, <1>2 DEF SweepProgress, SweepAgent
<1>4. PICK t : t = Tail(agent[Cleanup!TheNode].todo)
  OBVIOUS
<1>5. t \in SweepTodo
  BY <1>1, <1>3, <1>4, SweepTodoSteps
<1>6. /\ agent' \in [Node -> SweepAgent] /\ agent'[Cleanup!TheNode].todo = t
      /\ agent'[Cleanup!TheNode].job = agent[Cleanup!TheNode].job
  BY <1>1, <1>2, <1>4, <1>5 DEF SweepType, SweepAgent
<1>7. Cleanup!TheJob' = Cleanup!TheJob
  BY <1>1, <1>6 DEF Cleanup!TheJob
<1>8. agent[Cleanup!TheNode].job \in DOMAIN jobs /\ Cleanup!TheJob \in SweepRow
  BY <1>1, <1>2 DEF Cleanup!Working, Cleanup!NoJob, Cleanup!TheJob, SweepType
<1>9. SweepType' /\ SweepScopes'
  BY <1>1, <1>2, <1>6 DEF SweepType, SweepScopes
<1> QED  BY <1>1, <1>3, <1>4, <1>6, <1>7, <1>8, <1>9 DEF SweepProgress

\* The removals of a sweep leave what has to stay.
LEMMA SweepCommands ==
  ASSUME SweepNames, SweepInv,
         \/ Cleanup!emergencyCleanupInstances \/ Cleanup!emergencyCleanupUnits \/ Cleanup!emergencyCleanupL2TPRuntime
         \/ Cleanup!purgeEmergencyL2TPPackages \/ Cleanup!emergencyCleanupManagedServiceConfigPaths
  PROVE  SweepInv'
<1> USE DEF SweepInv
<1>1. PICK name \in {"instances", "units", "l2tp", "packages", "configs"} :
        /\ Cleanup!Step(name)
        /\ name = "instances" => Cleanup!emergencyCleanupInstances
        /\ name = "units" => Cleanup!emergencyCleanupUnits
        /\ name = "l2tp" => Cleanup!emergencyCleanupL2TPRuntime
        /\ name = "packages" => Cleanup!purgeEmergencyL2TPPackages
        /\ name = "configs" => Cleanup!emergencyCleanupManagedServiceConfigPaths
  <2>1. CASE Cleanup!emergencyCleanupInstances
    BY <2>1 DEF Cleanup!emergencyCleanupInstances
  <2>2. CASE Cleanup!emergencyCleanupUnits
    BY <2>2 DEF Cleanup!emergencyCleanupUnits
  <2>3. CASE Cleanup!emergencyCleanupL2TPRuntime
    BY <2>3 DEF Cleanup!emergencyCleanupL2TPRuntime
  <2>4. CASE Cleanup!purgeEmergencyL2TPPackages
    BY <2>4 DEF Cleanup!purgeEmergencyL2TPPackages
  <2>5. CASE Cleanup!emergencyCleanupManagedServiceConfigPaths
    BY <2>5 DEF Cleanup!emergencyCleanupManagedServiceConfigPaths
  <2> QED  BY <2>1, <2>2, <2>3, <2>4, <2>5
<1>2. /\ SweepType' /\ SweepScopes' /\ Cleanup!TheJob' = Cleanup!TheJob /\ UNCHANGED <<jobs, wiped, removal>>
      /\ agent[Cleanup!TheNode].todo \in SweepTodo /\ agent[Cleanup!TheNode].todo # <<>> /\ Head(agent[Cleanup!TheNode].todo) = name
      /\ agent'[Cleanup!TheNode].todo = Tail(agent[Cleanup!TheNode].todo)
      /\ agent[Cleanup!TheNode].job \in DOMAIN jobs /\ Cleanup!TheJob \in SweepRow /\ Cleanup!TheJob.type = "cleanup"
      /\ agent[Cleanup!TheNode].todo \notin BeforeL2TP => "l2tp" \notin host \/ "error" \in trouble
      /\ agent[Cleanup!TheNode].todo \in AfterPackages /\ Cleanup!TheJob.payload.scope = "full_node"
           => "packages" \notin host \/ "error" \in trouble
  BY <1>1, SweepAdvanced
<1>3. PICK todo \in SweepTodo : todo = agent[Cleanup!TheNode].todo /\ todo # <<>> /\ Head(todo) = name
  BY <1>2
<1>4. /\ Tail(todo) # <<>>
      /\ name \in {"instances", "units"} => Tail(todo) \in BeforeL2TP
      /\ name = "l2tp" => Tail(todo) \notin AfterPackages
      /\ name = "packages" => todo \notin BeforeL2TP
      /\ name = "configs" => todo \in AfterPackages
      /\ \A t \in SweepTodo : t # <<>> /\ t \in AfterPackages => t \notin BeforeL2TP
  BY <1>3, SweepTodoSteps
<1>5. PICK scope : scope = Cleanup!TheJob.payload.scope
  OBVIOUS
<1>6. Cleanup!TheJob.payload.instances \subseteq Instance /\ (scope = "full_node" => wiped)
  BY <1>2, <1>5 DEF SweepRow, SweepPayload, SweepScopes, Cleanup!TheJob
<1>7. /\ host' \subseteq host
      /\ host \ host' \subseteq (IF scope = "full_node" THEN Cleanup!Transit \cup {"packages"} ELSE {})
                                  \cup {"egress", "l2tp"} \cup Instance
      /\ trouble \subseteq trouble'
      /\ name = "l2tp" => "l2tp" \notin host' \/ "error" \in trouble'
      /\ name = "packages" /\ scope = "full_node" => "packages" \notin host' \/ "error" \in trouble'
  <2> USE DEF Cleanup!Removes, Cleanup!Fails
  <2>1. CASE name = "instances"
    BY <1>1, <1>6, <2>1 DEF Cleanup!emergencyCleanupInstances
  <2>2. CASE name = "units"
    BY <1>1, <1>5, <2>2 DEF Cleanup!emergencyCleanupUnits, Cleanup!isEmergencyManagedUnitForScope, SweepNames
  <2>3. CASE name = "l2tp"
    BY <1>1, <2>3 DEF Cleanup!emergencyCleanupL2TPRuntime
  <2>4. CASE name = "packages"
    BY <1>1, <1>5, <2>4 DEF Cleanup!purgeEmergencyL2TPPackages
  <2>5. CASE name = "configs"
    BY <1>1, <2>5 DEF Cleanup!emergencyCleanupManagedServiceConfigPaths
  <2> QED  BY <2>1, <2>2, <2>3, <2>4, <2>5
<1>8. SweepProgress'
  <2>1. /\ Tail(todo) \notin BeforeL2TP => "l2tp" \notin host' \/ "error" \in trouble'
        /\ Tail(todo) \in AfterPackages /\ scope = "full_node" => "packages" \notin host' \/ "error" \in trouble'
    <3>1. Tail(todo) \notin BeforeL2TP => name = "l2tp" \/ name \in {"packages", "configs"}
      BY <1>4
    <3>2. Tail(todo) \in AfterPackages => name \in {"packages", "configs"}
      <4>1. Tail(todo) \in BeforeL2TP => Tail(todo) \notin AfterPackages
        BY <1>3, <1>4, SweepTodoSteps DEF SweepTodo
      <4> QED  BY <4>1, <1>4
    <3> QED  BY <3>1, <3>2, <1>2, <1>3, <1>4, <1>5, <1>7
  <2> QED  BY <2>1, <1>2, <1>3, <1>4, <1>5 DEF SweepProgress
<1>9. Cleanup!TransitSurvives'
  BY <1>2, <1>6, <1>7 DEF Cleanup!SweepLeavesWhatStays, Cleanup!TransitSurvives, SweepNames, Cleanup!Fixed, Cleanup!Transit
<1>10. Cleanup!AgentStaysForRepair'
  BY <1>2, <1>7 DEF Cleanup!SweepLeavesWhatStays, Cleanup!AgentStaysForRepair
<1> QED  BY <1>2, <1>8, <1>9, <1>10 DEF Cleanup!SweepLeavesWhatStays

\* The end of the sweep: the removal is scheduled only without an error on
\* record, when what the sweep has passed is gone.
LEMMA SweepEnds ==
  ASSUME SweepNames, SweepInv, Cleanup!emergencyCleanupNode  PROVE  SweepInv'
<1> USE DEF SweepInv
<1>1. /\ Cleanup!Working(Cleanup!TheNode) /\ Cleanup!TheJob.type = "cleanup" /\ Head(agent[Cleanup!TheNode].todo) = "end"
      /\ UNCHANGED <<host, trouble, wiped, jobs>>
      /\ \/ removal' = removal
         \/ /\ "error" \notin trouble
            /\ removal' = [at |-> "scheduled", scope |-> Cleanup!TheJob.payload.scope]
  BY DEF Cleanup!emergencyCleanupNode, Cleanup!scheduleAgentSelfRemoval
<1>2. SweepAgentKept
  <2>1. PICK res \in {"succeeded", "failed"} : Cleanup!Finish(Cleanup!TheNode, res)
    BY DEF Cleanup!emergencyCleanupNode
  <2> QED  BY <2>1, SweepFinished
<1>3. agent[Cleanup!TheNode].todo \in SweepTodo /\ agent[Cleanup!TheNode].todo # <<>> /\ Cleanup!TheJob \in SweepRow
  BY <1>1 DEF SweepProgress, SweepType, SweepNames, SweepAgent, Cleanup!Working, Cleanup!NoJob, Cleanup!TheJob
<1>4. agent[Cleanup!TheNode].todo \in AfterPackages /\ agent[Cleanup!TheNode].todo \notin BeforeL2TP
  BY <1>1, <1>3, SweepTodoSteps
<1>5. Cleanup!AgentStaysForRepair'
  BY <1>1, <1>3, <1>4 DEF Cleanup!SweepLeavesWhatStays, Cleanup!AgentStaysForRepair, SweepProgress
<1>6. removal' \in [at : {"none", "scheduled", "gone"}, scope : {"none", "services_only", "full_node"}]
  BY <1>1, <1>3 DEF SweepType, SweepRow, SweepPayload
<1>7. jobs' \in Seq(SweepRow) /\ SweepJobsGrow /\ DOMAIN jobs' = DOMAIN jobs /\ wiped' \in BOOLEAN
  BY <1>1 DEF SweepType, SweepJobsGrow
<1> QED  BY <1>1, <1>2, <1>5, <1>6, <1>7, SweepElsewhere

\* The agent goes away, as it was scheduled to.
LEMMA SweepGone ==
  ASSUME SweepNames, SweepInv, Cleanup!AgentSelfRemoval  PROVE  SweepInv'
<1> USE DEF SweepInv
<1>1. /\ UNCHANGED <<host, trouble, wiped, jobs>>
      /\ removal.at = "scheduled" /\ removal' = [removal EXCEPT !.at = "gone"]
      /\ agent' = [agent EXCEPT ![Cleanup!TheNode] = Cleanup!AgentIdle]
  BY DEF Cleanup!AgentSelfRemoval
<1>2. SweepAgentKept
  BY <1>1, SweepIdle DEF SweepAgentKept, SweepType, SweepNames
<1>3. /\ removal' \in [at : {"none", "scheduled", "gone"}, scope : {"none", "services_only", "full_node"}]
      /\ removal'.scope = removal.scope /\ removal # Cleanup!NoRemoval
  BY <1>1 DEF SweepType, Cleanup!NoRemoval
<1>4. Cleanup!AgentStaysForRepair'
  BY <1>1, <1>3 DEF Cleanup!SweepLeavesWhatStays, Cleanup!AgentStaysForRepair
<1>5. jobs' \in Seq(SweepRow) /\ SweepJobsGrow /\ DOMAIN jobs' = DOMAIN jobs /\ wiped' \in BOOLEAN
  BY <1>1 DEF SweepType, SweepJobsGrow
<1> QED  BY <1>1, <1>2, <1>3, <1>4, <1>5, SweepElsewhere

\* An apply brings instances, or the route policy, and nothing a sweep was to
\* have taken.
LEMMA SweepApplies ==
  ASSUME SweepNames, SweepInv, Cleanup!ApplyInstance  PROVE  SweepInv'
<1> USE DEF SweepInv
<1>1. /\ Cleanup!Working(Cleanup!TheNode) /\ UNCHANGED <<trouble, removal, wiped, jobs>>
      /\ host' = host \/ host' = host \cup (IF Cleanup!TheJob.type = "apply" THEN Cleanup!TheJob.payload.instances ELSE {"route_policy"})
  BY DEF Cleanup!ApplyInstance
<1>2. SweepAgentKept /\ agent'[Cleanup!TheNode].result # "none"
  <2>1. PICK res \in {"succeeded", "failed"} : Cleanup!Finish(Cleanup!TheNode, res)
    BY DEF Cleanup!ApplyInstance
  <2> QED  BY <2>1, SweepFinished
<1>3. Cleanup!TheJob \in SweepRow
  BY <1>1 DEF SweepType, SweepNames, Cleanup!Working, Cleanup!NoJob, Cleanup!TheJob
<1>4. Cleanup!TheJob.payload.instances \subseteq Instance
  BY <1>3 DEF SweepRow, SweepPayload
<1>5. host \subseteq host' /\ ("l2tp" \in host' => "l2tp" \in host) /\ ("packages" \in host' => "packages" \in host)
  BY <1>1, <1>4 DEF SweepNames, Cleanup!Fixed
<1>6. SweepType'
  BY <1>1, <1>2 DEF SweepType, SweepAgentKept, Cleanup!AgentIdle
<1>7. SweepScopes' /\ SweepProgress'
  BY <1>1, <1>2 DEF SweepScopes, SweepProgress, Cleanup!Working
<1>8. Cleanup!SweepLeavesWhatStays'
  BY <1>1, <1>5 DEF Cleanup!SweepLeavesWhatStays, Cleanup!TransitSurvives, Cleanup!AgentStaysForRepair
<1> QED  BY <1>6, <1>7, <1>8

-----------------------------------------------------------------------------
(* Completions. *)

\* The completion closes rows; the job it may queue renews the route policy.
LEMMA SweepCompletes ==
  ASSUME SweepNames, SweepInv, Cleanup!SideEffects  PROVE  SweepInv'
<1> USE DEF SweepInv
<1>1. UNCHANGED <<host, trouble, removal, wiped>> /\ wiped' \in BOOLEAN /\ Cleanup!AgentStaysForRepair'
  BY DEF Cleanup!SideEffects, SweepType, Cleanup!SweepLeavesWhatStays, Cleanup!AgentStaysForRepair
<1>2. removal' \in [at : {"none", "scheduled", "gone"}, scope : {"none", "services_only", "full_node"}]
  BY <1>1 DEF SweepType
<1>3. PICK j \in DOMAIN jobs :
        /\ Cleanup!Answer(j)
        /\ LET K == [jobs EXCEPT ![j].effect = "applied"]
           IN  jobs' = K \/ jobs' = Append(K, Cleanup!newJob("route_policy", Cleanup!TheNode, Cleanup!TheNode, jobs[j].payload, 100))
  BY DEF Cleanup!SideEffects, Cleanup!Job, Cleanup!applyNodeEmergencyCleanupResult, Cleanup!applyInstanceJobCompletionSideEffects, Cleanup!EffectDone
<1>4. SweepAgentKept
  BY <1>3, SweepAnswered
<1>5. PICK K, r : K = [jobs EXCEPT ![j].effect = "applied"] /\ r = [jobs[j] EXCEPT !.effect = "applied"]
  OBVIOUS
<1>6. K = [jobs EXCEPT ![j] = r] /\ r \in SweepRow /\ r.type = jobs[j].type /\ r.payload = jobs[j].payload
  BY <1>5, SweepEffect
<1>7. /\ K \in Seq(SweepRow) /\ Len(K) = Len(jobs) /\ DOMAIN K = DOMAIN jobs
      /\ \A i \in DOMAIN jobs : K[i].type = jobs[i].type /\ K[i].payload = jobs[i].payload
  <2>1. K \in Seq(SweepRow) /\ Len(K) = Len(jobs) /\ DOMAIN K = DOMAIN jobs
    BY <1>6, ExceptSeq DEF SweepType
  <2> QED  BY <2>1, <1>6 DEF SweepType
<1>8. CASE jobs' = K
  <2>1. jobs' \in Seq(SweepRow) /\ SweepJobsGrow /\ DOMAIN jobs' = DOMAIN jobs
    BY <1>7, <1>8 DEF SweepJobsGrow
  <2> QED  BY <2>1, <1>1, <1>2, <1>4, SweepElsewhere
<1>9. CASE jobs' = Append(K, Cleanup!newJob("route_policy", Cleanup!TheNode, Cleanup!TheNode, jobs[j].payload, 100))
  <2>1. PICK q : q = Cleanup!newJob("route_policy", Cleanup!TheNode, Cleanup!TheNode, jobs[j].payload, 100)
    OBVIOUS
  <2>2. jobs[j] \in SweepRow
    BY DEF SweepType
  <2>3. q \in SweepRow /\ q.type = "route_policy"
    BY <2>1, <2>2 DEF Cleanup!newJob, SweepRow
  <2>4. jobs' = Append(K, q)
    BY <1>9, <2>1
  <2>5. /\ jobs' \in Seq(SweepRow) /\ DOMAIN jobs' = DOMAIN K \cup {Len(K) + 1}
        /\ jobs'[Len(K) + 1] = q /\ \A i \in DOMAIN K : jobs'[i] = K[i]
    <3>1. K \in Seq(SweepRow) /\ q \in SweepRow
      BY <1>7, <2>3
    <3>2. /\ Append(K, q) \in Seq(SweepRow) /\ DOMAIN Append(K, q) = DOMAIN K \cup {Len(K) + 1}
          /\ Append(K, q)[Len(K) + 1] = q /\ \A i \in DOMAIN K : Append(K, q)[i] = K[i]
      <4>1. Append(K, q) \in Seq(SweepRow)
        BY <3>1, Appended
      <4>2. DOMAIN Append(K, q) = DOMAIN K \cup {Len(K) + 1}
        BY <3>1, Appended
      <4>3. Append(K, q)[Len(K) + 1] = q
        BY <3>1, Appended
      <4>4. \A i \in DOMAIN K : Append(K, q)[i] = K[i]
        BY <3>1, Appended
      <4> QED  BY <4>1, <4>2, <4>3, <4>4
    <3> QED  BY <2>4, <3>2, Zenon
  <2>6. SweepJobsGrow
    BY <1>7, <2>5 DEF SweepJobsGrow
  <2>7. \A i \in DOMAIN jobs' \ DOMAIN jobs : jobs'[i].type = "route_policy"
    BY <1>7, <2>3, <2>5
  <2> QED  BY <1>1, <1>2, <1>4, <2>5, <2>6, <2>7, SweepElsewhere
<1> QED  BY <1>3, <1>5, <1>8, <1>9

-----------------------------------------------------------------------------
\* Every step keeps the invariant.
LEMMA SweepStep == SweepNames /\ SweepInv /\ [Cleanup!Next]_Cleanup!vars => SweepInv'
<1> SUFFICES ASSUME SweepNames, SweepInv, [Cleanup!Next]_Cleanup!vars  PROVE  SweepInv'
  OBVIOUS
<1>1. CASE UNCHANGED Cleanup!vars
  <2>1. UNCHANGED <<host, trouble, removal, wiped, jobs, agent>>
    BY <1>1 DEF Cleanup!vars
  <2>2. SweepAgentKept /\ SweepJobsGrow /\ jobs' \in Seq(SweepRow) /\ DOMAIN jobs' = DOMAIN jobs
    BY <2>1 DEF SweepInv, SweepType, SweepAgentKept, SweepJobsGrow
  <2>3. /\ removal' \in [at : {"none", "scheduled", "gone"}, scope : {"none", "services_only", "full_node"}]
        /\ wiped' \in BOOLEAN /\ Cleanup!AgentStaysForRepair'
    BY <2>1 DEF SweepInv, SweepType, Cleanup!SweepLeavesWhatStays, Cleanup!AgentStaysForRepair
  <2> QED  BY <2>1, <2>2, <2>3, SweepElsewhere
<1> QED
  BY <1>1, SweepQueued, SweepClaims, SweepCommands, SweepEnds, SweepGone, SweepApplies, SweepCompletes,
     SweepQueueStep DEF Cleanup!Next

\* Whatever is queued, fails, is lost or repeated: as long as nobody asks for
\* a wipe the cleanups leave the node's transit, packages and foreign files,
\* and the agent removes itself only from a node on which its sweep has met no
\* error and left neither L2TP nor, after a wipe, its packages
\* (isEmergencyManagedUnitForScope, purgeEmergencyL2TPPackages,
\* emergencyCleanupNode).  The node has to be one, and the instances to have
\* names other than the fixed things on the host.
THEOREM SweepSpares ==
  ASSUME SweepNames
  PROVE  /\ Cleanup!Spec => []Cleanup!SweepLeavesWhatStays
         /\ Spec => []SweepLeavesWhatStays
<1> DEFINE Swept == part = "cleanup" => SweepInv
<1>1. Cleanup!Init => SweepInv
  BY SweepInitially
<1>2. SweepInv /\ [Cleanup!Next]_Cleanup!vars => SweepInv'
  BY SweepStep
<1>3. SweepInv => Cleanup!SweepLeavesWhatStays
  BY DEF SweepInv
<1>4. Cleanup!Spec => []Cleanup!SweepLeavesWhatStays
  BY <1>1, <1>2, <1>3, PTL DEF Cleanup!Spec
<1>5. Init => Swept
  BY <1>1, CleanupBegins
<1>6. Swept /\ [Next]_vars => Swept'
  BY <1>2, CleanupGoesOn
<1>7. Swept => SweepLeavesWhatStays
  BY <1>3 DEF SweepLeavesWhatStays
<1>8. Spec => []SweepLeavesWhatStays
  BY <1>5, <1>6, <1>7, PTL DEF Spec
<1> QED  BY <1>4, <1>8

-----------------------------------------------------------------------------
(* What runs on the node, and what the rows say of it. *)

\* Rows of instances, and the applies of one instance each.
RunRows ==
  /\ row \in [Instance -> {"absent", "draft", "active", "failed", "deleted"}]
  /\ faults \in Nat
  /\ \A j \in DOMAIN jobs :
       jobs[j].type = "apply" => jobs[j].scope \in Instance /\ jobs[j].payload.instances = {jobs[j].scope}

CleanAt == agent[Cleanup!TheNode]

\* The handler's job runs until its result is sent, and only its completion
\* is due.
RunWork ==
  /\ CleanAt.job # 0 /\ CleanAt.result # "sent" => Cleanup!TheJob.status = "running"
  /\ \A j \in DOMAIN jobs : jobs[j].effect = "pending" => CleanAt.job = j /\ CleanAt.result = "sent"

\* What runs is known, or will be when the completion of its apply is through.
RunKnown ==
  \A i \in host \cap Instance :
    \/ row[i] \in {"active", "failed"}
    \/ /\ CleanAt.job # 0 /\ CleanAt.result # "none"
       /\ Cleanup!TheJob.type = "apply" /\ Cleanup!TheJob.scope = i

\* What a sweep has passed is gone: the units by their names, then the rest by
\* their configs.
PastUnits == {<<"l2tp", "packages", "configs", "end">>} \cup BeforePackages \cup AfterPackages

RunSwept ==
  CleanAt.job # 0 /\ Cleanup!TheJob.type = "cleanup" =>
    /\ CleanAt.result = "none" /\ CleanAt.todo \in PastUnits => host \cap InUnit = {}
    /\ CleanAt.result # "none" \/ CleanAt.todo = <<"end">> => host \cap Instance = {}

RunCalm == RunWork /\ RunKnown /\ RunSwept

RunInv == RunRows /\ (faults = 0 /\ removal = Cleanup!NoRemoval => RunCalm)

\* One row of the queue rewritten, without a new instance in it.
LEMMA RunRewrites ==
  ASSUME SweepType, RunRows, NEW j \in DOMAIN jobs, NEW r \in SweepRow, jobs' = [jobs EXCEPT ![j] = r],
         r.type = jobs[j].type, r.scope = jobs[j].scope, r.payload = jobs[j].payload
  PROVE  /\ DOMAIN jobs' = DOMAIN jobs /\ jobs'[j] = r /\ \A k \in DOMAIN jobs : k # j => jobs'[k] = jobs[k]
         /\ \A k \in DOMAIN jobs' :
              jobs'[k].type = "apply" => jobs'[k].scope \in Instance /\ jobs'[k].payload.instances = {jobs'[k].scope}
<1>1. DOMAIN jobs' = DOMAIN jobs /\ jobs'[j] = r /\ \A k \in DOMAIN jobs : k # j => jobs'[k] = jobs[k]
  BY DEF SweepType
<1> QED  BY <1>1 DEF RunRows

\* The agent's job.
LEMMA RunAgent ==
  ASSUME SweepType, SweepNames
  PROVE  /\ CleanAt \in SweepAgent /\ Len(jobs) \in Nat /\ DOMAIN jobs = 1..Len(jobs)
         /\ CleanAt.job # 0 => CleanAt.job \in DOMAIN jobs /\ Cleanup!TheJob \in SweepRow
         /\ Cleanup!TheJob = jobs[CleanAt.job]
  BY DEF SweepType, SweepNames, CleanAt, Cleanup!TheJob

\* Nothing runs at first.
LEMMA RunInitially == SweepNames /\ Cleanup!Init => RunInv
<1> SUFFICES ASSUME SweepNames, Cleanup!Init  PROVE  RunInv  OBVIOUS
<1>1. /\ row = [i \in Instance |-> "absent"] /\ host = Cleanup!Fixed /\ jobs = <<>> /\ faults = 0
      /\ agent = [n \in Node |-> Cleanup!AgentIdle]
  BY DEF Cleanup!Init, Cleanup!JobsInit
<1>2. CleanAt.job = 0 /\ DOMAIN jobs = {} /\ host \cap Instance = {}
  BY <1>1 DEF SweepNames, CleanAt, Cleanup!AgentIdle, Cleanup!NoJob
<1>3. RunRows
  BY <1>1, <1>2 DEF RunRows
<1>4. RunCalm
  BY <1>2 DEF RunCalm, RunWork, RunKnown, RunSwept
<1> QED  BY <1>3, <1>4 DEF RunInv

\* An operator queues a job; a new instance has a row and is not on the host,
\* or its apply has been there already.
LEMMA RunQueued ==
  ASSUME SweepNames, SweepInv, RunInv,
         Cleanup!CreateInstance \/ Cleanup!QueueNodeRuntimeReconcile \/ Cleanup!CreateNodeEmergencyCleanupJob
  PROVE  RunInv'
<1> USE DEF SweepInv, RunInv
<1>1. UNCHANGED <<host, trouble, removal, agent, faults>>
  BY DEF Cleanup!CreateInstance, Cleanup!QueueNodeRuntimeReconcile, Cleanup!CreateNodeEmergencyCleanupJob
<1>2. /\ row' \in [Instance -> {"absent", "draft", "active", "failed", "deleted"}]
      /\ \A i \in Instance : row'[i] = row[i] \/ row[i] = "absent"
  <2>1. row' = row \/ \E i \in Instance : row[i] = "absent" /\ row' = [row EXCEPT ![i] = "draft"]
    BY DEF Cleanup!CreateInstance, Cleanup!QueueNodeRuntimeReconcile, Cleanup!CreateNodeEmergencyCleanupJob
  <2> QED  BY <2>1 DEF RunRows
<1>3. PICK r \in SweepRow : /\ jobs' = Append(jobs, r) /\ r.effect = "none"
                            /\ r.type = "apply" => r.scope \in Instance /\ r.payload.instances = {r.scope}
  <2>1. CASE Cleanup!CreateInstance \/ Cleanup!QueueNodeRuntimeReconcile
    <3>1. PICK i \in Instance, p \in {60, 100} :
            jobs' = Append(jobs, Cleanup!newJob("apply", Cleanup!TheNode, i,
                                   [instances |-> {i}, scope |-> "none", agent |-> FALSE], p))
      BY <2>1 DEF Cleanup!CreateInstance, Cleanup!QueueNodeRuntimeReconcile, Cleanup!Queue, Cleanup!QueueAt
    <3>2. PICK r : r = Cleanup!newJob("apply", Cleanup!TheNode, i, [instances |-> {i}, scope |-> "none", agent |-> FALSE], p)
      OBVIOUS
    <3>3. r \in SweepRow /\ r.effect = "none" /\ r.scope = i /\ r.payload.instances = {i}
      BY <3>2 DEF Cleanup!newJob, SweepRow, SweepPayload
    <3> QED  BY <3>1, <3>2, <3>3
  <2>2. CASE Cleanup!CreateNodeEmergencyCleanupJob
    <3>1. PICK w \in BOOLEAN, scope \in {"services_only", "full_node"} :
            jobs' = Append(jobs, Cleanup!newJob("cleanup", Cleanup!TheNode, Cleanup!TheNode,
                                   [instances |-> Cleanup!nodeInstanceCleanupPayloads, scope |-> scope, agent |-> w], 1))
      BY <2>2, Zenon DEF Cleanup!CreateNodeEmergencyCleanupJob, Cleanup!QueueAt
    <3>2. PICK S \in SUBSET Instance : S = Cleanup!nodeInstanceCleanupPayloads
      BY DEF Cleanup!nodeInstanceCleanupPayloads
    <3>3. PICK r : r = Cleanup!newJob("cleanup", Cleanup!TheNode, Cleanup!TheNode,
                                      [instances |-> S, scope |-> scope, agent |-> w], 1)
      OBVIOUS
    <3>4. r \in SweepRow /\ r.effect = "none" /\ r.type = "cleanup"
      BY <3>3 DEF Cleanup!newJob, SweepRow, SweepPayload
    <3> QED  BY <3>1, <3>2, <3>3, <3>4
  <2> QED  BY <2>1, <2>2
<1>4. /\ DOMAIN jobs' = DOMAIN jobs \cup {Len(jobs) + 1} /\ jobs'[Len(jobs) + 1] = r
      /\ \A j \in DOMAIN jobs : jobs'[j] = jobs[j]
  <2>1. PICK K \in Seq(SweepRow) : K = jobs
    BY DEF SweepType
  <2>2. /\ DOMAIN Append(K, r) = DOMAIN K \cup {Len(K) + 1} /\ Append(K, r)[Len(K) + 1] = r
        /\ \A j \in DOMAIN K : Append(K, r)[j] = K[j]
    BY Appended
  <2> QED  BY <1>3, <2>1, <2>2
<1>5. RunRows'
  BY <1>1, <1>2, <1>3, <1>4 DEF RunRows
<1>6. ASSUME faults = 0, removal = Cleanup!NoRemoval  PROVE RunCalm'
  <2> USE <1>6 DEF RunCalm
  <2>1. CleanAt' = CleanAt /\ (CleanAt.job # 0 => Cleanup!TheJob' = Cleanup!TheJob)
    <3>1. CleanAt' = CleanAt
      BY <1>1 DEF CleanAt
    <3> QED  BY <1>1, <1>4, <3>1, RunAgent DEF Cleanup!TheJob, CleanAt
  <2>2. RunWork'
    BY <1>3, <1>4, <2>1 DEF RunWork
  <2>3. RunKnown'
    BY <1>1, <1>2, <2>1 DEF RunKnown
  <2>4. RunSwept'
    BY <1>1, <2>1 DEF RunSwept
  <2> QED  BY <2>2, <2>3, <2>4
<1> QED  BY <1>1, <1>5, <1>6

\* AgentNextJob: a sweep or an apply begins.
LEMMA RunClaims ==
  ASSUME SweepNames, SweepInv, RunInv, Cleanup!AgentNextJob  PROVE  RunInv'
<1> USE DEF SweepInv, RunInv
<1>1. PICK j \in DOMAIN jobs :
        /\ CleanAt.job = 0 /\ jobs' = [jobs EXCEPT ![j].status = "running"]
        /\ agent' = [agent EXCEPT ![Cleanup!TheNode] =
             [Cleanup!AgentIdle EXCEPT !.job = j, !.todo = Cleanup!Steps(jobs[j].type)]]
  BY Zenon DEF Cleanup!AgentNextJob, Cleanup!Job, Cleanup!Claimable, Cleanup!Claim, Cleanup!NoJob, CleanAt
<1>2. UNCHANGED <<row, host, removal, faults>>
  BY DEF Cleanup!AgentNextJob
<1>3. jobs[j] \in SweepRow /\ j # 0 /\ Cleanup!TheNode \in Node
  BY DEF SweepType, SweepNames
<1>4. PICK r : r = [jobs[j] EXCEPT !.status = "running"]
  OBVIOUS
<1>5. /\ r \in SweepRow /\ r.type = jobs[j].type /\ r.scope = jobs[j].scope /\ r.payload = jobs[j].payload
      /\ r.status = "running" /\ r.effect = jobs[j].effect
  BY <1>3, <1>4 DEF SweepRow
<1>6. jobs' = [jobs EXCEPT ![j] = r]
  BY <1>1, <1>4, Zenon
<1>7. /\ DOMAIN jobs' = DOMAIN jobs /\ jobs'[j] = r /\ \A k \in DOMAIN jobs : k # j => jobs'[k] = jobs[k]
      /\ RunRows'
  BY <1>2, <1>5, <1>6, RunRewrites DEF RunRows
<1>8. PICK t : t = Cleanup!Steps(jobs[j].type)
  OBVIOUS
<1>9. jobs[j].type = "cleanup" => t \notin PastUnits /\ t # <<"end">>
  BY <1>8 DEF Cleanup!Steps, PastUnits, BeforePackages, AfterPackages
<1>10. PICK a : a = [Cleanup!AgentIdle EXCEPT !.job = j, !.todo = t]
  OBVIOUS
<1>11. a = [job |-> j, todo |-> t, warned |-> FALSE, result |-> "none"]
  BY <1>10, Zenon DEF Cleanup!AgentIdle
<1>12. a.job = j /\ a.todo = t /\ a.result = "none"
  BY <1>11
<1>13. agent' = [agent EXCEPT ![Cleanup!TheNode] = a]
  BY <1>1, <1>8, <1>10, Zenon
<1>14. CleanAt' = a /\ Cleanup!TheJob' = r
  BY <1>3, <1>7, <1>12, <1>13 DEF CleanAt, Cleanup!TheJob, SweepType
<1>15. ASSUME faults = 0, removal = Cleanup!NoRemoval  PROVE RunCalm'
  <2> USE <1>15 DEF RunCalm
  <2>1. RunWork'
    <3>1. \A k \in DOMAIN jobs : k # 0 /\ jobs[k].effect # "pending"
      BY <1>1 DEF RunWork, SweepType
    <3>2. \A k \in DOMAIN jobs' : jobs'[k].effect # "pending"
      BY <1>5, <1>7, <3>1
    <3> QED  BY <1>5, <1>14, <3>2 DEF RunWork
  <2>2. RunKnown'
    BY <1>1, <1>2 DEF RunKnown
  <2>3. RunSwept'
    BY <1>5, <1>9, <1>12, <1>14 DEF RunSwept
  <2> QED  BY <2>1, <2>2, <2>3
<1> QED  BY <1>2, <1>7, <1>15
\* A sweep's command takes nothing back to the host, and the units and the
\* configs between them take every instance from it.
LEMMA RunCommands ==
  ASSUME SweepNames, SweepInv, RunInv,
         \/ Cleanup!emergencyCleanupInstances \/ Cleanup!emergencyCleanupUnits \/ Cleanup!emergencyCleanupL2TPRuntime
         \/ Cleanup!purgeEmergencyL2TPPackages \/ Cleanup!emergencyCleanupManagedServiceConfigPaths
  PROVE  RunInv'
<1> USE DEF RunInv
<1>1. PICK name \in {"instances", "units", "l2tp", "packages", "configs"} :
        /\ Cleanup!Step(name)
        /\ host' \subseteq host /\ (faults' = faults \/ Cleanup!Fault)
        /\ name = "units" /\ faults' = faults => host' \cap InUnit = {}
        /\ name = "configs" /\ faults' = faults => host' = host \ (Instance \ InUnit)
  <2> USE DEF Cleanup!Removes, Cleanup!Fails
  <2>1. CASE Cleanup!emergencyCleanupInstances
    BY <2>1 DEF Cleanup!emergencyCleanupInstances
  <2>2. CASE Cleanup!emergencyCleanupUnits
    <3>1. faults \in Nat /\ (Cleanup!Fault => faults' # faults)
      BY DEF RunRows, Cleanup!Fault
    <3> QED  BY <2>2, <3>1 DEF Cleanup!emergencyCleanupUnits, Cleanup!isEmergencyManagedUnitForScope
  <2>3. CASE Cleanup!emergencyCleanupL2TPRuntime
    BY <2>3 DEF Cleanup!emergencyCleanupL2TPRuntime
  <2>4. CASE Cleanup!purgeEmergencyL2TPPackages
    BY <2>4 DEF Cleanup!purgeEmergencyL2TPPackages
  <2>5. CASE Cleanup!emergencyCleanupManagedServiceConfigPaths
    <3>1. faults \in Nat /\ (Cleanup!Fault => faults' # faults)
      BY DEF RunRows, Cleanup!Fault
    <3> QED  BY <2>5, <3>1 DEF Cleanup!emergencyCleanupManagedServiceConfigPaths
  <2> QED  BY <2>1, <2>2, <2>3, <2>4, <2>5
<1>2. /\ Cleanup!TheJob' = Cleanup!TheJob /\ UNCHANGED <<jobs, removal, row>>
      /\ CleanAt.todo \in SweepTodo /\ CleanAt.todo # <<>> /\ Head(CleanAt.todo) = name
      /\ CleanAt'.todo = Tail(CleanAt.todo) /\ Cleanup!TheJob.type = "cleanup"
  BY <1>1, SweepAdvanced DEF CleanAt, Cleanup!Step
<1>3. CleanAt'.job = CleanAt.job /\ CleanAt'.result = CleanAt.result /\ CleanAt.result = "none" /\ CleanAt.job # 0
  BY <1>1 DEF Cleanup!Step, Cleanup!Advance, Cleanup!Working, Cleanup!NoJob, CleanAt, SweepInv, SweepType, SweepNames, SweepAgent
<1>4. RunRows'
  <2>1. faults' \in Nat
    BY <1>1 DEF RunRows, Cleanup!Fault
  <2> QED  BY <1>2, <2>1 DEF RunRows
<1>5. ASSUME faults' = 0, removal' = Cleanup!NoRemoval  PROVE RunCalm'
  <2>1. faults = 0 /\ removal = Cleanup!NoRemoval /\ faults' = faults
    BY <1>1, <1>2, <1>5 DEF RunRows, Cleanup!Fault
  <2> USE <2>1 DEF RunCalm
  <2>2. RunWork'
    BY <1>2, <1>3 DEF RunWork
  <2>3. RunKnown'
    BY <1>1, <1>2, <1>3 DEF RunKnown
  <2>4. PICK t \in SweepTodo : t = CleanAt.todo /\ t # <<>> /\ Head(t) = name
    BY <1>2
  <2>5. /\ Tail(t) \in PastUnits => name = "units" \/ t \in PastUnits
        /\ Tail(t) = <<"end">> => name = "configs" /\ t \in PastUnits
    <3> USE DEF SweepTodo, BeforeL2TP, BeforePackages, AfterPackages, PastUnits
    <3>1. CASE t = <<"instances", "units", "l2tp", "packages", "configs", "end">>
      BY <3>1, <2>4
    <3>2. CASE t = <<"units", "l2tp", "packages", "configs", "end">>
      BY <3>2, <2>4
    <3>3. CASE t = <<"l2tp", "packages", "configs", "end">>
      BY <3>3, <2>4
    <3>4. CASE t = <<"packages", "configs", "end">>
      BY <3>4, <2>4
    <3>5. CASE t = <<"configs", "end">>
      BY <3>5, <2>4
    <3>6. CASE t = <<"end">>
      BY <3>6, <2>4
    <3> QED  BY <2>4, <3>1, <3>2, <3>3, <3>4, <3>5, <3>6
  <2>6. t \in PastUnits => host \cap InUnit = {}
    BY <1>2, <1>3, <2>4 DEF RunSwept
  <2>7. Tail(t) \in PastUnits => host' \cap InUnit = {}
    BY <1>1, <2>1, <2>5, <2>6
  <2>8. Tail(t) = <<"end">> => host' \cap Instance = {}
    BY <1>1, <2>1, <2>5, <2>6
  <2>9. RunSwept'
    BY <1>2, <1>3, <2>4, <2>7, <2>8 DEF RunSwept
  <2> QED  BY <2>2, <2>3, <2>9
<1> QED  BY <1>4, <1>5

\* A handler that has ended with a result.
LEMMA RunFinished ==
  ASSUME SweepNames, SweepType, NEW res \in {"succeeded", "failed"}, Cleanup!Finish(Cleanup!TheNode, res)
  PROVE  CleanAt'.job = CleanAt.job /\ CleanAt'.result = res /\ CleanAt'.todo = <<>>
<1>1. agent' = [agent EXCEPT ![Cleanup!TheNode] = [agent[Cleanup!TheNode] EXCEPT !.result = res, !.todo = <<>>]]
  BY Zenon DEF Cleanup!Finish
<1>2. agent[Cleanup!TheNode] \in SweepAgent
  BY DEF SweepType, SweepNames
<1>3. PICK a : a = [agent[Cleanup!TheNode] EXCEPT !.result = res, !.todo = <<>>]
  OBVIOUS
<1>4. a.job = agent[Cleanup!TheNode].job /\ a.result = res /\ a.todo = <<>>
  BY <1>2, <1>3 DEF SweepAgent
<1> QED  BY <1>1, <1>3, <1>4 DEF SweepType, SweepNames, CleanAt

\* The end of the sweep: no instance is on the host.
LEMMA RunEnds ==
  ASSUME SweepNames, SweepInv, RunInv, Cleanup!emergencyCleanupNode  PROVE  RunInv'
<1> USE DEF SweepInv, RunInv
<1>1. /\ Cleanup!Working(Cleanup!TheNode) /\ Cleanup!TheJob.type = "cleanup" /\ Head(CleanAt.todo) = "end"
      /\ UNCHANGED <<host, row, jobs, faults>>
      /\ \/ removal' = removal
         \/ removal' = [at |-> "scheduled", scope |-> Cleanup!TheJob.payload.scope]
  BY DEF Cleanup!emergencyCleanupNode, CleanAt
<1>2. PICK res \in {"succeeded", "failed"} : Cleanup!Finish(Cleanup!TheNode, res)
  BY DEF Cleanup!emergencyCleanupNode
<1>3. CleanAt'.job = CleanAt.job /\ CleanAt'.result = res /\ CleanAt.job # 0 /\ CleanAt.result = "none"
  BY <1>1, <1>2, RunFinished DEF Cleanup!Working, Cleanup!NoJob, CleanAt
<1>4. Cleanup!TheJob' = Cleanup!TheJob
  BY <1>1, <1>3 DEF Cleanup!TheJob, CleanAt
<1>5. RunRows'
  BY <1>1 DEF RunRows
<1>6. ASSUME faults' = 0, removal' = Cleanup!NoRemoval  PROVE RunCalm'
  <2>1. faults = 0 /\ removal = Cleanup!NoRemoval
    BY <1>1, <1>6 DEF Cleanup!NoRemoval
  <2> USE <2>1 DEF RunCalm
  <2>2. CleanAt.todo = <<"end">>
    <3>1. CleanAt.todo \in SweepTodo /\ CleanAt.todo # <<>>
      BY <1>1 DEF SweepProgress, CleanAt, SweepType, SweepNames, SweepAgent
    <3>2. CleanAt.todo \in AfterPackages
      BY <1>1, <3>1, SweepTodoSteps
    <3> QED  BY <1>1, <3>2 DEF AfterPackages
  <2>3. host \cap Instance = {}
    BY <1>1, <1>3, <2>2 DEF RunSwept
  <2>4. RunWork'
    BY <1>1, <1>3, <1>4 DEF RunWork
  <2>5. RunKnown' /\ RunSwept'
    <3>1. host' \cap Instance = {}
      BY <1>1, <2>3
    <3>2. CleanAt'.result # "none"
      BY <1>3
    <3> QED  BY <3>1, <3>2 DEF RunKnown, RunSwept
  <2> QED  BY <2>4, <2>5
<1> QED  BY <1>5, <1>6

\* An apply puts its instance on the host, and the completion will say so.
LEMMA RunApplies ==
  ASSUME SweepNames, SweepInv, RunInv, Cleanup!ApplyInstance  PROVE  RunInv'
<1> USE DEF SweepInv, RunInv
<1>1. /\ Cleanup!Working(Cleanup!TheNode) /\ Cleanup!TheJob.type \in {"apply", "route_policy"}
      /\ UNCHANGED <<row, removal, jobs>>
      /\ \/ /\ host' = host \cup (IF Cleanup!TheJob.type = "apply" THEN Cleanup!TheJob.payload.instances
                                  ELSE {"route_policy"})
            /\ UNCHANGED faults
         \/ Cleanup!Fault
  BY DEF Cleanup!ApplyInstance
<1>2. PICK res \in {"succeeded", "failed"} : Cleanup!Finish(Cleanup!TheNode, res)
  BY DEF Cleanup!ApplyInstance
<1>3. CleanAt'.job = CleanAt.job /\ CleanAt'.result = res /\ CleanAt.job # 0 /\ CleanAt.result = "none"
  BY <1>1, <1>2, RunFinished DEF Cleanup!Working, Cleanup!NoJob, CleanAt
<1>4. Cleanup!TheJob' = Cleanup!TheJob
  BY <1>1, <1>3 DEF Cleanup!TheJob, CleanAt
<1>5. RunRows'
  <2>1. faults' \in Nat
    BY <1>1 DEF RunRows, Cleanup!Fault
  <2> QED  BY <1>1, <2>1 DEF RunRows
<1>6. ASSUME faults' = 0, removal' = Cleanup!NoRemoval  PROVE RunCalm'
  <2>1. /\ faults = 0 /\ removal = Cleanup!NoRemoval
        /\ host' = host \cup (IF Cleanup!TheJob.type = "apply" THEN Cleanup!TheJob.payload.instances
                              ELSE {"route_policy"})
    BY <1>1, <1>6 DEF RunRows, Cleanup!Fault
  <2> USE <2>1 DEF RunCalm
  <2>2. RunWork'
    BY <1>1, <1>3, <1>4 DEF RunWork
  <2>3. Cleanup!TheJob.type = "apply" => Cleanup!TheJob.payload.instances = {Cleanup!TheJob.scope}
    BY <1>3, RunAgent DEF RunRows
  <2>4. \A i \in host' \cap Instance :
          i \in host \/ (Cleanup!TheJob.type = "apply" /\ i = Cleanup!TheJob.scope)
    BY <2>1, <2>3 DEF SweepNames, Cleanup!Fixed, Cleanup!Transit
  <2>5. RunKnown'
    BY <1>1, <1>3, <1>4, <2>4 DEF RunKnown
  <2>6. RunSwept'
    BY <1>1, <1>4 DEF RunSwept
  <2> QED  BY <2>2, <2>5, <2>6
<1> QED  BY <1>5, <1>6

\* The answer to the agent, of whose job alone a completion is due.
LEMMA RunAnswered ==
  ASSUME SweepNames, SweepType, NEW j, Cleanup!Answer(j), CleanAt.job = j
  PROVE  CleanAt'.job = 0
<1>1. CleanAt' = Cleanup!AgentIdle
  BY DEF Cleanup!Answer, CleanAt, SweepNames
<1> QED  BY <1>1 DEF Cleanup!AgentIdle, Cleanup!NoJob

\* A completion: that of a sweep closes the rows of instances that are gone,
\* that of an apply says what became of its instance.
LEMMA RunCompletes ==
  ASSUME SweepNames, SweepInv, RunInv, Cleanup!SideEffects  PROVE  RunInv'
<1> USE DEF SweepInv, RunInv
<1>1. UNCHANGED <<host, removal, faults>>
  BY DEF Cleanup!SideEffects
<1>2. PICK j \in DOMAIN jobs :
        /\ jobs[j].effect = "pending" /\ Cleanup!Answer(j)
        /\ LET K == [jobs EXCEPT ![j].effect = "applied"]
           IN  jobs' = K \/ jobs' = Append(K, Cleanup!newJob("route_policy", Cleanup!TheNode, Cleanup!TheNode, jobs[j].payload, 100))
        /\ \/ /\ jobs[j].type = "cleanup"
              /\ row' = [i \in Instance |-> IF Cleanup!Present(i) THEN "deleted" ELSE row[i]]
           \/ /\ jobs[j].type = "apply"
              /\ \E st \in {"active", "failed"} : row' = [row EXCEPT ![jobs[j].scope] = st]
           \/ jobs[j].type # "apply" /\ row' = row
  BY DEF Cleanup!SideEffects, Cleanup!Job, Cleanup!EffectDue, Cleanup!applyNodeEmergencyCleanupResult,
         Cleanup!applyInstanceJobCompletionSideEffects, Cleanup!EffectDone, Cleanup!activate
<1>3. PICK K, r : K = [jobs EXCEPT ![j].effect = "applied"] /\ r = [jobs[j] EXCEPT !.effect = "applied"]
  OBVIOUS
<1>4. jobs[j] \in SweepRow
  BY DEF SweepType
<1>5. /\ r \in SweepRow /\ r.type = jobs[j].type /\ r.payload = jobs[j].payload /\ r.scope = jobs[j].scope
      /\ r.effect = "applied"
  BY <1>3, <1>4 DEF SweepRow
<1>6. K = [jobs EXCEPT ![j] = r]
  BY <1>3, Zenon
<1>7. /\ K \in Seq(SweepRow) /\ Len(K) = Len(jobs) /\ DOMAIN K = DOMAIN jobs /\ K[j] = r
      /\ \A k \in DOMAIN jobs : k # j => K[k] = jobs[k]
  <2>1. K \in Seq(SweepRow) /\ Len(K) = Len(jobs) /\ DOMAIN K = DOMAIN jobs
    BY <1>5, <1>6, ExceptSeq DEF SweepType
  <2> QED  BY <2>1, <1>6 DEF SweepType
<1>8. /\ \A k \in DOMAIN jobs : k \in DOMAIN jobs' /\ jobs'[k] = K[k]
      /\ \A k \in DOMAIN jobs' : k \in DOMAIN jobs \/ (jobs'[k].type = "route_policy" /\ jobs'[k].effect = "none")
  <2>1. CASE jobs' = K
    BY <1>7, <2>1
  <2>2. CASE jobs' = Append(K, Cleanup!newJob("route_policy", Cleanup!TheNode, Cleanup!TheNode, jobs[j].payload, 100))
    <3>1. PICK q : q = Cleanup!newJob("route_policy", Cleanup!TheNode, Cleanup!TheNode, jobs[j].payload, 100)
      OBVIOUS
    <3>2. q \in SweepRow /\ q.type = "route_policy" /\ q.effect = "none"
      BY <1>4, <3>1 DEF Cleanup!newJob, SweepRow
    <3>3. jobs' = Append(K, q)
      BY <2>2, <3>1
    <3>4. K \in Seq(SweepRow) /\ q \in SweepRow
      BY <1>7, <3>2
    <3>5. DOMAIN Append(K, q) = DOMAIN K \cup {Len(K) + 1}
      BY <3>4, Appended
    <3>6. Append(K, q)[Len(K) + 1] = q
      BY <3>4, Appended
    <3>7. \A i \in DOMAIN K : Append(K, q)[i] = K[i]
      BY <3>4, Appended
    <3> QED  BY <1>7, <3>2, <3>3, <3>5, <3>6, <3>7
  <2> QED  BY <1>2, <1>3, <2>1, <2>2
<1>9. RunRows'
  <2>1. row' \in [Instance -> {"absent", "draft", "active", "failed", "deleted"}]
    BY <1>2 DEF RunRows
  <2>2. \A k \in DOMAIN jobs' :
          jobs'[k].type = "apply" => jobs'[k].scope \in Instance /\ jobs'[k].payload.instances = {jobs'[k].scope}
    BY <1>5, <1>7, <1>8 DEF RunRows
  <2> QED  BY <1>1, <2>1, <2>2 DEF RunRows
<1>10. ASSUME faults = 0, removal = Cleanup!NoRemoval  PROVE RunCalm'
  <2> USE <1>10 DEF RunCalm
  <2>1. CleanAt.job = j /\ CleanAt.result = "sent" /\ j # 0 /\ Cleanup!TheJob = jobs[j]
    BY <1>2, RunAgent DEF RunWork
  <2>2. CleanAt'.job = 0
    BY <1>2, <2>1, RunAnswered
  <2>3. RunWork'
    <3>1. \A k \in DOMAIN jobs : k # j => jobs[k].effect # "pending"
      BY <2>1 DEF RunWork
    <3>2. \A k \in DOMAIN jobs' : jobs'[k].effect # "pending"
      BY <1>5, <1>7, <1>8, <3>1
    <3> QED  BY <2>2, <3>2 DEF RunWork
  <2>4. \A i \in host \cap Instance : row'[i] \in {"active", "failed"}
    <3>1. CASE jobs[j].type = "cleanup" /\ row' # row
      <4>1. host \cap Instance = {}
        BY <2>1, <3>1 DEF RunSwept
      <4> QED  BY <4>1
    <3>2. CASE jobs[j].type = "apply"
      <4>1. PICK st \in {"active", "failed"} : row' = [row EXCEPT ![jobs[j].scope] = st]
        BY <1>2, <3>2
      <4>2. \A i \in host \cap Instance : i # jobs[j].scope => row[i] \in {"active", "failed"}
        BY <2>1 DEF RunKnown
      <4> QED  BY <4>1, <4>2 DEF RunRows
    <3>3. CASE jobs[j].type # "apply" /\ row' = row
      BY <2>1, <3>3 DEF RunKnown
    <3> QED  BY <1>2, <3>1, <3>2, <3>3
  <2>5. RunKnown' /\ RunSwept'
    BY <1>1, <2>2, <2>4 DEF RunKnown, RunSwept
  <2> QED  BY <2>3, <2>5
<1> QED  BY <1>1, <1>9, <1>10

\* A result is sent or a waiting job cancelled; any other step of the queue is
\* a fault.
LEMMA RunQueueStep ==
  ASSUME SweepNames, SweepInv, RunInv, Cleanup!QueueStep  PROVE  RunInv'
<1> USE DEF SweepInv, RunInv
<1>1. UNCHANGED <<row, host, removal>> /\ Cleanup!TheNode \in Node
  BY DEF Cleanup!QueueStep, SweepNames
<1>2. CASE Cleanup!AgentJobResult(Cleanup!TheNode)
  <2>1. PICK j, res : j = CleanAt.job /\ res = CleanAt.result
    OBVIOUS
  <2>2. res \in {"succeeded", "failed"} /\ UNCHANGED faults /\ CleanAt \in SweepAgent
    BY <1>2, <2>1, RunAgent DEF Cleanup!AgentJobResult, CleanAt
  <2>3. CASE j \in DOMAIN jobs /\ jobs[j].status = "running"
    <3>1. /\ jobs' = [jobs EXCEPT ![j] = [jobs[j] EXCEPT !.status = res, !.effect = "pending"]]
          /\ agent' = [agent EXCEPT ![Cleanup!TheNode].result = "sent"]
      BY <1>2, <2>1, <2>3, Zenon DEF Cleanup!AgentJobResult, CleanAt
    <3>2. PICK r : r = [jobs[j] EXCEPT !.status = res, !.effect = "pending"]
      OBVIOUS
    <3>3. jobs[j] \in SweepRow
      BY <2>3 DEF SweepType
    <3>4. r \in SweepRow /\ r.type = jobs[j].type /\ r.scope = jobs[j].scope /\ r.payload = jobs[j].payload
      BY <2>2, <3>2, <3>3 DEF SweepRow
    <3>5. /\ DOMAIN jobs' = DOMAIN jobs /\ jobs'[j] = r /\ \A k \in DOMAIN jobs : k # j => jobs'[k] = jobs[k]
          /\ \A k \in DOMAIN jobs' :
               jobs'[k].type = "apply" => jobs'[k].scope \in Instance /\ jobs'[k].payload.instances = {jobs'[k].scope}
      BY <2>3, <3>1, <3>2, <3>4, RunRewrites
    <3>6. RunRows'
      BY <1>1, <2>2, <3>5 DEF RunRows
    <3>7. CleanAt'.job = j /\ CleanAt'.result = "sent" /\ Cleanup!TheJob' = r /\ Cleanup!TheJob = jobs[j]
      BY <1>1, <2>1, <2>2, <3>1, <3>5 DEF CleanAt, SweepType, SweepAgent, Cleanup!TheJob
    <3>8. ASSUME faults = 0, removal = Cleanup!NoRemoval  PROVE RunCalm'
      <4> USE <3>8 DEF RunCalm
      <4>1. RunWork'
        <5>1. \A k \in DOMAIN jobs : jobs[k].effect # "pending"
          BY <2>1, <2>2 DEF RunWork
        <5> QED  BY <3>5, <3>7, <5>1 DEF RunWork
      <4>2. j # 0
        BY <2>3 DEF SweepType
      <4>3. RunKnown'
        BY <1>1, <2>1, <3>4, <3>7, <4>2 DEF RunKnown
      <4>4. RunSwept'
        BY <1>1, <2>1, <2>2, <3>4, <3>7, <4>2 DEF RunSwept
      <4> QED  BY <4>1, <4>3, <4>4
    <3> QED  BY <1>1, <2>2, <3>6, <3>8
  <2>4. CASE ~(j \in DOMAIN jobs /\ jobs[j].status = "running")
    <3>1. jobs' = jobs /\ (CleanAt'.job = j \/ CleanAt'.job = 0) /\ (j \in DOMAIN jobs => CleanAt'.job = 0)
      <4>1. CASE jobs[j].status = "running"
        <5>1. /\ jobs' = [jobs EXCEPT ![j] = [jobs[j] EXCEPT !.status = res, !.effect = "pending"]]
              /\ agent' = [agent EXCEPT ![Cleanup!TheNode].result = "sent"]
          BY <1>2, <2>1, <4>1, Zenon DEF Cleanup!AgentJobResult, CleanAt
        <5>2. jobs' = jobs
          BY <2>4, <4>1, <5>1 DEF SweepType
        <5> QED  BY <1>1, <2>1, <2>2, <2>4, <4>1, <5>1, <5>2 DEF CleanAt, SweepType, SweepAgent
      <4>2. CASE jobs[j].status # "running"
        <5>1. jobs' = jobs /\ agent' = [agent EXCEPT ![Cleanup!TheNode] = Cleanup!AgentIdle]
          BY <1>2, <2>1, <4>2 DEF Cleanup!AgentJobResult, CleanAt
        <5>2. CleanAt' = Cleanup!AgentIdle
          BY <1>1, <5>1 DEF CleanAt, SweepType
        <5> QED  BY <5>1, <5>2 DEF Cleanup!AgentIdle, Cleanup!NoJob
      <4> QED  BY <4>1, <4>2
    <3>2. RunRows'
      BY <1>1, <2>2, <3>1 DEF RunRows
    <3>3. ASSUME faults = 0, removal = Cleanup!NoRemoval  PROVE RunCalm'
      <4> USE <3>3 DEF RunCalm
      <4>1. j \notin DOMAIN jobs /\ j = 0
        BY <2>1, <2>2, <2>4, RunAgent DEF RunWork
      <4>2. CleanAt'.job = 0
        BY <3>1, <4>1
      <4>3. \A k \in DOMAIN jobs' : jobs'[k].effect # "pending"
        BY <2>1, <2>2, <3>1 DEF RunWork
      <4>4. \A i \in host' \cap Instance : row'[i] \in {"active", "failed"}
        BY <1>1, <2>1, <4>1 DEF RunKnown
      <4> QED  BY <4>2, <4>3, <4>4 DEF RunWork, RunKnown, RunSwept
    <3> QED  BY <1>1, <2>2, <3>2, <3>3
  <2> QED  BY <2>3, <2>4
<1>3. CASE Cleanup!CancelJob
  <2>1. PICK j \in DOMAIN jobs : jobs[j].status = "queued" /\ jobs' = [jobs EXCEPT ![j].status = "cancelled"]
    BY <1>3 DEF Cleanup!CancelJob, Cleanup!Job
  <2>2. UNCHANGED <<agent, faults>>
    BY <1>3 DEF Cleanup!CancelJob
  <2>3. PICK r : r = [jobs[j] EXCEPT !.status = "cancelled"]
    OBVIOUS
  <2>4. jobs[j] \in SweepRow
    BY DEF SweepType
  <2>5. /\ r \in SweepRow /\ r.type = jobs[j].type /\ r.scope = jobs[j].scope /\ r.payload = jobs[j].payload
        /\ r.effect = jobs[j].effect
    BY <2>3, <2>4 DEF SweepRow
  <2>6. jobs' = [jobs EXCEPT ![j] = r]
    BY <2>1, <2>3, Zenon
  <2>7. /\ DOMAIN jobs' = DOMAIN jobs /\ jobs'[j] = r /\ \A k \in DOMAIN jobs : k # j => jobs'[k] = jobs[k]
        /\ \A k \in DOMAIN jobs' :
             jobs'[k].type = "apply" => jobs'[k].scope \in Instance /\ jobs'[k].payload.instances = {jobs'[k].scope}
    BY <2>5, <2>6, RunRewrites
  <2>8. RunRows'
    BY <1>1, <2>2, <2>7 DEF RunRows
  <2>9. CleanAt' = CleanAt
    BY <2>2 DEF CleanAt
  <2>10. CleanAt.job # 0 => Cleanup!TheJob'.type = Cleanup!TheJob.type /\ Cleanup!TheJob'.scope = Cleanup!TheJob.scope
    BY <2>2, <2>5, <2>7, RunAgent DEF Cleanup!TheJob, CleanAt
  <2>11. ASSUME faults = 0, removal = Cleanup!NoRemoval  PROVE RunCalm'
    <3> USE <2>11 DEF RunCalm
    <3>1. CleanAt.job # 0 /\ CleanAt.result # "sent" => Cleanup!TheJob' = Cleanup!TheJob
      BY <2>1, <2>2, <2>7, RunAgent DEF Cleanup!TheJob, CleanAt, RunWork
    <3>2. RunWork'
      BY <2>5, <2>7, <2>9, <3>1 DEF RunWork
    <3>3. RunKnown' /\ RunSwept'
      BY <1>1, <2>9, <2>10 DEF RunKnown, RunSwept
    <3> QED  BY <3>2, <3>3
  <2> QED  BY <1>1, <2>2, <2>8, <2>11
<1>4. CASE Cleanup!CompletionCrash \/ Cleanup!LeaseLapse \/ Cleanup!AgentCrash
  <2>1. faults' \in Nat /\ faults' # 0
    BY <1>4 DEF Cleanup!CompletionCrash, Cleanup!LeaseLapse, Cleanup!AgentCrash, Cleanup!Fault, RunRows
  <2>2. \/ jobs' = jobs
        \/ \E j \in DOMAIN jobs : \/ jobs' = [jobs EXCEPT ![j].effect = "lost"]
                                  \/ jobs' = [jobs EXCEPT ![j].status = "queued"]
    BY <1>4 DEF Cleanup!CompletionCrash, Cleanup!LeaseLapse, Cleanup!AgentCrash, Cleanup!Job
  <2>3. \A k \in DOMAIN jobs' :
          jobs'[k].type = "apply" => jobs'[k].scope \in Instance /\ jobs'[k].payload.instances = {jobs'[k].scope}
    <3>1. CASE jobs' = jobs
      BY <3>1 DEF RunRows
    <3>2. ASSUME NEW j \in DOMAIN jobs, NEW r, jobs' = [jobs EXCEPT ![j] = r],
                 \/ r = [jobs[j] EXCEPT !.effect = "lost"]
                 \/ r = [jobs[j] EXCEPT !.status = "queued"]
          PROVE  \A k \in DOMAIN jobs' :
                   jobs'[k].type = "apply" => jobs'[k].scope \in Instance /\ jobs'[k].payload.instances = {jobs'[k].scope}
      <4>1. jobs[j] \in SweepRow
        BY DEF SweepType
      <4>2. r \in SweepRow /\ r.type = jobs[j].type /\ r.scope = jobs[j].scope /\ r.payload = jobs[j].payload
        BY <3>2, <4>1 DEF SweepRow
      <4> QED  BY <3>2, <4>2, RunRewrites
    <3>3. \/ jobs' = jobs
          \/ \E j \in DOMAIN jobs : \E r : /\ jobs' = [jobs EXCEPT ![j] = r]
                                            /\ \/ r = [jobs[j] EXCEPT !.effect = "lost"]
                                               \/ r = [jobs[j] EXCEPT !.status = "queued"]
      BY <2>2, Zenon
    <3> QED  BY <3>1, <3>2, <3>3
  <2> QED  BY <1>1, <2>1, <2>3 DEF RunRows
<1> QED  BY <1>2, <1>3, <1>4 DEF Cleanup!QueueStep

\* Every step keeps the invariant.
LEMMA RunStep == SweepNames /\ SweepInv /\ RunInv /\ [Cleanup!Next]_Cleanup!vars => RunInv'
<1> SUFFICES ASSUME SweepNames, SweepInv, RunInv, [Cleanup!Next]_Cleanup!vars  PROVE  RunInv'
  OBVIOUS
<1>1. CASE UNCHANGED Cleanup!vars
  <2>1. UNCHANGED <<row, host, removal, jobs, agent, faults>>
    BY <1>1 DEF Cleanup!vars
  <2> QED  BY <2>1 DEF RunInv, RunRows, RunCalm, RunWork, RunKnown, RunSwept, CleanAt, Cleanup!TheJob
<1>2. CASE Cleanup!AgentSelfRemoval
  <2>1. /\ UNCHANGED <<row, jobs, faults>> /\ removal.at = "scheduled" /\ removal' = [removal EXCEPT !.at = "gone"]
    BY <1>2 DEF Cleanup!AgentSelfRemoval
  <2>2. removal' # Cleanup!NoRemoval
    BY <2>1 DEF SweepInv, SweepType, Cleanup!NoRemoval
  <2> QED  BY <2>1, <2>2 DEF RunInv, RunRows
<1> QED
  BY <1>1, <1>2, RunQueued, RunClaims, RunCommands, RunEnds, RunApplies, RunCompletes, RunQueueStep DEF Cleanup!Next

\* Without a fault, and while the agent stays, whatever runs on the node once
\* nothing is queued or under way has a row that says so: an apply that
\* AgentNextJob hands out after applyNodeEmergencyCleanupResult has closed its
\* instance's row opens the row again when it completes, and a cleanup closes
\* rows only after its sweep has taken every instance off the host, those that
\* its job did not list included.
THEOREM WhatRunsIsKnown ==
  ASSUME SweepNames
  PROVE  /\ Cleanup!Spec => []Cleanup!NoOrphanRuntime
         /\ Spec => []NoOrphanRuntime
<1> DEFINE Known == part = "cleanup" => SweepInv /\ RunInv
<1>1. Cleanup!Init => SweepInv /\ RunInv
  BY SweepInitially, RunInitially
<1>2. SweepInv /\ RunInv /\ [Cleanup!Next]_Cleanup!vars => SweepInv' /\ RunInv'
  BY SweepStep, RunStep
<1>3. RunInv => Cleanup!NoOrphanRuntime
  <2>1. Cleanup!Quiet => CleanAt.job = 0
    BY DEF SweepNames, Cleanup!Quiet, Cleanup!NoJob, CleanAt
  <2> QED  BY <2>1 DEF RunInv, RunCalm, RunKnown, Cleanup!NoOrphanRuntime
<1>4. Cleanup!Spec => []Cleanup!NoOrphanRuntime
  BY <1>1, <1>2, <1>3, PTL DEF Cleanup!Spec
<1>5. Init => Known
  BY <1>1, CleanupBegins
<1>6. Known /\ [Next]_vars => Known'
  BY <1>2, CleanupGoesOn
<1>7. Known => NoOrphanRuntime
  BY <1>3 DEF NoOrphanRuntime
<1>8. Spec => []NoOrphanRuntime
  BY <1>5, <1>6, <1>7, PTL DEF Spec
<1> QED  BY <1>4, <1>8

-----------------------------------------------------------------------------
(* Runtime states. *)

Units == {"active", "inactive", "failed", "activating", "deactivating", "reloading", "unknown"}

RtInst ==
  [cur : Nat, applied : Nat, enabled : BOOLEAN,
   status : {"draft", "provisioning", "active", "disabled", "deleting", "deleted", "failed"}]

RtSeen == [rev : Nat, unit : Units, port : BOOLEAN, observed : Nat]

\* A completion is due of a job that has ended.
RtRow ==
  {q \in [type : {"instance.apply", "instance.disable", "instance.delete"}, node : {Runtime!TheNode},
          scope : {"i"}, payload : Nat, priority : {100}, status : {"queued", "running", "succeeded", "failed"},
          effect : {"none", "pending", "applied", "lost"}] :
     q.effect = "pending" => q.status \in {"succeeded", "failed"}}

RtAgent == [job : Nat, todo : {<<>>}, warned : BOOLEAN, result : {"none", "succeeded", "failed", "sent"}]

RtReports ==
  {Runtime!NoReport}
    \cup [stage : {"targets"}, waits : BOOLEAN, applied : Nat]
    \cup [stage : {"sent", "wrote"}, waits : BOOLEAN, r : RtSeen]
    \cup [stage : {"read", "wrote"}, waits : BOOLEAN, r : RtSeen, i : RtInst]

RtType ==
  /\ inst \in RtInst /\ inst.applied <= inst.cur
  /\ node \in [rev : Nat, unit : Units, port : BOOLEAN]
  /\ raced \in BOOLEAN
  /\ report \in RtReports
  /\ jobs \in Seq(RtRow)
  /\ queued \subseteq DOMAIN jobs
  /\ agent \in [Node -> RtAgent]
  /\ agent[Runtime!TheNode].job \in 0..Len(jobs)

\* Of a row of jobs: it can still write the node or the instance; it is an
\* apply that has succeeded and whose completion is due.
UnderWay(q) == q.status \in {"queued", "running"} \/ q.effect = "pending"
ApplyDue(q) == q.type = "instance.apply" /\ q.status = "succeeded" /\ q.effect = "pending"

\* Without a race every apply under way carries the current revision.
RtJobs ==
  ~raced => \A j \in DOMAIN jobs : jobs[j].type = "instance.apply" /\ UnderWay(jobs[j]) => jobs[j].payload = inst.cur

\* A handler that runs, or whose result has not been sent, is of a job that
\* has not ended.
RtWork ==
  agent[Runtime!TheNode].job # Runtime!NoJob /\ agent[Runtime!TheNode].result # "sent" =>
    jobs[agent[Runtime!TheNode].job].status \in {"queued", "running"}

\* The agent has run an apply and not yet told of it.
ApplyRun ==
  /\ agent[Runtime!TheNode].job # Runtime!NoJob /\ agent[Runtime!TheNode].result = "succeeded"
  /\ jobs[agent[Runtime!TheNode].job].type = "instance.apply"

\* What is counted as applied, or is about to be, is what the node has.
RtNode ==
  ~raced /\ (inst.applied = inst.cur \/ ApplyRun \/ \E j \in DOMAIN jobs : ApplyDue(jobs[j]))
    => node.rev \in {0, inst.cur}

\* A report names no revision younger than the one applied; if the revision it
\* names is the current one, or was when the instance was read, it was on the
\* node when the report was collected.
RtReport ==
  /\ report.stage = "targets" => report.applied <= inst.applied
  /\ report.stage \in {"sent", "read"} =>
       /\ report.r.observed <= inst.applied
       /\ ~raced /\ report.r.observed # 0 /\ report.r.observed = inst.cur => report.r.rev = inst.cur
  /\ report.stage = "read" /\ ~raced /\ report.r.observed # 0 /\ report.r.observed = report.i.cur
       => report.r.rev = report.i.cur

RtInv == RtType /\ RtJobs /\ RtWork /\ RtNode /\ RtReport /\ Runtime!VerdictHolds /\ Runtime!DeletedHasNoState

-----------------------------------------------------------------------------
(* The verdicts. *)

\* What the checks require of a report before it shows the instance healthy.
LEMMA RtHealthy ==
  ASSUME NEW i \in RtInst, NEW r \in RtSeen, Runtime!healthStatusFromAgentReport(i, r) = "healthy"
  PROVE  /\ r.rev # 0 /\ r.port /\ ~Runtime!desiredInstanceStopped(i)
         /\ \/ r.unit = "active"
            \/ /\ OpenVPN /\ r.unit \in Runtime!Transition
               /\ Runtime!driftStatusFromAgentReport(i, r) = "in_sync"
<1> USE DEF RtInst, RtSeen, Units
<1>1. ~Runtime!reportError(i, r)
  BY DEF Runtime!healthStatusFromAgentReport
<1>2. CASE r.unit \in Runtime!Transition
  <2>1. Runtime!openVPNRuntimeReportOperationalDuringTransition(i, r)
    BY <1>1, <1>2 DEF Runtime!healthStatusFromAgentReport
  <2>2. Runtime!driftStatusFromAgentReport(i, r) = "in_sync"
    BY <1>2, <2>1 DEF Runtime!driftStatusFromAgentReport, Runtime!Transition,
                      Runtime!openVPNRuntimeReportOperationalDuringTransition
  <2> QED  BY <1>2, <2>1, <2>2 DEF Runtime!openVPNRuntimeReportOperationalDuringTransition
<1>3. CASE r.unit \notin Runtime!Transition
  <2>1. ~Runtime!desiredInstanceStopped(i)
    BY <1>1, <1>3 DEF Runtime!healthStatusFromAgentReport
  <2>2. r.unit = "active"
    BY <1>1, <1>3, <2>1 DEF Runtime!healthStatusFromAgentReport
  <2>3. "warning" \notin Runtime!evaluateDriverHealthChecks(i, r)
    BY <1>1, <1>3, <2>1, <2>2 DEF Runtime!healthStatusFromAgentReport
  <2>4. Runtime!endpointCheck(r) # "warning" /\ Runtime!configCheck(i, r) # "warning"
    BY <2>3 DEF Runtime!evaluateDriverHealthChecks
  <2> QED  BY <1>1, <2>1, <2>2, <2>4 DEF Runtime!endpointCheck, Runtime!configCheck
<1> QED  BY <1>2, <1>3

\* A report that shows the instance in sync names the current revision or none.
LEMMA RtInSync ==
  ASSUME NEW i \in RtInst, NEW r \in RtSeen, Runtime!driftStatusFromAgentReport(i, r) = "in_sync"
  PROVE  r.observed = 0 \/ r.observed = i.cur
  BY DEF Runtime!driftStatusFromAgentReport, RtInst, RtSeen

-----------------------------------------------------------------------------
(* The queue of the instance. *)

\* One row rewritten in its status and effect.
LEMMA RtRewritten ==
  ASSUME RtType, RtJobs, NEW j \in DOMAIN jobs, NEW r \in RtRow, jobs' = [jobs EXCEPT ![j] = r],
         r.type = jobs[j].type, r.payload = jobs[j].payload, UnderWay(r) => UnderWay(jobs[j]),
         inst'.cur = inst.cur, raced' = raced
  PROVE  /\ jobs' \in Seq(RtRow) /\ DOMAIN jobs' = DOMAIN jobs /\ Len(jobs') = Len(jobs)
         /\ jobs'[j] = r /\ \A k \in DOMAIN jobs : k # j => jobs'[k] = jobs[k]
         /\ RtJobs'
<1>1. j \in 1..Len(jobs)
  BY DEF RtType
<1>2. jobs' \in Seq(RtRow) /\ Len(jobs') = Len(jobs) /\ DOMAIN jobs' = DOMAIN jobs
  BY <1>1, ExceptSeq DEF RtType
<1>3. jobs'[j] = r /\ \A k \in DOMAIN jobs : k # j => jobs'[k] = jobs[k]
  BY <1>1 DEF RtType
<1>4. RtJobs'
  BY <1>2, <1>3 DEF RtJobs, UnderWay
<1> QED  BY <1>2, <1>3, <1>4

\* A step of the queue that leaves the instance, the node and the report: it
\* has to keep the agent's job from ending under it and to make no apply out
\* of nothing.
LEMMA RtQueueStep ==
  ASSUME RtInv, UNCHANGED <<inst, node, row, report, queued, raced>>,
         jobs' \in Seq(RtRow), DOMAIN jobs \subseteq DOMAIN jobs', RtJobs',
         agent' \in [Node -> RtAgent], agent'[Runtime!TheNode].job \in 0..Len(jobs'), RtWork',
         ApplyRun' => ApplyRun,
         (\E j \in DOMAIN jobs' : ApplyDue(jobs'[j])) => ApplyRun \/ \E j \in DOMAIN jobs : ApplyDue(jobs[j])
  PROVE  RtInv'
<1> USE DEF RtInv
<1>1. RtType'
  BY DEF RtType
<1>2. RtNode'
  BY DEF RtNode
<1>3. RtReport'
  BY DEF RtReport
<1>4. Runtime!VerdictHolds' /\ Runtime!DeletedHasNoState'
  BY DEF Runtime!VerdictHolds, Runtime!HealthyIsServing, Runtime!InSyncIsCurrent, Runtime!DeletedHasNoState
<1> QED  BY <1>1, <1>2, <1>3, <1>4

\* The idle agent is an agent.
LEMMA RtIdle == Runtime!AgentIdle \in RtAgent
  BY DEF Runtime!AgentIdle, RtAgent, Runtime!NoJob

\* The job the agent names.
LEMMA RtAgentJob ==
  ASSUME RtType, Runtime!TheNode \in Node
  PROVE  /\ agent[Runtime!TheNode] \in RtAgent /\ Len(jobs) \in Nat /\ DOMAIN jobs = 1..Len(jobs)
         /\ agent[Runtime!TheNode].job # Runtime!NoJob => /\ agent[Runtime!TheNode].job \in DOMAIN jobs
                                                          /\ jobs[agent[Runtime!TheNode].job] \in RtRow
  BY DEF RtType, Runtime!NoJob

\* A job taken, its result, lost completions, lapsed leases and restarts.
LEMMA RtQueueSteps ==
  ASSUME RtInv, Runtime!TheNode \in Node, Runtime!AgentClaim \/ Runtime!AgentSubmits \/ Runtime!Faults
  PROVE  RtInv'
<1> USE DEF RtInv
<1>1. UNCHANGED <<inst, node, row, report, queued, raced>>
  BY DEF Runtime!AgentClaim, Runtime!AgentSubmits, Runtime!Faults
<1>2. PICK n \in Node : n = Runtime!TheNode
  OBVIOUS
<1>3. /\ agent[n] \in RtAgent /\ Len(jobs) \in Nat /\ DOMAIN jobs = 1..Len(jobs)
      /\ agent[n].job # Runtime!NoJob => agent[n].job \in DOMAIN jobs /\ jobs[agent[n].job] \in RtRow
  BY <1>2, RtAgentJob
<1>4. CASE Runtime!AgentClaim
  <2>1. PICK j \in DOMAIN jobs :
          /\ jobs[j].status = "queued"
          /\ jobs' = [jobs EXCEPT ![j].status = "running"]
          /\ agent' = [agent EXCEPT ![n] = [Runtime!AgentIdle EXCEPT !.job = j, !.todo = <<>>]]
    BY <1>2, <1>4, RtIdle DEF Runtime!AgentClaim, Runtime!Job, Runtime!Claimable, Runtime!Claim
  <2>2. PICK r : r = [jobs[j] EXCEPT !.status = "running"]
    OBVIOUS
  <2>3. jobs[j] \in RtRow
    BY DEF RtType
  <2>4. /\ r \in RtRow /\ r.type = jobs[j].type /\ r.payload = jobs[j].payload /\ r.status = "running"
        /\ UnderWay(jobs[j])
    BY <2>1, <2>2, <2>3 DEF RtRow, UnderWay
  <2>5. jobs' = [jobs EXCEPT ![j] = r]
    BY <2>1, <2>2, Zenon
  <2>6. /\ jobs' \in Seq(RtRow) /\ DOMAIN jobs' = DOMAIN jobs /\ Len(jobs') = Len(jobs)
        /\ jobs'[j] = r /\ (\A k \in DOMAIN jobs : k # j => jobs'[k] = jobs[k]) /\ RtJobs'
    BY <1>1, <2>4, <2>5, RtRewritten
  <2>7. PICK a : a = [Runtime!AgentIdle EXCEPT !.job = j, !.todo = <<>>]
    OBVIOUS
  <2>8. a = [job |-> j, todo |-> <<>>, warned |-> FALSE, result |-> "none"]
    BY <2>7, Zenon DEF Runtime!AgentIdle
  <2>9. a \in RtAgent /\ a.job = j /\ a.result = "none" /\ j \in 0..Len(jobs)
    BY <1>3, <2>8 DEF RtAgent
  <2>10. agent' \in [Node -> RtAgent] /\ agent'[n] = a
    BY <2>1, <2>7, <2>9 DEF RtType
  <2>11. RtWork' /\ ~ApplyRun'
    BY <1>2, <2>4, <2>6, <2>9, <2>10 DEF RtWork, ApplyRun
  <2>12. (\E k \in DOMAIN jobs' : ApplyDue(jobs'[k])) => \E k \in DOMAIN jobs : ApplyDue(jobs[k])
    BY <2>4, <2>6 DEF ApplyDue
  <2> QED  BY <1>1, <1>2, <2>6, <2>9, <2>10, <2>11, <2>12, RtQueueStep
<1>5. CASE Runtime!AgentSubmits
  <2>1. PICK j, res : j = agent[n].job /\ res = agent[n].result
    OBVIOUS
  <2>2. CASE jobs[j].status = "running" /\ j \in DOMAIN jobs
    <3>1. /\ res \in {"succeeded", "failed"}
          /\ jobs' = [jobs EXCEPT ![j] = [jobs[j] EXCEPT !.status = res, !.effect = "pending"]]
          /\ agent' = [agent EXCEPT ![n].result = "sent"]
      BY <1>2, <1>5, <2>1, <2>2, Zenon DEF Runtime!AgentSubmits, Runtime!AgentJobResult
    <3>2. PICK r : r = [jobs[j] EXCEPT !.status = res, !.effect = "pending"]
      OBVIOUS
    <3>3. jobs[j] \in RtRow /\ j # Runtime!NoJob /\ j \in 0..Len(jobs)
      BY <1>3, <2>2 DEF RtType, Runtime!NoJob
    <3>4. r \in RtRow /\ r.type = jobs[j].type /\ r.payload = jobs[j].payload /\ r.status = res
      BY <3>1, <3>2, <3>3 DEF RtRow
    <3>5. jobs' = [jobs EXCEPT ![j] = r] /\ UnderWay(jobs[j])
      BY <2>2, <3>1, <3>2 DEF UnderWay
    <3>6. /\ jobs' \in Seq(RtRow) /\ DOMAIN jobs' = DOMAIN jobs /\ Len(jobs') = Len(jobs)
          /\ jobs'[j] = r /\ (\A k \in DOMAIN jobs : k # j => jobs'[k] = jobs[k]) /\ RtJobs'
      BY <1>1, <2>2, <3>4, <3>5, RtRewritten
    <3>7. agent' \in [Node -> RtAgent] /\ agent'[n].result = "sent" /\ agent'[n].job = j
      BY <1>3, <2>1, <3>1 DEF RtType, RtAgent
    <3>8. RtWork' /\ ~ApplyRun'
      BY <1>2, <3>7 DEF RtWork, ApplyRun
    <3>9. (\E k \in DOMAIN jobs' : ApplyDue(jobs'[k])) => ApplyRun \/ \E k \in DOMAIN jobs : ApplyDue(jobs[k])
      BY <1>2, <2>1, <3>3, <3>4, <3>6 DEF ApplyDue, ApplyRun
    <3> QED  BY <1>1, <1>2, <3>3, <3>6, <3>7, <3>8, <3>9, RtQueueStep
  <2>3. CASE ~(jobs[j].status = "running" /\ j \in DOMAIN jobs)
    <3>1. jobs' = jobs
      <4>1. CASE j \notin DOMAIN jobs
        BY <1>2, <1>5, <2>1, <4>1 DEF Runtime!AgentSubmits, Runtime!AgentJobResult, RtType
      <4>2. CASE jobs[j].status # "running"
        BY <1>2, <1>5, <2>1, <4>2 DEF Runtime!AgentSubmits, Runtime!AgentJobResult
      <4> QED  BY <2>3, <4>1, <4>2
    <3>2. agent' = [agent EXCEPT ![n] = Runtime!AgentIdle] \/ agent' = [agent EXCEPT ![n].result = "sent"]
      <4>1. \/ agent' = [agent EXCEPT ![n] = Runtime!AgentIdle]
            \/ agent' = [agent EXCEPT ![n].result = "sent"]
        BY <1>2, <1>5, Zenon DEF Runtime!AgentSubmits, Runtime!AgentJobResult
      <4> QED  BY <4>1, RtIdle, Zenon
    <3>3. /\ agent' \in [Node -> RtAgent] /\ agent'[n].job \in 0..Len(jobs)
          /\ agent'[n].job = Runtime!NoJob \/ agent'[n].result = "sent"
      <4>1. CASE agent' = [agent EXCEPT ![n] = Runtime!AgentIdle]
        <5>1. agent' \in [Node -> RtAgent] /\ agent'[n] = Runtime!AgentIdle
          BY <4>1, RtIdle DEF RtType
        <5> QED  BY <5>1, <1>3 DEF Runtime!AgentIdle, Runtime!NoJob
      <4>2. CASE agent' = [agent EXCEPT ![n].result = "sent"]
        <5>1. agent' \in [Node -> RtAgent] /\ agent'[n].result = "sent" /\ agent'[n].job = agent[n].job
          BY <4>2, <1>3 DEF RtType, RtAgent
        <5> QED  BY <5>1, <1>2 DEF RtType
      <4> QED  BY <3>2, <4>1, <4>2
    <3>4. RtWork' /\ ~ApplyRun'
      BY <1>2, <3>3 DEF RtWork, ApplyRun
    <3>5. RtJobs' /\ jobs' \in Seq(RtRow)
      BY <1>1, <3>1 DEF RtJobs, RtType
    <3> QED  BY <1>1, <1>2, <3>1, <3>3, <3>4, <3>5, RtQueueStep
  <2> QED  BY <2>2, <2>3
<1>6. CASE Runtime!CompletionCrash
  <2>1. PICK j \in DOMAIN jobs : jobs[j].effect = "pending" /\ jobs' = [jobs EXCEPT ![j].effect = "lost"] /\ Runtime!Answer(j)
    BY <1>6 DEF Runtime!CompletionCrash, Runtime!Job, Runtime!EffectDue
  <2>2. PICK r : r = [jobs[j] EXCEPT !.effect = "lost"]
    OBVIOUS
  <2>3. jobs[j] \in RtRow
    BY DEF RtType
  <2>4. /\ r \in RtRow /\ r.type = jobs[j].type /\ r.payload = jobs[j].payload /\ r.effect = "lost"
        /\ UnderWay(jobs[j]) /\ ~ApplyDue(r)
    BY <2>1, <2>2, <2>3 DEF RtRow, UnderWay, ApplyDue
  <2>5. jobs' = [jobs EXCEPT ![j] = r]
    BY <2>1, <2>2, Zenon
  <2>6. /\ jobs' \in Seq(RtRow) /\ DOMAIN jobs' = DOMAIN jobs /\ Len(jobs') = Len(jobs)
        /\ jobs'[j] = r /\ (\A k \in DOMAIN jobs : k # j => jobs'[k] = jobs[k]) /\ RtJobs'
    BY <1>1, <2>4, <2>5, RtRewritten
  <2>7. agent' \in [Node -> RtAgent] /\ agent'[n] = IF agent[n].job = j THEN Runtime!AgentIdle ELSE agent[n]
    BY <2>1, RtIdle DEF Runtime!Answer, RtType, Runtime!AgentIdle, Runtime!NoJob
  <2>8. RtWork' /\ (ApplyRun' => ApplyRun) /\ agent'[n].job \in 0..Len(jobs)
    BY <1>2, <1>3, <2>6, <2>7 DEF RtWork, ApplyRun, Runtime!AgentIdle, Runtime!NoJob, RtType
  <2>9. (\E k \in DOMAIN jobs' : ApplyDue(jobs'[k])) => \E k \in DOMAIN jobs : ApplyDue(jobs[k])
    BY <2>4, <2>6
  <2> QED  BY <1>1, <1>2, <2>6, <2>7, <2>8, <2>9, RtQueueStep
<1>7. CASE Runtime!LeaseLapse
  <2>1. PICK j \in DOMAIN jobs : jobs[j].status = "running" /\ jobs' = [jobs EXCEPT ![j].status = "queued"] /\ agent' = agent
    BY <1>7 DEF Runtime!LeaseLapse, Runtime!Job
  <2>2. PICK r : r = [jobs[j] EXCEPT !.status = "queued"]
    OBVIOUS
  <2>3. jobs[j] \in RtRow
    BY DEF RtType
  <2>4. /\ r \in RtRow /\ r.type = jobs[j].type /\ r.payload = jobs[j].payload /\ r.status = "queued"
        /\ UnderWay(jobs[j]) /\ ~ApplyDue(r)
    BY <2>1, <2>2, <2>3 DEF RtRow, UnderWay, ApplyDue
  <2>5. jobs' = [jobs EXCEPT ![j] = r]
    BY <2>1, <2>2, Zenon
  <2>6. /\ jobs' \in Seq(RtRow) /\ DOMAIN jobs' = DOMAIN jobs /\ Len(jobs') = Len(jobs)
        /\ jobs'[j] = r /\ (\A k \in DOMAIN jobs : k # j => jobs'[k] = jobs[k]) /\ RtJobs'
    BY <1>1, <2>4, <2>5, RtRewritten
  <2>7. RtWork' /\ (ApplyRun' => ApplyRun)
    BY <1>2, <1>3, <2>1, <2>4, <2>6 DEF RtWork, ApplyRun
  <2>8. (\E k \in DOMAIN jobs' : ApplyDue(jobs'[k])) => \E k \in DOMAIN jobs : ApplyDue(jobs[k])
    BY <2>4, <2>6
  <2>9. agent' \in [Node -> RtAgent] /\ agent'[n].job \in 0..Len(jobs')
    BY <1>2, <2>1, <2>6 DEF RtType
  <2> QED  BY <1>1, <1>2, <2>6, <2>7, <2>8, <2>9, RtQueueStep
<1>8. CASE Runtime!AgentCrash
  <2>1. /\ jobs' = jobs /\ agent' \in [Node -> RtAgent]
        /\ agent'[n] = agent[n] \/ agent'[n] = Runtime!AgentIdle
    BY <1>8, RtIdle DEF Runtime!AgentCrash, RtType, Runtime!AgentIdle, Runtime!NoJob
  <2>2. RtWork' /\ (ApplyRun' => ApplyRun) /\ agent'[n].job \in 0..Len(jobs)
    BY <1>2, <1>3, <2>1 DEF RtWork, ApplyRun, Runtime!AgentIdle, Runtime!NoJob, RtType
  <2>3. RtJobs' /\ jobs' \in Seq(RtRow)
    BY <1>1, <2>1 DEF RtJobs, RtType
  <2> QED  BY <1>1, <1>2, <2>1, <2>2, <2>3, RtQueueStep
<1> QED  BY <1>4, <1>5, <1>6, <1>7, <1>8 DEF Runtime!Faults

-----------------------------------------------------------------------------
(* The operator, the node and the completions. *)

\* Nothing is queued, applied or reported at first.
LEMMA RtInitially == Runtime!TheNode \in Node /\ Runtime!Init => RtInv
<1> SUFFICES ASSUME Runtime!TheNode \in Node, Runtime!Init  PROVE  RtInv  OBVIOUS
<1> USE DEF Runtime!Init, Runtime!JobsInit
<1>1. /\ jobs = <<>> /\ agent[Runtime!TheNode].job = 0 /\ agent \in [Node -> RtAgent]
      /\ inst = [cur |-> 1, applied |-> 0, status |-> "draft", enabled |-> TRUE]
      /\ node = [rev |-> 0, unit |-> "inactive", port |-> FALSE]
      /\ raced = FALSE /\ report = Runtime!NoReport /\ queued = {} /\ row = Runtime!NoRow
  BY RtIdle DEF Runtime!AgentIdle, Runtime!NoJob
<1> HIDE DEF Runtime!Init
<1>2. jobs \in Seq(RtRow) /\ Len(jobs) = 0 /\ DOMAIN jobs = {}
  BY <1>1
<1>3. RtType
  <2>1. inst \in RtInst /\ inst.applied <= inst.cur
    BY <1>1 DEF RtInst
  <2>2. node \in [rev : Nat, unit : Units, port : BOOLEAN]
    BY <1>1 DEF Units
  <2>3. report \in RtReports /\ raced \in BOOLEAN
    BY <1>1 DEF RtReports
  <2>4. agent[Runtime!TheNode].job \in 0..Len(jobs)
    BY <1>1, <1>2
  <2> QED  BY <1>1, <1>2, <2>1, <2>2, <2>3, <2>4 DEF RtType
<1>4. RtJobs /\ RtWork /\ RtNode
  BY <1>1, <1>2 DEF RtJobs, RtWork, RtNode, ApplyRun, Runtime!NoJob
<1>5. RtReport
  BY <1>1 DEF RtReport, Runtime!NoReport
<1>6. Runtime!VerdictHolds /\ Runtime!DeletedHasNoState
  BY <1>1 DEF Runtime!VerdictHolds, Runtime!HealthyIsServing, Runtime!InSyncIsCurrent, Runtime!DeletedHasNoState,
              Runtime!NoRow
<1> QED  BY <1>3, <1>4, <1>5, <1>6 DEF RtInv

\* A new revision: applies under way are a race, and no report names it.
LEMMA RtRevises ==
  ASSUME RtInv, Runtime!TheNode \in Node, Runtime!NewRevision  PROVE  RtInv'
<1> USE DEF RtInv
<1>1. /\ UNCHANGED <<node, row, report, queued, jobs, agent>>
      /\ inst' = [inst EXCEPT !.cur = @ + 1]
      /\ raced' = (raced \/ Runtime!ApplyUnderWay)
  BY Zenon DEF Runtime!NewRevision, Runtime!jobVars
<1>2. /\ inst' \in RtInst /\ inst'.cur = inst.cur + 1 /\ inst'.applied = inst.applied /\ inst'.status = inst.status
      /\ inst.cur \in Nat /\ inst.applied \in Nat /\ inst.applied <= inst.cur
  BY <1>1 DEF RtType, RtInst
<1>3. raced' \in BOOLEAN /\ (raced => raced') /\ (~raced' => ~Runtime!ApplyUnderWay)
  BY <1>1
<1>4. ~raced' => \A j \in DOMAIN jobs : jobs[j].type = "instance.apply" => ~UnderWay(jobs[j])
  BY <1>3 DEF Runtime!ApplyUnderWay, UnderWay, Runtime!Job, Runtime!Unfinished, Runtime!EffectDue
<1>5. RtType'
  BY <1>1, <1>2, <1>3 DEF RtType
<1>6. RtJobs' /\ RtWork'
  BY <1>1, <1>4 DEF RtJobs, RtWork
<1>7. RtNode'
  <2>1. ~raced' => ~\E j \in DOMAIN jobs : ApplyDue(jobs[j])
    BY <1>4 DEF ApplyDue, UnderWay
  <2>2. ~raced' => ~ApplyRun
    BY <1>4, RtAgentJob DEF ApplyRun, UnderWay, RtWork
  <2> QED  BY <1>1, <1>2, <2>1, <2>2 DEF RtNode, ApplyRun
<1>8. RtReport'
  <2>1. report \in RtReports
    BY DEF RtType
  <2>2. report.stage \in {"sent", "read"} => report.r.observed \in Nat /\ report.r.observed <= inst.applied
    BY <2>1 DEF RtReport, RtReports, RtSeen, Runtime!NoReport
  <2> QED  BY <1>1, <1>2, <1>3, <2>2 DEF RtReport
<1>9. Runtime!VerdictHolds' /\ Runtime!DeletedHasNoState'
  BY <1>1, <1>2, <1>3 DEF Runtime!VerdictHolds, Runtime!HealthyIsServing, Runtime!InSyncIsCurrent, Runtime!DeletedHasNoState
<1> QED  BY <1>5, <1>6, <1>7, <1>8, <1>9

\* A job queued for the instance carries the revision it has.
LEMMA RtQueues ==
  ASSUME RtInv, Runtime!TheNode \in Node, Runtime!QueueApply \/ Runtime!QueueDisable \/ Runtime!DeleteInstance
  PROVE  RtInv'
<1> USE DEF RtInv
<1>1. PICK type \in {"instance.apply", "instance.disable", "instance.delete"},
           st \in {"provisioning", "disabled", "deleting"}, en \in BOOLEAN :
        /\ inst' = [inst EXCEPT !.status = st, !.enabled = en]
        /\ Runtime!Queue(type, Runtime!TheNode, "i", inst.cur)
        /\ queued' = queued \cup {Runtime!NextId}
        /\ UNCHANGED <<node, row, report, raced, agent>>
        /\ inst.status # "deleted"
  <2>1. inst.enabled \in BOOLEAN /\ [inst EXCEPT !.status = "provisioning"]
                                      = [inst EXCEPT !.status = "provisioning", !.enabled = inst.enabled]
    BY DEF RtType, RtInst
  <2>2. CASE Runtime!QueueApply
    BY <2>1, <2>2 DEF Runtime!QueueApply, Runtime!QueueJob
  <2>3. CASE Runtime!QueueDisable
    BY <2>3 DEF Runtime!QueueDisable, Runtime!QueueJob
  <2>4. CASE Runtime!DeleteInstance
    BY <2>4 DEF Runtime!DeleteInstance, Runtime!QueueJob
  <2> QED  BY <2>2, <2>3, <2>4
<1>2. /\ inst' \in RtInst /\ inst'.cur = inst.cur /\ inst'.applied = inst.applied /\ inst'.status = st
      /\ inst.cur \in Nat
  BY <1>1 DEF RtType, RtInst
<1>3. PICK r : r = Runtime!newJob(type, Runtime!TheNode, "i", inst.cur, 100)
  OBVIOUS
<1>4. r \in RtRow /\ r.payload = inst.cur /\ ~ApplyDue(r)
  BY <1>2, <1>3 DEF Runtime!newJob, RtRow, ApplyDue
<1>5. jobs' = Append(jobs, r) /\ jobs \in Seq(RtRow)
  BY <1>1, <1>3 DEF Runtime!Queue, Runtime!QueueAt, RtType
<1>6. /\ jobs' \in Seq(RtRow) /\ DOMAIN jobs' = DOMAIN jobs \cup {Len(jobs) + 1} /\ Len(jobs') = Len(jobs) + 1
      /\ jobs'[Len(jobs) + 1] = r /\ (\A k \in DOMAIN jobs : jobs'[k] = jobs[k])
  BY <1>4, <1>5, AppendProperties
<1>7. /\ agent[Runtime!TheNode] \in RtAgent /\ Len(jobs) \in Nat /\ DOMAIN jobs = 1..Len(jobs)
      /\ agent[Runtime!TheNode].job # Runtime!NoJob => agent[Runtime!TheNode].job \in DOMAIN jobs
  BY RtAgentJob
<1>8. RtType'
  <2>1. queued' \subseteq DOMAIN jobs'
    BY <1>1, <1>6 DEF RtType, Runtime!NextId
  <2>2. agent'[Runtime!TheNode].job \in 0..Len(jobs')
    BY <1>1, <1>6, <1>7 DEF RtType
  <2> QED  BY <1>1, <1>2, <1>6, <2>1, <2>2 DEF RtType
<1>9. RtJobs' /\ RtWork'
  BY <1>1, <1>2, <1>4, <1>6, <1>7 DEF RtJobs, RtWork
<1>10. RtNode'
  <2>1. (\E k \in DOMAIN jobs' : ApplyDue(jobs'[k])) => \E k \in DOMAIN jobs : ApplyDue(jobs[k])
    BY <1>4, <1>6
  <2>2. ApplyRun' => ApplyRun
    BY <1>1, <1>6, <1>7 DEF ApplyRun
  <2> QED  BY <1>1, <1>2, <2>1, <2>2 DEF RtNode
<1>11. RtReport'
  BY <1>1, <1>2 DEF RtReport
<1>12. Runtime!VerdictHolds' /\ Runtime!DeletedHasNoState'
  BY <1>1, <1>2 DEF Runtime!VerdictHolds, Runtime!HealthyIsServing, Runtime!InSyncIsCurrent, Runtime!DeletedHasNoState
<1> QED  BY <1>8, <1>9, <1>10, <1>11, <1>12

\* The row a job writes says so.
LEMMA RtJobRow ==
  ASSUME NEW by, NEW i, NEW type, NEW status  PROVE  Runtime!jobRow(by, i, type, status).by = by
  BY DEF Runtime!jobRow

\* The unit changes, and a queued job's row is written: no revision moves.
LEMMA RtQuiet ==
  ASSUME RtInv, Runtime!QueuedWrites \/ Runtime!UnitChanges  PROVE  RtInv'
<1> USE DEF RtInv
<1>1. /\ UNCHANGED <<inst, report, raced, jobs, agent>> /\ queued' \subseteq queued
      /\ node' \in [rev : Nat, unit : Units, port : BOOLEAN] /\ node'.rev = node.rev
  <2>1. CASE Runtime!QueuedWrites
    BY <2>1 DEF Runtime!QueuedWrites, Runtime!jobVars, RtType
  <2>2. CASE Runtime!UnitChanges
    <3>1. PICK u \in Units, p \in BOOLEAN : node' = [node EXCEPT !.unit = u, !.port = p]
      BY <2>2 DEF Runtime!UnitChanges, Units
    <3>2. node' \in [rev : Nat, unit : Units, port : BOOLEAN] /\ node'.rev = node.rev
      BY <3>1 DEF RtType
    <3> QED  BY <2>2, <3>2 DEF Runtime!UnitChanges, Runtime!jobVars
  <2> QED  BY <2>1, <2>2
<1>2. row' = row \/ row'.by = "queue"
  <2>1. CASE Runtime!QueuedWrites
    <3>1. PICK j : row' = Runtime!jobRow("queue", inst, jobs[j].type, "queued")
      BY <2>1 DEF Runtime!QueuedWrites
    <3> QED  BY <3>1, RtJobRow
  <2>2. CASE Runtime!UnitChanges
    BY <2>2 DEF Runtime!UnitChanges
  <2> QED  BY <2>1, <2>2
<1>3. RtType'
  BY <1>1 DEF RtType
<1>4. RtJobs' /\ RtWork' /\ RtReport' /\ (ApplyRun' <=> ApplyRun)
  BY <1>1 DEF RtJobs, RtWork, RtReport, ApplyRun
<1>5. RtNode'
  BY <1>1, <1>4 DEF RtNode
<1>6. Runtime!VerdictHolds' /\ Runtime!DeletedHasNoState'
  BY <1>1, <1>2 DEF Runtime!VerdictHolds, Runtime!HealthyIsServing, Runtime!InSyncIsCurrent, Runtime!DeletedHasNoState
<1> QED  BY <1>3, <1>4, <1>5, <1>6

\* A handler ends and leaves m on the node: a revision m has that the node did
\* not have is the current one, and an apply that succeeds leaves no other.
LEMMA RtFinishes ==
  ASSUME RtInv, NEW n \in Node, n = Runtime!TheNode, NEW j, j = agent[n].job, j # Runtime!NoJob,
         agent[n].result = "none", NEW res \in {"succeeded", "failed"}, Runtime!Finish(n, res),
         NEW m \in [rev : Nat, unit : Units, port : BOOLEAN], node' = m,
         UNCHANGED <<inst, row, report, queued, raced, jobs>>,
         ~raced => m.rev = 0 \/ m.rev = inst.cur \/ m.rev = node.rev,
         ~raced /\ res = "succeeded" /\ jobs[j].type = "instance.apply" => m.rev = inst.cur
  PROVE  RtInv'
<1> USE DEF RtInv
<1>1. /\ agent[n] \in RtAgent /\ j \in DOMAIN jobs /\ jobs[j].status \in {"queued", "running"}
  BY RtAgentJob DEF RtWork
<1>2. agent' = [agent EXCEPT ![n] = [agent[n] EXCEPT !.result = res, !.todo = <<>>]]
  BY Zenon DEF Runtime!Finish
<1>3. PICK a : a = [agent[n] EXCEPT !.result = res, !.todo = <<>>]
  OBVIOUS
<1>4. a \in RtAgent /\ a.job = j /\ a.result = res
  BY <1>1, <1>3 DEF RtAgent
<1>5. agent' \in [Node -> RtAgent] /\ agent'[n] = a
  BY <1>2, <1>3, <1>4 DEF RtType
<1>6. RtType'
  <2>1. agent'[n].job \in 0..Len(jobs)
    BY <1>4, <1>5 DEF RtType
  <2> QED  BY <1>5, <2>1 DEF RtType
<1>7. RtJobs' /\ RtWork' /\ RtReport'
  BY <1>1, <1>4, <1>5 DEF RtJobs, RtWork, RtReport
<1>8. RtNode'
  <2>1. ApplyRun' /\ ~raced => m.rev = inst.cur
    BY <1>4, <1>5 DEF ApplyRun
  <2> QED  BY <2>1 DEF RtNode
<1>9. Runtime!VerdictHolds' /\ Runtime!DeletedHasNoState'
  BY DEF Runtime!VerdictHolds, Runtime!HealthyIsServing, Runtime!InSyncIsCurrent, Runtime!DeletedHasNoState
<1> QED  BY <1>6, <1>7, <1>8, <1>9

\* A handler's work: an apply, whether it succeeds or fails, leaves the
\* current revision on the node.
LEMMA RtWorks ==
  ASSUME RtInv, Runtime!TheNode \in Node, Runtime!AgentWorks  PROVE  RtInv'
<1> USE DEF RtInv
<1> DEFINE M == [rev : Nat, unit : Units, port : BOOLEAN]
<1>1. PICK n \in Node : n = Runtime!TheNode
  OBVIOUS
<1>2. PICK j : j = agent[n].job
  OBVIOUS
<1>3. PICK p : p = jobs[j].payload
  OBVIOUS
<1>4. j # Runtime!NoJob /\ agent[n].result = "none" /\ UNCHANGED <<inst, row, report, queued, raced, jobs>>
  BY <1>1, <1>2 DEF Runtime!AgentWorks, Runtime!Working, Runtime!NoJob
<1>5. j \in DOMAIN jobs /\ jobs[j] \in RtRow /\ jobs[j].status \in {"queued", "running"}
  BY <1>1, <1>2, <1>4, RtAgentJob DEF RtWork
<1>6. p \in Nat /\ (~raced /\ jobs[j].type = "instance.apply" => p = inst.cur)
  BY <1>3, <1>5 DEF RtJobs, UnderWay, RtRow
<1>7. node \in M
  BY DEF RtType
<1>8. PICK stopped : stopped = [node EXCEPT !.unit = "inactive", !.port = FALSE]
  OBVIOUS
<1>9. stopped \in M /\ stopped.rev = node.rev
  BY <1>7, <1>8 DEF Units
<1>10. PICK gone : gone = [rev |-> 0, unit |-> "inactive", port |-> FALSE]
  OBVIOUS
<1>11. gone \in M /\ gone.rev = 0
  BY <1>10 DEF Units
<1>12. PICK up : up = [rev |-> p, unit |-> "active", port |-> TRUE]
  OBVIOUS
<1>13. up \in M /\ up.rev = p
  BY <1>6, <1>12 DEF Units
<1>14. PICK broken : broken = [rev |-> p, unit |-> "failed", port |-> FALSE]
  OBVIOUS
<1>15. broken \in M /\ broken.rev = p
  BY <1>6, <1>14 DEF Units
<1>16. \/ /\ Runtime!Finish(n, "succeeded")
          /\ node' = IF jobs[j].type = "instance.apply" THEN up
                     ELSE IF jobs[j].type = "instance.disable" THEN stopped ELSE gone
       \/ /\ Runtime!Finish(n, "failed") /\ jobs[j].type = "instance.apply"
          /\ node' = node \/ node' = broken
  BY <1>1, <1>2, <1>3, <1>8, <1>10, <1>12, <1>14, Zenon DEF Runtime!AgentWorks
<1>17. CASE Runtime!Finish(n, "failed") /\ jobs[j].type = "instance.apply" /\ node' = node
  <2>1. PICK m \in M : m = node
    BY <1>7
  <2> QED  BY <1>1, <1>2, <1>4, <1>17, <2>1, RtFinishes
<1>18. CASE Runtime!Finish(n, "failed") /\ jobs[j].type = "instance.apply" /\ node' = broken
  BY <1>1, <1>2, <1>4, <1>6, <1>15, <1>18, RtFinishes
<1>19. CASE Runtime!Finish(n, "succeeded") /\ jobs[j].type = "instance.apply" /\ node' = up
  BY <1>1, <1>2, <1>4, <1>6, <1>13, <1>19, RtFinishes
<1>20. CASE Runtime!Finish(n, "succeeded") /\ jobs[j].type # "instance.apply" /\ node' = stopped
  BY <1>1, <1>2, <1>4, <1>9, <1>20, RtFinishes
<1>21. CASE Runtime!Finish(n, "succeeded") /\ jobs[j].type # "instance.apply" /\ node' = gone
  BY <1>1, <1>2, <1>4, <1>11, <1>21, RtFinishes
<1> QED  BY <1>16, <1>17, <1>18, <1>19, <1>20, <1>21, Zenon

\* A completion: what it counts as applied is what its job brought, and the
\* state of an instance it deletes goes.
LEMMA RtCompletes ==
  ASSUME RtInv, Runtime!TheNode \in Node, Runtime!SideEffects  PROVE  RtInv'
<1> USE DEF RtInv
<1>1. PICK j \in DOMAIN jobs :
        /\ jobs[j].effect = "pending" /\ jobs' = [jobs EXCEPT ![j].effect = "applied"] /\ Runtime!Answer(j)
        /\ inst' = Runtime!completed(jobs[j].type, jobs[j].status)
        /\ inst'.status = "deleted" => row' = Runtime!NoRow
        /\ inst'.status # "deleted" => row'.by = "job"
  <2>1. PICK j \in DOMAIN jobs :
          /\ jobs[j].effect = "pending" /\ jobs' = [jobs EXCEPT ![j].effect = "applied"] /\ Runtime!Answer(j)
          /\ inst' = Runtime!completed(jobs[j].type, jobs[j].status)
          /\ row' = IF inst'.status = "deleted" THEN Runtime!NoRow
                     ELSE Runtime!jobRow("job", inst', jobs[j].type, jobs[j].status)
    BY Zenon DEF Runtime!SideEffects, Runtime!Job, Runtime!EffectDue, Runtime!EffectDone
  <2>2. PICK i, type, status : i = inst' /\ type = jobs[j].type /\ status = jobs[j].status
    OBVIOUS
  <2>3. Runtime!jobRow("job", i, type, status).by = "job"
    BY RtJobRow
  <2> QED  BY <2>1, <2>2, <2>3
<1>2. UNCHANGED <<node, report, queued, raced>>
  BY DEF Runtime!SideEffects
<1>3. jobs[j] \in RtRow
  BY DEF RtType
<1>4. /\ inst' \in RtInst /\ inst'.cur = inst.cur
      /\ \/ inst'.applied = inst.applied
         \/ inst'.applied = inst.cur /\ jobs[j].status # "failed" /\ jobs[j].type = "instance.apply"
  BY <1>1 DEF Runtime!completed, RtType, RtInst
<1>5. PICK r : r = [jobs[j] EXCEPT !.effect = "applied"]
  OBVIOUS
<1>6. /\ r \in RtRow /\ r.type = jobs[j].type /\ r.payload = jobs[j].payload /\ r.status = jobs[j].status
      /\ ~ApplyDue(r) /\ UnderWay(jobs[j])
  BY <1>1, <1>3, <1>5 DEF RtRow, ApplyDue, UnderWay
<1>7. jobs' = [jobs EXCEPT ![j] = r]
  BY <1>1, <1>5, Zenon
<1>8. /\ jobs' \in Seq(RtRow) /\ DOMAIN jobs' = DOMAIN jobs /\ Len(jobs') = Len(jobs)
      /\ jobs'[j] = r /\ (\A k \in DOMAIN jobs : k # j => jobs'[k] = jobs[k]) /\ RtJobs'
  BY <1>2, <1>4, <1>6, <1>7, RtRewritten
<1>9. PICK n \in Node : n = Runtime!TheNode
  OBVIOUS
<1>10. /\ agent' \in [Node -> RtAgent] /\ agent'[n] = IF agent[n].job = j THEN Runtime!AgentIdle ELSE agent[n]
       /\ agent[n].job # Runtime!NoJob => agent[n].job \in DOMAIN jobs
  BY <1>1, <1>9, RtIdle, RtAgentJob DEF Runtime!Answer, RtType
<1>11. RtWork' /\ (ApplyRun' => ApplyRun) /\ agent'[n].job \in 0..Len(jobs)
  BY <1>8, <1>9, <1>10 DEF RtWork, ApplyRun, Runtime!AgentIdle, Runtime!NoJob, RtType
<1>12. RtType'
  <2>1. inst'.applied <= inst'.cur
    BY <1>4 DEF RtType, RtInst
  <2> QED  BY <1>2, <1>4, <1>8, <1>9, <1>10, <1>11, <2>1 DEF RtType
<1>13. RtNode'
  <2>1. (\E k \in DOMAIN jobs' : ApplyDue(jobs'[k])) => \E k \in DOMAIN jobs : ApplyDue(jobs[k])
    BY <1>6, <1>8
  <2>2. inst'.applied = inst'.cur => inst.applied = inst.cur \/ \E k \in DOMAIN jobs : ApplyDue(jobs[k])
    <3>1. SUFFICES ASSUME inst'.applied = inst.cur, jobs[j].status # "failed", jobs[j].type = "instance.apply"
                   PROVE  ApplyDue(jobs[j])
      BY <1>4
    <3> QED  BY <1>1, <1>3, <3>1 DEF ApplyDue, RtRow
  <2> QED  BY <1>2, <1>4, <1>11, <2>1, <2>2 DEF RtNode
<1>14. RtReport'
  <2>1. report \in RtReports /\ inst.applied <= inst'.applied /\ inst.applied \in Nat /\ inst'.applied \in Nat
    BY <1>4 DEF RtType, RtInst
  <2>2. /\ report.stage \in {"sent", "read"} => report.r.observed \in Nat
        /\ report.stage = "targets" => report.applied \in Nat
    BY <2>1 DEF RtReports, RtSeen, Runtime!NoReport
  <2> QED  BY <1>2, <1>4, <2>1, <2>2 DEF RtReport
<1>15. Runtime!VerdictHolds' /\ Runtime!DeletedHasNoState'
  BY <1>1 DEF Runtime!VerdictHolds, Runtime!HealthyIsServing, Runtime!InSyncIsCurrent, Runtime!DeletedHasNoState,
              Runtime!NoRow
<1> QED  BY <1>8, <1>11, <1>12, <1>13, <1>14, <1>15
-----------------------------------------------------------------------------
(* The report. *)

\* A report by its stage.
LEMMA RtStages ==
  ASSUME RtType
  PROVE  /\ report.stage \in {"none", "targets", "sent", "read", "wrote"}
         /\ report.stage = "none" => report = Runtime!NoReport
         /\ report.stage = "targets" => report \in [stage : {"targets"}, waits : BOOLEAN, applied : Nat]
         /\ report.stage = "sent" => report \in [stage : {"sent", "wrote"}, waits : BOOLEAN, r : RtSeen]
         /\ report.stage = "read" => report \in [stage : {"read", "wrote"}, waits : BOOLEAN, r : RtSeen, i : RtInst]
         /\ report.stage = "wrote" => \/ report \in [stage : {"sent", "wrote"}, waits : BOOLEAN, r : RtSeen]
                                      \/ report \in [stage : {"read", "wrote"}, waits : BOOLEAN, r : RtSeen, i : RtInst]
  BY DEF RtType, RtReports, Runtime!NoReport

\* A step of the report alone.
LEMMA RtReportStep ==
  ASSUME RtInv, UNCHANGED <<inst, node, row, queued, raced, jobs, agent>>,
         report' \in RtReports, report' # Runtime!NoReport, RtReport'
  PROVE  RtInv'
<1> USE DEF RtInv
<1>1. RtType' /\ RtJobs' /\ RtWork' /\ (ApplyRun' <=> ApplyRun)
  BY DEF RtType, RtJobs, RtWork, ApplyRun
<1>2. RtNode'
  BY <1>1 DEF RtNode
<1>3. Runtime!VerdictHolds' /\ Runtime!DeletedHasNoState'
  BY DEF Runtime!VerdictHolds, Runtime!HealthyIsServing, Runtime!InSyncIsCurrent, Runtime!DeletedHasNoState
<1> QED  BY <1>1, <1>2, <1>3

\* The targets of a report, and what it collects: the revision it names is on
\* the node if it is the current one.
LEMMA RtCollects ==
  ASSUME RtInv, Runtime!ReportTargets \/ Runtime!collectInstanceRuntimeReport  PROVE  RtInv'
<1> USE DEF RtInv
<1>1. UNCHANGED <<inst, node, row, queued, raced, jobs, agent>>
  BY DEF Runtime!ReportTargets, Runtime!collectInstanceRuntimeReport, Runtime!jobVars
<1>2. inst \in RtInst /\ inst.applied \in Nat /\ inst.cur \in Nat /\ inst.applied <= inst.cur
  BY DEF RtType, RtInst
<1>3. CASE Runtime!ReportTargets
  <2>1. report' = [stage |-> "targets", waits |-> TRUE, applied |-> inst.applied]
    BY <1>3 DEF Runtime!ReportTargets
  <2>2. report' \in RtReports /\ report' # Runtime!NoReport
    BY <1>2, <2>1 DEF RtReports, Runtime!NoReport
  <2>3. RtReport'
    BY <1>1, <1>2, <2>1 DEF RtReport
  <2> QED  BY <1>1, <2>2, <2>3, RtReportStep
<1>4. CASE Runtime!collectInstanceRuntimeReport
  <2>1. PICK o : o = IF node.rev # 0 THEN report.applied ELSE 0
    OBVIOUS
  <2>2. PICK r : r = [rev |-> node.rev, unit |-> node.unit, port |-> node.port, observed |-> o]
    OBVIOUS
  <2>3. report.stage = "targets" /\ report' = [stage |-> "sent", waits |-> TRUE, r |-> r]
    BY <1>4, <2>1, <2>2, Zenon DEF Runtime!collectInstanceRuntimeReport
  <2>4. report.applied \in Nat /\ report.applied <= inst.applied
    BY <2>3, RtStages DEF RtReport
  <2>5. o \in Nat /\ o <= inst.applied /\ (o # 0 => node.rev # 0)
    BY <1>2, <2>1, <2>4
  <2>6. r \in RtSeen /\ r.observed = o /\ r.rev = node.rev
    BY <2>2, <2>5 DEF RtSeen, RtType
  <2>7. report' \in RtReports /\ report' # Runtime!NoReport
    BY <2>3, <2>6 DEF RtReports, Runtime!NoReport
  <2>8. ~raced /\ o # 0 /\ o = inst.cur => node.rev = inst.cur
    BY <1>2, <2>5 DEF RtNode
  <2>9. report'.stage = "sent" /\ report'.r = r
    BY <2>3
  <2>10. RtReport'
    BY <1>1, <2>5, <2>6, <2>8, <2>9 DEF RtReport
  <2> QED  BY <1>1, <2>7, <2>10, RtReportStep
<1> QED  BY <1>3, <1>4

\* The agent gives up on its report, or the control plane reads the instance:
\* what the report holds of the current revision, it holds of the one read.
LEMMA RtReads ==
  ASSUME RtInv, Runtime!ReportTimeout \/ Runtime!ReportReads  PROVE  RtInv'
<1> USE DEF RtInv
<1>1. UNCHANGED <<inst, node, row, queued, raced, jobs, agent>>
  BY DEF Runtime!ReportTimeout, Runtime!ReportReads, Runtime!jobVars
<1>2. inst \in RtInst
  BY DEF RtType
<1>3. CASE Runtime!ReportTimeout
  <2>1. report.stage \in {"sent", "read", "wrote"} /\ report' = [report EXCEPT !.waits = FALSE]
    BY <1>3 DEF Runtime!ReportTimeout
  <2>2. CASE report \in [stage : {"sent", "wrote"}, waits : BOOLEAN, r : RtSeen]
    <3>1. /\ report' \in [stage : {"sent", "wrote"}, waits : BOOLEAN, r : RtSeen]
          /\ report'.stage = report.stage /\ report'.r = report.r /\ report.stage # "read"
      BY <2>1, <2>2
    <3>2. report' \in RtReports /\ report' # Runtime!NoReport
      BY <2>1, <3>1 DEF RtReports, Runtime!NoReport
    <3>3. RtReport'
      BY <1>1, <2>1, <3>1 DEF RtReport
    <3> QED  BY <1>1, <3>2, <3>3, RtReportStep
  <2>3. CASE report \in [stage : {"read", "wrote"}, waits : BOOLEAN, r : RtSeen, i : RtInst]
    <3>1. /\ report' \in [stage : {"read", "wrote"}, waits : BOOLEAN, r : RtSeen, i : RtInst]
          /\ report'.stage = report.stage /\ report'.r = report.r /\ report'.i = report.i
      BY <2>1, <2>3
    <3>2. report' \in RtReports /\ report' # Runtime!NoReport
      BY <2>1, <3>1 DEF RtReports, Runtime!NoReport
    <3>3. RtReport'
      BY <1>1, <2>1, <3>1 DEF RtReport
    <3> QED  BY <1>1, <3>2, <3>3, RtReportStep
  <2> QED  BY <2>1, <2>2, <2>3, RtStages
<1>4. CASE Runtime!ReportReads
  <2>1. report.stage = "sent" /\ report \in [stage : {"sent", "wrote"}, waits : BOOLEAN, r : RtSeen]
    BY <1>4, RtStages DEF Runtime!ReportReads
  <2>2. CASE inst.status = "deleted"
    <3>1. report' = [report EXCEPT !.stage = "wrote"]
      BY <1>4, <2>2, Zenon DEF Runtime!ReportReads
    <3>2. report' \in [stage : {"sent", "wrote"}, waits : BOOLEAN, r : RtSeen] /\ report'.stage = "wrote"
      BY <2>1, <3>1
    <3>3. report' \in RtReports /\ report' # Runtime!NoReport /\ RtReport'
      BY <3>2 DEF RtReports, Runtime!NoReport, RtReport
    <3> QED  BY <1>1, <3>3, RtReportStep
  <2>3. CASE inst.status # "deleted"
    <3>1. report' = [stage |-> "read", waits |-> report.waits, r |-> report.r, i |-> inst]
      BY <1>4, <2>3, Zenon DEF Runtime!ReportReads
    <3>2. report' \in [stage : {"read", "wrote"}, waits : BOOLEAN, r : RtSeen, i : RtInst]
      BY <1>2, <2>1, <3>1
    <3>3. report' \in RtReports /\ report' # Runtime!NoReport
      BY <3>1, <3>2 DEF RtReports, Runtime!NoReport
    <3>4. report'.stage = "read" /\ report'.r = report.r /\ report'.i = inst
      BY <3>1
    <3>5. RtReport'
      BY <1>1, <2>1, <3>4 DEF RtReport
    <3> QED  BY <1>1, <3>3, <3>5, RtReportStep
  <2> QED  BY <2>2, <2>3
<1> QED  BY <1>3, <1>4

\* The row the report writes: true of what the agent saw.
LEMMA RtWrites ==
  ASSUME RtInv, Runtime!ReportWrites  PROVE  RtInv'
<1> USE DEF RtInv
<1>1. UNCHANGED <<inst, node, queued, raced, jobs, agent>>
  BY DEF Runtime!ReportWrites, Runtime!jobVars
<1>2. /\ report.stage = "read" /\ report' = [report EXCEPT !.stage = "wrote"]
      /\ report \in [stage : {"read", "wrote"}, waits : BOOLEAN, r : RtSeen, i : RtInst]
  BY RtStages DEF Runtime!ReportWrites
<1>3. /\ report' \in [stage : {"read", "wrote"}, waits : BOOLEAN, r : RtSeen, i : RtInst]
      /\ report'.stage = "wrote"
  BY <1>2
<1>4. report' \in RtReports /\ report' # Runtime!NoReport /\ RtReport'
  BY <1>3 DEF RtReports, Runtime!NoReport, RtReport
<1>5. PICK i \in RtInst, r \in RtSeen : i = report.i /\ r = report.r
  BY <1>2
<1>6. /\ row'.by = "agent" /\ row'.cur = i.cur /\ row'.seen = r
      /\ row'.stopped = Runtime!desiredInstanceStopped(i)
      /\ row'.health = Runtime!healthStatusFromAgentReport(i, r)
      /\ row'.drift = Runtime!driftStatusFromAgentReport(i, r)
  BY <1>5 DEF Runtime!ReportWrites
<1>7. Runtime!HealthyIsServing'
  <2>1. SUFFICES ASSUME Runtime!healthStatusFromAgentReport(i, r) = "healthy"
                 PROVE  /\ r.rev # 0 /\ r.port /\ ~row'.stopped
                        /\ r.unit = "active" \/ (OpenVPN /\ r.unit \in Runtime!Transition /\ row'.drift = "in_sync")
    BY <1>6 DEF Runtime!HealthyIsServing
  <2> QED  BY <1>6, <2>1, RtHealthy
<1>8. Runtime!InSyncIsCurrent'
  <2>1. SUFFICES ASSUME Runtime!driftStatusFromAgentReport(i, r) = "in_sync", ~raced, r.observed # 0
                 PROVE  r.rev = i.cur
    BY <1>1, <1>6 DEF Runtime!InSyncIsCurrent
  <2>2. r.observed = i.cur
    BY <2>1, RtInSync
  <2> QED  BY <1>2, <1>5, <2>1, <2>2 DEF RtReport
<1>9. RtType' /\ RtJobs' /\ RtWork' /\ (ApplyRun' <=> ApplyRun)
  BY <1>1, <1>4 DEF RtType, RtJobs, RtWork, ApplyRun
<1>10. RtNode' /\ Runtime!DeletedHasNoState'
  BY <1>1, <1>4, <1>9 DEF RtNode, Runtime!DeletedHasNoState
<1> QED  BY <1>4, <1>7, <1>8, <1>9, <1>10 DEF Runtime!VerdictHolds

\* The end of the request: the row of a deleted instance goes.
LEMMA RtEnds ==
  ASSUME RtInv, Runtime!ReportEnds  PROVE  RtInv'
<1> USE DEF RtInv
<1>1. UNCHANGED <<inst, node, queued, raced, jobs, agent>> /\ report' = Runtime!NoReport
  BY DEF Runtime!ReportEnds, Runtime!jobVars
<1>2. row' = row \/ row' = Runtime!NoRow
  BY DEF Runtime!ReportEnds, Runtime!deleteOrphanInstanceRuntimeRows
<1>3. inst.status = "deleted" => row' = Runtime!NoRow
  BY DEF Runtime!ReportEnds, Runtime!deleteOrphanInstanceRuntimeRows
<1>4. RtType' /\ RtJobs' /\ RtWork' /\ (ApplyRun' <=> ApplyRun)
  BY <1>1 DEF RtType, RtReports, RtJobs, RtWork, ApplyRun
<1>5. RtNode' /\ RtReport'
  BY <1>1, <1>4 DEF RtNode, RtReport, Runtime!NoReport
<1>6. Runtime!VerdictHolds'
  <2>1. CASE row' = row
    BY <1>1, <2>1 DEF Runtime!VerdictHolds, Runtime!HealthyIsServing, Runtime!InSyncIsCurrent
  <2>2. CASE row' = Runtime!NoRow
    <3>1. row'.by # "agent"
      BY <2>2 DEF Runtime!NoRow
    <3> QED  BY <3>1 DEF Runtime!VerdictHolds, Runtime!HealthyIsServing, Runtime!InSyncIsCurrent
  <2> QED  BY <1>2, <2>1, <2>2
<1>7. Runtime!DeletedHasNoState'
  BY <1>1, <1>3 DEF Runtime!DeletedHasNoState
<1> QED  BY <1>4, <1>5, <1>6, <1>7

-----------------------------------------------------------------------------
(* Every step, and the theorems. *)

\* Every step of the runtime states keeps RtInv.
LEMMA RtStep ==
  ASSUME Runtime!TheNode \in Node, RtInv, [Runtime!Next]_(Runtime!vars)  PROVE  RtInv'
<1>1. CASE Runtime!NewRevision
  BY <1>1, RtRevises
<1>2. CASE Runtime!QueueApply \/ Runtime!QueueDisable \/ Runtime!DeleteInstance
  BY <1>2, RtQueues
<1>3. CASE Runtime!QueuedWrites \/ Runtime!UnitChanges
  BY <1>3, RtQuiet
<1>4. CASE Runtime!AgentClaim \/ Runtime!AgentSubmits \/ Runtime!Faults
  BY <1>4, RtQueueSteps
<1>5. CASE Runtime!AgentWorks
  BY <1>5, RtWorks
<1>6. CASE Runtime!SideEffects
  BY <1>6, RtCompletes
<1>7. CASE Runtime!ReportTargets \/ Runtime!collectInstanceRuntimeReport
  BY <1>7, RtCollects
<1>8. CASE Runtime!ReportTimeout \/ Runtime!ReportReads
  BY <1>8, RtReads
<1>9. CASE Runtime!ReportWrites
  BY <1>9, RtWrites
<1>10. CASE Runtime!ReportEnds
  BY <1>10, RtEnds
<1>11. CASE UNCHANGED Runtime!vars
  BY <1>11 DEF Runtime!vars, RtInv, RtType, RtJobs, RtWork, ApplyRun, RtNode, RtReport, Runtime!VerdictHolds,
               Runtime!HealthyIsServing, Runtime!InSyncIsCurrent, Runtime!DeletedHasNoState
<1> QED  BY <1>1, <1>2, <1>3, <1>4, <1>5, <1>6, <1>7, <1>8, <1>9, <1>10, <1>11 DEF Runtime!Next

\* Every reachable state of the runtime states has RtInv.
LEMMA RtAlways ==
  ASSUME Node # {}
  PROVE  /\ Runtime!Spec => []RtInv
         /\ Spec => [](part = "runtime" => RtInv)
<1>1. Runtime!TheNode \in Node
  BY DEF Runtime!TheNode
<1>2. Runtime!Init => RtInv
  BY <1>1, RtInitially
<1>3. RtInv /\ [Runtime!Next]_Runtime!vars => RtInv'
  BY <1>1, RtStep
<1>4. Runtime!Spec => []RtInv
  BY <1>2, <1>3, PTL DEF Runtime!Spec
<1> DEFINE Here == part = "runtime" => RtInv
<1>5. Init => Here
  BY <1>2, RuntimeBegins
<1>6. Here /\ [Next]_vars => Here'
  BY <1>3, RuntimeGoesOn
<1>7. Spec => []Here
  BY <1>5, <1>6, PTL DEF Spec
<1> QED  BY <1>4, <1>7

\* The verdict a report writes on an instance is true of what the agent saw:
\* one shown as healthy was serving, and one shown as in sync had the current
\* revision on the node, however late upsertInstanceRuntimeStateForAgentReport
\* ran and whatever jobs, completions and crashes came between.
THEOREM VerdictsAreTrue ==
  ASSUME Node # {}
  PROVE  /\ Runtime!Spec => []Runtime!VerdictHolds
         /\ Spec => []VerdictHolds
<1>1. RtInv => Runtime!VerdictHolds
  BY DEF RtInv
<1>2. (part = "runtime" => RtInv) => VerdictHolds
  BY <1>1 DEF VerdictHolds
<1>3. Runtime!Spec => []Runtime!VerdictHolds
  BY <1>1, RtAlways, PTL
<1>4. Spec => []VerdictHolds
  BY <1>2, RtAlways, PTL
<1> QED  BY <1>3, <1>4

\* A deleted instance has no runtime state once no report is under way: a
\* report that had read the instance before it was deleted ends with
\* deleteOrphanInstanceRuntimeRows.
THEOREM DeletedLeavesNoState ==
  ASSUME Node # {}
  PROVE  /\ Runtime!Spec => []Runtime!DeletedHasNoState
         /\ Spec => []DeletedHasNoState
<1>1. RtInv => Runtime!DeletedHasNoState
  BY DEF RtInv
<1>2. (part = "runtime" => RtInv) => DeletedHasNoState
  BY <1>1 DEF DeletedHasNoState
<1>3. Runtime!Spec => []Runtime!DeletedHasNoState
  BY <1>1, RtAlways, PTL
<1>4. Spec => []DeletedHasNoState
  BY <1>2, RtAlways, PTL
<1> QED  BY <1>3, <1>4

-----------------------------------------------------------------------------
-----------------------------------------------------------------------------
(* Installs of runtimes. *)

\* Only an install has dependents, and a completion is due of a job that has
\* ended.
CapRow ==
  {q \in [type : {"install", "verify", "inventory", "apply"}, node : {Caps!TheNode},
          scope : Instance \cup {Caps!TheNode},
          payload : [by : {"none", "binary_repository", "ubuntu_repo", "nginx_org_repo"},
                     deps : SUBSET Instance, ticket : Nat],
          priority : Nat, status : {"queued", "running", "succeeded", "failed", "cancelled"},
          effect : {"none", "pending", "dependents", "applied", "lost"}] :
     /\ q.type = "install" => q.payload.by # "none"
     /\ q.type # "install" => q.payload.deps = {}
     /\ IsFiniteSet(q.payload.deps)
     /\ q.effect = "none" <=> q.status \in {"queued", "running", "cancelled"}}

\* What is left of an install: with the guard in place, and in all.
Guarded == {<<"install", "verify", "sync">>, <<"verify", "sync">>}

InstallTodo ==
  Guarded \cup
  {<<"update", "guard", "install", "verify", "sync">>, <<"guard", "install", "verify", "sync">>,
   <<"download", "copy", "verify", "sync">>, <<"copy", "verify", "sync">>,
   <<"repository", "install", "enable", "verify", "sync">>,
   <<"update", "purge", "install", "enable", "verify", "sync">>,
   <<"purge", "install", "enable", "verify", "sync">>,
   <<"install", "enable", "verify", "sync">>, <<"enable", "verify", "sync">>, <<"sync">>}

CapAgent ==
  [job : Nat, todo : InstallTodo \cup {<<>>, <<"apply">>}, warned : BOOLEAN,
   result : {"none", "succeeded", "failed", "sent"}]

CapRun ==
  [by : {"none", "binary_repository", "ubuntu_repo", "nginx_org_repo", "nginx_ubuntu_repo",
         "verify", "inventory", "apply"},
   ok : BOOLEAN, made : BOOLEAN]

CapAt == agent[Caps!TheNode]
CapJob == jobs[CapAt.job]

CapType ==
  /\ jobs \in Seq(CapRow)
  /\ agent \in [Node -> CapAgent]
  /\ CapAt.job \in 0..Len(jobs)
  /\ CapAt.result # "none" => CapAt.job # 0
  /\ run \in CapRun
  /\ call \in [Instance -> [pc : {"idle", "find", "create", "merge", "mark", "status"}, job : Nat]]
  /\ owed \subseteq Instance
  /\ faults \in Nat

\* A call that is to join an install has found one.
CapCalls ==
  \A i \in Instance : call[i].pc = "merge" => call[i].job \in DOMAIN jobs /\ jobs[call[i].job].type = "install"

\* An install that still has to answer, or whose completion a crash took.
CapOpen(q) ==
  q.type = "install" /\ (q.status \in {"queued", "running"} \/ q.effect \in {"pending", "dependents", "lost"})

\* Whoever is owed an answer is with an open install.
CapOwed ==
  \A i \in owed : \E j \in DOMAIN jobs : CapOpen(jobs[j]) /\ i \in jobs[j].payload.deps

CapMade == run.made => policy = "agent"

CapDue(q) == q.effect \in {"pending", "dependents"}

\* The agent's guard is in place only while an install that put it there is
\* before the end of its verification.
CapGuard ==
  /\ policy = "agent" => run.made
  /\ run.made => CapAt.job # 0 /\ CapAt.result = "none" /\ CapAt.todo \in Guarded

\* A handler's job runs until its result is sent, and the agent waits for what
\* follows: no other completion is due.
CapWork ==
  /\ CapAt.job # 0 /\ CapAt.result # "sent" => CapJob.status = "running"
  /\ \A j \in DOMAIN jobs : CapDue(jobs[j]) => CapAt.job = j /\ CapAt.result = "sent"

\* What a handler has left to do, by the type of its job; past a verification
\* that went well the runtime is there.
CapDoes ==
  CapAt.job # 0 /\ CapAt.result = "none" =>
    /\ CapJob.type = "apply" => CapAt.todo = <<"apply">>
    /\ CapJob.type = "verify" => run.by = "verify" /\ CapAt.todo \in {<<"verify", "sync">>, <<"sync">>}
    /\ CapJob.type = "inventory" => run.by = "inventory" /\ CapAt.todo = <<"sync">>
    /\ CapJob.type = "install" => CapAt.todo \in InstallTodo
    /\ CapJob.type \in {"install", "verify"} /\ CapAt.todo = <<"sync">> /\ run.ok => present

\* An install or a verification that went well found the runtime there.
CapDone ==
  /\ CapAt.job # 0 /\ CapJob.type \in {"install", "verify"}
  /\ CapAt.result = "succeeded" \/ (CapAt.result = "sent" /\ CapJob.status = "succeeded")
  => present

\* The row is only ahead of the node while an install is under way whose
\* completion will write it.
CapAvail ==
  cap = Caps!Row("available", "installer") /\ ~present =>
    CapAt.job # 0 /\ CapJob.type = "install" /\ CapJob.effect \in {"none", "pending"}

CapCalm == CapGuard /\ CapWork /\ CapDoes /\ CapDone /\ CapAvail

CapInv == CapType /\ CapCalls /\ CapOwed /\ CapMade /\ (faults = 0 => CapCalm)

-----------------------------------------------------------------------------
(* Sequences of rows. *)

\* One row rewritten.
LEMMA CapRewritten ==
  ASSUME NEW K \in Seq(CapRow), NEW j \in DOMAIN K, NEW r \in CapRow
  PROVE  /\ [K EXCEPT ![j] = r] \in Seq(CapRow) /\ DOMAIN [K EXCEPT ![j] = r] = DOMAIN K
         /\ Len([K EXCEPT ![j] = r]) = Len(K)
         /\ [K EXCEPT ![j] = r][j] = r /\ \A k \in DOMAIN K : k # j => [K EXCEPT ![j] = r][k] = K[k]
<1>1. j \in 1..Len(K)
  OBVIOUS
<1>2. [K EXCEPT ![j] = r] \in Seq(CapRow) /\ Len([K EXCEPT ![j] = r]) = Len(K)
  BY <1>1, ExceptSeq
<1> QED  BY <1>1, <1>2

\* Rows appended.
LEMMA CapJoined ==
  ASSUME NEW K \in Seq(CapRow), NEW L \in Seq(CapRow)
  PROVE  /\ K \o L \in Seq(CapRow) /\ DOMAIN K \subseteq DOMAIN (K \o L) /\ Len(K) <= Len(K \o L)
         /\ \A k \in DOMAIN K : (K \o L)[k] = K[k]
         /\ \A k \in DOMAIN (K \o L) \ DOMAIN K : \E l \in DOMAIN L : (K \o L)[k] = L[l]
<1>1. /\ K \o L \in Seq(CapRow) /\ Len(K \o L) = Len(K) + Len(L)
      /\ \A i \in 1..Len(K) + Len(L) : (K \o L)[i] = IF i <= Len(K) THEN K[i] ELSE L[i - Len(K)]
  BY ConcatProperties
<1>2. Len(K) \in Nat /\ Len(L) \in Nat /\ DOMAIN K = 1..Len(K) /\ DOMAIN L = 1..Len(L)
      /\ DOMAIN (K \o L) = 1..Len(K) + Len(L)
  BY <1>1
<1>3. \A k \in DOMAIN K : (K \o L)[k] = K[k]
  BY <1>1, <1>2
<1>4. \A k \in DOMAIN (K \o L) \ DOMAIN K : k - Len(K) \in DOMAIN L /\ (K \o L)[k] = L[k - Len(K)]
  BY <1>1, <1>2
<1> QED  BY <1>1, <1>2, <1>3, <1>4

\* The applies of finitely many instances.
LEMMA CapApplies ==
  ASSUME NEW D \in SUBSET Instance, IsFiniteSet(D)
  PROVE  /\ Caps!Applies(D) \in Seq(CapRow)
         /\ \A n \in DOMAIN Caps!Applies(D) : Caps!Applies(D)[n].status = "queued"
<1>1. PICK c \in Nat : c = Cardinality(D) /\ ExistsBijection(1..c, D)
  BY FS_CardinalityType
<1>2. Caps!Cardinality(D) = c
  BY <1>1, Zenon DEF Cardinality, Caps!Cardinality
<1>3. Caps!SetToSeq(D) \in [1..c -> D]
  <2>1. PICK f : f \in Bijection(1..c, D)
    BY <1>1 DEF ExistsBijection
  <2>2. f \in [1..c -> D] /\ Caps!IsInjective(f)
    BY <2>1 DEF Bijection, Injection, Surjection, IsInjective, Caps!IsInjective
  <2> QED  BY <1>2, <2>2, Zenon DEF Caps!SetToSeq
<1>4. PICK s \in [1..c -> D] : s = Caps!SetToSeq(D)
  BY <1>3
<1> DEFINE job(x) == Caps!newJob("apply", Caps!TheNode, x, [by |-> "none", deps |-> {}, ticket |-> Caps!NoJob], 100)
<1>5. Caps!Applies(D) = [n \in 1..c |-> job(s[n])]
  BY <1>2, <1>4, Zenon DEF Caps!Applies
<1>6. \A x \in D : job(x) \in CapRow /\ job(x).status = "queued"
  BY FS_EmptySet DEF Caps!newJob, CapRow, Caps!NoJob
<1> HIDE DEF job
<1>7. [n \in 1..c |-> job(s[n])] \in [1..c -> CapRow]
  BY <1>6
<1>8. PICK q \in [1..c -> CapRow] : q = Caps!Applies(D)
  BY <1>5, <1>7
<1>9. q \in Seq(CapRow) /\ DOMAIN q = 1..c /\ \A n \in 1..c : q[n].status = "queued"
  BY <1>5, <1>6, <1>8
<1> QED  BY <1>8, <1>9

\* The youngest of the installs under way.
LEMMA CapYoungest ==
  ASSUME NEW n \in Nat, NEW S \in SUBSET (1..n), S # {}
  PROVE  (CHOOSE j \in S : \A k \in S : k <= j) \in S
<1> DEFINE T == {m \in Nat : n - m \in S}
<1>1. PICK k \in S : k \in 1..n
  OBVIOUS
<1>2. n - k \in Nat /\ n - (n - k) = k
  BY <1>1
<1>3. T \subseteq Nat /\ T # {}
  BY <1>2
<1>4. PICK R : R = {ss \in Nat \X Nat : ss[1] < ss[2]} /\ IsWellFoundedOn(R, Nat)
  BY NatLessThanWellFounded, Zenon DEF OpToRel
<1>5. PICK x \in T : \A y \in T : ~(<<y, x>> \in R)
  BY <1>3, <1>4, WFMin
<1>6. \A i \in S : n - i \in T
  BY <1>1
<1>7. \A i \in S : ~(n - i < x)
  BY <1>4, <1>5, <1>6
<1>8. n - x \in S /\ \A i \in S : i <= n - x
  BY <1>5, <1>7
<1> QED  BY <1>8

-----------------------------------------------------------------------------
(* Calls and dependents. *)

\* Jobs are never removed and keep their type.
CapGrow == DOMAIN jobs \subseteq DOMAIN jobs' /\ \A j \in DOMAIN jobs : jobs'[j].type = jobs[j].type

\* A call keeps the install it has found.
LEMMA CapCallsKept ==
  ASSUME CapCalls, CapGrow, \A i \in Instance : call'[i].pc = "merge" => call'[i] = call[i]
  PROVE  CapCalls'
  BY DEF CapCalls, CapGrow

\* Whoever is still owed an answer is so by an install that stays open, or by
\* one that is open now.
LEMMA CapOwedKept ==
  ASSUME CapOwed, CapGrow,
         \A i \in owed' : \/ \E j \in DOMAIN jobs' : CapOpen(jobs'[j]) /\ i \in jobs'[j].payload.deps
                          \/ /\ i \in owed
                             /\ \A j \in DOMAIN jobs : CapOpen(jobs[j]) /\ i \in jobs[j].payload.deps
                                  => CapOpen(jobs'[j]) /\ i \in jobs'[j].payload.deps
  PROVE  CapOwed'
  BY DEF CapOwed, CapGrow

\* The job of the agent.
LEMMA CapAgentJob ==
  ASSUME CapType, Caps!TheNode \in Node
  PROVE  /\ CapAt \in CapAgent /\ Len(jobs) \in Nat /\ DOMAIN jobs = 1..Len(jobs)
         /\ CapAt.job # 0 => CapAt.job \in DOMAIN jobs /\ CapJob \in CapRow
  BY DEF CapType, CapAt, CapJob

\* A step away from the node: jobs are added, waiting jobs are cancelled, and
\* the row does not become available.
LEMMA CapDesk ==
  ASSUME CapInv, Caps!TheNode \in Node, UNCHANGED <<agent, present, policy, run, faults>>,
         jobs' \in Seq(CapRow), DOMAIN jobs \subseteq DOMAIN jobs',
         \A j \in DOMAIN jobs :
           /\ jobs'[j].type = jobs[j].type /\ jobs'[j].effect = jobs[j].effect
           /\ jobs'[j].status = jobs[j].status \/ (jobs[j].status = "queued" /\ jobs'[j].status = "cancelled"),
         \A j \in DOMAIN jobs' \ DOMAIN jobs : jobs'[j].effect = "none",
         cap' = cap \/ cap' # Caps!Row("available", "installer"),
         call' \in [Instance -> [pc : {"idle", "find", "create", "merge", "mark", "status"}, job : Nat]],
         owed' \subseteq Instance, CapCalls', CapOwed'
  PROVE  CapInv'
<1> USE DEF CapInv
<1>1. /\ CapAt \in CapAgent /\ Len(jobs) \in Nat /\ DOMAIN jobs = 1..Len(jobs) /\ CapAt' = CapAt
      /\ CapAt.job # 0 => CapAt.job \in DOMAIN jobs
  BY CapAgentJob DEF CapAt
<1>2. CapType'
  <2>1. Len(jobs') \in Nat /\ DOMAIN jobs' = 1..Len(jobs') /\ Len(jobs) <= Len(jobs')
    BY <1>1
  <2>2. CapAt'.job \in 0..Len(jobs') /\ (CapAt'.result # "none" => CapAt'.job # 0)
    BY <1>1, <2>1 DEF CapType
  <2> QED  BY <2>2 DEF CapType
<1>3. CapMade'
  BY DEF CapMade
<1>4. ASSUME faults = 0  PROVE CapCalm'
  <2> USE <1>4 DEF CapCalm
  <2>1. CapGuard'
    BY <1>1 DEF CapGuard
  <2>2. CapWork'
    BY <1>1 DEF CapWork, CapJob, CapDue
  <2>3. CapDoes' /\ CapDone'
    BY <1>1 DEF CapDoes, CapDone, CapJob
  <2>4. CapAvail'
    BY <1>1 DEF CapAvail, CapJob
  <2> QED  BY <2>1, <2>2, <2>3, <2>4
<1> QED  BY <1>2, <1>3, <1>4

\* A row is appended, with dependents or without.
LEMMA CapAppends ==
  ASSUME CapInv, Caps!TheNode \in Node, UNCHANGED <<agent, present, policy, run, faults>>,
         NEW r \in CapRow, r.status = "queued", jobs' = Append(jobs, r),
         cap' = cap \/ cap' # Caps!Row("available", "installer"),
         call' \in [Instance -> [pc : {"idle", "find", "create", "merge", "mark", "status"}, job : Nat]],
         \A i \in Instance : call'[i].pc = "merge" => call'[i] = call[i],
         owed' = owed \cup r.payload.deps
  PROVE  CapInv'
<1> USE DEF CapInv
<1>1. /\ jobs' \in Seq(CapRow) /\ DOMAIN jobs' = DOMAIN jobs \cup {Len(jobs) + 1}
      /\ jobs'[Len(jobs) + 1] = r /\ \A j \in DOMAIN jobs : jobs'[j] = jobs[j]
  BY Appended DEF CapType
<1>2. CapGrow
  BY <1>1 DEF CapGrow
<1>3. r.effect = "none" /\ r.payload.deps \subseteq Instance /\ (r.type # "install" => r.payload.deps = {})
  BY DEF CapRow
<1>4. CapOwed'
  <2>1. \A i \in r.payload.deps : CapOpen(jobs'[Len(jobs) + 1]) /\ i \in jobs'[Len(jobs) + 1].payload.deps
    BY <1>1, <1>3 DEF CapOpen
  <2> QED  BY <1>1, <1>2, <2>1, CapOwedKept
<1>5. CapCalls'
  BY <1>2, CapCallsKept
<1> QED  BY <1>1, <1>3, <1>4, <1>5, CapDesk DEF CapType

\* The jobs stay as they are.
LEMMA CapTurns ==
  ASSUME CapInv, Caps!TheNode \in Node, UNCHANGED <<jobs, agent, present, policy, run, faults>>,
         cap' = cap \/ cap' # Caps!Row("available", "installer"), owed' = owed,
         call' \in [Instance -> [pc : {"idle", "find", "create", "merge", "mark", "status"}, job : Nat]],
         CapCalls'
  PROVE  CapInv'
<1>1. CapOwed' /\ owed' \subseteq Instance /\ jobs' \in Seq(CapRow)
  BY DEF CapInv, CapOwed, CapType
<1> QED  BY <1>1, CapDesk

-----------------------------------------------------------------------------
(* The requests. *)

\* A request goes on to its next statement, or is over.
LEMMA CapPc ==
  ASSUME CapType, NEW i \in Instance, NEW pc \in {"idle", "find", "create", "mark", "status"},
         call' = [call EXCEPT ![i].pc = pc]
  PROVE  /\ call' \in [Instance -> [pc : {"idle", "find", "create", "merge", "mark", "status"}, job : Nat]]
         /\ \A k \in Instance : call'[k].pc = "merge" => call'[k] = call[k]
  BY DEF CapType

\* The row of an install.
LEMMA CapNewInstall ==
  ASSUME CapType, NEW asked \in {"none", "ubuntu_repo"}, NEW D \in SUBSET Instance, IsFiniteSet(D),
         Caps!createCapabilityInstallJob(asked, D)
  PROVE  \E r \in CapRow : r.status = "queued" /\ jobs' = Append(jobs, r) /\ r.payload.deps = D
<1>1. PICK t \in Nat : t = IF artifact /\ ~nginx THEN Caps!NextId ELSE Caps!NoJob
  <2>1. Caps!NextId \in Nat /\ Caps!NoJob \in Nat
    <3>1. Len(jobs) \in Nat
      BY DEF CapType
    <3> QED  BY <3>1 DEF Caps!NextId, Caps!NoJob
  <2> QED  BY <2>1, Zenon
<1>2. PICK by \in {"binary_repository", "ubuntu_repo", "nginx_org_repo"} : by = Caps!strategyOf(asked)
  BY DEF Caps!strategyOf
<1>3. jobs' = Append(jobs, Caps!newJob("install", Caps!TheNode, Caps!TheNode, [by |-> by, deps |-> D, ticket |-> t], 60))
  BY <1>1, <1>2, Zenon DEF Caps!createCapabilityInstallJob, Caps!QueueAt
<1>4. PICK r : r = Caps!newJob("install", Caps!TheNode, Caps!TheNode, [by |-> by, deps |-> D, ticket |-> t], 60)
  OBVIOUS
<1>5. r \in CapRow /\ r.status = "queued" /\ r.payload.deps = D
  BY <1>4 DEF Caps!newJob, CapRow
<1> QED  BY <1>3, <1>4, <1>5

\* A job that waits has no completion.
LEMMA CapWaiting ==
  \A q \in CapRow : q.status = "queued" => q.effect = "none"
  BY DEF CapRow

\* An install that is not available yet.
LEMMA CapInstalling == Caps!Row("installing", "installer") # Caps!Row("available", "installer")
  BY DEF Caps!Row

\* UpdateInstanceStatus begins: its apply is queued, or put off.
LEMMA CapUpdates ==
  ASSUME CapInv, Caps!TheNode \in Node, NEW i \in Instance, Caps!UpdateInstanceStatus(i)
  PROVE  CapInv'
<1> USE DEF CapInv
<1>1. UNCHANGED <<cap, present, policy, run, owed, agent, faults>>
  BY DEF Caps!UpdateInstanceStatus
<1>2. CASE Caps!runtimeCapabilityInstallNeeded
  <2>1. call' = [call EXCEPT ![i].pc = "find"] /\ UNCHANGED jobs
    BY <1>2 DEF Caps!UpdateInstanceStatus
  <2>2. /\ call' \in [Instance -> [pc : {"idle", "find", "create", "merge", "mark", "status"}, job : Nat]]
        /\ \A k \in Instance : call'[k].pc = "merge" => call'[k] = call[k]
    BY <2>1, CapPc
  <2>3. CapCalls'
    BY <2>1, <2>2, CapCallsKept DEF CapGrow
  <2> QED  BY <1>1, <2>1, <2>2, <2>3, CapTurns
<1>3. CASE ~Caps!runtimeCapabilityInstallNeeded
  <2>1. jobs' = jobs \o Caps!Applies({i}) /\ UNCHANGED call
    BY <1>3 DEF Caps!UpdateInstanceStatus, Caps!queueApply
  <2>2. IsFiniteSet({i})
    BY FS_Singleton
  <2>3. PICK L \in Seq(CapRow) : L = Caps!Applies({i}) /\ \A n \in DOMAIN L : L[n].status = "queued"
    BY <2>2, CapApplies
  <2>4. /\ jobs' \in Seq(CapRow) /\ DOMAIN jobs \subseteq DOMAIN jobs'
        /\ \A j \in DOMAIN jobs : jobs'[j] = jobs[j]
        /\ \A j \in DOMAIN jobs' \ DOMAIN jobs : \E n \in DOMAIN L : jobs'[j] = L[n]
    <3>1. PICK K \in Seq(CapRow) : K = jobs
      BY DEF CapType
    <3>2. /\ K \o L \in Seq(CapRow) /\ DOMAIN K \subseteq DOMAIN (K \o L)
          /\ \A k \in DOMAIN K : (K \o L)[k] = K[k]
          /\ \A k \in DOMAIN (K \o L) \ DOMAIN K : \E l \in DOMAIN L : (K \o L)[k] = L[l]
      BY CapJoined
    <3>3. jobs' = K \o L
      BY <2>1, <2>3, <3>1
    <3> QED  BY <3>1, <3>2, <3>3, Zenon
  <2>5. \A n \in DOMAIN L : L[n].effect = "none"
    <3>1. \A n \in DOMAIN L : L[n] \in CapRow
      OBVIOUS
    <3> QED  BY <2>3, <3>1, CapWaiting
  <2>6. CapGrow
    BY <2>4 DEF CapGrow
  <2>7. CapCalls' /\ CapOwed'
    BY <1>1, <2>1, <2>4, <2>6, CapCallsKept, CapOwedKept
  <2>8. owed' \subseteq Instance /\ call' \in [Instance -> [pc : {"idle", "find", "create", "merge", "mark", "status"}, job : Nat]]
    BY <1>1, <2>1 DEF CapType
  <2> QED  BY <1>1, <2>1, <2>4, <2>5, <2>7, <2>8, CapDesk
<1> QED  BY <1>2, <1>3

\* The install it finds, the youngest that waits or runs.
LEMMA CapFinds ==
  ASSUME CapInv, Caps!TheNode \in Node, NEW i \in Instance, Caps!FindInstall(i)
  PROVE  CapInv'
<1> USE DEF CapInv
<1> DEFINE F == Caps!findActiveCapabilityInstallJob
<1>1. UNCHANGED <<cap, present, policy, run, owed, jobs, agent, faults>>
  BY DEF Caps!FindInstall, Caps!jobVars
<1>2. PICK c : c = IF F = {} THEN [pc |-> "create", job |-> 0]
                   ELSE [pc |-> "merge", job |-> CHOOSE j \in F : \A k \in F : k <= j]
  OBVIOUS
<1>3. call' = [call EXCEPT ![i] = c]
  BY <1>2, Zenon DEF Caps!FindInstall, Caps!NoJob
<1>4. Len(jobs) \in Nat /\ DOMAIN jobs = 1..Len(jobs)
  BY DEF CapType
<1>5. /\ c \in [pc : {"idle", "find", "create", "merge", "mark", "status"}, job : Nat]
      /\ c.pc = "merge" => c.job \in DOMAIN jobs /\ jobs[c.job].type = "install"
  <2>1. CASE F = {}
    BY <1>2, <2>1
  <2>2. CASE F # {}
    <3>1. F \in SUBSET (1..Len(jobs)) /\ \A j \in F : jobs[j].type = "install"
      BY <1>4 DEF Caps!findActiveCapabilityInstallJob, Caps!Job
    <3>2. PICK x : x = CHOOSE j \in F : \A k \in F : k <= j
      OBVIOUS
    <3>3. x \in F
      <4> HIDE DEF F
      <4> QED  BY <1>4, <2>2, <3>1, <3>2, CapYoungest
    <3>4. c = [pc |-> "merge", job |-> x]
      BY <1>2, <2>2, <3>2, Zenon
    <3> QED  BY <1>4, <3>1, <3>3, <3>4
  <2> QED  BY <2>1, <2>2
<1>6. /\ call' \in [Instance -> [pc : {"idle", "find", "create", "merge", "mark", "status"}, job : Nat]]
      /\ CapCalls'
  <2>1. call'[i] = c /\ (\A k \in Instance : k # i => call'[k] = call[k])
        /\ call' \in [Instance -> [pc : {"idle", "find", "create", "merge", "mark", "status"}, job : Nat]]
    BY <1>3, <1>5 DEF CapType
  <2> QED  BY <1>1, <1>5, <2>1 DEF CapCalls
<1> QED  BY <1>1, <1>6, CapTurns

\* An install is made, by a request or by the operator.
LEMMA CapCreates ==
  ASSUME CapInv, Caps!TheNode \in Node,
         (\E i \in Instance : Caps!CreateInstall(i)) \/ Caps!CreateNodeCapabilityInstallJob
  PROVE  CapInv'
<1> USE DEF CapInv
<1>1. CASE \E i \in Instance : Caps!CreateInstall(i)
  <2>1. PICK i \in Instance : Caps!CreateInstall(i)
    BY <1>1
  <2>2. /\ Caps!createCapabilityInstallJob("none", {i}) /\ call' = [call EXCEPT ![i].pc = "status"]
        /\ UNCHANGED <<present, policy, run, agent, faults>>
        /\ cap' = Caps!Row("installing", "installer") /\ owed' = owed \cup {i}
    BY <2>1 DEF Caps!CreateInstall, Caps!createCapabilityInstallJob
  <2>3. PICK r \in CapRow : r.status = "queued" /\ jobs' = Append(jobs, r) /\ r.payload.deps = {i}
    BY <2>2, CapNewInstall, FS_Singleton
  <2>4. /\ call' \in [Instance -> [pc : {"idle", "find", "create", "merge", "mark", "status"}, job : Nat]]
        /\ \A k \in Instance : call'[k].pc = "merge" => call'[k] = call[k]
    BY <2>2, CapPc
  <2> QED  BY <2>2, <2>3, <2>4, CapInstalling, CapAppends
<1>2. CASE Caps!CreateNodeCapabilityInstallJob
  <2>1. PICK asked \in {"none", "ubuntu_repo"} : Caps!createCapabilityInstallJob(asked, {})
    BY <1>2 DEF Caps!CreateNodeCapabilityInstallJob
  <2>2. /\ UNCHANGED <<call, present, policy, run, agent, faults>>
        /\ cap' = Caps!Row("installing", "installer") /\ owed' = owed \cup {}
    BY <1>2, <2>1 DEF Caps!CreateNodeCapabilityInstallJob, Caps!createCapabilityInstallJob
  <2>3. PICK r \in CapRow : r.status = "queued" /\ jobs' = Append(jobs, r) /\ r.payload.deps = {}
    BY <2>1, CapNewInstall, FS_EmptySet
  <2>4. call' \in [Instance -> [pc : {"idle", "find", "create", "merge", "mark", "status"}, job : Nat]]
    BY <2>2 DEF CapType
  <2> QED  BY <2>2, <2>3, <2>4, CapInstalling, CapAppends
<1> QED  BY <1>1, <1>2

\* A request joins the install it has found, unless that has ended.
LEMMA CapMerges ==
  ASSUME CapInv, Caps!TheNode \in Node, NEW i \in Instance, Caps!mergeCapabilityInstallJobDependents(i)
  PROVE  CapInv'
<1> USE DEF CapInv
<1>1. UNCHANGED <<cap, present, policy, run, agent, faults>> /\ call[i].pc = "merge"
  BY DEF Caps!mergeCapabilityInstallJobDependents
<1>2. PICK j \in DOMAIN jobs : j = call[i].job /\ jobs[j].type = "install"
  BY <1>1 DEF CapCalls
<1>3. CASE Caps!mergeable(j)
  <2>1. /\ jobs' = [jobs EXCEPT ![j].payload.deps = @ \cup {i}] /\ owed' = owed \cup {i}
        /\ call' = [call EXCEPT ![i].pc = "mark"]
    BY <1>2, <1>3, Zenon DEF Caps!mergeCapabilityInstallJobDependents
  <2>2. PICK p : p = [jobs[j].payload EXCEPT !.deps = jobs[j].payload.deps \cup {i}]
    OBVIOUS
  <2>3. PICK r : r = [jobs[j] EXCEPT !.payload = p]
    OBVIOUS
  <2>4. jobs' = [jobs EXCEPT ![j] = r]
    BY <2>1, <2>2, <2>3, Zenon
  <2>5. jobs[j] \in CapRow /\ IsFiniteSet(jobs[j].payload.deps)
    BY DEF CapType, CapRow
  <2>6. IsFiniteSet(jobs[j].payload.deps \cup {i})
    BY <2>5, FS_AddElement
  <2>7. /\ p \in [by : {"none", "binary_repository", "ubuntu_repo", "nginx_org_repo"}, deps : SUBSET Instance, ticket : Nat]
        /\ p.by = jobs[j].payload.by /\ p.deps = jobs[j].payload.deps \cup {i}
    BY <2>2, <2>5 DEF CapRow
  <2>8. /\ r \in CapRow /\ r.type = "install" /\ r.status = jobs[j].status /\ r.effect = jobs[j].effect
        /\ r.payload = p
    BY <1>2, <2>3, <2>5, <2>6, <2>7 DEF CapRow
  <2>9. PICK K \in Seq(CapRow) : K = jobs
    BY DEF CapType
  <2>10. /\ jobs' \in Seq(CapRow) /\ DOMAIN jobs' = DOMAIN jobs /\ jobs'[j] = r
         /\ \A k \in DOMAIN jobs : k # j => jobs'[k] = jobs[k]
    BY <2>4, <2>8, <2>9, CapRewritten
  <2>11. CapGrow
    BY <1>2, <2>8, <2>10 DEF CapGrow
  <2>12. CapOpen(jobs'[j]) /\ i \in jobs'[j].payload.deps
    BY <1>2, <1>3, <2>7, <2>8, <2>10 DEF Caps!mergeable, Caps!Unfinished, CapOpen
  <2>13. \A k \in DOMAIN jobs : \A x \in jobs[k].payload.deps : CapOpen(jobs[k]) =>
            CapOpen(jobs'[k]) /\ x \in jobs'[k].payload.deps
    BY <2>7, <2>8, <2>10, <2>12
  <2>14. CapOwed'
    BY <2>1, <2>10, <2>11, <2>12, <2>13, CapOwedKept
  <2>15. /\ call' \in [Instance -> [pc : {"idle", "find", "create", "merge", "mark", "status"}, job : Nat]]
         /\ \A k \in Instance : call'[k].pc = "merge" => call'[k] = call[k]
    BY <2>1, CapPc
  <2>16. CapCalls'
    BY <2>11, <2>15, CapCallsKept
  <2>17. owed' \subseteq Instance
    BY <2>1 DEF CapType
  <2> QED  BY <1>1, <1>2, <2>8, <2>10, <2>14, <2>15, <2>16, <2>17, CapDesk
<1>4. CASE ~Caps!mergeable(j)
  <2>1. call' = [call EXCEPT ![i] = Caps!NoCall] /\ UNCHANGED <<jobs, owed>>
    BY <1>2, <1>4 DEF Caps!mergeCapabilityInstallJobDependents
  <2>2. /\ call' \in [Instance -> [pc : {"idle", "find", "create", "merge", "mark", "status"}, job : Nat]]
        /\ \A k \in Instance : call'[k].pc = "merge" => call'[k] = call[k]
    BY <2>1 DEF CapType, Caps!NoCall, Caps!NoJob
  <2>3. CapCalls'
    BY <2>1, <2>2, CapCallsKept DEF CapGrow
  <2> QED  BY <1>1, <2>1, <2>2, <2>3, CapTurns
<1> QED  BY <1>3, <1>4

\* What follows in a request, and the steps that touch neither the jobs nor
\* the node.
LEMMA CapRests ==
  ASSUME CapInv, Caps!TheNode \in Node,
         \/ \E i \in Instance : Caps!markCapabilityInstallQueued(i) \/ Caps!WriteStatus(i)
         \/ Caps!CreateBinaryArtifact \/ Caps!TicketTime
  PROVE  CapInv'
<1> USE DEF CapInv
<1>1. CASE \E i \in Instance : Caps!markCapabilityInstallQueued(i)
  <2>1. PICK i \in Instance : Caps!markCapabilityInstallQueued(i)
    BY <1>1
  <2>2. /\ UNCHANGED <<jobs, agent, present, policy, run, faults, owed>> /\ cap' = Caps!Row("installing", "installer")
        /\ call' = [call EXCEPT ![i].pc = "status"]
    BY <2>1 DEF Caps!markCapabilityInstallQueued, Caps!jobVars
  <2>3. /\ call' \in [Instance -> [pc : {"idle", "find", "create", "merge", "mark", "status"}, job : Nat]]
        /\ \A k \in Instance : call'[k].pc = "merge" => call'[k] = call[k]
    BY <2>2, CapPc
  <2>4. CapCalls'
    BY <2>2, <2>3, CapCallsKept DEF CapGrow
  <2> QED  BY <2>2, <2>3, <2>4, CapInstalling, CapTurns
<1>2. CASE \E i \in Instance : Caps!WriteStatus(i)
  <2>1. PICK i \in Instance : Caps!WriteStatus(i)
    BY <1>2
  <2>2. /\ UNCHANGED <<jobs, agent, present, policy, run, faults, owed, cap>>
        /\ call' = [call EXCEPT ![i] = Caps!NoCall]
    BY <2>1 DEF Caps!WriteStatus, Caps!jobVars
  <2>3. /\ call' \in [Instance -> [pc : {"idle", "find", "create", "merge", "mark", "status"}, job : Nat]]
        /\ \A k \in Instance : call'[k].pc = "merge" => call'[k] = call[k]
    BY <2>2 DEF CapType, Caps!NoCall, Caps!NoJob
  <2>4. CapCalls'
    BY <2>2, <2>3, CapCallsKept DEF CapGrow
  <2> QED  BY <2>2, <2>3, <2>4, CapTurns
<1>3. CASE Caps!CreateBinaryArtifact \/ Caps!TicketTime
  <2>1. UNCHANGED <<jobs, agent, present, policy, run, faults, owed, cap, call>>
    BY <1>3 DEF Caps!CreateBinaryArtifact, Caps!TicketTime, Caps!jobVars
  <2>2. CapCalls' /\ call' \in [Instance -> [pc : {"idle", "find", "create", "merge", "mark", "status"}, job : Nat]]
    BY <2>1 DEF CapCalls, CapType
  <2> QED  BY <2>1, <2>2, CapTurns
<1> QED  BY <1>1, <1>2, <1>3

\* A verification or an inventory is queued.
LEMMA CapVerifies ==
  ASSUME CapInv, Caps!TheNode \in Node, Caps!CreateNodeCapabilityVerifyJob
  PROVE  CapInv'
<1> USE DEF CapInv
<1>1. PICK type \in {"verify", "inventory"} :
        jobs' = Append(jobs, Caps!newJob(type, Caps!TheNode, Caps!TheNode,
                               [by |-> "none", deps |-> {}, ticket |-> Caps!NoJob], 100))
  BY DEF Caps!CreateNodeCapabilityVerifyJob, Caps!Queue, Caps!QueueAt
<1>2. PICK r : r = Caps!newJob(type, Caps!TheNode, Caps!TheNode,
                     [by |-> "none", deps |-> {}, ticket |-> Caps!NoJob], 100)
  OBVIOUS
<1>3. r \in CapRow /\ r.status = "queued" /\ r.payload.deps = {}
  BY <1>2, FS_EmptySet DEF Caps!newJob, CapRow, Caps!NoJob
<1>4. UNCHANGED <<cap, call, present, policy, run, owed, agent, faults>>
  BY DEF Caps!CreateNodeCapabilityVerifyJob
<1>5. owed' = owed \cup r.payload.deps
  BY <1>3, <1>4
<1>6. call' \in [Instance -> [pc : {"idle", "find", "create", "merge", "mark", "status"}, job : Nat]]
  BY <1>4 DEF CapType
<1> QED  BY <1>1, <1>2, <1>3, <1>4, <1>5, <1>6, CapAppends

\* A job that waits is cancelled: nobody is owed its answer any more.
LEMMA CapCancels ==
  ASSUME CapInv, Caps!TheNode \in Node, Caps!Cancel
  PROVE  CapInv'
<1> USE DEF CapInv
<1>1. PICK j \in DOMAIN jobs : jobs[j].status = "queued" /\ jobs' = [jobs EXCEPT ![j].status = "cancelled"]
  BY DEF Caps!Cancel, Caps!CancelJob, Caps!Job
<1>2. UNCHANGED <<cap, call, present, policy, run, agent, faults>>
  BY DEF Caps!Cancel, Caps!CancelJob
<1>3. PICK r : r = [jobs[j] EXCEPT !.status = "cancelled"]
  OBVIOUS
<1>4. jobs' = [jobs EXCEPT ![j] = r]
  BY <1>1, <1>3, Zenon
<1>5. jobs[j] \in CapRow
  BY DEF CapType
<1>6. r \in CapRow /\ r.type = jobs[j].type /\ r.status = "cancelled" /\ r.effect = jobs[j].effect
  BY <1>1, <1>3, <1>5 DEF CapRow
<1>7. PICK K \in Seq(CapRow) : K = jobs
  BY DEF CapType
<1>8. /\ jobs' \in Seq(CapRow) /\ DOMAIN jobs' = DOMAIN jobs /\ jobs'[j] = r
      /\ \A k \in DOMAIN jobs : k # j => jobs'[k] = jobs[k]
  BY <1>4, <1>6, <1>7, CapRewritten
<1>9. CapGrow
  BY <1>6, <1>8 DEF CapGrow
<1>10. owed' \subseteq owed /\ owed' \cap jobs[j].payload.deps = {}
  <2>1. owed' = owed \ UNION {jobs[k].payload.deps : k \in {k \in DOMAIN jobs : jobs'[k].status # jobs[k].status}}
    BY DEF Caps!Cancel, Caps!Job
  <2>2. j \in {k \in DOMAIN jobs : jobs'[k].status # jobs[k].status}
    BY <1>1, <1>6, <1>8
  <2> QED  BY <2>1, <2>2
<1>11. \A k \in DOMAIN jobs : \A i \in owed' : i \in jobs[k].payload.deps => jobs'[k] = jobs[k]
  BY <1>8, <1>10
<1>12. CapOwed'
  BY <1>9, <1>10, <1>11, CapOwedKept
<1>13. CapCalls'
  BY <1>2, <1>9, CapCallsKept
<1>14. /\ owed' \subseteq Instance
       /\ call' \in [Instance -> [pc : {"idle", "find", "create", "merge", "mark", "status"}, job : Nat]]
  BY <1>2, <1>10 DEF CapType
<1> QED  BY <1>1, <1>2, <1>6, <1>8, <1>12, <1>13, <1>14, CapDesk

-----------------------------------------------------------------------------
(* The handler. *)

\* The steps of an install, one after another: it is verified last, and the
\* guard is put up right before the package.
LEMMA CapTails ==
  ASSUME NEW t \in InstallTodo
  PROVE  /\ t # <<>> /\ (t = <<"sync">> <=> Head(t) = "sync") /\ Head(t) # "apply"
         /\ t # <<"sync">> => Tail(t) \in InstallTodo
         /\ t # <<"sync">> /\ Tail(t) = <<"sync">> => Head(t) = "verify"
         /\ t \in Guarded /\ Head(t) # "verify" => Tail(t) \in Guarded
         /\ t \in Guarded => Head(t) \in {"install", "verify"}
         /\ Head(t) = "guard" => Tail(t) \in Guarded
<1> USE DEF InstallTodo, Guarded
<1>1. CASE t = <<"update", "guard", "install", "verify", "sync">>
  BY <1>1
<1>2. CASE t = <<"guard", "install", "verify", "sync">>
  BY <1>2
<1>3. CASE t = <<"install", "verify", "sync">>
  BY <1>3
<1>4. CASE t = <<"verify", "sync">>
  BY <1>4
<1>5. CASE t = <<"sync">>
  BY <1>5
<1>6. CASE t = <<"download", "copy", "verify", "sync">>
  BY <1>6
<1>7. CASE t = <<"copy", "verify", "sync">>
  BY <1>7
<1>8. CASE t = <<"repository", "install", "enable", "verify", "sync">>
  BY <1>8
<1>9. CASE t = <<"update", "purge", "install", "enable", "verify", "sync">>
  BY <1>9
<1>10. CASE t = <<"purge", "install", "enable", "verify", "sync">>
  BY <1>10
<1>11. CASE t = <<"install", "enable", "verify", "sync">>
  BY <1>11
<1>12. CASE t = <<"enable", "verify", "sync">>
  BY <1>12
<1> QED  BY <1>1, <1>2, <1>3, <1>4, <1>5, <1>6, <1>7, <1>8, <1>9, <1>10, <1>11, <1>12

\* What each strategy and each job begins with.
LEMMA CapSteps ==
  /\ \A by \in {"binary_repository", "ubuntu_repo", "nginx_org_repo", "nginx_ubuntu_repo"} :
        Caps!Steps(by) \in InstallTodo /\ Caps!Steps(by) # <<"sync">>
  /\ Caps!Steps("verify") = <<"verify", "sync">> /\ Caps!Steps("inventory") = <<"sync">>
  /\ Caps!Steps("apply") = <<"apply">>
<1>1. Caps!Steps("binary_repository") = <<"download", "copy", "verify", "sync">>
  BY DEF Caps!Steps
<1>2. Caps!Steps("ubuntu_repo") = <<"update", "guard", "install", "verify", "sync">>
  BY DEF Caps!Steps
<1>3. Caps!Steps("nginx_org_repo") = <<"repository", "install", "enable", "verify", "sync">>
  BY DEF Caps!Steps
<1>4. Caps!Steps("nginx_ubuntu_repo") = <<"update", "purge", "install", "enable", "verify", "sync">>
  BY DEF Caps!Steps
<1>5. /\ Caps!Steps("verify") = <<"verify", "sync">> /\ Caps!Steps("inventory") = <<"sync">>
      /\ Caps!Steps("apply") = <<"apply">>
  BY DEF Caps!Steps
<1>6. \A t \in {<<"download", "copy", "verify", "sync">>, <<"update", "guard", "install", "verify", "sync">>,
                <<"repository", "install", "enable", "verify", "sync">>,
                <<"update", "purge", "install", "enable", "verify", "sync">>} : t \in InstallTodo /\ t # <<"sync">>
  BY DEF InstallTodo
<1> QED  BY <1>1, <1>2, <1>3, <1>4, <1>5, <1>6

\* A handler that goes on has t left to do.
CapGoes(t) ==
  /\ CapJob.type = "apply" => t = <<"apply">>
  /\ CapJob.type = "verify" => run'.by = "verify" /\ t \in {<<"verify", "sync">>, <<"sync">>}
  /\ CapJob.type = "inventory" => run'.by = "inventory" /\ t = <<"sync">>
  /\ CapJob.type = "install" => t \in InstallTodo
  /\ CapJob.type \in {"install", "verify"} /\ t = <<"sync">> /\ run'.ok => present'

\* The handler goes on; only an install takes the runtime away.
LEMMA CapGoesOn ==
  ASSUME CapInv, Caps!TheNode \in Node, CapAt.job # 0, CapAt.result = "none",
         UNCHANGED <<jobs, call, owed, faults, cap>>,
         NEW t \in InstallTodo \cup {<<>>, <<"apply">>}, agent' = [agent EXCEPT ![Caps!TheNode].todo = t],
         run' \in CapRun, CapMade',
         faults = 0 => /\ policy' = "agent" => run'.made
                       /\ run'.made => t \in Guarded
                       /\ CapGoes(t)
                       /\ CapJob.type = "install" \/ (present => present')
  PROVE  CapInv'
<1> USE DEF CapInv
<1>1. /\ CapAt \in CapAgent /\ Len(jobs) \in Nat /\ DOMAIN jobs = 1..Len(jobs)
      /\ CapAt.job \in DOMAIN jobs /\ CapJob \in CapRow
  BY CapAgentJob
<1>2. PICK a : a = [CapAt EXCEPT !.todo = t]
  OBVIOUS
<1>3. a \in CapAgent /\ a.job = CapAt.job /\ a.result = "none" /\ a.todo = t
  BY <1>1, <1>2 DEF CapAgent
<1>4. agent' = [agent EXCEPT ![Caps!TheNode] = a]
  BY <1>2, Zenon DEF CapAt
<1>5. agent' \in [Node -> CapAgent] /\ CapAt' = a
  BY <1>3, <1>4 DEF CapType, CapAt
<1>6. CapJob' = CapJob
  BY <1>3, <1>5 DEF CapJob
<1>7. CapType'
  BY <1>3, <1>5 DEF CapType
<1>8. CapCalls' /\ CapOwed'
  BY DEF CapCalls, CapOwed
<1>9. ASSUME faults = 0  PROVE CapCalm'
  <2> USE <1>9 DEF CapCalm
  <2>1. CapGuard'
    BY <1>3, <1>5 DEF CapGuard
  <2>2. CapWork'
    BY <1>3, <1>5, <1>6 DEF CapWork
  <2>3. CapDoes' /\ CapDone'
    BY <1>3, <1>5, <1>6 DEF CapDoes, CapDone, CapGoes
  <2>4. CapJob.effect = "none"
    BY <1>1 DEF CapWork, CapRow
  <2>5. CapAvail'
    BY <1>3, <1>5, <1>6, <2>4 DEF CapAvail
  <2> QED  BY <2>1, <2>2, <2>3, <2>5
<1> QED  BY <1>7, <1>8, <1>9

\* The handler ends.
LEMMA CapEnds ==
  ASSUME CapInv, Caps!TheNode \in Node, CapAt.job # 0, CapAt.result = "none",
         UNCHANGED <<jobs, call, owed, faults, present, policy>>,
         NEW res \in {"succeeded", "failed"}, Caps!Finish(Caps!TheNode, res), run' = Caps!NoRun,
         cap' = cap \/ cap' # Caps!Row("available", "installer"),
         faults = 0 => CapAt.todo \notin Guarded /\ (CapJob.type \in {"install", "verify"} /\ res = "succeeded" => present)
  PROVE  CapInv'
<1> USE DEF CapInv
<1>1. /\ CapAt \in CapAgent /\ Len(jobs) \in Nat /\ DOMAIN jobs = 1..Len(jobs)
      /\ CapAt.job \in DOMAIN jobs /\ CapJob \in CapRow
  BY CapAgentJob
<1>2. PICK a : a = [CapAt EXCEPT !.result = res, !.todo = <<>>]
  OBVIOUS
<1>3. a \in CapAgent /\ a.job = CapAt.job /\ a.result = res
  BY <1>1, <1>2 DEF CapAgent
<1>4. agent' = [agent EXCEPT ![Caps!TheNode] = a]
  BY <1>2, Zenon DEF CapAt, Caps!Finish
<1>5. agent' \in [Node -> CapAgent] /\ CapAt' = a
  BY <1>3, <1>4 DEF CapType, CapAt
<1>6. CapJob' = CapJob
  BY <1>3, <1>5 DEF CapJob
<1>7. run' \in CapRun /\ ~run'.made
  BY DEF Caps!NoRun, CapRun
<1>8. CapType'
  BY <1>3, <1>5, <1>7 DEF CapType
<1>9. CapCalls' /\ CapOwed' /\ CapMade'
  BY <1>7 DEF CapCalls, CapOwed, CapMade
<1>10. ASSUME faults = 0  PROVE CapCalm'
  <2> USE <1>10 DEF CapCalm
  <2>1. CapGuard'
    BY <1>7 DEF CapGuard
  <2>2. CapWork'
    BY <1>3, <1>5, <1>6 DEF CapWork
  <2>3. CapDoes' /\ CapDone'
    BY <1>3, <1>5, <1>6 DEF CapDoes, CapDone
  <2>4. CapAvail'
    BY <1>3, <1>5, <1>6 DEF CapAvail
  <2> QED  BY <2>1, <2>2, <2>3, <2>4
<1> QED  BY <1>8, <1>9, <1>10

\* A step that fails: the guard goes, and another strategy begins or the
\* handler is about to end with a failure.
LEMMA CapFailed ==
  ASSUME CapInv, Caps!TheNode \in Node, CapAt.job # 0, CapAt.result = "none",
         UNCHANGED <<jobs, call, owed, faults, cap>>, NEW step, Caps!FailedStep(step),
         faults = 0 => /\ CapJob.type \in {"install", "verify"}
                       /\ CapJob.type = "install" \/ (present => present')
  PROVE  CapInv'
<1> USE DEF CapInv
<1>1. run \in CapRun /\ policy' = Caps!guardRemoved(FALSE)
  BY DEF CapType, Caps!FailedStep
<1>2. faults = 0 => policy' # "agent"
  BY <1>1 DEF Caps!guardRemoved, CapCalm, CapGuard
<1>3. PICK next \in Caps!fallback(step) :
        \/ /\ next = "none" /\ agent' = [agent EXCEPT ![Caps!TheNode].todo = <<"sync">>]
           /\ run' = [run EXCEPT !.ok = FALSE, !.made = FALSE]
        \/ /\ next # "none" /\ agent' = [agent EXCEPT ![Caps!TheNode].todo = Caps!Steps(next)]
           /\ run' = [Caps!NoRun EXCEPT !.by = next]
  BY Zenon DEF Caps!FailedStep
<1>4. /\ next \in {"none", "binary_repository", "nginx_ubuntu_repo"}
      /\ next # "none" => run.by # "verify"
  BY <1>1, <1>3 DEF Caps!fallback
<1>5. CASE next = "none"
  <2>1. run' \in CapRun /\ run'.by = run.by /\ ~run'.ok /\ ~run'.made
    BY <1>1, <1>3, <1>5 DEF CapRun
  <2>2. PICK t \in InstallTodo : t = <<"sync">>
    BY DEF InstallTodo
  <2>3. faults = 0 => CapGoes(t)
    BY <2>1, <2>2 DEF CapGoes, CapCalm, CapDoes
  <2>4. CapMade'
    BY <2>1 DEF CapMade
  <2> QED  BY <1>2, <1>3, <1>5, <2>1, <2>2, <2>3, <2>4, CapGoesOn
<1>6. CASE next # "none"
  <2>1. run' = [by |-> next, ok |-> TRUE, made |-> FALSE]
    BY <1>3, <1>6, Zenon DEF Caps!NoRun
  <2>2. run' \in CapRun /\ ~run'.made
    BY <1>4, <2>1 DEF CapRun
  <2>3. PICK t \in InstallTodo : t = Caps!Steps(next) /\ t # <<"sync">>
    BY <1>4, <1>6, CapSteps
  <2>4. faults = 0 => CapGoes(t)
    BY <1>4, <1>6, <2>3 DEF CapGoes, CapCalm, CapDoes
  <2>5. CapMade'
    BY <2>2 DEF CapMade
  <2> QED  BY <1>2, <1>3, <1>6, <2>2, <2>3, <2>4, <2>5, CapGoesOn
<1> QED  BY <1>5, <1>6

\* What is left of the handler when it is at a step.
LEMMA CapHere ==
  ASSUME CapInv, Caps!TheNode \in Node, NEW step, Caps!At(step)
  PROVE  /\ CapAt.job # 0 /\ CapAt.result = "none" /\ CapAt.todo # <<>> /\ Head(CapAt.todo) = step
         /\ CapAt.todo \in InstallTodo \cup {<<"apply">>}
         /\ faults = 0 /\ step \notin {"sync", "apply"} => CapJob.type \in {"install", "verify"}
         /\ faults = 0 /\ step \notin {"sync", "apply", "verify"} => CapJob.type = "install"
         /\ step # "apply" => CapAt.todo \in InstallTodo
<1> USE DEF CapInv
<1>1. CapAt.job # 0 /\ CapAt.result = "none" /\ CapAt.todo # <<>> /\ Head(CapAt.todo) = step
  BY DEF Caps!At, Caps!Working, Caps!NoJob, CapAt
<1>2. CapAt \in CapAgent /\ CapJob \in CapRow
  BY <1>1, CapAgentJob
<1>3. CapAt.todo \in InstallTodo \cup {<<"apply">>} /\ CapJob.type \in {"install", "verify", "inventory", "apply"}
  BY <1>1, <1>2 DEF CapAgent, CapRow
<1>4. Head(<<"apply">>) = "apply" /\ Head(<<"sync">>) = "sync" /\ Head(<<"verify", "sync">>) = "verify"
  OBVIOUS
<1>5. step # "apply" => CapAt.todo \in InstallTodo
  BY <1>1, <1>3, <1>4
<1>6. faults = 0 /\ step \notin {"sync", "apply"} => CapJob.type \in {"install", "verify"}
  BY <1>1, <1>3, <1>4 DEF CapCalm, CapDoes
<1>7. faults = 0 /\ step \notin {"sync", "apply", "verify"} => CapJob.type = "install"
  BY <1>1, <1>3, <1>4, <1>6 DEF CapCalm, CapDoes
<1> QED  BY <1>1, <1>3, <1>5, <1>6, <1>7

\* The handler's next command has been run.
LEMMA CapAdvance ==
  ASSUME Caps!Advance(Caps!TheNode)
  PROVE  agent' = [agent EXCEPT ![Caps!TheNode].todo = Tail(CapAt.todo)]
  BY Zenon DEF Caps!Advance, CapAt

\* A step that works: past a verification the runtime is there, and the guard
\* is not.
LEMMA CapWent ==
  ASSUME CapInv, Caps!TheNode \in Node, UNCHANGED <<jobs, call, owed, faults, cap>>,
         NEW step, step \notin {"sync", "apply"}, Caps!At(step), Caps!Went(step),
         step = "verify" => present /\ present',
         faults = 0 => CapJob.type = "install" \/ (present => present')
  PROVE  CapInv'
<1> USE DEF CapInv
<1>1. /\ CapAt.job # 0 /\ CapAt.result = "none" /\ Head(CapAt.todo) = step /\ CapAt.todo \in InstallTodo
      /\ faults = 0 => CapJob.type \in {"install", "verify"}
  BY CapHere
<1>2. PICK s \in InstallTodo : s = CapAt.todo
  BY <1>1
<1>3. /\ s # <<"sync">> /\ Tail(s) \in InstallTodo
      /\ Tail(s) = <<"sync">> => step = "verify"
      /\ s \in Guarded /\ step # "verify" => Tail(s) \in Guarded
  BY <1>1, <1>2, CapTails
<1>4. PICK t \in InstallTodo : t = Tail(s)
  BY <1>3
<1>5. agent' = [agent EXCEPT ![Caps!TheNode].todo = t]
  BY <1>2, <1>4, CapAdvance DEF Caps!Went
<1>6. run \in CapRun
  BY DEF CapType
<1>7. run' \in CapRun /\ run'.by = run.by /\ run'.ok = run.ok
  BY <1>6 DEF Caps!Went, CapRun
<1>8. faults = 0 => CapGoes(t)
  <2>1. Tail(<<"verify", "sync">>) = <<"sync">>
    OBVIOUS
  <2> QED  BY <1>1, <1>2, <1>3, <1>4, <1>7, <2>1 DEF CapGoes, CapCalm, CapDoes
<1>9. /\ CapMade'
      /\ faults = 0 => (policy' = "agent" => run'.made) /\ (run'.made => t \in Guarded)
  <2>1. CASE step = "verify"
    <3>1. policy' = Caps!guardRemoved(TRUE) /\ ~run'.made
      BY <1>6, <2>1 DEF Caps!Went, CapRun
    <3>2. faults = 0 => policy' # "agent"
      BY <3>1 DEF Caps!guardRemoved, CapCalm, CapGuard
    <3> QED  BY <3>1, <3>2 DEF CapMade
  <2>2. CASE step # "verify"
    <3>1. policy' = policy /\ run' = run
      BY <2>2 DEF Caps!Went
    <3> QED  BY <1>2, <1>3, <1>4, <2>2, <3>1 DEF CapMade, CapCalm, CapGuard
  <2> QED  BY <2>1, <2>2
<1> QED  BY <1>1, <1>4, <1>5, <1>7, <1>8, <1>9, CapGoesOn

\* The steps before the runtime is touched, and the verification.
LEMMA CapPrepares ==
  ASSUME CapInv, Caps!TheNode \in Node,
         \/ \E step \in {"update", "repository", "enable"} : Caps!PrepareStep(step)
         \/ Caps!downloadBinaryRepositoryArtifact \/ Caps!verifyCapability
  PROVE  CapInv'
<1>1. UNCHANGED <<jobs, call, owed, faults, cap, present>>
  BY DEF Caps!PrepareStep, Caps!downloadBinaryRepositoryArtifact, Caps!verifyCapability, Caps!quietly
<1>2. PICK step \in {"update", "repository", "enable", "download", "verify"} :
        Caps!At(step) /\ ((Caps!Went(step) /\ (step = "verify" => present)) \/ Caps!FailedStep(step))
  BY DEF Caps!PrepareStep, Caps!downloadBinaryRepositoryArtifact, Caps!verifyCapability, Caps!verified
<1>3. CASE Caps!Went(step) /\ (step = "verify" => present)
  BY <1>1, <1>2, <1>3, CapWent
<1>4. CASE Caps!FailedStep(step)
  BY <1>1, <1>2, <1>4, CapHere, CapFailed
<1> QED  BY <1>2, <1>3, <1>4

\* The runtime is put on the node, or nginx is taken off it.
LEMMA CapInstalls ==
  ASSUME CapInv, Caps!TheNode \in Node,
         Caps!installBinaryRepositoryCapability \/ Caps!installUbuntuPackageCapability \/ Caps!PurgeNginx
  PROVE  CapInv'
<1>1. UNCHANGED <<jobs, call, owed, faults, cap>>
  BY DEF Caps!installBinaryRepositoryCapability, Caps!installUbuntuPackageCapability, Caps!Installs,
         Caps!PurgeNginx, Caps!quietly
<1>2. PICK step \in {"copy", "install", "purge"} : Caps!At(step) /\ (Caps!Went(step) \/ Caps!FailedStep(step))
  BY DEF Caps!installBinaryRepositoryCapability, Caps!installUbuntuPackageCapability, Caps!Installs, Caps!PurgeNginx
<1>3. /\ CapAt.job # 0 /\ CapAt.result = "none" /\ (faults = 0 => CapJob.type = "install")
  BY <1>2, CapHere
<1>4. CASE Caps!Went(step)
  BY <1>1, <1>2, <1>3, <1>4, CapWent
<1>5. CASE Caps!FailedStep(step)
  BY <1>1, <1>2, <1>3, <1>5, CapFailed
<1> QED  BY <1>2, <1>4, <1>5

\* The guard is put up, unless another is there.
LEMMA CapGuards ==
  ASSUME CapInv, Caps!TheNode \in Node, Caps!preventPackageServiceAutostart
  PROVE  CapInv'
<1> USE DEF CapInv
<1>1. UNCHANGED <<jobs, call, owed, faults, cap, present>> /\ Caps!At("guard")
  BY DEF Caps!preventPackageServiceAutostart, Caps!quietly
<1>2. /\ CapAt.job # 0 /\ CapAt.result = "none" /\ Head(CapAt.todo) = "guard" /\ CapAt.todo \in InstallTodo
      /\ faults = 0 => CapJob.type = "install"
  BY <1>1, CapHere
<1>3. CASE Caps!FailedStep("guard")
  BY <1>1, <1>2, <1>3, CapFailed
<1>4. CASE /\ policy' = IF policy = "none" THEN "agent" ELSE policy
           /\ run' = [run EXCEPT !.made = (policy = "none")]
           /\ Caps!Advance(Caps!TheNode)
  <2>1. PICK s \in InstallTodo : s = CapAt.todo
    BY <1>2
  <2>2. Tail(s) \in Guarded /\ s \notin Guarded /\ Tail(s) # <<"sync">>
    BY <1>2, <2>1, CapTails
  <2>3. PICK t \in InstallTodo : t = Tail(s)
    BY <2>2 DEF InstallTodo
  <2>4. agent' = [agent EXCEPT ![Caps!TheNode].todo = t]
    BY <1>4, <2>1, <2>3, CapAdvance
  <2>5. PICK m \in BOOLEAN : m = (policy = "none")
    OBVIOUS
  <2>6. run' = [run EXCEPT !.made = m] /\ run \in CapRun
    BY <1>4, <2>5 DEF CapType
  <2>7. run' \in CapRun /\ run'.made = m /\ run'.by = run.by
    BY <2>6 DEF CapRun
  <2>8. CapMade'
    BY <1>4, <2>5, <2>7 DEF CapMade
  <2>9. faults = 0 => policy # "agent"
    BY <2>1, <2>2 DEF CapCalm, CapGuard
  <2>10. faults = 0 /\ policy' = "agent" => run'.made
    BY <1>4, <2>5, <2>7, <2>9
  <2>11. faults = 0 => CapGoes(t)
    BY <1>2, <2>2, <2>3 DEF CapGoes
  <2> QED  BY <1>1, <1>2, <2>2, <2>3, <2>4, <2>7, <2>8, <2>10, <2>11, CapGoesOn
<1> QED  BY <1>3, <1>4 DEF Caps!preventPackageServiceAutostart

\* The end of a handler: the inventory, or the apply.
LEMMA CapFinishes ==
  ASSUME CapInv, Caps!TheNode \in Node, Caps!recordCapabilityInventorySync \/ Caps!ApplyInstance
  PROVE  CapInv'
<1> USE DEF CapInv
<1>1. UNCHANGED <<jobs, call, owed, faults, present, policy>> /\ run' = Caps!NoRun
  BY DEF Caps!recordCapabilityInventorySync, Caps!ApplyInstance
<1>2. CASE Caps!recordCapabilityInventorySync
  <2>1. Caps!At("sync") /\ Caps!Finish(Caps!TheNode, IF run.ok THEN "succeeded" ELSE "failed")
    BY <1>2 DEF Caps!recordCapabilityInventorySync
  <2>2. PICK res \in {"succeeded", "failed"} : res = IF run.ok THEN "succeeded" ELSE "failed"
    OBVIOUS
  <2>3. CapAt.job # 0 /\ CapAt.result = "none" /\ Head(CapAt.todo) = "sync" /\ CapAt.todo \in InstallTodo
    BY <2>1, CapHere
  <2>4. CapAt.todo = <<"sync">> /\ CapAt.todo \notin Guarded
    BY <2>3, CapTails
  <2>5. faults = 0 => (CapJob.type \in {"install", "verify"} /\ res = "succeeded" => present)
    BY <2>2, <2>3, <2>4 DEF CapCalm, CapDoes
  <2>6. cap' = cap \/ cap' # Caps!Row("available", "installer")
    BY <1>2 DEF Caps!recordCapabilityInventorySync, Caps!deriveCapabilities, Caps!Row
  <2> QED  BY <1>1, <2>1, <2>2, <2>3, <2>4, <2>5, <2>6, CapEnds
<1>3. CASE Caps!ApplyInstance
  <2>1. PICK res \in {"succeeded", "failed"} : Caps!At("apply") /\ Caps!Finish(Caps!TheNode, res) /\ cap' = cap
    BY <1>3 DEF Caps!ApplyInstance
  <2>2. CapAt.job # 0 /\ CapAt.result = "none" /\ Head(CapAt.todo) = "apply" /\ CapAt.todo \in InstallTodo \cup {<<"apply">>}
    BY <2>1, CapHere
  <2>3. CapAt.todo = <<"apply">> /\ CapAt.todo \notin Guarded
    BY <2>2, CapTails DEF Guarded
  <2>4. Head(<<"verify", "sync">>) = "verify" /\ Head(<<"sync">>) = "sync"
    OBVIOUS
  <2>5. CapAt.todo \notin InstallTodo
    BY <2>2, CapTails
  <2>6. faults = 0 => CapJob.type \notin {"install", "verify"}
    BY <2>2, <2>4, <2>5 DEF CapCalm, CapDoes
  <2> QED  BY <1>1, <2>1, <2>2, <2>3, <2>6, CapEnds
<1> QED  BY <1>2, <1>3

-----------------------------------------------------------------------------
(* The queue. *)

\* The idle agent is an agent.
LEMMA CapIdle ==
  Caps!AgentIdle \in CapAgent /\ Caps!AgentIdle.job = 0 /\ Caps!AgentIdle.result = "none"
  BY DEF Caps!AgentIdle, Caps!NoJob, CapAgent

\* One row rewritten in its status and effect.
LEMMA CapJobRewritten ==
  ASSUME CapType, NEW j \in DOMAIN jobs, NEW r \in CapRow, jobs' = [jobs EXCEPT ![j] = r]
  PROVE  /\ jobs' \in Seq(CapRow) /\ DOMAIN jobs' = DOMAIN jobs /\ Len(jobs') = Len(jobs) /\ jobs'[j] = r
         /\ \A k \in DOMAIN jobs : k # j => jobs'[k] = jobs[k]
<1>1. PICK K \in Seq(CapRow) : K = jobs
  BY DEF CapType
<1> QED  BY <1>1, CapRewritten

\* An install stays open when its row is.
LEMMA CapOwedRow ==
  ASSUME CapType, CapOwed, CapCalls, NEW j \in DOMAIN jobs, NEW r \in CapRow, jobs' = [jobs EXCEPT ![j] = r],
         r.type = jobs[j].type, r.payload = jobs[j].payload, CapOpen(jobs[j]) => CapOpen(r),
         owed' = owed, call' = call
  PROVE  CapOwed' /\ CapCalls'
<1>1. DOMAIN jobs' = DOMAIN jobs /\ jobs'[j] = r /\ \A k \in DOMAIN jobs : k # j => jobs'[k] = jobs[k]
  BY CapJobRewritten
<1>2. CapGrow
  BY <1>1 DEF CapGrow
<1> QED  BY <1>1, <1>2, CapOwedKept, CapCallsKept

\* AgentNextJob: the handler begins with the steps of its job.
LEMMA CapClaims ==
  ASSUME CapInv, Caps!TheNode \in Node, Caps!AgentNextJob
  PROVE  CapInv'
<1> USE DEF CapInv
<1>1. PICK j, by :
        /\ j \in DOMAIN jobs
        /\ by = IF jobs[j].type = "install" THEN jobs[j].payload.by ELSE jobs[j].type
        /\ jobs[j].status = "queued" /\ agent[Caps!TheNode].job = Caps!NoJob
        /\ jobs' = [jobs EXCEPT ![j].status = "running"]
        /\ agent' = [agent EXCEPT ![Caps!TheNode] = [Caps!AgentIdle EXCEPT !.job = j, !.todo = Caps!Steps(by)]]
        /\ run' = [Caps!NoRun EXCEPT !.by = by]
  BY Zenon DEF Caps!AgentNextJob, Caps!Job, Caps!Claimable, Caps!Claim
<1>2. UNCHANGED <<cap, call, present, policy, owed, faults>>
  BY DEF Caps!AgentNextJob
<1>3. j \in DOMAIN jobs /\ jobs[j] \in CapRow /\ CapAt.job = 0 /\ DOMAIN jobs = 1..Len(jobs) /\ Len(jobs) \in Nat
  BY <1>1 DEF CapType, CapAt, Caps!NoJob
<1>4. PICK r : r = [jobs[j] EXCEPT !.status = "running"]
  OBVIOUS
<1>5. r \in CapRow /\ r.type = jobs[j].type /\ r.payload = jobs[j].payload /\ r.status = "running" /\ r.effect = "none"
  BY <1>1, <1>3, <1>4 DEF CapRow
<1>6. jobs' = [jobs EXCEPT ![j] = r]
  BY <1>1, <1>4, Zenon
<1>7. /\ jobs' \in Seq(CapRow) /\ DOMAIN jobs' = DOMAIN jobs /\ Len(jobs') = Len(jobs) /\ jobs'[j] = r
      /\ \A k \in DOMAIN jobs : k # j => jobs'[k] = jobs[k]
  BY <1>3, <1>5, <1>6, CapJobRewritten
<1>8. CapOpen(jobs[j]) => CapOpen(r)
  BY <1>5 DEF CapOpen
<1>9. CapOwed' /\ CapCalls'
  BY <1>2, <1>3, <1>5, <1>6, <1>8, CapOwedRow
<1>10. by \in {"binary_repository", "ubuntu_repo", "nginx_org_repo", "verify", "inventory", "apply"}
       /\ (jobs[j].type # "install" => by = jobs[j].type)
       /\ (jobs[j].type = "install" => by \in {"binary_repository", "ubuntu_repo", "nginx_org_repo"})
  BY <1>1, <1>3 DEF CapRow
<1>11. PICK t : t = Caps!Steps(by)
  OBVIOUS
<1>12. /\ by \in {"binary_repository", "ubuntu_repo", "nginx_org_repo"} => t \in InstallTodo /\ t # <<"sync">>
       /\ by = "verify" => t = <<"verify", "sync">>
       /\ by = "inventory" => t = <<"sync">>
       /\ by = "apply" => t = <<"apply">>
  BY <1>11, CapSteps
<1>13. <<"verify", "sync">> \in InstallTodo /\ <<"sync">> \in InstallTodo /\ <<"verify", "sync">> # <<"sync">>
  BY DEF InstallTodo, Guarded
<1>14. t \in InstallTodo \cup {<<"apply">>}
  BY <1>10, <1>12, <1>13
<1>15. PICK a : a = [Caps!AgentIdle EXCEPT !.job = j, !.todo = t]
  OBVIOUS
<1>16. a = [job |-> j, todo |-> t, warned |-> FALSE, result |-> "none"]
  BY <1>15, Zenon DEF Caps!AgentIdle
<1>17. a \in CapAgent /\ a.job = j /\ a.result = "none" /\ a.todo = t /\ j # 0 /\ j \in 0..Len(jobs)
  BY <1>3, <1>14, <1>16 DEF CapAgent
<1>18. agent' = [agent EXCEPT ![Caps!TheNode] = a]
  BY <1>1, <1>11, <1>15, Zenon
<1>19. agent' \in [Node -> CapAgent] /\ CapAt' = a
  BY <1>17, <1>18 DEF CapType, CapAt
<1>20. CapJob' = r
  BY <1>7, <1>17, <1>19 DEF CapJob
<1>21. run' = [by |-> by, ok |-> TRUE, made |-> FALSE]
  BY <1>1, Zenon DEF Caps!NoRun
<1>22. run' \in CapRun /\ run'.by = by /\ ~run'.made
  BY <1>10, <1>21 DEF CapRun
<1>23. CapType'
  BY <1>2, <1>7, <1>17, <1>19, <1>22 DEF CapType
<1>24. CapMade'
  BY <1>22 DEF CapMade
<1>25. ASSUME faults = 0  PROVE CapCalm'
  <2> USE <1>25 DEF CapCalm
  <2>1. policy # "agent"
    BY <1>3 DEF CapGuard
  <2>2. CapGuard'
    BY <1>2, <1>22, <2>1 DEF CapGuard
  <2>3. CapWork'
    <3>1. \A k \in DOMAIN jobs : ~CapDue(jobs[k])
      BY <1>3 DEF CapWork
    <3> QED  BY <1>5, <1>7, <1>17, <1>19, <1>20, <3>1 DEF CapWork, CapDue
  <2>4. CapDoes'
    BY <1>5, <1>10, <1>12, <1>13, <1>17, <1>19, <1>20, <1>22 DEF CapDoes
  <2>5. CapDone'
    BY <1>17, <1>19 DEF CapDone
  <2>6. CapAvail'
    BY <1>2, <1>3 DEF CapAvail
  <2> QED  BY <2>2, <2>3, <2>4, <2>5, <2>6
<1> QED  BY <1>2, <1>9, <1>23, <1>24, <1>25

\* A result: the completion is due, and the agent waits for it.
LEMMA CapResult ==
  ASSUME CapInv, Caps!TheNode \in Node, Caps!AgentJobResult(Caps!TheNode),
         UNCHANGED <<cap, call, present, policy, run, owed>>
  PROVE  CapInv'
<1> USE DEF CapInv
<1>1. PICK j, res : j = CapAt.job /\ res = CapAt.result
  OBVIOUS
<1>2. UNCHANGED faults /\ res \in {"succeeded", "failed"}
  BY <1>1 DEF Caps!AgentJobResult, CapAt
<1>3. j \in DOMAIN jobs /\ jobs[j] \in CapRow /\ j \in 0..Len(jobs) /\ j # 0 /\ CapAt \in CapAgent /\ CapJob = jobs[j]
  BY <1>1, <1>2, CapAgentJob DEF CapType, CapJob
<1>4. CASE jobs[j].status = "running"
  <2>1. /\ jobs' = [jobs EXCEPT ![j] = [jobs[j] EXCEPT !.status = res, !.effect = "pending"]]
        /\ agent' = [agent EXCEPT ![Caps!TheNode] = [CapAt EXCEPT !.result = "sent"]]
    BY <1>1, <1>4, Zenon DEF Caps!AgentJobResult, CapAt
  <2>2. PICK r : r = [jobs[j] EXCEPT !.status = res, !.effect = "pending"]
    OBVIOUS
  <2>3. r \in CapRow /\ r.type = jobs[j].type /\ r.payload = jobs[j].payload /\ r.status = res /\ r.effect = "pending"
    BY <1>2, <1>3, <2>2 DEF CapRow
  <2>4. jobs' = [jobs EXCEPT ![j] = r]
    BY <2>1, <2>2
  <2>5. /\ jobs' \in Seq(CapRow) /\ DOMAIN jobs' = DOMAIN jobs /\ Len(jobs') = Len(jobs) /\ jobs'[j] = r
        /\ \A k \in DOMAIN jobs : k # j => jobs'[k] = jobs[k]
    BY <1>3, <2>3, <2>4, CapJobRewritten
  <2>6. CapOpen(jobs[j]) => CapOpen(r)
    BY <2>3 DEF CapOpen
  <2>7. CapOwed' /\ CapCalls'
    BY <1>3, <2>3, <2>4, <2>6, CapOwedRow
  <2>8. PICK a : a = [CapAt EXCEPT !.result = "sent"]
    OBVIOUS
  <2>9. a \in CapAgent /\ a.job = j /\ a.result = "sent"
    BY <1>1, <1>3, <2>8 DEF CapAgent
  <2>10. agent' \in [Node -> CapAgent] /\ CapAt' = a
    BY <2>1, <2>8, <2>9 DEF CapType, CapAt
  <2>11. CapJob' = r
    BY <2>5, <2>9, <2>10 DEF CapJob
  <2>12. CapType'
    BY <1>2, <1>3, <2>5, <2>9, <2>10 DEF CapType
  <2>13. CapMade'
    BY DEF CapMade
  <2>14. ASSUME faults = 0  PROVE CapCalm'
    <3> USE <2>14 DEF CapCalm
    <3>1. CapGuard'
      BY <1>1, <1>2 DEF CapGuard
    <3>2. CapWork'
      <4>1. \A k \in DOMAIN jobs : ~CapDue(jobs[k])
        BY <1>1, <1>2 DEF CapWork
      <4> QED  BY <2>3, <2>5, <2>9, <2>10, <2>11, <4>1 DEF CapWork
    <3>3. CapDoes' /\ CapDone'
      BY <1>1, <1>3, <2>3, <2>9, <2>10, <2>11 DEF CapDoes, CapDone
    <3>4. CapAvail'
      BY <1>1, <1>3, <2>3, <2>9, <2>10, <2>11 DEF CapAvail
    <3> QED  BY <3>1, <3>2, <3>3, <3>4
  <2> QED  BY <1>2, <2>7, <2>12, <2>13, <2>14
<1>5. CASE jobs[j].status # "running"
  <2>1. faults # 0
    BY <1>1, <1>2, <1>3, <1>5 DEF CapCalm, CapWork
  <2>2. jobs' = jobs /\ agent' = [agent EXCEPT ![Caps!TheNode] = Caps!AgentIdle]
    BY <1>1, <1>5 DEF Caps!AgentJobResult, CapAt
  <2>3. agent' \in [Node -> CapAgent] /\ CapAt' = Caps!AgentIdle
    BY <2>2, CapIdle DEF CapType, CapAt
  <2>4. CapType'
    BY <1>2, <1>3, <2>2, <2>3, CapIdle DEF CapType
  <2> QED  BY <1>2, <2>1, <2>2, <2>4 DEF CapCalls, CapOwed, CapMade
<1> QED  BY <1>4, <1>5

\* Crashes, lapsed leases and requeues.
LEMMA CapFaults ==
  ASSUME CapInv, Caps!TheNode \in Node,
         Caps!CompletionCrash \/ Caps!LeaseLapse \/ Caps!AgentCrash \/ Caps!RequeueNodeStuckJob,
         UNCHANGED <<cap, call, present, policy, run, owed>>
  PROVE  CapInv'
<1> USE DEF CapInv
<1>1. faults' \in Nat /\ faults' # 0
  BY DEF Caps!CompletionCrash, Caps!LeaseLapse, Caps!AgentCrash, Caps!RequeueNodeStuckJob, Caps!Fault, CapType
<1>2. CapMade'
  BY DEF CapMade
<1>3. SUFFICES /\ jobs' \in Seq(CapRow) /\ Len(jobs) <= Len(jobs') /\ CapOwed' /\ CapCalls'
               /\ agent' \in [Node -> CapAgent]
               /\ CapAt' = CapAt \/ CapAt' = Caps!AgentIdle
  <2>1. Len(jobs) \in Nat /\ Len(jobs') \in Nat
    BY <1>3 DEF CapType
  <2>2. CapAt'.job \in 0..Len(jobs') /\ (CapAt'.result # "none" => CapAt'.job # 0)
    BY <1>3, <2>1, CapIdle DEF CapType
  <2>3. CapType'
    BY <1>1, <1>3, <2>2 DEF CapType
  <2> QED  BY <1>1, <1>2, <1>3, <2>3
<1>4. CASE Caps!AgentCrash
  <2>1. UNCHANGED jobs /\ \E n \in Node : agent' = [agent EXCEPT ![n] = Caps!AgentIdle]
    BY <1>4 DEF Caps!AgentCrash
  <2>2. agent' \in [Node -> CapAgent] /\ (CapAt' = CapAt \/ CapAt' = Caps!AgentIdle)
    BY <2>1, CapIdle DEF CapType, CapAt
  <2> QED  BY <2>1, <2>2 DEF CapType, CapOwed, CapCalls
<1>5. CASE Caps!CompletionCrash \/ Caps!LeaseLapse
  <2>1. PICK j \in DOMAIN jobs :
          \/ /\ jobs[j].effect = "pending" /\ jobs' = [jobs EXCEPT ![j].effect = "lost"]
             /\ agent' = [n \in Node |-> IF agent[n].job = j THEN Caps!AgentIdle ELSE agent[n]]
          \/ /\ jobs[j].status = "running" /\ jobs' = [jobs EXCEPT ![j].status = "queued"] /\ UNCHANGED agent
    BY <1>5 DEF Caps!CompletionCrash, Caps!LeaseLapse, Caps!Job, Caps!EffectDue, Caps!Answer
  <2>2. agent' \in [Node -> CapAgent] /\ (CapAt' = CapAt \/ CapAt' = Caps!AgentIdle)
    BY <2>1, CapIdle DEF CapType, CapAt
  <2>3. jobs[j] \in CapRow /\ Len(jobs) \in Nat
    BY DEF CapType
  <2>4. CASE jobs[j].effect = "pending" /\ jobs' = [jobs EXCEPT ![j].effect = "lost"]
    <3>1. PICK r : r = [jobs[j] EXCEPT !.effect = "lost"]
      OBVIOUS
    <3>2. r \in CapRow /\ r.type = jobs[j].type /\ r.payload = jobs[j].payload /\ r.effect = "lost"
      BY <2>3, <2>4, <3>1 DEF CapRow
    <3>3. jobs' = [jobs EXCEPT ![j] = r]
      BY <2>4, <3>1, Zenon
    <3>4. CapOpen(jobs[j]) => CapOpen(r)
      BY <3>2 DEF CapOpen
    <3>5. jobs' \in Seq(CapRow) /\ Len(jobs') = Len(jobs)
      BY <3>2, <3>3, CapJobRewritten
    <3>6. CapOwed' /\ CapCalls'
      BY <3>2, <3>3, <3>4, CapOwedRow
    <3> QED  BY <2>2, <2>3, <3>5, <3>6
  <2>5. CASE jobs[j].status = "running" /\ jobs' = [jobs EXCEPT ![j].status = "queued"]
    <3>1. PICK r : r = [jobs[j] EXCEPT !.status = "queued"]
      OBVIOUS
    <3>2. r \in CapRow /\ r.type = jobs[j].type /\ r.payload = jobs[j].payload /\ r.status = "queued"
      BY <2>3, <2>5, <3>1 DEF CapRow
    <3>3. jobs' = [jobs EXCEPT ![j] = r]
      BY <2>5, <3>1, Zenon
    <3>4. CapOpen(jobs[j]) => CapOpen(r)
      BY <3>2 DEF CapOpen
    <3>5. jobs' \in Seq(CapRow) /\ Len(jobs') = Len(jobs)
      BY <3>2, <3>3, CapJobRewritten
    <3>6. CapOwed' /\ CapCalls'
      BY <3>2, <3>3, <3>4, CapOwedRow
    <3> QED  BY <2>2, <2>3, <3>5, <3>6
  <2> QED  BY <2>1, <2>4, <2>5
<1>6. CASE Caps!RequeueNodeStuckJob
  <2>1. PICK j \in DOMAIN jobs :
          /\ jobs[j].status = "running" /\ UNCHANGED agent
          /\ jobs' = Append([jobs EXCEPT ![j] = [jobs[j] EXCEPT !.status = "cancelled"]],
                            Caps!newJob(jobs[j].type, jobs[j].node, jobs[j].scope, jobs[j].payload, jobs[j].priority))
    BY <1>6, Zenon DEF Caps!RequeueNodeStuckJob, Caps!Job
  <2>2. agent' \in [Node -> CapAgent] /\ CapAt' = CapAt
    BY <2>1 DEF CapType, CapAt
  <2>3. jobs[j] \in CapRow /\ Len(jobs) \in Nat /\ DOMAIN jobs = 1..Len(jobs)
    BY DEF CapType
  <2>4. PICK r : r = [jobs[j] EXCEPT !.status = "cancelled"]
    OBVIOUS
  <2>5. PICK q : q = Caps!newJob(jobs[j].type, jobs[j].node, jobs[j].scope, jobs[j].payload, jobs[j].priority)
    OBVIOUS
  <2>6. r \in CapRow /\ r.type = jobs[j].type
    BY <2>1, <2>3, <2>4 DEF CapRow
  <2>7. q \in CapRow /\ q.type = jobs[j].type /\ q.payload = jobs[j].payload /\ q.status = "queued"
    BY <2>3, <2>5 DEF CapRow, Caps!newJob
  <2>8. PICK K : K = [jobs EXCEPT ![j] = r]
    OBVIOUS
  <2>9. /\ K \in Seq(CapRow) /\ DOMAIN K = DOMAIN jobs /\ Len(K) = Len(jobs) /\ K[j] = r
        /\ \A k \in DOMAIN jobs : k # j => K[k] = jobs[k]
    <3>1. PICK J \in Seq(CapRow) : J = jobs
      BY DEF CapType
    <3> QED  BY <2>6, <2>8, <3>1, CapRewritten
  <2>10. jobs' = Append(K, q)
    BY <2>1, <2>4, <2>5, <2>8
  <2>11. /\ jobs' \in Seq(CapRow) /\ DOMAIN jobs' = DOMAIN jobs \cup {Len(jobs) + 1}
         /\ jobs'[Len(jobs) + 1] = q /\ jobs'[j] = r
         /\ \A k \in DOMAIN jobs : k # j => jobs'[k] = jobs[k]
    BY <2>7, <2>9, <2>10, Appended
  <2>12. CapGrow /\ Len(jobs) <= Len(jobs')
    <3>1. DOMAIN jobs' = 1..Len(jobs') /\ Len(jobs') \in Nat
      BY <2>11
    <3>2. Len(jobs) <= Len(jobs')
      BY <2>3, <2>11, <3>1
    <3> QED  BY <2>6, <2>11, <3>2 DEF CapGrow
  <2>13. CapCalls'
    BY <2>12, CapCallsKept
  <2>14. \A i \in jobs[j].payload.deps : CapOpen(jobs[j]) =>
           CapOpen(jobs'[Len(jobs) + 1]) /\ i \in jobs'[Len(jobs) + 1].payload.deps
    BY <2>7, <2>11 DEF CapOpen
  <2>15. CapOwed'
    <3>1. SUFFICES ASSUME NEW i \in owed
                   PROVE  \E k \in DOMAIN jobs' : CapOpen(jobs'[k]) /\ i \in jobs'[k].payload.deps
      BY DEF CapOwed
    <3>2. PICK k \in DOMAIN jobs : CapOpen(jobs[k]) /\ i \in jobs[k].payload.deps
      BY DEF CapOwed
    <3> QED  BY <2>11, <2>14, <3>2
  <2> QED  BY <2>2, <2>11, <2>12, <2>13, <2>15
<1> QED  BY <1>4, <1>5, <1>6

-----------------------------------------------------------------------------
(* The completions. *)

\* A completion that was due is over, and the agent has its answer.
LEMMA CapAnswers ==
  ASSUME CapInv, Caps!TheNode \in Node, NEW j \in DOMAIN jobs, CapDue(jobs[j]), Caps!Answer(j),
         jobs[j].effect = "pending" => jobs[j].type # "install",
         UNCHANGED <<cap, call, present, policy, run, faults>>,
         jobs' \in Seq(CapRow), DOMAIN jobs \subseteq DOMAIN jobs', ~CapDue(jobs'[j]),
         \A k \in DOMAIN jobs : k # j => jobs'[k] = jobs[k],
         \A k \in DOMAIN jobs' \ DOMAIN jobs : jobs'[k].status = "queued",
         owed' \subseteq Instance, CapCalls', CapOwed'
  PROVE  CapInv'
<1> USE DEF CapInv
<1>1. agent' = [n \in Node |-> IF agent[n].job = j THEN Caps!AgentIdle ELSE agent[n]]
  BY DEF Caps!Answer
<1>2. Caps!AgentIdle \in CapAgent /\ Caps!AgentIdle.job = 0 /\ Caps!AgentIdle.result = "none"
  BY CapIdle
<1>3. agent' \in [Node -> CapAgent] /\ CapAt' = IF CapAt.job = j THEN Caps!AgentIdle ELSE CapAt
  BY <1>1, <1>2 DEF CapType, CapAt
<1>4. Len(jobs) \in Nat /\ Len(jobs') \in Nat /\ DOMAIN jobs = 1..Len(jobs) /\ DOMAIN jobs' = 1..Len(jobs')
  BY DEF CapType
<1>5. Len(jobs) <= Len(jobs')
  BY <1>4
<1>6. CapAt'.job \in 0..Len(jobs') /\ (CapAt'.result # "none" => CapAt'.job # 0)
  BY <1>2, <1>3, <1>4, <1>5 DEF CapType
<1>7. CapType'
  BY <1>3, <1>6 DEF CapType
<1>8. CapMade'
  BY DEF CapMade
<1>9. ASSUME faults = 0  PROVE CapCalm'
  <2> USE <1>9 DEF CapCalm
  <2>1. CapAt.job = j /\ CapAt.result = "sent"
    BY DEF CapWork
  <2>2. CapAt'.job = 0
    BY <1>2, <1>3, <2>1
  <2>3. policy # "agent" /\ ~run.made
    BY <2>1 DEF CapGuard
  <2>4. CapGuard'
    BY <2>3 DEF CapGuard
  <2>5. \A k \in DOMAIN jobs' : ~CapDue(jobs'[k])
    <3>1. \A k \in DOMAIN jobs : k # j => ~CapDue(jobs[k])
      BY <2>1 DEF CapWork
    <3>2. \A k \in DOMAIN jobs' \ DOMAIN jobs : jobs'[k].effect = "none"
      <4>1. \A k \in DOMAIN jobs' : jobs'[k] \in CapRow
        BY <1>4
      <4> QED  BY <4>1, CapWaiting
    <3> QED  BY <3>1, <3>2 DEF CapDue
  <2>6. CapWork'
    BY <2>2, <2>5 DEF CapWork
  <2>7. CapDoes' /\ CapDone'
    BY <2>2 DEF CapDoes, CapDone
  <2>8. CapAvail'
    BY <2>1 DEF CapAvail, CapJob, CapDue
  <2> QED  BY <2>4, <2>6, <2>7, <2>8
<1> QED  BY <1>7, <1>8, <1>9

\* The row of a capability job: what it says is what the job found.
LEMMA CapEffects ==
  ASSUME CapInv, Caps!TheNode \in Node, NEW j \in DOMAIN jobs, Caps!CapabilityEffects(j)
  PROVE  CapInv'
<1> USE DEF CapInv
<1>1. /\ jobs[j].effect = "pending" /\ jobs[j].type \in {"install", "verify"}
      /\ jobs' = [jobs EXCEPT ![j].effect = "dependents"]
      /\ UNCHANGED <<call, present, policy, run, owed, agent, faults>>
  BY DEF Caps!CapabilityEffects, Caps!EffectDue
<1>2. cap' = Caps!Row("available", "installer") => jobs[j].status # "failed"
  <2>1. CASE jobs[j].status = "failed"
    <3>1. cap' = Caps!Row("failed", "installer")
      BY <2>1 DEF Caps!CapabilityEffects
    <3> QED  BY <3>1 DEF Caps!Row
  <2> QED  BY <2>1
<1>3. jobs[j] \in CapRow /\ Len(jobs) \in Nat
  BY DEF CapType
<1>4. PICK r : r = [jobs[j] EXCEPT !.effect = "dependents"]
  OBVIOUS
<1>5. r \in CapRow /\ r.type = jobs[j].type /\ r.payload = jobs[j].payload /\ r.status = jobs[j].status
      /\ r.effect = "dependents" /\ r.status \in {"succeeded", "failed"}
  BY <1>1, <1>3, <1>4 DEF CapRow
<1>6. jobs' = [jobs EXCEPT ![j] = r]
  BY <1>1, <1>4, Zenon
<1>7. /\ jobs' \in Seq(CapRow) /\ DOMAIN jobs' = DOMAIN jobs /\ Len(jobs') = Len(jobs) /\ jobs'[j] = r
      /\ \A k \in DOMAIN jobs : k # j => jobs'[k] = jobs[k]
  BY <1>5, <1>6, CapJobRewritten
<1>8. CapOpen(jobs[j]) => CapOpen(r)
  BY <1>5 DEF CapOpen
<1>9. CapOwed' /\ CapCalls'
  BY <1>1, <1>5, <1>6, <1>8, CapOwedRow
<1>10. CapAt' = CapAt
  BY <1>1 DEF CapAt
<1>11. CapType' /\ CapMade'
  BY <1>1, <1>7, <1>10 DEF CapType, CapMade
<1>12. ASSUME faults = 0  PROVE CapCalm'
  <2> USE <1>12 DEF CapCalm
  <2>1. CapAt.job = j /\ CapAt.result = "sent" /\ CapJob = jobs[j] /\ CapJob' = r
    BY <1>1, <1>7, <1>10 DEF CapWork, CapDue, CapJob
  <2>2. CapGuard'
    BY <1>1, <1>10 DEF CapGuard
  <2>3. CapWork'
    BY <1>7, <1>10, <2>1 DEF CapWork
  <2>4. CapDoes' /\ CapDone'
    BY <1>1, <1>5, <1>10, <2>1 DEF CapDoes, CapDone
  <2>5. CapAvail'
    <3>1. cap' = Caps!Row("available", "installer") => present
      BY <1>1, <1>2, <1>3, <1>5, <2>1 DEF CapDone, CapType
    <3> QED  BY <1>1, <3>1 DEF CapAvail
  <2> QED  BY <2>2, <2>3, <2>4, <2>5
<1> QED  BY <1>1, <1>9, <1>11, <1>12

\* The completion of a job that nobody waits behind.
LEMMA CapPlain ==
  ASSUME CapInv, Caps!TheNode \in Node, NEW j \in DOMAIN jobs,
         Caps!EffectDue(j), jobs[j].type # "install", Caps!EffectDone(j),
         UNCHANGED <<cap, call, present, policy, run, owed, faults>>
  PROVE  CapInv'
<1> USE DEF CapInv
<1>1. jobs[j].effect = "pending" /\ jobs' = [jobs EXCEPT ![j].effect = "applied"] /\ Caps!Answer(j) /\ CapDue(jobs[j])
  BY DEF Caps!EffectDue, Caps!EffectDone, CapDue
<1>2. jobs[j] \in CapRow
  BY DEF CapType
<1>3. PICK r : r = [jobs[j] EXCEPT !.effect = "applied"]
  OBVIOUS
<1>4. r \in CapRow /\ r.type = jobs[j].type /\ r.payload = jobs[j].payload /\ r.effect = "applied"
  BY <1>1, <1>2, <1>3 DEF CapRow
<1>5. jobs' = [jobs EXCEPT ![j] = r]
  BY <1>1, <1>3, Zenon
<1>6. /\ jobs' \in Seq(CapRow) /\ DOMAIN jobs' = DOMAIN jobs /\ jobs'[j] = r
      /\ \A k \in DOMAIN jobs : k # j => jobs'[k] = jobs[k]
  BY <1>4, <1>5, CapJobRewritten
<1>7. CapOpen(jobs[j]) => CapOpen(r)
  BY DEF CapOpen
<1>8. CapOwed' /\ CapCalls'
  BY <1>4, <1>5, <1>7, CapOwedRow
<1>9. ~CapDue(jobs'[j]) /\ owed' \subseteq Instance
  BY <1>4, <1>6 DEF CapDue, CapType
<1> QED  BY <1>1, <1>6, <1>8, <1>9, CapAnswers

\* The dependents of an install: they fail, their applies are queued, or they
\* wait behind another install.
LEMMA CapDependents ==
  ASSUME CapInv, Caps!TheNode \in Node, NEW j \in DOMAIN jobs, Caps!DependentEffects(j)
  PROVE  CapInv'
<1> USE DEF CapInv
<1>1. PICK D : D = jobs[j].payload.deps
  OBVIOUS
<1>2. jobs[j] \in CapRow /\ jobs[j].effect = "dependents" /\ CapDue(jobs[j])
  BY DEF CapType, Caps!DependentEffects, CapDue
<1>3. D \in SUBSET Instance /\ IsFiniteSet(D) /\ (D # {} => jobs[j].type = "install")
  BY <1>1, <1>2 DEF CapRow
<1>4. PICK r : r = [jobs[j] EXCEPT !.effect = "applied"]
  OBVIOUS
<1>5. r \in CapRow /\ r.type = jobs[j].type /\ r.effect = "applied"
  BY <1>2, <1>4 DEF CapRow
<1>6. PICK K : K = [jobs EXCEPT ![j] = r]
  OBVIOUS
<1>7. K = [jobs EXCEPT ![j].effect = "applied"]
  BY <1>4, <1>6, Zenon
<1>8. /\ K \in Seq(CapRow) /\ DOMAIN K = DOMAIN jobs /\ Len(K) = Len(jobs) /\ K[j] = r
      /\ \A k \in DOMAIN jobs : k # j => K[k] = jobs[k]
  <2>1. PICK J \in Seq(CapRow) : J = jobs
    BY DEF CapType
  <2> QED  BY <1>5, <1>6, <2>1, CapRewritten
<1>9. /\ Caps!Answer(j) /\ UNCHANGED <<cap, call, present, policy, run, faults>>
      /\ \/ jobs' = K /\ owed' = owed \ D
         \/ jobs' = K \o Caps!Applies(D) /\ owed' = owed \ D
         \/ jobs' = K /\ D = {} /\ owed' = owed
         \/ /\ owed' = owed
            /\ jobs' = Append(K, Caps!newJob("install", Caps!TheNode, Caps!TheNode,
                                   [by |-> Caps!strategyOf("none"), deps |-> D, ticket |-> Caps!NoJob], 60))
  BY <1>1, <1>7, Zenon DEF Caps!DependentEffects
<1>10. SUFFICES ASSUME /\ jobs' \in Seq(CapRow) /\ DOMAIN jobs \subseteq DOMAIN jobs'
                       /\ \A k \in DOMAIN jobs : jobs'[k] = K[k]
                       /\ \A k \in DOMAIN jobs' \ DOMAIN jobs : jobs'[k].status = "queued"
                       /\ owed' \subseteq owed
                       /\ \A i \in owed' \cap D :
                            \E k \in DOMAIN jobs' : CapOpen(jobs'[k]) /\ i \in jobs'[k].payload.deps
                PROVE  CapInv'
  <2>1. CASE jobs' = K /\ owed' = owed \ D
    BY <1>8, <1>10, <2>1
  <2>2. CASE jobs' = K /\ D = {} /\ owed' = owed
    BY <1>8, <1>10, <2>2
  <2>3. CASE jobs' = K \o Caps!Applies(D) /\ owed' = owed \ D
    <3>1. PICK L \in Seq(CapRow) : L = Caps!Applies(D) /\ \A n \in DOMAIN L : L[n].status = "queued"
      BY <1>3, CapApplies
    <3>2. /\ K \o L \in Seq(CapRow) /\ DOMAIN K \subseteq DOMAIN (K \o L)
          /\ \A k \in DOMAIN K : (K \o L)[k] = K[k]
          /\ \A k \in DOMAIN (K \o L) \ DOMAIN K : \E l \in DOMAIN L : (K \o L)[k] = L[l]
      BY <1>8, CapJoined
    <3>3. \A k \in DOMAIN (K \o L) \ DOMAIN K : (K \o L)[k].status = "queued"
      BY <3>1, <3>2, Zenon
    <3>4. jobs' = K \o L
      BY <2>3, <3>1
    <3>5. owed' \subseteq owed /\ owed' \cap D = {}
      BY <2>3
    <3> QED  BY <1>8, <1>10, <3>2, <3>3, <3>4, <3>5, Zenon
  <2>4. CASE /\ owed' = owed
             /\ jobs' = Append(K, Caps!newJob("install", Caps!TheNode, Caps!TheNode,
                                    [by |-> Caps!strategyOf("none"), deps |-> D, ticket |-> Caps!NoJob], 60))
    <3>1. PICK by \in {"binary_repository", "ubuntu_repo", "nginx_org_repo"} : by = Caps!strategyOf("none")
      BY DEF Caps!strategyOf
    <3>2. PICK q : q = Caps!newJob("install", Caps!TheNode, Caps!TheNode, [by |-> by, deps |-> D, ticket |-> 0], 60)
      OBVIOUS
    <3>3. q \in CapRow /\ q.status = "queued" /\ q.payload.deps = D /\ q.type = "install"
      BY <1>3, <3>1, <3>2 DEF Caps!newJob, CapRow
    <3>4. jobs' = Append(K, q)
      BY <2>4, <3>1, <3>2, Zenon DEF Caps!NoJob
    <3>5. /\ jobs' \in Seq(CapRow) /\ DOMAIN jobs' = DOMAIN jobs \cup {Len(jobs) + 1}
          /\ jobs'[Len(jobs) + 1] = q /\ \A k \in DOMAIN jobs : jobs'[k] = K[k]
      BY <1>8, <3>3, <3>4, Appended
    <3>6. CapOpen(q)
      BY <3>3 DEF CapOpen
    <3> QED  BY <1>10, <2>4, <3>3, <3>5, <3>6
  <2> QED  BY <1>9, <2>1, <2>2, <2>3, <2>4
<1>11. CapGrow
  BY <1>5, <1>8, <1>10 DEF CapGrow
<1>12. CapCalls'
  BY <1>9, <1>11, CapCallsKept
<1>13. CapOwed'
  <2>1. \A i \in owed' \ D : i \in owed /\
          \A k \in DOMAIN jobs : CapOpen(jobs[k]) /\ i \in jobs[k].payload.deps
             => CapOpen(jobs'[k]) /\ i \in jobs'[k].payload.deps
    BY <1>1, <1>8, <1>10
  <2> QED  BY <1>10, <1>11, <2>1, CapOwedKept
<1>14. ~CapDue(jobs'[j]) /\ owed' \subseteq Instance
  BY <1>5, <1>8, <1>10 DEF CapDue, CapType
<1>15. \A k \in DOMAIN jobs : k # j => jobs'[k] = jobs[k]
  BY <1>8, <1>10
<1> QED  BY <1>2, <1>9, <1>10, <1>12, <1>13, <1>14, <1>15, CapAnswers

-----------------------------------------------------------------------------
(* The invariant, and what follows from it. *)

\* Nothing is owed at first, and no guard of the agent's is in place.
LEMMA CapInitially ==
  ASSUME Caps!TheNode \in Node, Caps!Init
  PROVE  CapInv
<1>1. /\ jobs = <<>> /\ agent = [n \in Node |-> Caps!AgentIdle] /\ faults = 0 /\ owed = {}
      /\ run = [by |-> "none", ok |-> TRUE, made |-> FALSE] /\ policy \in {"none", "foreign"}
      /\ call = [i \in Instance |-> [pc |-> "idle", job |-> 0]] /\ cap = Caps!Row("missing", "inventory")
  BY DEF Caps!Init, Caps!JobsInit, Caps!NoRun, Caps!NoCall, Caps!NoJob
<1>2. jobs \in Seq(CapRow) /\ Len(jobs) = 0 /\ DOMAIN jobs = {}
  BY <1>1
<1>3. agent \in [Node -> CapAgent] /\ CapAt.job = 0 /\ CapAt.result = "none"
  BY <1>1, CapIdle DEF CapAt
<1>4. run \in CapRun /\ ~run.made
  BY <1>1 DEF CapRun
<1>5. CapType
  BY <1>1, <1>2, <1>3, <1>4 DEF CapType
<1>6. CapCalls /\ CapOwed /\ CapMade
  BY <1>1, <1>4 DEF CapCalls, CapOwed, CapMade
<1>7. cap # Caps!Row("available", "installer")
  BY <1>1 DEF Caps!Row
<1>8. CapCalm
  BY <1>1, <1>2, <1>3, <1>4, <1>7 DEF CapCalm, CapGuard, CapWork, CapDoes, CapDone, CapAvail
<1> QED  BY <1>5, <1>6, <1>8 DEF CapInv

\* Nothing moves.
LEMMA CapUnmoved ==
  ASSUME CapInv, UNCHANGED <<jobs, agent, faults, cap, call, present, policy, run, owed>>
  PROVE  CapInv'
  BY DEF CapInv, CapType, CapCalls, CapOwed, CapMade, CapCalm, CapGuard, CapWork, CapDoes, CapDone, CapAvail, CapAt, CapJob

\* Every step keeps the invariant.
LEMMA CapStep ==
  ASSUME CapInv, Caps!TheNode \in Node, [Caps!Next]_Caps!vars
  PROVE  CapInv'
<1>1. CASE UNCHANGED Caps!vars
  BY <1>1, CapUnmoved DEF Caps!vars, Caps!featureVars, Caps!jobVars
<1>2. CASE \E i \in Instance : Caps!UpdateInstanceStatus(i)
  BY <1>2, CapUpdates
<1>3. CASE \E i \in Instance : Caps!FindInstall(i)
  BY <1>3, CapFinds
<1>4. CASE (\E i \in Instance : Caps!CreateInstall(i)) \/ Caps!CreateNodeCapabilityInstallJob
  BY <1>4, CapCreates
<1>5. CASE \E i \in Instance : Caps!mergeCapabilityInstallJobDependents(i)
  BY <1>5, CapMerges
<1>6. CASE \/ \E i \in Instance : Caps!markCapabilityInstallQueued(i) \/ Caps!WriteStatus(i)
           \/ Caps!CreateBinaryArtifact \/ Caps!TicketTime
  BY <1>6, CapRests
<1>7. CASE Caps!CreateNodeCapabilityVerifyJob
  BY <1>7, CapVerifies
<1>8. CASE Caps!AgentNextJob
  BY <1>8, CapClaims
<1>9. CASE \/ \E step \in {"update", "repository", "enable"} : Caps!PrepareStep(step)
           \/ Caps!downloadBinaryRepositoryArtifact \/ Caps!verifyCapability
  BY <1>9, CapPrepares
<1>10. CASE Caps!preventPackageServiceAutostart
  BY <1>10, CapGuards
<1>11. CASE Caps!installBinaryRepositoryCapability \/ Caps!installUbuntuPackageCapability \/ Caps!PurgeNginx
  BY <1>11, CapInstalls
<1>12. CASE Caps!recordCapabilityInventorySync \/ Caps!ApplyInstance
  BY <1>12, CapFinishes
<1>13. CASE \E j \in DOMAIN jobs : Caps!CapabilityEffects(j)
  BY <1>13, CapEffects
<1>14. CASE \E j \in DOMAIN jobs : Caps!DependentEffects(j)
  BY <1>14, CapDependents
<1>15. CASE \E j \in DOMAIN jobs : Caps!InstanceEffects(j) \/ Caps!InventoryEffects(j)
  <2>1. PICK j \in DOMAIN jobs : Caps!InstanceEffects(j) \/ Caps!InventoryEffects(j)
    BY <1>15
  <2>2. Caps!EffectDue(j) /\ jobs[j].type # "install" /\ Caps!EffectDone(j)
        /\ UNCHANGED <<cap, call, present, policy, run, owed, faults>>
    BY <2>1 DEF Caps!InstanceEffects, Caps!InventoryEffects, Caps!featureVars
  <2> QED  BY <2>2, CapPlain
<1>16. CASE Caps!Cancel
  BY <1>16, CapCancels
<1>17. CASE Caps!QueueStep
  <2>1. UNCHANGED <<cap, call, present, policy, run, owed>>
    BY <1>17 DEF Caps!QueueStep, Caps!featureVars
  <2>2. CASE Caps!AgentJobResult(Caps!TheNode)
    BY <2>1, <2>2, CapResult
  <2>3. CASE Caps!CompletionCrash \/ Caps!LeaseLapse \/ Caps!AgentCrash \/ Caps!RequeueNodeStuckJob
    BY <2>1, <2>3, CapFaults
  <2> QED  BY <1>17, <2>2, <2>3 DEF Caps!QueueStep
<1>18. CASE Caps!Next
  BY <1>2, <1>3, <1>4, <1>5, <1>6, <1>7, <1>8, <1>9, <1>10, <1>11, <1>12, <1>13, <1>14, <1>15, <1>16,
     <1>17, <1>18, Zenon DEF Caps!Next, Caps!Job
<1> QED  BY <1>1, <1>18

\* The invariant holds as long as there is a node.
LEMMA CapAlways ==
  ASSUME Node # {}
  PROVE  /\ Caps!Spec => []CapInv
         /\ Spec => [](part \in {"nginx", "packages"} => CapInv)
<1>1. Caps!TheNode \in Node
  BY DEF Caps!TheNode
<1>2. Caps!Init => CapInv
  BY <1>1, CapInitially
<1>3. CapInv /\ [Caps!Next]_Caps!vars => CapInv'
  BY <1>1, CapStep
<1>4. Caps!Spec => []CapInv
  BY <1>2, <1>3, PTL DEF Caps!Spec
<1> DEFINE Here == part \in {"nginx", "packages"} => CapInv
<1>5. Init => Here
  BY <1>2, InstallsBegin
<1>6. Here /\ [Next]_vars => Here'
  BY <1>3, InstallsGoOn
<1>7. Spec => []Here
  BY <1>5, <1>6, PTL DEF Spec
<1> QED  BY <1>4, <1>7

(***************************************************************************)
(* An apply that UpdateInstanceStatus has put off is answered: once no job *)
(* is queued, runs, waits for its completion or has lost it, nobody is     *)
(* owed anything, whatever the requests, the joins of an install that is   *)
(* ending and the second installs do.                                      *)
(***************************************************************************)
THEOREM RequestsAreAnswered ==
  ASSUME Node # {}
  PROVE  /\ Caps!Spec => []Caps!RequestsAnswered
         /\ Spec => []RequestsAnswered
<1>1. CapInv => Caps!RequestsAnswered
  BY DEF CapInv, CapOwed, CapOpen, Caps!RequestsAnswered, Caps!Job, Caps!Unfinished, Caps!Due
<1>2. (part \in {"nginx", "packages"} => CapInv) => RequestsAnswered
  BY <1>1 DEF RequestsAnswered
<1>3. Caps!Spec => []Caps!RequestsAnswered
  BY <1>1, CapAlways, PTL
<1>4. Spec => []RequestsAnswered
  BY <1>2, CapAlways, PTL
<1> QED  BY <1>3, <1>4

(***************************************************************************)
(* Without a fault, a runtime that applyJobCompletionSideEffects has       *)
(* called available is on the node once no handler works, in spite of the  *)
(* purge that the fallback of installNginxUbuntuRepo begins with.          *)
(***************************************************************************)
THEOREM InstalledMeansPresent ==
  ASSUME Node # {}
  PROVE  /\ Caps!Spec => []Caps!InstalledIsPresent
         /\ Spec => []InstalledIsPresent
<1>1. Caps!TheNode \in Node
  BY DEF Caps!TheNode
<1>2. CapInv => Caps!InstalledIsPresent
  BY <1>1 DEF CapInv, CapCalm, CapAvail, CapAt, Caps!InstalledIsPresent, Caps!Quiet, Caps!NoJob
<1>3. (part \in {"nginx", "packages"} => CapInv) => InstalledIsPresent
  BY <1>2 DEF InstalledIsPresent
<1>4. Caps!Spec => []Caps!InstalledIsPresent
  BY <1>2, CapAlways, PTL
<1>5. Spec => []InstalledIsPresent
  BY <1>3, CapAlways, PTL
<1> QED  BY <1>4, <1>5

(***************************************************************************)
(* preventPackageServiceAutostart gives the package policy back on every   *)
(* path of an install: without a fault the agent's guard is gone once no   *)
(* handler works, and a handler that is to take it away has put it there.  *)
(***************************************************************************)
THEOREM GuardIsRestored ==
  ASSUME Node # {}
  PROVE  /\ Caps!Spec => []Caps!GuardRestored
         /\ Spec => []GuardRestored
<1>1. Caps!TheNode \in Node
  BY DEF Caps!TheNode
<1>2. CapInv => Caps!GuardRestored
  BY <1>1 DEF CapInv, CapMade, CapCalm, CapGuard, CapAt, Caps!GuardRestored, Caps!Quiet, Caps!NoJob
<1>3. (part \in {"nginx", "packages"} => CapInv) => GuardRestored
  BY <1>2 DEF GuardRestored
<1>4. Caps!Spec => []Caps!GuardRestored
  BY <1>2, CapAlways, PTL
<1>5. Spec => []GuardRestored
  BY <1>3, CapAlways, PTL
<1> QED  BY <1>4, <1>5

-----------------------------------------------------------------------------
(***************************************************************************)
(* Traffic accounting.                                                     *)
(***************************************************************************)
\* A set of numbers that is not empty has a least one.
LEMMA LeastNumber ==
  ASSUME NEW T, T \subseteq Nat, T # {}
  PROVE  \E m \in T : \A n \in T : m <= n
<1>1. PICK R : R = OpToRel(<, Nat)
  OBVIOUS
<1>2. IsWellFoundedOn(R, Nat)
  BY <1>1, NatLessThanWellFounded, Zenon
<1>3. \A x, y \in Nat : x < y => <<x, y>> \in R
  BY <1>1 DEF OpToRel
<1>4. PICK x \in T : \A y \in T : ~ (<<y, x>> \in R)
  BY <1>2, WFMin
<1>5. \A y \in T : x <= y
  <2> SUFFICES ASSUME NEW y \in T PROVE x <= y  OBVIOUS
  <2>1. x \in Nat /\ y \in Nat /\ ~ (y < x)
    BY <1>3, <1>4
  <2> QED  BY <2>1
<1> QED  BY <1>5

\* Induction, for sets: one with 0 and the successors of its numbers has all.
LEMMA NumbersByInduction ==
  ASSUME NEW S, 0 \in S, \A n \in Nat : n \in S => n + 1 \in S
  PROVE  \A n \in Nat : n \in S
<1> SUFFICES ASSUME NEW k \in Nat, k \notin S PROVE FALSE  OBVIOUS
<1>1. PICK m \in Nat \ S : \A n \in Nat \ S : m <= n
  <2>1. PICK T : T = Nat \ S
    OBVIOUS
  <2>2. T \subseteq Nat /\ T # {}
    BY <2>1
  <2> QED  BY <2>1, <2>2, LeastNumber
<1>2. m # 0 /\ m - 1 \in Nat
  BY <1>1
<1>3. m - 1 \in S
  BY <1>1, <1>2
<1>4. (m - 1) + 1 \in S
  BY <1>2, <1>3
<1> QED  BY <1>1, <1>4

-----------------------------------------------------------------------------
(***************************************************************************)
(* Sums over sets of rows: what MapThenSumSet, which takes the rows one by *)
(* one in an order of its own, computes does not depend on that order.     *)
(***************************************************************************)
Value(r, s, d) == IF r.s = s THEN r.bytes[d] ELSE 0
One(R) == CHOOSE x \in R : TRUE
Adds(g, S, s, d) ==
  g = [R \in S |-> IF R = {} THEN 0 ELSE Value(One(R), s, d) + g[R \ {One(R)}]]

\* The row taken from a set that is not empty is one of it, and what is left is smaller.
LEMMA TakeOne ==
  ASSUME NEW R, IsFiniteSet(R), R # {}
  PROVE  /\ One(R) \in R /\ IsFiniteSet(R \ {One(R)})
         /\ Cardinality(R) \in Nat /\ Cardinality(R \ {One(R)}) \in Nat
         /\ Cardinality(R) = Cardinality(R \ {One(R)}) + 1
<1>1. One(R) \in R
  BY DEF One
<1>2. IsFiniteSet(R \ {One(R)}) /\ Cardinality(R \ {One(R)}) = Cardinality(R) - 1
  BY <1>1, FS_RemoveElement
<1>3. Cardinality(R) \in Nat /\ Cardinality(R \ {One(R)}) \in Nat
  BY <1>2, FS_CardinalityType
<1> QED  BY <1>1, <1>2, <1>3

\* There is a function that adds, for the subsets of a finite set.
LEMMA AddsExist ==
  ASSUME NEW S, IsFiniteSet(S), NEW s, NEW d
  PROVE  \E g : Adds(g, SUBSET S, s, d)
<1> DEFINE Up(n) == {R \in SUBSET S : Cardinality(R) <= n}
<1>1. PICK N : N = {n \in Nat : \E g : Adds(g, Up(n), s, d)}
  OBVIOUS
<1>2. 0 \in N
  <2>1. \A R \in Up(0) : R = {}
    <3> SUFFICES ASSUME NEW R \in SUBSET S, Cardinality(R) <= 0, R # {} PROVE FALSE  OBVIOUS
    <3>1. IsFiniteSet(R)
      BY FS_Subset
    <3>2. PICK k, j \in Nat : k = Cardinality(R) /\ k = j + 1
      BY <3>1, TakeOne
    <3> QED  BY <3>2
  <2>2. PICK g : g = [R \in Up(0) |-> 0]
    OBVIOUS
  <2>3. \A R \in Up(0) : (IF R = {} THEN 0 ELSE Value(One(R), s, d) + g[R \ {One(R)}]) = 0
    BY <2>1, Zenon
  <2>4. g = [R \in Up(0) |-> IF R = {} THEN 0 ELSE Value(One(R), s, d) + g[R \ {One(R)}]]
    <3> HIDE DEF Up
    <3> QED  BY <2>2, <2>3, Zenon
  <2>5. Adds(g, Up(0), s, d)
    <3> HIDE DEF Up
    <3> QED  BY <2>4 DEF Adds
  <2> QED  BY <1>1, <2>5
<1>3. ASSUME NEW n \in Nat, n \in N PROVE n + 1 \in N
  <2>1. PICK f : Adds(f, Up(n), s, d)
    BY <1>1, <1>3
  <2>2. PICK U, V : U = Up(n) /\ V = Up(n + 1)
    OBVIOUS
  <2>3. PICK g : g = [R \in V |-> IF R = {} THEN 0 ELSE Value(One(R), s, d) + f[R \ {One(R)}]]
    OBVIOUS
  <2>4. \A R \in U : R \in V
    <3> SUFFICES ASSUME NEW R \in U PROVE R \in V  OBVIOUS
    <3>1. R \in SUBSET S /\ Cardinality(R) <= n
      BY <2>2
    <3>2. Cardinality(R) \in Nat
      BY <3>1, FS_Subset, FS_CardinalityType
    <3>3. Cardinality(R) <= n + 1
      BY <3>1, <3>2
    <3> QED  BY <2>2, <3>1, <3>3
  <2>5. \A R \in V : R # {} => R \ {One(R)} \in U
    <3> SUFFICES ASSUME NEW R \in V, R # {} PROVE R \ {One(R)} \in U  OBVIOUS
    <3>1. R \in SUBSET S /\ Cardinality(R) <= n + 1 /\ IsFiniteSet(R)
      BY <2>2, FS_Subset
    <3>2. Cardinality(R \ {One(R)}) \in Nat /\ Cardinality(R) = Cardinality(R \ {One(R)}) + 1
      BY <3>1, TakeOne
    <3>3. Cardinality(R \ {One(R)}) <= n
      BY <3>1, <3>2
    <3>4. R \ {One(R)} \in SUBSET S
      BY <3>1
    <3> QED  BY <2>2, <3>3, <3>4
  <2>6. f = [R \in U |-> IF R = {} THEN 0 ELSE Value(One(R), s, d) + f[R \ {One(R)}]]
    BY <2>1, <2>2, Zenon DEF Adds
  <2>7. \A R \in U : f[R] = IF R = {} THEN 0 ELSE Value(One(R), s, d) + f[R \ {One(R)}]
    BY <2>6, Zenon
  <2>8. \A R \in V : g[R] = IF R = {} THEN 0 ELSE Value(One(R), s, d) + f[R \ {One(R)}]
    BY <2>3, Zenon
  <2>9. \A R \in U : g[R] = f[R]
    BY <2>4, <2>7, <2>8, Zenon
  <2>10. \A R \in V : (IF R = {} THEN 0 ELSE Value(One(R), s, d) + f[R \ {One(R)}])
                    = (IF R = {} THEN 0 ELSE Value(One(R), s, d) + g[R \ {One(R)}])
    BY <2>5, <2>9, Zenon
  <2>11. g = [R \in V |-> IF R = {} THEN 0 ELSE Value(One(R), s, d) + g[R \ {One(R)}]]
    BY <2>3, <2>10, Zenon
  <2>12. Adds(g, Up(n + 1), s, d)
    BY <2>2, <2>11, Zenon DEF Adds
  <2> HIDE DEF Up
  <2> QED  BY <1>1, <2>12
<1>4. \A n \in Nat : n \in N
  BY <1>2, <1>3, NumbersByInduction
<1>5. PICK n \in Nat : n = Cardinality(S)
  BY FS_CardinalityType
<1>6. Up(n) = SUBSET S
  BY <1>5, FS_Subset
<1>7. \E g : Adds(g, Up(n), s, d)
  BY <1>1, <1>4
<1> HIDE DEF Up
<1> QED  BY <1>6, <1>7

Agree(S, T, s, d) ==
  \A g, h : Adds(g, SUBSET S, s, d) /\ Adds(h, SUBSET T, s, d) => \A R \in SUBSET (S \cap T) : g[R] = h[R]

\* Two such functions agree where both are defined.
LEMMA AddsAgree ==
  ASSUME NEW s, NEW d, NEW S, NEW T, IsFiniteSet(S)
  PROVE  Agree(S, T, s, d)
<1> SUFFICES ASSUME NEW g, NEW h, Adds(g, SUBSET S, s, d), Adds(h, SUBSET T, s, d)
             PROVE  \A R \in SUBSET (S \cap T) : g[R] = h[R]
  BY DEF Agree
<1>1. PICK N : N = {n \in Nat : \A R \in SUBSET (S \cap T) : Cardinality(R) = n => g[R] = h[R]}
  OBVIOUS
<1>2. ASSUME NEW R \in SUBSET (S \cap T)
      PROVE  /\ g[R] = IF R = {} THEN 0 ELSE Value(One(R), s, d) + g[R \ {One(R)}]
             /\ h[R] = IF R = {} THEN 0 ELSE Value(One(R), s, d) + h[R \ {One(R)}]
  <2>1. R \in SUBSET S /\ R \in SUBSET T
    OBVIOUS
  <2>2. g[R] = IF R = {} THEN 0 ELSE Value(One(R), s, d) + g[R \ {One(R)}]
    BY <2>1, Zenon DEF Adds
  <2>3. h[R] = IF R = {} THEN 0 ELSE Value(One(R), s, d) + h[R \ {One(R)}]
    BY <2>1, Zenon DEF Adds
  <2> QED  BY <2>2, <2>3
<1>3. \A R \in SUBSET (S \cap T) : IsFiniteSet(R)
  BY FS_Subset
<1>4. 0 \in N
  <2> SUFFICES ASSUME NEW R \in SUBSET (S \cap T), Cardinality(R) = 0 PROVE g[R] = h[R]
    BY <1>1
  <2>1. R = {}
    BY <1>3, FS_EmptySet
  <2> QED  BY <1>2, <2>1, Zenon
<1>5. ASSUME NEW n \in Nat, n \in N PROVE n + 1 \in N
  <2> SUFFICES ASSUME NEW R \in SUBSET (S \cap T), Cardinality(R) = n + 1 PROVE g[R] = h[R]
    BY <1>1
  <2>1. R # {}
    <3>1. Cardinality({}) = 0 /\ n + 1 # 0
      BY FS_EmptySet
    <3> QED  BY <3>1
  <2>2. Cardinality(R \ {One(R)}) = n
    BY <1>3, <2>1, TakeOne
  <2>3. g[R \ {One(R)}] = h[R \ {One(R)}]
    BY <1>1, <1>5, <2>2
  <2> QED  BY <1>2, <2>1, <2>3, Zenon
<1>6. \A n \in Nat : n \in N
  BY <1>4, <1>5, NumbersByInduction
<1>7. \A R \in SUBSET (S \cap T) : Cardinality(R) \in Nat
  BY <1>3, FS_CardinalityType
<1> QED  BY <1>1, <1>6, <1>7

\* So a sum is 0, or a row and the sum of the others.
LEMMA SumTakesOne ==
  ASSUME NEW S, IsFiniteSet(S), NEW s, NEW d
  PROVE  Traffic!bytesOf(S, s, d) = IF S = {} THEN 0 ELSE Value(One(S), s, d) + Traffic!bytesOf(S \ {One(S)}, s, d)
<1>1. ASSUME NEW T, IsFiniteSet(T)
      PROVE  \E g : Adds(g, SUBSET T, s, d) /\ Traffic!bytesOf(T, s, d) = g[T]
  <2>1. PICK g : g = CHOOSE f : Adds(f, SUBSET T, s, d)
    OBVIOUS
  <2>2. Adds(g, SUBSET T, s, d)
    BY <1>1, <2>1, AddsExist, Zenon
  <2>3. Traffic!bytesOf(T, s, d) = (CHOOSE f : Adds(f, SUBSET T, s, d))[T]
    BY Zenon DEF Traffic!bytesOf, Traffic!MapThenSumSet, Traffic!MapThenFoldSet, Adds, Value, One
  <2> QED  BY <2>1, <2>2, <2>3
<1>2. PICK g : Adds(g, SUBSET S, s, d) /\ Traffic!bytesOf(S, s, d) = g[S]
  BY <1>1
<1>3. g[S] = IF S = {} THEN 0 ELSE Value(One(S), s, d) + g[S \ {One(S)}]
  <2>1. S \in SUBSET S
    OBVIOUS
  <2> QED  BY <1>2, <2>1, Zenon DEF Adds
<1>4. CASE S = {}
  BY <1>2, <1>3, <1>4, Zenon
<1>5. CASE S # {}
  <2>1. PICK T : T = S \ {One(S)}
    OBVIOUS
  <2>2. IsFiniteSet(T) /\ T \in SUBSET (S \cap T)
    BY <1>5, <2>1, TakeOne
  <2>3. PICK h : Adds(h, SUBSET T, s, d) /\ Traffic!bytesOf(T, s, d) = h[T]
    BY <1>1, <2>2
  <2>4. g[T] = h[T]
    <3>1. Agree(S, T, s, d)
      BY AddsAgree
    <3> QED  BY <1>2, <2>2, <2>3, <3>1 DEF Agree
  <2> QED  BY <1>2, <1>3, <1>5, <2>1, <2>3, <2>4, Zenon
<1> QED  BY <1>4, <1>5

\* The rows whose bytes are numbers.
Counted(S, s, d) == IsFiniteSet(S) /\ \A r \in S : Value(r, s, d) \in Nat

\* A sum of numbers is one.
LEMMA SumIsNumber ==
  ASSUME NEW s, NEW d
  PROVE  \A S : Counted(S, s, d) => Traffic!bytesOf(S, s, d) \in Nat
<1>1. PICK N : N = {n \in Nat : \A S : Counted(S, s, d) /\ Cardinality(S) = n => Traffic!bytesOf(S, s, d) \in Nat}
  OBVIOUS
<1>2. 0 \in N
  <2> SUFFICES ASSUME NEW S, Counted(S, s, d), Cardinality(S) = 0 PROVE Traffic!bytesOf(S, s, d) \in Nat
    BY <1>1
  <2>1. IsFiniteSet(S) /\ S = {}
    BY FS_EmptySet DEF Counted
  <2>2. Traffic!bytesOf(S, s, d) = 0
    BY <2>1, SumTakesOne
  <2> QED  BY <2>2
<1>3. ASSUME NEW n \in Nat, n \in N PROVE n + 1 \in N
  <2> SUFFICES ASSUME NEW S, Counted(S, s, d), Cardinality(S) = n + 1 PROVE Traffic!bytesOf(S, s, d) \in Nat
    BY <1>1
  <2>1. S # {} /\ IsFiniteSet(S)
    <3>1. Cardinality({}) = 0 /\ n + 1 # 0
      BY FS_EmptySet
    <3> QED  BY <3>1 DEF Counted
  <2>2. One(S) \in S /\ IsFiniteSet(S \ {One(S)}) /\ Cardinality(S \ {One(S)}) = n
    BY <2>1, TakeOne
  <2>3. Counted(S \ {One(S)}, s, d) /\ Value(One(S), s, d) \in Nat
    BY <2>2 DEF Counted
  <2>4. Traffic!bytesOf(S \ {One(S)}, s, d) \in Nat
    BY <1>1, <1>3, <2>2, <2>3
  <2>5. Traffic!bytesOf(S, s, d) = Value(One(S), s, d) + Traffic!bytesOf(S \ {One(S)}, s, d)
    BY <2>1, SumTakesOne
  <2> QED  BY <2>3, <2>4, <2>5
<1>4. \A n \in Nat : n \in N
  BY <1>2, <1>3, NumbersByInduction
<1> SUFFICES ASSUME NEW S, Counted(S, s, d) PROVE Traffic!bytesOf(S, s, d) \in Nat  OBVIOUS
<1>5. Cardinality(S) \in Nat
  BY FS_CardinalityType DEF Counted
<1> QED  BY <1>1, <1>4, <1>5

\* Any row may be taken first.
LEMMA SumTakesAny ==
  ASSUME NEW s, NEW d
  PROVE  \A S : Counted(S, s, d) =>
           \A y \in S : Traffic!bytesOf(S, s, d) = Value(y, s, d) + Traffic!bytesOf(S \ {y}, s, d)
<1> DEFINE B(S) == Traffic!bytesOf(S, s, d)
<1> DEFINE Fine(S) == \A y \in S : B(S) = Value(y, s, d) + B(S \ {y})
<1>1. PICK N : N = {n \in Nat : \A S : Counted(S, s, d) /\ Cardinality(S) = n => Fine(S)}
  OBVIOUS
<1>2. 0 \in N
  <2> SUFFICES ASSUME NEW S, Counted(S, s, d), Cardinality(S) = 0 PROVE Fine(S)
    BY <1>1
  <2>1. S = {}
    BY FS_EmptySet DEF Counted
  <2> QED  BY <2>1
<1>3. ASSUME NEW n \in Nat, n \in N PROVE n + 1 \in N
  <2> SUFFICES ASSUME NEW S, Counted(S, s, d), Cardinality(S) = n + 1 PROVE Fine(S)
    BY <1>1
  <2> SUFFICES ASSUME NEW y \in S PROVE B(S) = Value(y, s, d) + B(S \ {y})
    OBVIOUS
  <2>1. PICK x : x = One(S)
    OBVIOUS
  <2>2. x \in S /\ IsFiniteSet(S) /\ B(S) = Value(x, s, d) + B(S \ {x})
    <3>1. S # {} /\ IsFiniteSet(S)
      BY DEF Counted
    <3>2. x \in S
      BY <2>1, <3>1, TakeOne
    <3> QED  BY <2>1, <3>1, <3>2, SumTakesOne
  <2>3. CASE x = y
    BY <2>2, <2>3
  <2>4. CASE x # y
    <3>1. /\ IsFiniteSet(S \ {x}) /\ Cardinality(S \ {x}) = n
          /\ IsFiniteSet(S \ {y}) /\ Cardinality(S \ {y}) = n
      <4>1. IsFiniteSet(S \ {x}) /\ Cardinality(S \ {x}) = (n + 1) - 1
        BY <2>2, FS_RemoveElement
      <4>2. IsFiniteSet(S \ {y}) /\ Cardinality(S \ {y}) = (n + 1) - 1
        BY <2>2, FS_RemoveElement
      <4> QED  BY <4>1, <4>2
    <3>2. Counted(S \ {x}, s, d) /\ Counted(S \ {y}, s, d)
      BY <3>1 DEF Counted
    <3>3. Fine(S \ {x}) /\ Fine(S \ {y})
      BY <1>1, <1>3, <3>1, <3>2
    <3>4. PICK T : T = (S \ {x}) \ {y} /\ T = (S \ {y}) \ {x}
      OBVIOUS
    <3>5. B(S \ {x}) = Value(y, s, d) + B(T) /\ B(S \ {y}) = Value(x, s, d) + B(T)
      BY <2>2, <2>4, <3>3, <3>4
    <3>6. Counted(T, s, d)
      <4>1. IsFiniteSet(T)
        BY <3>1, <3>4, FS_RemoveElement
      <4> QED  BY <3>4, <4>1 DEF Counted
    <3>7. B(T) \in Nat /\ Value(x, s, d) \in Nat /\ Value(y, s, d) \in Nat
      BY <2>2, <3>6, SumIsNumber DEF Counted
    <3> HIDE DEF B
    <3> QED  BY <2>2, <3>5, <3>7
  <2> QED  BY <2>3, <2>4
<1>4. \A n \in Nat : n \in N
  BY <1>2, <1>3, NumbersByInduction
<1> SUFFICES ASSUME NEW S, Counted(S, s, d) PROVE Fine(S)  OBVIOUS
<1>5. Cardinality(S) \in Nat
  BY FS_CardinalityType DEF Counted
<1> QED  BY <1>1, <1>4, <1>5

\* A row more.
LEMMA SumWithOne ==
  ASSUME NEW s, NEW d, NEW S, Counted(S, s, d), NEW x, x \notin S, Value(x, s, d) \in Nat
  PROVE  Counted(S \cup {x}, s, d) /\ Traffic!bytesOf(S \cup {x}, s, d) = Value(x, s, d) + Traffic!bytesOf(S, s, d)
<1>1. IsFiniteSet(S \cup {x})
  BY FS_AddElement DEF Counted
<1>2. Counted(S \cup {x}, s, d)
  BY <1>1 DEF Counted
<1>3. (S \cup {x}) \ {x} = S /\ x \in S \cup {x}
  OBVIOUS
<1> QED  BY <1>2, <1>3, SumTakesAny

\* Two sets without a row in common.
LEMMA SumOfBoth ==
  ASSUME NEW s, NEW d, NEW A, Counted(A, s, d)
  PROVE  \A C : Counted(C, s, d) /\ A \cap C = {} =>
           Counted(A \cup C, s, d) /\ Traffic!bytesOf(A \cup C, s, d) = Traffic!bytesOf(A, s, d) + Traffic!bytesOf(C, s, d)
<1> DEFINE B(S) == Traffic!bytesOf(S, s, d)
<1> DEFINE Fine(C) == Counted(A \cup C, s, d) /\ B(A \cup C) = B(A) + B(C)
<1>0. B(A) \in Nat
  BY SumIsNumber
<1>1. PICK N : N = {n \in Nat : \A C : Counted(C, s, d) /\ A \cap C = {} /\ Cardinality(C) = n => Fine(C)}
  OBVIOUS
<1>2. 0 \in N
  <2> SUFFICES ASSUME NEW C, Counted(C, s, d), Cardinality(C) = 0 PROVE Fine(C)
    BY <1>1
  <2>1. IsFiniteSet(C) /\ C = {}
    BY FS_EmptySet DEF Counted
  <2>2. B(C) = 0
    BY <2>1, SumTakesOne
  <2>3. A \cup C = A
    BY <2>1
  <2> HIDE DEF B
  <2> QED  BY <1>0, <2>2, <2>3
<1>3. ASSUME NEW n \in Nat, n \in N PROVE n + 1 \in N
  <2> SUFFICES ASSUME NEW C, Counted(C, s, d), A \cap C = {}, Cardinality(C) = n + 1 PROVE Fine(C)
    BY <1>1
  <2>1. C # {} /\ IsFiniteSet(C)
    <3>1. Cardinality({}) = 0 /\ n + 1 # 0
      BY FS_EmptySet
    <3> QED  BY <3>1 DEF Counted
  <2>2. PICK x \in C : TRUE
    BY <2>1
  <2>3. PICK D : D = C \ {x}
    OBVIOUS
  <2>4. IsFiniteSet(D) /\ Cardinality(D) = n
    <3>1. IsFiniteSet(C \ {x}) /\ Cardinality(C \ {x}) = (n + 1) - 1
      BY <2>1, FS_RemoveElement
    <3> QED  BY <2>3, <3>1
  <2>5. Counted(D, s, d) /\ A \cap D = {} /\ Value(x, s, d) \in Nat
    BY <2>3, <2>4 DEF Counted
  <2>6. Fine(D)
    BY <1>1, <1>3, <2>4, <2>5
  <2>7. x \notin A \cup D /\ (A \cup D) \cup {x} = A \cup C /\ x \notin D /\ D \cup {x} = C
    BY <2>3
  <2>8. Counted(A \cup C, s, d) /\ B(A \cup C) = Value(x, s, d) + B(A \cup D)
    <3>1. PICK E : E = A \cup D
      OBVIOUS
    <3>2. Counted(E, s, d) /\ x \notin E /\ E \cup {x} = A \cup C
      BY <2>6, <2>7, <3>1
    <3>3. /\ Counted(E \cup {x}, s, d)
          /\ Traffic!bytesOf(E \cup {x}, s, d) = Value(x, s, d) + Traffic!bytesOf(E, s, d)
      BY <2>5, <3>2, SumWithOne
    <3> QED  BY <3>1, <3>2, <3>3, Zenon
  <2>9. B(C) = Value(x, s, d) + B(D)
    BY <2>5, <2>7, SumWithOne
  <2>10. B(D) \in Nat
    BY <2>5, SumIsNumber
  <2> HIDE DEF B
  <2> QED  BY <1>0, <2>5, <2>6, <2>8, <2>9, <2>10
<1>4. \A n \in Nat : n \in N
  BY <1>2, <1>3, NumbersByInduction
<1> SUFFICES ASSUME NEW C, Counted(C, s, d), A \cap C = {} PROVE Fine(C)  OBVIOUS
<1>5. Cardinality(C) \in Nat
  BY FS_CardinalityType DEF Counted
<1> QED  BY <1>1, <1>4, <1>5

\* What a part of the rows leaves out.
LEMMA SumOfPart ==
  ASSUME NEW s, NEW d, NEW S, Counted(S, s, d), NEW A \in SUBSET S
  PROVE  /\ Counted(A, s, d) /\ Counted(S \ A, s, d)
         /\ Traffic!bytesOf(S, s, d) = Traffic!bytesOf(A, s, d) + Traffic!bytesOf(S \ A, s, d)
         /\ Traffic!bytesOf(A, s, d) \in Nat /\ Traffic!bytesOf(S \ A, s, d) \in Nat /\ Traffic!bytesOf(S, s, d) \in Nat
<1>1. IsFiniteSet(A) /\ IsFiniteSet(S \ A)
  BY FS_Subset DEF Counted
<1>2. PICK C : C = S \ A
  OBVIOUS
<1>3. Counted(A, s, d) /\ Counted(C, s, d) /\ A \cap C = {} /\ A \cup C = S
  BY <1>1, <1>2 DEF Counted
<1>4. Traffic!bytesOf(A \cup C, s, d) = Traffic!bytesOf(A, s, d) + Traffic!bytesOf(C, s, d)
  BY <1>3, SumOfBoth
<1>5. Traffic!bytesOf(A, s, d) \in Nat /\ Traffic!bytesOf(C, s, d) \in Nat /\ Traffic!bytesOf(S, s, d) \in Nat
  BY <1>3, SumIsNumber
<1> QED  BY <1>2, <1>3, <1>4, <1>5

\* Rows of other streams count nothing.
LEMMA SumOfOthers ==
  ASSUME NEW s, NEW d
  PROVE  \A S : IsFiniteSet(S) /\ (\A r \in S : Value(r, s, d) = 0) => Traffic!bytesOf(S, s, d) = 0
<1> DEFINE None(S) == \A r \in S : Value(r, s, d) = 0
<1>1. PICK N : N = {n \in Nat : \A S : IsFiniteSet(S) /\ None(S) /\ Cardinality(S) = n => Traffic!bytesOf(S, s, d) = 0}
  OBVIOUS
<1>2. 0 \in N
  <2> SUFFICES ASSUME NEW S, IsFiniteSet(S), Cardinality(S) = 0 PROVE Traffic!bytesOf(S, s, d) = 0
    BY <1>1
  <2>1. S = {}
    BY FS_EmptySet
  <2> QED  BY <2>1, SumTakesOne
<1>3. ASSUME NEW n \in Nat, n \in N PROVE n + 1 \in N
  <2> SUFFICES ASSUME NEW S, IsFiniteSet(S), None(S), Cardinality(S) = n + 1 PROVE Traffic!bytesOf(S, s, d) = 0
    BY <1>1
  <2>1. S # {}
    <3>1. Cardinality({}) = 0 /\ n + 1 # 0
      BY FS_EmptySet
    <3> QED  BY <3>1
  <2>2. One(S) \in S /\ IsFiniteSet(S \ {One(S)}) /\ Cardinality(S \ {One(S)}) = n
    BY <2>1, TakeOne
  <2>3. None(S \ {One(S)}) /\ Value(One(S), s, d) = 0
    BY <2>2
  <2>4. Traffic!bytesOf(S \ {One(S)}, s, d) = 0
    BY <1>1, <1>3, <2>2, <2>3
  <2>5. Traffic!bytesOf(S, s, d) = Value(One(S), s, d) + Traffic!bytesOf(S \ {One(S)}, s, d)
    BY <2>1, SumTakesOne
  <2> QED  BY <2>3, <2>4, <2>5
<1>4. \A n \in Nat : n \in N
  BY <1>2, <1>3, NumbersByInduction
<1> SUFFICES ASSUME NEW S, IsFiniteSet(S), None(S) PROVE Traffic!bytesOf(S, s, d) = 0  OBVIOUS
<1>5. Cardinality(S) \in Nat
  BY FS_CardinalityType
<1> QED  BY <1>1, <1>4, <1>5

-----------------------------------------------------------------------------
(* Pruning, and a set as a sequence. *)

\* Traffic accounting counts as everyone does.
LEMMA SameCount == \A S : Traffic!Cardinality(S) = Cardinality(S)
  BY Zenon DEF Traffic!Cardinality, Cardinality

\* A finite set of rows has a part of each size with the oldest of them.
LEMMA OldestExist ==
  ASSUME NEW E, IsFiniteSet(E), \A r \in E : r.received \in Nat
  PROVE  \A k \in Nat : k <= Cardinality(E) =>
           \E P \in SUBSET E : Cardinality(P) = k /\ \A r \in P, q \in E \ P : r.received <= q.received
<1> DEFINE Old(P) == \A r \in P, q \in E \ P : r.received <= q.received
<1>1. PICK N : N = {k \in Nat : k <= Cardinality(E) => \E P \in SUBSET E : Cardinality(P) = k /\ Old(P)}
  OBVIOUS
<1>2. 0 \in N
  <2>1. Cardinality({}) = 0 /\ Old({}) /\ {} \in SUBSET E
    BY FS_EmptySet
  <2>2. \E P \in SUBSET E : Cardinality(P) = 0 /\ Old(P)
    BY <2>1
  <2> QED  BY <1>1, <2>2
<1>3. ASSUME NEW k \in Nat, k \in N PROVE k + 1 \in N
  <2> SUFFICES ASSUME k + 1 <= Cardinality(E)
               PROVE  \E P \in SUBSET E : Cardinality(P) = k + 1 /\ Old(P)
    BY <1>1
  <2>1. PICK n \in Nat : n = Cardinality(E)
    BY FS_CardinalityType
  <2>2. k <= Cardinality(E) /\ k # n
    BY <2>1
  <2>3. PICK P \in SUBSET E : Cardinality(P) = k /\ Old(P)
    BY <1>1, <1>3, <2>2
  <2>4. E \ P # {}
    <3>1. P # E
      BY <2>1, <2>2, <2>3
    <3> QED  BY <3>1
  <2>5. PICK T : T = {r.received : r \in E \ P}
    OBVIOUS
  <2>6. T \subseteq Nat /\ T # {}
    BY <2>4, <2>5
  <2>7. PICK m \in T : \A n2 \in T : m <= n2
    BY <2>6, LeastNumber
  <2>8. PICK r \in E \ P : r.received = m
    BY <2>5, <2>7
  <2>9. \A q \in E \ P : r.received <= q.received
    BY <2>5, <2>7, <2>8
  <2>10. PICK Q : Q = P \cup {r}
    OBVIOUS
  <2>11. Q \in SUBSET E /\ Cardinality(Q) = k + 1
    <3>1. IsFiniteSet(P)
      BY FS_Subset
    <3> QED  BY <2>3, <2>8, <2>10, <3>1, FS_AddElement
  <2>12. Old(Q)
    BY <2>3, <2>9, <2>10
  <2> QED  BY <2>11, <2>12
<1>4. \A k \in Nat : k \in N
  BY <1>2, <1>3, NumbersByInduction
<1> QED  BY <1>1, <1>4

\* What an ingest prunes are rows (pruneTrafficAccountingSamples).
LEMMA PrunedAreRows ==
  ASSUME IsFiniteSet(rows), \A r \in rows : r.received \in Nat
  PROVE  Traffic!prunable \in SUBSET rows
<1>1. PICK E : E = Traffic!expired
  OBVIOUS
<1>2. E \in SUBSET rows /\ IsFiniteSet(E) /\ \A r \in E : r.received \in Nat
  <2>1. E \in SUBSET rows
    BY <1>1 DEF Traffic!expired
  <2>2. IsFiniteSet(E)
    BY <2>1, FS_Subset
  <2> QED  BY <2>1, <2>2
<1>3. CASE Cardinality(E) <= PruneBudget
  BY <1>1, <1>2, <1>3, SameCount, Zenon DEF Traffic!prunable
<1>4. CASE ~ (Cardinality(E) <= PruneBudget)
  <2>1. PruneBudget \in Nat /\ Cardinality(E) \in Nat
    BY <1>2, FS_CardinalityType, UsageAssumption
  <2>2. PruneBudget <= Cardinality(E)
    BY <1>4, <2>1
  <2>3. \E P \in SUBSET E : Cardinality(P) = PruneBudget /\ \A r \in P, q \in E \ P : r.received <= q.received
    <3>1. \A k \in Nat : k <= Cardinality(E) =>
            \E P \in SUBSET E : Cardinality(P) = k /\ \A r \in P, q \in E \ P : r.received <= q.received
      BY <1>2, OldestExist, Zenon
    <3> QED  BY <2>1, <2>2, <3>1, Zenon
  <2>4. \E P \in Traffic!kSubset(PruneBudget, E) : \A r \in P, q \in E \ P : r.received <= q.received
    BY <2>3, SameCount, Zenon DEF Traffic!kSubset
  <2>5. Traffic!prunable = CHOOSE P \in Traffic!kSubset(PruneBudget, E) : \A r \in P, q \in E \ P : r.received <= q.received
    BY <1>1, <1>4, SameCount, Zenon DEF Traffic!prunable
  <2>6. Traffic!prunable \in Traffic!kSubset(PruneBudget, E)
    BY <2>4, <2>5, Zenon
  <2>7. Traffic!prunable \in SUBSET E
    BY <2>6 DEF Traffic!kSubset
  <2> QED  BY <1>2, <2>7
<1> QED  BY <1>3, <1>4

\* A finite set as a sequence: each of its elements, once.
LEMMA OnceEach ==
  ASSUME NEW S, IsFiniteSet(S), NEW q, q = Traffic!SetToSeq(S)
  PROVE  /\ q \in Seq(S)
         /\ \A i, j \in DOMAIN q : q[i] = q[j] => i = j
         /\ \A x \in S : \E i \in DOMAIN q : q[i] = x
<1>1. PICK n \in Nat : n = Cardinality(S)
  BY FS_CardinalityType
<1>2. PICK f : f \in Bijection(1..n, S)
  BY <1>1, FS_CardinalityType DEF ExistsBijection
<1>3. f \in [1..n -> S] /\ Traffic!IsInjective(f)
  <2>1. f \in [1..n -> S] /\ \A a, b \in 1..n : f[a] = f[b] => a = b
    BY <1>2 DEF Bijection, Injection, Surjection, IsInjective
  <2>2. DOMAIN f = 1..n
    BY <2>1
  <2>3. \A a, b \in DOMAIN f : f[a] = f[b] => a = b
    BY <2>1, <2>2, Zenon
  <2> QED  BY <2>1, <2>3, Zenon DEF Traffic!IsInjective
<1>4. q = CHOOSE g \in [1..n -> S] : Traffic!IsInjective(g)
  BY <1>1, SameCount, Zenon DEF Traffic!SetToSeq
<1>5. q \in [1..n -> S] /\ Traffic!IsInjective(q)
  BY <1>3, <1>4, Zenon
<1>6. q \in Seq(S) /\ DOMAIN q = 1..n
  BY <1>5
<1>7. \A i, j \in DOMAIN q : q[i] = q[j] => i = j
  BY <1>5 DEF Traffic!IsInjective
<1>8. q \in Surjection(1..n, S)
  <2>1. q \in Injection(1..n, S)
    BY <1>5, <1>6, <1>7 DEF Injection, IsInjective
  <2>2. IsFiniteSet(1..n) /\ Cardinality(1..n) = n
    BY FS_Interval
  <2> QED  BY <1>1, <2>1, <2>2, FS_Injection
<1>9. \A x \in S : \E i \in DOMAIN q : q[i] = x
  BY <1>6, <1>8 DEF Surjection
<1> QED  BY <1>6, <1>7, <1>9

-----------------------------------------------------------------------------
(* The inductive invariant: UsageInv. *)

Streams == DOMAIN kinds
Ways == {"rx", "tx"}
Pairs == [Ways -> Nat]
NoPair == [d \in Ways |-> -1]

RowRecs ==
  [key : Streams \X Nat, s : Streams, bytes : Pairs, client : {"nobody", "client"}, received : Nat]
SampleRecs == [key : Streams \X Nat, s : Streams, start : Int, end : Nat, bytes : Pairs]
ReadingRecs == UNION {[E -> Pairs] : E \in SUBSET Streams}
NetRecs ==
  [stage : {"idle", "sent", "stored", "answered"}, samples : Seq(SampleRecs),
   readings : ReadingRecs, at : Nat, waits : BOOLEAN]

UsageTyped ==
  /\ IsFiniteSet(Streams)
  /\ used \in [Streams -> Pairs] /\ counter \in [Streams -> Pairs] /\ pruned \in [Streams -> Pairs]
  /\ base \in [Streams -> Pairs \cup {NoPair}] /\ first \in [Streams -> Pairs \cup {NoPair}]
  /\ last \in Nat /\ clock \in Nat /\ last <= clock /\ clock > 0
  /\ spoiled \in SUBSET Streams /\ doubted \in BOOLEAN

RowsTyped == IsFiniteSet(rows) /\ rows \subseteq RowRecs /\ \A r \in rows : r.key[1] = r.s

\* The samples of a request: at most one of a stream, which the request has read.
SamplesFit(q, readings, at) ==
  \A i \in DOMAIN q :
    /\ q[i].key = <<q[i].s, at>>
    /\ q[i].s \in DOMAIN readings
    /\ \A j \in DOMAIN q : q[j].s = q[i].s => j = i

NetTyped ==
  /\ net \in NetRecs
  /\ SamplesFit(net.samples, net.readings, net.at)
  /\ net.stage \in {"idle", "answered"} => net.samples = <<>>
  /\ net.stage # "idle" => last < net.at /\ net.at <= clock

\* What a report would find that a counter c has grown by since b.
Grown(b, c) == IF b = -1 \/ c < b THEN 0 ELSE c - b

\* ... once the request n under way has been answered.
Rest(n, b, c, s, d) == IF n.waits /\ s \in DOMAIN n.readings THEN Grown(n.readings[s][d], c) ELSE Grown(b, c)

\* What is stored, what is on its way and what will be found were moved.
OverAt(n, stored, b, c, u, s, d) ==
  /\ n.stage \in {"idle", "sent"} => stored + Grown(b, c) <= u
  /\ n.stage # "idle" =>
       /\ stored + Rest(n, b, c, s, d) <= u
       /\ \A i \in DOMAIN n.samples : n.samples[i].s = s => (stored + n.samples[i].bytes[d]) + Rest(n, b, c, s, d) <= u
       /\ ~n.waits => b = -1

StoredOf(R, p, s, d) == Traffic!bytesOf(R, s, d) + p[s][d]

NotOver ==
  ~doubted => \A s \in Streams, d \in Ways :
    OverAt(net, StoredOf(rows, pruned, s, d), base[s][d], counter[s][d], used[s][d], s, d)

\* What was reported until t is kept, as a row or in the sum of the pruned.
Until(R, t) == {r \in R : r.key[2] <= t}
KeptOf(R, p, s, d, t) == Traffic!bytesOf(Until(R, t), s, d) + p[s][d]

\* An undisturbed stream: what its readings have grown by is kept up to the
\* last answer, by kept, or on its way, by then.
LostAt(n, kept, then, f, b, c, s, d) ==
  /\ f # NoPair => b # NoPair /\ b[d] <= c[d] /\ kept + f[d] >= b[d]
  /\ n.stage # "idle" /\ s \in DOMAIN n.readings =>
       /\ n.readings[s][d] <= c[d]
       /\ f # NoPair =>
            /\ (\A i \in DOMAIN n.samples : n.samples[i].s # s) => then + f[d] >= n.readings[s][d]
            /\ \A i \in DOMAIN n.samples : n.samples[i].s = s => n.samples[i].bytes[d] + b[d] >= n.readings[s][d]

NotLost ==
  \A s \in Streams \ spoiled, d \in Ways :
    LostAt(net, KeptOf(rows, pruned, s, d, last), KeptOf(rows, pruned, s, d, net.at), first[s], base[s], counter[s], s, d)

UsageInv == UsageTyped /\ RowsTyped /\ NetTyped /\ NotOver /\ NotLost

-----------------------------------------------------------------------------
\* Readings are pairs of numbers, or none.
LEMMA PairsAreNumbers ==
  ASSUME NEW b \in Pairs \cup {NoPair}, NEW d \in Ways
  PROVE  /\ b[d] \in Nat \cup {-1}
         /\ b # NoPair => b[d] \in Nat /\ b \in Pairs
         /\ b = NoPair => b[d] = -1
<1>1. CASE b = NoPair
  BY <1>1 DEF NoPair
<1>2. CASE b # NoPair
  <2>1. b \in Pairs
    BY <1>2
  <2> QED  BY <1>2, <2>1 DEF Pairs
<1> QED  BY <1>1, <1>2

\* The numbers of a stream.
LEMMA StreamNumbers ==
  ASSUME UsageTyped, NEW s \in Streams, NEW d \in Ways
  PROVE  /\ used[s][d] \in Nat /\ counter[s][d] \in Nat /\ pruned[s][d] \in Nat
         /\ used[s] \in Pairs /\ counter[s] \in Pairs /\ pruned[s] \in Pairs
         /\ base[s] \in Pairs \cup {NoPair} /\ first[s] \in Pairs \cup {NoPair}
<1>1. used[s] \in Pairs /\ counter[s] \in Pairs /\ pruned[s] \in Pairs
  BY DEF UsageTyped
<1>2. base[s] \in Pairs \cup {NoPair} /\ first[s] \in Pairs \cup {NoPair}
  BY DEF UsageTyped
<1> QED  BY <1>1, <1>2 DEF Pairs

\* Rows have numbers of bytes.
LEMMA RowsCounted ==
  ASSUME NEW R, IsFiniteSet(R), \A r \in R : r.bytes \in Pairs, NEW s, NEW d \in Ways
  PROVE  /\ Counted(R, s, d) /\ Traffic!bytesOf(R, s, d) \in Nat
         /\ \A t : Counted(Until(R, t), s, d) /\ Traffic!bytesOf(Until(R, t), s, d) \in Nat
<1>1. \A r \in R : Value(r, s, d) \in Nat
  BY DEF Pairs, Value
<1>2. Counted(R, s, d)
  BY <1>1 DEF Counted
<1>3. ASSUME NEW t PROVE Counted(Until(R, t), s, d)
  <2>1. Until(R, t) \in SUBSET R
    BY DEF Until
  <2> QED  BY <1>2, <2>1, SumOfPart
<1> QED  BY <1>2, <1>3, SumIsNumber

\* The sums are numbers.
LEMMA SumsAreNumbers ==
  ASSUME UsageTyped, RowsTyped, NEW s \in Streams, NEW d \in Ways
  PROVE  /\ StoredOf(rows, pruned, s, d) \in Nat
         /\ \A t : KeptOf(rows, pruned, s, d, t) \in Nat
<1>1. IsFiniteSet(rows) /\ \A r \in rows : r.bytes \in Pairs
  BY DEF RowsTyped, RowRecs
<1>2. Traffic!bytesOf(rows, s, d) \in Nat /\ \A t : Traffic!bytesOf(Until(rows, t), s, d) \in Nat
  BY <1>1, RowsCounted
<1>3. pruned[s][d] \in Nat
  BY StreamNumbers
<1> QED  BY <1>2, <1>3 DEF StoredOf, KeptOf

\* What is kept does not fall as time goes by.
LEMMA KeptGrows ==
  ASSUME UsageTyped, RowsTyped, NEW s \in Streams, NEW d \in Ways, NEW t \in Nat, NEW v \in Nat, t <= v
  PROVE  KeptOf(rows, pruned, s, d, t) <= KeptOf(rows, pruned, s, d, v)
<1>1. IsFiniteSet(rows) /\ \A r \in rows : r.bytes \in Pairs /\ r.key[2] \in Nat
  BY DEF RowsTyped, RowRecs
<1>2. Counted(Until(rows, v), s, d)
  BY <1>1, RowsCounted
<1>3. Until(rows, t) \in SUBSET Until(rows, v)
  BY <1>1 DEF Until
<1>4. PICK k, l, m \in Nat : k = Traffic!bytesOf(Until(rows, t), s, d) /\ l = Traffic!bytesOf(Until(rows, v), s, d) /\ l = k + m
  <2>1. PICK A, S : A = Until(rows, t) /\ S = Until(rows, v)
    OBVIOUS
  <2>2. /\ Traffic!bytesOf(S, s, d) = Traffic!bytesOf(A, s, d) + Traffic!bytesOf(S \ A, s, d)
        /\ Traffic!bytesOf(A, s, d) \in Nat /\ Traffic!bytesOf(S \ A, s, d) \in Nat /\ Traffic!bytesOf(S, s, d) \in Nat
    BY <1>2, <1>3, <2>1, SumOfPart
  <2> QED  BY <2>1, <2>2, Zenon
<1>5. pruned[s][d] \in Nat
  BY StreamNumbers
<1> QED  BY <1>4, <1>5 DEF KeptOf

\* What is found never falls below zero, and a counter that goes on finds
\* at most what it went on by.
LEMMA GrownFacts ==
  ASSUME NEW b \in Nat \cup {-1}, NEW c \in Nat
  PROVE  /\ Grown(b, c) \in Nat /\ Grown(b, c + 1) <= Grown(b, c) + 1 /\ Grown(b, 0) = 0
         /\ Grown(-1, c) = 0 /\ Grown(c, c) = 0 /\ (b # -1 /\ b <= c => Grown(b, c) = c - b)
  BY DEF Grown

\* The request when none is under way.
LEMMA IdleRequest ==
  Traffic!Idle \in NetRecs /\ Traffic!Idle.stage = "idle" /\ Traffic!Idle.samples = <<>>
<1>1. <<>> \in Seq(SampleRecs)
  OBVIOUS
<1>2. <<>> \in ReadingRecs
  <2>1. <<>> \in Seq(Pairs) /\ Len(<<>>) = 0
    OBVIOUS
  <2>2. <<>> \in [1..0 -> Pairs]
    BY <2>1, LenProperties
  <2>3. 1..0 = {}
    OBVIOUS
  <2> QED  BY <2>2, <2>3 DEF ReadingRecs
<1> QED  BY <1>1, <1>2 DEF Traffic!Idle, NetRecs

\* The first state.
LEMMA UsageInitially == Traffic!Init => UsageInv
<1> SUFFICES ASSUME Traffic!Init PROVE UsageInv  OBVIOUS
<1>1. Traffic!Zero \in Pairs /\ \A d \in Ways : Traffic!Zero[d] = 0
  BY DEF Traffic!Zero, Traffic!Direction, Pairs, Ways
<1>2. Traffic!NoBase = NoPair
  BY DEF Traffic!NoBase, NoPair, Traffic!Direction, Ways, Traffic!None
<1>3. IsFiniteSet(Streams)
  <2>1. PICK p \in {"traffic", "stream"} : kinds = Usage[p]
    BY DEF Traffic!Init
  <2> QED  BY <2>1, UsageAssumption DEF Streams
<1>4. UsageTyped
  <2>1. /\ used \in [Streams -> Pairs] /\ counter \in [Streams -> Pairs] /\ pruned \in [Streams -> Pairs]
        /\ base \in [Streams -> Pairs \cup {NoPair}] /\ first \in [Streams -> Pairs \cup {NoPair}]
    BY <1>1, <1>2 DEF Traffic!Init, Traffic!Stream, Streams
  <2>2. last \in Nat /\ clock \in Nat /\ last <= clock /\ clock > 0
    BY DEF Traffic!Init
  <2>3. spoiled \in SUBSET Streams /\ doubted \in BOOLEAN
    BY DEF Traffic!Init
  <2> QED  BY <1>3, <2>1, <2>2, <2>3 DEF UsageTyped
<1>5. RowsTyped
  BY FS_EmptySet DEF RowsTyped, Traffic!Init
<1>6. net.stage = "idle" /\ net.samples = <<>> /\ net.readings = <<>> /\ net.at = 0 /\ net.waits = FALSE
  BY DEF Traffic!Init, Traffic!Idle
<1>7. NetTyped
  BY <1>6, IdleRequest DEF NetTyped, SamplesFit, Traffic!Init
<1>8. ASSUME NEW s \in Streams, NEW d \in Ways
      PROVE  /\ first[s] = NoPair
             /\ OverAt(net, StoredOf(rows, pruned, s, d), base[s][d], counter[s][d], used[s][d], s, d)
  <2>1. base[s] = NoPair /\ first[s] = NoPair /\ used[s][d] = 0 /\ counter[s][d] = 0 /\ pruned[s][d] = 0
    BY <1>1, <1>2 DEF Traffic!Init, Traffic!Stream, Streams
  <2>2. base[s][d] = -1
    BY <2>1 DEF NoPair
  <2>3. StoredOf(rows, pruned, s, d) = 0
    <3>1. IsFiniteSet(rows) /\ rows = {}
      BY <1>5 DEF Traffic!Init, RowsTyped
    <3>2. Traffic!bytesOf(rows, s, d) = 0
      BY <3>1, SumTakesOne
    <3> QED  BY <2>1, <3>2 DEF StoredOf
  <2>5. Grown(-1, 0) = 0
    BY DEF Grown
  <2> QED  BY <1>6, <2>1, <2>2, <2>3, <2>5 DEF OverAt
<1>9. NotOver /\ NotLost
  BY <1>6, <1>8 DEF NotOver, NotLost, LostAt
<1> QED  BY <1>4, <1>5, <1>7, <1>9 DEF UsageInv

-----------------------------------------------------------------------------
(* Its steps. *)

\* What the invariant says of what a stream may lose.
LostHere(s, d) ==
  LostAt(net, KeptOf(rows, pruned, s, d, last), KeptOf(rows, pruned, s, d, net.at), first[s], base[s], counter[s], s, d)

\* Steps that concern nothing the invariant is about.
LEMMA UsageUnmoved ==
  ASSUME UsageInv, UNCHANGED <<kinds, used, counter, base, last, net, rows, first, pruned, spoiled, doubted>>,
         clock' \in Nat, clock' >= clock
  PROVE  UsageInv'
<1>1. UsageTyped' /\ RowsTyped'
  BY DEF UsageInv, UsageTyped, RowsTyped, Streams, RowRecs
<1>2. NetTyped'
  BY DEF UsageInv, UsageTyped, NetTyped, NetRecs, SampleRecs, ReadingRecs, Streams
<1>3. NotOver' /\ NotLost'
  BY DEF UsageInv, NotOver, NotLost, Streams
<1> QED  BY <1>1, <1>2, <1>3 DEF UsageInv

\* The readings of a request.
LEMMA ReadingNumbers ==
  ASSUME NetTyped, NEW s \in DOMAIN net.readings, NEW d \in Ways
  PROVE  net.readings[s] \in Pairs /\ net.readings[s][d] \in Nat /\ s \in Streams
<1>1. PICK E \in SUBSET Streams : net.readings \in [E -> Pairs]
  BY DEF NetTyped, NetRecs, ReadingRecs
<1>2. net.readings[s] \in Pairs /\ s \in Streams
  BY <1>1
<1> QED  BY <1>2 DEF Pairs

\* The samples of a request.
LEMMA SampleNumbers ==
  ASSUME NetTyped, NEW i \in DOMAIN net.samples, NEW d \in Ways
  PROVE  net.samples[i] \in SampleRecs /\ net.samples[i].bytes[d] \in Nat /\ net.samples[i].s \in Streams
<1>1. net.samples[i] \in SampleRecs
  BY DEF NetTyped, NetRecs
<1> QED  BY <1>1 DEF SampleRecs, Pairs

\* What is left to find once a request is answered is a number.
LEMMA RestIsNumber ==
  ASSUME NetTyped, NEW b \in Nat \cup {-1}, NEW c \in Nat, NEW s \in Streams, NEW d \in Ways
  PROVE  Rest(net, b, c, s, d) \in Nat
<1>1. CASE net.waits /\ s \in DOMAIN net.readings
  <2>1. net.readings[s][d] \in Nat
    BY <1>1, ReadingNumbers
  <2>2. Grown(net.readings[s][d], c) \in Nat
    BY <2>1, GrownFacts
  <2> QED  BY <1>1, <2>2 DEF Rest
<1>2. CASE ~ (net.waits /\ s \in DOMAIN net.readings)
  <2>1. Grown(b, c) \in Nat
    BY GrownFacts
  <2> QED  BY <1>2, <2>1 DEF Rest
<1> QED  BY <1>1, <1>2

\* Bytes move: what is found grows by no more than they.
LEMMA UsageMoves ==
  ASSUME UsageInv, UNCHANGED kinds, Traffic!Use
  PROVE  UsageInv'
<1>1. PICK a \in Streams, w \in Ways : /\ used' = [used EXCEPT ![a][w] = @ + 1]
                                      /\ counter' = [counter EXCEPT ![a][w] = @ + 1]
  BY DEF Traffic!Use, Traffic!Stream, Traffic!Direction, Streams, Ways
<1>2. UNCHANGED <<kinds, base, last, clock, net, rows, first, pruned, spoiled, doubted>>
  BY DEF Traffic!Use
<1>3. UsageTyped /\ RowsTyped /\ NetTyped
  BY DEF UsageInv
<1>4. used[a] \in Pairs /\ counter[a] \in Pairs /\ used[a][w] + 1 \in Nat /\ counter[a][w] + 1 \in Nat
  <2>1. used[a] \in Pairs /\ counter[a] \in Pairs /\ used[a][w] \in Nat /\ counter[a][w] \in Nat
    BY <1>3, StreamNumbers
  <2> QED  BY <2>1
<1>5. PICK x, y : x = [used[a] EXCEPT ![w] = @ + 1] /\ y = [counter[a] EXCEPT ![w] = @ + 1]
  OBVIOUS
<1>6. x \in Pairs /\ y \in Pairs
  BY <1>4, <1>5 DEF Pairs
<1>7. used' = [used EXCEPT ![a] = x] /\ counter' = [counter EXCEPT ![a] = y]
  BY <1>1, <1>5, Zenon
<1>8. used' \in [Streams -> Pairs] /\ counter' \in [Streams -> Pairs]
  BY <1>3, <1>6, <1>7 DEF UsageTyped
<1>9. ASSUME NEW s \in Streams, NEW d \in Ways
      PROVE  \/ used'[s][d] = used[s][d] /\ counter'[s][d] = counter[s][d]
             \/ used'[s][d] = used[s][d] + 1 /\ counter'[s][d] = counter[s][d] + 1
  <2>1. CASE s = a
    <3>1. used'[s] = x /\ counter'[s] = y
      BY <1>3, <1>7, <2>1 DEF UsageTyped
    <3>2. CASE d = w
      BY <1>4, <1>5, <2>1, <3>1, <3>2 DEF Pairs
    <3>3. CASE d # w
      BY <1>4, <1>5, <2>1, <3>1, <3>3 DEF Pairs
    <3> QED  BY <3>2, <3>3
  <2>2. CASE s # a
    <3>1. used'[s] = used[s] /\ counter'[s] = counter[s]
      BY <1>3, <1>7, <2>2 DEF UsageTyped
    <3> QED  BY <3>1
  <2> QED  BY <2>1, <2>2
<1>10. UsageTyped' /\ RowsTyped' /\ NetTyped'
  <2>1. UsageTyped'
    BY <1>2, <1>3, <1>8 DEF UsageTyped, Streams
  <2>2. RowsTyped'
    BY <1>2, <1>3 DEF RowsTyped, RowRecs, Streams
  <2>3. NetTyped'
    BY <1>2, <1>3 DEF NetTyped, NetRecs, SampleRecs, ReadingRecs, Streams
  <2> QED  BY <2>1, <2>2, <2>3
<1>11. NotOver'
  <2> SUFFICES ASSUME ~doubted, NEW s \in Streams, NEW d \in Ways
               PROVE  OverAt(net, StoredOf(rows, pruned, s, d), base[s][d], counter'[s][d], used'[s][d], s, d)
    BY <1>2 DEF NotOver, Streams
  <2>1. OverAt(net, StoredOf(rows, pruned, s, d), base[s][d], counter[s][d], used[s][d], s, d)
    BY DEF UsageInv, NotOver
  <2>2. PICK c, u, k \in Nat : c = counter[s][d] /\ u = used[s][d] /\ k = StoredOf(rows, pruned, s, d)
    BY <1>3, StreamNumbers, SumsAreNumbers
  <2>3. PICK b \in Nat \cup {-1} : b = base[s][d]
    BY <1>3, StreamNumbers, PairsAreNumbers
  <2>4. CASE used'[s][d] = used[s][d] /\ counter'[s][d] = counter[s][d]
    BY <2>1, <2>4
  <2>5. CASE used'[s][d] = used[s][d] + 1 /\ counter'[s][d] = counter[s][d] + 1
    <3>1. OverAt(net, k, b, c, u, s, d)
      BY <2>1, <2>2, <2>3, Zenon
    <3>2. Grown(b, c) \in Nat /\ Grown(b, c + 1) \in Nat /\ Grown(b, c + 1) <= Grown(b, c) + 1
      BY GrownFacts
    <3>3. Rest(net, b, c, s, d) \in Nat /\ Rest(net, b, c + 1, s, d) \in Nat
      <4>1. c + 1 \in Nat
        OBVIOUS
      <4>2. Rest(net, b, c, s, d) \in Nat
        BY <1>3, RestIsNumber
      <4>3. Rest(net, b, c + 1, s, d) \in Nat
        BY <1>3, <4>1, RestIsNumber
      <4> QED  BY <4>2, <4>3
    <3>4. Rest(net, b, c + 1, s, d) <= Rest(net, b, c, s, d) + 1
      <4>1. CASE net.waits /\ s \in DOMAIN net.readings
        <5>1. net.readings[s][d] \in Nat
          BY <1>3, <4>1, ReadingNumbers
        <5> QED  BY <4>1, <5>1, GrownFacts DEF Rest
      <4>2. CASE ~ (net.waits /\ s \in DOMAIN net.readings)
        BY <3>2, <4>2 DEF Rest
      <4> QED  BY <4>1, <4>2
    <3>5. \A i \in DOMAIN net.samples : net.samples[i].bytes[d] \in Nat
      BY <1>3, SampleNumbers
    <3>6. PICK g, h, e, f \in Nat : /\ g = Grown(b, c) /\ h = Grown(b, c + 1) /\ h <= g + 1
                                   /\ e = Rest(net, b, c, s, d) /\ f = Rest(net, b, c + 1, s, d) /\ f <= e + 1
      BY <3>2, <3>3, <3>4
    <3>7. net.stage \in {"idle", "sent"} => k + h <= u + 1
      BY <3>1, <3>6 DEF OverAt
    <3>8. ASSUME net.stage # "idle"
          PROVE  /\ k + f <= u + 1 /\ (~net.waits => b = -1)
                 /\ \A i \in DOMAIN net.samples : net.samples[i].s = s => (k + net.samples[i].bytes[d]) + f <= u + 1
      <4>1. k + e <= u /\ (~net.waits => b = -1)
        BY <3>1, <3>6, <3>8 DEF OverAt
      <4>2. ASSUME NEW i \in DOMAIN net.samples, net.samples[i].s = s
            PROVE  (k + net.samples[i].bytes[d]) + f <= u + 1
        <5>1. (k + net.samples[i].bytes[d]) + e <= u
          BY <3>1, <3>6, <3>8, <4>2 DEF OverAt
        <5>2. PICK m \in Nat : m = net.samples[i].bytes[d]
          BY <3>5
        <5> QED  BY <3>6, <5>1, <5>2
      <4> QED  BY <3>6, <4>1, <4>2
    <3>9. OverAt(net, k, b, c + 1, u + 1, s, d)
      BY <3>6, <3>7, <3>8 DEF OverAt
    <3> QED  BY <2>2, <2>3, <2>5, <3>9, Zenon
  <2> QED  BY <1>9, <2>4, <2>5
<1>12. NotLost'
  <2> SUFFICES ASSUME NEW s \in Streams \ spoiled, NEW d \in Ways
               PROVE  LostAt(net, KeptOf(rows, pruned, s, d, last), KeptOf(rows, pruned, s, d, net.at),
                             first[s], base[s], counter'[s], s, d)
    BY <1>2 DEF NotLost, Streams
  <2>1. LostHere(s, d)
    BY DEF UsageInv, NotLost, LostHere
  <2>2. counter[s][d] \in Nat /\ (counter'[s][d] = counter[s][d] \/ counter'[s][d] = counter[s][d] + 1)
    BY <1>3, <1>9, StreamNumbers
  <2>3. base[s] # NoPair => base[s][d] \in Nat
    BY <1>3, StreamNumbers, PairsAreNumbers
  <2>4. s \in DOMAIN net.readings => net.readings[s][d] \in Nat
    BY <1>3, ReadingNumbers
  <2> QED  BY <2>1, <2>2, <2>3, <2>4 DEF LostHere, LostAt
<1> QED  BY <1>10, <1>11, <1>12 DEF UsageInv

\* A counter that starts again finds nothing, and its stream is spoiled.
LEMMA UsageResets ==
  ASSUME UsageInv, UNCHANGED kinds, Traffic!CounterReset
  PROVE  UsageInv'
<1>0. Traffic!Zero \in Pairs /\ \A d \in Ways : Traffic!Zero[d] = 0
  BY DEF Traffic!Zero, Traffic!Direction, Pairs, Ways
<1>1. PICK a \in Streams : counter' = [counter EXCEPT ![a] = Traffic!Zero] /\ spoiled' = spoiled \cup {a}
  BY DEF Traffic!CounterReset, Traffic!Stream, Streams
<1>2. UNCHANGED <<kinds, used, base, last, clock, net, rows, first, pruned, doubted>>
  BY DEF Traffic!CounterReset
<1>3. UsageTyped /\ RowsTyped /\ NetTyped
  BY DEF UsageInv
<1>4. UsageTyped' /\ RowsTyped' /\ NetTyped'
  <2>1. UsageTyped'
    BY <1>0, <1>1, <1>2, <1>3 DEF UsageTyped, Streams
  <2>2. RowsTyped'
    BY <1>2, <1>3 DEF RowsTyped, RowRecs, Streams
  <2>3. NetTyped'
    BY <1>2, <1>3 DEF NetTyped, NetRecs, SampleRecs, ReadingRecs, Streams
  <2> QED  BY <2>1, <2>2, <2>3
<1>5. NotOver'
  <2> SUFFICES ASSUME ~doubted, NEW s \in Streams, NEW d \in Ways
               PROVE  OverAt(net, StoredOf(rows, pruned, s, d), base[s][d], counter'[s][d], used[s][d], s, d)
    BY <1>2 DEF NotOver, Streams
  <2>1. OverAt(net, StoredOf(rows, pruned, s, d), base[s][d], counter[s][d], used[s][d], s, d)
    BY DEF UsageInv, NotOver
  <2>2. CASE s # a
    <3>1. counter'[s] = counter[s]
      BY <1>1, <1>3, <2>2 DEF UsageTyped
    <3> QED  BY <2>1, <3>1
  <2>3. CASE s = a
    <3>0. counter'[s] = Traffic!Zero
      BY <1>1, <1>3, <2>3 DEF UsageTyped
    <3>1. counter'[s][d] = 0
      BY <1>0, <3>0
    <3>2. PICK c, u, k \in Nat : c = counter[s][d] /\ u = used[s][d] /\ k = StoredOf(rows, pruned, s, d)
      BY <1>3, StreamNumbers, SumsAreNumbers
    <3>3. PICK b \in Nat \cup {-1} : b = base[s][d]
      BY <1>3, StreamNumbers, PairsAreNumbers
    <3>4. OverAt(net, k, b, c, u, s, d)
      BY <2>1, <3>2, <3>3, Zenon
    <3>5. Grown(b, 0) = 0 /\ Grown(b, c) \in Nat
      BY GrownFacts
    <3>6. Rest(net, b, 0, s, d) = 0
      <4>1. CASE net.waits /\ s \in DOMAIN net.readings
        <5>1. net.readings[s][d] \in Nat
          BY <1>3, <4>1, ReadingNumbers
        <5> QED  BY <4>1, <5>1, GrownFacts DEF Rest
      <4>2. CASE ~ (net.waits /\ s \in DOMAIN net.readings)
        BY <3>5, <4>2 DEF Rest
      <4> QED  BY <4>1, <4>2
    <3>7. PICK g, e \in Nat : g = Grown(b, c) /\ e = Rest(net, b, c, s, d)
      BY <1>3, <3>5, RestIsNumber
    <3>8. \A i \in DOMAIN net.samples : net.samples[i].bytes[d] \in Nat
      BY <1>3, SampleNumbers
    <3>9. OverAt(net, k, b, 0, u, s, d)
      <4>1. net.stage \in {"idle", "sent"} => k + 0 <= u
        BY <3>4, <3>7 DEF OverAt
      <4>2. ASSUME net.stage # "idle"
            PROVE  /\ k + 0 <= u /\ (~net.waits => b = -1)
                   /\ \A i \in DOMAIN net.samples : net.samples[i].s = s => (k + net.samples[i].bytes[d]) + 0 <= u
        <5>1. k + e <= u /\ (~net.waits => b = -1)
          BY <3>4, <3>7, <4>2 DEF OverAt
        <5>2. ASSUME NEW i \in DOMAIN net.samples, net.samples[i].s = s
              PROVE  (k + net.samples[i].bytes[d]) + 0 <= u
          <6>1. (k + net.samples[i].bytes[d]) + e <= u
            BY <3>4, <3>7, <4>2, <5>2 DEF OverAt
          <6>2. PICK m \in Nat : m = net.samples[i].bytes[d]
            BY <3>8
          <6> QED  BY <3>7, <6>1, <6>2
        <5> QED  BY <5>1, <5>2
      <4> QED  BY <3>5, <3>6, <4>1, <4>2 DEF OverAt
    <3> QED  BY <3>1, <3>2, <3>3, <3>9, Zenon
  <2> QED  BY <2>2, <2>3
<1>6. NotLost'
  <2> SUFFICES ASSUME NEW s \in Streams \ spoiled', NEW d \in Ways
               PROVE  LostAt(net, KeptOf(rows, pruned, s, d, last), KeptOf(rows, pruned, s, d, net.at),
                             first[s], base[s], counter'[s], s, d)
    BY <1>2 DEF NotLost, Streams
  <2>1. counter'[s] = counter[s] /\ s \in Streams \ spoiled
    BY <1>1, <1>3 DEF UsageTyped
  <2> QED  BY <2>1 DEF UsageInv, NotLost
<1> QED  BY <1>4, <1>5, <1>6 DEF UsageInv

\* What the invariant says of a stream when no request is under way.
LEMMA IdleSays ==
  ASSUME NEW s, NEW d, NEW k, NEW b, NEW c, NEW u, NEW kept, NEW then, NEW f, NEW bp, NEW cp
  PROVE  /\ k + Grown(b, c) <= u => OverAt(Traffic!Idle, k, b, c, u, s, d)
         /\ (f # NoPair => bp # NoPair /\ bp[d] <= cp[d] /\ kept + f[d] >= bp[d])
              => LostAt(Traffic!Idle, kept, then, f, bp, cp, s, d)
  BY IdleRequest DEF OverAt, LostAt

\* A request that ends, by whatever way, with readings g committed or none.
LEMMA UsageIdles ==
  ASSUME UsageInv, UsageTyped', net' = Traffic!Idle, UNCHANGED <<kinds, rows, pruned>>,
         ~doubted' => \A s \in Streams, d \in Ways :
           StoredOf(rows, pruned, s, d) + Grown(base'[s][d], counter'[s][d]) <= used'[s][d],
         \A s \in Streams \ spoiled', d \in Ways : first'[s] # NoPair =>
           base'[s] # NoPair /\ base'[s][d] <= counter'[s][d] /\ KeptOf(rows, pruned, s, d, last') + first'[s][d] >= base'[s][d]
  PROVE  UsageInv'
<1>1. RowsTyped'
  BY DEF UsageInv, RowsTyped, RowRecs, Streams
<1>2. NetTyped'
  BY IdleRequest DEF NetTyped, NetRecs, SampleRecs, ReadingRecs, Streams, SamplesFit
<1>3. NotOver'
  <2> SUFFICES ASSUME ~doubted', NEW s \in Streams, NEW d \in Ways
               PROVE  OverAt(net', StoredOf(rows, pruned, s, d), base'[s][d], counter'[s][d], used'[s][d], s, d)
    BY DEF NotOver, Streams
  <2> QED  BY IdleSays
<1>4. NotLost'
  <2> SUFFICES ASSUME NEW s \in Streams \ spoiled', NEW d \in Ways
               PROVE  LostAt(net', KeptOf(rows, pruned, s, d, last'), KeptOf(rows, pruned, s, d, net'.at),
                             first'[s], base'[s], counter'[s], s, d)
    BY DEF NotLost, Streams
  <2> QED  BY IdleSays
<1> QED  BY <1>1, <1>2, <1>3, <1>4 DEF UsageInv

\* What the agent commits.
LEMMA Commits ==
  ASSUME UsageTyped, NEW E \in SUBSET Streams, NEW g \in [E -> Pairs]
  PROVE  /\ Traffic!committed(g) \in [Streams -> Pairs \cup {NoPair}]
         /\ Traffic!firstRead(g) \in [Streams -> Pairs \cup {NoPair}]
         /\ \A s \in E : Traffic!committed(g)[s] = g[s] /\ Traffic!firstRead(g)[s] = IF first[s] = NoPair THEN g[s] ELSE first[s]
         /\ \A s \in Streams \ E : Traffic!committed(g)[s] = base[s] /\ Traffic!firstRead(g)[s] = first[s]
<1>1. Traffic!NoBase = NoPair
  BY DEF Traffic!NoBase, NoPair, Traffic!Direction, Ways, Traffic!None
<1>2. DOMAIN g = E
  OBVIOUS
<1>3. /\ Traffic!committed(g) = [s \in Streams |-> IF s \in E THEN g[s] ELSE base[s]]
      /\ Traffic!firstRead(g) = [s \in Streams |-> IF s \in E /\ first[s] = NoPair THEN g[s] ELSE first[s]]
  BY <1>1, <1>2, Zenon DEF Traffic!committed, Traffic!firstRead, Traffic!Stream, Streams
<1>4. base \in [Streams -> Pairs \cup {NoPair}] /\ first \in [Streams -> Pairs \cup {NoPair}]
  BY DEF UsageTyped
<1> QED  BY <1>3, <1>4

\* A commit of readings that are kept, and that count what they were read from.
LEMMA UsageCommits ==
  ASSUME UsageInv, net' = Traffic!Idle, UNCHANGED <<kinds, used, counter, clock, rows, pruned, spoiled, doubted>>,
         NEW E \in SUBSET Streams, NEW g \in [E -> Pairs], base' = Traffic!committed(g), first' = Traffic!firstRead(g),
         last' \in Nat, last <= last', last' <= clock,
         ~doubted => \A s \in Streams, d \in Ways :
           StoredOf(rows, pruned, s, d) + (IF s \in E THEN Grown(g[s][d], counter[s][d]) ELSE Grown(base[s][d], counter[s][d]))
             <= used[s][d],
         \A s \in E \ spoiled, d \in Ways :
           g[s][d] <= counter[s][d] /\ (first[s] # NoPair => KeptOf(rows, pruned, s, d, last') + first[s][d] >= g[s][d])
  PROVE  UsageInv'
<1>1. UsageTyped /\ RowsTyped
  BY DEF UsageInv
<1>2. /\ base' \in [Streams -> Pairs \cup {NoPair}] /\ first' \in [Streams -> Pairs \cup {NoPair}]
      /\ \A s \in E : base'[s] = g[s] /\ first'[s] = IF first[s] = NoPair THEN g[s] ELSE first[s]
      /\ \A s \in Streams \ E : base'[s] = base[s] /\ first'[s] = first[s]
  BY <1>1, Commits
<1>3. UsageTyped'
  BY <1>1, <1>2 DEF UsageTyped, Streams
<1>4. ASSUME ~doubted', NEW s \in Streams, NEW d \in Ways
      PROVE  StoredOf(rows, pruned, s, d) + Grown(base'[s][d], counter'[s][d]) <= used'[s][d]
  <2>1. CASE s \in E
    BY <1>2, <1>4, <2>1
  <2>2. CASE s \notin E
    BY <1>2, <1>4, <2>2
  <2> QED  BY <2>1, <2>2
<1>5. ASSUME NEW s \in Streams \ spoiled', NEW d \in Ways, first'[s] # NoPair
      PROVE  base'[s] # NoPair /\ base'[s][d] <= counter'[s][d] /\ KeptOf(rows, pruned, s, d, last') + first'[s][d] >= base'[s][d]
  <2>0. KeptOf(rows, pruned, s, d, last') \in Nat
    BY <1>1, SumsAreNumbers
  <2>1. CASE s \in E
    <3>1. g[s] \in Pairs /\ g[s][d] \in Nat /\ g[s] # NoPair
      <4>1. g[s] \in Pairs
        BY <2>1
      <4>2. g[s][d] \in Nat
        BY <4>1 DEF Pairs
      <4>3. NoPair[d] = -1
        BY DEF NoPair
      <4> QED  BY <4>1, <4>2, <4>3
    <3>2. base'[s] = g[s] /\ g[s][d] <= counter[s][d]
      BY <1>2, <2>1
    <3>3. KeptOf(rows, pruned, s, d, last') + first'[s][d] >= g[s][d]
      <4>1. CASE first[s] = NoPair
        <5>1. first'[s] = g[s]
          BY <1>2, <2>1, <4>1
        <5> QED  BY <2>0, <3>1, <5>1
      <4>2. CASE first[s] # NoPair
        BY <1>2, <2>1, <4>2
      <4> QED  BY <4>1, <4>2
    <3> QED  BY <3>1, <3>2, <3>3
  <2>2. CASE s \notin E
    <3>1. base'[s] = base[s] /\ first'[s] = first[s] /\ first[s] # NoPair
      BY <1>2, <1>5, <2>2
    <3>2. base[s] # NoPair /\ base[s][d] <= counter[s][d] /\ KeptOf(rows, pruned, s, d, last) + first[s][d] >= base[s][d]
      BY <3>1 DEF UsageInv, NotLost, LostAt
    <3>3. KeptOf(rows, pruned, s, d, last) <= KeptOf(rows, pruned, s, d, last') /\ KeptOf(rows, pruned, s, d, last) \in Nat
      <4>1. last \in Nat
        BY <1>1 DEF UsageTyped
      <4> QED  BY <1>1, <4>1, KeptGrows, SumsAreNumbers
    <3>4. first[s][d] \in Nat /\ base[s][d] \in Nat
      BY <1>1, <3>1, <3>2, StreamNumbers, PairsAreNumbers
    <3> QED  BY <2>0, <3>1, <3>2, <3>3, <3>4
  <2> QED  BY <2>1, <2>2
<1> QED  BY <1>3, <1>4, <1>5, UsageIdles

\* The answer comes: the readings of the request count from then on.
LEMMA UsageAnswered ==
  ASSUME UsageInv, UNCHANGED kinds, Traffic!Answered
  PROVE  UsageInv'
<1>1. /\ net.stage = "answered" /\ net' = Traffic!Idle
      /\ UNCHANGED <<kinds, used, counter, clock, rows, pruned, spoiled, doubted>>
  BY DEF Traffic!Answered
<1>2. UsageTyped /\ RowsTyped /\ NetTyped
  BY DEF UsageInv
<1>3. net.samples = <<>> /\ last < net.at /\ net.at <= clock /\ net.at \in Nat
  BY <1>1, <1>2 DEF NetTyped, NetRecs
<1>4. CASE net.waits
  <2>1. base' = Traffic!committed(net.readings) /\ first' = Traffic!firstRead(net.readings) /\ last' = net.at
    BY <1>4 DEF Traffic!Answered
  <2>2. PICK E \in SUBSET Streams : net.readings \in [E -> Pairs]
    BY <1>2 DEF NetTyped, NetRecs, ReadingRecs
  <2>3. PICK g \in [E -> Pairs] : g = net.readings
    BY <2>2
  <2>4. ASSUME ~doubted, NEW s \in Streams, NEW d \in Ways
        PROVE  StoredOf(rows, pruned, s, d) + (IF s \in E THEN Grown(g[s][d], counter[s][d]) ELSE Grown(base[s][d], counter[s][d]))
                 <= used[s][d]
    <3>1. StoredOf(rows, pruned, s, d) + Rest(net, base[s][d], counter[s][d], s, d) <= used[s][d]
      BY <1>1, <2>4 DEF UsageInv, NotOver, OverAt
    <3>2. Rest(net, base[s][d], counter[s][d], s, d) = IF s \in E THEN Grown(g[s][d], counter[s][d]) ELSE Grown(base[s][d], counter[s][d])
      BY <1>4, <2>3 DEF Rest
    <3> QED  BY <3>1, <3>2
  <2>5. ASSUME NEW s \in E \ spoiled, NEW d \in Ways
        PROVE  g[s][d] <= counter[s][d] /\ (first[s] # NoPair => KeptOf(rows, pruned, s, d, last') + first[s][d] >= g[s][d])
    <3>1. s \in DOMAIN net.readings
      BY <2>3
    <3>2. LostHere(s, d)
      BY DEF UsageInv, NotLost, LostHere
    <3>3. DOMAIN net.samples = {}
      BY <1>3
    <3> QED  BY <1>1, <2>1, <2>3, <3>1, <3>2, <3>3 DEF LostHere, LostAt
  <2>6. last' \in Nat /\ last <= last' /\ last' <= clock
    BY <1>2, <1>3, <2>1 DEF UsageTyped
  <2>7. base' = Traffic!committed(g) /\ first' = Traffic!firstRead(g)
    BY <2>1, <2>3
  <2> QED  BY <1>1, <2>4, <2>5, <2>6, <2>7, UsageCommits
<1>5. CASE ~net.waits
  <2>1. UNCHANGED <<base, first, last>>
    BY <1>5 DEF Traffic!Answered
  <2>2. UsageTyped'
    BY <1>1, <1>2, <2>1 DEF UsageTyped, Streams
  <2>3. ASSUME ~doubted', NEW s \in Streams, NEW d \in Ways
        PROVE  StoredOf(rows, pruned, s, d) + Grown(base'[s][d], counter'[s][d]) <= used'[s][d]
    <3>1. StoredOf(rows, pruned, s, d) + Rest(net, base[s][d], counter[s][d], s, d) <= used[s][d]
      BY <1>1, <2>3 DEF UsageInv, NotOver, OverAt
    <3> QED  BY <1>1, <1>5, <2>1, <3>1 DEF Rest
  <2>4. ASSUME NEW s \in Streams \ spoiled', NEW d \in Ways, first'[s] # NoPair
        PROVE  base'[s] # NoPair /\ base'[s][d] <= counter'[s][d] /\ KeptOf(rows, pruned, s, d, last') + first'[s][d] >= base'[s][d]
    BY <1>1, <2>1, <2>4 DEF UsageInv, NotLost, LostAt
  <2> QED  BY <1>1, <2>2, <2>3, <2>4, UsageIdles
<1> QED  BY <1>4, <1>5

\* The request is lost, or the server fails with it.
LEMMA UsageDropped ==
  ASSUME UsageInv, UNCHANGED kinds, Traffic!RequestLost \/ Traffic!IngestFails
  PROVE  UsageInv'
<1>1. /\ net' = Traffic!Idle /\ UNCHANGED <<kinds, used, counter, base, last, clock, rows, first, pruned, spoiled>>
      /\ doubted' \in BOOLEAN /\ (~doubted' => ~doubted /\ net.stage = "sent")
  BY DEF Traffic!RequestLost, Traffic!IngestFails, UsageInv, UsageTyped
<1>2. UsageTyped'
  BY <1>1 DEF UsageInv, UsageTyped, Streams
<1>3. ASSUME ~doubted', NEW s \in Streams, NEW d \in Ways
      PROVE  StoredOf(rows, pruned, s, d) + Grown(base'[s][d], counter'[s][d]) <= used'[s][d]
  <2>1. StoredOf(rows, pruned, s, d) + Grown(base[s][d], counter[s][d]) <= used[s][d]
    BY <1>1, <1>3 DEF UsageInv, NotOver, OverAt
  <2> QED  BY <1>1, <2>1
<1>4. ASSUME NEW s \in Streams \ spoiled', NEW d \in Ways, first'[s] # NoPair
      PROVE  base'[s] # NoPair /\ base'[s][d] <= counter'[s][d] /\ KeptOf(rows, pruned, s, d, last') + first'[s][d] >= base'[s][d]
  BY <1>1, <1>4 DEF UsageInv, NotLost, LostAt
<1> QED  BY <1>1, <1>2, <1>3, <1>4, UsageIdles

\* A request whose agent no longer waits is as typed as before.
LEMMA GivenUp ==
  ASSUME NetTyped, NEW n, n = [net EXCEPT !.waits = FALSE]
  PROVE  /\ n \in NetRecs /\ n.waits = FALSE
         /\ n.stage = net.stage /\ n.samples = net.samples /\ n.readings = net.readings /\ n.at = net.at
  BY DEF NetTyped, NetRecs

\* The agent gives up waiting.
LEMMA UsageGivenUp ==
  ASSUME UsageInv, UNCHANGED kinds, Traffic!AnswerLost
  PROVE  UsageInv'
<1>1. UNCHANGED <<kinds, used, counter, base, last, clock, rows, first, pruned, spoiled>> /\ doubted' = TRUE
  BY DEF Traffic!AnswerLost
<1>2. UsageTyped /\ RowsTyped /\ NetTyped
  BY DEF UsageInv
<1>3. PICK n : n = net' /\ n = [net EXCEPT !.waits = FALSE]
  BY DEF Traffic!AnswerLost
<1>4. /\ n \in NetRecs
      /\ n.stage = net.stage /\ n.samples = net.samples /\ n.readings = net.readings /\ n.at = net.at
  BY <1>2, <1>3, GivenUp
<1>5. UsageTyped' /\ RowsTyped'
  BY <1>1, <1>2 DEF UsageTyped, RowsTyped, RowRecs, Streams
<1>6. NetTyped'
  <2>1. n \in NetRecs'
    BY <1>1, <1>4 DEF NetRecs, SampleRecs, ReadingRecs, Streams
  <2> QED  BY <1>1, <1>2, <1>3, <1>4, <2>1 DEF NetTyped
<1>7. NotOver'
  BY <1>1 DEF NotOver
<1>8. NotLost'
  <2> SUFFICES ASSUME NEW s \in Streams \ spoiled, NEW d \in Ways
               PROVE  LostAt(n, KeptOf(rows, pruned, s, d, last), KeptOf(rows, pruned, s, d, n.at),
                             first[s], base[s], counter[s], s, d)
    <3>1. UNCHANGED <<kinds, counter, base, last, rows, first, pruned, spoiled>> /\ n = net'
      BY <1>1, <1>3
    <3> QED  BY <3>1 DEF NotLost, Streams
  <2>1. LostHere(s, d)
    BY DEF UsageInv, NotLost, LostHere
  <2> QED  BY <1>4, <2>1 DEF LostHere, LostAt
<1> QED  BY <1>5, <1>6, <1>7, <1>8 DEF UsageInv

\* An agent that starts again finds nothing before its first reading.
LEMMA UsageRestarts ==
  ASSUME UsageInv, UNCHANGED kinds, Traffic!AgentCrash
  PROVE  UsageInv'
<1>0. Traffic!NoBase = NoPair
  BY DEF Traffic!NoBase, NoPair, Traffic!Direction, Ways, Traffic!None
<1>1. /\ UNCHANGED <<kinds, used, counter, clock, rows, first, pruned, doubted>>
      /\ base' = [s \in Streams |-> NoPair] /\ last' = 0 /\ spoiled' = Streams
  BY <1>0 DEF Traffic!AgentCrash, Traffic!Stream, Streams
<1>2. UsageTyped /\ RowsTyped /\ NetTyped
  BY DEF UsageInv
<1>3. PICK n : n = net' /\ n = [net EXCEPT !.waits = FALSE]
  BY DEF Traffic!AgentCrash
<1>4. /\ n \in NetRecs /\ n.waits = FALSE
      /\ n.stage = net.stage /\ n.samples = net.samples /\ n.readings = net.readings /\ n.at = net.at
  BY <1>2, <1>3, GivenUp
<1>5. UsageTyped' /\ RowsTyped'
  BY <1>1, <1>2 DEF UsageTyped, RowsTyped, RowRecs, Streams
<1>6. NetTyped'
  <2>1. n \in NetRecs'
    BY <1>1, <1>4 DEF NetRecs, SampleRecs, ReadingRecs, Streams
  <2>2. last \in Nat /\ net.at \in Nat
    BY <1>2 DEF UsageTyped, NetTyped, NetRecs
  <2> QED  BY <1>1, <1>2, <1>3, <1>4, <2>1, <2>2 DEF NetTyped
<1>7. NotOver'
  <2> SUFFICES ASSUME ~doubted, NEW s \in Streams, NEW d \in Ways
               PROVE  OverAt(n, StoredOf(rows, pruned, s, d), base'[s][d], counter[s][d], used[s][d], s, d)
    BY <1>1, <1>3 DEF NotOver, Streams
  <2>1. OverAt(net, StoredOf(rows, pruned, s, d), base[s][d], counter[s][d], used[s][d], s, d)
    BY DEF UsageInv, NotOver
  <2>2. PICK c, u, k \in Nat : c = counter[s][d] /\ u = used[s][d] /\ k = StoredOf(rows, pruned, s, d)
    BY <1>2, StreamNumbers, SumsAreNumbers
  <2>3. PICK b \in Nat \cup {-1} : b = base[s][d]
    BY <1>2, StreamNumbers, PairsAreNumbers
  <2>4. OverAt(net, k, b, c, u, s, d)
    BY <2>1, <2>2, <2>3, Zenon
  <2>5. base'[s][d] = -1
    BY <1>1 DEF NoPair
  <2>6. Grown(-1, c) = 0 /\ Rest(n, -1, c, s, d) = 0
    BY <1>4 DEF Grown, Rest
  <2>7. PICK g, e \in Nat : g = Grown(b, c) /\ e = Rest(net, b, c, s, d)
    BY <1>2, GrownFacts, RestIsNumber
  <2>8. net.stage \in {"idle", "sent"} => k + 0 <= u
    BY <2>4, <2>7 DEF OverAt
  <2>9. ASSUME net.stage # "idle"
        PROVE  k + 0 <= u /\ \A i \in DOMAIN net.samples : net.samples[i].s = s => (k + net.samples[i].bytes[d]) + 0 <= u
    <3>1. k + e <= u
      BY <2>4, <2>7, <2>9 DEF OverAt
    <3>2. ASSUME NEW i \in DOMAIN net.samples, net.samples[i].s = s
          PROVE  (k + net.samples[i].bytes[d]) + 0 <= u
      <4>1. (k + net.samples[i].bytes[d]) + e <= u
        BY <2>4, <2>7, <2>9, <3>2 DEF OverAt
      <4>2. PICK m \in Nat : m = net.samples[i].bytes[d]
        BY <1>2, SampleNumbers
      <4> QED  BY <2>7, <4>1, <4>2
    <3> QED  BY <3>1, <3>2
  <2>10. OverAt(n, k, -1, c, u, s, d)
    BY <1>4, <2>6, <2>8, <2>9 DEF OverAt
  <2> QED  BY <2>2, <2>5, <2>10, Zenon
<1>8. NotLost'
  BY <1>1 DEF NotLost, Streams
<1> QED  BY <1>5, <1>6, <1>7, <1>8 DEF UsageInv

\* The ingest ends: what it prunes stays in the sum of the pruned.
LEMMA UsagePruned ==
  ASSUME UsageInv, UNCHANGED kinds, Traffic!IngestEnds
  PROVE  UsageInv'
<1>1. /\ UNCHANGED <<kinds, used, counter, base, last, clock, first, spoiled, doubted>>
      /\ net.stage = "stored" /\ net.samples = <<>>
  BY DEF Traffic!IngestEnds
<1>2. UsageTyped /\ RowsTyped /\ NetTyped
  BY DEF UsageInv
<1>3. PICK P \in SUBSET rows : P = Traffic!prunable
  <2>1. IsFiniteSet(rows) /\ \A r \in rows : r.received \in Nat
    BY <1>2 DEF RowsTyped, RowRecs
  <2> QED  BY <2>1, PrunedAreRows
<1>4. rows' = rows \ P /\ pruned' = [s \in Streams |-> [d \in Ways |-> pruned[s][d] + Traffic!bytesOf(P, s, d)]]
  BY <1>3, Zenon DEF Traffic!IngestEnds, Traffic!Stream, Traffic!Direction, Streams, Ways
<1>5. IsFiniteSet(rows) /\ \A r \in rows : r.bytes \in Pairs
  BY <1>2 DEF RowsTyped, RowRecs
<1>6. ASSUME NEW s \in Streams, NEW d \in Ways
      PROVE  /\ pruned'[s][d] = pruned[s][d] + Traffic!bytesOf(P, s, d)
             /\ Traffic!bytesOf(P, s, d) \in Nat
             /\ StoredOf(rows', pruned', s, d) = StoredOf(rows, pruned, s, d)
  <2>1. pruned'[s][d] = pruned[s][d] + Traffic!bytesOf(P, s, d)
    BY <1>4
  <2>2. Counted(rows, s, d)
    BY <1>5, RowsCounted
  <2>3. /\ Traffic!bytesOf(rows, s, d) = Traffic!bytesOf(P, s, d) + Traffic!bytesOf(rows \ P, s, d)
        /\ Traffic!bytesOf(P, s, d) \in Nat /\ Traffic!bytesOf(rows \ P, s, d) \in Nat
    BY <2>2, SumOfPart
  <2>4. pruned[s][d] \in Nat
    BY <1>2, StreamNumbers
  <2>5. StoredOf(rows', pruned', s, d) = Traffic!bytesOf(rows \ P, s, d) + (pruned[s][d] + Traffic!bytesOf(P, s, d))
    BY <1>4, <2>1, Zenon DEF StoredOf
  <2> QED  BY <2>1, <2>3, <2>4, <2>5 DEF StoredOf
<1>7. ASSUME NEW s \in Streams, NEW d \in Ways, NEW t
      PROVE  KeptOf(rows', pruned', s, d, t) \in Nat /\ KeptOf(rows', pruned', s, d, t) >= KeptOf(rows, pruned, s, d, t)
  <2>1. PICK U, V : U = Until(rows, t) /\ V = Until(rows \ P, t)
    OBVIOUS
  <2>2. V \in SUBSET U /\ U \ V \in SUBSET P
    BY <2>1 DEF Until
  <2>3. Counted(U, s, d)
    BY <1>5, <2>1, RowsCounted
  <2>4. Counted(P, s, d)
    <3>1. Counted(rows, s, d)
      BY <1>5, RowsCounted
    <3> QED  BY <3>1, SumOfPart
  <2>5. PICK x, y, z \in Nat : x = Traffic!bytesOf(U, s, d) /\ y = Traffic!bytesOf(V, s, d) /\ z = Traffic!bytesOf(U \ V, s, d)
                              /\ x = y + z
    <3>1. /\ Traffic!bytesOf(U, s, d) = Traffic!bytesOf(V, s, d) + Traffic!bytesOf(U \ V, s, d)
          /\ Traffic!bytesOf(V, s, d) \in Nat /\ Traffic!bytesOf(U \ V, s, d) \in Nat /\ Traffic!bytesOf(U, s, d) \in Nat
      BY <2>2, <2>3, SumOfPart
    <3> QED  BY <3>1, Zenon
  <2>6. PICK D : D = U \ V
    OBVIOUS
  <2>7. PICK w, v \in Nat : w = Traffic!bytesOf(P, s, d) /\ v = Traffic!bytesOf(P \ D, s, d) /\ w = z + v
    <3>1. D \in SUBSET P
      BY <2>2, <2>6
    <3>2. /\ Traffic!bytesOf(P, s, d) = Traffic!bytesOf(D, s, d) + Traffic!bytesOf(P \ D, s, d)
          /\ Traffic!bytesOf(P \ D, s, d) \in Nat /\ Traffic!bytesOf(P, s, d) \in Nat
      BY <2>4, <3>1, SumOfPart
    <3>3. z = Traffic!bytesOf(D, s, d)
      BY <2>5, <2>6
    <3> QED  BY <3>2, <3>3, Zenon
  <2>8. PICK p \in Nat : p = pruned[s][d]
    BY <1>2, StreamNumbers
  <2>9. KeptOf(rows', pruned', s, d, t) = y + (p + w)
    <3>1. pruned'[s][d] = p + w
      BY <1>6, <2>7, <2>8, Zenon
    <3>2. Until(rows', t) = V
      BY <1>4, <2>1, Zenon
    <3> QED  BY <2>5, <3>1, <3>2, Zenon DEF KeptOf
  <2>10. KeptOf(rows, pruned, s, d, t) = x + p
    BY <2>1, <2>5, <2>8, Zenon DEF KeptOf
  <2> QED  BY <2>5, <2>7, <2>9, <2>10
<1>8. PICK n : n = net' /\ n = [net EXCEPT !.stage = "answered"]
  BY DEF Traffic!IngestEnds
<1>9. /\ n \in NetRecs /\ n.stage = "answered" /\ n.waits = net.waits
      /\ n.samples = net.samples /\ n.readings = net.readings /\ n.at = net.at
  BY <1>2, <1>8 DEF NetTyped, NetRecs
<1>10. UsageTyped'
  <2>1. pruned' \in [Streams -> Pairs]
    <3>1. ASSUME NEW s \in Streams, NEW d \in Ways PROVE pruned[s][d] + Traffic!bytesOf(P, s, d) \in Nat
      <4>1. pruned[s][d] \in Nat
        BY <1>2, StreamNumbers
      <4> QED  BY <1>6, <4>1
    <3> QED  BY <1>4, <3>1 DEF Pairs
  <2> QED  BY <1>1, <1>2, <2>1 DEF UsageTyped, Streams
<1>11. RowsTyped'
  <2>1. IsFiniteSet(rows \ P)
    BY <1>5, FS_Subset
  <2>2. rows' \subseteq RowRecs /\ \A r \in rows' : r.key[1] = r.s
    BY <1>2, <1>4 DEF RowsTyped
  <2>3. RowRecs' = RowRecs
    BY <1>1 DEF RowRecs, Streams
  <2> QED  BY <1>4, <2>1, <2>2, <2>3 DEF RowsTyped
<1>12. NetTyped'
  <2>1. n \in NetRecs'
    BY <1>1, <1>9 DEF NetRecs, SampleRecs, ReadingRecs, Streams
  <2> QED  BY <1>1, <1>2, <1>8, <1>9, <2>1 DEF NetTyped
<1>13. NotOver'
  <2> SUFFICES ASSUME ~doubted, NEW s \in Streams, NEW d \in Ways
               PROVE  OverAt(n, StoredOf(rows', pruned', s, d), base[s][d], counter[s][d], used[s][d], s, d)
    BY <1>1, <1>8 DEF NotOver, Streams
  <2>1. OverAt(net, StoredOf(rows, pruned, s, d), base[s][d], counter[s][d], used[s][d], s, d)
    BY DEF UsageInv, NotOver
  <2>2. OverAt(net, StoredOf(rows', pruned', s, d), base[s][d], counter[s][d], used[s][d], s, d)
    BY <1>6, <2>1
  <2> QED  BY <1>1, <1>9, <2>2 DEF OverAt, Rest
<1>14. NotLost'
  <2> SUFFICES ASSUME NEW s \in Streams \ spoiled, NEW d \in Ways
               PROVE  LostAt(n, KeptOf(rows', pruned', s, d, last), KeptOf(rows', pruned', s, d, n.at),
                             first[s], base[s], counter[s], s, d)
    BY <1>1, <1>8 DEF NotLost, Streams
  <2>1. LostHere(s, d)
    BY DEF UsageInv, NotLost, LostHere
  <2>2. PICK k, l, m, o \in Nat : /\ k = KeptOf(rows, pruned, s, d, last) /\ l = KeptOf(rows', pruned', s, d, last) /\ k <= l
                                 /\ m = KeptOf(rows, pruned, s, d, net.at) /\ o = KeptOf(rows', pruned', s, d, net.at) /\ m <= o
    <3>1. KeptOf(rows, pruned, s, d, last) \in Nat /\ KeptOf(rows, pruned, s, d, net.at) \in Nat
      BY <1>2, SumsAreNumbers
    <3> QED  BY <1>7, <3>1
  <2>3. LostAt(net, k, m, first[s], base[s], counter[s], s, d)
    BY <2>1, <2>2 DEF LostHere
  <2>4. first[s] # NoPair => first[s][d] \in Nat
    BY <1>2, StreamNumbers, PairsAreNumbers
  <2>5. base[s] # NoPair => base[s][d] \in Nat
    BY <1>2, StreamNumbers, PairsAreNumbers
  <2>6. s \in DOMAIN net.readings => net.readings[s][d] \in Nat
    BY <1>2, ReadingNumbers
  <2>7. LostAt(n, l, o, first[s], base[s], counter[s], s, d)
    <3>1. first[s] # NoPair => base[s] # NoPair /\ base[s][d] <= counter[s][d] /\ l + first[s][d] >= base[s][d]
      BY <2>2, <2>3, <2>4, <2>5 DEF LostAt
    <3>2. ASSUME s \in DOMAIN net.readings
          PROVE  /\ net.readings[s][d] <= counter[s][d]
                 /\ first[s] # NoPair => o + first[s][d] >= net.readings[s][d]
      <4>1. net.readings[s][d] <= counter[s][d] /\ (first[s] # NoPair => m + first[s][d] >= net.readings[s][d])
        BY <1>1, <2>3, <3>2 DEF LostAt
      <4> QED  BY <2>2, <2>4, <2>6, <3>2, <4>1
    <3> QED  BY <1>1, <1>9, <3>1, <3>2 DEF LostAt
  <2> QED  BY <1>9, <2>2, <2>7
<1> QED  BY <1>10, <1>11, <1>12, <1>13, <1>14 DEF UsageInv

\* More rows sum to no less.
LEMMA SumOfMore ==
  ASSUME NEW s, NEW d, NEW S, NEW A, Counted(S, s, d), A \subseteq S
  PROVE  \E j, k, l \in Nat : j = Traffic!bytesOf(S, s, d) /\ k = Traffic!bytesOf(A, s, d) /\ j = k + l
<1>1. A \in SUBSET S
  OBVIOUS
<1>2. /\ Traffic!bytesOf(S, s, d) = Traffic!bytesOf(A, s, d) + Traffic!bytesOf(S \ A, s, d)
      /\ Traffic!bytesOf(A, s, d) \in Nat /\ Traffic!bytesOf(S \ A, s, d) \in Nat /\ Traffic!bytesOf(S, s, d) \in Nat
  BY <1>1, SumOfPart
<1> QED  BY <1>2, Zenon

\* Only the rows of a stream count for it.
LEMMA SumByStream ==
  ASSUME NEW s, NEW d, NEW A, NEW C, Counted(A, s, d), Counted(C, s, d), {r \in A : r.s = s} = {r \in C : r.s = s}
  PROVE  Traffic!bytesOf(A, s, d) = Traffic!bytesOf(C, s, d)
<1>1. ASSUME NEW S, Counted(S, s, d)
      PROVE  Traffic!bytesOf(S, s, d) = Traffic!bytesOf({r \in S : r.s = s}, s, d) /\ Traffic!bytesOf(S, s, d) \in Nat
  <2>1. PICK M : M = {r \in S : r.s = s}
    OBVIOUS
  <2>2. M \in SUBSET S
    BY <2>1
  <2>3. /\ Traffic!bytesOf(S, s, d) = Traffic!bytesOf(M, s, d) + Traffic!bytesOf(S \ M, s, d)
        /\ Traffic!bytesOf(M, s, d) \in Nat /\ Traffic!bytesOf(S, s, d) \in Nat /\ Counted(S \ M, s, d)
    BY <1>1, <2>2, SumOfPart
  <2>4. \A r \in S \ M : Value(r, s, d) = 0
    BY <2>1 DEF Value
  <2>5. Traffic!bytesOf(S \ M, s, d) = 0
    <3>1. PICK D : D = S \ M
      OBVIOUS
    <3>2. IsFiniteSet(D) /\ \A r \in D : Value(r, s, d) = 0
      BY <2>3, <2>4, <3>1 DEF Counted
    <3> QED  BY <3>1, <3>2, SumOfOthers
  <2> QED  BY <2>1, <2>3, <2>5
<1> QED  BY <1>1

\* Q has a row y of stream e under its key, instead of the one that R had.
Upserts(R, e, at, y, Q) ==
  /\ IsFiniteSet(R) /\ \A r \in R : r.bytes \in Pairs /\ r.key[2] \in Nat /\ r.key[1] = r.s
  /\ y.key = <<e, at>> /\ y.s = e /\ y.bytes \in Pairs
  /\ Q = {r \in R : r.key # <<e, at>>} \cup {y}

\* What that does to the sums.
LEMMA UpsertSums ==
  ASSUME NEW R, NEW e, NEW at \in Nat, NEW y, NEW Q, Upserts(R, e, at, y, Q), NEW d \in Ways
  PROVE  /\ \A s : s # e => /\ Traffic!bytesOf(Q, s, d) = Traffic!bytesOf(R, s, d)
                           /\ \A t : Traffic!bytesOf(Until(Q, t), s, d) = Traffic!bytesOf(Until(R, t), s, d)
         /\ Traffic!bytesOf(Q, e, d) <= Traffic!bytesOf(R, e, d) + y.bytes[d]
         /\ \A t \in Nat : t < at =>
              /\ Traffic!bytesOf(Until(Q, t), e, d) = Traffic!bytesOf(Until(R, t), e, d)
              /\ Traffic!bytesOf(Until(Q, at), e, d) >= Traffic!bytesOf(Until(R, t), e, d) + y.bytes[d]
<1>0. /\ IsFiniteSet(R) /\ \A r \in R : r.bytes \in Pairs /\ r.key[2] \in Nat /\ r.key[1] = r.s
      /\ y.key = <<e, at>> /\ y.s = e /\ y.bytes \in Pairs
  BY DEF Upserts
<1>1. PICK K : K = {r \in R : r.key # <<e, at>>}
  OBVIOUS
<1>2. Q = K \cup {y} /\ K \in SUBSET R /\ y \notin K /\ y.key[1] = e /\ y.key[2] = at
  BY <1>0, <1>1 DEF Upserts
<1>3. \A r \in R : r \notin K => r.s = e /\ r.key[2] = at
  <2> SUFFICES ASSUME NEW r \in R, r \notin K PROVE r.s = e /\ r.key[2] = at  OBVIOUS
  <2>1. r.key = <<e, at>>
    BY <1>1
  <2>2. r.key[1] = e /\ r.key[2] = at
    BY <2>1
  <2> QED  BY <1>0, <2>2
<1>4. IsFiniteSet(K) /\ IsFiniteSet(Q) /\ \A r \in Q : r.bytes \in Pairs
  <2>1. IsFiniteSet(K)
    BY <1>0, <1>2, FS_Subset
  <2>2. IsFiniteSet(K \cup {y})
    BY <2>1, FS_AddElement
  <2> QED  BY <1>0, <1>2, <2>1, <2>2
<1>5. ASSUME NEW s
      PROVE  /\ Counted(R, s, d) /\ Counted(Q, s, d) /\ Counted(K, s, d)
             /\ \A t : Counted(Until(R, t), s, d) /\ Counted(Until(Q, t), s, d) /\ Counted(Until(K, t), s, d)
  <2>1. \A r \in K : r.bytes \in Pairs
    BY <1>0, <1>2
  <2> QED  BY <1>0, <1>4, <2>1, RowsCounted
<1>6. ASSUME NEW s, s # e
      PROVE  /\ Traffic!bytesOf(Q, s, d) = Traffic!bytesOf(R, s, d)
             /\ \A t : Traffic!bytesOf(Until(Q, t), s, d) = Traffic!bytesOf(Until(R, t), s, d)
  <2>1. {r \in Q : r.s = s} = {r \in R : r.s = s}
    BY <1>0, <1>2, <1>3, <1>6
  <2>2. Traffic!bytesOf(Q, s, d) = Traffic!bytesOf(R, s, d)
    BY <1>5, <2>1, SumByStream
  <2>3. ASSUME NEW t PROVE Traffic!bytesOf(Until(Q, t), s, d) = Traffic!bytesOf(Until(R, t), s, d)
    <3>1. {r \in Until(Q, t) : r.s = s} = {r \in Until(R, t) : r.s = s}
      BY <2>1 DEF Until
    <3>2. PICK A, B : A = Until(Q, t) /\ B = Until(R, t)
      OBVIOUS
    <3>3. Counted(A, s, d) /\ Counted(B, s, d) /\ {r \in A : r.s = s} = {r \in B : r.s = s}
      BY <1>5, <3>1, <3>2
    <3>4. Traffic!bytesOf(A, s, d) = Traffic!bytesOf(B, s, d)
      BY <3>3, SumByStream
    <3> QED  BY <3>2, <3>4
  <2> QED  BY <2>2, <2>3
<1>7. Value(y, e, d) = y.bytes[d] /\ y.bytes[d] \in Nat
  BY <1>0 DEF Value, Pairs
<1>8. Traffic!bytesOf(Q, e, d) <= Traffic!bytesOf(R, e, d) + y.bytes[d]
  <2>0. Counted(R, e, d) /\ Counted(K, e, d)
    BY <1>5
  <2>1. Traffic!bytesOf(Q, e, d) = y.bytes[d] + Traffic!bytesOf(K, e, d)
    <3>1. Traffic!bytesOf(K \cup {y}, e, d) = Value(y, e, d) + Traffic!bytesOf(K, e, d)
      BY <1>2, <1>7, <2>0, SumWithOne
    <3> QED  BY <1>2, <1>7, <3>1
  <2>2. PICK j, k, l \in Nat : j = Traffic!bytesOf(R, e, d) /\ k = Traffic!bytesOf(K, e, d) /\ j = k + l
    BY <1>2, <2>0, SumOfMore
  <2> QED  BY <1>7, <2>1, <2>2
<1>9. ASSUME NEW t \in Nat, t < at
      PROVE  /\ Until(Q, t) = Until(R, t)
             /\ Traffic!bytesOf(Until(Q, at), e, d) >= Traffic!bytesOf(Until(R, t), e, d) + y.bytes[d]
  <2>1. ASSUME NEW r PROVE r \in Until(Q, t) <=> r \in Until(R, t)
    <3>1. CASE r \in R
      <4>1. r.key[2] <= t => r \in K
        BY <1>0, <1>3, <1>9, <3>1
      <4>2. r = y => ~ (r.key[2] <= t)
        BY <1>2, <1>9
      <4> QED  BY <1>2, <3>1, <4>1, <4>2 DEF Until
    <3>2. CASE r \notin R
      <4>1. r = y => ~ (r.key[2] <= t)
        BY <1>2, <1>9
      <4> QED  BY <1>2, <3>2, <4>1 DEF Until
    <3> QED  BY <3>1, <3>2
  <2>2. Until(Q, t) = Until(R, t)
    BY <2>1
  <2>3. PICK A, B : A = Until(R, t) /\ B = Until(K, at)
    OBVIOUS
  <2>4. A \in SUBSET B
    BY <1>0, <1>2, <1>3, <1>9, <2>3 DEF Until
  <2>5. Until(Q, at) = B \cup {y} /\ y \notin B
    BY <1>2, <2>3 DEF Until
  <2>6. Traffic!bytesOf(Until(Q, at), e, d) = y.bytes[d] + Traffic!bytesOf(B, e, d)
    <3>1. Counted(B, e, d)
      BY <1>5, <2>3
    <3>2. Traffic!bytesOf(B \cup {y}, e, d) = Value(y, e, d) + Traffic!bytesOf(B, e, d)
      BY <1>7, <2>5, <3>1, SumWithOne
    <3> QED  BY <1>7, <2>5, <3>2
  <2>7. PICK j, k, l \in Nat : j = Traffic!bytesOf(B, e, d) /\ k = Traffic!bytesOf(A, e, d) /\ j = k + l
    <3>1. Counted(B, e, d) /\ A \subseteq B
      BY <1>5, <2>3, <2>4
    <3> QED  BY <3>1, SumOfMore
  <2> QED  BY <1>7, <2>2, <2>3, <2>6, <2>7
<1>10. \A t \in Nat : t < at =>
         /\ Traffic!bytesOf(Until(Q, t), e, d) = Traffic!bytesOf(Until(R, t), e, d)
         /\ Traffic!bytesOf(Until(Q, at), e, d) >= Traffic!bytesOf(Until(R, t), e, d) + y.bytes[d]
  BY <1>9, Zenon
<1> QED  BY <1>6, <1>8, <1>10, Zenon

\* What is left of a sequence once its head is taken.
LEMMA TailFacts ==
  ASSUME NEW T, NEW q \in Seq(T), q # <<>>
  PROVE  /\ Head(q) = q[1] /\ 1 \in DOMAIN q /\ Tail(q) \in Seq(T)
         /\ \A i \in DOMAIN Tail(q) : i + 1 \in DOMAIN q /\ Tail(q)[i] = q[i + 1] /\ i + 1 # 1 /\ i \in Nat
         /\ \A j \in DOMAIN q : j # 1 => j - 1 \in DOMAIN Tail(q) /\ Tail(q)[j - 1] = q[j]
<1>1. Len(q) \in Nat /\ Len(q) > 0 /\ DOMAIN q = 1..Len(q)
  BY EmptySeq, LenProperties
<1>2. Tail(q) \in Seq(T) /\ Len(Tail(q)) = Len(q) - 1 /\ \A i \in 1..Len(Tail(q)) : Tail(q)[i] = q[i + 1]
  BY <1>1
<1>3. DOMAIN Tail(q) = 1..(Len(q) - 1)
  BY <1>1, <1>2, LenProperties
<1> QED  BY <1>1, <1>2, <1>3

\* A sample that is stored: its row, and what that does to the sums.
LEMMA UpsertsRow ==
  ASSUME UsageTyped, RowsTyped, NEW x \in SampleRecs, NEW at \in Nat, x.key = <<x.s, at>>,
         NEW Q, Q = Traffic!upserted(x)
  PROVE  /\ IsFiniteSet(Q) /\ Q \subseteq RowRecs /\ \A r \in Q : r.key[1] = r.s
         /\ \E y : Upserts(rows, x.s, at, y, Q) /\ y.bytes = x.bytes
<1>1. PICK y : y = [key |-> x.key, s |-> x.s, bytes |-> x.bytes, client |-> Traffic!attributed(x), received |-> clock]
  OBVIOUS
<1>2. x.key \in Streams \X Nat /\ x.s \in Streams /\ x.bytes \in Pairs
  BY DEF SampleRecs
<1>3. Traffic!attributed(x) \in {"nobody", "client"} /\ clock \in Nat
  BY DEF Traffic!attributed, UsageTyped
<1>4. y \in RowRecs /\ y.key = <<x.s, at>> /\ y.s = x.s /\ y.bytes = x.bytes
  BY <1>1, <1>2, <1>3 DEF RowRecs
<1>5. Q = {r \in rows : r.key # <<x.s, at>>} \cup {y}
  BY <1>1, Zenon DEF Traffic!upserted
<1>6. \A r \in rows : r.bytes \in Pairs /\ r.key[2] \in Nat /\ r.key[1] = r.s
  BY DEF RowsTyped, RowRecs
<1>7. Upserts(rows, x.s, at, y, Q)
  BY <1>2, <1>4, <1>5, <1>6 DEF Upserts, RowsTyped
<1>8. IsFiniteSet(Q)
  <2>1. PICK K : K = {r \in rows : r.key # <<x.s, at>>}
    OBVIOUS
  <2>2. IsFiniteSet(K)
    <3>1. K \in SUBSET rows /\ IsFiniteSet(rows)
      BY <2>1 DEF RowsTyped
    <3> QED  BY <3>1, FS_Subset
  <2> QED  BY <1>5, <2>1, <2>2, FS_AddElement
<1>9. y.key[1] = y.s
  BY <1>4
<1>10. Q \subseteq RowRecs /\ \A r \in Q : r.key[1] = r.s
  BY <1>4, <1>5, <1>9 DEF RowsTyped
<1> QED  BY <1>4, <1>7, <1>8, <1>10

\* The next sample is refused, which spoils its stream, or stored.
LEMMA UsageIngested ==
  ASSUME UsageInv, UNCHANGED kinds, Traffic!IngestSample
  PROVE  UsageInv'
<1>1. /\ UNCHANGED <<kinds, used, counter, base, last, clock, first, pruned, doubted>>
      /\ net.stage # "idle" /\ net.samples # <<>>
  BY DEF Traffic!IngestSample
<1>2. UsageTyped /\ RowsTyped /\ NetTyped
  BY DEF UsageInv
<1>3. PICK x : x = Head(net.samples)
  OBVIOUS
<1>4. PICK q \in Seq(SampleRecs) : q = net.samples
  BY <1>2 DEF NetTyped, NetRecs
<1>5. /\ x = q[1] /\ 1 \in DOMAIN q /\ Tail(q) \in Seq(SampleRecs)
      /\ \A i \in DOMAIN Tail(q) : i + 1 \in DOMAIN q /\ Tail(q)[i] = q[i + 1] /\ i + 1 # 1 /\ i \in Nat
      /\ \A j \in DOMAIN q : j # 1 => j - 1 \in DOMAIN Tail(q) /\ Tail(q)[j - 1] = q[j]
  <2>1. q # <<>> /\ x = Head(q)
    BY <1>1, <1>3, <1>4
  <2> QED  BY <2>1, TailFacts
<1>6. PICK w : w = Tail(q)
  OBVIOUS
<1>7. PICK n : n = net' /\ n = [net EXCEPT !.stage = "stored", !.samples = w]
  BY <1>4, <1>6, Zenon DEF Traffic!IngestSample
<1>8. /\ n \in NetRecs /\ n.stage = "stored" /\ n.waits = net.waits
      /\ n.samples = w /\ n.readings = net.readings /\ n.at = net.at
  BY <1>2, <1>5, <1>6, <1>7 DEF NetTyped, NetRecs
<1>9. SamplesFit(q, net.readings, net.at) /\ last < net.at /\ net.at <= clock /\ net.at \in Nat /\ last \in Nat
  BY <1>1, <1>2, <1>4 DEF NetTyped, NetRecs, UsageTyped
<1>10. x \in SampleRecs /\ x.key = <<x.s, net.at>> /\ x.s \in Streams /\ x.bytes \in Pairs
  <2>1. x \in SampleRecs
    <3>1. DOMAIN q = 1..Len(q) /\ \A i \in 1..Len(q) : q[i] \in SampleRecs
      BY LenProperties
    <3> QED  BY <1>5, <3>1
  <2>2. x.key = <<x.s, net.at>>
    BY <1>5, <1>9 DEF SamplesFit
  <2>3. x.s \in Streams /\ x.bytes \in Pairs
    BY <2>1 DEF SampleRecs
  <2> QED  BY <2>1, <2>2, <2>3
<1>11. \A i \in DOMAIN w : \E j \in DOMAIN q : w[i] = q[j] /\ j # 1
  BY <1>5, <1>6
<1>12. \A i \in DOMAIN w : w[i].s # x.s
  BY <1>5, <1>9, <1>11 DEF SamplesFit
<1>13. SamplesFit(w, net.readings, net.at)
  <2> SUFFICES ASSUME NEW i \in DOMAIN w
               PROVE  /\ w[i].key = <<w[i].s, net.at>> /\ w[i].s \in DOMAIN net.readings
                      /\ \A j \in DOMAIN w : w[j].s = w[i].s => j = i
    BY DEF SamplesFit
  <2>1. w[i].key = <<w[i].s, net.at>> /\ w[i].s \in DOMAIN net.readings
    BY <1>9, <1>11 DEF SamplesFit
  <2>2. ASSUME NEW j \in DOMAIN w, w[j].s = w[i].s PROVE j = i
    <3>1. i + 1 \in DOMAIN q /\ j + 1 \in DOMAIN q /\ q[j + 1].s = q[i + 1].s /\ i \in Nat /\ j \in Nat
      BY <1>5, <1>6, <2>2
    <3>2. j + 1 = i + 1
      BY <1>9, <3>1 DEF SamplesFit
    <3> QED  BY <3>1, <3>2
  <2> QED  BY <2>1, <2>2
<1>14. \A s : s # x.s => ((\A i \in DOMAIN w : w[i].s # s) => (\A j \in DOMAIN q : q[j].s # s))
  BY <1>5, <1>6
<1>18. ASSUME NEW s, NEW d, NEW k, NEW o, NEW f, NEW b, NEW c, s # x.s, LostAt(net, k, o, f, b, c, s, d)
       PROVE  LostAt(n, k, o, f, b, c, s, d)
  <2>1. f # NoPair => b # NoPair /\ b[d] <= c[d] /\ k + f[d] >= b[d]
    BY <1>18 DEF LostAt
  <2>2. ASSUME s \in DOMAIN net.readings
        PROVE  /\ net.readings[s][d] <= c[d]
               /\ f # NoPair =>
                    /\ (\A i \in DOMAIN w : w[i].s # s) => o + f[d] >= net.readings[s][d]
                    /\ \A i \in DOMAIN w : w[i].s = s => w[i].bytes[d] + b[d] >= net.readings[s][d]
    <3>1. /\ net.readings[s][d] <= c[d]
          /\ f # NoPair =>
               /\ (\A i \in DOMAIN q : q[i].s # s) => o + f[d] >= net.readings[s][d]
               /\ \A i \in DOMAIN q : q[i].s = s => q[i].bytes[d] + b[d] >= net.readings[s][d]
      BY <1>1, <1>4, <1>18, <2>2 DEF LostAt
    <3>2. (\A i \in DOMAIN w : w[i].s # s) => (\A i \in DOMAIN q : q[i].s # s)
      BY <1>14, <1>18
    <3>3. ASSUME f # NoPair, NEW i \in DOMAIN w, w[i].s = s PROVE w[i].bytes[d] + b[d] >= net.readings[s][d]
      <4>1. PICK j \in DOMAIN q : w[i] = q[j]
        BY <1>11
      <4> QED  BY <3>1, <3>3, <4>1
    <3> QED  BY <3>1, <3>2, <3>3, Zenon
  <2> QED  BY <1>8, <2>1, <2>2, Zenon DEF LostAt
<1>15. NetTyped'
  <2>1. n \in NetRecs'
    BY <1>1, <1>8 DEF NetRecs, SampleRecs, ReadingRecs, Streams
  <2> QED  BY <1>1, <1>7, <1>8, <1>9, <1>13, <2>1 DEF NetTyped
<1>16. CASE Traffic!refused(x)
  <2>1. rows' = rows /\ spoiled' = spoiled \cup {x.s}
    BY <1>3, <1>16, Zenon DEF Traffic!IngestSample
  <2>2. UsageTyped' /\ RowsTyped'
    BY <1>1, <1>2, <1>10, <2>1 DEF UsageTyped, RowsTyped, RowRecs, Streams
  <2>3. NotOver'
    <3> SUFFICES ASSUME ~doubted, NEW s \in Streams, NEW d \in Ways
                 PROVE  OverAt(n, StoredOf(rows, pruned, s, d), base[s][d], counter[s][d], used[s][d], s, d)
      BY <1>1, <1>7, <2>1 DEF NotOver, Streams
    <3>1. OverAt(net, StoredOf(rows, pruned, s, d), base[s][d], counter[s][d], used[s][d], s, d)
      BY DEF UsageInv, NotOver
    <3> QED  BY <1>1, <1>4, <1>8, <1>11, <3>1 DEF OverAt, Rest
  <2>4. NotLost'
    <3> SUFFICES ASSUME NEW s \in Streams \ spoiled', NEW d \in Ways
                 PROVE  LostAt(n, KeptOf(rows, pruned, s, d, last), KeptOf(rows, pruned, s, d, net.at),
                               first[s], base[s], counter[s], s, d)
      BY <1>1, <1>7, <1>8, <2>1 DEF NotLost, Streams
    <3>1. s # x.s /\ s \in Streams \ spoiled
      BY <2>1
    <3>2. LostAt(net, KeptOf(rows, pruned, s, d, last), KeptOf(rows, pruned, s, d, net.at),
                 first[s], base[s], counter[s], s, d)
      BY <3>1 DEF UsageInv, NotLost
    <3> QED  BY <1>18, <3>1, <3>2
  <2> QED  BY <1>15, <2>2, <2>3, <2>4 DEF UsageInv
<1>17. CASE ~Traffic!refused(x)
  <2>1. rows' = Traffic!upserted(x) /\ spoiled' = spoiled
    BY <1>3, <1>17, Zenon DEF Traffic!IngestSample
  <2>2. PICK Q : Q = rows' /\ Q = Traffic!upserted(x)
    BY <2>1
  <2>3. IsFiniteSet(Q) /\ Q \subseteq RowRecs /\ \A r \in Q : r.key[1] = r.s
    BY <1>2, <1>9, <1>10, <2>2, UpsertsRow
  <2>4. PICK y : Upserts(rows, x.s, net.at, y, Q) /\ y.bytes = x.bytes
    BY <1>2, <1>9, <1>10, <2>2, UpsertsRow
  <2>5. UsageTyped' /\ RowsTyped'
    <3>1. UsageTyped'
      BY <1>1, <1>2, <2>1 DEF UsageTyped, Streams
    <3>2. RowRecs' = RowRecs
      BY <1>1 DEF RowRecs, Streams
    <3> QED  BY <2>2, <2>3, <3>1, <3>2 DEF RowsTyped
  <2>6. ASSUME NEW d \in Ways
        PROVE  /\ \A s : s # x.s => /\ Traffic!bytesOf(Q, s, d) = Traffic!bytesOf(rows, s, d)
                                   /\ \A t : Traffic!bytesOf(Until(Q, t), s, d) = Traffic!bytesOf(Until(rows, t), s, d)
               /\ Traffic!bytesOf(Q, x.s, d) <= Traffic!bytesOf(rows, x.s, d) + x.bytes[d]
               /\ Traffic!bytesOf(Until(Q, last), x.s, d) = Traffic!bytesOf(Until(rows, last), x.s, d)
               /\ Traffic!bytesOf(Until(Q, net.at), x.s, d) >= Traffic!bytesOf(Until(rows, last), x.s, d) + x.bytes[d]
    <3>1. PICK at \in Nat : at = net.at
      BY <1>9
    <3>2. PICK l \in Nat : l = last /\ l < at
      BY <1>9, <3>1
    <3>3. PICK R : R = rows
      OBVIOUS
    <3>4. Upserts(R, x.s, at, y, Q)
      BY <2>4, <3>1, <3>3
    <3>5. /\ \A s : s # x.s => /\ Traffic!bytesOf(Q, s, d) = Traffic!bytesOf(R, s, d)
                              /\ \A t : Traffic!bytesOf(Until(Q, t), s, d) = Traffic!bytesOf(Until(R, t), s, d)
          /\ Traffic!bytesOf(Q, x.s, d) <= Traffic!bytesOf(R, x.s, d) + y.bytes[d]
          /\ \A t \in Nat : t < at =>
               /\ Traffic!bytesOf(Until(Q, t), x.s, d) = Traffic!bytesOf(Until(R, t), x.s, d)
               /\ Traffic!bytesOf(Until(Q, at), x.s, d) >= Traffic!bytesOf(Until(R, t), x.s, d) + y.bytes[d]
      BY <3>4, UpsertSums, Zenon
    <3> QED  BY <2>4, <3>1, <3>2, <3>3, <3>5, Zenon
  <2>7. ASSUME NEW s \in Streams, NEW d \in Ways, NEW t
        PROVE  /\ Traffic!bytesOf(Q, s, d) \in Nat /\ Traffic!bytesOf(rows, s, d) \in Nat /\ pruned[s][d] \in Nat
               /\ Traffic!bytesOf(Until(Q, t), s, d) \in Nat /\ Traffic!bytesOf(Until(rows, t), s, d) \in Nat
               /\ x.bytes[d] \in Nat
    <3>1. (\A r \in Q : r.bytes \in Pairs) /\ (\A r \in rows : r.bytes \in Pairs) /\ IsFiniteSet(rows)
      BY <1>2, <2>3 DEF RowsTyped, RowRecs
    <3>2. Traffic!bytesOf(Q, s, d) \in Nat /\ Traffic!bytesOf(Until(Q, t), s, d) \in Nat
      BY <2>3, <3>1, RowsCounted
    <3>3. Traffic!bytesOf(rows, s, d) \in Nat /\ Traffic!bytesOf(Until(rows, t), s, d) \in Nat
      BY <3>1, RowsCounted
    <3>4. pruned[s][d] \in Nat
      BY <1>2, StreamNumbers
    <3>5. x.bytes[d] \in Nat
      BY <1>10 DEF Pairs
    <3> QED  BY <3>2, <3>3, <3>4, <3>5
  <2>8. NotOver'
    <3> SUFFICES ASSUME ~doubted, NEW s \in Streams, NEW d \in Ways
                 PROVE  OverAt(n, StoredOf(Q, pruned, s, d), base[s][d], counter[s][d], used[s][d], s, d)
      BY <1>1, <1>7, <2>2 DEF NotOver, Streams
    <3>1. OverAt(net, StoredOf(rows, pruned, s, d), base[s][d], counter[s][d], used[s][d], s, d)
      BY DEF UsageInv, NotOver
    <3>2. CASE s # x.s
      <4>1. StoredOf(Q, pruned, s, d) = StoredOf(rows, pruned, s, d)
        BY <2>6, <3>2 DEF StoredOf
      <4> QED  BY <1>1, <1>4, <1>8, <1>11, <3>1, <4>1 DEF OverAt, Rest
    <3>3. CASE s = x.s
      <4>1. PICK c, u \in Nat : c = counter[s][d] /\ u = used[s][d]
        BY <1>2, StreamNumbers
      <4>2. PICK b \in Nat \cup {-1} : b = base[s][d]
        BY <1>2, StreamNumbers, PairsAreNumbers
      <4>3. PICK k, l, m, p, z \in Nat : /\ k = Traffic!bytesOf(rows, s, d) /\ l = Traffic!bytesOf(Q, s, d)
                                         /\ m = x.bytes[d] /\ p = pruned[s][d] /\ l <= k + m
                                         /\ z = Rest(net, b, c, s, d)
        <5>1. Traffic!bytesOf(Q, s, d) <= Traffic!bytesOf(rows, s, d) + x.bytes[d]
          BY <2>6, <3>3
        <5>2. Rest(net, b, c, s, d) \in Nat
          BY <1>2, RestIsNumber
        <5> QED  BY <2>7, <5>1, <5>2
      <4>4. OverAt(net, k + p, b, c, u, s, d)
        BY <3>1, <4>1, <4>2, <4>3, Zenon DEF StoredOf
      <4>5. ((k + p) + m) + z <= u /\ (~net.waits => b = -1)
        <5>1. /\ \A i \in DOMAIN q : q[i].s = s => ((k + p) + q[i].bytes[d]) + z <= u
              /\ ~net.waits => b = -1
          BY <1>1, <1>4, <4>3, <4>4, Zenon DEF OverAt
        <5>2. q[1].s = s /\ 1 \in DOMAIN q /\ q[1].bytes[d] = m
          BY <1>5, <3>3, <4>3
        <5> QED  BY <5>1, <5>2
      <4>6. (l + p) + z <= u
        <5>1. l <= k + m
          BY <4>3
        <5>2. ((k + p) + m) + z <= u
          BY <4>5
        <5> QED  BY <5>1, <5>2
      <4>7. Rest(n, b, c, s, d) = z
        BY <1>8, <4>3 DEF Rest
      <4>8. OverAt(n, l + p, b, c, u, s, d)
        BY <1>8, <1>12, <3>3, <4>5, <4>6, <4>7 DEF OverAt
      <4> QED  BY <4>1, <4>2, <4>3, <4>8, Zenon DEF StoredOf
    <3> QED  BY <3>2, <3>3
  <2>9. NotLost'
    <3> SUFFICES ASSUME NEW s \in Streams \ spoiled, NEW d \in Ways
                 PROVE  LostAt(n, KeptOf(Q, pruned, s, d, last), KeptOf(Q, pruned, s, d, net.at),
                               first[s], base[s], counter[s], s, d)
      BY <1>1, <1>7, <1>8, <2>1, <2>2 DEF NotLost, Streams
    <3>1. LostAt(net, KeptOf(rows, pruned, s, d, last), KeptOf(rows, pruned, s, d, net.at),
                 first[s], base[s], counter[s], s, d)
      BY DEF UsageInv, NotLost
    <3>2. CASE s # x.s
      <4>1. /\ KeptOf(Q, pruned, s, d, last) = KeptOf(rows, pruned, s, d, last)
            /\ KeptOf(Q, pruned, s, d, net.at) = KeptOf(rows, pruned, s, d, net.at)
        BY <2>6, <3>2, Zenon DEF KeptOf
      <4>2. LostAt(net, KeptOf(Q, pruned, s, d, last), KeptOf(Q, pruned, s, d, net.at),
                   first[s], base[s], counter[s], s, d)
        BY <3>1, <4>1
      <4> QED  BY <1>18, <3>2, <4>2
    <3>3. CASE s = x.s
      <4>1. PICK k, j, m, p \in Nat : /\ k = Traffic!bytesOf(Until(rows, last), s, d)
                                     /\ k = Traffic!bytesOf(Until(Q, last), s, d)
                                     /\ j = Traffic!bytesOf(Until(Q, net.at), s, d)
                                     /\ m = x.bytes[d] /\ p = pruned[s][d] /\ j >= k + m
        <5>1. /\ Traffic!bytesOf(Until(Q, last), s, d) = Traffic!bytesOf(Until(rows, last), s, d)
              /\ Traffic!bytesOf(Until(Q, net.at), s, d) >= Traffic!bytesOf(Until(rows, last), s, d) + x.bytes[d]
          BY <2>6, <3>3
        <5>2. Traffic!bytesOf(Until(Q, net.at), s, d) \in Nat /\ Traffic!bytesOf(Until(rows, last), s, d) \in Nat
          BY <2>7
        <5>3. x.bytes[d] \in Nat /\ pruned[s][d] \in Nat
          BY <2>7
        <5> QED  BY <5>1, <5>2, <5>3, Zenon
      <4>2. PICK o : LostAt(net, k + p, o, first[s], base[s], counter[s], s, d)
        BY <3>1, <4>1, Zenon DEF KeptOf
      <4>3. first[s] # NoPair => first[s][d] \in Nat
        BY <1>2, StreamNumbers, PairsAreNumbers
      <4>4. base[s] # NoPair => base[s][d] \in Nat
        BY <1>2, StreamNumbers, PairsAreNumbers
      <4>5. s \in DOMAIN net.readings => net.readings[s][d] \in Nat
        BY <1>2, ReadingNumbers
      <4>6. first[s] # NoPair => base[s] # NoPair /\ base[s][d] <= counter[s][d] /\ (k + p) + first[s][d] >= base[s][d]
        BY <4>2 DEF LostAt
      <4>7. ASSUME s \in DOMAIN net.readings
            PROVE  /\ net.readings[s][d] <= counter[s][d]
                   /\ first[s] # NoPair => (j + p) + first[s][d] >= net.readings[s][d]
        <5>1. /\ net.readings[s][d] <= counter[s][d]
              /\ first[s] # NoPair => m + base[s][d] >= net.readings[s][d]
          BY <1>1, <1>4, <1>5, <3>3, <4>1, <4>2, <4>7 DEF LostAt
        <5>2. ASSUME first[s] # NoPair PROVE (j + p) + first[s][d] >= net.readings[s][d]
          <6>1. PICK f, b, r \in Nat : f = first[s][d] /\ b = base[s][d] /\ r = net.readings[s][d]
            BY <4>3, <4>4, <4>5, <4>6, <4>7, <5>2
          <6>2. (k + p) + f >= b /\ m + b >= r
            BY <4>6, <5>1, <5>2, <6>1
          <6>3. j >= k + m
            BY <4>1
          <6>4. (j + p) + f >= r
            BY <6>2, <6>3
          <6> QED  BY <6>1, <6>4
        <5> QED  BY <5>1, <5>2
      <4>8. LostAt(n, k + p, j + p, first[s], base[s], counter[s], s, d)
        BY <1>8, <1>12, <3>3, <4>6, <4>7 DEF LostAt
      <4> QED  BY <4>1, <4>8, Zenon DEF KeptOf
    <3> QED  BY <3>2, <3>3
  <2> QED  BY <1>15, <2>5, <2>8, <2>9 DEF UsageInv
<1> QED  BY <1>16, <1>17

\* What a report finds is no more than what the counter has grown by, and just
\* that for a stream that was read before and has not gone back since.
LEMMA DeltaFacts ==
  ASSUME UsageTyped, NEW s \in Streams
  PROVE  /\ Traffic!delta(s) \in Pairs
         /\ \A d \in Ways : Traffic!delta(s)[d] <= Grown(base[s][d], counter[s][d])
         /\ base[s] # NoPair /\ (\A d \in Ways : base[s][d] <= counter[s][d]) =>
              \A d \in Ways : counter[s][d] = base[s][d] + Traffic!delta(s)[d]
<1>1. ASSUME NEW d \in Ways
      PROVE  /\ counter[s][d] \in Nat /\ base[s][d] \in Nat \cup {-1} /\ (base[s] # NoPair => base[s][d] # -1)
  <2>1. counter[s][d] \in Nat /\ base[s] \in Pairs \cup {NoPair}
    BY StreamNumbers
  <2>2. base[s][d] \in Nat \cup {-1} /\ (base[s] # NoPair => base[s][d] \in Nat)
    BY <2>1, PairsAreNumbers
  <2> QED  BY <2>1, <2>2
<1>2. PICK b, c : b = base[s] /\ c = counter[s]
  OBVIOUS
<1>3. PICK z : z = Traffic!delta(s)
  OBVIOUS
<1>4. \A d \in Ways : c[d] \in Nat /\ b[d] \in Nat \cup {-1}
  BY <1>1, <1>2
<1>5. CASE kinds[s] = "xray"
  <2>1. z = [d \in Ways |-> IF b[d] = -1 \/ c[d] < b[d] THEN 0 ELSE c[d] - b[d]]
    BY <1>2, <1>3, <1>5, Zenon DEF Traffic!delta, Traffic!xrayDelta, Traffic!Direction, Ways, Traffic!None
  <2>2. \A d \in Ways : z[d] = IF b[d] = -1 \/ c[d] < b[d] THEN 0 ELSE c[d] - b[d]
    BY <2>1
  <2>3. \A d \in Ways : z[d] \in Nat /\ z[d] <= Grown(b[d], c[d])
    BY <1>4, <2>2 DEF Grown
  <2>4. z \in Pairs
    BY <2>1, <2>3 DEF Pairs
  <2>5. base[s] # NoPair /\ (\A d \in Ways : b[d] <= c[d]) => \A d \in Ways : c[d] = b[d] + z[d]
    BY <1>1, <1>2, <1>4, <2>2
  <2> QED  BY <1>2, <1>3, <2>3, <2>4, <2>5
<1>6. CASE kinds[s] # "xray"
  <2>1. z = IF \E d \in Ways : b[d] = -1 \/ c[d] < b[d] THEN Traffic!Zero ELSE [d \in Ways |-> c[d] - b[d]]
    BY <1>2, <1>3, <1>6, Zenon DEF Traffic!delta, Traffic!bothDelta, Traffic!Direction, Ways, Traffic!None
  <2>2. Traffic!Zero = [d \in Ways |-> 0]
    BY DEF Traffic!Zero, Traffic!Direction, Ways
  <2>3. CASE \E d \in Ways : b[d] = -1 \/ c[d] < b[d]
    <3>1. z = [d \in Ways |-> 0]
      BY <2>1, <2>2, <2>3
    <3>2. \A d \in Ways : z[d] = 0
      BY <3>1
    <3>3. \A d \in Ways : Grown(b[d], c[d]) >= 0
      BY <1>4 DEF Grown
    <3>4. ~ (base[s] # NoPair /\ \A d \in Ways : b[d] <= c[d])
      BY <1>1, <1>2, <1>4, <2>3
    <3>5. z \in Pairs
      BY <3>1 DEF Pairs
    <3> QED  BY <1>2, <1>3, <3>2, <3>3, <3>4, <3>5
  <2>4. CASE ~ (\E d \in Ways : b[d] = -1 \/ c[d] < b[d])
    <3>1. z = [d \in Ways |-> c[d] - b[d]]
      BY <2>1, <2>4
    <3>2. \A d \in Ways : z[d] = c[d] - b[d] /\ b[d] # -1 /\ ~(c[d] < b[d])
      BY <2>4, <3>1
    <3>3. \A d \in Ways : z[d] \in Nat /\ z[d] <= Grown(b[d], c[d]) /\ c[d] = b[d] + z[d]
      BY <1>4, <3>2 DEF Grown
    <3>4. z \in Pairs
      BY <3>1, <3>3 DEF Pairs
    <3> QED  BY <1>2, <1>3, <3>3, <3>4
  <2> QED  BY <2>3, <2>4
<1> QED  BY <1>5, <1>6

\* S are the samples of a report that has read the streams E.
Sampled(E, S) == S = {Traffic!sample(s) : s \in {t \in E : Traffic!delta(t) # Traffic!Zero}}

\* The request q with them, which has the readings g.
Requested(E, g, q) ==
  /\ q \in Seq(SampleRecs) /\ SamplesFit(q, g, clock)
  /\ \A i \in DOMAIN q : q[i].s \in E /\ q[i].bytes = Traffic!delta(q[i].s)
  /\ \A s \in E : Traffic!delta(s) # Traffic!Zero => \E i \in DOMAIN q : q[i].s = s

\* Each of them is in the request once.
LEMMA SamplesMade ==
  ASSUME UsageTyped, NEW E \in SUBSET Streams, NEW S, Sampled(E, S),
         NEW g \in [E -> Pairs], NEW q, q = Traffic!SetToSeq(S)
  PROVE  Requested(E, g, q)
<1>1. PICK X : X = {t \in E : Traffic!delta(t) # Traffic!Zero}
  OBVIOUS
<1>2. PICK h : h = [s \in X |-> Traffic!sample(s)]
  OBVIOUS
<1>3. h \in Surjection(X, S)
  <2>1. h \in [X -> S] /\ \A x \in S : \E s \in X : h[s] = x
    BY <1>1, <1>2 DEF Sampled
  <2> QED  BY <2>1 DEF Surjection
<1>4. IsFiniteSet(S)
  <2>1. IsFiniteSet(X)
    <3>1. X \in SUBSET Streams /\ IsFiniteSet(Streams)
      BY <1>1 DEF UsageTyped
    <3> QED  BY <3>1, FS_Subset
  <2> QED  BY <1>3, <2>1, FS_Surjection
<1>5. ASSUME NEW s \in X
      PROVE  /\ Traffic!sample(s) \in SampleRecs /\ Traffic!sample(s).s = s /\ Traffic!sample(s).bytes = Traffic!delta(s)
             /\ Traffic!sample(s).key = <<s, clock>> /\ s \in E
  <2>1. Traffic!delta(s) \in Pairs /\ s \in Streams /\ s \in E
    BY <1>1, DeltaFacts
  <2>2. clock \in Nat /\ last \in Nat
    BY DEF UsageTyped
  <2>3. Traffic!bucketStart \in Int
    BY <2>2 DEF Traffic!bucketStart
  <2>4. PICK x : x = Traffic!sample(s) /\ x = [key |-> <<s, clock>>, s |-> s, start |-> Traffic!bucketStart, end |-> clock, bytes |-> Traffic!delta(s)]
    BY Zenon DEF Traffic!sample
  <2>5. x \in SampleRecs /\ x.s = s /\ x.bytes = Traffic!delta(s) /\ x.key = <<s, clock>>
    BY <2>1, <2>2, <2>3, <2>4 DEF SampleRecs
  <2> QED  BY <2>1, <2>4, <2>5
<1>6. \A x \in S : \E s \in X : x = Traffic!sample(s)
  BY <1>1 DEF Sampled
<1>7. \A x \in S : x \in SampleRecs /\ x.s \in X /\ x.s \in E /\ x.bytes = Traffic!delta(x.s) /\ x.key = <<x.s, clock>> /\ x = Traffic!sample(x.s)
  BY <1>5, <1>6
<1>8. /\ q \in Seq(S)
      /\ \A i, j \in DOMAIN q : q[i] = q[j] => i = j
      /\ \A x \in S : \E i \in DOMAIN q : q[i] = x
  BY <1>4, OnceEach
<1>9. \A i \in DOMAIN q : q[i] \in S
  <2>1. DOMAIN q = 1..Len(q) /\ \A i \in 1..Len(q) : q[i] \in S
    BY <1>8, LenProperties
  <2> QED  BY <2>1
<1>10. q \in Seq(SampleRecs)
  <2>1. S \subseteq SampleRecs
    BY <1>7
  <2> QED  BY <1>8, <2>1
<1>11. SamplesFit(q, g, clock)
  <2> SUFFICES ASSUME NEW i \in DOMAIN q
               PROVE  /\ q[i].key = <<q[i].s, clock>> /\ q[i].s \in DOMAIN g
                      /\ \A j \in DOMAIN q : q[j].s = q[i].s => j = i
    BY DEF SamplesFit
  <2>1. q[i].key = <<q[i].s, clock>> /\ q[i].s \in E /\ DOMAIN g = E
    BY <1>7, <1>9
  <2>2. ASSUME NEW j \in DOMAIN q, q[j].s = q[i].s PROVE j = i
    <3>1. q[j] = q[i]
      BY <1>7, <1>9, <2>2
    <3> QED  BY <1>8, <3>1
  <2> QED  BY <2>1, <2>2
<1>12. ASSUME NEW s \in E, Traffic!delta(s) # Traffic!Zero PROVE \E i \in DOMAIN q : q[i].s = s
  <2>1. s \in X
    BY <1>1, <1>12
  <2>2. Traffic!sample(s) \in S /\ Traffic!sample(s).s = s
    BY <1>1, <1>5, <2>1 DEF Sampled
  <2>3. PICK x \in S : x = Traffic!sample(s) /\ x.s = s
    BY <2>2
  <2>4. PICK i \in DOMAIN q : q[i] = x
    BY <1>8
  <2> QED  BY <2>3, <2>4
<1>13. \A i \in DOMAIN q : q[i].s \in E /\ q[i].bytes = Traffic!delta(q[i].s)
  BY <1>7, <1>9
<1> QED  BY <1>10, <1>11, <1>12, <1>13, Zenon DEF Requested

\* A report: without samples its readings count at once, otherwise a request
\* is under way.
LEMMA UsageReported ==
  ASSUME UsageInv, UNCHANGED kinds, Traffic!Report
  PROVE  UsageInv'
<1>1. /\ UNCHANGED <<kinds, used, counter, clock, rows, pruned, spoiled, doubted>>
      /\ net = Traffic!Idle /\ (last = 0 \/ clock - last >= 1)
  BY DEF Traffic!Report
<1>2. UsageTyped /\ RowsTyped /\ NetTyped
  BY DEF UsageInv
<1>3. PICK failing, E, g, S :
        /\ E = Traffic!targets(failing) /\ g = [s \in E |-> counter[s]]
        /\ S = {Traffic!sample(s) : s \in {t \in E : Traffic!delta(t) # Traffic!Zero}}
        /\ IF S = {}
           THEN /\ base' = IF failing # {} /\ E = {} THEN base ELSE Traffic!committed(g)
                /\ first' = IF failing # {} /\ E = {} THEN first ELSE Traffic!firstRead(g)
                /\ last' = clock /\ net' = net
           ELSE /\ net' = [stage |-> "sent", samples |-> Traffic!SetToSeq(S), readings |-> g, at |-> clock, waits |-> TRUE]
                /\ UNCHANGED <<base, first, last>>
  BY Zenon DEF Traffic!Report
<1>4. E \in SUBSET Streams /\ g \in [E -> Pairs] /\ \A s \in E : g[s] = counter[s]
  <2>1. E \in SUBSET Streams
    BY <1>3 DEF Traffic!targets, Traffic!Stream, Streams
  <2> QED  BY <1>2, <1>3, <2>1 DEF UsageTyped
<1>5. last \in Nat /\ clock \in Nat /\ last < clock
  BY <1>1, <1>2 DEF UsageTyped
<1>6. ASSUME ~doubted, NEW s \in Streams, NEW d \in Ways
      PROVE  StoredOf(rows, pruned, s, d) + Grown(base[s][d], counter[s][d]) <= used[s][d]
  BY <1>1, <1>6, IdleRequest DEF UsageInv, NotOver, OverAt
<1>7. ASSUME NEW s \in Streams \ spoiled, first[s] # NoPair, NEW d \in Ways
      PROVE  /\ base[s] # NoPair /\ base[s][d] <= counter[s][d] /\ KeptOf(rows, pruned, s, d, last) + first[s][d] >= base[s][d]
             /\ counter[s][d] = base[s][d] + Traffic!delta(s)[d]
             /\ base[s][d] \in Nat /\ first[s][d] \in Nat /\ counter[s][d] \in Nat /\ Traffic!delta(s)[d] \in Nat
  <2>1. \A e \in Ways : base[s] # NoPair /\ base[s][e] <= counter[s][e] /\ KeptOf(rows, pruned, s, e, last) + first[s][e] >= base[s][e]
    BY <1>7 DEF UsageInv, NotLost, LostAt
  <2>2. counter[s][d] = base[s][d] + Traffic!delta(s)[d] /\ Traffic!delta(s) \in Pairs
    BY <1>2, <2>1, DeltaFacts
  <2>3. base[s][d] \in Nat /\ first[s][d] \in Nat
    BY <1>2, <1>7, <2>1, StreamNumbers, PairsAreNumbers
  <2>4. counter[s][d] \in Nat /\ Traffic!delta(s)[d] \in Nat
    BY <1>2, <2>2, StreamNumbers DEF Pairs
  <2> QED  BY <2>1, <2>2, <2>3, <2>4
<1>8. Traffic!Zero = [d \in Ways |-> 0]
  BY DEF Traffic!Zero, Traffic!Direction, Ways
<1>9. ASSUME NEW s \in Streams \ spoiled, first[s] # NoPair, Traffic!delta(s) = Traffic!Zero, NEW d \in Ways
      PROVE  KeptOf(rows, pruned, s, d, clock) + first[s][d] >= counter[s][d]
  <2>1. Traffic!delta(s)[d] = 0
    BY <1>8, <1>9
  <2>2. /\ KeptOf(rows, pruned, s, d, last) + first[s][d] >= base[s][d] /\ counter[s][d] = base[s][d] + 0
        /\ base[s][d] \in Nat /\ first[s][d] \in Nat
    BY <1>7, <1>9, <2>1
  <2>3. KeptOf(rows, pruned, s, d, last) <= KeptOf(rows, pruned, s, d, clock)
    BY <1>2, <1>5, KeptGrows
  <2>4. KeptOf(rows, pruned, s, d, last) \in Nat /\ KeptOf(rows, pruned, s, d, clock) \in Nat
    BY <1>2, SumsAreNumbers
  <2> QED  BY <2>2, <2>3, <2>4
<1>10. CASE S = {}
  <2>1. base' = Traffic!committed(g) /\ first' = Traffic!firstRead(g)
    <3>1. CASE failing # {} /\ E = {}
      <4>1. base' = base /\ first' = first
        BY <1>3, <1>10, <3>1
      <4>2. /\ Traffic!committed(g) \in [Streams -> Pairs \cup {NoPair}]
            /\ Traffic!firstRead(g) \in [Streams -> Pairs \cup {NoPair}]
            /\ \A s \in Streams \ E : Traffic!committed(g)[s] = base[s] /\ Traffic!firstRead(g)[s] = first[s]
        BY <1>2, <1>4, Commits
      <4>3. \A s \in Streams : Traffic!committed(g)[s] = base[s] /\ Traffic!firstRead(g)[s] = first[s]
        BY <3>1, <4>2
      <4>4. base \in [Streams -> Pairs \cup {NoPair}] /\ first \in [Streams -> Pairs \cup {NoPair}]
        BY <1>2 DEF UsageTyped
      <4> QED  BY <4>1, <4>2, <4>3, <4>4
    <3>2. CASE ~ (failing # {} /\ E = {})
      BY <1>3, <1>10, <3>2, Zenon
    <3> QED  BY <3>1, <3>2
  <2>2. last' = clock /\ net' = Traffic!Idle
    BY <1>1, <1>3, <1>10
  <2>3. ASSUME ~doubted, NEW s \in Streams, NEW d \in Ways
        PROVE  StoredOf(rows, pruned, s, d) + (IF s \in E THEN Grown(g[s][d], counter[s][d]) ELSE Grown(base[s][d], counter[s][d]))
                 <= used[s][d]
    <3>1. StoredOf(rows, pruned, s, d) + Grown(base[s][d], counter[s][d]) <= used[s][d]
      BY <1>6, <2>3
    <3>2. CASE s \in E
      <4>1. g[s][d] = counter[s][d] /\ counter[s][d] \in Nat /\ used[s][d] \in Nat
        BY <1>2, <1>4, <3>2, StreamNumbers
      <4>2. Grown(g[s][d], counter[s][d]) = 0
        BY <4>1, GrownFacts
      <4>3. base[s][d] \in Nat \cup {-1}
        BY <1>2, StreamNumbers, PairsAreNumbers
      <4>4. Grown(base[s][d], counter[s][d]) \in Nat
        BY <4>1, <4>3, GrownFacts
      <4>5. StoredOf(rows, pruned, s, d) \in Nat
        BY <1>2, SumsAreNumbers
      <4> QED  BY <3>1, <3>2, <4>1, <4>2, <4>4, <4>5
    <3>3. CASE s \notin E
      BY <3>1, <3>3
    <3> QED  BY <3>2, <3>3
  <2>4. ASSUME NEW s \in E \ spoiled, NEW d \in Ways
        PROVE  g[s][d] <= counter[s][d] /\ (first[s] # NoPair => KeptOf(rows, pruned, s, d, last') + first[s][d] >= g[s][d])
    <3>1. g[s] = counter[s] /\ counter[s][d] \in Nat /\ s \in Streams
      BY <1>2, <1>4, StreamNumbers
    <3>2. Traffic!delta(s) = Traffic!Zero
      BY <1>3, <1>10
    <3>3. first[s] # NoPair => KeptOf(rows, pruned, s, d, clock) + first[s][d] >= counter[s][d]
      BY <1>9, <3>1, <3>2
    <3> QED  BY <2>2, <3>1, <3>3
  <2>5. last' \in Nat /\ last <= last' /\ last' <= clock
    BY <1>5, <2>2
  <2> QED  BY <1>1, <1>4, <2>1, <2>2, <2>3, <2>4, <2>5, UsageCommits
<1>11. CASE S # {}
  <2>1. PICK q : q = Traffic!SetToSeq(S)
    OBVIOUS
  <2>2. /\ q \in Seq(SampleRecs) /\ SamplesFit(q, g, clock)
        /\ \A i \in DOMAIN q : q[i].s \in E /\ q[i].bytes = Traffic!delta(q[i].s)
        /\ \A s \in E : Traffic!delta(s) # Traffic!Zero => \E i \in DOMAIN q : q[i].s = s
    <3>1. Sampled(E, S)
      BY <1>3, Zenon DEF Sampled
    <3>2. Requested(E, g, q)
      BY <1>2, <1>4, <2>1, <3>1, SamplesMade
    <3> QED  BY <3>2, Zenon DEF Requested
  <2>3. PICK n : n = net' /\ n = [stage |-> "sent", samples |-> q, readings |-> g, at |-> clock, waits |-> TRUE]
    BY <1>3, <1>11, <2>1, Zenon
  <2>4. UNCHANGED <<base, first, last>>
    BY <1>3, <1>11
  <2>5. n.stage = "sent" /\ n.samples = q /\ n.readings = g /\ n.at = clock /\ n.waits = TRUE
    BY <2>3
  <2>6. UsageTyped' /\ RowsTyped'
    BY <1>1, <1>2, <2>4 DEF UsageTyped, RowsTyped, RowRecs, Streams
  <2>7. NetTyped'
    <3>1. g \in ReadingRecs
      BY <1>4 DEF ReadingRecs
    <3>2. n \in NetRecs
      BY <1>5, <2>2, <2>3, <3>1 DEF NetRecs
    <3>3. NetRecs' = NetRecs
      BY <1>1 DEF NetRecs, SampleRecs, ReadingRecs, Streams
    <3> QED  BY <1>1, <1>5, <2>2, <2>3, <2>4, <2>5, <3>2, <3>3 DEF NetTyped
  <2>8. NotOver'
    <3> SUFFICES ASSUME ~doubted, NEW s \in Streams, NEW d \in Ways
                 PROVE  OverAt(n, StoredOf(rows, pruned, s, d), base[s][d], counter[s][d], used[s][d], s, d)
      BY <1>1, <2>3, <2>4 DEF NotOver, Streams
    <3>1. PICK c, u, k \in Nat : c = counter[s][d] /\ u = used[s][d] /\ k = StoredOf(rows, pruned, s, d)
      BY <1>2, StreamNumbers, SumsAreNumbers
    <3>2. PICK b \in Nat \cup {-1} : b = base[s][d]
      BY <1>2, StreamNumbers, PairsAreNumbers
    <3>3. PICK v \in Nat : v = Grown(b, c) /\ k + v <= u
      <4>1. k + Grown(b, c) <= u
        BY <1>6, <3>1, <3>2
      <4> QED  BY <4>1, GrownFacts
    <3>4. s \in E => Rest(n, b, c, s, d) = 0
      <4>1. s \in E => g[s][d] = c
        BY <1>4, <3>1
      <4>2. Grown(c, c) = 0
        BY GrownFacts
      <4> QED  BY <1>4, <2>5, <4>1, <4>2 DEF Rest
    <3>5. s \notin E => Rest(n, b, c, s, d) = v
      BY <1>4, <2>5, <3>3 DEF Rest
    <3>6. k + Rest(n, b, c, s, d) <= u
      BY <3>3, <3>4, <3>5
    <3>7. ASSUME NEW i \in DOMAIN q, q[i].s = s
          PROVE  (k + q[i].bytes[d]) + Rest(n, b, c, s, d) <= u
      <4>1. s \in E /\ q[i].bytes = Traffic!delta(s)
        BY <2>2, <3>7
      <4>2. PICK m \in Nat : m = q[i].bytes[d] /\ m <= v
        <5>1. Traffic!delta(s) \in Pairs /\ Traffic!delta(s)[d] <= Grown(base[s][d], counter[s][d])
          BY <1>2, DeltaFacts
        <5>2. Traffic!delta(s)[d] \in Nat
          BY <5>1 DEF Pairs
        <5> QED  BY <3>1, <3>2, <3>3, <4>1, <5>1, <5>2
      <4>3. Rest(n, b, c, s, d) = 0
        BY <3>4, <4>1
      <4>4. (k + m) + 0 <= u
        BY <3>3, <4>2
      <4> QED  BY <4>2, <4>3, <4>4
    <3>8. OverAt(n, k, b, c, u, s, d)
      BY <2>5, <3>3, <3>6, <3>7 DEF OverAt
    <3> QED  BY <3>1, <3>2, <3>8, Zenon
  <2>9. NotLost'
    <3> SUFFICES ASSUME NEW s \in Streams \ spoiled, NEW d \in Ways
                 PROVE  LostAt(n, KeptOf(rows, pruned, s, d, last), KeptOf(rows, pruned, s, d, clock),
                               first[s], base[s], counter[s], s, d)
      BY <1>1, <2>3, <2>4, <2>5 DEF NotLost, Streams
    <3>1. first[s] # NoPair => base[s] # NoPair /\ base[s][d] <= counter[s][d] /\ KeptOf(rows, pruned, s, d, last) + first[s][d] >= base[s][d]
      BY <1>7
    <3>2. ASSUME s \in E
          PROVE  /\ g[s][d] <= counter[s][d]
                 /\ first[s] # NoPair =>
                      /\ (\A i \in DOMAIN q : q[i].s # s) => KeptOf(rows, pruned, s, d, clock) + first[s][d] >= g[s][d]
                      /\ \A i \in DOMAIN q : q[i].s = s => q[i].bytes[d] + base[s][d] >= g[s][d]
      <4>1. g[s] = counter[s] /\ counter[s][d] \in Nat
        BY <1>2, <1>4, <3>2, StreamNumbers
      <4>2. ASSUME first[s] # NoPair, \A i \in DOMAIN q : q[i].s # s
            PROVE  KeptOf(rows, pruned, s, d, clock) + first[s][d] >= counter[s][d]
        <5>1. Traffic!delta(s) = Traffic!Zero
          BY <2>2, <3>2, <4>2
        <5> QED  BY <1>9, <4>2, <5>1
      <4>3. ASSUME first[s] # NoPair, NEW i \in DOMAIN q, q[i].s = s
            PROVE  q[i].bytes[d] + base[s][d] >= counter[s][d]
        <5>1. q[i].bytes = Traffic!delta(s)
          BY <2>2, <4>3
        <5>2. counter[s][d] = base[s][d] + Traffic!delta(s)[d] /\ base[s][d] \in Nat /\ Traffic!delta(s)[d] \in Nat
          BY <1>7, <4>3
        <5> QED  BY <5>1, <5>2
      <4>4. g[s][d] <= counter[s][d]
        BY <4>1
      <4> QED  BY <4>1, <4>2, <4>3, <4>4, Zenon
    <3>3. s \in DOMAIN g => s \in E
      BY <1>4
    <3> QED  BY <2>5, <3>1, <3>2, <3>3, Zenon DEF LostAt
  <2> QED  BY <2>6, <2>7, <2>8, <2>9 DEF UsageInv
<1> QED  BY <1>10, <1>11

\* Every step keeps it.
LEMMA UsageStep == UsageInv /\ [Traffic!Next]_Traffic!vars => UsageInv'
<1> SUFFICES ASSUME UsageInv, [Traffic!Next]_Traffic!vars PROVE UsageInv'  OBVIOUS
<1>0. clock \in Nat
  BY DEF UsageInv, UsageTyped
<1>1. CASE UNCHANGED Traffic!vars
  <2>1. UNCHANGED <<kinds, used, counter, base, last, net, rows, first, pruned, spoiled, doubted>> /\ clock' = clock
    BY <1>1 DEF Traffic!vars
  <2>2. clock' \in Nat /\ clock' >= clock
    BY <1>0, <2>1
  <2> QED  BY <2>1, <2>2, UsageUnmoved
<1>2. CASE Traffic!Tick /\ UNCHANGED kinds
  <2>1. UNCHANGED <<kinds, used, counter, base, last, net, rows, first, pruned, spoiled, doubted>> /\ clock' = clock + 1
    BY <1>2 DEF Traffic!Tick
  <2>2. clock' \in Nat /\ clock' >= clock
    BY <1>0, <2>1
  <2> QED  BY <2>1, <2>2, UsageUnmoved
<1>3. CASE Traffic!AccessEnds /\ UNCHANGED kinds
  <2>1. UNCHANGED <<kinds, used, counter, base, last, net, rows, first, pruned, spoiled, doubted>> /\ clock' = clock
    BY <1>3 DEF Traffic!AccessEnds
  <2>2. clock' \in Nat /\ clock' >= clock
    BY <1>0, <2>1
  <2> QED  BY <2>1, <2>2, UsageUnmoved
<1>4. CASE Traffic!Use /\ UNCHANGED kinds
  BY <1>4, UsageMoves
<1>5. CASE Traffic!CounterReset /\ UNCHANGED kinds
  BY <1>5, UsageResets
<1>6. CASE Traffic!Report /\ UNCHANGED kinds
  BY <1>6, UsageReported
<1>7. CASE Traffic!Answered /\ UNCHANGED kinds
  BY <1>7, UsageAnswered
<1>8. CASE (Traffic!RequestLost \/ Traffic!IngestFails) /\ UNCHANGED kinds
  BY <1>8, UsageDropped
<1>9. CASE Traffic!AnswerLost /\ UNCHANGED kinds
  BY <1>9, UsageGivenUp
<1>10. CASE Traffic!AgentCrash /\ UNCHANGED kinds
  BY <1>10, UsageRestarts
<1>11. CASE Traffic!IngestSample /\ UNCHANGED kinds
  BY <1>11, UsageIngested
<1>12. CASE Traffic!IngestEnds /\ UNCHANGED kinds
  BY <1>12, UsagePruned
<1> QED  BY <1>1, <1>2, <1>3, <1>4, <1>5, <1>6, <1>7, <1>8, <1>9, <1>10, <1>11, <1>12 DEF Traffic!Next

\* Traffic accounting keeps its invariant, by itself and as a part.
LEMMA UsageAlways ==
  /\ Traffic!Spec => []UsageInv
  /\ Spec => [](part \in {"traffic", "stream"} => UsageInv)
<1>1. Traffic!Spec => []UsageInv
  BY UsageInitially, UsageStep, PTL DEF Traffic!Spec
<1> DEFINE There == part \in {"traffic", "stream"} => UsageInv
<1>2. Init => There
  BY UsageInitially, TrafficBegins
<1>3. There /\ [Next]_vars => There'
  BY UsageStep, TrafficGoesOn
<1>4. Spec => []There
  BY <1>2, <1>3, PTL DEF Spec
<1> QED  BY <1>1, <1>4

(***************************************************************************)
(* As long as no answer is lost, what the control plane has stored of a    *)
(* stream, or has pruned since, never exceeds what the stream has moved:   *)
(* for every number of streams of every kind, however their counters, the  *)
(* agent and its requests fail (reportTrafficAccounting,                   *)
(* SubmitAgentTrafficAccountingSamples).                                   *)
(***************************************************************************)
THEOREM UsageNeverOvercounted ==
  /\ Traffic!Spec => []Traffic!NoOvercount
  /\ Spec => []NoOvercount
<1>1. UsageInv => Traffic!NoOvercount
  <2> SUFFICES ASSUME UsageInv, ~doubted, NEW s \in Streams, NEW d \in Ways
               PROVE  StoredOf(rows, pruned, s, d) <= used[s][d]
    BY DEF Traffic!NoOvercount, Traffic!Stored, StoredOf, Traffic!Stream, Traffic!Direction, Streams, Ways
  <2>1. UsageTyped /\ RowsTyped /\ NetTyped
    BY DEF UsageInv
  <2>2. OverAt(net, StoredOf(rows, pruned, s, d), base[s][d], counter[s][d], used[s][d], s, d)
    BY DEF UsageInv, NotOver
  <2>3. PICK c, u, k \in Nat : c = counter[s][d] /\ u = used[s][d] /\ k = StoredOf(rows, pruned, s, d)
    BY <2>1, StreamNumbers, SumsAreNumbers
  <2>4. PICK b \in Nat \cup {-1} : b = base[s][d]
    BY <2>1, StreamNumbers, PairsAreNumbers
  <2>5. OverAt(net, k, b, c, u, s, d)
    BY <2>2, <2>3, <2>4, Zenon
  <2>6. PICK g, e \in Nat : g = Grown(b, c) /\ e = Rest(net, b, c, s, d)
    BY <2>1, GrownFacts, RestIsNumber
  <2>7. k + g <= u \/ k + e <= u
    BY <2>5, <2>6 DEF OverAt
  <2>8. k <= u
    BY <2>7
  <2> QED  BY <2>3, <2>8
<1>2. (part \in {"traffic", "stream"} => UsageInv) => NoOvercount
  BY <1>1 DEF NoOvercount
<1>3. Traffic!Spec => []Traffic!NoOvercount
  BY <1>1, UsageAlways, PTL
<1>4. Spec => []NoOvercount
  BY <1>2, UsageAlways, PTL
<1> QED  BY <1>3, <1>4

(***************************************************************************)
(* What the agent has committed of a stream whose service, agent and       *)
(* access stay is stored: however many requests and answers are lost, and  *)
(* whatever the ingest prunes, the bytes between its first reading and its *)
(* baseline are in rows or were pruned after their retention.              *)
(***************************************************************************)
THEOREM CommittedUsageIsStored ==
  /\ Traffic!Spec => []Traffic!NothingLost
  /\ Spec => []NothingLost
<1>0. Traffic!NoBase = NoPair
  BY DEF Traffic!NoBase, NoPair, Traffic!Direction, Ways, Traffic!None
<1>1. UsageInv => Traffic!NothingLost
  <2> SUFFICES ASSUME UsageInv, NEW s \in Streams \ spoiled, first[s] # NoPair, NEW d \in Ways
               PROVE  StoredOf(rows, pruned, s, d) >= base[s][d] - first[s][d]
    BY <1>0 DEF Traffic!NothingLost, Traffic!Stored, StoredOf, Traffic!Stream, Traffic!Direction, Streams, Ways
  <2>1. UsageTyped /\ RowsTyped
    BY DEF UsageInv
  <2>2. base[s] # NoPair /\ KeptOf(rows, pruned, s, d, last) + first[s][d] >= base[s][d]
    BY DEF UsageInv, NotLost, LostAt
  <2>3. PICK b, f, p \in Nat : b = base[s][d] /\ f = first[s][d] /\ p = pruned[s][d]
    <3>1. base[s][d] \in Nat /\ first[s][d] \in Nat
      BY <2>1, <2>2, StreamNumbers, PairsAreNumbers
    <3>2. pruned[s][d] \in Nat
      BY <2>1, StreamNumbers
    <3> QED  BY <3>1, <3>2
  <2>4. PICK j, k, l \in Nat : j = Traffic!bytesOf(rows, s, d) /\ k = Traffic!bytesOf(Until(rows, last), s, d) /\ j = k + l
    <3>1. IsFiniteSet(rows) /\ \A r \in rows : r.bytes \in Pairs
      BY <2>1 DEF RowsTyped, RowRecs
    <3>2. Counted(rows, s, d)
      BY <3>1, RowsCounted
    <3>3. Until(rows, last) \subseteq rows
      BY DEF Until
    <3> QED  BY <3>2, <3>3, SumOfMore
  <2>5. (k + p) + f >= b
    BY <2>2, <2>3, <2>4 DEF KeptOf
  <2>6. j = k + l
    BY <2>4
  <2>7. j + p >= b - f
    BY <2>5, <2>6
  <2> QED  BY <2>3, <2>4, <2>7 DEF StoredOf
<1>2. (part \in {"traffic", "stream"} => UsageInv) => NothingLost
  BY <1>1 DEF NothingLost
<1>3. Traffic!Spec => []Traffic!NothingLost
  BY <1>1, UsageAlways, PTL
<1>4. Spec => []NothingLost
  BY <1>2, UsageAlways, PTL
<1> QED  BY <1>3, <1>4

(***************************************************************************)
(* As long as no instance is deleted, a collector that                     *)
(* trafficAccountingCollectorStatus shows as active has a row of every     *)
(* instance it is to cover: the counts of active and observed instances it *)
(* compares say as much as the sets do.                                    *)
(***************************************************************************)
THEOREM ActiveCollectorsCover ==
  /\ Traffic!Spec => []Traffic!ActiveMeansObserved
  /\ Spec => []ActiveMeansObserved
<1>1. UsageInv => Traffic!ActiveMeansObserved
  <2> SUFFICES ASSUME UsageInv, \A i \in Traffic!Instances : instance[i] = "active",
                      NEW kind, Traffic!collectorStatus(kind) = "active"
               PROVE  Traffic!activeInstances(kind) \subseteq Traffic!observedInstances(kind)
    BY DEF Traffic!ActiveMeansObserved
  <2>1. IsFiniteSet(Streams) /\ rows \subseteq RowRecs
    BY DEF UsageInv, UsageTyped, RowsTyped
  <2>2. PICK A, O : A = Traffic!activeInstances(kind) /\ O = Traffic!observedInstances(kind)
    OBVIOUS
  <2>3. O \subseteq A
    <3>1. \A r \in rows : r.s \in Streams
      BY <2>1 DEF RowRecs
    <3>2. \A x \in O : \E r \in rows : x = InstanceOf[r.s] /\ kinds[r.s] = kind
      BY <2>2 DEF Traffic!observedInstances, Traffic!visible
    <3>3. \A s \in Streams : kinds[s] = kind => InstanceOf[s] \in A
      BY <2>2 DEF Traffic!activeInstances, Traffic!Instances, Traffic!Stream, Streams
    <3> QED  BY <3>1, <3>2, <3>3
  <2>4. IsFiniteSet(A)
    <3>1. PICK I, h : I = Traffic!Instances /\ h = [s \in Streams |-> InstanceOf[s]]
      OBVIOUS
    <3>2. h \in Surjection(Streams, I)
      <4>1. h \in [Streams -> I] /\ \A x \in I : \E s \in Streams : h[s] = x
        BY <3>1 DEF Traffic!Instances, Traffic!Stream, Streams
      <4> QED  BY <4>1 DEF Surjection
    <3>3. IsFiniteSet(I)
      BY <2>1, <3>2, FS_Surjection
    <3>4. A \in SUBSET I
      BY <2>2, <3>1 DEF Traffic!activeInstances
    <3> QED  BY <3>3, <3>4, FS_Subset
  <2>5. PICK m, n \in Nat : m = Cardinality(A) /\ n = Cardinality(O) /\ n <= m /\ (m = n => A = O)
    <3>1. O \in SUBSET A
      BY <2>3
    <3>2. IsFiniteSet(O) /\ Cardinality(O) <= Cardinality(A) /\ (Cardinality(A) = Cardinality(O) => A = O)
      BY <2>4, <3>1, FS_Subset
    <3>3. Cardinality(A) \in Nat /\ Cardinality(O) \in Nat
      BY <2>4, <3>2, FS_CardinalityType
    <3> QED  BY <3>2, <3>3
  <2>6. \E age : Traffic!trafficAccountingCollectorStatus(age, m - n) = "active"
    <3>1. Traffic!Cardinality(A) = m /\ Traffic!Cardinality(O) = n
      BY <2>5, SameCount
    <3> QED  BY <2>2, <3>1, Zenon DEF Traffic!collectorStatus
  <2>7. ~ (m - n > 0)
    BY <2>6 DEF Traffic!trafficAccountingCollectorStatus
  <2>8. m = n
    BY <2>5, <2>7
  <2> QED  BY <2>2, <2>5, <2>8
<1>2. (part \in {"traffic", "stream"} => UsageInv) => ActiveMeansObserved
  BY <1>1 DEF ActiveMeansObserved
<1>3. Traffic!Spec => []Traffic!ActiveMeansObserved
  BY <1>1, UsageAlways, PTL
<1>4. Spec => []ActiveMeansObserved
  BY <1>2, UsageAlways, PTL
<1> QED  BY <1>3, <1>4
=============================================================================
