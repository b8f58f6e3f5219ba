--------------------------- MODULE BackhaulProofs ---------------------------
(***************************************************************************)
(* What the backhaul link proves: a deleted link has left nothing on its   *)
(* nodes, and the ingress node routes by the transport the link has        *)
(* selected.  Two inductive invariants meet in each: what the queue and    *)
(* the agents guarantee about the jobs (cleanups run after the applies,    *)
(* route jobs one after the other), and what the calls and the results     *)
(* owe (a job of every profile and node, a refresh after every change).    *)
(***************************************************************************)
EXTENDS MCBackhaul, Integers, TLAPS

Roles == {"ingress", "egress"}
Profiles == Link!Profiles
Via == Profiles \cup {"none"}

-----------------------------------------------------------------------------
(***************************************************************************)
(* The jobs and the agents.                                                *)
(***************************************************************************)
SideTypes == {"apply", "cleanup", "probe"}

BackhaulJob ==
  [type : SideTypes \cup {"route"}, node : Roles, scope : {"link", "node"},
   payload : [t : Via, batch : Nat], priority : {70, 75, 80, 90},
   status : {"queued", "running", "succeeded", "failed", "cancelled"},
   effect : {"none", "pending", "refresh", "applied", "failed", "lost"}]

\* Only a job that has ended has side effects to come.
Owes(x) == x.effect \in {"pending", "refresh"} => x.status \in {"succeeded", "failed"}

JobFits(x) ==
  /\ x.type # "route" => x.payload.t \in Profiles
  /\ x.type = "route" => x.node = "ingress" /\ x.priority = 80
  /\ x.type = "apply" => x.priority = 75
  /\ x.type = "cleanup" => x.priority = 90
  /\ Owes(x)

JobsFit == jobs \in Seq(BackhaulJob) /\ \A j \in DOMAIN jobs : JobFits(jobs[j])

Commands == {"write", "siblings", "start", "stop", "remove", "probe", "route"}
BackhaulAgent ==
  [job : Nat, todo : Seq(Commands), warned : BOOLEAN, result : {"none", "succeeded", "failed", "sent"}]

AgentsFit ==
  /\ agent \in [Roles -> BackhaulAgent]
  /\ \A n \in Roles : IF agent[n].job = 0 THEN agent[n].result = "none"
                      ELSE agent[n].job \in DOMAIN jobs /\ jobs[agent[n].job].node = n

NodesFit ==
  /\ manifest \in [Roles -> SUBSET Profiles] /\ runtime \in [Roles -> SUBSET Profiles]
  /\ route \in Via

IsApply(j) == jobs[j].type = "apply"
IsCleanup(j) == jobs[j].type = "cleanup"
IsRoute(j) == jobs[j].type = "route"

\* Every apply was queued before every cleanup.
AppliesFirst == \A a, c \in DOMAIN jobs : IsApply(a) /\ IsCleanup(c) => a < c

\* No apply is under way on the node or waits for it.
AppliesOver(n) ==
  \A a \in DOMAIN jobs : IsApply(a) /\ jobs[a].node = n =>
    jobs[a].status \notin {"queued", "running"} /\ agent[n].job # a

Begun(c) == jobs[c].status \in {"running", "succeeded", "failed"} \/ agent[jobs[c].node].job = c

\* Once a cleanup has begun no apply follows it on its node; one that has
\* succeeded has left nothing there.
CleanupsLast ==
  AppliesFirst => \A c \in DOMAIN jobs : IsCleanup(c) =>
    /\ Begun(c) => AppliesOver(jobs[c].node)
    /\ jobs[c].status = "succeeded" =>
         jobs[c].payload.t \notin manifest[jobs[c].node] \cup runtime[jobs[c].node]

\* What an agent's handler has left to do, and what it has done.
HandlerOf(n, a, x) ==
  /\ a.result # "none" => a.todo = <<>>
  /\ x.type # "apply" => \A k \in DOMAIN a.todo : a.todo[k] \notin {"write", "start"}
  /\ x.type # "route" => \A k \in DOMAIN a.todo : a.todo[k] # "route"
  /\ x.type = "route" => /\ a.result = "none" => a.todo = <<"route">>
                         /\ a.result = "succeeded" => route = x.payload.t
  /\ x.type = "cleanup" /\ AppliesFirst =>
       /\ a.result = "none" => \/ a.todo = <<"stop", "remove">>
                               \/ a.todo = <<"remove">> /\ x.payload.t \notin runtime[n]
       /\ a.result = "succeeded" => x.payload.t \notin manifest[n] \cup runtime[n]

Handlers == \A n \in Roles : agent[n].job # 0 => HandlerOf(n, agent[n], jobs[agent[n].job])

\* No route policy job has failed or was cancelled.
RoutesWell == \A j \in DOMAIN jobs : IsRoute(j) => jobs[j].status \notin {"failed", "cancelled"}

\* Route policy jobs are run one after the other, in their order.
RouteOrder ==
  RoutesWell => \A i, j \in DOMAIN jobs :
    IsRoute(i) /\ IsRoute(j) /\ i < j /\ (jobs[j].status # "queued" \/ agent["ingress"].job = j) =>
      jobs[i].status = "succeeded" /\ agent["ingress"].job # i

LastRoute(j) == IsRoute(j) /\ \A i \in DOMAIN jobs : IsRoute(i) => i <= j

\* The node routes by the last of them, once it has succeeded.
RouteRun ==
  RoutesWell => \A j \in DOMAIN jobs :
    LastRoute(j) /\ jobs[j].status = "succeeded" => route = jobs[j].payload.t

JobInv == JobsFit /\ AgentsFit /\ NodesFit /\ CleanupsLast /\ Handlers /\ RouteOrder /\ RouteRun

-----------------------------------------------------------------------------
\* What most steps do to the jobs, the agents and the nodes: jobs are added,
\* cancelled or go back to the queue, an apply is refused, an agent stops or
\* fails, a tunnel goes down.  No job is begun or succeeds.
StatusMoves(x, y) ==
  \/ y.status = x.status
  \/ x.status = "running" /\ y.status = "queued"
  \/ x.status \in {"queued", "running"} /\ y.status = "cancelled"
  \/ x.type = "apply" /\ y.status = "failed"

SameJob(x, y) == y.type = x.type /\ y.node = x.node /\ y.payload = x.payload /\ y.priority = x.priority

AgentCalm(a, b) ==
  \/ b = a
  \/ b.job = 0 /\ b.result = "none"
  \/ b.job = a.job /\ b.job # 0 /\ b.todo = <<>> /\ b.result = "failed"

Calm ==
  /\ JobsFit' /\ agent' \in [Roles -> BackhaulAgent]
  /\ Len(jobs) <= Len(jobs')
  /\ \A j \in DOMAIN jobs : SameJob(jobs[j], jobs'[j]) /\ StatusMoves(jobs[j], jobs'[j])
  /\ \A j \in DOMAIN jobs' \ DOMAIN jobs : jobs'[j].status = "queued"
  /\ \A n \in Roles : AgentCalm(agent[n], agent'[n])
  /\ runtime' \in [Roles -> SUBSET Profiles] /\ \A n \in Roles : runtime'[n] \subseteq runtime[n]
  /\ UNCHANGED <<manifest, route, order>>

\* What is known of each job.
LEMMA EachJob ==
  ASSUME JobsFit, NEW j \in DOMAIN jobs
  PROVE  /\ jobs[j] \in BackhaulJob /\ JobFits(jobs[j])
         /\ jobs[j].node \in Roles /\ jobs[j].payload.t \in Via
<1>1. jobs[j] \in BackhaulJob
  BY DEF JobsFit
<1> QED  BY <1>1 DEF BackhaulJob, JobsFit

\* Jobs stay where they are.
LEMMA JobsStay ==
  ASSUME JobsFit, JobsFit', Len(jobs) <= Len(jobs')
  PROVE  /\ DOMAIN jobs \subseteq DOMAIN jobs'
         /\ \A i \in DOMAIN jobs, j \in DOMAIN jobs' \ DOMAIN jobs : i < j
         /\ DOMAIN jobs \subseteq Nat \ {0} /\ DOMAIN jobs' \subseteq Nat \ {0}
BY DEF JobsFit

\* A calm step keeps what the jobs guarantee.
LEMMA CalmKeeps ==
  ASSUME JobInv, Calm
  PROVE  JobInv'
<1>1. /\ DOMAIN jobs \subseteq DOMAIN jobs'
      /\ \A i \in DOMAIN jobs, j \in DOMAIN jobs' \ DOMAIN jobs : i < j
      /\ DOMAIN jobs \subseteq Nat \ {0} /\ DOMAIN jobs' \subseteq Nat \ {0}
  BY JobsStay DEF JobInv, Calm
<1>2. JobsFit' /\ NodesFit'
  BY DEF JobInv, Calm, NodesFit, Via, Profiles, Link!Profiles
<1>3. AgentsFit'
  BY <1>1 DEF JobInv, Calm, AgentsFit, AgentCalm, SameJob
<1>4. AppliesFirst' => AppliesFirst
  BY <1>1 DEF Calm, AppliesFirst, IsApply, IsCleanup, SameJob
<1>5. RoutesWell' => RoutesWell
  BY <1>1 DEF Calm, RoutesWell, IsRoute, SameJob, StatusMoves
<1>6. \A n \in Roles : agent'[n].job # 0 => agent'[n].job = agent[n].job /\ agent'[n].job \in DOMAIN jobs
  BY DEF JobInv, AgentsFit, Calm, AgentCalm
<1>7. CleanupsLast'
  <2> SUFFICES ASSUME AppliesFirst', NEW c \in DOMAIN jobs', IsCleanup(c)'
               PROVE  /\ Begun(c)' => AppliesOver(jobs[c].node)'
                      /\ jobs'[c].status = "succeeded" =>
                           jobs'[c].payload.t \notin manifest'[jobs'[c].node] \cup runtime'[jobs'[c].node]
    BY DEF CleanupsLast
  <2>1. CASE c \notin DOMAIN jobs
    <3>1. jobs'[c].status = "queued" /\ jobs'[c].node \in Roles
      <4>1. jobs'[c].status = "queued"
        BY <2>1 DEF Calm
      <4>2. jobs'[c].node \in Roles
        <5>1. jobs'[c] \in BackhaulJob'
          BY DEF Calm, JobsFit
        <5> QED  BY <5>1 DEF BackhaulJob, Roles
      <4> QED  BY <4>1, <4>2
    <3>2. ~ Begun(c)'
      BY <2>1, <3>1, <1>6, <1>1 DEF Begun
    <3> QED  BY <3>1, <3>2
  <2>2. CASE c \in DOMAIN jobs
    <3>1. IsCleanup(c) /\ jobs[c].node \in Roles /\ jobs'[c].node = jobs[c].node
          /\ jobs'[c].payload = jobs[c].payload /\ StatusMoves(jobs[c], jobs'[c])
      BY <2>2, EachJob DEF Calm, IsCleanup, SameJob, JobInv
    <3>2. Begun(c)' => Begun(c)
      BY <3>1, <2>2, <1>6, <1>1 DEF Begun, StatusMoves, IsCleanup
    <3>3. ASSUME Begun(c), NEW a \in DOMAIN jobs', IsApply(a)', jobs'[a].node = jobs'[c].node
          PROVE  jobs'[a].status \notin {"queued", "running"} /\ agent'[jobs'[c].node].job # a
      <4>1. a < c
        BY <3>3 DEF AppliesFirst
      <4>2. a \in DOMAIN jobs
        BY <4>1, <2>2, <1>1
      <4>3. IsApply(a) /\ jobs[a].node = jobs[c].node /\ StatusMoves(jobs[a], jobs'[a])
        BY <4>2, <3>3, <3>1 DEF Calm, IsApply, SameJob
      <4>4. jobs[a].status \notin {"queued", "running"} /\ agent[jobs[c].node].job # a
        BY <4>2, <4>3, <3>1, <3>3, <2>2, <1>4 DEF JobInv, CleanupsLast, AppliesOver
      <4>5. a # 0
        BY <4>2, <1>1
      <4> QED  BY <4>3, <4>4, <4>5, <3>1, <1>6 DEF StatusMoves
    <3>4. jobs'[c].status = "succeeded" => jobs[c].status = "succeeded"
      BY <3>1 DEF StatusMoves
    <3>5. jobs[c].status = "succeeded" =>
            jobs[c].payload.t \notin manifest[jobs[c].node] \cup runtime[jobs[c].node]
      BY <2>2, <3>1, <1>4 DEF JobInv, CleanupsLast
    <3> QED  BY <3>1, <3>2, <3>3, <3>4, <3>5 DEF Calm, AppliesOver
  <2> QED  BY <2>1, <2>2
<1>8. Handlers'
  <2> SUFFICES ASSUME NEW n \in Roles, agent'[n].job # 0
               PROVE  HandlerOf(n, agent[n], jobs[agent[n].job])'
    BY DEF Handlers
  <2>1. agent'[n].job = agent[n].job /\ agent[n].job \in DOMAIN jobs
    BY <1>6
  <2>2. HandlerOf(n, agent[n], jobs[agent[n].job]) /\ SameJob(jobs[agent[n].job], jobs'[agent[n].job])
    BY <2>1 DEF JobInv, Handlers, Calm
  <2>3. agent'[n] = agent[n] \/ (agent'[n].todo = <<>> /\ agent'[n].result = "failed")
    BY DEF Calm, AgentCalm
  <2> QED  BY <2>1, <2>2, <2>3, <1>4 DEF HandlerOf, SameJob, Calm
<1>9. RouteOrder'
  <2> SUFFICES ASSUME RoutesWell', NEW i \in DOMAIN jobs', NEW j \in DOMAIN jobs', IsRoute(i)', IsRoute(j)', i < j,
                      jobs'[j].status # "queued" \/ agent'["ingress"].job = j
               PROVE  jobs'[i].status = "succeeded" /\ agent'["ingress"].job # i
    BY DEF RouteOrder
  <2>0. "ingress" \in Roles
    BY DEF Roles
  <2>1. j \in DOMAIN jobs
    BY <2>0, <1>6, <1>1 DEF Calm
  <2>2. i \in DOMAIN jobs
    BY <2>1, <1>1
  <2>3. IsRoute(i) /\ IsRoute(j) /\ StatusMoves(jobs[i], jobs'[i]) /\ StatusMoves(jobs[j], jobs'[j])
    BY <2>1, <2>2 DEF Calm, SameJob, IsRoute
  <2>4. jobs'[j].status # "cancelled"
    BY DEF RoutesWell
  <2>5. jobs[j].status # "queued" \/ agent["ingress"].job = j
    BY <2>0, <2>1, <2>3, <2>4, <1>1, <1>6 DEF StatusMoves, IsRoute
  <2>6. jobs[i].status = "succeeded" /\ agent["ingress"].job # i
    BY <2>1, <2>2, <2>3, <2>5, <1>5 DEF JobInv, RouteOrder
  <2> QED  BY <2>0, <2>2, <2>3, <2>6, <1>1, <1>6 DEF StatusMoves, IsRoute
<1>10. RouteRun'
  <2> SUFFICES ASSUME RoutesWell', NEW j \in DOMAIN jobs', LastRoute(j)', jobs'[j].status = "succeeded"
               PROVE  route' = jobs'[j].payload.t
    BY DEF RouteRun
  <2>1. j \in DOMAIN jobs
    BY DEF Calm
  <2>2. LastRoute(j) /\ jobs[j].status = "succeeded" /\ jobs'[j].payload = jobs[j].payload
    BY <2>1, <1>1 DEF Calm, LastRoute, IsRoute, SameJob, StatusMoves
  <2> QED  BY <2>1, <2>2, <1>5 DEF JobInv, RouteRun, Calm
<1> QED  BY <1>2, <1>3, <1>7, <1>8, <1>9, <1>10 DEF JobInv

\* A handler is a sequence of commands; only that of an apply brings a tunnel
\* up, and only that of a route job routes.
LEMMA HandlerShape ==
  ASSUME JobsFit, NEW j \in DOMAIN jobs, NEW h, h = Link!handler(j)
  PROVE  /\ h \in Seq(Commands)
         /\ ~ IsApply(j) => \A k \in DOMAIN h : h[k] \notin {"write", "start"}
         /\ ~ IsRoute(j) => \A k \in DOMAIN h : h[k] # "route"
         /\ IsRoute(j) => h = <<"route">>
         /\ IsCleanup(j) => h = <<"stop", "remove">>
<1>1. jobs[j].type \in {"apply", "cleanup", "probe", "route"}
  BY EachJob DEF BackhaulJob, SideTypes
<1>2. CASE IsApply(j)
  <2>1. h = IF jobs[j].payload.t \in Activated THEN <<"write", "siblings", "start">> ELSE <<"write">>
    BY <1>2 DEF IsApply, Link!handler
  <2>2. CASE h = <<"write", "siblings", "start">>
    <3>1. h \in Seq(Commands)
      BY <2>2 DEF Commands
    <3>2. h \in Seq({"write", "siblings", "start"})
      BY <2>2
    <3> QED  BY <1>2, <3>1, <3>2 DEF IsApply, IsRoute, IsCleanup
  <2>3. CASE h = <<"write">>
    BY <1>2, <2>3 DEF IsApply, IsRoute, IsCleanup, Commands
  <2> QED  BY <2>1, <2>2, <2>3
<1>3. CASE IsCleanup(j)
  BY <1>3 DEF IsApply, IsRoute, IsCleanup, Link!handler, Commands
<1>4. CASE IsRoute(j)
  BY <1>4 DEF IsApply, IsRoute, IsCleanup, Link!handler, Commands
<1>5. CASE jobs[j].type = "probe"
  BY <1>5 DEF IsApply, IsRoute, IsCleanup, Link!handler, Commands
<1> QED  BY <1>1, <1>2, <1>3, <1>4, <1>5 DEF IsApply, IsRoute, IsCleanup

\* An agent takes its node's job of the least priority: no cleanup before an
\* apply, no route job before an older one.
LEMMA ClaimKeeps ==
  ASSUME JobInv, NEW n \in Roles, NEW j \in DOMAIN jobs, Link!Claimable(n, j), Link!Claim(n, j, Link!handler(j)),
         UNCHANGED <<manifest, runtime, route, order>>
  PROVE  JobInv'
<1> PICK h : h = Link!handler(j)
  OBVIOUS
<1>0. JobsFit /\ AgentsFit /\ NodesFit
  BY DEF JobInv
<1>1. jobs[j].node = n /\ jobs[j].status = "queued" /\ agent[n].job = 0
  BY DEF Link!Claimable, Link!NoJob
<1>14. \A i \in DOMAIN jobs : jobs[i].node = n => jobs[i].status # "running"
  BY DEF Link!Claimable, Link!Job
<1>15. \A i \in DOMAIN jobs : jobs[i].node = n /\ jobs[i].status = "queued" =>
         jobs[j].priority < jobs[i].priority \/ (jobs[j].priority = jobs[i].priority /\ j <= i)
  BY DEF Link!Claimable, Link!Job, Link!Before
<1>2. /\ jobs' = [jobs EXCEPT ![j].status = "running"]
      /\ agent' = [agent EXCEPT ![n] = [job |-> j, todo |-> h, warned |-> FALSE, result |-> "none"]]
  <2>1. PICK a : a = [Link!AgentIdle EXCEPT !.job = j, !.todo = h]
    OBVIOUS
  <2>2. a = [job |-> j, todo |-> h, warned |-> FALSE, result |-> "none"]
    BY <2>1, Zenon DEF Link!AgentIdle
  <2>3. jobs' = [jobs EXCEPT ![j].status = "running"] /\ agent' = [agent EXCEPT ![n] = a]
    BY <2>1 DEF Link!Claim
  <2> QED  BY <2>2, <2>3
<1>3. /\ h \in Seq(Commands)
      /\ ~ IsApply(j) => \A k \in DOMAIN h : h[k] \notin {"write", "start"}
      /\ ~ IsRoute(j) => \A k \in DOMAIN h : h[k] # "route"
      /\ IsRoute(j) => h = <<"route">>
      /\ IsCleanup(j) => h = <<"stop", "remove">>
  BY <1>0, HandlerShape
<1>4. /\ DOMAIN jobs' = DOMAIN jobs /\ DOMAIN jobs \subseteq Nat \ {0}
      /\ \A i \in DOMAIN jobs : SameJob(jobs[i], jobs'[i]) /\ (i # j => jobs'[i] = jobs[i])
      /\ jobs'[j].status = "running"
  BY <1>0, <1>2, EachJob DEF JobsFit, SameJob, BackhaulJob
<1>5. /\ agent' \in [Roles -> BackhaulAgent]
      /\ agent'[n].job = j /\ agent'[n].todo = h /\ agent'[n].result = "none"
      /\ \A m \in Roles : m # n => agent'[m] = agent[m]
  BY <1>0, <1>2, <1>3, <1>4 DEF AgentsFit, BackhaulAgent
<1>6. JobsFit'
  <2>1. [jobs[j] EXCEPT !.status = "running"] \in BackhaulJob
    BY <1>0, EachJob DEF BackhaulJob
  <2>2. jobs' \in Seq(BackhaulJob)
    BY <1>0, <1>2, <2>1 DEF JobsFit
  <2>4. jobs'[j].effect = jobs[j].effect
    BY <1>0, <1>2, EachJob DEF BackhaulJob, JobsFit
  <2>5. \A i \in DOMAIN jobs : Owes(jobs'[i])
    BY <1>0, <1>1, <1>4, <2>4 DEF JobsFit, JobFits, Owes
  <2>3. \A i \in DOMAIN jobs : JobFits(jobs'[i])
    BY <1>0, <1>4, <2>5 DEF JobsFit, JobFits, SameJob
  <2> QED  BY <1>4, <2>2, <2>3 DEF JobsFit, BackhaulJob, JobFits, Via, Profiles, Link!Profiles
<1>7. NodesFit'
  BY <1>0 DEF NodesFit, Via, Profiles, Link!Profiles
<1>8. AgentsFit'
  BY <1>0, <1>1, <1>4, <1>5 DEF AgentsFit, SameJob
<1>9. (AppliesFirst' <=> AppliesFirst) /\ (RoutesWell' => RoutesWell)
  BY <1>1, <1>4 DEF AppliesFirst, RoutesWell, IsApply, IsCleanup, IsRoute, SameJob
<1>10. CleanupsLast'
  <2> SUFFICES ASSUME AppliesFirst, NEW c \in DOMAIN jobs, IsCleanup(c)
               PROVE  /\ Begun(c)' => AppliesOver(jobs[c].node)'
                      /\ jobs'[c].status = "succeeded" =>
                           jobs'[c].payload.t \notin manifest'[jobs'[c].node] \cup runtime'[jobs'[c].node]
    BY <1>4, <1>9 DEF CleanupsLast, IsCleanup, SameJob
  <2>1. jobs[c].node \in Roles /\ jobs'[c].node = jobs[c].node /\ jobs'[c].payload = jobs[c].payload
    BY <1>0, <1>4, EachJob DEF SameJob
  <2>2. /\ Begun(c) => AppliesOver(jobs[c].node)
        /\ jobs[c].status = "succeeded" =>
             jobs[c].payload.t \notin manifest[jobs[c].node] \cup runtime[jobs[c].node]
    BY DEF JobInv, CleanupsLast
  <2>3. ASSUME Begun(c)', c # j, NEW a \in DOMAIN jobs, IsApply(a), jobs[a].node = jobs[c].node
        PROVE  jobs'[a].status \notin {"queued", "running"} /\ agent'[jobs[c].node].job # a
    <3>1. Begun(c)
      BY <2>1, <2>3, <1>4, <1>5 DEF Begun
    <3>2. jobs[a].status \notin {"queued", "running"} /\ agent[jobs[c].node].job # a
      BY <2>2, <2>3, <3>1 DEF AppliesOver
    <3> QED  BY <3>2, <1>1, <1>4, <1>5, <2>1
  <2>4. ASSUME c = j, NEW a \in DOMAIN jobs, IsApply(a), jobs[a].node = jobs[c].node
        PROVE  jobs'[a].status \notin {"queued", "running"} /\ agent'[jobs[c].node].job # a
    <3>1. jobs[a].priority = 75 /\ jobs[j].priority = 90 /\ a # j
      BY <2>4, <1>0, EachJob DEF JobFits, IsApply, IsCleanup
    <3>2. jobs[a].node = n
      BY <2>4, <1>1
    <3>3. jobs[a].status # "queued"
      BY <3>1, <3>2, <1>15
    <3>4. jobs[a].status # "running"
      BY <3>2, <1>14
    <3> QED  BY <2>4, <3>1, <3>2, <3>3, <3>4, <1>4, <1>5
  <2> QED  BY <2>1, <2>2, <2>3, <2>4, <1>4 DEF AppliesOver, IsApply, SameJob
<1>11. Handlers'
  <2> SUFFICES ASSUME NEW m \in Roles, agent'[m].job # 0
               PROVE  HandlerOf(m, agent[m], jobs[agent[m].job])'
    BY DEF Handlers
  <2>1. CASE m = n
    BY <2>1, <1>3, <1>4, <1>5 DEF HandlerOf, SameJob, IsApply, IsRoute, IsCleanup
  <2>2. CASE m # n
    <3>1. agent'[m] = agent[m] /\ agent[m].job \in DOMAIN jobs /\ jobs[agent[m].job].node = m
      BY <2>2, <1>0, <1>5 DEF AgentsFit
    <3>2. HandlerOf(m, agent[m], jobs[agent[m].job]) /\ jobs'[agent[m].job] = jobs[agent[m].job]
      BY <2>2, <3>1, <1>1, <1>4 DEF JobInv, Handlers
    <3> QED  BY <3>1, <3>2, <1>9 DEF HandlerOf
  <2> QED  BY <2>1, <2>2
<1>12. RouteOrder'
  <2> SUFFICES ASSUME RoutesWell', NEW i \in DOMAIN jobs, NEW k \in DOMAIN jobs, IsRoute(i), IsRoute(k), i < k,
                      jobs'[k].status # "queued" \/ agent'["ingress"].job = k
               PROVE  jobs'[i].status = "succeeded" /\ agent'["ingress"].job # i
    BY <1>4 DEF RouteOrder, IsRoute, SameJob
  <2>0. "ingress" \in Roles /\ i \in Nat /\ k \in Nat
    BY <1>4 DEF Roles
  <2>1. RoutesWell
    BY <1>9
  <2>2. CASE k = j
    <3>1. jobs[i].node = "ingress" /\ n = "ingress" /\ jobs[i].priority = 80 /\ jobs[j].priority = 80
      <4>1. JobFits(jobs[i]) /\ JobFits(jobs[j])
        BY <1>0, EachJob
      <4>2. jobs[i].type = "route" /\ jobs[j].type = "route"
        BY <2>2 DEF IsRoute
      <4>3. jobs[i].node = "ingress" /\ jobs[i].priority = 80 /\ jobs[j].node = "ingress" /\ jobs[j].priority = 80
        BY <4>1, <4>2 DEF JobFits
      <4> QED  BY <4>3, <1>1
    <3>2. jobs[i].status # "queued"
      BY <2>0, <2>2, <3>1, <1>15
    <3>4. jobs[i].status # "running"
      BY <3>1, <1>14
    <3>3. jobs[i].status = "succeeded"
      BY <2>1, <3>2, <3>4, <1>0, EachJob DEF RoutesWell, BackhaulJob
    <3> QED  BY <2>0, <2>2, <3>1, <3>3, <1>4, <1>5
  <2>3. CASE k # j
    <3>1. jobs[k].status # "queued" \/ agent["ingress"].job = k
      BY <2>0, <2>3, <1>4, <1>5
    <3>2. jobs[i].status = "succeeded" /\ agent["ingress"].job # i
      BY <2>1, <3>1 DEF JobInv, RouteOrder
    <3> QED  BY <2>0, <3>2, <1>1, <1>4, <1>5
  <2> QED  BY <2>2, <2>3
<1>13. RouteRun'
  BY <1>4, <1>9 DEF JobInv, RouteRun, LastRoute, IsRoute, SameJob
<1> QED  BY <1>6, <1>7, <1>8, <1>10, <1>11, <1>12, <1>13 DEF JobInv

\* A result makes the job terminal when it still runs; a cleanup's handler has
\* then removed what there was, a route job's has routed.
LEMMA ResultKeeps ==
  ASSUME JobInv, NEW n \in Roles, NEW j, j = agent[n].job, agent[n].result \in {"succeeded", "failed"},
         jobs[j].status = "running",
         jobs' = [jobs EXCEPT ![j].status = agent[n].result, ![j].effect = "pending"],
         agent' = [agent EXCEPT ![n].result = "sent"],
         UNCHANGED <<manifest, runtime, route, order>>
  PROVE  JobInv'
<1>0. JobsFit /\ AgentsFit /\ NodesFit
  BY DEF JobInv
<1>1. j # 0 /\ j \in DOMAIN jobs /\ jobs[j].node = n
  BY <1>0 DEF AgentsFit
<1>2. /\ DOMAIN jobs' = DOMAIN jobs /\ DOMAIN jobs \subseteq Nat \ {0}
      /\ \A i \in DOMAIN jobs : SameJob(jobs[i], jobs'[i]) /\ (i # j => jobs'[i] = jobs[i])
      /\ jobs'[j].status = agent[n].result
  <2>1. jobs[j] \in BackhaulJob
    BY <1>0, <1>1, EachJob
  <2> QED  BY <1>0, <1>1, <2>1 DEF JobsFit, SameJob, BackhaulJob
<1>3. /\ agent' \in [Roles -> BackhaulAgent]
      /\ agent'[n].job = j /\ agent'[n].todo = agent[n].todo /\ agent'[n].result = "sent"
      /\ \A m \in Roles : m # n => agent'[m] = agent[m]
      /\ \A m \in Roles : agent'[m].job = agent[m].job
  BY <1>0 DEF AgentsFit, BackhaulAgent
<1>4. JobsFit'
  <2>1. [jobs[j] EXCEPT !.status = agent[n].result, !.effect = "pending"] \in BackhaulJob
    BY <1>0, <1>1, EachJob DEF BackhaulJob
  <2>2. jobs' \in Seq(BackhaulJob)
    BY <1>0, <1>1, <2>1 DEF JobsFit
  <2>4. \A i \in DOMAIN jobs : Owes(jobs'[i])
    BY <1>0, <1>2 DEF JobsFit, JobFits, Owes
  <2>3. \A i \in DOMAIN jobs : JobFits(jobs'[i])
    BY <1>0, <1>2, <2>4 DEF JobsFit, JobFits, SameJob
  <2> QED  BY <1>2, <2>2, <2>3 DEF JobsFit, BackhaulJob, JobFits, Via, Profiles, Link!Profiles
<1>5. NodesFit'
  BY <1>0 DEF NodesFit, Via, Profiles, Link!Profiles
<1>6. AgentsFit'
  BY <1>0, <1>1, <1>2, <1>3 DEF AgentsFit, SameJob
<1>7. (AppliesFirst' <=> AppliesFirst) /\ (RoutesWell' => RoutesWell)
  BY <1>2 DEF AppliesFirst, RoutesWell, IsApply, IsCleanup, IsRoute, SameJob
<1>8. HandlerOf(n, agent[n], jobs[j])
  BY <1>1 DEF JobInv, Handlers
<1>13. \A i \in DOMAIN jobs : IsCleanup(i)' <=> IsCleanup(i)
  BY <1>2 DEF IsCleanup, SameJob
<1>9. CleanupsLast'
  <2> SUFFICES ASSUME AppliesFirst, NEW c \in DOMAIN jobs, IsCleanup(c)
               PROVE  /\ Begun(c)' => AppliesOver(jobs[c].node)'
                      /\ jobs'[c].status = "succeeded" =>
                           jobs'[c].payload.t \notin manifest'[jobs'[c].node] \cup runtime'[jobs'[c].node]
    BY <1>2, <1>7, <1>13 DEF CleanupsLast
  <2>1. jobs[c].node \in Roles /\ jobs'[c].node = jobs[c].node /\ jobs'[c].payload = jobs[c].payload
    BY <1>0, <1>2, EachJob DEF SameJob
  <2>2. /\ Begun(c) => AppliesOver(jobs[c].node)
        /\ jobs[c].status = "succeeded" =>
             jobs[c].payload.t \notin manifest[jobs[c].node] \cup runtime[jobs[c].node]
    BY DEF JobInv, CleanupsLast
  <2>3. Begun(c)' => Begun(c)
    BY <1>2, <1>3, <2>1 DEF Begun
  <2>4. AppliesOver(jobs[c].node) => AppliesOver(jobs[c].node)'
    BY <1>2, <1>3, <2>1 DEF AppliesOver, IsApply, SameJob
  <2>5. ASSUME c = j, jobs'[j].status = "succeeded"
        PROVE  jobs[c].payload.t \notin manifest[jobs[c].node] \cup runtime[jobs[c].node]
    BY <2>5, <1>1, <1>2, <1>8 DEF HandlerOf, IsCleanup
  <2> QED  BY <2>1, <2>2, <2>3, <2>4, <2>5, <1>2
<1>10. Handlers'
  <2> SUFFICES ASSUME NEW m \in Roles, agent'[m].job # 0
               PROVE  HandlerOf(m, agent[m], jobs[agent[m].job])'
    BY DEF Handlers
  <2>1. agent'[m].job = agent[m].job /\ agent[m].job \in DOMAIN jobs
    BY <1>0, <1>3 DEF AgentsFit
  <2>2. HandlerOf(m, agent[m], jobs[agent[m].job]) /\ SameJob(jobs[agent[m].job], jobs'[agent[m].job])
    BY <2>1, <1>2 DEF JobInv, Handlers
  <2>3. agent'[m] = agent[m] \/ (agent'[m].todo = <<>> /\ agent'[m].result = "sent")
    BY <1>3, <1>8 DEF HandlerOf
  <2>4. CASE agent'[m] = agent[m]
    <3>1. /\ jobs'[agent'[m].job].type = jobs[agent[m].job].type
          /\ jobs'[agent'[m].job].payload = jobs[agent[m].job].payload
      BY <2>1, <2>2 DEF SameJob
    <3> QED  BY <2>2, <2>4, <3>1, <1>7 DEF HandlerOf
  <2>5. CASE agent'[m].todo = <<>> /\ agent'[m].result = "sent"
    <3>1. /\ jobs'[agent'[m].job].type = jobs[agent[m].job].type
          /\ jobs'[agent'[m].job].payload = jobs[agent[m].job].payload
      BY <2>1, <2>2 DEF SameJob
    <3>2. \A k \in DOMAIN agent'[m].todo : FALSE
      BY <2>5
    <3>3. agent'[m].result \notin {"none", "succeeded"}
      BY <2>5
    <3> QED  BY <2>5, <3>2, <3>3 DEF HandlerOf
  <2> QED  BY <2>3, <2>4, <2>5
<1>11. RouteOrder'
  <2> SUFFICES ASSUME RoutesWell', NEW i \in DOMAIN jobs, NEW k \in DOMAIN jobs, IsRoute(i), IsRoute(k), i < k,
                      jobs'[k].status # "queued" \/ agent'["ingress"].job = k
               PROVE  jobs'[i].status = "succeeded" /\ agent'["ingress"].job # i
    BY <1>2 DEF RouteOrder, IsRoute, SameJob
  <2>1. "ingress" \in Roles /\ RoutesWell
    BY <1>7 DEF Roles
  <2>2. jobs[k].status # "queued" \/ agent["ingress"].job = k
    BY <2>1, <1>2, <1>3
  <2>3. jobs[i].status = "succeeded" /\ agent["ingress"].job # i
    BY <2>1, <2>2 DEF JobInv, RouteOrder
  <2> QED  BY <2>1, <2>3, <1>2, <1>3
<1>12. RouteRun'
  <2> SUFFICES ASSUME RoutesWell', NEW k \in DOMAIN jobs, LastRoute(k), jobs'[k].status = "succeeded"
               PROVE  route = jobs[k].payload.t
    BY <1>2 DEF RouteRun, LastRoute, IsRoute, SameJob
  <2>1. CASE k = j
    BY <2>1, <1>2, <1>8 DEF HandlerOf, LastRoute, IsRoute
  <2>2. CASE k # j
    BY <2>2, <1>2, <1>7 DEF JobInv, RouteRun
  <2> QED  BY <2>1, <2>2
<1> QED  BY <1>4, <1>5, <1>6, <1>9, <1>10, <1>11, <1>12 DEF JobInv

\* What a command of a handler does on its node, and what is left of the
\* handler then.
CommandDone(n, j, k, t) ==
  /\ \A m \in Roles : m # n => agent'[m] = agent[m] /\ manifest'[m] = manifest[m] /\ runtime'[m] = runtime[m]
  /\ k \notin {"write", "start"} => manifest'[n] \subseteq manifest[n] /\ runtime'[n] \subseteq runtime[n]
  /\ route' = IF k = "route" THEN t ELSE route
  /\ k = "stop" => t \notin runtime'[n]
  /\ k = "remove" => t \notin manifest'[n]
  /\ agent'[n].job = j
  /\ IF Len(agent[n].todo) = 1 THEN agent'[n].todo = <<>> /\ agent'[n].result = "succeeded"
     ELSE agent'[n].todo = Tail(agent[n].todo) /\ agent'[n].result = "none"

\* What an agent's command does to its node, and what it needs.
LEMMA CommandDoes ==
  ASSUME JobInv, UNCHANGED order, NEW n \in Roles, NEW j, j = agent[n].job, NEW t, t = jobs[j].payload.t,
         NEW k, k = Head(agent[n].todo), Link!AgentCommand(n)
  PROVE  /\ j # 0 /\ j \in DOMAIN jobs /\ agent[n].result = "none" /\ agent[n].todo # <<>>
         /\ CommandDone(n, j, k, t)
         /\ agent' \in [Roles -> BackhaulAgent] /\ NodesFit' /\ jobs' = jobs
<1>0. JobsFit /\ AgentsFit /\ NodesFit
  BY DEF JobInv
<1>1. /\ j # 0 /\ j \in DOMAIN jobs /\ agent[n].result = "none" /\ agent[n].todo # <<>>
      /\ jobs' = jobs
  BY <1>0 DEF Link!AgentCommand, Link!Working, Link!NoJob, AgentsFit
<1>2. agent[n].todo \in Seq(Commands) /\ k \in Commands /\ Tail(agent[n].todo) \in Seq(Commands)
  BY <1>0, <1>1 DEF AgentsFit, BackhaulAgent
<1>3. JobFits(jobs[j]) /\ HandlerOf(n, agent[n], jobs[j]) /\ t \in Via
  BY <1>0, <1>1, EachJob DEF JobInv, Handlers
<1>4. k \in {"write", "start"} => t \in Profiles
  BY <1>1, <1>2, <1>3 DEF HandlerOf, JobFits
<1>5. /\ agent' \in [Roles -> BackhaulAgent]
      /\ \A m \in Roles : m # n => agent'[m] = agent[m]
      /\ agent'[n].job = j
      /\ IF Len(agent[n].todo) = 1 THEN agent'[n].todo = <<>> /\ agent'[n].result = "succeeded"
         ELSE agent'[n].todo = Tail(agent[n].todo) /\ agent'[n].result = "none"
  <2>1. CASE Len(agent[n].todo) = 1
    <3>1. agent' = [agent EXCEPT ![n].result = "succeeded", ![n].todo = <<>>]
      BY <2>1 DEF Link!AgentCommand, Link!Finish
    <3> QED  BY <3>1, <2>1, <1>0 DEF AgentsFit, BackhaulAgent
  <2>2. CASE Len(agent[n].todo) # 1
    <3>1. agent' = [agent EXCEPT ![n].todo = Tail(@)]
      BY <2>2 DEF Link!AgentCommand, Link!Advance
    <3> QED  BY <3>1, <2>2, <1>0, <1>1, <1>2 DEF AgentsFit, BackhaulAgent
  <2> QED  BY <2>1, <2>2
<1>6. CASE k = "write"
  <2>1. manifest' = [manifest EXCEPT ![n] = @ \cup {t}] /\ UNCHANGED <<runtime, route>>
    BY <1>6 DEF Link!AgentCommand
  <2> QED  BY <2>1, <1>0, <1>1, <1>4, <1>5, <1>6 DEF NodesFit, CommandDone, Via, Profiles, Link!Profiles
<1>7. CASE k = "siblings"
  <2>1. /\ runtime' = [runtime EXCEPT ![n] = @ \ (manifest[n] \ {t})]
        /\ manifest' = [manifest EXCEPT ![n] = @ \cap {t}] /\ UNCHANGED route
    BY <1>7 DEF Link!AgentCommand, Link!cleanupSiblingBackhaulRuntime
  <2> QED  BY <2>1, <1>0, <1>1, <1>5, <1>7 DEF NodesFit, CommandDone, Via, Profiles, Link!Profiles
<1>8. CASE k = "start"
  <2>1. runtime' = [runtime EXCEPT ![n] = @ \cup {t}] /\ UNCHANGED <<manifest, route>>
    BY <1>8 DEF Link!AgentCommand
  <2> QED  BY <2>1, <1>0, <1>1, <1>4, <1>5, <1>8 DEF NodesFit, CommandDone, Via, Profiles, Link!Profiles
<1>9. CASE k = "stop"
  <2>1. runtime' = [runtime EXCEPT ![n] = @ \ {t}] /\ UNCHANGED <<manifest, route>>
    BY <1>9 DEF Link!AgentCommand
  <2> QED  BY <2>1, <1>0, <1>1, <1>5, <1>9 DEF NodesFit, CommandDone, Via, Profiles, Link!Profiles
<1>10. CASE k = "remove"
  <2>1. manifest' = [manifest EXCEPT ![n] = @ \ {t}] /\ UNCHANGED <<runtime, route>>
    BY <1>10 DEF Link!AgentCommand
  <2> QED  BY <2>1, <1>0, <1>1, <1>5, <1>10 DEF NodesFit, CommandDone, Via, Profiles, Link!Profiles
<1>11. CASE k = "probe"
  <2>1. UNCHANGED <<manifest, runtime, route>>
    <3>1. \A m \in Roles : UNCHANGED <<manifest, runtime, route>>
      BY <1>11 DEF Link!AgentCommand, Link!Role, Roles
    <3> QED  BY <3>1 DEF Roles
  <2> QED  BY <2>1, <1>0, <1>1, <1>5, <1>11 DEF NodesFit, CommandDone, Via, Profiles, Link!Profiles
<1>12. CASE k = "route"
  <2>1. route' = t /\ UNCHANGED <<manifest, runtime>>
    BY <1>12 DEF Link!AgentCommand
  <2> QED  BY <2>1, <1>0, <1>1, <1>3, <1>5, <1>12 DEF NodesFit, CommandDone, Via, Profiles, Link!Profiles
<1> QED  BY <1>2, <1>6, <1>7, <1>8, <1>9, <1>10, <1>11, <1>12 DEF Commands

\* A command keeps what the jobs guarantee: nothing is written or started where
\* a cleanup has begun, and no route job but the last runs once that has ended.
LEMMA CommandKeeps ==
  ASSUME JobInv, UNCHANGED order, NEW n \in Roles, Link!AgentCommand(n)
  PROVE  JobInv'
<1> PICK j : j = agent[n].job  OBVIOUS
<1> PICK t : t = jobs[j].payload.t  OBVIOUS
<1> PICK k : k = Head(agent[n].todo)  OBVIOUS
<1>0. JobsFit /\ AgentsFit /\ NodesFit
  BY DEF JobInv
<1>1. /\ j # 0 /\ j \in DOMAIN jobs /\ agent[n].result = "none" /\ agent[n].todo # <<>>
      /\ CommandDone(n, j, k, t)
      /\ agent' \in [Roles -> BackhaulAgent] /\ NodesFit' /\ jobs' = jobs
  BY CommandDoes
<1>2. \A m \in Roles : agent'[m].job = agent[m].job
  BY <1>1 DEF CommandDone
<1>3. JobsFit' /\ AgentsFit'
  <2>1. JobsFit'
    BY <1>0, <1>1 DEF JobsFit, JobFits, BackhaulJob, Via, Profiles, Link!Profiles
  <2>2. AgentsFit'
    BY <1>0, <1>1, <1>2 DEF AgentsFit, CommandDone
  <2> QED  BY <2>1, <2>2
<1>4. (AppliesFirst' <=> AppliesFirst) /\ (RoutesWell' <=> RoutesWell)
  BY <1>1 DEF AppliesFirst, RoutesWell, IsApply, IsCleanup, IsRoute
<1>5. HandlerOf(n, agent[n], jobs[j])
  BY <1>1 DEF JobInv, Handlers
<1>6. /\ agent[n].todo \in Seq(Commands) /\ k = agent[n].todo[1] /\ 1 \in DOMAIN agent[n].todo
      /\ jobs[j].node = n
  BY <1>0, <1>1 DEF AgentsFit, BackhaulAgent
<1>7. k \in {"write", "start"} => IsApply(j)
  BY <1>5, <1>6 DEF HandlerOf, IsApply
<1>8. k = "route" => IsRoute(j)
  BY <1>5, <1>6 DEF HandlerOf, IsRoute
<1>9. CleanupsLast'
  <2> SUFFICES ASSUME AppliesFirst, NEW c \in DOMAIN jobs, IsCleanup(c)
               PROVE  /\ Begun(c)' => AppliesOver(jobs[c].node)'
                      /\ jobs'[c].status = "succeeded" =>
                           jobs'[c].payload.t \notin manifest'[jobs'[c].node] \cup runtime'[jobs'[c].node]
    BY <1>1, <1>4 DEF CleanupsLast, IsCleanup
  <2>1. jobs[c].node \in Roles
    BY <1>0, EachJob
  <2>2. /\ Begun(c) => AppliesOver(jobs[c].node)
        /\ jobs[c].status = "succeeded" =>
             jobs[c].payload.t \notin manifest[jobs[c].node] \cup runtime[jobs[c].node]
    BY DEF JobInv, CleanupsLast
  <2>3. Begun(c)' <=> Begun(c)
    BY <1>1, <1>2, <2>1 DEF Begun
  <2>4. AppliesOver(jobs[c].node) => AppliesOver(jobs[c].node)'
    BY <1>1, <1>2, <2>1 DEF AppliesOver, IsApply
  <2>5. ASSUME jobs[c].status = "succeeded"
        PROVE  manifest'[jobs[c].node] \subseteq manifest[jobs[c].node] /\ runtime'[jobs[c].node] \subseteq runtime[jobs[c].node]
    <3>1. AppliesOver(jobs[c].node)
      BY <2>2, <2>5 DEF Begun
    <3>2. jobs[c].node = n => ~ IsApply(j)
      BY <3>1, <1>1, <1>6 DEF AppliesOver
    <3> QED  BY <3>2, <1>1, <1>7, <2>1 DEF CommandDone
  <2> QED  BY <2>2, <2>3, <2>4, <2>5, <1>1
<1>10. Handlers'
  <2> SUFFICES ASSUME NEW m \in Roles, agent'[m].job # 0
               PROVE  HandlerOf(m, agent[m], jobs[agent[m].job])'
    BY DEF Handlers
  <2>1. CASE m # n
    <3>1. /\ agent'[m] = agent[m] /\ manifest'[m] = manifest[m] /\ runtime'[m] = runtime[m]
          /\ jobs'[agent'[m].job] = jobs[agent[m].job]
      BY <2>1, <1>1 DEF CommandDone
    <3>2. HandlerOf(m, agent[m], jobs[agent[m].job])
      BY <3>1 DEF JobInv, Handlers
    <3>3. k = "route" => jobs[agent[m].job].type # "route"
      BY <2>1, <3>1, <1>0, <1>1, <1>6, <1>8, EachJob DEF AgentsFit, JobFits, IsRoute
    <3> QED  BY <3>1, <3>2, <3>3, <1>1, <1>4 DEF HandlerOf, CommandDone
  <2>2. CASE m = n
    <3>1. jobs'[agent'[m].job] = jobs[j] /\ agent'[n].job = j
      BY <2>2, <1>1 DEF CommandDone
    <3>2. agent'[n].result # "none" => agent'[n].todo = <<>>
      BY <1>1 DEF CommandDone
    <3>3. \A i \in DOMAIN agent'[n].todo : \E q \in DOMAIN agent[n].todo : agent'[n].todo[i] = agent[n].todo[q]
      <4>1. CASE agent'[n].todo = <<>>
        BY <4>1
      <4>2. CASE agent'[n].todo = Tail(agent[n].todo)
        BY <4>2, <1>1, <1>6
      <4> QED  BY <4>1, <4>2, <1>1 DEF CommandDone
    <3>4. CASE IsRoute(j)
      <4>1. agent[n].todo = <<"route">>
        BY <3>4, <1>1, <1>5 DEF HandlerOf, IsRoute
      <4>2. k = "route" /\ Len(agent[n].todo) = 1
        BY <4>1, <1>6
      <4> QED  BY <2>2, <3>1, <3>4, <4>2, <1>1 DEF HandlerOf, CommandDone, IsRoute
    <3>5. CASE IsCleanup(j) /\ AppliesFirst
      <4>1. CASE agent[n].todo = <<"stop", "remove">>
        <5>1. k = "stop" /\ Len(agent[n].todo) = 2 /\ Tail(agent[n].todo) = <<"remove">>
          <6>1. k = "stop" /\ Len(agent[n].todo) = 2
            BY <4>1, <1>6
          <6>2. Tail(<<"stop", "remove">>) = <<"remove">>
            OBVIOUS
          <6> QED  BY <4>1, <6>1, <6>2
        <5>2. agent'[n].todo = <<"remove">> /\ agent'[n].result = "none" /\ t \notin runtime'[n]
          <6>1. Len(agent[n].todo) # 1 /\ k = "stop"
            BY <5>1
          <6>2. agent'[n].todo = Tail(agent[n].todo) /\ agent'[n].result = "none" /\ t \notin runtime'[n]
            BY <6>1, <1>1 DEF CommandDone
          <6> QED  BY <5>1, <6>2
        <5> QED  BY <2>2, <3>1, <3>5, <5>2 DEF HandlerOf, IsCleanup
      <4>2. CASE agent[n].todo = <<"remove">> /\ t \notin runtime[n]
        <5>1. k = "remove" /\ Len(agent[n].todo) = 1
          BY <4>2, <1>6
        <5>2. /\ agent'[n].todo = <<>> /\ agent'[n].result = "succeeded"
              /\ t \notin manifest'[n] \cup runtime'[n]
          BY <4>2, <5>1, <1>1 DEF CommandDone
        <5> QED  BY <2>2, <3>1, <3>5, <5>2 DEF HandlerOf, IsCleanup
      <4> QED  BY <3>5, <4>1, <4>2, <1>1, <1>5 DEF HandlerOf, IsCleanup
    <3>6. CASE ~ IsRoute(j) /\ ~ (IsCleanup(j) /\ AppliesFirst)
      BY <2>2, <3>1, <3>2, <3>3, <3>6, <1>4, <1>5 DEF HandlerOf, IsRoute, IsCleanup
    <3> QED  BY <3>4, <3>5, <3>6
  <2> QED  BY <2>1, <2>2
<1>11. RouteOrder'
  <2>1. "ingress" \in Roles
    BY DEF Roles
  <2> QED  BY <2>1, <1>1, <1>2, <1>4 DEF JobInv, RouteOrder, IsRoute
<1>12. RouteRun'
  <2> SUFFICES ASSUME RoutesWell, NEW i \in DOMAIN jobs, LastRoute(i), jobs[i].status = "succeeded"
               PROVE  route' = jobs[i].payload.t
    BY <1>1, <1>4 DEF RouteRun, LastRoute, IsRoute
  <2>1. CASE k # "route"
    BY <2>1, <1>1 DEF JobInv, RouteRun, CommandDone
  <2>2. CASE k = "route"
    <3>1. IsRoute(j) /\ IsRoute(i) /\ j <= i /\ n = "ingress"
      BY <2>2, <1>0, <1>1, <1>6, <1>8, EachJob DEF LastRoute, JobFits, IsRoute
    <3>2. i = j
      <4>1. ~ (j < i)
        BY <3>1, <1>1 DEF JobInv, RouteOrder
      <4>2. i \in Nat /\ j \in Nat
        BY <1>0, <1>1 DEF JobsFit
      <4> QED  BY <3>1, <4>1, <4>2
    <3> QED  BY <3>2, <2>2, <1>1 DEF CommandDone
  <2> QED  BY <2>1, <2>2
<1> QED  BY <1>1, <1>3, <1>9, <1>10, <1>11, <1>12 DEF JobInv

-----------------------------------------------------------------------------
(***************************************************************************)
(* Which steps are calm.                                                   *)
(***************************************************************************)
\* The agent's record when it has no job.
LEMMA AtEase ==
  /\ Link!AgentIdle \in BackhaulAgent
  /\ Link!AgentIdle.job = 0 /\ Link!AgentIdle.result = "none"
BY DEF Link!AgentIdle, Link!NoJob, BackhaulAgent

\* Answering whoever waits for a job is calm, for the agents.
LEMMA AnswerCalm ==
  ASSUME JobInv, NEW j, Link!Answer(j)
  PROVE  agent' \in [Roles -> BackhaulAgent] /\ \A n \in Roles : AgentCalm(agent[n], agent'[n])
<1>1. agent' = [n \in Roles |-> IF agent[n].job = j THEN Link!AgentIdle ELSE agent[n]]
  BY DEF Link!Answer, Roles
<1> QED  BY <1>1, AtEase DEF JobInv, AgentsFit, AgentCalm

\* So is leaving everything as it is.
LEMMA StillCalm ==
  ASSUME JobInv, UNCHANGED <<jobs, agent, manifest, runtime, route, order>>
  PROVE  Calm
<1>1. JobsFit'
  BY DEF JobInv, JobsFit, JobFits, BackhaulJob, Via, Profiles, Link!Profiles
<1>2. Len(jobs) <= Len(jobs') /\ \A j \in DOMAIN jobs : SameJob(jobs[j], jobs'[j]) /\ StatusMoves(jobs[j], jobs'[j])
  BY DEF JobInv, JobsFit, SameJob, StatusMoves
<1>3. agent' \in [Roles -> BackhaulAgent] /\ \A n \in Roles : AgentCalm(agent[n], agent'[n])
  BY DEF JobInv, AgentsFit, AgentCalm
<1> QED  BY <1>1, <1>2, <1>3 DEF Calm, JobInv, NodesFit

\* So is a new job, whatever becomes of a side effect and of its answer.
LEMMA GrowthCalm ==
  ASSUME JobInv, NEW x \in BackhaulJob, JobFits(x), x.status = "queued",
         NEW js \in Seq(BackhaulJob), Len(js) = Len(jobs) + 1, js[Len(jobs) + 1] = x,
         \A i \in DOMAIN jobs : SameJob(jobs[i], js[i]) /\ StatusMoves(jobs[i], js[i]) /\ Owes(js[i]),
         jobs' = js, agent' \in [Roles -> BackhaulAgent], \A n \in Roles : AgentCalm(agent[n], agent'[n]),
         UNCHANGED <<manifest, runtime, route, order>>
  PROVE  Calm
<1>1. Len(jobs) \in Nat /\ DOMAIN jobs = 1..Len(jobs) /\ DOMAIN jobs' = 1..(Len(jobs) + 1)
  BY DEF JobInv, JobsFit
<1>2. \A i \in DOMAIN jobs' : JobFits(jobs'[i])
  <2>1. ASSUME NEW i \in DOMAIN jobs  PROVE JobFits(jobs'[i])
    BY <2>1 DEF JobInv, JobsFit, JobFits, SameJob
  <2> QED  BY <2>1, <1>1
<1>3. JobsFit'
  BY <1>2 DEF JobsFit, JobFits, BackhaulJob, Via, Profiles, Link!Profiles
<1>5. \A i \in DOMAIN jobs' \ DOMAIN jobs : jobs'[i].status = "queued"
  BY <1>1
<1> QED  BY <1>1, <1>3, <1>5 DEF Calm, JobInv, NodesFit

\* A job joining the queue disturbs no node and no job before it.
LEMMA AppendCalm ==
  ASSUME JobInv, NEW x \in BackhaulJob, JobFits(x), x.status = "queued", jobs' = Append(jobs, x),
         UNCHANGED <<agent, manifest, runtime, route, order>>
  PROVE  Calm /\ DOMAIN jobs' = DOMAIN jobs \cup {Len(jobs) + 1} /\ Len(jobs) + 1 \notin DOMAIN jobs
         /\ jobs'[Len(jobs) + 1] = x
<1>1. jobs \in Seq(BackhaulJob) /\ Len(jobs) \in Nat /\ DOMAIN jobs = 1..Len(jobs)
  BY DEF JobInv, JobsFit
<1>2. PICK js : js = Append(jobs, x)
  OBVIOUS
<1>3. /\ js \in Seq(BackhaulJob) /\ Len(js) = Len(jobs) + 1 /\ js[Len(jobs) + 1] = x
      /\ \A i \in DOMAIN jobs : js[i] = jobs[i]
      /\ DOMAIN js = 1..(Len(jobs) + 1)
  BY <1>1, <1>2
<1>4. \A i \in DOMAIN jobs : SameJob(jobs[i], js[i]) /\ StatusMoves(jobs[i], js[i]) /\ Owes(js[i])
  BY <1>3, EachJob DEF SameJob, StatusMoves, JobFits, JobInv
<1>5. agent' \in [Roles -> BackhaulAgent] /\ \A n \in Roles : AgentCalm(agent[n], agent'[n])
  BY DEF JobInv, AgentsFit, AgentCalm
<1>6. jobs' = js
  BY <1>2
<1>7. Calm
  BY <1>3, <1>4, <1>5, <1>6, GrowthCalm
<1> QED  BY <1>1, <1>3, <1>6, <1>7

\* A job's row changes and those who wait for it are answered, or an agent
\* changes.
LEMMA RowCalm ==
  ASSUME JobInv, NEW j \in DOMAIN jobs, NEW y \in BackhaulJob, SameJob(jobs[j], y), StatusMoves(jobs[j], y), Owes(y),
         jobs' = [jobs EXCEPT ![j] = y],
         agent' \in [Roles -> BackhaulAgent], \A n \in Roles : AgentCalm(agent[n], agent'[n]),
         UNCHANGED <<manifest, runtime, route, order>>
  PROVE  Calm /\ DOMAIN jobs' = DOMAIN jobs /\ jobs'[j] = y /\ \A i \in DOMAIN jobs : i # j => jobs'[i] = jobs[i]
<1>1. /\ jobs' \in Seq(BackhaulJob) /\ Len(jobs') = Len(jobs) /\ DOMAIN jobs' = DOMAIN jobs
      /\ jobs'[j] = y /\ \A i \in DOMAIN jobs : i # j => jobs'[i] = jobs[i]
      /\ Len(jobs) \in Nat
  BY DEF JobInv, JobsFit
<1>2. \A i \in DOMAIN jobs : SameJob(jobs[i], jobs'[i]) /\ StatusMoves(jobs[i], jobs'[i])
  BY <1>1 DEF SameJob, StatusMoves
<1>3. \A i \in DOMAIN jobs' : JobFits(jobs'[i])
  BY <1>1, <1>2 DEF JobInv, JobsFit, JobFits, SameJob
<1>4. JobsFit'
  BY <1>1, <1>3 DEF JobsFit, JobFits, BackhaulJob, Via, Profiles, Link!Profiles
<1> QED  BY <1>1, <1>2, <1>4 DEF Calm, JobInv, NodesFit

\* A side effect is over, in whatever way.
LEMMA EffectCalm ==
  ASSUME JobInv, NEW j \in DOMAIN jobs, NEW e \in {"none", "pending", "refresh", "applied", "failed", "lost"},
         e \in {"pending", "refresh"} => jobs[j].status \in {"succeeded", "failed"},
         jobs' = [jobs EXCEPT ![j].effect = e], Link!Answer(j) \/ UNCHANGED agent,
         UNCHANGED <<manifest, runtime, route, order>>
  PROVE  Calm /\ DOMAIN jobs' = DOMAIN jobs /\ jobs'[j].effect = e
         /\ \A i \in DOMAIN jobs : /\ i # j => jobs'[i] = jobs[i]
                                 /\ SameJob(jobs[i], jobs'[i]) /\ jobs'[i].status = jobs[i].status
<1>1. agent' \in [Roles -> BackhaulAgent] /\ \A n \in Roles : AgentCalm(agent[n], agent'[n])
  BY AnswerCalm DEF JobInv, AgentsFit, AgentCalm
<1>2. PICK y : y = [jobs[j] EXCEPT !.effect = e]
  OBVIOUS
<1>3. jobs[j] \in BackhaulJob
  BY EachJob DEF JobInv
<1>4. y \in BackhaulJob /\ SameJob(jobs[j], y) /\ y.status = jobs[j].status /\ y.effect = e
  BY <1>2, <1>3 DEF BackhaulJob, SameJob
<1>5. jobs' = [jobs EXCEPT ![j] = y]
  BY <1>2
<1>6. Calm /\ DOMAIN jobs' = DOMAIN jobs /\ jobs'[j] = y /\ \A i \in DOMAIN jobs : i # j => jobs'[i] = jobs[i]
  BY <1>1, <1>4, <1>5, RowCalm DEF StatusMoves, Owes
<1> QED  BY <1>4, <1>6 DEF SameJob

-----------------------------------------------------------------------------
(***************************************************************************)
(* The calls and what they owe.                                            *)
(***************************************************************************)
OtherSteps == {"refresh", "build", "insert", "activate", "promote"}
CallSteps ==
  {<<k, t, n>> : k \in SideTypes, t \in Profiles, n \in Roles}
    \cup {<<k, s>> : k \in {"link", "transports"}, s \in {"pending_apply", "disabled"}}
    \cup {<<k>> : k \in OtherSteps}

Operations == {"idle", "apply", "delete", "probe", "enable", "disable", "promote"}

LinkStatuses == {"planned", "pending_apply", "active", "materialized", "failed", "disabled", "deleted"}

\* The order of the steps: applies and cleanups come before the link's status,
\* which follows every cleanup; a refresh follows an activation and a promotion.
CallShape(s) ==
  /\ \A m \in DOMAIN s : s[m][1] = "link" => \A k \in 1..(m - 1) : s[k][1] \in {"apply", "cleanup"}
  /\ \A k \in DOMAIN s : s[k][1] = "cleanup" =>
       /\ \E m \in DOMAIN s : k < m /\ s[m][1] = "link"
       /\ \A m \in DOMAIN s : s[m][1] \in {"cleanup", "link", "transports"}
  /\ \A k \in DOMAIN s : s[k][1] \in {"activate", "promote"} => k + 1 \in DOMAIN s /\ s[k + 1][1] = "refresh"

CallFits ==
  /\ call \in [op : Operations, todo : Seq(CallSteps), target : Via]
  /\ call.todo = <<>> <=> call = Link!Idle
  /\ CallShape(call.todo)
  /\ \A k \in DOMAIN call.todo : call.todo[k][1] = "promote" => call.target \in Profiles

LinkFits ==
  /\ link \in [status : LinkStatuses, selected : Profiles, batch : Nat]
  /\ transport \in [Profiles -> [status : LinkStatuses \ {"deleted"}, applied : SUBSET Roles, health : SUBSET Roles]]
  /\ order \in Seq(Profiles) /\ order # <<>> /\ astray \in BOOLEAN

\* A payload that is built for a call is what the call has left to insert.
RefreshFits ==
  /\ refresh \subseteq [owner : {"call", "result"}, job : Nat, via : Via]
  /\ \A r \in refresh : r.owner = "call" =>
       /\ call.todo # <<>> /\ call.todo[1][1] = "insert" /\ Len(call.todo) = 1
       /\ \A q \in refresh : q.owner = "call" => q = r

CallInv == CallFits /\ LinkFits /\ RefreshFits

\* What a step of a call may be.
LEMMA EachStep ==
  ASSUME NEW s \in CallSteps
  PROVE  \/ s[1] \in SideTypes /\ s[2] \in Profiles /\ s[3] \in Roles /\ s = <<s[1], s[2], s[3]>>
         \/ s[1] \in {"link", "transports"} /\ s[2] \in {"pending_apply", "disabled"}
         \/ s[1] \in OtherSteps
BY DEF CallSteps

\* What is left of a call once its first step is done.
LEMMA RestOfCall ==
  ASSUME NEW X, NEW s \in Seq(X), s # <<>>, CallShape(s)
  PROVE  /\ Tail(s) \in Seq(X) /\ CallShape(Tail(s))
         /\ \A k \in DOMAIN Tail(s) : k + 1 \in DOMAIN s /\ Tail(s)[k] = s[k + 1]
         /\ \A k \in DOMAIN s : k > 1 => k - 1 \in DOMAIN Tail(s) /\ Tail(s)[k - 1] = s[k]
         /\ Tail(s) = <<>> <=> Len(s) = 1
<1>1. PICK t : t = Tail(s)  OBVIOUS
<1>2. t \in Seq(X) /\ Len(t) = Len(s) - 1 /\ Len(s) \in Nat /\ Len(t) \in Nat
  BY <1>1
<1>3. \A k \in 1..(Len(s) - 1) : t[k] = s[k + 1]
  BY <1>1
<1>4. DOMAIN s = 1..Len(s) /\ DOMAIN t = 1..(Len(s) - 1)
  BY <1>2
<1>5. \A k \in DOMAIN t : k + 1 \in DOMAIN s /\ t[k] = s[k + 1]
  BY <1>2, <1>3, <1>4
<1>6. \A k \in DOMAIN s : k > 1 => k - 1 \in DOMAIN t /\ t[k - 1] = s[k]
  <2> SUFFICES ASSUME NEW k \in DOMAIN s, k > 1  PROVE k - 1 \in DOMAIN t /\ t[k - 1] = s[k]
    OBVIOUS
  <2>1. k - 1 \in 1..(Len(s) - 1) /\ (k - 1) + 1 = k
    BY <1>2, <1>4
  <2> QED  BY <2>1, <1>3, <1>4
<1>7. CallShape(t)
  <2>1. ASSUME NEW m \in DOMAIN t, t[m][1] = "link", NEW k \in 1..(m - 1)  PROVE t[k][1] \in {"apply", "cleanup"}
    <3>1. m + 1 \in DOMAIN s /\ s[m + 1][1] = "link" /\ k + 1 \in 1..((m + 1) - 1) /\ k \in DOMAIN t
      BY <2>1, <1>2, <1>4, <1>5
    <3> QED  BY <3>1, <1>5 DEF CallShape
  <2>2. ASSUME NEW k \in DOMAIN t, t[k][1] = "cleanup"
        PROVE  /\ \E m \in DOMAIN t : k < m /\ t[m][1] = "link"
               /\ \A m \in DOMAIN t : t[m][1] \in {"cleanup", "link", "transports"}
    <3>1. k + 1 \in DOMAIN s /\ s[k + 1][1] = "cleanup"
      BY <2>2, <1>5
    <3>2. PICK m \in DOMAIN s : k + 1 < m /\ s[m][1] = "link"
      BY <3>1 DEF CallShape
    <3>3. m > 1 /\ k < m - 1
      BY <3>2, <1>2, <1>4
    <3> QED  BY <3>1, <3>2, <3>3, <1>5, <1>6 DEF CallShape
  <2>3. ASSUME NEW k \in DOMAIN t, t[k][1] \in {"activate", "promote"}
        PROVE  k + 1 \in DOMAIN t /\ t[k + 1][1] = "refresh"
    <3>1. (k + 1) + 1 \in DOMAIN s /\ s[(k + 1) + 1][1] = "refresh"
      BY <2>3, <1>5 DEF CallShape
    <3>2. (k + 1) + 1 > 1 /\ ((k + 1) + 1) - 1 = k + 1
      BY <1>2, <1>4
    <3> QED  BY <3>1, <3>2, <1>6
  <2> QED  BY <2>1, <2>2, <2>3 DEF CallShape
<1>8. t = <<>> <=> Len(s) = 1
  BY <1>2
<1> QED  BY <1>1, <1>2, <1>5, <1>6, <1>7, <1>8

\* The jobs of every profile and node: each of them, and no others.
LEMMA PerSide ==
  ASSUME LinkFits, NEW kind \in SideTypes, NEW s, s = Link!perSide(kind)
  PROVE  /\ s \in Seq(CallSteps) /\ s # <<>>
         /\ \A k \in DOMAIN s : s[k][1] = kind
         /\ \A t \in Profiles, n \in Roles : \E k \in DOMAIN s : s[k] = <<kind, t, n>>
<1>1. order \in Seq(Profiles) /\ Len(order) \in Nat \ {0} /\ DOMAIN order = 1..Len(order)
  BY DEF LinkFits
<1>2. s = [k \in 1..(2 * Len(order)) |->
             <<kind, order[(k + 1) \div 2], IF k % 2 = 1 THEN "ingress" ELSE "egress">>]
  BY DEF Link!perSide
<1>3. \A k \in 1..(2 * Len(order)) : (k + 1) \div 2 \in 1..Len(order)
  BY <1>1
<1>4. \A k \in 1..(2 * Len(order)) : s[k] \in CallSteps /\ s[k][1] = kind
  BY <1>1, <1>2, <1>3 DEF CallSteps, Roles
<1>5. s \in Seq(CallSteps) /\ DOMAIN s = 1..(2 * Len(order)) /\ s # <<>>
  BY <1>1, <1>2, <1>4
<1>6. ASSUME NEW t \in Profiles, NEW n \in Roles  PROVE \E k \in DOMAIN s : s[k] = <<kind, t, n>>
  <2>1. PICK i \in 1..Len(order) : order[i] = t
    BY <1>1 DEF Profiles, Link!Profiles, Link!ToSet
  <2>2. CASE n = "ingress"
    <3>1. 2 * i - 1 \in 1..(2 * Len(order)) /\ ((2 * i - 1) + 1) \div 2 = i /\ (2 * i - 1) % 2 = 1
      BY <1>1
    <3> QED  BY <2>1, <2>2, <3>1, <1>2, <1>5
  <2>3. CASE n = "egress"
    <3>1. 2 * i \in 1..(2 * Len(order)) /\ (2 * i + 1) \div 2 = i /\ (2 * i) % 2 # 1
      BY <1>1
    <3> QED  BY <2>1, <2>3, <3>1, <1>2, <1>5
  <2> QED  BY <2>2, <2>3 DEF Roles
<1> QED  BY <1>4, <1>5, <1>6

\* A sequence and two more elements.
LEMMA TwoMore ==
  ASSUME NEW X, NEW p \in Seq(X), NEW a \in X, NEW b \in X, NEW s, s = p \o <<a, b>>
  PROVE  /\ s \in Seq(X) /\ Len(p) \in Nat /\ DOMAIN p = 1..Len(p) /\ DOMAIN s = 1..(Len(p) + 2)
         /\ \A k \in 1..Len(p) : s[k] = p[k]
         /\ s[Len(p) + 1] = a /\ s[Len(p) + 2] = b
OBVIOUS

\* Each profile and node has a step of the kind.
Covers(s, kind) == \A t \in Profiles, n \in Roles : \E k \in DOMAIN s : s[k] = <<kind, t, n>>

AllOf(s, kinds) == \A k \in DOMAIN s : s[k][1] \in kinds

\* The steps of an apply and of a deletion: p is a job for each, a and b the
\* statuses.
LEMMA SidesThen ==
  ASSUME NEW p \in Seq(CallSteps), NEW a \in CallSteps, NEW b \in CallSteps, a[1] = "link", b[1] = "transports",
         NEW kind \in {"apply", "cleanup"}, AllOf(p, {kind}), Covers(p, kind), NEW s, s = p \o <<a, b>>
  PROVE  /\ s \in Seq(CallSteps) /\ s # <<>> /\ CallShape(s)
         /\ AllOf(s, {kind, "link", "transports"})
         /\ Covers(s, kind)
<1>7. PICK l : l = Len(p)
  OBVIOUS
<1>8. /\ s \in Seq(CallSteps) /\ l \in Nat /\ DOMAIN p = 1..l /\ DOMAIN s = 1..(l + 2)
      /\ \A k \in 1..l : s[k] = p[k]
      /\ s[l + 1] = a /\ s[l + 2] = b
  <2>2. /\ s \in Seq(CallSteps) /\ Len(p) \in Nat /\ DOMAIN p = 1..Len(p) /\ DOMAIN s = 1..(Len(p) + 2)
        /\ \A k \in 1..Len(p) : s[k] = p[k]
        /\ s[Len(p) + 1] = a /\ s[Len(p) + 2] = b
    BY TwoMore
  <2> QED  BY <2>2, <1>7, Zenon
<1>9. l \in Nat /\ DOMAIN s = 1..(l + 2)
  BY <1>8, Zenon
<1>10. s # <<>>
  <2>1. 1 \in DOMAIN s
    BY <1>9
  <2> QED  BY <2>1
<1>11. \A k \in 1..(l + 2) : k \in 1..l \/ k = l + 1 \/ k = l + 2
  BY <1>9
<1>12. \A k \in 1..l : s[k][1] = kind
  BY <1>8 DEF AllOf
<1>13. s[l + 1][1] = "link" /\ s[l + 2][1] = "transports"
  BY <1>8, Zenon
<1>14. AllOf(s, {kind, "link", "transports"})
  BY <1>9, <1>11, <1>12, <1>13 DEF AllOf
<1>15. CallShape(s)
  <2>1. ASSUME NEW m \in DOMAIN s, s[m][1] = "link", NEW k \in 1..(m - 1)  PROVE s[k][1] \in {"apply", "cleanup"}
    <3>1. m = l + 1
      BY <2>1, <1>9, <1>11, <1>12, <1>13
    <3>2. k \in 1..l
      BY <3>1, <1>9
    <3> QED  BY <3>2, <1>12
  <2>2. ASSUME NEW k \in DOMAIN s, s[k][1] = "cleanup"
        PROVE  /\ \E m \in DOMAIN s : k < m /\ s[m][1] = "link"
               /\ \A m \in DOMAIN s : s[m][1] \in {"cleanup", "link", "transports"}
    <3>1. k \in 1..l
      BY <2>2, <1>9, <1>11, <1>13
    <3>2. l + 1 \in DOMAIN s /\ k < l + 1
      BY <3>1, <1>9
    <3>3. kind = "cleanup"
      BY <2>2, <3>1, <1>12
    <3> QED  BY <3>2, <3>3, <1>13, <1>14 DEF AllOf
  <2>3. \A k \in DOMAIN s : s[k][1] \notin {"activate", "promote"}
    BY <1>14 DEF AllOf
  <2> QED  BY <2>1, <2>2, <2>3 DEF CallShape
<1>16. Covers(s, kind)
  <2> SUFFICES ASSUME NEW t \in Profiles, NEW n \in Roles  PROVE \E k \in DOMAIN s : s[k] = <<kind, t, n>>
    BY Zenon DEF Covers
  <2>1. PICK k \in DOMAIN p : p[k] = <<kind, t, n>>
    BY Zenon DEF Covers
  <2>2. k \in 1..l
    BY <1>8, Zenon
  <2>3. k \in DOMAIN s
    BY <2>2, <1>9
  <2> QED  BY <2>1, <2>2, <2>3, <1>8, Zenon
<1> QED  BY <1>8, <1>10, <1>14, <1>15, <1>16, Zenon

\* The jobs of every side, then the statuses: the shape of a bulk call.
LEMMA SidesThenStatuses ==
  ASSUME LinkFits, NEW kind \in {"apply", "cleanup"}, NEW x \in {"pending_apply", "disabled"}, NEW s,
         s = Link!perSide(kind) \o << <<"link", x>>, <<"transports", x>> >>
  PROVE  /\ s \in Seq(CallSteps) /\ s # <<>> /\ CallShape(s)
         /\ AllOf(s, {kind, "link", "transports"})
         /\ Covers(s, kind)
<1>1. PICK p : p = Link!perSide(kind)
  OBVIOUS
<1>2. p \in Seq(CallSteps) /\ AllOf(p, {kind}) /\ Covers(p, kind)
  BY <1>1, PerSide DEF SideTypes, Covers, AllOf
<1>3. PICK a : a = <<"link", x>>
  OBVIOUS
<1>4. PICK b : b = <<"transports", x>>
  OBVIOUS
<1>5. a \in CallSteps /\ b \in CallSteps /\ a[1] = "link" /\ b[1] = "transports"
  BY <1>3, <1>4 DEF CallSteps
<1>6. s = p \o <<a, b>>
  BY <1>1, <1>3, <1>4
<1> QED  BY <1>2, <1>5, <1>6, SidesThen, Zenon

-----------------------------------------------------------------------------
(***************************************************************************)
(* What the calls and the results owe: a cleanup of every profile and node *)
(* for each batch, and a refresh of the routes after every change of the   *)
(* selected transport.                                                     *)
(***************************************************************************)
CleansSide(j, b, t, n) ==
  IsCleanup(j) /\ jobs[j].payload = [t |-> t, batch |-> b] /\ jobs[j].node = n

ToClean(t, n) == \E k \in DOMAIN call.todo : call.todo[k] = <<"cleanup", t, n>>

StepLeft(kind) == \E k \in DOMAIN call.todo : call.todo[k][1] = kind

\* Each profile and each node has a job of the batch, or the call is to make it.
Batches ==
  /\ \A j \in DOMAIN jobs : IsCleanup(j) => jobs[j].payload.batch \in 1..link.batch
  /\ StepLeft("cleanup") => link.batch > 0
  /\ ~astray =>
     \A b \in 1..link.batch, t \in Profiles, n \in Roles :
       (\E j \in DOMAIN jobs : CleansSide(j, b, t, n)) \/ (b = link.batch /\ ToClean(t, n))

BatchDone(b) ==
  \A t \in Profiles, n \in Roles : \E j \in DOMAIN jobs : CleansSide(j, b, t, n) /\ jobs[j].status = "succeeded"

\* A link is deleted by a batch, unless the call still sets its status.
DeletedByBatch ==
  ~astray /\ link.status = "deleted" => (\E b \in Nat : BatchDone(b)) \/ StepLeft("link")

Selected == Link!listRoutePolicyBackhauls

\* A refresh is to come: of the call, or of a result.
CallRefreshDue == call.todo # <<>> /\ call.todo[1][1] \in {"refresh", "build", "insert"}
ResultRefreshDue == \E j \in DOMAIN jobs : jobs[j].effect = "refresh"
RefreshDue == CallRefreshDue \/ ResultRefreshDue

LastRouteIs(t) == \E j \in DOMAIN jobs : LastRoute(j) /\ jobs[j].payload.t = t

RouteOwed == RoutesWell /\ ~astray /\ Selected # "none" => RefreshDue \/ LastRouteIs(Selected)

OwesInv == Batches /\ DeletedByBatch /\ RouteOwed

BackhaulInv == JobInv /\ CallInv /\ OwesInv

\* What every step does to the jobs there are.
JobsMove ==
  /\ DOMAIN jobs \subseteq DOMAIN jobs'
  /\ \A i \in DOMAIN jobs, j \in DOMAIN jobs' \ DOMAIN jobs : i < j
  /\ \A j \in DOMAIN jobs : SameJob(jobs[j], jobs'[j])
  /\ \A j \in DOMAIN jobs : IsCleanup(j) /\ jobs[j].status = "succeeded" => jobs'[j].status = "succeeded"
  /\ RoutesWell' => RoutesWell

\* Calm steps do.
LEMMA CalmMoves ==
  ASSUME JobInv, Calm
  PROVE  JobsMove
<1>1. /\ DOMAIN jobs \subseteq DOMAIN jobs'
      /\ \A i \in DOMAIN jobs, j \in DOMAIN jobs' \ DOMAIN jobs : i < j
  BY JobsStay DEF JobInv, Calm
<1>2. RoutesWell' => RoutesWell
  BY <1>1 DEF Calm, RoutesWell, IsRoute, SameJob, StatusMoves
<1> QED  BY <1>1, <1>2 DEF JobsMove, Calm, StatusMoves, IsCleanup

\* So does a step that only changes the status of jobs that have not ended.
LEMMA RowMoves ==
  ASSUME DOMAIN jobs' = DOMAIN jobs, \A j \in DOMAIN jobs : SameJob(jobs[j], jobs'[j]),
         \A j \in DOMAIN jobs : jobs'[j].status = jobs[j].status \/ jobs[j].status \in {"queued", "running"}
  PROVE  JobsMove
<1>1. RoutesWell' => RoutesWell
  BY DEF RoutesWell, IsRoute, SameJob
<1> QED  BY <1>1 DEF JobsMove, IsCleanup

\* The batches stay covered when the jobs of the steps that go are there.
LEMMA BatchesStep ==
  ASSUME Batches, JobsMove, UNCHANGED order, link'.batch = link.batch, astray => astray',
         \A j \in DOMAIN jobs' \ DOMAIN jobs : IsCleanup(j)' => jobs'[j].payload.batch \in 1..link.batch,
         StepLeft("cleanup")' => StepLeft("cleanup"),
         ~astray' => \A t \in Profiles, n \in Roles : ToClean(t, n) =>
                       ToClean(t, n)' \/ \E j \in DOMAIN jobs' : CleansSide(j, link.batch, t, n)'
  PROVE  Batches'
<1>0. Profiles' = Profiles
  BY DEF Profiles, Link!Profiles
<1>1. \A j \in DOMAIN jobs' : IsCleanup(j)' => jobs'[j].payload.batch \in 1..link.batch
  BY DEF JobsMove, SameJob, Batches, IsCleanup
<1>2. \A j \in DOMAIN jobs, b \in 1..link.batch, t \in Profiles, n \in Roles :
        CleansSide(j, b, t, n) => j \in DOMAIN jobs' /\ CleansSide(j, b, t, n)'
  BY DEF JobsMove, SameJob, CleansSide, IsCleanup
<1>3. ASSUME ~astray', NEW b \in 1..link.batch, NEW t \in Profiles, NEW n \in Roles
      PROVE  (\E j \in DOMAIN jobs' : CleansSide(j, b, t, n)') \/ (b = link.batch /\ ToClean(t, n)')
  <2>1. (\E j \in DOMAIN jobs : CleansSide(j, b, t, n)) \/ (b = link.batch /\ ToClean(t, n))
    BY <1>3 DEF Batches
  <2> QED  BY <2>1, <1>2, <1>3
<1> QED  BY <1>0, <1>1, <1>3 DEF Batches

\* A batch that is done stays so.
LEMMA DoneStays ==
  ASSUME JobsMove, UNCHANGED order, NEW b \in Nat, BatchDone(b)
  PROVE  BatchDone(b)'
<1>1. Profiles' = Profiles
  BY DEF Profiles, Link!Profiles
<1> QED  BY <1>1 DEF JobsMove, SameJob, BatchDone, CleansSide, IsCleanup

\* A link that was deleted stays explained while the call's status step stays.
LEMMA DeletedStep ==
  ASSUME DeletedByBatch, JobsMove, UNCHANGED order, astray => astray',
         ~astray' /\ link'.status = "deleted" => link.status = "deleted" /\ (StepLeft("link") => StepLeft("link")')
  PROVE  DeletedByBatch'
BY DoneStays DEF DeletedByBatch

\* What is owed to the routes stays owed, when nothing is routed anew.
LEMMA OwedStep ==
  ASSUME RouteOwed, JobsMove, astray => astray',
         \A j \in DOMAIN jobs' \ DOMAIN jobs : ~ IsRoute(j)',
         ~astray' => (Selected' \in {Selected, "none"} /\ (Selected' # "none" => (RefreshDue => RefreshDue')))
  PROVE  RouteOwed'
<1>1. \A t : LastRouteIs(t) => LastRouteIs(t)'
  BY DEF LastRouteIs, LastRoute, JobsMove, SameJob, IsRoute
<1> QED  BY <1>1 DEF RouteOwed, JobsMove

\* A result that is to refresh the routes is still to do so.
LEMMA ResultStillDue ==
  ASSUME DOMAIN jobs \subseteq DOMAIN jobs', \A j \in DOMAIN jobs : jobs[j].effect = "refresh" => jobs'[j].effect = "refresh"
  PROVE  ResultRefreshDue => ResultRefreshDue'
BY DEF ResultRefreshDue

-----------------------------------------------------------------------------
(***************************************************************************)
(* The steps that leave the calls alone.                                   *)
(***************************************************************************)
\* Where nothing but the jobs, the agents and the nodes changes, what is owed
\* stays; a route job is only added to replace one that was cancelled.
LEMMA JobStep ==
  ASSUME CallInv, OwesInv, JobsMove, UNCHANGED <<order, link, transport, call, refresh, astray>>,
         \A j \in DOMAIN jobs' \ DOMAIN jobs : IsCleanup(j)' => jobs'[j].payload.batch \in 1..link.batch,
         \A j \in DOMAIN jobs' \ DOMAIN jobs : IsRoute(j)' => ~ RoutesWell',
         \A j \in DOMAIN jobs : jobs[j].effect = "refresh" => jobs'[j].effect = "refresh"
  PROVE  CallInv' /\ OwesInv'
<1>1. CallInv'
  BY DEF CallInv, CallFits, LinkFits, RefreshFits, CallSteps, Via, Profiles, Link!Profiles, Link!Idle
<1>2. \A t, n : ToClean(t, n)' <=> ToClean(t, n)
  BY DEF ToClean
<1>3. \A k : StepLeft(k)' <=> StepLeft(k)
  BY DEF StepLeft
<1>4. Batches'
  <2>1. link'.batch = link.batch /\ (astray => astray') /\ UNCHANGED order
    OBVIOUS
  <2> QED  BY <1>2, <1>3, <2>1, BatchesStep DEF OwesInv
<1>5. DeletedByBatch'
  BY <1>3, DeletedStep DEF OwesInv
<1>6. RouteOwed'
  <2>1. CASE \E j \in DOMAIN jobs' \ DOMAIN jobs : IsRoute(j)'
    BY <2>1 DEF RouteOwed
  <2>2. CASE \A j \in DOMAIN jobs' \ DOMAIN jobs : ~ IsRoute(j)'
    <3>1. Selected' = Selected
      BY DEF Selected, Link!listRoutePolicyBackhauls
    <3>2. RefreshDue => RefreshDue'
      BY ResultStillDue DEF RefreshDue, CallRefreshDue, JobsMove
    <3> QED  BY <2>2, <3>1, <3>2, OwedStep DEF OwesInv
  <2> QED  BY <2>1, <2>2
<1> QED  BY <1>1, <1>4, <1>5, <1>6 DEF OwesInv

\* The step in particular where the jobs do not change either.
LEMMA AgentStep ==
  ASSUME BackhaulInv, JobInv', UNCHANGED <<jobs, order, link, transport, call, refresh, astray>>
  PROVE  BackhaulInv'
<1>1. JobsMove
  BY RowMoves DEF SameJob
<1>2. CallInv' /\ OwesInv'
  BY <1>1, JobStep DEF BackhaulInv
<1> QED  BY <1>2 DEF BackhaulInv

\* Where only the rows of jobs change.
LEMMA QueueRowStep ==
  ASSUME BackhaulInv, JobInv', JobsMove, DOMAIN jobs' = DOMAIN jobs,
         \A j \in DOMAIN jobs : jobs[j].effect = "refresh" => jobs'[j].effect = "refresh",
         UNCHANGED <<order, link, transport, call, refresh, astray>>
  PROVE  BackhaulInv'
<1>2. CallInv' /\ OwesInv'
  BY JobStep DEF BackhaulInv
<1> QED  BY <1>2 DEF BackhaulInv

\* An agent takes a job.
LEMMA NextJobKeeps ==
  ASSUME BackhaulInv, UNCHANGED order, NEW n \in Roles, NEW j \in DOMAIN jobs, Link!AgentNextJob(n, j)
  PROVE  BackhaulInv'
<1>1. /\ Link!Claimable(n, j) /\ Link!Claim(n, j, Link!handler(j))
      /\ UNCHANGED <<link, transport, call, refresh, astray, manifest, runtime, route>>
  BY DEF Link!AgentNextJob, Link!nodeVars
<1>2. JobInv'
  BY <1>1, ClaimKeeps DEF BackhaulInv
<1>3. jobs' = [jobs EXCEPT ![j].status = "running"] /\ jobs[j].status = "queued"
  BY <1>1 DEF Link!Claim, Link!Claimable
<1>4. /\ DOMAIN jobs' = DOMAIN jobs /\ \A i \in DOMAIN jobs : SameJob(jobs[i], jobs'[i])
      /\ \A i \in DOMAIN jobs : jobs'[i].status = jobs[i].status \/ jobs[i].status \in {"queued", "running"}
      /\ \A i \in DOMAIN jobs : jobs'[i].effect = jobs[i].effect
  <2>1. jobs[j] \in BackhaulJob
    BY EachJob DEF BackhaulInv, JobInv
  <2> QED  BY <1>3, <2>1 DEF SameJob, BackhaulJob
<1>5. JobsMove
  BY <1>4, RowMoves
<1> QED  BY <1>1, <1>2, <1>4, <1>5, QueueRowStep

\* It runs a command of the job's handler.
LEMMA CommandStep ==
  ASSUME BackhaulInv, UNCHANGED order, NEW n \in Roles, Link!AgentCommand(n)
  PROVE  BackhaulInv'
<1>1. JobInv'
  BY CommandKeeps DEF BackhaulInv
<1>2. UNCHANGED <<jobs, link, transport, call, refresh, astray>>
  BY DEF Link!AgentCommand
<1> QED  BY <1>1, <1>2, AgentStep

\* A command fails.
LEMMA CommandFailsKeeps ==
  ASSUME BackhaulInv, UNCHANGED order, NEW n \in Roles, Link!CommandFails(n)
  PROVE  BackhaulInv'
<1>0. JobInv /\ JobsFit /\ AgentsFit /\ NodesFit
  BY DEF BackhaulInv, JobInv
<1>1. UNCHANGED <<jobs, link, transport, call, refresh, astray, manifest, route>>
  BY DEF Link!CommandFails
<1>2. agent' = [agent EXCEPT ![n].result = "failed", ![n].todo = <<>>] /\ agent[n].job # 0
  BY DEF Link!CommandFails, Link!Finish, Link!Working, Link!NoJob
<1>3. agent' \in [Roles -> BackhaulAgent] /\ \A m \in Roles : AgentCalm(agent[m], agent'[m])
  <2>1. /\ agent' \in [Roles -> BackhaulAgent]
        /\ agent'[n].job = agent[n].job /\ agent'[n].todo = <<>> /\ agent'[n].result = "failed"
        /\ \A m \in Roles : m # n => agent'[m] = agent[m]
    <3>1. agent[n] \in BackhaulAgent /\ agent \in [Roles -> BackhaulAgent]
      BY <1>0 DEF AgentsFit
    <3>2. PICK a : a = [agent[n] EXCEPT !.result = "failed", !.todo = <<>>]
      OBVIOUS
    <3>3. a \in BackhaulAgent /\ a.job = agent[n].job /\ a.todo = <<>> /\ a.result = "failed"
      <4>1. /\ agent[n].job \in Nat /\ agent[n].warned \in BOOLEAN
            /\ agent[n] = [job |-> agent[n].job, todo |-> agent[n].todo, warned |-> agent[n].warned,
                           result |-> agent[n].result]
        BY <3>1 DEF BackhaulAgent
      <4>2. a = [job |-> agent[n].job, todo |-> <<>>, warned |-> agent[n].warned, result |-> "failed"]
        BY <3>2, <4>1
      <4>3. <<>> \in Seq(Commands)
        OBVIOUS
      <4> QED  BY <4>1, <4>2, <4>3 DEF BackhaulAgent
    <3>4. agent' = [agent EXCEPT ![n] = a]
      BY <1>2, <3>1, <3>2
    <3> QED  BY <3>1, <3>3, <3>4
  <2> QED  BY <1>2, <2>1 DEF AgentCalm
<1>4. PICK t : t = jobs[agent[n].job].payload.t
  OBVIOUS
<1>5. runtime' = [runtime EXCEPT ![n] = @ \ {t}] \/ runtime' = runtime
  BY <1>4 DEF Link!CommandFails
<1>6. runtime' \in [Roles -> SUBSET Profiles] /\ \A m \in Roles : runtime'[m] \subseteq runtime[m]
  BY <1>0, <1>5 DEF NodesFit
<1>7. JobsFit'
  BY <1>0, <1>1 DEF JobsFit, JobFits, BackhaulJob, Via, Profiles, Link!Profiles
<1>8. Len(jobs) <= Len(jobs') /\ \A j \in DOMAIN jobs : SameJob(jobs[j], jobs'[j]) /\ StatusMoves(jobs[j], jobs'[j])
  BY <1>0, <1>1 DEF JobsFit, SameJob, StatusMoves
<1>9. Calm
  BY <1>1, <1>3, <1>6, <1>7, <1>8 DEF Calm
<1>10. JobInv'
  BY <1>0, <1>9, CalmKeeps
<1> QED  BY <1>1, <1>10, AgentStep

\* The agent leaves its job.
LEMMA AgentLeaves ==
  ASSUME BackhaulInv, NEW n \in Roles, agent' = [agent EXCEPT ![n] = Link!AgentIdle],
         UNCHANGED <<jobs, order, link, transport, call, refresh, astray, manifest, runtime, route>>
  PROVE  BackhaulInv'
<1>0. JobInv /\ JobsFit /\ AgentsFit /\ NodesFit
  BY DEF BackhaulInv, JobInv
<1>1. agent' \in [Roles -> BackhaulAgent] /\ \A m \in Roles : AgentCalm(agent[m], agent'[m])
  BY <1>0, AtEase DEF AgentsFit, AgentCalm
<1>2. JobsFit'
  BY <1>0 DEF JobsFit, JobFits, BackhaulJob, Via, Profiles, Link!Profiles
<1>3. Len(jobs) <= Len(jobs') /\ \A j \in DOMAIN jobs : SameJob(jobs[j], jobs'[j]) /\ StatusMoves(jobs[j], jobs'[j])
  BY <1>0 DEF JobsFit, SameJob, StatusMoves
<1>4. Calm
  BY <1>0, <1>1, <1>2, <1>3 DEF Calm, NodesFit
<1>5. JobInv'
  BY <1>0, <1>4, CalmKeeps
<1> QED  BY <1>5, AgentStep

\* It delivers a result, or learns that it no longer has the job.
LEMMA ResultStep ==
  ASSUME BackhaulInv, NEW n \in Roles, Link!AgentJobResult(n),
         UNCHANGED <<order, link, transport, call, refresh, astray, manifest, runtime, route>>
  PROVE  BackhaulInv'
<1>0. JobInv /\ JobsFit /\ AgentsFit
  BY DEF BackhaulInv, JobInv
<1> PICK j : j = agent[n].job  OBVIOUS
<1>1. CASE jobs[j].status = "running"
  <2>1. /\ agent[n].result \in {"succeeded", "failed"}
        /\ jobs' = [jobs EXCEPT ![j].status = agent[n].result, ![j].effect = "pending"]
        /\ agent' = [agent EXCEPT ![n].result = "sent"]
    BY <1>1 DEF Link!AgentJobResult
  <2>2. JobInv'
    BY <1>0, <1>1, <2>1, ResultKeeps
  <2>3. j \in DOMAIN jobs
    BY <1>0, <2>1 DEF AgentsFit
  <2>4. jobs[j] \in BackhaulJob /\ JobFits(jobs[j])
    BY <1>0, <2>3, EachJob
  <2>5. /\ DOMAIN jobs' = DOMAIN jobs /\ \A i \in DOMAIN jobs : SameJob(jobs[i], jobs'[i])
        /\ \A i \in DOMAIN jobs : jobs'[i].status = jobs[i].status \/ jobs[i].status \in {"queued", "running"}
        /\ \A i \in DOMAIN jobs : jobs[i].effect = "refresh" => jobs'[i].effect = "refresh"
    <3>1. DOMAIN jobs' = DOMAIN jobs /\ \A i \in DOMAIN jobs : i # j => jobs'[i] = jobs[i]
      BY <2>1
    <3>2. SameJob(jobs[j], jobs'[j])
      BY <2>1, <2>3, <2>4 DEF SameJob, BackhaulJob
    <3>3. jobs[j].effect # "refresh"
      BY <2>4, <1>1 DEF JobFits, Owes
    <3> QED  BY <1>1, <3>1, <3>2, <3>3 DEF SameJob
  <2>6. JobsMove
    BY <2>5, RowMoves
  <2> QED  BY <2>2, <2>5, <2>6, QueueRowStep
<1>2. CASE jobs[j].status # "running"
  <2>1. agent' = [agent EXCEPT ![n] = Link!AgentIdle] /\ UNCHANGED jobs
    BY <1>2 DEF Link!AgentJobResult
  <2> QED  BY <2>1, AgentLeaves
<1> QED  BY <1>1, <1>2

\* The status of one job changes, with no side effect to come.
LEMMA StatusStep ==
  ASSUME BackhaulInv, NEW j \in DOMAIN jobs, NEW s \in {"queued", "cancelled"},
         jobs[j].status = "running" \/ (jobs[j].status = "queued" /\ s = "cancelled"),
         jobs' = [jobs EXCEPT ![j].status = s],
         UNCHANGED <<agent, order, link, transport, call, refresh, astray, manifest, runtime, route>>
  PROVE  BackhaulInv'
<1>0. JobInv
  BY DEF BackhaulInv
<1>1. jobs[j] \in BackhaulJob /\ JobFits(jobs[j])
  BY <1>0, EachJob DEF JobInv
<1>2. PICK y : y = [jobs[j] EXCEPT !.status = s]
  OBVIOUS
<1>3. /\ y \in BackhaulJob /\ SameJob(jobs[j], y) /\ StatusMoves(jobs[j], y) /\ y.effect = jobs[j].effect
  BY <1>1, <1>2 DEF BackhaulJob, SameJob, StatusMoves
<1>4. Owes(y)
  BY <1>1, <1>3 DEF JobFits, Owes
<1>5. agent' \in [Roles -> BackhaulAgent] /\ \A n \in Roles : AgentCalm(agent[n], agent'[n])
  BY <1>0 DEF JobInv, AgentsFit, AgentCalm
<1>6. jobs' = [jobs EXCEPT ![j] = y]
  BY <1>2
<1>7. Calm /\ DOMAIN jobs' = DOMAIN jobs /\ jobs'[j] = y /\ \A i \in DOMAIN jobs : i # j => jobs'[i] = jobs[i]
  BY <1>0, <1>3, <1>4, <1>5, <1>6, RowCalm
<1>8. JobInv' /\ JobsMove
  BY <1>0, <1>7, CalmKeeps, CalmMoves
<1> QED  BY <1>3, <1>7, <1>8, QueueRowStep

\* The side effects of a job are over, with no trace but on the job.
LEMMA EffectStep ==
  ASSUME BackhaulInv, NEW j \in DOMAIN jobs, jobs[j].effect = "pending", NEW e \in {"lost", "applied"},
         jobs' = [jobs EXCEPT ![j].effect = e], Link!Answer(j),
         UNCHANGED <<order, link, transport, call, refresh, astray, manifest, runtime, route>>
  PROVE  BackhaulInv'
<1>0. JobInv
  BY DEF BackhaulInv
<1>1. Calm /\ DOMAIN jobs' = DOMAIN jobs /\ \A i \in DOMAIN jobs : i # j => jobs'[i] = jobs[i]
  BY <1>0, EffectCalm
<1>2. JobInv' /\ JobsMove
  BY <1>0, <1>1, CalmKeeps, CalmMoves
<1> QED  BY <1>1, <1>2, QueueRowStep

\* A stuck job is cancelled and a copy of it queued.
LEMMA RequeueKeeps ==
  ASSUME BackhaulInv, Link!RequeueNodeStuckJob,
         UNCHANGED <<order, link, transport, call, refresh, astray, manifest, runtime, route>>
  PROVE  BackhaulInv'
<1>0. JobInv /\ JobsFit
  BY DEF BackhaulInv, JobInv
<1>1. PICK j \in DOMAIN jobs :
        /\ jobs[j].status = "running"
        /\ jobs' = Append([jobs EXCEPT ![j].status = "cancelled"],
                          Link!newJob(jobs[j].type, jobs[j].node, jobs[j].scope, jobs[j].payload, jobs[j].priority))
        /\ UNCHANGED agent
  BY DEF Link!RequeueNodeStuckJob, Link!Job
<1>2. PICK x : x = Link!newJob(jobs[j].type, jobs[j].node, jobs[j].scope, jobs[j].payload, jobs[j].priority)
  OBVIOUS
<1>3. jobs[j] \in BackhaulJob /\ JobFits(jobs[j])
  BY <1>0, EachJob
<1>4. /\ x \in BackhaulJob /\ SameJob(jobs[j], x) /\ x.status = "queued" /\ x.effect = "none"
  BY <1>2, <1>3 DEF BackhaulJob, SameJob, Link!newJob
<1>5. JobFits(x)
  BY <1>3, <1>4 DEF JobFits, SameJob, Owes
<1>6. PICK y : y = [jobs[j] EXCEPT !.status = "cancelled"]
  OBVIOUS
<1>7. /\ y \in BackhaulJob /\ SameJob(jobs[j], y) /\ StatusMoves(jobs[j], y) /\ y.effect = jobs[j].effect
      /\ y.status = "cancelled"
  BY <1>1, <1>3, <1>6 DEF BackhaulJob, SameJob, StatusMoves
<1>8. Owes(y)
  BY <1>1, <1>3, <1>7 DEF JobFits, Owes
<1>9. PICK ks : ks = [jobs EXCEPT ![j] = y]
  OBVIOUS
<1>10. /\ ks \in Seq(BackhaulJob) /\ Len(ks) = Len(jobs) /\ Len(jobs) \in Nat
       /\ ks[j] = y /\ \A i \in DOMAIN jobs : i # j => ks[i] = jobs[i]
       /\ DOMAIN jobs = 1..Len(jobs)
  BY <1>0, <1>7, <1>9 DEF JobsFit
<1>11. PICK js : js = Append(ks, x)
  OBVIOUS
<1>12. /\ js \in Seq(BackhaulJob) /\ Len(js) = Len(jobs) + 1 /\ js[Len(jobs) + 1] = x
       /\ \A i \in DOMAIN jobs : js[i] = ks[i]
       /\ DOMAIN js = 1..(Len(jobs) + 1)
  BY <1>4, <1>10, <1>11
<1>13. jobs' = js
  BY <1>1, <1>2, <1>6, <1>9, <1>11
<1>14. \A i \in DOMAIN jobs : SameJob(jobs[i], js[i]) /\ StatusMoves(jobs[i], js[i]) /\ Owes(js[i])
  <2>1. ASSUME NEW i \in DOMAIN jobs, i # j
        PROVE  SameJob(jobs[i], js[i]) /\ StatusMoves(jobs[i], js[i]) /\ Owes(js[i])
    <3>1. js[i] = jobs[i]
      BY <2>1, <1>10, <1>12
    <3> QED  BY <3>1, <1>0, EachJob DEF SameJob, StatusMoves, JobFits
  <2>2. js[j] = y
    BY <1>10, <1>12
  <2> QED  BY <2>1, <2>2, <1>7, <1>8
<1>15. agent' \in [Roles -> BackhaulAgent] /\ \A n \in Roles : AgentCalm(agent[n], agent'[n])
  BY <1>0, <1>1 DEF JobInv, AgentsFit, AgentCalm
<1>16. Calm
  BY <1>0, <1>4, <1>5, <1>12, <1>13, <1>14, <1>15, GrowthCalm
<1>17. JobInv' /\ JobsMove
  BY <1>0, <1>16, CalmKeeps, CalmMoves
<1>18. \A i \in DOMAIN jobs' \ DOMAIN jobs : i = Len(jobs) + 1 /\ jobs'[i] = x
  BY <1>10, <1>12, <1>13
<1>19. \A i \in DOMAIN jobs' \ DOMAIN jobs : IsCleanup(i)' => jobs'[i].payload.batch \in 1..link.batch
  BY <1>4, <1>18 DEF IsCleanup, SameJob, BackhaulInv, OwesInv, Batches
<1>20. \A i \in DOMAIN jobs' \ DOMAIN jobs : IsRoute(i)' => ~ RoutesWell'
  <2>1. j \in DOMAIN jobs' /\ jobs'[j].status = "cancelled" /\ jobs'[j].type = jobs[j].type
    BY <1>7, <1>10, <1>12, <1>13 DEF SameJob
  <2> QED  BY <2>1, <1>4, <1>18 DEF IsRoute, SameJob, RoutesWell
<1>21. \A i \in DOMAIN jobs : jobs[i].effect = "refresh" => jobs'[i].effect = "refresh"
  BY <1>7, <1>10, <1>12, <1>13
<1> QED  BY <1>17, <1>19, <1>20, <1>21, JobStep DEF BackhaulInv

\* The steps of the queue.
LEMMA QueueKeeps ==
  ASSUME BackhaulInv, UNCHANGED order, Link!QueueStep
  PROVE  BackhaulInv'
<1>0. JobInv /\ JobsFit
  BY DEF BackhaulInv, JobInv
<1>1. UNCHANGED <<link, transport, call, refresh, astray, manifest, runtime, route>>
  BY DEF Link!QueueStep, Link!nodeVars
<1>2. CASE \E n \in Roles : Link!AgentJobResult(n)
  BY <1>1, <1>2, ResultStep
<1>3. CASE Link!CompletionCrash
  <2>1. PICK j \in DOMAIN jobs : jobs[j].effect = "pending" /\ jobs' = [jobs EXCEPT ![j].effect = "lost"] /\ Link!Answer(j)
    BY <1>3 DEF Link!CompletionCrash, Link!Job, Link!EffectDue
  <2> QED  BY <1>1, <2>1, EffectStep
<1>4. CASE Link!LeaseLapse
  <2>1. PICK j \in DOMAIN jobs : jobs[j].status = "running" /\ jobs' = [jobs EXCEPT ![j].status = "queued"]
    BY <1>4 DEF Link!LeaseLapse, Link!Job
  <2>2. UNCHANGED agent
    BY <1>4 DEF Link!LeaseLapse
  <2> QED  BY <1>1, <2>1, <2>2, StatusStep
<1>5. CASE Link!AgentCrash
  <2>1. PICK n \in Roles : agent' = [agent EXCEPT ![n] = Link!AgentIdle]
    BY <1>5 DEF Link!AgentCrash, Roles
  <2>2. UNCHANGED jobs
    BY <1>5 DEF Link!AgentCrash
  <2> QED  BY <1>1, <2>1, <2>2, AgentLeaves
<1>6. CASE Link!CancelJob
  <2>1. PICK j \in DOMAIN jobs : jobs[j].status = "queued" /\ jobs' = [jobs EXCEPT ![j].status = "cancelled"]
    BY <1>6 DEF Link!CancelJob, Link!Job
  <2>2. UNCHANGED agent
    BY <1>6 DEF Link!CancelJob
  <2> QED  BY <1>1, <2>1, <2>2, StatusStep
<1>7. CASE Link!RequeueNodeStuckJob
  BY <1>1, <1>7, RequeueKeeps
<1> QED  BY <1>2, <1>3, <1>4, <1>5, <1>6, <1>7 DEF Link!QueueStep, Roles

\* A route policy job has no side effects.
LEMMA RouteJobDoneKeeps ==
  ASSUME BackhaulInv, UNCHANGED order, NEW j \in DOMAIN jobs, Link!RouteJobDone(j)
  PROVE  BackhaulInv'
<1>1. /\ jobs[j].effect = "pending" /\ jobs' = [jobs EXCEPT ![j].effect = "applied"] /\ Link!Answer(j)
      /\ UNCHANGED <<link, transport, call, refresh, astray, manifest, runtime, route>>
  BY DEF Link!RouteJobDone, Link!EffectDue, Link!EffectDone, Link!nodeVars
<1> QED  BY <1>1, EffectStep

-----------------------------------------------------------------------------
(***************************************************************************)
(* The side effects of a result on the link.                               *)
(***************************************************************************)
\* The link or a transport changes with the row of a job: it is not deleted
\* without a batch, and a transport that comes into use owes a refresh.
LEMMA LinkStep ==
  ASSUME BackhaulInv, JobInv', JobsMove, DOMAIN jobs' = DOMAIN jobs, UNCHANGED <<order, call, refresh>>,
         LinkFits', link'.batch = link.batch, astray => astray',
         \A j \in DOMAIN jobs : jobs[j].effect = "refresh" => jobs'[j].effect = "refresh",
         DeletedByBatch' \/ (~astray' /\ link'.status = "deleted" => link.status = "deleted"),
         ~astray' /\ Selected' # "none" => Selected' = Selected \/ ResultRefreshDue'
  PROVE  BackhaulInv'
<1>1. CallInv'
  BY DEF BackhaulInv, CallInv, CallFits, RefreshFits, CallSteps, Via, Profiles, Link!Profiles, Link!Idle
<1>2. \A t, n : ToClean(t, n)' <=> ToClean(t, n)
  BY DEF ToClean
<1>3. \A k : StepLeft(k)' <=> StepLeft(k)
  BY DEF StepLeft
<1>4. Batches'
  <2>1. \A j \in DOMAIN jobs' \ DOMAIN jobs : IsCleanup(j)' => jobs'[j].payload.batch \in 1..link.batch
    OBVIOUS
  <2>2. UNCHANGED order
    OBVIOUS
  <2> QED  BY <1>2, <1>3, <2>1, <2>2, BatchesStep DEF BackhaulInv, OwesInv
<1>5. DeletedByBatch'
  <2>1. UNCHANGED order
    OBVIOUS
  <2> QED  BY <1>3, <2>1, DeletedStep DEF BackhaulInv, OwesInv
<1>6. RouteOwed'
  <2>1. CASE ResultRefreshDue'
    BY <2>1 DEF RouteOwed, RefreshDue
  <2>2. CASE ~ ResultRefreshDue'
    <3>1. RefreshDue => RefreshDue'
      BY ResultStillDue DEF RefreshDue, CallRefreshDue
    <3>2. ~astray' => Selected' \in {Selected, "none"}
      BY <2>2
    <3> QED  BY <3>1, <3>2, OwedStep DEF BackhaulInv, OwesInv
  <2> QED  BY <2>1, <2>2
<1> QED  BY <1>1, <1>4, <1>5, <1>6 DEF BackhaulInv, OwesInv

\* A probe only writes the health of a transport.
LEMMA ProbeResultKeeps ==
  ASSUME BackhaulInv, UNCHANGED order, NEW j \in DOMAIN jobs, Link!ApplyBackhaulProbeResult(j)
  PROVE  BackhaulInv'
<1>0. JobInv /\ JobsFit /\ LinkFits
  BY DEF BackhaulInv, JobInv, CallInv
<1>1. /\ jobs[j].effect = "pending" /\ jobs' = [jobs EXCEPT ![j].effect = "applied"] /\ Link!Answer(j)
      /\ UNCHANGED <<link, call, refresh, astray, manifest, runtime, route>>
  BY DEF Link!ApplyBackhaulProbeResult, Link!EffectDue, Link!EffectDone, Link!nodeVars
<1>2. Calm /\ DOMAIN jobs' = DOMAIN jobs /\ \A i \in DOMAIN jobs : i # j => jobs'[i] = jobs[i]
  BY <1>0, <1>1, EffectCalm
<1>3. JobInv' /\ JobsMove
  BY <1>0, <1>2, CalmKeeps, CalmMoves
<1>4. PICK t : t = jobs[j].payload.t
  OBVIOUS
<1>5. PICK h : h = IF jobs[j].status = "succeeded" THEN transport[t].health \cup {jobs[j].node}
                   ELSE transport[t].health \ {jobs[j].node}
  OBVIOUS
<1>6. t \in Profiles /\ h \in SUBSET Roles
  <2>1. jobs[j].type = "probe"
    BY DEF Link!ApplyBackhaulProbeResult
  <2>2. t \in Profiles /\ jobs[j].node \in Roles
    BY <2>1, <1>0, <1>4, EachJob DEF JobFits
  <2> QED  BY <2>2, <1>0, <1>5 DEF LinkFits
<1>7. transport' = [transport EXCEPT ![t].health = h]
  BY <1>4, <1>5 DEF Link!ApplyBackhaulProbeResult
<1>8. /\ transport' \in [Profiles -> [status : LinkStatuses \ {"deleted"}, applied : SUBSET Roles, health : SUBSET Roles]]
      /\ \A p \in Profiles : transport'[p].status = transport[p].status
  BY <1>0, <1>6, <1>7 DEF LinkFits
<1>9. LinkFits'
  BY <1>0, <1>1, <1>8 DEF LinkFits, Profiles, Link!Profiles
<1>10. Selected' = Selected
  BY <1>0, <1>1, <1>8 DEF Selected, Link!listRoutePolicyBackhauls, LinkFits
<1>11. \A i \in DOMAIN jobs : jobs[i].effect = "refresh" => jobs'[i].effect = "refresh"
  BY <1>1, <1>2
<1> QED  BY <1>1, <1>2, <1>3, <1>9, <1>10, <1>11, LinkStep

\* When a batch has succeeded every profile and node has been cleaned, unless
\* the call still queues jobs of it, and then it has the link's status to set.
LEMMA CleanupResultKeeps ==
  ASSUME BackhaulInv, UNCHANGED order, NEW j \in DOMAIN jobs, Link!ApplyBackhaulCleanupResult(j)
  PROVE  BackhaulInv'
<1>0. JobInv /\ JobsFit /\ LinkFits /\ CallFits
  BY DEF BackhaulInv, JobInv, CallInv
<1>1. /\ jobs[j].effect = "pending" /\ jobs' = [jobs EXCEPT ![j].effect = "applied"] /\ Link!Answer(j)
      /\ UNCHANGED <<call, refresh, astray, manifest, runtime, route>>
      /\ jobs[j].type = "cleanup"
  BY DEF Link!ApplyBackhaulCleanupResult, Link!EffectDue, Link!EffectDone, Link!nodeVars
<1>2. Calm /\ DOMAIN jobs' = DOMAIN jobs /\ \A i \in DOMAIN jobs : i # j => jobs'[i] = jobs[i]
  BY <1>0, <1>1, EffectCalm
<1>3. JobInv' /\ JobsMove
  BY <1>0, <1>2, CalmKeeps, CalmMoves
<1>4. PICK t : t = jobs[j].payload.t
  OBVIOUS
<1>5. PICK b : b = jobs[j].payload.batch
  OBVIOUS
<1>6. t \in Profiles /\ b \in 1..link.batch
  BY <1>0, <1>1, <1>4, <1>5, EachJob DEF JobFits, BackhaulInv, OwesInv, Batches, IsCleanup
<1>7. PICK s \in {"disabled", "failed"} : transport' = [transport EXCEPT ![t].status = s]
  BY <1>4 DEF Link!ApplyBackhaulCleanupResult
<1>8. /\ transport' \in [Profiles -> [status : LinkStatuses \ {"deleted"}, applied : SUBSET Roles, health : SUBSET Roles]]
      /\ \A p \in Profiles : transport'[p].status = "active" => transport[p].status = "active"
  BY <1>0, <1>6, <1>7 DEF LinkFits, LinkStatuses
<1>9. PICK ls : /\ link' = [link EXCEPT !.status = ls]
                /\ ls \in {link.status, "failed"} \/ (ls = "deleted" /\ Link!batchSucceeded(b))
  BY <1>5 DEF Link!ApplyBackhaulCleanupResult
<1>10. /\ link' \in [status : LinkStatuses, selected : Profiles, batch : Nat]
       /\ link'.status = ls /\ link'.selected = link.selected /\ link'.batch = link.batch
  <2>1. ls \in LinkStatuses
    BY <1>0, <1>9 DEF LinkFits, LinkStatuses
  <2> QED  BY <1>0, <1>9, <2>1 DEF LinkFits
<1>11. LinkFits'
  BY <1>0, <1>1, <1>8, <1>10 DEF LinkFits, Profiles, Link!Profiles
<1>12. Selected' # "none" => Selected' = Selected
  <2>1. link.selected \in Profiles
    BY <1>0 DEF LinkFits
  <2>2. ls = "active" => link.status = "active"
    BY <1>9
  <2>3. link'.status = ls /\ link'.selected = link.selected
    BY <1>10
  <2>4. transport'[link.selected].status = "active" => transport[link.selected].status = "active"
    BY <2>1, <1>8
  <2> QED  BY <2>2, <2>3, <2>4 DEF Selected, Link!listRoutePolicyBackhauls, Link!None
<1>13. \A i \in DOMAIN jobs : jobs[i].effect = "refresh" => jobs'[i].effect = "refresh"
  BY <1>1, <1>2
<1>14. ASSUME ~astray, Link!batchSucceeded(b)  PROVE (\E c \in Nat : BatchDone(c)') \/ StepLeft("link")'
  <2>1. CASE \E k \in DOMAIN call.todo : call.todo[k][1] = "cleanup"
    BY <2>1, <1>0, <1>1 DEF CallFits, CallShape, StepLeft
  <2>2. CASE \A k \in DOMAIN call.todo : call.todo[k][1] # "cleanup"
    <3>1. ASSUME NEW p \in Profiles, NEW n \in Roles
          PROVE  \E i \in DOMAIN jobs : CleansSide(i, b, p, n) /\ jobs[i].status = "succeeded"
      <4>1. ~ ToClean(p, n)
        BY <2>2 DEF ToClean
      <4>2. PICK i \in DOMAIN jobs : CleansSide(i, b, p, n)
        BY <4>1, <1>6, <1>14 DEF BackhaulInv, OwesInv, Batches
      <4>3. jobs[i].type = "cleanup" /\ jobs[i].payload.batch = b
        BY <4>2 DEF CleansSide, IsCleanup
      <4>4. jobs[i].status = "succeeded"
        BY <4>3, <1>14 DEF Link!batchSucceeded, Link!batchOf, Link!Job
      <4> QED  BY <4>2, <4>4
    <3>2. BatchDone(b) /\ b \in Nat
      BY <3>1, <1>0, <1>6 DEF BatchDone, LinkFits
    <3> QED  BY <3>2, <1>3, DoneStays
  <2> QED  BY <2>1, <2>2
<1>15. DeletedByBatch' \/ (~astray' /\ link'.status = "deleted" => link.status = "deleted")
  BY <1>1, <1>9, <1>10, <1>14 DEF DeletedByBatch
<1> QED  BY <1>1, <1>2, <1>3, <1>10, <1>11, <1>12, <1>13, <1>15, LinkStep

\* What an apply's result writes: the transport's row, and the link's status,
\* which follows the selected transport; and what becomes of the job.
ApplyOutcome(j, t, ok, st) ==
  LET applied == transport[t].applied \cup {jobs[j].node}
      tr == [transport EXCEPT
               ![t].applied = IF ok THEN applied ELSE @,
               ![t].status = IF ~ok THEN "failed"
                             ELSE IF applied = Link!Role THEN Link!backhaulApplyCompleteStatus(t) ELSE @]
  IN  /\ transport' = tr /\ st = Link!refreshBackhaulLinkApplyStatus(tr)
      /\ link' = [link EXCEPT !.status = st]
      /\ astray' = (astray \/ (~ok /\ st = "active" /\ link.status # "active"))

\* The three ways the result of an apply job goes, apart from each other.
LEMMA ApplyResultDoes ==
  ASSUME NEW j, Link!ApplyBackhaulJobResult(j), NEW t, t = jobs[j].payload.t, NEW ok, ok = (jobs[j].status = "succeeded")
  PROVE  \E st :
           /\ ApplyOutcome(j, t, ok, st)
           /\ ok /\ st = "deleted" => Link!EffectRefused(j)
           /\ ok /\ st = "active" => jobs' = [jobs EXCEPT ![j].effect = "refresh"] /\ UNCHANGED agent
           /\ ~ (ok /\ st \in {"deleted", "active"}) => Link!EffectDone(j)
<1>1. PICK st :
        /\ ApplyOutcome(j, t, ok, st)
        /\ CASE ok /\ st = "deleted" -> Link!EffectRefused(j)
             [] ok /\ st = "active" -> jobs' = [jobs EXCEPT ![j].effect = "refresh"] /\ UNCHANGED agent
             [] OTHER -> Link!EffectDone(j)
  BY Zenon DEF Link!ApplyBackhaulJobResult, ApplyOutcome
<1>2. ok /\ st = "deleted" => ~ (ok /\ st = "active")
  OBVIOUS
<1>3. ok /\ st = "deleted" => Link!EffectRefused(j)
  BY <1>1, <1>2, Zenon
<1>4. ok /\ st = "active" => jobs' = [jobs EXCEPT ![j].effect = "refresh"] /\ UNCHANGED agent
  BY <1>1, <1>2, Zenon
<1>5. ~ (ok /\ st = "deleted") /\ ~ (ok /\ st = "active") => Link!EffectDone(j)
  BY <1>1, Zenon
<1> QED  BY <1>1, <1>3, <1>4, <1>5

\* The link then: never deleted anew, and a transport comes into use only when
\* the apply has succeeded, or astray.
LEMMA ApplyLink ==
  ASSUME LinkFits, UNCHANGED order, NEW j, NEW t \in Profiles, jobs[j].node \in Roles, NEW ok \in BOOLEAN, NEW st,
         ApplyOutcome(j, t, ok, st)
  PROVE  /\ LinkFits' /\ link'.batch = link.batch /\ (astray => astray')
         /\ link'.status = st /\ (st = "deleted" => link.status = "deleted")
         /\ ~astray' /\ Selected' # "none" => Selected' = Selected \/ (ok /\ st = "active")
<1>1. PICK applied : applied = transport[t].applied \cup {jobs[j].node}
  OBVIOUS
<1>2. PICK s : s = IF ~ok THEN "failed"
                   ELSE IF applied = Link!Role THEN Link!backhaulApplyCompleteStatus(t) ELSE transport[t].status
  OBVIOUS
<1>3. PICK tr : tr = [transport EXCEPT ![t].applied = IF ok THEN applied ELSE @, ![t].status = s]
  OBVIOUS
<1>4. /\ transport' = tr /\ st = Link!refreshBackhaulLinkApplyStatus(tr)
      /\ link' = [link EXCEPT !.status = st]
      /\ astray' = (astray \/ (~ok /\ st = "active" /\ link.status # "active"))
  <2>1. tr = [transport EXCEPT
                ![t].applied = IF ok THEN applied ELSE @,
                ![t].status = IF ~ok THEN "failed"
                              ELSE IF applied = Link!Role THEN Link!backhaulApplyCompleteStatus(t) ELSE @]
    BY <1>2, <1>3
  <2> QED  BY <2>1, <1>1 DEF ApplyOutcome
<1>5. transport[t] \in [status : LinkStatuses \ {"deleted"}, applied : SUBSET Roles, health : SUBSET Roles]
  BY DEF LinkFits
<1>6. applied \in SUBSET Roles
  BY <1>1, <1>5
<1>7. s \in LinkStatuses \ {"deleted"}
  BY <1>2, <1>5 DEF LinkStatuses, Link!backhaulApplyCompleteStatus
<1>8. PICK ap : ap = IF ok THEN applied ELSE transport[t].applied
  OBVIOUS
<1>9. ap \in SUBSET Roles
  BY <1>5, <1>6, <1>8
<1>10. PICK row : row = [transport[t] EXCEPT !.applied = ap, !.status = s]
  OBVIOUS
<1>11. row \in [status : LinkStatuses \ {"deleted"}, applied : SUBSET Roles, health : SUBSET Roles] /\ row.status = s
  BY <1>5, <1>7, <1>9, <1>10
<1>12. tr = [transport EXCEPT ![t] = row]
  BY <1>3, <1>8, <1>10 DEF LinkFits
<1>13. /\ tr \in [Profiles -> [status : LinkStatuses \ {"deleted"}, applied : SUBSET Roles, health : SUBSET Roles]]
       /\ tr[t].status = s /\ \A p \in Profiles : p # t => tr[p].status = transport[p].status
  BY <1>11, <1>12 DEF LinkFits
<1>14. link.selected \in Profiles /\ link.status \in LinkStatuses
  BY DEF LinkFits
<1>15. /\ st \in LinkStatuses
       /\ st = "deleted" => link.status = "deleted"
       /\ st = "active" => link.status = "active" \/ tr[link.selected].status = "active"
       /\ st = "active" /\ link.status = "active" => tr[link.selected].status \in {"active", "disabled"}
  <2>1. PICK z : z = tr[link.selected].status
    OBVIOUS
  <2>2. z \in LinkStatuses \ {"deleted"}
    BY <2>1, <1>13, <1>14
  <2>3. st = IF link.status \in {"deleted", "disabled"} \/ z = "disabled" THEN link.status
             ELSE IF z = "planned" THEN "pending_apply" ELSE z
    BY <2>1, <1>4 DEF Link!refreshBackhaulLinkApplyStatus
  <2> QED  BY <2>1, <2>2, <2>3, <1>14 DEF LinkStatuses
<1>16. /\ link' \in [status : LinkStatuses, selected : Profiles, batch : Nat]
       /\ link'.status = st /\ link'.selected = link.selected /\ link'.batch = link.batch
  BY <1>4, <1>15 DEF LinkFits
<1>17. astray' \in BOOLEAN /\ (astray => astray')
  BY <1>4 DEF LinkFits
<1>18. LinkFits'
  BY <1>4, <1>13, <1>16, <1>17 DEF LinkFits, Profiles, Link!Profiles
<1>19. ASSUME ~astray', Selected' # "none", ~ (ok /\ st = "active")  PROVE Selected' = Selected
  <2>1. st = "active" /\ tr[link.selected].status = "active" /\ Selected' = link.selected
    BY <1>4, <1>16, <1>19 DEF Selected, Link!listRoutePolicyBackhauls, Link!None
  <2>2. ~ok /\ link.status = "active"
    BY <2>1, <1>4, <1>19
  <2>3. s = "failed"
    BY <2>2, <1>2
  <2>4. link.selected # t
    BY <2>1, <2>3, <1>13
  <2>5. transport[link.selected].status = "active"
    BY <2>1, <2>4, <1>13, <1>14
  <2> QED  BY <2>1, <2>2, <2>5 DEF Selected, Link!listRoutePolicyBackhauls
<1> QED  BY <1>15, <1>16, <1>17, <1>18, <1>19

\* The job then: its side effect is over, refused, or a refresh is owed.
LEMMA ApplyJob ==
  ASSUME JobInv, UNCHANGED <<order, manifest, runtime, route>>, NEW j \in DOMAIN jobs,
         IsApply(j), jobs[j].effect = "pending", NEW due \in BOOLEAN,
         \/ due /\ jobs' = [jobs EXCEPT ![j].effect = "refresh"] /\ UNCHANGED agent
         \/ ~due /\ Link!EffectDone(j)
         \/ ~due /\ Link!EffectRefused(j)
  PROVE  /\ JobInv' /\ JobsMove /\ DOMAIN jobs' = DOMAIN jobs
         /\ \A i \in DOMAIN jobs : jobs[i].effect = "refresh" => jobs'[i].effect = "refresh"
         /\ due => ResultRefreshDue'
<1>0. jobs[j] \in BackhaulJob /\ JobFits(jobs[j])
  BY EachJob DEF JobInv
<1>1. CASE ~due /\ Link!EffectRefused(j)
  <2>1. jobs' = [jobs EXCEPT ![j].effect = "failed", ![j].status = "failed"] /\ Link!Answer(j)
    BY <1>1 DEF Link!EffectRefused
  <2>2. PICK y : y = [jobs[j] EXCEPT !.effect = "failed", !.status = "failed"]
    OBVIOUS
  <2>3. /\ y \in BackhaulJob /\ SameJob(jobs[j], y) /\ y.effect = "failed" /\ y.status = "failed"
    BY <1>0, <2>2 DEF BackhaulJob, SameJob
  <2>4. StatusMoves(jobs[j], y) /\ Owes(y)
    BY <2>3 DEF StatusMoves, Owes, IsApply
  <2>5. jobs' = [jobs EXCEPT ![j] = y]
    BY <2>1, <2>2
  <2>6. agent' \in [Roles -> BackhaulAgent] /\ \A n \in Roles : AgentCalm(agent[n], agent'[n])
    BY <2>1, AnswerCalm
  <2>7. Calm /\ DOMAIN jobs' = DOMAIN jobs /\ jobs'[j] = y /\ \A i \in DOMAIN jobs : i # j => jobs'[i] = jobs[i]
    BY <2>3, <2>4, <2>5, <2>6, RowCalm
  <2> QED  BY <1>1, <2>7, CalmKeeps, CalmMoves
<1>2. CASE ~due /\ Link!EffectDone(j)
  <2>1. jobs' = [jobs EXCEPT ![j].effect = "applied"] /\ Link!Answer(j)
    BY <1>2 DEF Link!EffectDone
  <2>2. Calm /\ DOMAIN jobs' = DOMAIN jobs /\ \A i \in DOMAIN jobs : i # j => jobs'[i] = jobs[i]
    BY <2>1, EffectCalm
  <2> QED  BY <1>2, <2>2, CalmKeeps, CalmMoves
<1>3. CASE due /\ jobs' = [jobs EXCEPT ![j].effect = "refresh"] /\ UNCHANGED agent
  <2>1. jobs[j].status \in {"succeeded", "failed"}
    BY <1>0 DEF JobFits, Owes
  <2>2. Calm /\ DOMAIN jobs' = DOMAIN jobs /\ jobs'[j].effect = "refresh" /\ \A i \in DOMAIN jobs : i # j => jobs'[i] = jobs[i]
    BY <1>3, <2>1, EffectCalm
  <2> QED  BY <2>2, CalmKeeps, CalmMoves DEF ResultRefreshDue
<1> QED  BY <1>1, <1>2, <1>3

\* The result of an apply job keeps the invariant.
LEMMA ApplyResultKeeps ==
  ASSUME BackhaulInv, UNCHANGED order, NEW j \in DOMAIN jobs, Link!ApplyBackhaulJobResult(j)
  PROVE  BackhaulInv'
<1>0. JobInv /\ JobsFit /\ LinkFits
  BY DEF BackhaulInv, JobInv, CallInv
<1>1. /\ jobs[j].effect = "pending" /\ jobs[j].type = "apply"
      /\ UNCHANGED <<call, refresh, manifest, runtime, route>>
  BY DEF Link!ApplyBackhaulJobResult, Link!EffectDue, Link!nodeVars
<1>2. PICK t : t = jobs[j].payload.t
  OBVIOUS
<1>3. PICK ok : ok = (jobs[j].status = "succeeded")
  OBVIOUS
<1>4. PICK st :
        /\ ApplyOutcome(j, t, ok, st)
        /\ ok /\ st = "deleted" => Link!EffectRefused(j)
        /\ ok /\ st = "active" => jobs' = [jobs EXCEPT ![j].effect = "refresh"] /\ UNCHANGED agent
        /\ ~ (ok /\ st \in {"deleted", "active"}) => Link!EffectDone(j)
  BY <1>2, <1>3, ApplyResultDoes
<1>5. t \in Profiles /\ jobs[j].node \in Roles /\ ok \in BOOLEAN
  BY <1>0, <1>1, <1>2, <1>3, EachJob DEF JobFits
<1>6. /\ LinkFits' /\ link'.batch = link.batch /\ (astray => astray')
      /\ link'.status = st /\ (st = "deleted" => link.status = "deleted")
      /\ ~astray' /\ Selected' # "none" => Selected' = Selected \/ (ok /\ st = "active")
  BY <1>0, <1>4, <1>5, ApplyLink
<1>7. PICK due : due = (ok /\ st = "active")
  OBVIOUS
<1>8. /\ due \in BOOLEAN
      /\ \/ due /\ jobs' = [jobs EXCEPT ![j].effect = "refresh"] /\ UNCHANGED agent
         \/ ~due /\ Link!EffectDone(j)
         \/ ~due /\ Link!EffectRefused(j)
  BY <1>4, <1>5, <1>7
<1>9. /\ JobInv' /\ JobsMove /\ DOMAIN jobs' = DOMAIN jobs
      /\ \A i \in DOMAIN jobs : jobs[i].effect = "refresh" => jobs'[i].effect = "refresh"
      /\ due => ResultRefreshDue'
  BY <1>0, <1>1, <1>8, ApplyJob DEF IsApply
<1> QED  BY <1>1, <1>6, <1>7, <1>9, LinkStep

-----------------------------------------------------------------------------
(***************************************************************************)
(* The steps of a call.                                                    *)
(***************************************************************************)
\* What a step of a call has to keep, when it leaves the jobs as they are.
LEMMA CallKeeps ==
  ASSUME BackhaulInv, UNCHANGED <<order, jobs, agent, manifest, runtime, route>>, CallInv',
         link'.batch = link.batch, astray => astray', StepLeft("cleanup")' => StepLeft("cleanup"),
         ~astray' => \A t \in Profiles, n \in Roles : ToClean(t, n) => ToClean(t, n)',
         ~astray' /\ link'.status = "deleted" => link.status = "deleted" /\ (StepLeft("link") => StepLeft("link")'),
         ~astray' /\ Selected' # "none" => CallRefreshDue' \/ (Selected' = Selected /\ ~CallRefreshDue)
  PROVE  BackhaulInv'
<1>1. JobInv' /\ JobsMove
  BY StillCalm, CalmKeeps, CalmMoves DEF BackhaulInv
<1>2. DOMAIN jobs' = DOMAIN jobs
  OBVIOUS
<1>3. Batches'
  <2>1. \A j \in DOMAIN jobs' \ DOMAIN jobs : IsCleanup(j)' => jobs'[j].payload.batch \in 1..link.batch
    BY <1>2
  <2>2. UNCHANGED order
    OBVIOUS
  <2> QED  BY <1>1, <2>1, <2>2, BatchesStep DEF BackhaulInv, OwesInv
<1>4. DeletedByBatch'
  <2>1. UNCHANGED order
    OBVIOUS
  <2> QED  BY <1>1, <2>1, DeletedStep DEF BackhaulInv, OwesInv
<1>5. RouteOwed'
  <2>1. CASE CallRefreshDue' \/ Selected' = "none" \/ astray'
    BY <2>1 DEF RouteOwed, RefreshDue
  <2>2. CASE ~ (CallRefreshDue' \/ Selected' = "none" \/ astray')
    <3>1. Selected' = Selected /\ ~CallRefreshDue
      BY <2>2
    <3>2. RefreshDue => RefreshDue'
      BY <3>1 DEF RefreshDue, ResultRefreshDue
    <3> QED  BY <1>1, <1>2, <3>1, <3>2, OwedStep DEF BackhaulInv, OwesInv
  <2> QED  BY <2>1, <2>2
<1> QED  BY <1>1, <1>3, <1>4, <1>5 DEF BackhaulInv, OwesInv

\* What is left of a call when its first step is done.
LEMMA DoneCall ==
  ASSUME CallFits, UNCHANGED order, call # Link!Idle, Link!Done
  PROVE  /\ CallFits' /\ call'.todo = Tail(call.todo)
         /\ call.todo \in Seq(CallSteps) /\ call.todo # <<>> /\ 1 \in DOMAIN call.todo
         /\ call.todo[1] \in CallSteps /\ Head(call.todo) = call.todo[1]
         /\ \A k \in DOMAIN call.todo : k > 1 => k - 1 \in DOMAIN call'.todo /\ call'.todo[k - 1] = call.todo[k]
         /\ \A k \in DOMAIN call'.todo : k + 1 \in DOMAIN call.todo /\ call'.todo[k] = call.todo[k + 1]
<1>1. /\ call.todo \in Seq(CallSteps) /\ call.todo # <<>> /\ CallShape(call.todo)
      /\ call \in [op : Operations, todo : Seq(CallSteps), target : Via]
  BY DEF CallFits
<1>2. PICK s : s = call.todo
  OBVIOUS
<1>3. PICK t : t = Tail(s)
  OBVIOUS
<1>4. /\ s \in Seq(CallSteps) /\ s # <<>> /\ CallShape(s)
  BY <1>1, <1>2
<1>5. /\ t \in Seq(CallSteps) /\ CallShape(t)
      /\ \A k \in DOMAIN t : k + 1 \in DOMAIN s /\ t[k] = s[k + 1]
      /\ \A k \in DOMAIN s : k > 1 => k - 1 \in DOMAIN t /\ t[k - 1] = s[k]
      /\ t = <<>> <=> Len(s) = 1
  BY <1>3, <1>4, RestOfCall
<1>6. 1 \in DOMAIN s /\ s[1] \in CallSteps /\ Head(s) = s[1]
  BY <1>4
<1>7. CallSteps' = CallSteps /\ Via' = Via /\ Profiles' = Profiles
  BY DEF CallSteps, Via, Profiles, Link!Profiles
<1>8. CASE Len(s) = 1
  <2>1. call' = Link!Idle
    BY <1>2, <1>8 DEF Link!Done
  <2>2. call'.op = "idle" /\ call'.todo = <<>> /\ call'.target = "none"
        /\ call' \in [op : Operations, todo : Seq(CallSteps), target : Via]
    BY <2>1 DEF Link!Idle, Link!None, Operations, Via
  <2>3. CallShape(<<>>)
    BY <1>5, <1>8
  <2>4. CallFits'
    BY <2>1, <2>2, <2>3, <1>7 DEF CallFits, Link!Idle, CallShape
  <2> QED  BY <1>2, <1>3, <1>4, <1>5, <1>6, <1>8, <2>2, <2>4
<1>9. CASE Len(s) # 1
  <2>1. call' = [call EXCEPT !.todo = t]
    BY <1>2, <1>3, <1>9 DEF Link!Done
  <2>2. /\ call' \in [op : Operations, todo : Seq(CallSteps), target : Via]
        /\ call'.todo = t /\ call'.target = call.target
    BY <2>1, <1>1, <1>5
  <2>3. t # <<>>
    BY <1>5, <1>9
  <2>4. call' # Link!Idle
    BY <2>2, <2>3 DEF Link!Idle
  <2>5. \A k \in DOMAIN t : t[k][1] = "promote" => call'.target \in Profiles
    BY <1>2, <1>5, <2>2 DEF CallFits
  <2>6. CallFits'
    BY <2>2, <2>3, <2>4, <2>5, <1>5, <1>7 DEF CallFits, CallShape, Link!Idle
  <2> QED  BY <1>2, <1>4, <1>5, <1>6, <2>2, <2>6
<1> QED  BY <1>8, <1>9

\* What the steps that are left say, once the first of them is done.
LEMMA FirstDone ==
  ASSUME CallFits, UNCHANGED order, call # Link!Idle, Link!Done
  PROVE  /\ \A kind : StepLeft(kind)' => StepLeft(kind)
         /\ \A kind : StepLeft(kind) => StepLeft(kind)' \/ call.todo[1][1] = kind
         /\ \A t, n : ToClean(t, n) => ToClean(t, n)' \/ call.todo[1] = <<"cleanup", t, n>>
<1> PICK s : s = call.todo  OBVIOUS
<1> PICK r : r = call'.todo  OBVIOUS
<1>1. /\ s \in Seq(CallSteps)
      /\ \A k \in DOMAIN s : k > 1 => k - 1 \in DOMAIN r /\ r[k - 1] = s[k]
      /\ \A k \in DOMAIN r : k + 1 \in DOMAIN s /\ r[k] = s[k + 1]
  BY DoneCall
<1>2. \A k \in DOMAIN s : k = 1 \/ k > 1
  BY <1>1
<1>3. \A kind : StepLeft(kind) <=> \E k \in DOMAIN s : s[k][1] = kind
  BY DEF StepLeft
<1>4. \A kind : StepLeft(kind)' <=> \E k \in DOMAIN r : r[k][1] = kind
  BY DEF StepLeft
<1>5. ASSUME NEW t, NEW n, ToClean(t, n)  PROVE ToClean(t, n)' \/ call.todo[1] = <<"cleanup", t, n>>
  <2>1. PICK e : e = <<"cleanup", t, n>>
    OBVIOUS
  <2>2. PICK k \in DOMAIN s : s[k] = e
    BY <2>1, <1>5, Zenon DEF ToClean
  <2>3. CASE k = 1
    BY <2>1, <2>2, <2>3
  <2>4. CASE k > 1
    <3>1. k - 1 \in DOMAIN r /\ r[k - 1] = e
      BY <2>2, <2>4, <1>1
    <3> QED  BY <2>1, <3>1, Zenon DEF ToClean
  <2> QED  BY <2>3, <2>4, <1>2
<1> QED  BY <1>1, <1>2, <1>3, <1>4, <1>5

\* A call that has ended has nothing left.
LEMMA CallOver ==
  ASSUME UNCHANGED order, call' = Link!Idle
  PROVE  /\ CallFits' /\ call'.todo = <<>> /\ ~ CallRefreshDue'
         /\ \A kind : ~ StepLeft(kind)'
         /\ \A t, n : ~ ToClean(t, n)'
<1>1. call'.op = "idle" /\ call'.todo = <<>> /\ call'.target = "none"
      /\ call' \in [op : Operations, todo : Seq(CallSteps), target : Via]
  BY DEF Link!Idle, Link!None, Operations, Via
<1>2. CallSteps' = CallSteps /\ Via' = Via /\ Profiles' = Profiles
  BY DEF CallSteps, Via, Profiles, Link!Profiles
<1>3. DOMAIN call'.todo = {}
  BY <1>1
<1>4. CallShape(call.todo)'
  BY <1>3 DEF CallShape
<1>5. CallFits'
  BY <1>1, <1>2, <1>3, <1>4 DEF CallFits, Link!Idle
<1> QED  BY <1>1, <1>3, <1>5 DEF CallRefreshDue, StepLeft, ToClean

\* No payload waits for a call that is not about to insert one.
LEMMA RefreshStays ==
  ASSUME RefreshFits, UNCHANGED <<order, refresh>>,
         call.todo = <<>> \/ call.todo[1][1] # "insert"
  PROVE  RefreshFits'
<1>1. \A r \in refresh : r.owner # "call"
  BY DEF RefreshFits
<1>2. Via' = Via
  BY DEF Via, Profiles, Link!Profiles
<1> QED  BY <1>1, <1>2 DEF RefreshFits

\* The link stays a link.
LEMMA LinkStays ==
  ASSUME LinkFits, UNCHANGED <<order, link, transport>>, astray' \in BOOLEAN
  PROVE  LinkFits' /\ Selected' = Selected /\ link'.batch = link.batch /\ link'.status = link.status
BY DEF LinkFits, Profiles, Link!Profiles, Selected, Link!listRoutePolicyBackhauls

\* An applied or removed link is pending or disabled: it is not routed by.
LEMMA SetLinkStatusKeeps ==
  ASSUME BackhaulInv, UNCHANGED order, Link!SetLinkStatus
  PROVE  BackhaulInv'
<1>0. CallFits /\ LinkFits /\ RefreshFits
  BY DEF BackhaulInv, CallInv
<1>1. /\ call # Link!Idle /\ Head(call.todo)[1] = "link" /\ Link!Done
      /\ link' = [link EXCEPT !.status = Head(call.todo)[2]]
      /\ UNCHANGED <<transport, refresh, astray, manifest, runtime, route, jobs, agent>>
  BY DEF Link!SetLinkStatus, Link!Doing, Link!nodeVars, Link!jobVars
<1>2. CallFits' /\ 1 \in DOMAIN call.todo /\ call.todo[1] \in CallSteps /\ Head(call.todo) = call.todo[1]
  BY <1>0, <1>1, DoneCall
<1>3. PICK s : s = call.todo[1]
  OBVIOUS
<1>4. s[1] = "link" /\ s \in CallSteps /\ link' = [link EXCEPT !.status = s[2]]
  BY <1>1, <1>2, <1>3
<1>5. s[2] \in {"pending_apply", "disabled"}
  BY <1>4, EachStep DEF SideTypes, OtherSteps
<1>6. /\ link' \in [status : LinkStatuses, selected : Profiles, batch : Nat]
      /\ link'.status \in {"pending_apply", "disabled"} /\ link'.batch = link.batch
  BY <1>0, <1>4, <1>5 DEF LinkFits, LinkStatuses
<1>7. LinkFits'
  BY <1>0, <1>1, <1>6 DEF LinkFits, Profiles, Link!Profiles
<1>8. RefreshFits'
  BY <1>0, <1>1, <1>3, <1>4, RefreshStays
<1>9. Selected' = "none"
  BY <1>6 DEF Selected, Link!listRoutePolicyBackhauls, Link!None
<1>10. /\ StepLeft("cleanup")' => StepLeft("cleanup")
       /\ \A t, n : ToClean(t, n) => ToClean(t, n)'
  <2>1. \A t, n : s # <<"cleanup", t, n>>
    BY <1>4
  <2> QED  BY <1>0, <1>1, <1>3, <2>1, FirstDone
<1> QED  BY <1>1, <1>2, <1>6, <1>7, <1>8, <1>9, <1>10, CallKeeps DEF CallInv

\* Nor is one whose transports are pending or disabled.
LEMMA SetTransportStatusesKeeps ==
  ASSUME BackhaulInv, UNCHANGED order, Link!SetTransportStatuses
  PROVE  BackhaulInv'
<1>0. CallFits /\ LinkFits /\ RefreshFits
  BY DEF BackhaulInv, CallInv
<1>1. /\ call # Link!Idle /\ Head(call.todo)[1] = "transports" /\ Link!Done
      /\ transport' = [t \in Profiles |-> [transport[t] EXCEPT !.status = Head(call.todo)[2]]]
      /\ UNCHANGED <<link, refresh, astray, manifest, runtime, route, jobs, agent>>
  BY DEF Link!SetTransportStatuses, Link!Doing, Link!nodeVars, Link!jobVars, Profiles
<1>2. CallFits' /\ 1 \in DOMAIN call.todo /\ call.todo[1] \in CallSteps /\ Head(call.todo) = call.todo[1]
  BY <1>0, <1>1, DoneCall
<1>3. PICK s : s = call.todo[1]
  OBVIOUS
<1>4. s[1] = "transports" /\ s \in CallSteps /\ transport' = [t \in Profiles |-> [transport[t] EXCEPT !.status = s[2]]]
  BY <1>1, <1>2, <1>3
<1>5. s[2] \in {"pending_apply", "disabled"}
  BY <1>4, EachStep DEF SideTypes, OtherSteps
<1>6. /\ transport' \in [Profiles -> [status : LinkStatuses \ {"deleted"}, applied : SUBSET Roles, health : SUBSET Roles]]
      /\ \A t \in Profiles : transport'[t].status \in {"pending_apply", "disabled"}
  BY <1>0, <1>4, <1>5 DEF LinkFits, LinkStatuses
<1>7. LinkFits'
  BY <1>0, <1>1, <1>6 DEF LinkFits, Profiles, Link!Profiles
<1>8. RefreshFits'
  BY <1>0, <1>1, <1>3, <1>4, RefreshStays
<1>9. Selected' = "none"
  BY <1>0, <1>1, <1>6 DEF Selected, Link!listRoutePolicyBackhauls, Link!None, LinkFits
<1>10. /\ StepLeft("cleanup")' => StepLeft("cleanup")
       /\ StepLeft("link") => StepLeft("link")'
       /\ \A t, n : ToClean(t, n) => ToClean(t, n)'
  <2>1. \A t, n : s # <<"cleanup", t, n>>
    BY <1>4
  <2>2. s[1] # "link"
    BY <1>4
  <2> QED  BY <1>0, <1>1, <1>3, <2>1, <2>2, FirstDone
<1> QED  BY <1>1, <1>2, <1>7, <1>8, <1>9, <1>10, CallKeeps DEF CallInv

\* A call that is at another step has no side job to queue and no status of the
\* link to set.
LEMMA NoSideSteps ==
  ASSUME CallFits, call.todo # <<>>, call.todo[1][1] \in OtherSteps
  PROVE  ~ StepLeft("link") /\ ~ StepLeft("cleanup") /\ \A t, n : ~ ToClean(t, n)
<1> PICK s : s = call.todo  OBVIOUS
<1>1. s \in Seq(CallSteps) /\ s # <<>> /\ CallShape(s) /\ s[1][1] \in OtherSteps
  BY DEF CallFits
<1>2. 1 \in DOMAIN s /\ \A k \in DOMAIN s : k = 1 \/ 1 \in 1..(k - 1)
  BY <1>1
<1>3. \A k \in DOMAIN s : s[k][1] # "cleanup"
  BY <1>1, <1>2 DEF CallShape, OtherSteps
<1>4. \A k \in DOMAIN s : s[k][1] # "link"
  BY <1>1, <1>2 DEF CallShape, OtherSteps
<1>5. \A t, n : ~ ToClean(t, n)
  <2> SUFFICES ASSUME NEW t, NEW n, ToClean(t, n)  PROVE FALSE
    OBVIOUS
  <2>1. PICK k \in DOMAIN s : s[k] = <<"cleanup", t, n>>
    BY Zenon DEF ToClean
  <2> QED  BY <2>1, <1>3
<1> QED  BY <1>3, <1>4, <1>5 DEF StepLeft

\* An activation and a promotion are followed by a refresh, or find the link
\* out of use.
LEMMA IntoUse ==
  ASSUME BackhaulInv, UNCHANGED <<order, transport, refresh, astray, manifest, runtime, route, jobs, agent>>,
         call # Link!Idle, Head(call.todo)[1] \in {"activate", "promote"}, NEW sel \in Profiles,
         \/ Link!Done /\ link' = [link EXCEPT !.status = "active", !.selected = sel]
         \/ call' = Link!Idle /\ UNCHANGED link /\ link.status # "active"
  PROVE  BackhaulInv'
<1>0. CallFits /\ LinkFits /\ RefreshFits
  BY DEF BackhaulInv, CallInv
<1> PICK s : s = call.todo  OBVIOUS
<1>1. s \in Seq(CallSteps) /\ s # <<>> /\ CallShape(s) /\ 1 \in DOMAIN s /\ s[1][1] \in {"activate", "promote"}
  <2>1. s \in Seq(CallSteps) /\ s # <<>> /\ CallShape(s)
    BY <1>0 DEF CallFits
  <2>2. 1 \in DOMAIN s /\ Head(s) = s[1]
    BY <2>1
  <2> QED  BY <2>1, <2>2
<1>2. ~ StepLeft("link") /\ ~ StepLeft("cleanup") /\ \A t, n : ~ ToClean(t, n)
  BY <1>0, <1>1, NoSideSteps DEF OtherSteps
<1>3. RefreshFits'
  BY <1>0, <1>1, RefreshStays
<1>4. CASE Link!Done /\ link' = [link EXCEPT !.status = "active", !.selected = sel]
  <2>1. CallFits' /\ ~ StepLeft("cleanup")'
    BY <1>0, <1>2, <1>4, DoneCall, FirstDone
  <2>2. /\ link' \in [status : LinkStatuses, selected : Profiles, batch : Nat]
        /\ link'.status = "active" /\ link'.batch = link.batch
    BY <1>0, <1>4 DEF LinkFits, LinkStatuses
  <2>3. LinkFits'
    BY <1>0, <2>2 DEF LinkFits, Profiles, Link!Profiles
  <2>4. CallRefreshDue'
    <3>1. 1 + 1 \in DOMAIN s /\ s[1 + 1][1] = "refresh"
      BY <1>1 DEF CallShape
    <3>2. 1 \in DOMAIN call'.todo /\ call'.todo[1] = s[1 + 1]
      <4>1. \A k \in DOMAIN s : k > 1 => k - 1 \in DOMAIN call'.todo /\ call'.todo[k - 1] = s[k]
        BY <1>0, <1>4, DoneCall
      <4>2. 1 + 1 > 1 /\ (1 + 1) - 1 = 1
        OBVIOUS
      <4> QED  BY <3>1, <4>1, <4>2
    <3>3. call'.todo # <<>>
      BY <3>2
    <3> QED  BY <3>1, <3>2, <3>3 DEF CallRefreshDue
  <2> QED  BY <1>2, <1>3, <2>1, <2>2, <2>3, <2>4, CallKeeps DEF CallInv
<1>5. CASE call' = Link!Idle /\ UNCHANGED link /\ link.status # "active"
  <2>1. CallFits' /\ ~ StepLeft("cleanup")'
    BY <1>5, CallOver
  <2>2. LinkFits' /\ link'.batch = link.batch /\ link'.status = link.status
    BY <1>0, <1>5, LinkStays DEF LinkFits
  <2>3. Selected' = "none"
    BY <1>5 DEF Selected, Link!listRoutePolicyBackhauls, Link!None
  <2> QED  BY <1>2, <1>3, <2>1, <2>2, <2>3, CallKeeps DEF CallInv
<1> QED  BY <1>4, <1>5

\* So does activating the link,
LEMMA ActivateLinkKeeps ==
  ASSUME BackhaulInv, UNCHANGED order, Link!ActivateLink
  PROVE  BackhaulInv'
<1>1. /\ call # Link!Idle /\ Head(call.todo)[1] = "activate"
      /\ UNCHANGED <<transport, refresh, astray, manifest, runtime, route, jobs, agent>>
      /\ \/ link' = [link EXCEPT !.status = "active"] /\ Link!Done
         \/ link.status = "deleted" /\ UNCHANGED link /\ call' = Link!Idle
  BY DEF Link!ActivateLink, Link!Doing, Link!nodeVars, Link!jobVars, Link!Abort
<1>2. link \in [status : LinkStatuses, selected : Profiles, batch : Nat]
  BY DEF BackhaulInv, CallInv, LinkFits
<1>3. PICK sel \in Profiles : sel = link.selected
  BY <1>2
<1>4. [link EXCEPT !.status = "active"] = [link EXCEPT !.status = "active", !.selected = sel]
  BY <1>2, <1>3
<1> QED  BY <1>1, <1>4, IntoUse

\* and promoting a transport.
LEMMA PromoteLinkKeeps ==
  ASSUME BackhaulInv, UNCHANGED order, Link!PromoteLink
  PROVE  BackhaulInv'
<1>1. /\ call # Link!Idle /\ Head(call.todo)[1] = "promote"
      /\ UNCHANGED <<transport, refresh, astray, manifest, runtime, route, jobs, agent>>
      /\ \/ link' = [link EXCEPT !.status = "active", !.selected = call.target] /\ Link!Done
         \/ link.status \in {"deleted", "disabled"} /\ UNCHANGED link /\ call' = Link!Idle
  BY DEF Link!PromoteLink, Link!Doing, Link!nodeVars, Link!jobVars, Link!Abort
<1>2. call.target \in Profiles
  <2>1. CallFits /\ call.todo # <<>> /\ call.todo \in Seq(CallSteps)
    BY <1>1 DEF BackhaulInv, CallInv, CallFits
  <2>2. 1 \in DOMAIN call.todo /\ Head(call.todo) = call.todo[1]
    BY <2>1
  <2> QED  BY <1>1, <2>1, <2>2 DEF CallFits
<1> QED  BY <1>1, <1>2, IntoUse

\* A call that has one step of the refresh left.
LEMMA OneStepLeft ==
  ASSUME CallFits, UNCHANGED order, NEW k \in {"build", "insert"}, call' = [call EXCEPT !.todo = << <<k>> >>]
  PROVE  /\ CallFits' /\ call'.todo # <<>> /\ Len(call'.todo) = 1 /\ call'.todo[1][1] = k
         /\ CallRefreshDue' /\ ~ StepLeft("cleanup")'
<1>1. PICK e : e = <<k>>
  OBVIOUS
<1>2. e \in CallSteps /\ e[1] = k
  BY <1>1 DEF CallSteps, OtherSteps
<1>3. PICK s : s = <<e>>
  OBVIOUS
<1>4. s \in Seq(CallSteps) /\ DOMAIN s = {1} /\ s[1] = e /\ s # <<>> /\ Len(s) = 1
  BY <1>2, <1>3
<1>5. call' = [call EXCEPT !.todo = s]
  BY <1>1, <1>3
<1>6. call' \in [op : Operations, todo : Seq(CallSteps), target : Via] /\ call'.todo = s
  BY <1>4, <1>5 DEF CallFits
<1>7. \A i \in DOMAIN s : s[i][1] \in {"build", "insert"}
  BY <1>2, <1>4
<1>8. CallShape(s)
  BY <1>7 DEF CallShape
<1>9. call' # Link!Idle
  BY <1>4, <1>6 DEF Link!Idle
<1>10. CallSteps' = CallSteps /\ Via' = Via /\ Profiles' = Profiles
  BY DEF CallSteps, Via, Profiles, Link!Profiles
<1>11. CallFits'
  BY <1>4, <1>6, <1>7, <1>8, <1>9, <1>10 DEF CallFits, CallShape, Link!Idle
<1>12. CallRefreshDue' /\ ~ StepLeft("cleanup")'
  BY <1>2, <1>4, <1>6, <1>7 DEF CallRefreshDue, StepLeft
<1> QED  BY <1>2, <1>4, <1>6, <1>11, <1>12

\* The first step of a call in progress.
LEMMA AtStep ==
  ASSUME CallFits, call # Link!Idle
  PROVE  call.todo # <<>> /\ 1 \in DOMAIN call.todo /\ Head(call.todo) = call.todo[1] /\ call.todo[1] \in CallSteps
<1>1. call.todo \in Seq(CallSteps) /\ call.todo # <<>>
  BY DEF CallFits
<1> QED  BY <1>1

\* The refresh looks at the link again: one that is not active has no routes.
LEMMA CallRefreshKeeps ==
  ASSUME BackhaulInv, UNCHANGED order, Link!CallRefresh
  PROVE  BackhaulInv'
<1>0. CallFits /\ LinkFits /\ RefreshFits
  BY DEF BackhaulInv, CallInv
<1>1. /\ call # Link!Idle /\ Head(call.todo)[1] = "refresh"
      /\ UNCHANGED <<link, transport, refresh, astray, manifest, runtime, route, jobs, agent>>
      /\ \/ call' = [call EXCEPT !.todo = << <<"build">> >>]
         \/ call' = Link!Idle /\ link.status # "active"
  BY DEF Link!CallRefresh, Link!Doing, Link!nodeVars, Link!jobVars
<1>2. call.todo # <<>> /\ call.todo[1][1] = "refresh"
  BY <1>0, <1>1, AtStep
<1>3. ~ StepLeft("link") /\ ~ StepLeft("cleanup") /\ \A t, n : ~ ToClean(t, n)
  BY <1>0, <1>2, NoSideSteps DEF OtherSteps
<1>4. RefreshFits'
  BY <1>0, <1>1, <1>2, RefreshStays
<1>5. LinkFits' /\ Selected' = Selected /\ link'.batch = link.batch /\ link'.status = link.status
  BY <1>0, <1>1, LinkStays DEF LinkFits
<1>6. CASE call' = [call EXCEPT !.todo = << <<"build">> >>]
  <2>1. CallFits' /\ CallRefreshDue' /\ ~ StepLeft("cleanup")'
    BY <1>0, <1>6, OneStepLeft, Zenon
  <2> QED  BY <1>1, <1>3, <1>4, <1>5, <2>1, CallKeeps DEF CallInv
<1>7. CASE call' = Link!Idle /\ link.status # "active"
  <2>1. CallFits' /\ ~ StepLeft("cleanup")'
    BY <1>7, CallOver
  <2>2. Selected' = "none"
    BY <1>1, <1>7 DEF Selected, Link!listRoutePolicyBackhauls, Link!None
  <2> QED  BY <1>1, <1>3, <1>4, <1>5, <2>1, <2>2, CallKeeps DEF CallInv
<1> QED  BY <1>1, <1>6, <1>7

\* The payload is built, and the call has it to insert.
LEMMA CallBuildsKeeps ==
  ASSUME BackhaulInv, UNCHANGED order, Link!CallBuildsRoutes
  PROVE  BackhaulInv'
<1>0. CallFits /\ LinkFits /\ RefreshFits
  BY DEF BackhaulInv, CallInv
<1>1. /\ call # Link!Idle /\ Head(call.todo)[1] = "build"
      /\ UNCHANGED <<link, transport, astray, manifest, runtime, route, jobs, agent>>
      /\ call' = [call EXCEPT !.todo = << <<"insert">> >>]
      /\ refresh' = refresh \cup {[owner |-> "call", job |-> 0, via |-> Selected]}
  BY DEF Link!CallBuildsRoutes, Link!Doing, Link!nodeVars, Link!jobVars, Link!RouteCall, Link!NoJob, Selected
<1>2. call.todo # <<>> /\ call.todo[1][1] = "build"
  BY <1>0, <1>1, AtStep
<1>3. ~ StepLeft("link") /\ ~ StepLeft("cleanup") /\ \A t, n : ~ ToClean(t, n)
  BY <1>0, <1>2, NoSideSteps DEF OtherSteps
<1>4. LinkFits' /\ Selected' = Selected /\ link'.batch = link.batch /\ link'.status = link.status
  BY <1>0, <1>1, LinkStays DEF LinkFits
<1>5. /\ CallFits' /\ CallRefreshDue' /\ ~ StepLeft("cleanup")'
      /\ call'.todo # <<>> /\ Len(call'.todo) = 1 /\ call'.todo[1][1] = "insert"
  BY <1>0, <1>1, OneStepLeft, Zenon
<1>6. RefreshFits'
  <2>1. \A r \in refresh : r.owner # "call"
    BY <1>0, <1>2 DEF RefreshFits
  <2>2. Via' = Via /\ Selected \in Via
    BY <1>0 DEF Via, Profiles, Link!Profiles, Selected, Link!listRoutePolicyBackhauls, Link!None, LinkFits
  <2>3. PICK x : x = [owner |-> "call", job |-> 0, via |-> Selected]
    OBVIOUS
  <2>4. x \in [owner : {"call", "result"}, job : Nat, via : Via]
    BY <2>2, <2>3
  <2>5. refresh' = refresh \cup {x}
    BY <1>1, <2>3
  <2>6. refresh' \subseteq [owner : {"call", "result"}, job : Nat, via : Via]
    BY <1>0, <2>4, <2>5 DEF RefreshFits
  <2>7. \A r \in refresh' : r.owner = "call" => r = x
    BY <2>1, <2>5
  <2> QED  BY <1>5, <2>2, <2>6, <2>7 DEF RefreshFits
<1> QED  BY <1>1, <1>3, <1>4, <1>5, <1>6, CallKeeps DEF CallInv

\* A payload is built for a result.
LEMMA ResultBuildsKeeps ==
  ASSUME BackhaulInv, UNCHANGED order, NEW j \in DOMAIN jobs, Link!ResultBuildsRoutes(j)
  PROVE  BackhaulInv'
<1>0. CallFits /\ LinkFits /\ RefreshFits /\ JobInv
  BY DEF BackhaulInv, CallInv
<1>1. /\ UNCHANGED <<link, transport, call, astray, manifest, runtime, route, jobs, agent>>
      /\ refresh' = refresh \cup {[owner |-> "result", job |-> j, via |-> Selected]}
  BY DEF Link!ResultBuildsRoutes, Link!nodeVars, Link!jobVars, Selected
<1>2. LinkFits' /\ Selected' = Selected /\ link'.batch = link.batch /\ link'.status = link.status
  BY <1>0, <1>1, LinkStays DEF LinkFits
<1>3. CallFits'
  BY <1>0, <1>1 DEF CallFits, CallSteps, Via, Profiles, Link!Profiles, Link!Idle
<1>4. RefreshFits'
  <2>1. Via' = Via /\ Selected \in Via
    BY <1>0 DEF Via, Profiles, Link!Profiles, Selected, Link!listRoutePolicyBackhauls, Link!None, LinkFits
  <2>2. PICK x : x = [owner |-> "result", job |-> j, via |-> Selected]
    OBVIOUS
  <2>3. j \in Nat
    BY <1>0 DEF JobInv, JobsFit
  <2>4. x \in [owner : {"call", "result"}, job : Nat, via : Via] /\ x.owner # "call"
    BY <2>1, <2>2, <2>3
  <2>5. refresh' = refresh \cup {x}
    BY <1>1, <2>2
  <2>6. refresh' \subseteq [owner : {"call", "result"}, job : Nat, via : Via]
    BY <1>0, <2>4, <2>5 DEF RefreshFits
  <2>7. \A r \in refresh' : r.owner = "call" => r \in refresh
    BY <2>4, <2>5
  <2> QED  BY <1>0, <1>1, <2>1, <2>6, <2>7 DEF RefreshFits
<1>5. \A t, n : ToClean(t, n)' <=> ToClean(t, n)
  BY <1>1 DEF ToClean
<1>6. (\A k : StepLeft(k)' <=> StepLeft(k)) /\ (CallRefreshDue' <=> CallRefreshDue)
  BY <1>1 DEF StepLeft, CallRefreshDue
<1> QED  BY <1>1, <1>2, <1>3, <1>4, <1>5, <1>6, CallKeeps DEF CallInv

\* A call is cut off.
LEMMA CallCrashKeeps ==
  ASSUME BackhaulInv, UNCHANGED order, Link!CallCrash
  PROVE  BackhaulInv'
<1>0. CallFits /\ LinkFits /\ RefreshFits
  BY DEF BackhaulInv, CallInv
<1>1. /\ UNCHANGED <<link, transport, manifest, runtime, route, jobs, agent>>
      /\ call' = Link!Idle /\ astray' = TRUE /\ refresh' = {r \in refresh : r.owner # "call"}
  BY DEF Link!CallCrash, Link!nodeVars, Link!Abort, Link!RouteCall
<1>2. LinkFits' /\ link'.batch = link.batch
  BY <1>0, <1>1, LinkStays
<1>3. CallFits' /\ ~ StepLeft("cleanup")'
  BY <1>1, CallOver
<1>4. RefreshFits'
  BY <1>0, <1>1 DEF RefreshFits, Via, Profiles, Link!Profiles
<1> QED  BY <1>1, <1>2, <1>3, <1>4, CallKeeps DEF CallInv

\* What a step has to keep that leaves the link as it is and changes the jobs.
LEMMA JobsKeep ==
  ASSUME BackhaulInv, JobInv', JobsMove, CallInv', UNCHANGED <<order, link>>, astray => astray',
         \A j \in DOMAIN jobs' \ DOMAIN jobs : IsCleanup(j)' => jobs'[j].payload.batch \in 1..link.batch,
         StepLeft("cleanup")' => StepLeft("cleanup"),
         ~astray' => \A t \in Profiles, n \in Roles : ToClean(t, n) =>
                       ToClean(t, n)' \/ \E j \in DOMAIN jobs' : CleansSide(j, link.batch, t, n)',
         StepLeft("link") => StepLeft("link")' \/ astray',
         RouteOwed'
  PROVE  BackhaulInv'
<1>1. link'.batch = link.batch /\ UNCHANGED order
  OBVIOUS
<1>2. Batches'
  BY <1>1, BatchesStep DEF BackhaulInv, OwesInv
<1>3. DeletedByBatch'
  <2>1. ~astray' /\ link'.status = "deleted" => link.status = "deleted" /\ (StepLeft("link") => StepLeft("link")')
    OBVIOUS
  <2> QED  BY <1>1, <2>1, DeletedStep DEF BackhaulInv, OwesInv
<1> QED  BY <1>2, <1>3 DEF BackhaulInv, OwesInv

\* A result loses its refresh.
LEMMA ResultCrashKeeps ==
  ASSUME BackhaulInv, UNCHANGED order, Link!ResultCrash
  PROVE  BackhaulInv'
<1>0. CallFits /\ LinkFits /\ RefreshFits /\ JobInv
  BY DEF BackhaulInv, CallInv
<1>1. PICK j \in DOMAIN jobs :
        /\ jobs' = [jobs EXCEPT ![j].effect = "lost"] /\ Link!Answer(j)
        /\ refresh' = {r \in refresh : r.job # j}
  BY DEF Link!ResultCrash, Link!Job
<1>2. astray' = TRUE /\ UNCHANGED <<link, transport, call, manifest, runtime, route>>
  BY DEF Link!ResultCrash, Link!nodeVars
<1>3. Calm /\ DOMAIN jobs' = DOMAIN jobs
  BY <1>0, <1>1, <1>2, EffectCalm
<1>4. JobInv' /\ JobsMove
  BY <1>0, <1>3, CalmKeeps, CalmMoves
<1>5. LinkFits'
  BY <1>0, <1>2, LinkStays
<1>6. CallFits'
  BY <1>0, <1>2 DEF CallFits, CallSteps, Via, Profiles, Link!Profiles, Link!Idle
<1>7. RefreshFits'
  BY <1>0, <1>1, <1>2 DEF RefreshFits, Via, Profiles, Link!Profiles
<1>8. StepLeft("cleanup")' <=> StepLeft("cleanup")
  BY <1>2 DEF StepLeft
<1>9. RouteOwed'
  BY <1>2 DEF RouteOwed
<1>10. \A i \in DOMAIN jobs' \ DOMAIN jobs : IsCleanup(i)' => jobs'[i].payload.batch \in 1..link.batch
  BY <1>3
<1> QED  BY <1>2, <1>4, <1>5, <1>6, <1>7, <1>8, <1>9, <1>10, JobsKeep DEF CallInv

\* A job whose side effects are over.
Applied(x) == [x EXCEPT !.effect = "applied"]

\* The route job that is inserted, for a call or for a result; "applied" is the
\* result's side effect.
LEMMA RouteJobGrows ==
  ASSUME JobInv, UNCHANGED <<order, manifest, runtime, route>>, NEW via \in Via, NEW x,
         x = Link!newJob("route", "ingress", "node", [t |-> via, batch |-> 0], 80),
         \/ jobs' = Append(jobs, x) /\ UNCHANGED agent
         \/ \E i : jobs' = [Append(jobs, x) EXCEPT ![i].effect = "applied"] /\ Link!Answer(i)
  PROVE  /\ Calm /\ DOMAIN jobs' = DOMAIN jobs \cup {Len(jobs) + 1}
         /\ Len(jobs) + 1 \notin DOMAIN jobs /\ \A i \in DOMAIN jobs : i < Len(jobs) + 1
         /\ jobs'[Len(jobs) + 1].type = "route" /\ jobs'[Len(jobs) + 1].payload.t = via
<1>0. /\ jobs \in Seq(BackhaulJob) /\ Len(jobs) \in Nat /\ DOMAIN jobs = 1..Len(jobs)
      /\ \A i \in DOMAIN jobs : JobFits(jobs[i])
  BY DEF JobInv, JobsFit
<1>1. /\ x \in BackhaulJob /\ x.status = "queued" /\ x.effect = "none" /\ x.type = "route" /\ x.payload.t = via
      /\ x.node = "ingress" /\ x.priority = 80
  BY DEF Link!newJob, BackhaulJob, Roles
<1>2. JobFits(x)
  BY <1>1 DEF JobFits, Owes
<1>3. PICK ks : ks = Append(jobs, x)
  OBVIOUS
<1>4. /\ ks \in Seq(BackhaulJob) /\ Len(ks) = Len(jobs) + 1 /\ ks[Len(jobs) + 1] = x
      /\ \A i \in DOMAIN jobs : ks[i] = jobs[i]
      /\ DOMAIN ks = 1..(Len(jobs) + 1)
  BY <1>0, <1>1, <1>3
<1>5. CASE jobs' = Append(jobs, x) /\ UNCHANGED agent
  <2>1. Calm /\ DOMAIN jobs' = DOMAIN jobs \cup {Len(jobs) + 1} /\ Len(jobs) + 1 \notin DOMAIN jobs
        /\ jobs'[Len(jobs) + 1] = x
    BY <1>1, <1>2, <1>5, AppendCalm
  <2> QED  BY <1>0, <1>1, <2>1
<1>6. CASE \E i : jobs' = [Append(jobs, x) EXCEPT ![i].effect = "applied"] /\ Link!Answer(i)
  <2>1. PICK i : jobs' = [ks EXCEPT ![i].effect = "applied"] /\ Link!Answer(i)
    BY <1>3, <1>6
  <2>2. agent' \in [Roles -> BackhaulAgent] /\ \A n \in Roles : AgentCalm(agent[n], agent'[n])
    BY <2>1, AnswerCalm
  <2>3. PICK js : js = [ks EXCEPT ![i].effect = "applied"]
    OBVIOUS
  <2>4. \A k \in DOMAIN ks : Applied(ks[k]) \in BackhaulJob
    <3>1. ASSUME NEW k \in DOMAIN ks  PROVE Applied(ks[k]) \in BackhaulJob
      <4>1. ks[k] \in BackhaulJob
        BY <1>4
      <4> QED  BY <4>1 DEF BackhaulJob, Applied
    <3> QED  BY <3>1
  <2>5. /\ js \in Seq(BackhaulJob) /\ Len(js) = Len(jobs) + 1 /\ DOMAIN js = 1..(Len(jobs) + 1)
        /\ \A k \in DOMAIN ks : js[k] = ks[k] \/ js[k] = Applied(ks[k])
    <3>1. DOMAIN js = DOMAIN ks
      BY <2>3
    <3>2. \A k \in DOMAIN ks : js[k] = ks[k] \/ js[k] = Applied(ks[k])
      <4>1. PICK z : z = Applied(ks[i])
        OBVIOUS
      <4>2. js = [ks EXCEPT ![i] = z]
        BY <2>3, <4>1 DEF Applied
      <4>3. \A k \in DOMAIN ks : js[k] = ks[k] \/ (k = i /\ js[k] = z)
        BY <4>2
      <4> QED  BY <4>1, <4>3
    <3>3. \A k \in DOMAIN ks : js[k] \in BackhaulJob
      BY <1>4, <2>4, <3>2
    <3>4. js = [k \in 1..(Len(jobs) + 1) |-> js[k]]
      BY <1>4, <2>3
    <3>5. js \in Seq(BackhaulJob) /\ Len(js) = Len(jobs) + 1
      BY <1>0, <1>4, <3>1, <3>3, <3>4
    <3> QED  BY <1>4, <3>1, <3>2, <3>5
  <2>6. \A k \in DOMAIN ks : SameJob(ks[k], js[k]) /\ js[k].status = ks[k].status /\ (Owes(ks[k]) => Owes(js[k]))
    <3>1. ASSUME NEW k \in DOMAIN ks
          PROVE  SameJob(ks[k], js[k]) /\ js[k].status = ks[k].status /\ (Owes(ks[k]) => Owes(js[k]))
      <4>1. ks[k] \in BackhaulJob
        BY <1>4
      <4>2. js[k] = ks[k] \/ js[k] = Applied(ks[k])
        BY <2>5
      <4> QED  BY <4>1, <4>2 DEF BackhaulJob, SameJob, Owes, Applied
    <3> QED  BY <3>1
  <2>7. PICK y : y = js[Len(jobs) + 1]
    OBVIOUS
  <2>8. y \in BackhaulJob /\ SameJob(x, y) /\ y.status = "queued" /\ Owes(y)
    <3>1. Len(jobs) + 1 \in DOMAIN ks /\ Len(jobs) + 1 \in DOMAIN js
      BY <1>0, <1>4, <2>5
    <3> QED  BY <1>1, <1>2, <1>4, <2>5, <2>6, <2>7, <3>1 DEF JobFits
  <2>9. JobFits(y)
    BY <1>1, <1>2, <2>8 DEF JobFits, SameJob
  <2>10. \A k \in DOMAIN jobs : SameJob(jobs[k], js[k]) /\ StatusMoves(jobs[k], js[k]) /\ Owes(js[k])
    BY <1>0, <1>4, <2>6 DEF StatusMoves, JobFits
  <2>11. jobs' = js
    BY <2>1, <2>3
  <2>12. Calm
    BY <2>2, <2>5, <2>7, <2>8, <2>9, <2>10, <2>11, GrowthCalm
  <2> QED  BY <1>0, <1>1, <2>5, <2>7, <2>8, <2>11, <2>12 DEF SameJob
<1> QED  BY <1>5, <1>6

\* The last route job follows the link, or it is astray.
LEMMA CreateRouteJobKeeps ==
  ASSUME BackhaulInv, UNCHANGED order, Link!CreateNodeRoutePolicyApplyJob
  PROVE  BackhaulInv'
<1>0. CallFits /\ LinkFits /\ RefreshFits /\ JobInv
  BY DEF BackhaulInv, CallInv
<1>1. PICK r \in refresh :
        /\ refresh' = refresh \ {r}
        /\ astray' = (astray \/ r.via # Selected)
        /\ \/ /\ r.owner = "call" /\ Link!Done /\ UNCHANGED agent
              /\ jobs' = Append(jobs, Link!newJob("route", "ingress", "node", [t |-> r.via, batch |-> 0], 80))
           \/ /\ r.owner # "call" /\ Link!Answer(r.job) /\ UNCHANGED call
              /\ jobs' = [Append(jobs, Link!newJob("route", "ingress", "node", [t |-> r.via, batch |-> 0], 80))
                            EXCEPT ![r.job].effect = "applied"]
        /\ UNCHANGED <<link, transport, manifest, runtime, route>>
  BY DEF Link!CreateNodeRoutePolicyApplyJob, Link!nodeVars, Link!RouteCall, Selected
<1>2. r.via \in Via
  BY <1>0 DEF RefreshFits
<1>3. /\ Calm /\ DOMAIN jobs' = DOMAIN jobs \cup {Len(jobs) + 1}
      /\ Len(jobs) + 1 \notin DOMAIN jobs /\ \A i \in DOMAIN jobs : i < Len(jobs) + 1
      /\ jobs'[Len(jobs) + 1].type = "route" /\ jobs'[Len(jobs) + 1].payload.t = r.via
  BY <1>0, <1>1, <1>2, RouteJobGrows
<1>4. JobInv' /\ JobsMove
  BY <1>0, <1>3, CalmKeeps, CalmMoves
<1>5. astray' \in BOOLEAN /\ (astray => astray')
  BY <1>0, <1>1 DEF LinkFits
<1>6. LinkFits' /\ Selected' = Selected
  BY <1>0, <1>1, <1>5, LinkStays
<1>7. RouteOwed'
  <2>1. ASSUME ~astray'  PROVE LastRouteIs(Selected)'
    <3>1. r.via = Selected
      BY <1>1, <2>1
    <3>2. PICK l : l = Len(jobs) + 1
      OBVIOUS
    <3>3. /\ l \in DOMAIN jobs' /\ jobs'[l].type = "route" /\ jobs'[l].payload.t = r.via
          /\ \A i \in DOMAIN jobs' : i <= l
      <4>1. Len(jobs) \in Nat /\ DOMAIN jobs \subseteq Nat
        BY <1>0 DEF JobInv, JobsFit
      <4> QED  BY <1>3, <3>2, <4>1
    <3>4. LastRoute(l)'
      BY <3>3 DEF LastRoute, IsRoute
    <3> QED  BY <1>6, <3>1, <3>3, <3>4 DEF LastRouteIs
  <2> QED  BY <2>1 DEF RouteOwed
<1>8. \A i \in DOMAIN jobs' \ DOMAIN jobs : IsCleanup(i)' => jobs'[i].payload.batch \in 1..link.batch
  BY <1>3 DEF IsCleanup
<1>9. Via' = Via
  BY DEF Via, Profiles, Link!Profiles
<1>10. CASE r.owner = "call"
  <2>1. Link!Done /\ call.todo # <<>> /\ call.todo[1][1] = "insert"
    BY <1>0, <1>1, <1>10 DEF RefreshFits
  <2>2. call # Link!Idle
    BY <2>1 DEF Link!Idle
  <2>3. CallFits' /\ (StepLeft("cleanup")' => StepLeft("cleanup"))
    BY <1>0, <2>1, <2>2, DoneCall, FirstDone
  <2>4. ~ StepLeft("link") /\ ~ StepLeft("cleanup") /\ \A t, n : ~ ToClean(t, n)
    BY <1>0, <2>1, NoSideSteps DEF OtherSteps
  <2>5. RefreshFits'
    <3>1. \A q \in refresh : q.owner = "call" => q = r
      BY <1>0, <1>10 DEF RefreshFits
    <3>2. \A q \in refresh' : q \in refresh /\ q.owner # "call"
      BY <1>1, <3>1
    <3> QED  BY <1>0, <1>9, <3>2 DEF RefreshFits
  <2> QED  BY <1>1, <1>4, <1>5, <1>6, <1>7, <1>8, <2>3, <2>4, <2>5, JobsKeep DEF CallInv
<1>11. CASE r.owner # "call"
  <2>1. UNCHANGED call
    BY <1>1, <1>11
  <2>2. CallFits'
    BY <1>0, <2>1 DEF CallFits, CallSteps, Via, Profiles, Link!Profiles, Link!Idle
  <2>3. RefreshFits'
    <3>1. refresh' \subseteq refresh
      BY <1>1
    <3> QED  BY <1>0, <1>9, <2>1, <3>1 DEF RefreshFits
  <2>4. \A t, n : ToClean(t, n)' <=> ToClean(t, n)
    BY <2>1 DEF ToClean
  <2>5. \A k : StepLeft(k)' <=> StepLeft(k)
    BY <2>1 DEF StepLeft
  <2> QED  BY <1>1, <1>4, <1>5, <1>6, <1>7, <1>8, <2>2, <2>3, <2>4, <2>5, JobsKeep DEF CallInv
<1> QED  BY <1>10, <1>11

\* The job of one side: what CreateSideJob appends.
SideJob(s, p) ==
  Link!newJob(s[1], s[3], "link", [t |-> s[2], batch |-> IF s[1] = "cleanup" THEN link.batch ELSE 0], p)

\* The job of one side is well formed.
LEMMA SideJobFits ==
  ASSUME LinkFits, NEW s \in CallSteps, s[1] \in SideTypes, NEW x, x = SideJob(s, Link!priorityOf(s[1]))
  PROVE  /\ x \in BackhaulJob /\ JobFits(x) /\ x.status = "queued" /\ x.type = s[1] /\ x.node = s[3]
         /\ x.payload.t = s[2] /\ (s[1] = "cleanup" => x.payload = [t |-> s[2], batch |-> link.batch])
<1>1. s[2] \in Profiles /\ s[3] \in Roles /\ link.batch \in Nat
  BY EachStep DEF LinkFits, OtherSteps, SideTypes
<1>2. PICK p : p = Link!priorityOf(s[1])
  OBVIOUS
<1>3. /\ p \in {70, 75, 80, 90} /\ (s[1] = "apply" => p = 75) /\ (s[1] = "cleanup" => p = 90)
  <2>1. CASE s[1] = "apply"
    BY <2>1, <1>2 DEF Link!priorityOf
  <2>2. CASE s[1] = "cleanup"
    BY <2>2, <1>2 DEF Link!priorityOf
  <2>3. CASE s[1] = "probe"
    BY <2>3, <1>2 DEF Link!priorityOf
  <2> QED  BY <2>1, <2>2, <2>3 DEF SideTypes
<1>4. PICK w : w = [t |-> s[2], batch |-> IF s[1] = "cleanup" THEN link.batch ELSE 0]
  OBVIOUS
<1>5. w \in [t : Via, batch : Nat] /\ w.t = s[2] /\ (s[1] = "cleanup" => w = [t |-> s[2], batch |-> link.batch])
  BY <1>1, <1>4 DEF Via
<1>6. x = [type |-> s[1], node |-> s[3], scope |-> "link", payload |-> w, priority |-> p,
           status |-> "queued", effect |-> "none"]
  BY <1>2, <1>4 DEF SideJob, Link!newJob
<1>7. x \in BackhaulJob
  BY <1>1, <1>3, <1>5, <1>6 DEF BackhaulJob
<1>8. JobFits(x)
  BY <1>1, <1>3, <1>5, <1>6 DEF JobFits, Owes, SideTypes
<1> QED  BY <1>5, <1>6, <1>7, <1>8

\* A call queues the job of one side: of a cleanup, for its batch.
LEMMA CreateSideJobKeeps ==
  ASSUME BackhaulInv, UNCHANGED order, Link!CreateSideJob
  PROVE  BackhaulInv'
<1>0. CallFits /\ LinkFits /\ RefreshFits /\ JobInv
  BY DEF BackhaulInv, CallInv
<1>1. call # Link!Idle /\ Link!Done
      /\ UNCHANGED <<link, transport, refresh, astray, manifest, runtime, route, agent>>
  BY DEF Link!CreateSideJob, Link!nodeVars
<1>2. CallFits' /\ call.todo # <<>> /\ Head(call.todo) = call.todo[1] /\ call.todo[1] \in CallSteps /\ 1 \in DOMAIN call.todo
  BY <1>0, <1>1, DoneCall
<1> PICK s : s = call.todo[1]  OBVIOUS
<1>3. s \in CallSteps /\ s[1] \in SideTypes
  BY <1>2 DEF Link!CreateSideJob, SideTypes
<1>4. s[2] \in Profiles /\ s[3] \in Roles /\ s = <<s[1], s[2], s[3]>>
  BY <1>3, EachStep DEF OtherSteps, SideTypes
<1> PICK x : x = SideJob(s, Link!priorityOf(s[1]))  OBVIOUS
<1>5. jobs' = Append(jobs, x)
  BY <1>2 DEF Link!CreateSideJob, Link!QueueAt, SideJob
<1>6. /\ x \in BackhaulJob /\ JobFits(x) /\ x.status = "queued" /\ x.type = s[1] /\ x.node = s[3]
      /\ x.payload.t = s[2] /\ (s[1] = "cleanup" => x.payload = [t |-> s[2], batch |-> link.batch])
  BY <1>0, <1>3, SideJobFits
<1>7. Calm /\ DOMAIN jobs' = DOMAIN jobs \cup {Len(jobs) + 1} /\ Len(jobs) + 1 \notin DOMAIN jobs
      /\ jobs'[Len(jobs) + 1] = x
  BY <1>0, <1>1, <1>5, <1>6, AppendCalm
<1> PICK l : l = Len(jobs) + 1  OBVIOUS
<1>8. DOMAIN jobs' = DOMAIN jobs \cup {l} /\ jobs'[l] = x
  BY <1>7
<1>9. JobInv' /\ JobsMove
  BY <1>0, <1>7, CalmKeeps, CalmMoves
<1>10. LinkFits' /\ Selected' = Selected
  BY <1>0, <1>1, LinkStays DEF LinkFits
<1>11. RefreshFits'
  BY <1>0, <1>1, <1>3, RefreshStays DEF SideTypes
<1>12. /\ \A kind : StepLeft(kind)' => StepLeft(kind)
       /\ \A kind : StepLeft(kind) => StepLeft(kind)' \/ s[1] = kind
       /\ \A t, n : ToClean(t, n) => ToClean(t, n)' \/ s = <<"cleanup", t, n>>
  BY <1>0, <1>1, FirstDone
<1>13. \A i \in DOMAIN jobs' \ DOMAIN jobs : IsCleanup(i)' => jobs'[i].payload.batch \in 1..link.batch
  <2>1. s[1] = "cleanup" => StepLeft("cleanup")
    BY <1>2 DEF StepLeft
  <2>2. s[1] = "cleanup" => link.batch \in 1..link.batch
    BY <2>1, <1>0 DEF LinkFits, BackhaulInv, OwesInv, Batches
  <2>3. s[1] = "cleanup" => x.payload.batch = link.batch
    BY <1>6
  <2> QED  BY <1>6, <1>8, <2>2, <2>3 DEF IsCleanup
<1>14. \A t \in Profiles, n \in Roles : ToClean(t, n) =>
         ToClean(t, n)' \/ \E j \in DOMAIN jobs' : CleansSide(j, link.batch, t, n)'
  <2> SUFFICES ASSUME NEW t \in Profiles, NEW n \in Roles, s = <<"cleanup", t, n>>
               PROVE  \E j \in DOMAIN jobs' : CleansSide(j, link.batch, t, n)'
    BY <1>12
  <2>1. s[1] = "cleanup" /\ s[2] = t /\ s[3] = n
    OBVIOUS
  <2>2. l \in DOMAIN jobs' /\ jobs'[l].type = "cleanup" /\ jobs'[l].node = n
        /\ jobs'[l].payload = [t |-> t, batch |-> link.batch]
    BY <1>6, <1>8, <2>1
  <2>3. CleansSide(l, link.batch, t, n)'
    BY <2>2, <1>1 DEF CleansSide, IsCleanup
  <2> QED  BY <2>2, <2>3, <1>1
<1>15. RouteOwed'
  <2>1. ~ CallRefreshDue
    BY <1>3 DEF CallRefreshDue, SideTypes
  <2>2. \A i \in DOMAIN jobs' \ DOMAIN jobs : ~ IsRoute(i)'
    BY <1>3, <1>6, <1>8 DEF IsRoute, SideTypes
  <2>3. \A i \in DOMAIN jobs : jobs[i].effect = "refresh" => jobs'[i].effect = "refresh"
    BY <1>0, <1>5, <1>6 DEF JobInv, JobsFit
  <2>4. RefreshDue => RefreshDue'
    BY <2>1, <2>3, <1>9, ResultStillDue DEF RefreshDue, JobsMove
  <2> QED  BY <1>1, <1>9, <1>10, <2>2, <2>4, OwedStep DEF BackhaulInv, OwesInv
<1>16. StepLeft("link") => StepLeft("link")'
  BY <1>3, <1>12 DEF SideTypes
<1> QED  BY <1>1, <1>2, <1>9, <1>10, <1>11, <1>12, <1>13, <1>14, <1>15, <1>16, JobsKeep DEF CallInv

-----------------------------------------------------------------------------
(***************************************************************************)
(* How a call begins.                                                      *)
(***************************************************************************)
\* The steps a call may begin with.
Startable(todo, target) ==
  /\ todo \in Seq(CallSteps) /\ todo # <<>> /\ CallShape(todo)
  /\ \A k \in DOMAIN todo : todo[k][1] = "promote" => target \in Profiles

\* A call begins with a batch of its own when it has cleanups.
LEMMA StartKeeps ==
  ASSUME BackhaulInv, UNCHANGED order, NEW op \in Operations, NEW target \in Via, NEW todo,
         Startable(todo, target), Link!Start(op, target, todo),
         \/ UNCHANGED link /\ \A k \in DOMAIN todo : todo[k][1] # "cleanup"
         \/ link' = [link EXCEPT !.batch = @ + 1] /\ Covers(todo, "cleanup")
  PROVE  BackhaulInv'
<1>0. CallFits /\ LinkFits /\ RefreshFits /\ JobInv
  BY DEF BackhaulInv, CallInv
<1>1. /\ call = Link!Idle /\ link.status # "deleted"
      /\ call' = [op |-> op, target |-> target, todo |-> todo]
      /\ UNCHANGED <<transport, refresh, astray, manifest, runtime, route, jobs, agent>>
  BY DEF Link!Start, Link!nodeVars, Link!jobVars
<1>2. /\ call.todo = <<>> /\ ~ CallRefreshDue
      /\ \A t, n : ~ ToClean(t, n)
  <2>1. call.todo = <<>> /\ DOMAIN call.todo = {}
    BY <1>1 DEF Link!Idle
  <2> QED  BY <2>1 DEF CallRefreshDue, ToClean
<1>3. JobInv' /\ JobsMove
  BY <1>0, <1>1, StillCalm, CalmKeeps, CalmMoves
<1>4. CallFits'
  <2>1. CallSteps' = CallSteps /\ Via' = Via /\ Profiles' = Profiles
    BY DEF CallSteps, Via, Profiles, Link!Profiles
  <2>2. call' \in [op : Operations, todo : Seq(CallSteps), target : Via] /\ call'.todo = todo /\ call'.target = target
    BY <1>1 DEF Startable
  <2>3. call' # Link!Idle
    BY <2>2 DEF Link!Idle, Startable
  <2> QED  BY <2>1, <2>2, <2>3 DEF Startable, CallFits, CallShape, Link!Idle
<1>5. RefreshFits'
  BY <1>0, <1>1, <1>2, RefreshStays
<1>6. /\ link' \in [status : LinkStatuses, selected : Profiles, batch : Nat]
      /\ link'.status = link.status /\ link'.selected = link.selected
      /\ link'.batch \in {link.batch, link.batch + 1}
  BY <1>0 DEF LinkFits
<1>7. LinkFits'
  BY <1>0, <1>1, <1>6 DEF LinkFits, Profiles, Link!Profiles
<1>8. Selected' = Selected
  BY <1>1, <1>6 DEF Selected, Link!listRoutePolicyBackhauls
<1>9. Batches'
  <2>1. \A j \in DOMAIN jobs' : IsCleanup(j)' => jobs'[j].payload.batch \in 1..link'.batch
    <3>1. \A j \in DOMAIN jobs : IsCleanup(j) => jobs[j].payload.batch \in 1..link.batch
      BY DEF BackhaulInv, OwesInv, Batches
    <3>2. 1..link.batch \subseteq 1..link'.batch
      BY <1>0, <1>6 DEF LinkFits
    <3> QED  BY <1>1, <3>1, <3>2 DEF IsCleanup
  <2>2. StepLeft("cleanup")' => link'.batch > 0
    <3>1. CASE UNCHANGED link /\ \A k \in DOMAIN todo : todo[k][1] # "cleanup"
      BY <3>1, <1>1 DEF StepLeft
    <3>2. CASE link' = [link EXCEPT !.batch = @ + 1]
      BY <3>2, <1>0 DEF LinkFits
    <3> QED  BY <3>1, <3>2
  <2>3. ASSUME ~astray', NEW b \in 1..link'.batch, NEW t \in Profiles, NEW n \in Roles
        PROVE  (\E j \in DOMAIN jobs' : CleansSide(j, b, t, n)') \/ (b = link'.batch /\ ToClean(t, n)')
    <3>1. CASE b \in 1..link.batch
      <4>1. \E j \in DOMAIN jobs : CleansSide(j, b, t, n)
        BY <2>3, <3>1, <1>1, <1>2 DEF BackhaulInv, OwesInv, Batches
      <4> QED  BY <4>1, <1>1 DEF CleansSide, IsCleanup
    <3>2. CASE b \notin 1..link.batch
      <4>1. link' = [link EXCEPT !.batch = @ + 1] /\ Covers(todo, "cleanup")
        BY <3>2, <2>3
      <4>2. b = link'.batch
        BY <4>1, <3>2, <1>0 DEF LinkFits
      <4>3. PICK e : e = <<"cleanup", t, n>>
        OBVIOUS
      <4>4. PICK k \in DOMAIN todo : todo[k] = e
        BY <4>1, <4>3 DEF Covers
      <4>5. call'.todo = todo
        BY <1>1
      <4>6. ToClean(t, n)'
        BY <4>3, <4>4, <4>5, Zenon DEF ToClean
      <4> QED  BY <4>2, <4>6
    <3> QED  BY <3>1, <3>2
  <2>4. Profiles' = Profiles
    BY DEF Profiles, Link!Profiles
  <2> QED  BY <2>1, <2>2, <2>3, <2>4 DEF Batches
<1>10. DeletedByBatch'
  BY <1>1, <1>6 DEF DeletedByBatch
<1>11. RouteOwed'
  <2>1. RefreshDue => RefreshDue'
    BY <1>1, <1>2 DEF RefreshDue, ResultRefreshDue
  <2> QED  BY <1>1, <1>3, <1>8, <2>1, OwedStep DEF BackhaulInv, OwesInv
<1> QED  BY <1>3, <1>4, <1>5, <1>7, <1>9, <1>10, <1>11 DEF BackhaulInv, CallInv, OwesInv

\* The short calls: a refresh, and two steps.
LEMMA OneStep ==
  ASSUME NEW s, s = << <<"refresh">> >>, NEW target
  PROVE  Startable(s, target) /\ \A k \in DOMAIN s : s[k][1] # "cleanup"
<1>1. PICK a : a = <<"refresh">>
  OBVIOUS
<1>2. a \in CallSteps /\ a[1] = "refresh"
  BY <1>1 DEF CallSteps, OtherSteps
<1>3. s = <<a>>
  BY <1>1
<1>4. s \in Seq(CallSteps) /\ s # <<>> /\ DOMAIN s = {1} /\ s[1] = a
  BY <1>2, <1>3
<1>5. \A k \in DOMAIN s : s[k][1] = "refresh"
  BY <1>2, <1>4
<1> QED  BY <1>4, <1>5 DEF Startable, CallShape

\* The calls of two steps may be started.
LEMMA TwoSteps ==
  ASSUME NEW a \in CallSteps, NEW b \in CallSteps, NEW s, s = <<a, b>>, NEW target,
         \/ a[1] \in {"activate", "promote"} /\ b[1] = "refresh" /\ (a[1] = "promote" => target \in Profiles)
         \/ a[1] = "probe" /\ b[1] = "probe"
         \/ a[1] = "link" /\ b[1] = "build"
  PROVE  Startable(s, target) /\ \A k \in DOMAIN s : s[k][1] # "cleanup"
<1>1. s \in Seq(CallSteps) /\ s # <<>> /\ DOMAIN s = {1, 2} /\ s[1] = a /\ s[2] = b
  OBVIOUS
<1>2. \A k \in DOMAIN s : s[k][1] # "cleanup"
  BY <1>1
<1>3. \A k \in DOMAIN s : s[k][1] = "promote" => target \in Profiles
  BY <1>1
<1>4. \A m \in DOMAIN s : s[m][1] = "link" => m = 1
  BY <1>1
<1>5. \A k \in DOMAIN s : s[k][1] \in {"activate", "promote"} => k = 1 /\ s[2][1] = "refresh"
  BY <1>1
<1>6. CallShape(s)
  <2>1. ASSUME NEW m \in DOMAIN s, s[m][1] = "link", NEW k \in 1..(m - 1)  PROVE s[k][1] \in {"apply", "cleanup"}
    <3>1. m = 1
      BY <2>1, <1>4
    <3> QED  BY <3>1
  <2>2. \A k \in DOMAIN s : s[k][1] \in {"activate", "promote"} => k + 1 \in DOMAIN s /\ s[k + 1][1] = "refresh"
    BY <1>1, <1>5
  <2> QED  BY <2>1, <2>2, <1>2 DEF CallShape
<1> QED  BY <1>1, <1>2, <1>3, <1>6 DEF Startable

\* The steps of an apply and of a deletion.
LEMMA ApplySteps ==
  ASSUME LinkFits, NEW target
  PROVE  Startable(Link!applySteps, target) /\ \A k \in DOMAIN Link!applySteps : Link!applySteps[k][1] # "cleanup"
<1> PICK s : s = Link!applySteps  OBVIOUS
<1>1. s = Link!perSide("apply") \o << <<"link", "pending_apply">>, <<"transports", "pending_apply">> >>
  BY Zenon DEF Link!applySteps
<1>2. s \in Seq(CallSteps) /\ s # <<>> /\ CallShape(s) /\ AllOf(s, {"apply", "link", "transports"})
  BY <1>1, SidesThenStatuses, Zenon
<1>3. \A k \in DOMAIN s : s[k][1] \notin {"cleanup", "promote"}
  BY <1>2 DEF AllOf
<1> QED  BY <1>2, <1>3 DEF Startable

\* So may a deletion, which has a cleanup of every side.
LEMMA DeleteSteps ==
  ASSUME LinkFits, NEW target
  PROVE  Startable(Link!deleteSteps, target) /\ Covers(Link!deleteSteps, "cleanup")
<1> PICK s : s = Link!deleteSteps  OBVIOUS
<1>1. s = Link!perSide("cleanup") \o << <<"link", "disabled">>, <<"transports", "disabled">> >>
  BY Zenon DEF Link!deleteSteps
<1>2. /\ s \in Seq(CallSteps) /\ s # <<>> /\ CallShape(s) /\ AllOf(s, {"cleanup", "link", "transports"})
      /\ Covers(s, "cleanup")
  BY <1>1, SidesThenStatuses, Zenon
<1>3. \A k \in DOMAIN s : s[k][1] # "promote"
  BY <1>2 DEF AllOf
<1> QED  BY <1>2, <1>3 DEF Startable

\* Every call of an operator.
LEMMA CallsBegin ==
  ASSUME BackhaulInv, UNCHANGED order,
         \/ Link!CreateBackhaulApplyJobs \/ Link!CreateBackhaulDeleteJobs \/ Link!CreateBackhaulProbeJobs
         \/ Link!EnableBackhaulRoute \/ Link!DisableBackhaulRoute
         \/ \E t \in Profiles : Link!PromoteBackhaulTransport(t)
  PROVE  BackhaulInv'
<1>0. LinkFits /\ link.selected \in Profiles
  BY DEF BackhaulInv, CallInv, LinkFits
<1>1. "none" \in Via /\ link.selected \in Via /\ Link!None = "none"
  BY <1>0 DEF Via, Link!None
<1>2. CASE Link!CreateBackhaulApplyJobs
  <2>1. Link!Start("apply", "none", Link!applySteps) /\ UNCHANGED link
    BY <1>1, <1>2 DEF Link!CreateBackhaulApplyJobs
  <2> QED  BY <1>0, <1>1, <2>1, ApplySteps, StartKeeps DEF Operations
<1>3. CASE Link!CreateBackhaulDeleteJobs
  <2>1. Link!Start("delete", "none", Link!deleteSteps) /\ link' = [link EXCEPT !.batch = @ + 1]
    BY <1>1, <1>3 DEF Link!CreateBackhaulDeleteJobs
  <2> QED  BY <1>0, <1>1, <2>1, DeleteSteps, StartKeeps DEF Operations
<1>4. CASE Link!CreateBackhaulProbeJobs
  <2>1. PICK a : a = <<"probe", link.selected, "ingress">>
    OBVIOUS
  <2>2. PICK b : b = <<"probe", link.selected, "egress">>
    OBVIOUS
  <2>3. a \in CallSteps /\ b \in CallSteps /\ a[1] = "probe" /\ b[1] = "probe"
    BY <1>0, <2>1, <2>2 DEF CallSteps, SideTypes, Roles
  <2>4. PICK s : s = <<a, b>>
    OBVIOUS
  <2>5. Link!Start("probe", link.selected, s) /\ UNCHANGED link
    BY <1>4, <2>1, <2>2, <2>4, Zenon DEF Link!CreateBackhaulProbeJobs
  <2>6. Startable(s, link.selected) /\ \A k \in DOMAIN s : s[k][1] # "cleanup"
    BY <2>3, <2>4, TwoSteps
  <2> QED  BY <1>1, <2>5, <2>6, StartKeeps DEF Operations
<1>5. CASE Link!EnableBackhaulRoute
  <2>1. PICK s :
          /\ Link!Start("enable", link.selected, s) /\ UNCHANGED link
          /\ s = CASE link.status = "active" -> << <<"refresh">> >>
                   [] link.status # "active" /\ transport[link.selected].status = "active" -> << <<"activate">>, <<"refresh">> >>
                   [] OTHER -> Link!applySteps
    BY <1>5, Zenon DEF Link!EnableBackhaulRoute
  <2>2. CASE link.status = "active"
    <3>1. ~ (link.status # "active" /\ transport[link.selected].status = "active")
      BY <2>2
    <3>2. s = << <<"refresh">> >>
      BY <2>1, <2>2, <3>1, Zenon
    <3>3. Startable(s, link.selected) /\ \A k \in DOMAIN s : s[k][1] # "cleanup"
      BY <3>2, OneStep
    <3> QED  BY <1>1, <2>1, <3>3, StartKeeps DEF Operations
  <2>3. CASE link.status # "active" /\ transport[link.selected].status = "active"
    <3>1. s = << <<"activate">>, <<"refresh">> >>
      BY <2>1, <2>3, Zenon
    <3>2. PICK a : a = <<"activate">>
      OBVIOUS
    <3>3. PICK b : b = <<"refresh">>
      OBVIOUS
    <3>4. a \in CallSteps /\ b \in CallSteps /\ a[1] = "activate" /\ b[1] = "refresh"
      BY <3>2, <3>3 DEF CallSteps, OtherSteps
    <3>5. s = <<a, b>>
      BY <3>1, <3>2, <3>3
    <3>6. Startable(s, link.selected) /\ \A k \in DOMAIN s : s[k][1] # "cleanup"
      BY <3>4, <3>5, TwoSteps
    <3> QED  BY <1>1, <2>1, <3>6, StartKeeps DEF Operations
  <2>4. CASE link.status # "active" /\ transport[link.selected].status # "active"
    <3>1. s = Link!applySteps
      BY <2>1, <2>4, Zenon
    <3>2. Startable(s, link.selected) /\ \A k \in DOMAIN s : s[k][1] # "cleanup"
      BY <1>0, <3>1, ApplySteps
    <3> QED  BY <1>1, <2>1, <3>2, StartKeeps DEF Operations
  <2> QED  BY <2>2, <2>3, <2>4
<1>6. CASE Link!DisableBackhaulRoute
  <2>1. PICK a : a = <<"link", "disabled">>
    OBVIOUS
  <2>2. PICK b : b = <<"build">>
    OBVIOUS
  <2>3. a \in CallSteps /\ b \in CallSteps /\ a[1] = "link" /\ b[1] = "build"
    BY <2>1, <2>2 DEF CallSteps, OtherSteps
  <2>4. PICK s : s = <<a, b>>
    OBVIOUS
  <2>5. Link!Start("disable", "none", s) /\ UNCHANGED link
    BY <1>1, <1>6, <2>1, <2>2, <2>4, Zenon DEF Link!DisableBackhaulRoute
  <2>6. Startable(s, "none") /\ \A k \in DOMAIN s : s[k][1] # "cleanup"
    BY <2>3, <2>4, TwoSteps
  <2> QED  BY <1>1, <2>5, <2>6, StartKeeps DEF Operations
<1>7. CASE \E t \in Profiles : Link!PromoteBackhaulTransport(t)
  <2>1. PICK t \in Profiles : Link!PromoteBackhaulTransport(t)
    BY <1>7
  <2>2. PICK s : /\ Link!Start("promote", t, s) /\ UNCHANGED link
                 /\ s = << <<"refresh">> >> \/ s = << <<"promote">>, <<"refresh">> >>
    <3>1. PICK s : /\ Link!Start("promote", t, s) /\ UNCHANGED link
                   /\ s = IF t = link.selected /\ link.status = "active" THEN << <<"refresh">> >>
                          ELSE << <<"promote">>, <<"refresh">> >>
      BY <2>1, Zenon DEF Link!PromoteBackhaulTransport, Link!promoteSteps
    <3> QED  BY <3>1, Zenon
  <2>3. t \in Via
    BY DEF Via
  <2>4. CASE s = << <<"refresh">> >>
    <3>1. Startable(s, t) /\ \A k \in DOMAIN s : s[k][1] # "cleanup"
      BY <2>4, OneStep
    <3> QED  BY <2>2, <2>3, <3>1, StartKeeps DEF Operations
  <2>5. CASE s = << <<"promote">>, <<"refresh">> >>
    <3>2. PICK a : a = <<"promote">>
      OBVIOUS
    <3>3. PICK b : b = <<"refresh">>
      OBVIOUS
    <3>4. a \in CallSteps /\ b \in CallSteps /\ a[1] = "promote" /\ b[1] = "refresh"
      BY <3>2, <3>3 DEF CallSteps, OtherSteps
    <3>5. s = <<a, b>>
      BY <2>5, <3>2, <3>3
    <3>6. Startable(s, t) /\ \A k \in DOMAIN s : s[k][1] # "cleanup"
      BY <3>4, <3>5, TwoSteps
    <3> QED  BY <2>2, <2>3, <3>6, StartKeeps DEF Operations
  <2> QED  BY <2>2, <2>4, <2>5
<1> QED  BY <1>2, <1>3, <1>4, <1>5, <1>6, <1>7

-----------------------------------------------------------------------------
(***************************************************************************)
(* The invariant, and what follows from it.                                *)
(***************************************************************************)
LEMMA BackhaulInit ==
  ASSUME Link!Init
  PROVE  BackhaulInv
<1>1. /\ order \in {Links[p] : p \in Parts}
      /\ link = [status |-> "planned", selected |-> Head(order), batch |-> 0]
      /\ transport = [t \in Profiles |-> [status |-> "planned", applied |-> {}, health |-> {}]]
      /\ call = Link!Idle /\ refresh = {} /\ astray = FALSE
      /\ manifest = [n \in Roles |-> {}] /\ runtime = [n \in Roles |-> {}] /\ route = "none"
      /\ jobs = <<>> /\ agent = [n \in Roles |-> Link!AgentIdle]
  BY DEF Link!Init, Link!JobsInit, Link!Role, Roles, Profiles, Link!None
<1>2. order \in Seq(Profiles) /\ order # <<>> /\ Head(order) \in Profiles
  <2>1. PICK p \in Parts : order = Links[p]
    BY <1>1
  <2>2. order \in Seq({order[k] : k \in DOMAIN order}) /\ order # <<>>
    BY <2>1, LinkAssumption
  <2>3. Profiles = {order[k] : k \in DOMAIN order}
    BY DEF Profiles, Link!Profiles, Link!ToSet
  <2>4. order \in Seq(Profiles) /\ order # <<>>
    BY <2>2, <2>3
  <2> QED  BY <2>4
<1>3. CallFits /\ call.todo = <<>> /\ DOMAIN call.todo = {}
  <2>1. call.op = "idle" /\ call.todo = <<>> /\ call.target = "none"
        /\ call \in [op : Operations, todo : Seq(CallSteps), target : Via]
    BY <1>1 DEF Link!Idle, Link!None, Operations, Via
  <2>2. DOMAIN call.todo = {}
    BY <2>1
  <2>3. CallShape(call.todo)
    BY <2>2 DEF CallShape
  <2> QED  BY <1>1, <2>1, <2>2, <2>3 DEF CallFits
<1>4. LinkFits
  <2>1. link \in [status : LinkStatuses, selected : Profiles, batch : Nat]
    BY <1>1, <1>2 DEF LinkStatuses
  <2>2. transport \in [Profiles -> [status : LinkStatuses \ {"deleted"}, applied : SUBSET Roles, health : SUBSET Roles]]
    BY <1>1 DEF LinkStatuses
  <2> QED  BY <1>1, <1>2, <2>1, <2>2 DEF LinkFits
<1>5. RefreshFits
  BY <1>1 DEF RefreshFits
<1>6. jobs \in Seq(BackhaulJob) /\ DOMAIN jobs = {}
  BY <1>1
<1>7. /\ agent \in [Roles -> BackhaulAgent]
      /\ \A n \in Roles : agent[n].job = 0 /\ agent[n].result = "none"
  BY <1>1, AtEase
<1>8. JobInv
  <2>1. JobsFit /\ CleanupsLast /\ RouteOrder /\ RouteRun
    BY <1>6 DEF JobsFit, CleanupsLast, RouteOrder, RouteRun
  <2>2. AgentsFit /\ Handlers
    BY <1>7 DEF AgentsFit, Handlers
  <2>3. NodesFit
    BY <1>1 DEF NodesFit, Via
  <2> QED  BY <2>1, <2>2, <2>3 DEF JobInv
<1>9. Batches
  <2>1. link.batch = 0
    BY <1>1
  <2>2. ~ StepLeft("cleanup")
    BY <1>3 DEF StepLeft
  <2> QED  BY <1>6, <2>1, <2>2 DEF Batches
<1>10. DeletedByBatch
  BY <1>1 DEF DeletedByBatch
<1>11. RouteOwed
  BY <1>1 DEF RouteOwed, Selected, Link!listRoutePolicyBackhauls, Link!None
<1> QED  BY <1>3, <1>4, <1>5, <1>8, <1>9, <1>10, <1>11 DEF BackhaulInv, CallInv, OwesInv

\* Every step keeps the invariant.
LEMMA BackhaulStep ==
  ASSUME BackhaulInv, [Link!Next]_(Link!vars)
  PROVE  BackhaulInv'
<1>1. CASE UNCHANGED Link!vars
  <2>1. UNCHANGED <<order, link, transport, call, refresh, astray, manifest, runtime, route, jobs, agent>>
    BY <1>1 DEF Link!vars
  <2>2. JobInv'
    BY <2>1, StillCalm, CalmKeeps DEF BackhaulInv
  <2> QED  BY <2>1, <2>2, AgentStep
<1>2. CASE Link!Next
  <2>0. UNCHANGED order
    BY <1>2 DEF Link!Next
  <2>1. CASE \/ Link!CreateBackhaulApplyJobs \/ Link!CreateBackhaulDeleteJobs \/ Link!CreateBackhaulProbeJobs
             \/ Link!EnableBackhaulRoute \/ Link!DisableBackhaulRoute
             \/ \E t \in Profiles : Link!PromoteBackhaulTransport(t)
    BY <2>0, <2>1, CallsBegin
  <2>2. CASE Link!CreateSideJob
    BY <2>0, <2>2, CreateSideJobKeeps
  <2>3. CASE Link!SetLinkStatus
    BY <2>0, <2>3, SetLinkStatusKeeps
  <2>4. CASE Link!SetTransportStatuses
    BY <2>0, <2>4, SetTransportStatusesKeeps
  <2>5. CASE Link!ActivateLink
    BY <2>0, <2>5, ActivateLinkKeeps
  <2>6. CASE Link!PromoteLink
    BY <2>0, <2>6, PromoteLinkKeeps
  <2>7. CASE Link!CallRefresh
    BY <2>0, <2>7, CallRefreshKeeps
  <2>8. CASE Link!CallBuildsRoutes
    BY <2>0, <2>8, CallBuildsKeeps
  <2>9. CASE Link!CreateNodeRoutePolicyApplyJob
    BY <2>0, <2>9, CreateRouteJobKeeps
  <2>10. CASE Link!CallCrash
    BY <2>0, <2>10, CallCrashKeeps
  <2>11. CASE Link!ResultCrash
    BY <2>0, <2>11, ResultCrashKeeps
  <2>12. CASE \E j \in DOMAIN jobs : \/ Link!ApplyBackhaulJobResult(j) \/ Link!ResultBuildsRoutes(j)
                                    \/ Link!ApplyBackhaulProbeResult(j) \/ Link!ApplyBackhaulCleanupResult(j)
                                    \/ Link!RouteJobDone(j)
    BY <2>0, <2>12, ApplyResultKeeps, ResultBuildsKeeps, ProbeResultKeeps, CleanupResultKeeps, RouteJobDoneKeeps
  <2>13. CASE \E n \in Roles : \/ \E j \in DOMAIN jobs : Link!AgentNextJob(n, j)
                               \/ Link!AgentCommand(n) \/ Link!CommandFails(n)
    BY <2>0, <2>13, NextJobKeeps, CommandStep, CommandFailsKeeps
  <2>14. CASE Link!QueueStep
    BY <2>0, <2>14, QueueKeeps
  <2> QED  BY <1>2, <2>1, <2>2, <2>3, <2>4, <2>5, <2>6, <2>7, <2>8, <2>9, <2>10, <2>11, <2>12, <2>13, <2>14
           DEF Link!Next, Profiles, Link!Job, Roles
<1> QED  BY <1>1, <1>2

\* The invariant holds of every link, and of the links of a run.
LEMMA BackhaulInvariant == (Link!Spec => []BackhaulInv) /\ (Spec => []BackhaulInv)
<1>1. Init => BackhaulInv
  BY BackhaulInit DEF Init
<1>2. BackhaulInv /\ [Next]_vars => BackhaulInv'
  <2>1. [Next]_vars => [Link!Next]_(Link!vars)
    BY DEF Next, vars, Link!vars
  <2> QED  BY <2>1, BackhaulStep
<1>3. Link!Init => BackhaulInv
  BY BackhaulInit
<1>4. BackhaulInv /\ [Link!Next]_(Link!vars) => BackhaulInv'
  BY BackhaulStep
<1> QED  BY <1>1, <1>2, <1>3, <1>4, PTL DEF Spec, Link!Spec

\* A link that has been deleted has left no file and no tunnel on its nodes,
\* unless a profile was applied again, the deletion has not queued all its
\* cleanups, or a call was cut off (applyBackhaulCleanupJobResult).
THEOREM DeletedLinkIsClean == (Link!Spec => []DeletedIsClean) /\ (Spec => []DeletedIsClean)
<1>1. BackhaulInv => DeletedIsClean
  <2> SUFFICES ASSUME BackhaulInv, call = Link!Idle, ~astray, link.status = "deleted", AppliesFirst, NEW n \in Roles
               PROVE  manifest[n] = {} /\ runtime[n] = {}
    BY DEF DeletedIsClean, Link!DeletedIsClean, Link!Role, Roles, AppliesFirst, IsApply, IsCleanup, Link!Job
  <2>1. ~ StepLeft("link")
    BY DEF StepLeft, Link!Idle
  <2>2. PICK b \in Nat : BatchDone(b)
    BY <2>1 DEF BackhaulInv, OwesInv, DeletedByBatch
  <2>3. ASSUME NEW t \in Profiles  PROVE t \notin manifest[n] \cup runtime[n]
    <3>1. PICK j \in DOMAIN jobs : CleansSide(j, b, t, n) /\ jobs[j].status = "succeeded"
      BY <2>2 DEF BatchDone
    <3>2. IsCleanup(j) /\ jobs[j].node = n /\ jobs[j].payload.t = t
      BY <3>1 DEF CleansSide
    <3> QED  BY <3>1, <3>2 DEF BackhaulInv, JobInv, CleanupsLast
  <2>4. manifest[n] \subseteq Profiles /\ runtime[n] \subseteq Profiles
    BY DEF BackhaulInv, JobInv, NodesFit
  <2> QED  BY <2>3, <2>4
<1> QED  BY <1>1, BackhaulInvariant, PTL

\* At rest the ingress node routes by the transport that the active link has
\* selected, when no refresh was lost or overtaken and no route policy job has
\* failed: promotions, activations and applies all end in a refresh
\* (PromoteBackhaulTransport, queueBackhaulRoutePolicyRefresh).
THEOREM RouteFollows == (Link!Spec => []RouteFollowsLink) /\ (Spec => []RouteFollowsLink)
<1>1. BackhaulInv => RouteFollowsLink
  <2> SUFFICES ASSUME BackhaulInv, Link!AtRest, ~astray, Selected # "none",
                      \A j \in DOMAIN jobs : IsRoute(j) => jobs[j].status = "succeeded"
               PROVE  route = Selected
    BY DEF RouteFollowsLink, Link!RouteFollowsLink, Selected, IsRoute, Link!Job, Link!None
  <2>1. RoutesWell
    BY DEF RoutesWell
  <2>2. ~ RefreshDue
    BY DEF RefreshDue, CallRefreshDue, ResultRefreshDue, Link!AtRest, Link!Idle, Link!Job
  <2>3. PICK j \in DOMAIN jobs : LastRoute(j) /\ jobs[j].payload.t = Selected
    BY <2>1, <2>2 DEF BackhaulInv, OwesInv, RouteOwed, LastRouteIs
  <2>4. jobs[j].status = "succeeded"
    BY <2>3 DEF LastRoute
  <2> QED  BY <2>1, <2>3, <2>4 DEF BackhaulInv, JobInv, RouteRun
<1> QED  BY <1>1, BackhaulInvariant, PTL
=============================================================================
