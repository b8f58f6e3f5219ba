---------------------------- MODULE AccessGroups ----------------------------
(***************************************************************************)
(* Access groups of the VLESS service: which group a client is a member    *)
(* of, the instances a group covers, the service accesses that are         *)
(* materialized from both, the catalogue of groups and the list of managed *)
(* clients in an instance's spec, and what its Xray runs after an apply.   *)
(*                                                                         *)
(* Sources: internal/infra/postgres/client_access_groups.go,               *)
(* client_access_materialization.go, client_access_metadata.go, store.go;  *)
(* cmd/worker/provisioning.go, driver_state.go.  A call of the API is the  *)
(* list of its statements that are left to run; several calls, the worker  *)
(* and the agents interleave between them.  The worker is the node Worker  *)
(* of NodeJobs, an instance's agent is the node of the instance's name.    *)
(* The identity of a client and its artifacts are in Provisioning; policy  *)
(* documents and external egress (ExternalEgress) are left out.            *)
(***************************************************************************)
EXTENDS NodeJobs, FiniteSets, SequencesExt

CONSTANTS
  Group,      \* the groups, in the order of the catalogue
  Client,
  Instance,   \* the Xray instances, each the only one of its node
  Call,       \* calls of the API that may be under way at once
  Initial,    \* the instances that exist when a behaviour begins
  Created,    \* the groups that do, over every instance there is or will be
  MaxOps      \* how many calls a behaviour has

VARIABLES
  group,      \* by group: status, the instances its scope selects, auto_apply_new_instances
  member,     \* by client: the group of its active membership
  access,     \* by client and instance: the row of service_accesses
  exists,     \* the instances created so far
  spec,       \* by instance: the spec of its current revision
  runtime,    \* by instance: the spec its Xray runs
  worker,     \* what the worker's driver has read of an instance
  call,       \* by call: what is left of it
  ops

vars == <<group, member, access, exists, spec, runtime, worker, call, ops, jobs, agent, faults>>
rows == <<group, member, access, exists, spec>>

Worker == "worker"
None == "none"
Groups == Range(Group)
NoAccess == [status |-> None, key |-> None, gid |-> None]
NoCall == [g |-> None, todo |-> <<>>, previous |-> {}, targets |-> {}, clients |-> {}, made |-> FALSE]
EmptySpec == [groups |-> {}, default |-> None, managed |-> [c \in Client |-> None]]

Init ==
  /\ group = [g \in Groups |-> IF g \in Created THEN [status |-> "active", scope |-> Instance, auto |-> TRUE]
                               ELSE [status |-> None, scope |-> {}, auto |-> FALSE]]
  /\ member = [c \in Client |-> None]
  /\ access = [c \in Client |-> [i \in Instance |-> NoAccess]]
  /\ exists = Initial
  /\ spec = [i \in Instance |-> EmptySpec]
  /\ runtime = [i \in Instance |-> EmptySpec]
  /\ worker = EmptySpec
  /\ call = [k \in Call |-> NoCall]
  /\ ops = 0
  /\ JobsInit

-----------------------------------------------------------------------------
(***************************************************************************)
(* The catalogue in an instance's spec.                                    *)
(***************************************************************************)
Active == {g \in Groups : group[g].status = "active"}

\* ListClientAccessGroups: a deleted group is no longer listed.
Catalogue == {g \in Groups : group[g].status \in {"active", "disabled"}}

FirstOf(S) == Group[CHOOSE n \in DOMAIN Group : Group[n] \in S /\ \A m \in 1..(n - 1) : Group[m] \notin S]

\* specWithVLESSAccessPolicyCatalogSnapshot: the active groups, then what the
\* spec has beside the groups of the catalogue.
specWithVLESSAccessPolicyCatalogSnapshot(s) ==
  LET merged == Active \cup (s.groups \ Catalogue)
  IN  IF merged = {} THEN s
      ELSE [s EXCEPT !.groups = merged,
                     !.default = IF @ \in merged THEN @
                                 ELSE FirstOf(IF Active # {} THEN Active ELSE merged)]

\* ensureXrayProvisioningGroups: a spec that changes becomes a new revision.
ensureXrayProvisioningGroups(S) ==
  spec' = [i \in Instance |-> IF i \in S THEN specWithVLESSAccessPolicyCatalogSnapshot(spec[i]) ELSE spec[i]]

\* resolveVLESSAccessGroupInstances: the instances in scope whose spec has the
\* group once the catalogue is in it.
resolveClientAccessGroupInstances(g) ==
  {i \in exists \cap group[g].scope :
     group[g].status # "deleted" /\ g \in specWithVLESSAccessPolicyCatalogSnapshot(spec[i]).groups}

\* activeClientAccessGroupMemberIDs.
activeMembers(g) == {c \in Client : member[c] = g}

Live(a) == a.status \in {"pending", "active"}

\* clientAccessGroupMaterializedInstances.
materializedInstances(g) == {i \in exists : \E c \in Client : access[c][i].gid = g /\ Live(access[c][i])}

-----------------------------------------------------------------------------
(***************************************************************************)
(* The statements a call is made of.                                       *)
(***************************************************************************)
Do(what) == [do |-> what, i |-> None, c |-> None]
Each(what, S) == LET s == SetToSeq(S) IN [n \in DOMAIN s |-> [do |-> what, i |-> s[n], c |-> None]]

\* materializeClientAccessGroup: every client on every instance, a binding and
\* then its mark.
materializeClientAccessGroup(targets, clients) ==
  LET pairs == SetToSeq(targets \X clients)
  IN  FlattenSeq([n \in DOMAIN pairs |->
        <<[do |-> "project", i |-> pairs[n][1], c |-> pairs[n][2]],
          [do |-> "mark", i |-> pairs[n][1], c |-> pairs[n][2]]>>])

\* The call has done its checks; force: jobs are queued though nothing changes.
Begin(k, g, todo, previous, force) ==
  /\ call[k] = NoCall
  /\ ops < MaxOps
  /\ ops' = ops + 1
  /\ call' = [call EXCEPT ![k] = [NoCall EXCEPT !.g = g, !.todo = todo, !.previous = previous, !.made = force]]

\* The call goes on with the rest, from which its last statement may drop it.
Goes(k, with) ==
  call' = [call EXCEPT ![k] = IF with.todo = <<>> THEN NoCall ELSE with]

Rest(k) == [call[k] EXCEPT !.todo = Tail(@)]

At(k, what) == call[k].todo # <<>> /\ Head(call[k].todo).do = what

\* syncClientAccessGroupRuntime of an active group begins by resolving it.
resolveForSync(k) ==
  LET g == call[k].g
      targets == resolveClientAccessGroupInstances(g)
  IN  /\ At(k, "sync")
      /\ ensureXrayProvisioningGroups(exists \cap group[g].scope)
      /\ Goes(k, [Rest(k) EXCEPT
           !.todo = materializeClientAccessGroup(targets, activeMembers(g))
                      \o <<Do("disableOutside"), Do("provision")>> \o @,
           !.targets = targets])
      /\ UNCHANGED <<group, member, access, exists, jobs>>

\* bulkClientAccessGroupMembers resolves before it writes any membership.
resolveForBulk(k) ==
  LET g == call[k].g
  IN  /\ At(k, "resolve")
      /\ ensureXrayProvisioningGroups(exists \cap group[g].scope)
      /\ Goes(k, [Rest(k) EXCEPT !.targets = resolveClientAccessGroupInstances(g)])
      /\ UNCHANGED <<group, member, access, exists, jobs>>

\* previewClientAccessGroupMember: nothing to do for a member of the group,
\* and, unless the caller may move it, for one of another.
previewSkips(c, g, mode) == member[c] = g \/ (member[c] # None /\ mode = "add_only")

upsertClientAccessGroupMember(k) ==
  LET x == Head(call[k].todo)
      skip == previewSkips(x.c, call[k].g, x.i)
  IN  /\ At(k, "upsert")
      /\ member' = IF skip THEN member ELSE [member EXCEPT ![x.c] = call[k].g]
      /\ Goes(k, IF skip THEN Rest(k) ELSE [Rest(k) EXCEPT !.clients = @ \cup {x.c}])
      /\ UNCHANGED <<group, access, exists, spec, jobs>>

materializeChanged(k) ==
  /\ At(k, "materialize")
  /\ Goes(k, [Rest(k) EXCEPT !.todo = materializeClientAccessGroup(call[k].targets, call[k].clients) \o @])
  /\ UNCHANGED <<rows, jobs>>

\* Mutant: whether the binding is still in use is not looked at.
sameKeyStays(a, g) == a.key = g

\* upsertInstanceVLESSAccessProjection: a binding that has the group and is
\* not disabled stays; the group must be in the instance's catalogue.
projectionStays(a, g) == a.key = g /\ Live(a)

upsertInstanceVLESSAccessProjection(k) ==
  LET x == Head(call[k].todo)
      g == call[k].g
      stays == projectionStays(access[x.c][x.i], g)
      synced == specWithVLESSAccessPolicyCatalogSnapshot(spec[x.i])
  IN  /\ At(k, "project")
      /\ IF stays
         THEN UNCHANGED <<spec, access>> /\ Goes(k, Rest(k))
         ELSE /\ ensureXrayProvisioningGroups({x.i})
              /\ IF g \in synced.groups
                 THEN /\ access' = [access EXCEPT ![x.c][x.i].status = "pending", ![x.c][x.i].key = g]
                      /\ Goes(k, [Rest(k) EXCEPT !.made = TRUE])
                 ELSE UNCHANGED access /\ Goes(k, [Rest(k) EXCEPT !.todo = Tail(@)])
      /\ UNCHANGED <<group, member, exists, jobs>>

nextGroup(k) ==
  /\ At(k, "group")
  /\ Goes(k, [Rest(k) EXCEPT !.g = Head(call[k].todo).i, !.made = FALSE])
  /\ UNCHANGED <<rows, jobs>>

markServiceAccessClientAccessGroup(k) ==
  LET x == Head(call[k].todo)
  IN  /\ At(k, "mark")
      /\ access' = [access EXCEPT ![x.c][x.i].gid = call[k].g]
      /\ Goes(k, Rest(k))
      /\ UNCHANGED <<group, member, exists, spec, jobs>>

\* disableClientAccessGroupMaterialization: the group's bindings of the clients
\* on the instances.
disabled(g, clients, instances) ==
  [c \in Client |-> [i \in Instance |->
    IF c \in clients /\ i \in instances /\ access[c][i].gid = g /\ Live(access[c][i])
    THEN [access[c][i] EXCEPT !.status = "disabled"] ELSE access[c][i]]]

disableOutside(k) ==
  LET off == disabled(call[k].g, Client, Instance \ call[k].targets)
  IN  /\ At(k, "disableOutside")
      /\ access' = off
      /\ Goes(k, [Rest(k) EXCEPT !.made = @ \/ off # access])
      /\ UNCHANGED <<group, member, exists, spec, jobs>>

\* The disabling half of syncClientAccessGroupRuntime, with the instances
\* whose apply it queues.
disableAll(k) ==
  LET g == call[k].g
  IN  /\ At(k, "disableAll")
      /\ access' = disabled(g, Client, Instance)
      /\ Goes(k, [Rest(k) EXCEPT !.todo = Each("apply", call[k].previous \cup materializedInstances(g)) \o @])
      /\ UNCHANGED <<group, member, exists, spec, jobs>>

\* RemoveClientAccessGroupMember after the membership is gone.
disableMember(k) ==
  LET g == call[k].g
  IN  /\ At(k, "disableMember")
      /\ access' = disabled(g, {Head(call[k].todo).c}, Instance)
      /\ Goes(k, [Rest(k) EXCEPT !.todo = Each("apply", resolveClientAccessGroupInstances(g)) \o @])
      /\ UNCHANGED <<group, member, exists, spec, jobs>>

queueClientAccessGroupProvisionJob(k) ==
  LET instances == call[k].previous \cup call[k].targets
  IN  /\ At(k, "provision")
      /\ IF call[k].made /\ instances # {}
         THEN QueueAt(80, "client_access_group.provision", Worker, call[k].g, instances)
         ELSE UNCHANGED jobs
      /\ Goes(k, Rest(k))
      /\ UNCHANGED rows

\* UpdateInstanceStatus: the apply carries the spec of the current revision.
queueInstanceApply(k) ==
  LET i == Head(call[k].todo).i
  IN  /\ At(k, "apply")
      /\ Queue("instance.apply", i, i, spec[i])
      /\ Goes(k, Rest(k))
      /\ UNCHANGED rows

CallStep ==
  /\ \E k \in Call :
       \/ resolveForSync(k) \/ resolveForBulk(k) \/ upsertClientAccessGroupMember(k)
       \/ materializeChanged(k) \/ nextGroup(k) \/ upsertInstanceVLESSAccessProjection(k)
       \/ markServiceAccessClientAccessGroup(k) \/ disableOutside(k) \/ disableAll(k)
       \/ disableMember(k) \/ queueClientAccessGroupProvisionJob(k) \/ queueInstanceApply(k)
  /\ UNCHANGED <<runtime, worker, ops, agent, faults>>

-----------------------------------------------------------------------------
(***************************************************************************)
(* The calls.  A check and the write that follows it are one step here;    *)
(* the statements after it are the call's todo.                            *)
(***************************************************************************)
GroupWrite(g, row) == group' = [group EXCEPT ![g] = row]

\* Selected instances, all, or all except selected ones: an instance that does
\* not exist yet is covered by the last two.
scopeChoices == {S \in SUBSET Instance : S \ exists \in {{}, Instance \ exists}}

CreateClientAccessGroup(k) ==
  \E g \in Groups, S \in scopeChoices, auto \in BOOLEAN :
    /\ group[g].status = None
    /\ GroupWrite(g, [status |-> "active", scope |-> S, auto |-> auto])
    /\ call[k] = NoCall /\ ops < MaxOps /\ ops' = ops + 1
    /\ UNCHANGED <<member, access, exists, spec, call>>

\* SetClientAccessGroupStatus, and UpdateClientAccessGroup of a status.
SetClientAccessGroupStatus(k) ==
  \E g \in Groups, status \in {"active", "disabled"} :
    /\ group[g].status \in {"active", "disabled"}
    /\ GroupWrite(g, [group[g] EXCEPT !.status = status])
    /\ Begin(k, g, <<Do(IF status = "active" THEN "sync" ELSE "disableAll")>>,
             resolveClientAccessGroupInstances(g), TRUE)
    /\ UNCHANGED <<member, access, exists, spec>>

DeleteClientAccessGroupSoft(k) ==
  \E g \in Groups :
    /\ group[g].status # None
    /\ GroupWrite(g, [group[g] EXCEPT !.status = "deleted"])
    /\ Begin(k, g, <<Do("disableAll")>>, resolveClientAccessGroupInstances(g), TRUE)
    /\ UNCHANGED <<member, access, exists, spec>>

\* The transaction of UpdateClientAccessGroupScope, then a sync.
UpdateClientAccessGroupScope(k) ==
  \E g \in Groups, S \in scopeChoices, auto \in BOOLEAN :
    /\ group[g].status = "active"
    /\ GroupWrite(g, [group[g] EXCEPT !.scope = S, !.auto = auto])
    /\ Begin(k, g, <<Do("sync")>>, resolveClientAccessGroupInstances(g), FALSE)
    /\ UNCHANGED <<member, access, exists, spec>>

ApplyClientAccessGroupSync(k) ==
  \E g \in Groups :
    /\ group[g].status = "active"
    /\ Begin(k, g, <<Do("sync")>>, {}, TRUE)
    /\ UNCHANGED rows

\* bulkClientAccessGroupMembers.
BulkMembers(k) ==
  \E g \in Groups, C \in SUBSET Client \ {{}}, mode \in {"add_only", "add_or_move"} :
    LET s == SetToSeq(C)
    IN  /\ group[g].status = "active"
        /\ Begin(k, g, <<Do("resolve")>> \o [n \in DOMAIN s |-> [do |-> "upsert", i |-> mode, c |-> s[n]]]
                          \o <<Do("materialize"), Do("provision")>>, {}, FALSE)
        /\ UNCHANGED rows

RemoveClientAccessGroupMember(k) ==
  \E g \in Groups, c \in Client :
    /\ group[g].status \in {"active", "disabled"}
    /\ member[c] = g
    /\ member' = [member EXCEPT ![c] = None]
    /\ Begin(k, g, <<[do |-> "disableMember", i |-> None, c |-> c]>>, {}, TRUE)
    /\ UNCHANGED <<group, access, exists, spec>>

\* CreateInstance: materializeClientAccessGroupsForInstance for the groups that
\* want new instances, then the first apply.
autoGroups(i) == {g \in Active : group[g].auto /\ i \in group[g].scope /\ activeMembers(g) # {}}

CreateInstance(k) ==
  \E i \in Instance \ exists :
    LET s == SetToSeq(autoGroups(i))
    IN  /\ Begin(k, None, FlattenSeq([n \in DOMAIN s |->
                     <<[do |-> "group", i |-> s[n], c |-> None]>>
                       \o materializeClientAccessGroup({i}, activeMembers(s[n])) \o <<Do("provision")>>])
                   \o <<[do |-> "apply", i |-> i, c |-> None]>>, {i}, FALSE)
        /\ exists' = exists \cup {i}
        /\ UNCHANGED <<group, member, access, spec>>

CallBegins ==
  /\ \E k \in Call :
       \/ CreateClientAccessGroup(k) \/ SetClientAccessGroupStatus(k)
       \/ DeleteClientAccessGroupSoft(k) \/ UpdateClientAccessGroupScope(k)
       \/ ApplyClientAccessGroupSync(k) \/ BulkMembers(k)
       \/ RemoveClientAccessGroupMember(k) \/ CreateInstance(k)
  /\ UNCHANGED <<runtime, worker, jobs, agent, faults>>

-----------------------------------------------------------------------------
(***************************************************************************)
(* The worker and the agents.                                              *)
(***************************************************************************)
\* ListClientAccessGroupProvisioningTargets, of the instances the job names.
provisioningTargets(g, instances) ==
  {x \in Client \X (instances \cap exists) :
     member[x[1]] = g /\ access[x[1]][x[2]].gid = g /\ Live(access[x[1]][x[2]])}

\* handleClientAccessGroupProvisionJob: the driver state of every target's
\* instance, then one apply for each instance.
handleClientAccessGroupProvisionJob(j) ==
  LET targets == provisioningTargets(jobs[j].scope, jobs[j].payload)
      s == SetToSeq(targets)
  IN  FlattenSeq([n \in DOMAIN s |->
        <<[do |-> "read", i |-> s[n][2]], [do |-> "write", i |-> s[n][2]]>>])
      \o LET a == SetToSeq({x[2] : x \in targets}) IN [n \in DOMAIN a |-> [do |-> "apply", i |-> a[n]]]

WorkerClaim ==
  /\ \E j \in Job : Claimable(Worker, j) /\ Claim(Worker, j, handleClientAccessGroupProvisionJob(j))
  /\ UNCHANGED <<rows, runtime, worker, call, ops, faults>>

WorkerAt(what) == Working(Worker) /\ agent[Worker].todo # <<>> /\ Head(agent[Worker].todo).do = what

\* xrayAccessVLESSGroup: the binding's group when the spec has it.
xrayAccessVLESSGroup(s, a) == IF s.groups = {} \/ a.key \in s.groups THEN a.key ELSE s.default

\* ensureXrayInstanceDriverState reads the spec and then the bindings that are
\* pending or active ...
ensureXrayReads ==
  LET i == Head(agent[Worker].todo).i
  IN  /\ WorkerAt("read")
      /\ worker' = [spec[i] EXCEPT !.managed =
           [c \in Client |-> IF Live(access[c][i]) THEN xrayAccessVLESSGroup(spec[i], access[c][i]) ELSE None]]
      /\ Advance(Worker)
      /\ UNCHANGED <<rows, runtime, call, ops, jobs, faults>>

\* ... and replaces the spec as a whole.
ensureXrayWrites ==
  /\ WorkerAt("write")
  /\ spec' = [spec EXCEPT ![Head(agent[Worker].todo).i] = worker]
  /\ worker' = EmptySpec
  /\ Advance(Worker)
  /\ UNCHANGED <<group, member, access, exists, runtime, call, ops, jobs, faults>>

WorkerQueuesApply ==
  LET i == Head(agent[Worker].todo).i
  IN  /\ WorkerAt("apply")
      /\ Queue("instance.apply", i, i, spec[i])
      /\ Advance(Worker)
      /\ UNCHANGED <<rows, runtime, worker, call, ops, faults>>

WorkerFinishes ==
  /\ Working(Worker) /\ agent[Worker].todo = <<>>
  /\ Finish(Worker, "succeeded")
  /\ UNCHANGED <<rows, runtime, worker, call, ops, jobs, faults>>

\* The agent takes an apply and runs what it carries.
AgentClaim ==
  /\ \E i \in Instance, j \in Job : Claimable(i, j) /\ Claim(i, j, <<>>)
  /\ UNCHANGED <<rows, runtime, worker, call, ops, faults>>

AgentApply ==
  /\ \E i \in Instance : /\ Working(i)
                         /\ runtime' = [runtime EXCEPT ![i] = jobs[agent[i].job].payload]
                         /\ Finish(i, "succeeded")
  /\ UNCHANGED <<rows, worker, call, ops, jobs, faults>>

Result ==
  /\ \E n \in Node : AgentJobResult(n)
  /\ UNCHANGED <<rows, runtime, worker, call, ops>>

\* applyInstanceJobResult: a successful apply makes the pending bindings active.
SideEffects ==
  /\ \E j \in Job :
       /\ EffectDue(j) /\ EffectDone(j)
       /\ access' = IF jobs[j].type # "instance.apply" THEN access
                    ELSE [c \in Client |-> [access[c] EXCEPT ![jobs[j].scope].status =
                                              IF @ = "pending" THEN "active" ELSE @]]
  /\ UNCHANGED <<group, member, exists, spec, runtime, worker, call, ops, faults>>

Faults ==
  /\ CompletionCrash \/ LeaseLapse \/ AgentCrash
  /\ UNCHANGED <<rows, runtime, worker, call, ops>>

Next ==
  \/ CallBegins \/ CallStep
  \/ WorkerClaim \/ ensureXrayReads \/ ensureXrayWrites \/ WorkerQueuesApply \/ WorkerFinishes
  \/ AgentClaim \/ AgentApply \/ Result \/ SideEffects \/ Faults

-----------------------------------------------------------------------------
(***************************************************************************)
(* Properties.                                                             *)
(***************************************************************************)
Clean == \A j \in Job : jobs[j].status = "succeeded" /\ jobs[j].effect = "applied"

Idle == \A k \in Call : call[k] = NoCall

\* Once calls, worker and agents have come to rest and nothing has failed, a
\* member of an active group is served on every instance the group covers.
MemberServed ==
  Idle /\ Clean /\ Quiet =>
    \A c \in Client, g \in Active : \A i \in exists \cap group[g].scope :
      member[c] = g /\ (i \in Initial \/ group[g].auto) => access[c][i].status = "active" /\ runtime[i].managed[c] # None

Spec == Init /\ [][Next]_vars
=============================================================================
