---------------------------- MODULE Provisioning ----------------------------
(***************************************************************************)
(* Service accesses of clients: how the worker's drivers give each access  *)
(* a credential and an address, list it in the instance's spec, build the  *)
(* client's config files and have the instance applied; how an access is   *)
(* rotated, revoked and deleted, and what becomes of its files.            *)
(*                                                                         *)
(* Sources: cmd/worker/main.go, provisioning.go, driver_state.go;          *)
(* internal/infra/postgres/provisioning.go, store.go, client_cleanup.go,   *)
(* service_access_rotation.go, instance_drivers.go.  A credential is a     *)
(* number, the address (WireGuard) or port (Shadowsocks, MTProto) of an    *)
(* access another.  Driver says which kind an instance is.  One worker;    *)
(* deletions run beside it, statement by statement.                        *)
(***************************************************************************)
EXTENDS NodeJobs, FiniteSets, FiniteSetsExt, SequencesExt

CONSTANTS
  Client, Instance,
  Driver,     \* by instance: "wireguard" (peers) or "ports" (one port per access)
  MaxOps

VARIABLES
  client,     \* the rows of client_accounts, by client: present or not
  access,     \* by client and instance: the row of service_accesses
  spec,       \* by instance: the managed peers of its current spec
  runtime,    \* by instance: the managed peers it runs with
  row,        \* by client and config: what the artifact of the row holds
  file,       \* by client and config: what the file on disk holds
  worker,     \* what the worker has read and built
  call,       \* what is left of the deletion under way
  minted,     \* credentials and rows made so far
  retired,    \* by client and instance: credentials that a rotation was to replace
  returned,   \* accesses that were revoked and provisioned again
  ops

vars == <<client, access, spec, runtime, row, file, worker, call, minted, retired, returned, ops,
          jobs, agent, faults>>
ghosts == <<retired, returned>>
store == <<client, access, spec, row, file, minted>>

Worker == "worker"
Bundle == "zip_bundle"
Config == Instance \cup {Bundle}
NoRow == [id |-> 0, status |-> "none", cred |-> 0, addr |-> 0, rotate |-> FALSE]
NoCall == [c |-> "none", todo |-> <<>>]
NoPeers == [c \in Client |-> <<0, 0>>]
NothingRead == [snap |-> [c \in Client |-> NoRow], first |-> [i \in Instance |-> 0], files |-> {}]

Init ==
  /\ client = [c \in Client |-> TRUE]
  /\ access = [c \in Client |-> [i \in Instance |-> NoRow]]
  /\ spec = [i \in Instance |-> NoPeers]
  /\ runtime = [i \in Instance |-> NoPeers]
  /\ row = [c \in Client |-> [f \in Config |-> {}]]
  /\ file = [c \in Client |-> [f \in Config |-> {}]]
  /\ worker = NothingRead
  /\ call = NoCall
  /\ minted = 0
  /\ retired = [c \in Client |-> [i \in Instance |-> {}]]
  /\ returned = {}
  /\ ops = 0
  /\ JobsInit

Live(a) == a.status \in {"pending", "active"}

Op == ops < MaxOps /\ ops' = ops + 1

-----------------------------------------------------------------------------
(***************************************************************************)
(* Requests of the API.                                                    *)
(***************************************************************************)
\* The upsert of ensureClientProvisioningAccesses: what an existing row has
\* stays, its status becomes pending when the call is to provision.
ensured(c, S, markPending) ==
  [access EXCEPT ![c] = [i \in Instance |->
    IF i \notin S THEN @[i]
    ELSE IF @[i] = NoRow THEN [NoRow EXCEPT !.id = minted + 1, !.status = "pending"]
    ELSE IF markPending THEN [@[i] EXCEPT !.status = "pending"] ELSE @[i]]]

provisionJob(c, S, type) == Queue(type, Worker, c, S)

\* ProvisionClientWithOptions, CreateArtifactBuildJob.
ProvisionClient ==
  /\ \E c \in Client, S \in SUBSET Instance \ {{}}, type \in {"client.provision", "artifact.build"} :
       /\ client[c]
       /\ access' = ensured(c, S, type = "client.provision")
       /\ provisionJob(c, S, type)
       /\ returned' = returned \cup {<<c, i>> : i \in {i \in S : access[c][i].status = "revoked"
                                                             /\ type = "client.provision"}}
  /\ minted' = IF access' = access THEN minted ELSE minted + 1
  /\ Op
  /\ UNCHANGED <<client, spec, runtime, row, file, worker, call, retired, agent, faults>>

\* RotateServiceAccess: the credential goes and a flag asks for another; a
\* WireGuard peer gets another address too.
RotateServiceAccess ==
  /\ \E c \in Client, i \in Instance :
       LET a == access[c][i]
       IN  /\ a.status \notin {"none", "revoked"}
           /\ access' = [access EXCEPT ![c][i] = [a EXCEPT
                !.status = "pending", !.rotate = TRUE, !.cred = 0,
                !.addr = IF Driver[i] = "wireguard" THEN 0 ELSE @]]
           /\ retired' = [retired EXCEPT ![c][i] = @ \cup {x[2] : x \in row[c][i]}]
           /\ provisionJob(c, {i}, "client.provision")
  /\ Op
  /\ UNCHANGED <<client, spec, runtime, row, file, worker, call, minted, returned, agent, faults>>

\* RevokeClient and SetClientStatus; the job of the first is one the worker
\* does not know.
RevokeClient ==
  /\ \E c \in Client :
       /\ client[c]
       /\ access' = [access EXCEPT ![c] = [i \in Instance |->
            IF @[i] = NoRow THEN NoRow ELSE [@[i] EXCEPT !.status = "revoked"]]]
       /\ Queue("client.revoke", Worker, c, {}) \/ UNCHANGED jobs
  /\ Op
  /\ UNCHANGED <<client, spec, runtime, row, file, worker, call, minted, ghosts, agent, faults>>

-----------------------------------------------------------------------------
(***************************************************************************)
(* Deletions: a transaction over the rows, the files after it, and the     *)
(* applies of the instances last.                                          *)
(***************************************************************************)
Deletion(c, todo) == call = NoCall /\ call' = [c |-> c, todo |-> todo] /\ Op

Files(S) == LET s == SetToSeq(S) IN [n \in DOMAIN s |-> [do |-> "file", f |-> s[n]]]
Applies(S) == LET s == SetToSeq(S) IN [n \in DOMAIN s |-> [do |-> "apply", f |-> s[n]]]
Directory == <<[do |-> "directory", f |-> Bundle]>>

noRows(c) == [row EXCEPT ![c] = [f \in Config |-> {}]]
kept(c) == {f \in Config : row[c][f] # {}}

ClearClientConfigs ==
  /\ \E c \in Client : /\ client[c]
                       /\ row' = noRows(c)
                       /\ Deletion(c, Files(kept(c)) \o Directory)
  /\ UNCHANGED <<client, access, spec, file, minted>>

DeleteArtifact ==
  /\ \E c \in Client : \E f \in kept(c) : /\ row' = [row EXCEPT ![c][f] = {}]
                                          /\ Deletion(c, Files({f}))
  /\ UNCHANGED <<client, access, spec, file, minted>>

DeleteClient ==
  /\ \E c \in Client :
       /\ client[c]
       /\ client' = [client EXCEPT ![c] = FALSE]
       /\ access' = [access EXCEPT ![c] = [i \in Instance |-> NoRow]]
       /\ row' = noRows(c)
       /\ Deletion(c, Files(kept(c)) \o Directory \o Applies({i \in Instance : access[c][i] # NoRow}))
  /\ UNCHANGED <<spec, file, minted>>

\* deleteServiceAccessRowsTx: the row, its artifacts, its secrets.
DeleteClientServiceAccess ==
  /\ \E c \in Client, i \in Instance :
       /\ access[c][i] # NoRow
       /\ access' = [access EXCEPT ![c][i] = NoRow]
       /\ row' = [row EXCEPT ![c][i] = {}]
       /\ Deletion(c, Files(kept(c) \cap {i}) \o Applies({i}))
  /\ UNCHANGED <<client, spec, file, minted>>

DeletionBegins ==
  /\ ClearClientConfigs \/ DeleteArtifact \/ DeleteClient \/ DeleteClientServiceAccess
  /\ UNCHANGED <<runtime, worker, ghosts, jobs, agent, faults>>

CallAt(what) == call.todo # <<>> /\ Head(call.todo).do = what

CallAdvance == call' = IF Len(call.todo) = 1 THEN NoCall ELSE [call EXCEPT !.todo = Tail(@)]

\* removeManagedArtifactFiles.
removeFile ==
  /\ CallAt("file")
  /\ file' = [file EXCEPT ![call.c][Head(call.todo).f] = {}]
  /\ CallAdvance
  /\ UNCHANGED jobs

\* removeClientArtifactFiles.
removeDirectory ==
  /\ CallAt("directory")
  /\ file' = [file EXCEPT ![call.c] = [f \in Config |-> {}]]
  /\ CallAdvance
  /\ UNCHANGED jobs

\* queueClientCleanupConvergence: the current spec is applied again.
queueCleanupApply ==
  LET i == Head(call.todo).f
  IN  /\ CallAt("apply")
      /\ Queue("instance.apply", i, i, spec[i])
      /\ CallAdvance
      /\ UNCHANGED file

CallStep ==
  /\ removeFile \/ removeDirectory \/ queueCleanupApply
  /\ UNCHANGED <<client, access, spec, runtime, row, worker, minted, ghosts, ops, agent, faults>>

-----------------------------------------------------------------------------
(***************************************************************************)
(* The worker: handleClientProvisionJobWithApply.                          *)
(***************************************************************************)
Step(what, i) == [do |-> what, i |-> i, c |-> "none"]

\* ListProvisioningAccesses, of the instances the job names.
provisionable(j) == {i \in jobs[j].payload : access[jobs[j].scope][i].status \notin {"none", "revoked"}}

\* Mutant: the files are built and no apply is asked for.
handleWithoutApply(S) ==
  LET s == SetToSeq(S)
  IN  FlattenSeq([n \in DOMAIN s |-> <<Step("read", s[n]), Step("build", s[n])>>])
      \o FlattenSeq([n \in DOMAIN s |-> <<Step("file", s[n]), Step("row", s[n])>>])

\* For every access the driver's state and the files; then for every instance
\* the driver's state again and an apply; then each file and its row, the
\* bundle last.
handleClientProvisionJob(S) ==
  LET s == SetToSeq(S)
  IN  FlattenSeq([n \in DOMAIN s |-> <<Step("read", s[n]), Step("build", s[n])>>])
      \o FlattenSeq([n \in DOMAIN s |-> <<Step("read", s[n]), Step("apply", s[n])>>])
      \o FlattenSeq([n \in DOMAIN s |-> <<Step("file", s[n]), Step("row", s[n])>>])
      \o <<Step("file", Bundle), Step("row", Bundle)>>

WorkerClaim ==
  /\ \E j \in Job :
       /\ Claimable(Worker, j)
       /\ LET known == jobs[j].type # "client.revoke"
              S == IF known THEN provisionable(j) ELSE {}
          IN  /\ Claim(Worker, j, IF S = {} THEN <<Step("fail", Bundle)>> ELSE handleClientProvisionJob(S))
              /\ worker' = IF ~known THEN worker
                           ELSE [NothingRead EXCEPT !.first = [i \in Instance |-> access[jobs[j].scope][i].cred]]
  /\ UNCHANGED <<store, runtime, call, ghosts, ops, faults>>

WorkerAt(what) == Working(Worker) /\ agent[Worker].todo # <<>> /\ Head(agent[Worker].todo).do = what
Here == Head(agent[Worker].todo)
Owner == jobs[agent[Worker].job].scope

Then(todo) == agent' = [agent EXCEPT ![Worker].todo = todo \o Tail(@)]

\* The ensure...InstanceDriverState functions read the accesses of the instance
\* that are pending or active (ListProvisioningAccessesByInstance).  Without
\* any, the drivers of ports leave the spec as it is.
driverReads ==
  LET snap == [c \in Client |-> IF Live(access[c][Here.i]) THEN access[c][Here.i] ELSE NoRow]
      listed == {c \in Client : snap[c] # NoRow}
      s == SetToSeq(listed)
  IN  /\ WorkerAt("read")
      /\ worker' = [worker EXCEPT !.snap = snap]
      /\ Then([n \in DOMAIN s |-> [do |-> "assign", i |-> Here.i, c |-> s[n]]]
              \o IF listed = {} /\ Driver[Here.i] = "ports" THEN <<>> ELSE <<Step("write", Here.i)>>)
      /\ UNCHANGED <<store, runtime, call, ghosts, ops, jobs, faults>>

needsCredential(a) == a.rotate \/ a.cred = 0
needsAddress(a, kind) == a.addr = 0 \/ (a.rotate /\ kind = "wireguard")

\* Mutant: only an active access keeps its address for itself.
nextOfActive(snap) ==
  Min((1..(Cardinality(Client) + 1)) \ {snap[c].addr : c \in {d \in Client : snap[d].status = "active"}})

\* nextWireGuardClientAddress, nextAvailablePort: the first that no listed
\* access has.
nextAvailable(snap) == Min((1..(Cardinality(Client) + 1)) \ {snap[c].addr : c \in Client})

\* Mutant: the metadata is written back whether it has changed or not.
metadataWritten(a, kind) == TRUE

\* An access of the list gets what it lacks; only then is its metadata
\* written, as a whole, to the row it was read from.
metadataChanged(a, kind) == needsCredential(a) \/ needsAddress(a, kind)

driverAssigns ==
  LET c == Here.c
      i == Here.i
      a == worker.snap[c]
      changed == metadataChanged(a, Driver[i])
      b == [a EXCEPT !.cred = IF needsCredential(a) THEN minted + 1 ELSE @,
                     !.addr = IF needsAddress(a, Driver[i]) THEN nextAvailable(worker.snap) ELSE @,
                     !.rotate = FALSE]
  IN  /\ WorkerAt("assign")
      /\ worker' = [worker EXCEPT !.snap[c] = b]
      /\ access' = IF changed /\ access[c][i].id = a.id
                   THEN [access EXCEPT ![c][i] = [b EXCEPT !.status = access[c][i].status]] ELSE access
      /\ minted' = IF needsCredential(a) THEN minted + 1 ELSE minted
      /\ Advance(Worker)
      /\ UNCHANGED <<client, spec, runtime, row, file, call, ghosts, ops, jobs, faults>>

\* ReplaceInstanceSpec with the list of managed peers.
driverWrites ==
  /\ WorkerAt("write")
  /\ spec' = [spec EXCEPT ![Here.i] = [c \in Client |-> <<worker.snap[c].cred, worker.snap[c].addr>>]]
  /\ Advance(Worker)
  /\ UNCHANGED <<client, access, runtime, row, file, worker, call, minted, ghosts, ops, jobs, faults>>

\* The access is read again for its files; one that is gone or revoked is built
\* from what the job read first, and a config without a credential is an error.
buildArtifacts ==
  LET a == access[Owner][Here.i]
      cred == IF a.status \in {"none", "revoked"} THEN worker.first[Here.i] ELSE a.cred
  IN  /\ WorkerAt("build")
      /\ IF cred = 0 THEN Finish(Worker, "failed") /\ UNCHANGED worker
         ELSE Advance(Worker) /\ worker' = [worker EXCEPT !.files = @ \cup {<<Here.i, cred>>}]
      /\ UNCHANGED <<store, runtime, call, ghosts, ops, jobs, faults>>

WorkerQueuesApply ==
  /\ WorkerAt("apply")
  /\ Queue("instance.apply", Here.i, Here.i, spec[Here.i])
  /\ Advance(Worker)
  /\ UNCHANGED <<store, runtime, worker, call, ghosts, ops, faults>>

\* SaveArtifactContent: the file, then the row that replaces the old one; a row
\* for a client or an access that is gone is refused.
content(f) == {x \in worker.files : f = Bundle \/ x[1] = f}

saveFile ==
  /\ WorkerAt("file")
  /\ file' = [file EXCEPT ![Owner][Here.i] = content(Here.i)]
  /\ Advance(Worker)
  /\ UNCHANGED <<client, access, spec, runtime, row, worker, call, minted, ghosts, ops, jobs, faults>>

saveRow ==
  /\ WorkerAt("row")
  /\ IF client[Owner] /\ (Here.i # Bundle => access[Owner][Here.i] # NoRow)
     THEN row' = [row EXCEPT ![Owner][Here.i] = content(Here.i)] /\ Advance(Worker)
     ELSE UNCHANGED row /\ Finish(Worker, "failed")
  /\ UNCHANGED <<client, access, spec, runtime, file, worker, call, minted, ghosts, ops, jobs, faults>>

WorkerEnds ==
  /\ \/ Working(Worker) /\ agent[Worker].todo = <<>> /\ Finish(Worker, "succeeded")
     \/ WorkerAt("fail") /\ Finish(Worker, "failed")
  /\ UNCHANGED <<store, runtime, worker, call, ghosts, ops, jobs, faults>>

-----------------------------------------------------------------------------
\* The agents, and what a completion does.
AgentClaim ==
  /\ \E i \in Instance, j \in Job : Claimable(i, j) /\ Claim(i, j, <<>>)
  /\ UNCHANGED <<store, runtime, worker, call, ghosts, ops, faults>>

AgentApply ==
  /\ \E i \in Instance : /\ Working(i)
                         /\ runtime' = [runtime EXCEPT ![i] = jobs[agent[i].job].payload]
                         /\ Finish(i, "succeeded")
  /\ UNCHANGED <<store, worker, call, ghosts, ops, jobs, faults>>

Result ==
  /\ \E n \in Node : AgentJobResult(n)
  /\ UNCHANGED <<store, runtime, worker, call, ghosts, ops>>

SideEffects ==
  /\ \E j \in Job :
       /\ EffectDue(j) /\ EffectDone(j)
       /\ access' = IF jobs[j].type # "instance.apply" \/ jobs[j].status # "succeeded" THEN access
                    ELSE [c \in Client |-> [access[c] EXCEPT ![jobs[j].scope].status =
                                              IF @ = "pending" THEN "active" ELSE @]]
  /\ UNCHANGED <<client, spec, runtime, row, file, worker, call, minted, ghosts, ops, faults>>

Faults ==
  /\ CompletionCrash \/ LeaseLapse \/ AgentCrash
  /\ UNCHANGED <<store, runtime, worker, call, ghosts, ops>>

Next ==
  \/ ProvisionClient \/ RotateServiceAccess \/ RevokeClient
  \/ DeletionBegins \/ CallStep
  \/ WorkerClaim \/ driverReads \/ driverAssigns \/ driverWrites \/ buildArtifacts
  \/ WorkerQueuesApply \/ saveFile \/ saveRow \/ WorkerEnds
  \/ AgentClaim \/ AgentApply \/ Result \/ SideEffects \/ Faults

-----------------------------------------------------------------------------
(***************************************************************************)
(* Properties.                                                             *)
(***************************************************************************)
Rest == Quiet /\ call = NoCall /\ \A j \in Job : jobs[j].status = "succeeded" /\ jobs[j].effect = "applied"

LiveAccesses == {x \in Client \X Instance : Live(access[x[1]][x[2]])}

\* At rest, with every job done, an access that is meant to work does: the
\* instance runs with its credential and address, and so does its config.
AccessWorks ==
  Rest => \A x \in LiveAccesses :
    LET a == access[x[1]][x[2]]
    IN  /\ runtime[x[2]][x[1]] = <<a.cred, a.addr>> /\ a.cred # 0
        /\ row[x[1]][x[2]] \subseteq {<<x[2], a.cred>>}

\* A credential that had been handed out when it was rotated is not used again.
RotationTakesEffect ==
  Rest => \A x \in LiveAccesses : access[x[1]][x[2]].cred \notin retired[x[1]][x[2]]

\* No two accesses of an instance are given one address, unless one of them had
\* been revoked and came back with the address it had.
UniqueAddress ==
  \A x, y \in LiveAccesses \ returned :
    x # y /\ x[2] = y[2] /\ access[x[1]][x[2]].addr # 0 =>
      access[x[1]][x[2]].addr # access[y[1]][y[2]].addr

Spec == Init /\ [][Next]_vars
=============================================================================
