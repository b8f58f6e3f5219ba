--------------------------- MODULE AgentIdentity ---------------------------
(***************************************************************************)
(* The identity of one node's agent, which two places hold: the control    *)
(* plane's row in node_agents and the agent's state file.  Enrollment      *)
(* writes both; a node.agent.rotate_token job rewrites the state file      *)
(* first, and the row only after its result has been committed.  In        *)
(* between, ValidateAgentToken accepts the new token because a live        *)
(* rotation job carries its hash.                                          *)
(*                                                                         *)
(* Sources: internal/infra/postgres/node_trust.go, node_remediation.go and *)
(* store.go, internal/api/http/server.go, cmd/agent, cmd/worker/bootstrap. *)
(* The queue around the rotation jobs is the one of JobQueue, kept to what *)
(* concerns them: a lease is live or lapsed, and other jobs of the node    *)
(* only show as polls that claim no rotation.  The two minutes that make a *)
(* rotation stale and a claim stuck may have passed whenever asked for.    *)
(***************************************************************************)
EXTENDS Naturals

CONSTANTS
  Rot,        \* ids of node.agent.rotate_token jobs
  Enr,        \* enrollment tokens
  Token,      \* agent tokens; randomToken never returns one twice
  MaxFaults,  \* how many crashes, losses and failures a behaviour has
  MaxOps,     \* how many installations and interventions by operators
  None

ASSUME IdentityAssumption ==
  MaxFaults \in Nat /\ MaxOps \in Nat /\ None \notin Token /\ None \notin Rot /\ None \notin Enr

VARIABLES
  retired,    \* nodes.status = 'retired'
  ident,      \* the node's row of node_agents: who it accepts
  enroll,     \* node_enrollment_tokens.status
  expired,    \* enrollment tokens whose expires_at has passed
  rot,        \* the rows of the rotation jobs
  secrets,    \* tokens whose secret_refs row exists
  evidence,   \* node_agents.last_job_claim_* and last_job_result_*
  requeue,    \* the stale claim RequeueNodeStuckJob has loaded
  agent,      \* the agent process and the two files it keeps
  results,    \* results posted and not yet handled
  issued,     \* tokens randomToken has returned
  causes,     \* history: the events that may separate the two places
  faults,
  ops

identityVars == <<retired, ident, enroll, expired>>
jobVars      == <<rot, secrets, evidence, requeue>>
historyVars  == <<issued, causes, faults, ops>>

vars == <<identityVars, jobVars, agent, results, historyVars>>

Live == {"queued", "running", "retrying"}

\* seenCreated, seenClaimed: the agent was seen, polled or answered after the
\* job was created, was claimed.
NoRot == [status |-> "absent", token |-> None, leased |-> FALSE,
          seenCreated |-> FALSE, seenClaimed |-> FALSE, effect |-> "none"]

Queued(t) == [NoRot EXCEPT !.status = "queued", !.token = t]

\* claim, result: the last job claimed and answered, None for any other job;
\* answered: the last result is not older than the last claim.
NoEvidence == [claim |-> None, result |-> None, answered |-> FALSE]

Down(disk, boot) == [phase |-> "down", disk |-> disk, mem |-> None, boot |-> boot,
                     job |-> None, outcome |-> None]

Init ==
  /\ retired = FALSE
  /\ ident = [status |-> "none", hash |-> None, revokedAt |-> FALSE]
  /\ enroll = [e \in Enr |-> "absent"]
  /\ expired = {}
  /\ rot = [r \in Rot |-> NoRot]
  /\ secrets = {}
  /\ evidence = NoEvidence
  /\ requeue = None
  /\ agent = Down(None, None)
  /\ results = {}
  /\ issued = {}
  /\ causes = {}
  /\ faults = 0
  /\ ops = 0

Fault == faults < MaxFaults /\ faults' = faults + 1

Operator == ops < MaxOps /\ ops' = ops + 1

\* Ids and tokens are new when they are made; which new one it is does not
\* matter, so there is one choice.
Fresh(x, used, S) == x = CHOOSE y \in S \ used : TRUE

newRot(r)   == rot[r].status = "absent" /\ Fresh(r, {q \in Rot : rot[q].status # "absent"}, Rot)
newToken(t) == t \notin issued /\ Fresh(t, issued, Token)

Because(cause, condition) == causes' = IF condition THEN causes \cup {cause} ELSE causes

-----------------------------------------------------------------------------
(***************************************************************************)
(* Authorization.                                                          *)
(***************************************************************************)
storedTokenMatches(t) == ident.status = "active" /\ ~ident.revokedAt /\ ident.hash = t

\* Mutant: a rotation that waits for its retry no longer counts.
rotatedTokenMatchesRunning(t) ==
  \E r \in Rot : rot[r].status \in {"queued", "running"} /\ rot[r].token = t

rotatedAgentTokenMatches(t) == \E r \in Rot : rot[r].status \in Live /\ rot[r].token = t

ValidateAgentToken(t) == t # None /\ (storedTokenMatches(t) \/ rotatedAgentTokenMatches(t))

-----------------------------------------------------------------------------
(***************************************************************************)
(* Enrollment.                                                             *)
(***************************************************************************)
withoutActive(en) == [e \in Enr |-> IF en[e] = "active" THEN "revoked" ELSE en[e]]

CreateNodeEnrollmentToken(e) ==
  /\ enroll[e] = "absent" /\ Fresh(e, {f \in Enr : enroll[f] # "absent"}, Enr)
  /\ enroll' = [withoutActive(enroll) EXCEPT ![e] = "active"]
  /\ UNCHANGED <<retired, ident, expired, jobVars, agent, results, historyVars>>

ExpireEnrollment(e) ==
  /\ enroll[e] = "active" /\ e \notin expired
  /\ expired' = expired \cup {e}
  /\ UNCHANGED <<retired, ident, enroll, jobVars, agent, results, historyVars>>

\* The bootstrap job over SSH, or an operator with a manual bundle: writes the
\* bootstrap file, with force_reenroll drops the state file, restarts the agent.
InstallAgent(e, forceReenroll) ==
  /\ Operator
  /\ enroll[e] # "absent"
  /\ agent' = Down(IF forceReenroll THEN None ELSE agent.disk, e)
  /\ UNCHANGED <<identityVars, jobVars, results, issued, causes, faults>>

\* main: a state file decides; without one the bootstrap file does.
AgentStart ==
  /\ agent.phase = "down"
  /\ \/ /\ agent.disk # None
        /\ agent' = [agent EXCEPT !.phase = "idle", !.mem = agent.disk]
     \/ /\ agent.disk = None /\ agent.boot # None
        /\ agent' = [agent EXCEPT !.phase = "enrolling"]
  /\ UNCHANGED <<identityVars, jobVars, results, historyVars>>

\* A rotation that may still write the identity without the agent's help.
InFlight(r) == rot[r].effect = "pending" \/ (rot[r].status = "running" /\ rot[r].leased)

\* enrollWithRetry with RegisterAgentWithEnrollmentVersion: the answer may be
\* lost after the commit, or saveState may fail; the bootstrap file may stay.
RegisterAgent(t) ==
  /\ agent.phase = "enrolling"
  /\ enroll[agent.boot] = "active" /\ agent.boot \notin expired
  /\ newToken(t)
  /\ issued' = issued \cup {t}
  /\ enroll' = [enroll EXCEPT ![agent.boot] = "used"]
  /\ ident' = [status |-> "active", hash |-> t, revokedAt |-> FALSE]
  /\ retired' = FALSE
  /\ Because("reinstall", \E r \in Rot : InFlight(r))
  /\ \/ /\ \E boot \in {None, agent.boot} :
             agent' = [agent EXCEPT !.phase = "idle", !.mem = t, !.disk = t, !.boot = boot]
        /\ UNCHANGED faults
     \/ /\ Fault
        /\ UNCHANGED agent
  /\ UNCHANGED <<expired, jobVars, results, ops>>

-----------------------------------------------------------------------------
(***************************************************************************)
(* The agent's loop: heartbeat, poll, execute, submit.                     *)
(***************************************************************************)
\* last_seen_at, last_job_poll_at or last_job_result_at becomes now.
progressed(rs) ==
  [r \in Rot |-> IF rs[r].status \in Live
                 THEN [rs[r] EXCEPT !.seenCreated = TRUE, !.seenClaimed = TRUE] ELSE rs[r]]

agentHeartbeat ==
  /\ agent.phase = "idle"
  /\ ValidateAgentToken(agent.mem) /\ ~retired
  /\ ident' = [ident EXCEPT !.status = "active"]
  /\ rot' = progressed(rot)
  /\ agent' = [agent EXCEPT !.phase = "polling"]
  /\ UNCHANGED <<retired, enroll, expired, secrets, evidence, requeue, results, historyVars>>

\* A poll that is refused, fails, or brings no rotation.  It may have brought
\* another job, which then is the last claim and later the last result.
pollOther ==
  /\ agent.phase = "polling"
  /\ \/ /\ ValidateAgentToken(agent.mem)
        /\ rot' = progressed(rot)
        /\ evidence' \in {evidence, [NoEvidence EXCEPT !.answered = TRUE]}
     \/ /\ ~ValidateAgentToken(agent.mem)
        /\ UNCHANGED <<rot, evidence>>
  /\ agent' = [agent EXCEPT !.phase = "idle"]
  /\ UNCHANGED <<identityVars, secrets, requeue, results, historyVars>>

recovered(rs) ==
  [r \in Rot |-> IF rs[r].status = "running" /\ ~rs[r].leased
                 THEN [rs[r] EXCEPT !.status = "retrying"] ELSE rs[r]]

claimed(rs, r) == [rs EXCEPT ![r].status = "running", ![r].leased = TRUE, ![r].seenClaimed = FALSE]

\* From now on, results of an earlier attempt at r are late.
overtaken(r) == {[m EXCEPT !.late = @ \/ m.rot = r] : m \in results}

claimRecorded(r) == [evidence EXCEPT !.claim = r, !.answered = FALSE]

\* TouchAgentJobPoll, AgentNextJob (claim, then hydrateAgentJobSecrets) and
\* RecordAgentJobClaim.  The lock on the node keeps two rotations apart.
AgentNextJob(r) ==
  /\ agent.phase = "polling"
  /\ ValidateAgentToken(agent.mem)
  /\ LET rs == recovered(progressed(rot))
     IN  /\ rs[r].status \in {"queued", "retrying"}
         /\ \A o \in Rot : rs[o].status # "running"
         /\ rot' = claimed(rs, r)
  /\ results' = overtaken(r)
  /\ \/ /\ rot[r].token \in secrets
        /\ agent' = [agent EXCEPT !.phase = "executing", !.job = r]
        /\ evidence' = claimRecorded(r)
        /\ UNCHANGED faults
     \/ /\ rot[r].token \notin secrets
        /\ agent' = [agent EXCEPT !.phase = "idle"]
        /\ UNCHANGED <<evidence, faults>>
     \/ /\ Fault
        /\ agent' = [agent EXCEPT !.phase = "idle"]
        /\ evidence' \in {evidence, claimRecorded(r)}
  /\ UNCHANGED <<identityVars, secrets, requeue, issued, causes, ops>>

\* rotateAgentToken: saveState, then the token in memory.
rotateAgentToken ==
  /\ agent.phase = "executing"
  /\ LET t == rot[agent.job].token
     IN  agent' = [agent EXCEPT !.phase = "submitting", !.disk = t, !.mem = t, !.outcome = "succeeded"]
  /\ UNCHANGED <<identityVars, jobVars, results, historyVars>>

\* saveState fails: the attempt does, and the old state file stays.
saveStateFails ==
  /\ agent.phase = "executing"
  /\ Fault
  /\ agent' = [agent EXCEPT !.phase = "submitting", !.outcome = "failed"]
  /\ UNCHANGED <<identityVars, jobVars, results, issued, causes, ops>>

\* Sends the result and, answered or not, goes on.
submit ==
  /\ agent.phase = "submitting"
  /\ results' = results \cup {[rot |-> agent.job, status |-> agent.outcome, token |-> agent.mem,
                                late |-> FALSE]}
  /\ agent' = [agent EXCEPT !.phase = "idle", !.job = None, !.outcome = None]
  /\ UNCHANGED <<identityVars, jobVars, historyVars>>

AgentCrash ==
  /\ agent.phase # "down"
  /\ Fault
  /\ agent' = Down(agent.disk, agent.boot)
  /\ UNCHANGED <<identityVars, jobVars, results, issued, causes, ops>>

LoseResult(m) ==
  /\ m \in results
  /\ Fault
  /\ results' = results \ {m}
  /\ UNCHANGED <<identityVars, jobVars, agent, issued, causes, ops>>

-----------------------------------------------------------------------------
(***************************************************************************)
(* Completion: agentJobResult commits the status under a live lease; the   *)
(* row of node_agents follows in a transaction of its own, then            *)
(* RecordAgentJobResult.                                                   *)
(***************************************************************************)
resultRecorded(r) == [evidence EXCEPT !.result = r, !.answered = TRUE]

agentJobResult(m) ==
  LET rs   == recovered(rot)
      held == ValidateAgentToken(m.token) /\ rs[m.rot].status = "running"
      done == [rs EXCEPT ![m.rot].status = m.status, ![m.rot].leased = FALSE]
  IN  /\ m \in results
      /\ results' = results \ {m}
      /\ \/ /\ held /\ m.status = "succeeded"
            /\ rot' = [done EXCEPT ![m.rot].effect = "pending"]
            /\ Because("late", m.late)
            /\ UNCHANGED evidence
         \/ /\ held /\ m.status = "failed"
            /\ rot' = progressed(done)
            /\ evidence' = resultRecorded(m.rot)
            /\ Because("failed", TRUE)
         \/ /\ ~held
            /\ rot' = rs
            /\ UNCHANGED <<evidence, causes>>
      /\ UNCHANGED <<identityVars, secrets, requeue, agent, issued, faults, ops>>

\* Mutant: only the identity's status is restored.
storeStatus(r) == ident' = [ident EXCEPT !.status = "active", !.revokedAt = FALSE]

storeHash(r) == ident' = [status |-> "active", hash |-> rot[r].token, revokedAt |-> FALSE]

applyRotation(r) ==
  /\ rot[r].effect = "pending"
  /\ storeHash(r)
  /\ rot' = progressed([rot EXCEPT ![r].effect = "done"])
  /\ evidence' = resultRecorded(r)
  /\ UNCHANGED <<retired, enroll, expired, secrets, requeue, agent, results, historyVars>>

\* The process dies, or the update fails and the job is marked failed.
loseRotation(r) ==
  /\ rot[r].effect = "pending"
  /\ Fault
  /\ \/ /\ rot' = [rot EXCEPT ![r].effect = "lost"]
        /\ UNCHANGED evidence
     \/ /\ rot' = progressed([rot EXCEPT ![r].effect = "lost", ![r].status = "failed"])
        /\ evidence' = resultRecorded(r)
  /\ Because("effect", TRUE)
  /\ UNCHANGED <<identityVars, secrets, requeue, agent, results, issued, ops>>

\* The current attempt is still being worked on.
InProgress(r) == agent.job = r \/ \E m \in results : m.rot = r /\ ~m.late

\* A lease that ends before its attempt does counts as a fault.
LeaseLapse(r) ==
  /\ rot[r].status = "running" /\ rot[r].leased
  /\ IF InProgress(r) THEN Fault ELSE UNCHANGED faults
  /\ rot' = [rot EXCEPT ![r].leased = FALSE]
  /\ UNCHANGED <<identityVars, secrets, evidence, requeue, agent, results, issued, causes, ops>>

RecoverStaleJobLeases ==
  /\ rot' = recovered(rot)
  /\ UNCHANGED <<identityVars, secrets, evidence, requeue, agent, results, historyVars>>

-----------------------------------------------------------------------------
(***************************************************************************)
(* Operator actions.                                                       *)
(***************************************************************************)
CreateNodeAgentTokenRotateJob(r, t) ==
  /\ ident.status = "active" /\ ~ident.revokedAt
  /\ newRot(r)
  /\ newToken(t)
  /\ issued' = issued \cup {t}
  /\ secrets' = secrets \cup {t}
  /\ rot' = [rot EXCEPT ![r] = Queued(t)]
  /\ UNCHANGED <<identityVars, evidence, requeue, agent, results, causes, faults, ops>>

RevokeNodeAgentIdentity ==
  /\ Operator
  /\ ident.status # "none"
  /\ ident' = [status |-> "revoked", hash |-> None, revokedAt |-> TRUE]
  /\ enroll' = withoutActive(enroll)
  /\ Because("revoke", TRUE)
  /\ UNCHANGED <<retired, expired, jobVars, agent, results, issued, faults>>

revokedRow == IF ident.status = "none" THEN ident
              ELSE [ident EXCEPT !.status = "revoked", !.revokedAt = TRUE]

cancelledRow(row) == [row EXCEPT !.status = "cancelled", !.leased = FALSE]

RetireNode ==
  /\ Operator
  /\ retired' = TRUE
  /\ ident' = revokedRow
  /\ Because("retire", TRUE)
  /\ UNCHANGED <<enroll, expired, jobVars, agent, results, issued, faults>>

\* RetireNode leaves the jobs alone, ForceRetireNode cancels them.
ForceRetireNode ==
  /\ Operator
  /\ ~retired
  /\ retired' = TRUE
  /\ ident' = revokedRow
  /\ rot' = [r \in Rot |-> IF rot[r].status \in Live THEN cancelledRow(rot[r]) ELSE rot[r]]
  /\ Because("retire", TRUE)
  /\ UNCHANGED <<enroll, expired, secrets, evidence, requeue, agent, results, issued, faults>>

\* The completion of an emergency cleanup that includes the agent.
applyNodeEmergencyCleanupResult ==
  /\ Operator
  /\ ident.status # "none"
  /\ ident' = revokedRow
  /\ Because("retire", TRUE)
  /\ UNCHANGED <<retired, enroll, expired, jobVars, agent, results, issued, faults>>

CancelJob(r) ==
  /\ Operator
  /\ recovered(rot)[r].status \in {"queued", "retrying"}
  /\ rot' = [recovered(rot) EXCEPT ![r] = cancelledRow(@)]
  /\ Because("cancel", TRUE)
  /\ UNCHANGED <<identityVars, secrets, evidence, requeue, agent, results, issued, faults>>

\* RequeueNodeStuckJob reads the stale claim, two minutes old or more ...
loadNodeStaleClaim ==
  /\ Operator
  /\ requeue = None
  /\ evidence.claim # None /\ ~evidence.answered
  /\ rot[evidence.claim].status \in {"running", "retrying"}
  /\ requeue' = evidence.claim
  /\ UNCHANGED <<identityVars, rot, secrets, evidence, agent, results, issued, causes, faults>>

\* ... and in a transaction cancels the job, if it still runs, and queues its
\* payload again in a new job.
RequeueNodeStuckJob(k) ==
  LET stuck == rot[requeue].status \in {"running", "retrying"}
  IN  /\ requeue # None
      /\ newRot(k)
      /\ rot' = recovered([rot EXCEPT ![requeue] = IF stuck THEN cancelledRow(@) ELSE @,
                                      ![k] = Queued(rot[requeue].token)])
      /\ Because("requeue", ~stuck)
      /\ requeue' = None
      /\ UNCHANGED <<identityVars, secrets, evidence, agent, results, issued, faults, ops>>

\* classifyNodeStaleRotationCandidate, of a rotation two minutes old or more.
SafeToClear(r) ==
  /\ ident.status = "active"
  /\ evidence.result # r
  /\ \/ rot[r].status = "queued" /\ ~rot[r].seenCreated
     \/ /\ rot[r].status \in {"running", "retrying"}
        /\ evidence.claim = r
        /\ ~rot[r].leased
        /\ ~rot[r].seenClaimed

\* One transaction, for exactly the jobs the operator has seen and confirmed.
ClearNodeStalePendingRotation ==
  LET safe == {r \in Rot : SafeToClear(r)}
  IN  /\ Operator
      /\ safe # {}
      /\ ~ident.revokedAt
      /\ rot' = [r \in Rot |-> IF r \in safe THEN cancelledRow(rot[r]) ELSE rot[r]]
      /\ secrets' = secrets \ {rot[r].token : r \in safe}
      /\ Because("clear", TRUE)
      /\ UNCHANGED <<identityVars, evidence, requeue, agent, results, issued, faults>>

-----------------------------------------------------------------------------
Next ==
  \/ \E e \in Enr : \/ CreateNodeEnrollmentToken(e)
                    \/ ExpireEnrollment(e)
                    \/ \E force \in BOOLEAN : InstallAgent(e, force)
  \/ AgentStart
  \/ \E t \in Token : RegisterAgent(t) \/ \E r \in Rot : CreateNodeAgentTokenRotateJob(r, t)
  \/ agentHeartbeat \/ pollOther \/ rotateAgentToken \/ saveStateFails \/ submit \/ AgentCrash
  \/ \E m \in results : agentJobResult(m) \/ LoseResult(m)
  \/ \E r \in Rot : \/ AgentNextJob(r) \/ applyRotation(r) \/ loseRotation(r)
                    \/ LeaseLapse(r) \/ CancelJob(r) \/ RequeueNodeStuckJob(r)
  \/ RecoverStaleJobLeases
  \/ RevokeNodeAgentIdentity \/ RetireNode \/ ForceRetireNode \/ applyNodeEmergencyCleanupResult
  \/ loadNodeStaleClaim \/ ClearNodeStalePendingRotation

Spec == Init /\ [][Next]_vars

(***************************************************************************)
(* Fairness: systemd restarts the agent, its loop runs, requests arrive,   *)
(* leases lapse, completions run on.  A rotation that waits is claimed in  *)
(* the end although other jobs of the node are claimed before it (strong   *)
(* fairness): they finish, as JobQueue shows.                              *)
(***************************************************************************)
Fairness ==
  /\ WF_vars(AgentStart) /\ WF_vars(agentHeartbeat) /\ WF_vars(pollOther)
  /\ WF_vars(rotateAgentToken \/ saveStateFails) /\ WF_vars(submit)
  /\ WF_vars(\E m \in results : agentJobResult(m))
  /\ \A r \in Rot : /\ SF_vars(AgentNextJob(r))
                    /\ WF_vars(applyRotation(r))
                    /\ WF_vars(LeaseLapse(r))

LiveSpec == Spec /\ Fairness

-----------------------------------------------------------------------------
(***************************************************************************)
(* Properties.                                                             *)
(***************************************************************************)
\* A token is accepted, or will be when a completion that is under way has
\* stored it.
Accepted(t) == ValidateAgentToken(t) \/ \E r \in Rot : rot[r].effect = "pending" /\ rot[r].token = t

\* A rotation never locks the agent out by itself: crashes of the agent at any
\* point, lost polls and results, lapsed leases, retries, late results,
\* overlapping rotations and requeues leave the token of the state file
\* accepted.  What can end that are the events in causes: an operator who
\* revokes, retires, cancels, clears or re-enrolls during a rotation, a failed
\* attempt or update, and a requeue that overlapped the job's completion.
LockoutHasCause == agent.disk # None /\ ~Accepted(agent.disk) => causes # {}

\* The two places agree in the end: once the events in causes stay away, every
\* rotation comes to an end and the hash that node_agents holds is the one of
\* the token in the agent's state file.
Converges == <>[](causes = {} /\ agent.disk # None => ident.hash = agent.disk)
=============================================================================
