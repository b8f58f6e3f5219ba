------------------------ MODULE AgentIdentityProofs ------------------------
(***************************************************************************)
(* Proof that no rotation locks the agent out by itself, for every number  *)
(* of rotations, tokens, faults and interventions.                         *)
(*                                                                         *)
(* IdentityInv says where the token of the state file may be: stored, in a *)
(* live rotation, or in a completion that is about to store it.  To see    *)
(* that a completion never stores an older token over it, it also says     *)
(* that while a completion is pending the agent holds exactly that token   *)
(* and no poll is answered, so that no second rotation can begin.          *)
(***************************************************************************)
EXTENDS AgentIdentity, TLAPS

RotRow ==
  [status : {"absent", "queued", "running", "retrying", "succeeded", "failed", "cancelled"},
   token : Token \cup {None}, leased : BOOLEAN, seenCreated : BOOLEAN, seenClaimed : BOOLEAN,
   effect : {"none", "pending", "done", "lost"}]

AgentRow ==
  [phase : {"down", "enrolling", "idle", "polling", "executing", "submitting"},
   disk : Token \cup {None}, mem : Token \cup {None}, boot : Enr \cup {None},
   job : Rot \cup {None}, outcome : {None, "succeeded", "failed"}]

ResultRow == [rot : Rot, status : {"succeeded", "failed"}, token : Token \cup {None}, late : BOOLEAN]

IdentityType ==
  /\ ident \in [status : {"none", "active", "revoked"}, hash : Token \cup {None}, revokedAt : BOOLEAN]
  /\ rot \in [Rot -> RotRow]
  /\ agent \in AgentRow
  /\ results \in SUBSET ResultRow
  /\ issued \in SUBSET Token
  /\ evidence \in [claim : Rot \cup {None}, result : Rot \cup {None}, answered : BOOLEAN]
  /\ requeue \in Rot \cup {None}

\* The agent has a job and does something about it.
AtWork == agent.phase \in {"executing", "submitting"}

\* What the agent holds in each phase of its loop.
Phases ==
  /\ agent.phase = "enrolling" => agent.disk = None
  /\ agent.phase \notin {"down", "enrolling"} => agent.disk # None /\ agent.mem = agent.disk
  /\ AtWork => agent.job \in Rot /\ rot[agent.job].status # "absent"
  /\ agent.phase = "submitting" => agent.outcome \in {"succeeded", "failed"}

\* Tokens in use were issued; a completion is pending only for a success; the
\* claim that RequeueNodeStuckJob has loaded is the one of a job.
Tokens ==
  /\ ident.hash \in issued \cup {None}
  /\ \A r \in Rot : /\ rot[r].status # "absent" => rot[r].token \in issued
                    /\ rot[r].effect = "pending" => rot[r].status = "succeeded"
  /\ requeue # None => rot[requeue].status # "absent"

\* The row still may give its token to the identity.
Carries(r) == rot[r].status \in Live \/ rot[r].effect = "pending"

OneCarrier == \A q, r \in Rot : Carries(q) /\ Carries(r) /\ rot[q].token = rot[r].token => q = r

NotYetStored == \A r \in Rot : Carries(r) => ident.hash # rot[r].token

\* A completion stores the token of the state file, unless the agent is being
\* installed anew.
PendingIsOnDisk == \A r \in Rot : rot[r].effect = "pending" => agent.disk \in {None, rot[r].token}

\* So does a result that may still be accepted.
ReportedIsOnDisk ==
  \A m \in results :
    m.status = "succeeded" /\ ~m.late /\ rot[m.rot].status = "running" /\ rot[m.rot].leased
      => agent.disk \in {None, rot[m.rot].token}

\* The agent works on the only rotation that runs, nothing is pending, and the
\* token it is about to write is carried by a live rotation.
AloneAtWork ==
  AtWork =>
    /\ \A r \in Rot : rot[r].status = "running" => r = agent.job
    /\ \A r \in Rot : rot[r].effect # "pending"
    /\ \A m \in results : m.rot = agent.job => m.late
    /\ \E r \in Rot : rot[r].status \in Live /\ rot[r].token = rot[agent.job].token

SavedWhatItReports ==
  agent.phase = "submitting" /\ agent.outcome = "succeeded" => agent.disk = rot[agent.job].token

DiskAccepted == agent.disk # None => Accepted(agent.disk)

Undisturbed ==
  /\ OneCarrier /\ NotYetStored /\ PendingIsOnDisk /\ ReportedIsOnDisk
  /\ AloneAtWork /\ SavedWhatItReports /\ DiskAccepted

IdentityInv == IdentityType /\ Phases /\ Tokens /\ (causes = {} => Undisturbed)

-----------------------------------------------------------------------------
(***************************************************************************)
(* What the operations on the rows do.                                     *)
(***************************************************************************)
\* A poll, a heartbeat or an answer changes no more than what was seen.
LEMMA ProgressedRows ==
  ASSUME NEW rs \in [Rot -> RotRow]
  PROVE  /\ progressed(rs) \in [Rot -> RotRow]
         /\ \A r \in Rot : /\ progressed(rs)[r].status = rs[r].status
                           /\ progressed(rs)[r].token = rs[r].token
                           /\ progressed(rs)[r].leased = rs[r].leased
                           /\ progressed(rs)[r].effect = rs[r].effect
  BY DEF progressed, RotRow

\* A lapsed lease sends the job to its retry.
LEMMA RecoveredRows ==
  ASSUME NEW rs \in [Rot -> RotRow]
  PROVE  /\ recovered(rs) \in [Rot -> RotRow]
         /\ \A r \in Rot : /\ recovered(rs)[r].status = IF rs[r].status = "running" /\ ~rs[r].leased
                                                        THEN "retrying" ELSE rs[r].status
                           /\ recovered(rs)[r].token = rs[r].token
                           /\ recovered(rs)[r].leased = rs[r].leased
                           /\ recovered(rs)[r].effect = rs[r].effect
  BY DEF recovered, RotRow

\* A new row waits, with its token.
LEMMA QueuedRow ==
  ASSUME NEW t \in Token \cup {None}
  PROVE  /\ Queued(t) \in RotRow /\ Queued(t).status = "queued" /\ Queued(t).token = t
         /\ Queued(t).leased = FALSE /\ Queued(t).effect = "none"
<1>1. PICK x : x = NoRot
  OBVIOUS
<1>2. x \in RotRow /\ x.leased = FALSE /\ x.effect = "none"
  BY <1>1 DEF NoRot, RotRow
<1>3. Queued(t) = [x EXCEPT !.status = "queued", !.token = t]
  BY <1>1 DEF Queued
<1> QED  BY <1>2, <1>3 DEF RotRow

\* A cancelled row keeps its token.
LEMMA CancelledRow ==
  ASSUME NEW row \in RotRow
  PROVE  /\ cancelledRow(row) \in RotRow /\ cancelledRow(row).status = "cancelled"
         /\ cancelledRow(row).token = row.token /\ cancelledRow(row).leased = FALSE
         /\ cancelledRow(row).effect = row.effect
  BY DEF cancelledRow, RotRow

\* The claim of a row.
LEMMA ClaimedRows ==
  ASSUME NEW rs \in [Rot -> RotRow], NEW r \in Rot
  PROVE  /\ claimed(rs, r) \in [Rot -> RotRow]
         /\ claimed(rs, r)[r].status = "running"
         /\ claimed(rs, r)[r].token = rs[r].token /\ claimed(rs, r)[r].effect = rs[r].effect
         /\ \A q \in Rot : q # r => claimed(rs, r)[q] = rs[q]
<1>1. PICK x : x = [rs[r] EXCEPT !.status = "running", !.leased = TRUE, !.seenClaimed = FALSE]
  OBVIOUS
<1>2. claimed(rs, r) = [rs EXCEPT ![r] = x]
  BY <1>1, Zenon DEF claimed
<1>3. x \in RotRow /\ x.status = "running" /\ x.token = rs[r].token /\ x.effect = rs[r].effect
  BY <1>1 DEF RotRow
<1> QED  BY <1>2, <1>3

\* The rows that gain nothing: no token changes hands, nothing starts to run.
RowsStay ==
  \A r \in Rot :
    /\ rot'[r].token = rot[r].token /\ rot'[r].effect = rot[r].effect
    /\ rot'[r].status \in Live <=> rot[r].status \in Live
    /\ rot'[r].status = "absent" <=> rot[r].status = "absent"
    /\ rot[r].effect = "pending" => rot'[r].status = rot[r].status
    /\ rot'[r].status = "running" => rot[r].status = "running" /\ (rot'[r].leased => rot[r].leased)

\* The agent goes on, or stops, without a new job or a new token.
AgentStays ==
  /\ agent'.disk \in {agent.disk, None}
  /\ AtWork' => AtWork /\ agent'.job = agent.job /\ agent'.disk = agent.disk
  /\ agent'.phase = "submitting" /\ agent'.outcome = "succeeded" =>
       agent.phase = "submitting" /\ agent.outcome = "succeeded"

\* The identity accepts what it accepted.
IdentStays == ident'.hash = ident.hash /\ \A t : storedTokenMatches(t) => storedTokenMatches(t)'

\* Rows that keep their tokens.
LEMMA TokensKept ==
  ASSUME IdentityInv, requeue' = requeue \/ requeue' = None \/ rot'[requeue'].status # "absent",
         ident'.hash \in issued \cup {None, ident.hash}, issued \subseteq issued',
         \A r \in Rot : /\ rot'[r].token = rot[r].token
                        /\ rot'[r].status = "absent" <=> rot[r].status = "absent"
                        /\ rot'[r].effect = "pending" => rot'[r].status = "succeeded"
  PROVE  Tokens'
<1>1. requeue \in Rot \cup {None}
  BY DEF IdentityInv, IdentityType
<1>2. requeue' # None => rot'[requeue'].status # "absent"
  BY <1>1 DEF IdentityInv, Tokens
<1> QED  BY <1>2 DEF IdentityInv, Tokens

\* The steps that only let time pass, lose something or go on.
LEMMA UndisturbedStays ==
  ASSUME IdentityInv, Undisturbed, RowsStay, AgentStays, IdentStays, results' \subseteq results
  PROVE  Undisturbed'
<1> USE DEF Undisturbed
<1>1. \A r \in Rot : Carries(r)' <=> Carries(r)
  BY DEF RowsStay, Carries
<1>2. OneCarrier'
  BY <1>1 DEF OneCarrier, RowsStay
<1>3. NotYetStored'
  BY <1>1 DEF NotYetStored, RowsStay, IdentStays
<1>4. PendingIsOnDisk'
  BY DEF PendingIsOnDisk, RowsStay, AgentStays
<1>5. ReportedIsOnDisk'
  <2>1. \A m \in results : m.rot \in Rot
    BY DEF IdentityInv, IdentityType, ResultRow
  <2> QED  BY <2>1 DEF ReportedIsOnDisk, RowsStay, AgentStays
<1>6. AtWork => agent.job \in Rot
  BY DEF IdentityInv, Phases
<1>7. AloneAtWork'
  <2> SUFFICES ASSUME AtWork'
               PROVE  /\ \A r \in Rot : rot'[r].status = "running" => r = agent'.job
                      /\ \A r \in Rot : rot'[r].effect # "pending"
                      /\ \A m \in results' : m.rot = agent'.job => m.late
                      /\ \E r \in Rot : rot'[r].status \in Live /\ rot'[r].token = rot'[agent'.job].token
    BY DEF AloneAtWork
  <2>1. AtWork /\ agent'.job = agent.job
    BY DEF AgentStays
  <2> QED  BY <1>6, <2>1 DEF AloneAtWork, RowsStay
<1>8. SavedWhatItReports'
  BY <1>6 DEF SavedWhatItReports, AgentStays, AtWork, RowsStay
<1>9. DiskAccepted'
  <2> SUFFICES ASSUME agent'.disk # None  PROVE  Accepted(agent.disk)'
    BY DEF DiskAccepted
  <2>1. PICK t : t = agent.disk
    OBVIOUS
  <2>2. agent'.disk = t /\ t # None
    BY <2>1 DEF AgentStays
  <2>3. Accepted(t)
    BY <2>1, <2>2 DEF DiskAccepted
  <2>4. rotatedAgentTokenMatches(t) => rotatedAgentTokenMatches(t)'
    BY DEF rotatedAgentTokenMatches, RowsStay
  <2>5. storedTokenMatches(t) => storedTokenMatches(t)'
    BY DEF IdentStays
  <2>6. Accepted(t)'
    BY <2>2, <2>3, <2>4, <2>5 DEF Accepted, ValidateAgentToken, RowsStay
  <2>7. Accepted(t)' => Accepted(agent.disk)'
    BY <2>2 DEF Accepted, ValidateAgentToken, storedTokenMatches, rotatedAgentTokenMatches
  <2> QED  BY <2>6, <2>7
<1> QED  BY <1>2, <1>3, <1>4, <1>5, <1>7, <1>8, <1>9

-----------------------------------------------------------------------------
(***************************************************************************)
(* The steps.                                                              *)
(***************************************************************************)
\* An agent that was not touched is in the phase it was.
LEMMA PhasesStay ==
  ASSUME Phases, UNCHANGED agent, \A r \in Rot : rot'[r].status = "absent" => rot[r].status = "absent"
  PROVE  Phases' /\ AgentStays
  BY DEF Phases, AgentStays, AtWork

\* Rows and identity that were not touched.
LEMMA RowsSame == UNCHANGED rot => RowsStay
  BY DEF RowsStay

\* An identity that was not touched.
LEMMA IdentSame == UNCHANGED ident => IdentStays
  BY DEF IdentStays, storedTokenMatches

\* A step that gains nothing.
LEMMA QuietStep ==
  ASSUME IdentityInv, IdentityType', Phases', RowsStay, AgentStays, IdentStays, results' \subseteq results,
         issued' = issued, causes \subseteq causes', requeue' = requeue \/ rot[requeue'].status # "absent"
  PROVE  IdentityInv'
<1>1. Tokens'
  <2>1. /\ requeue \in Rot \cup {None} /\ requeue' \in Rot \cup {None}
        /\ \A r \in Rot : rot[r].effect = "pending" => rot[r].status = "succeeded"
    BY DEF IdentityInv, IdentityType, Tokens
  <2> QED  BY <2>1, TokensKept DEF IdentStays, RowsStay
<1>2. causes' = {} => Undisturbed'
  BY UndisturbedStays DEF IdentityInv
<1> QED  BY <1>1, <1>2 DEF IdentityInv

\* A step that is a cause.
LEMMA CauseStep ==
  ASSUME IdentityType', Phases', Tokens', causes' # {}  PROVE  IdentityInv'
  BY DEF IdentityInv

\* Because adds the cause when its condition holds, and nothing else.
LEMMA BecauseCauses ==
  ASSUME NEW cause, NEW condition, Because(cause, condition)
  PROVE  causes \subseteq causes' /\ (condition => causes' # {}) /\ (~condition => causes' = causes)
  BY DEF Because

\* At first there is no identity and no agent.
LEMMA IdentityInitially == Init => IdentityInv
<1> SUFFICES ASSUME Init  PROVE  IdentityInv
  OBVIOUS
<1> USE DEF Init
<1>1. agent = [phase |-> "down", disk |-> None, mem |-> None, boot |-> None, job |-> None, outcome |-> None]
  BY DEF Down
<1>2. agent \in AgentRow /\ agent.phase = "down" /\ agent.disk = None
  BY <1>1 DEF AgentRow
<1>3. NoRot \in RotRow /\ NoRot.status = "absent" /\ NoRot.effect = "none"
  BY DEF NoRot, RotRow
<1>4. \A r \in Rot : rot[r].status = "absent" /\ rot[r].effect = "none"
  BY <1>3
<1>5. IdentityType
  BY <1>2, <1>3 DEF IdentityType, NoEvidence
<1>6. Phases
  BY <1>2 DEF Phases, AtWork
<1>7. Tokens
  BY <1>4 DEF Tokens
<1>8. \A r \in Rot : ~Carries(r)
  BY <1>4 DEF Carries, Live
<1>9. Undisturbed
  BY <1>2, <1>4, <1>8 DEF Undisturbed, OneCarrier, NotYetStored, PendingIsOnDisk, ReportedIsOnDisk, AloneAtWork,
     AtWork, SavedWhatItReports, DiskAccepted
<1> QED  BY <1>5, <1>6, <1>7, <1>9 DEF IdentityInv

\* Enrollment tokens, a claim looked at, a result lost.
LEMMA AsideSteps ==
  ASSUME IdentityInv,
         \/ \E e \in Enr : CreateNodeEnrollmentToken(e) \/ ExpireEnrollment(e)
         \/ loadNodeStaleClaim
         \/ \E m \in results : LoseResult(m)
         \/ UNCHANGED vars
  PROVE  IdentityInv'
<1>1. /\ UNCHANGED <<ident, rot, agent, issued, causes, evidence>> /\ results' \subseteq results
      /\ requeue' \in {requeue, evidence.claim}
      /\ requeue' = requeue \/ rot[requeue'].status # "absent"
  BY DEF CreateNodeEnrollmentToken, ExpireEnrollment, loadNodeStaleClaim, LoseResult, vars, identityVars, jobVars,
         historyVars
<1>2. IdentityType'
  BY <1>1 DEF IdentityInv, IdentityType
<1>3. Phases' /\ AgentStays
  BY <1>1, PhasesStay DEF IdentityInv
<1> QED  BY <1>1, <1>2, <1>3, RowsSame, IdentSame, QuietStep

\* The agent is installed, starts, fails or crashes.
LEMMA AgentSteps ==
  ASSUME IdentityInv,
         \/ \E e \in Enr, force \in BOOLEAN : InstallAgent(e, force)
         \/ AgentStart \/ saveStateFails \/ AgentCrash
  PROVE  IdentityInv'
<1>1. /\ UNCHANGED <<ident, rot, results, issued, causes, evidence, requeue>>
      /\ agent \in AgentRow /\ agent.disk \in Token \cup {None}
  BY DEF InstallAgent, AgentStart, saveStateFails, AgentCrash, identityVars, jobVars, historyVars, IdentityInv,
         IdentityType, AgentRow
<1>2. agent' \in AgentRow /\ Phases' /\ AgentStays
  <2>1. ASSUME NEW d \in {agent.disk, None}, NEW b \in Enr \cup {None}, agent' = Down(d, b)
        PROVE  agent' \in AgentRow /\ Phases' /\ AgentStays
    <3>1. agent' = [phase |-> "down", disk |-> d, mem |-> None, boot |-> b, job |-> None, outcome |-> None]
      BY <2>1 DEF Down
    <3>2. agent' \in AgentRow
      BY <1>1, <3>1 DEF AgentRow
    <3>3. agent'.phase = "down" /\ agent'.disk = d
      BY <3>1
    <3> QED  BY <2>1, <3>2, <3>3 DEF Phases, AgentStays, AtWork
  <2>2. ASSUME NEW e \in Enr, NEW force \in BOOLEAN, InstallAgent(e, force)
        PROVE  agent' \in AgentRow /\ Phases' /\ AgentStays
    <3>1. PICK d : d = IF force THEN None ELSE agent.disk
      OBVIOUS
    <3>2. agent' = Down(d, e)
      BY <2>2, <3>1 DEF InstallAgent
    <3> QED  BY <2>1, <3>1, <3>2
  <2>3. CASE AgentCrash
    <3>1. PICK d, b : d = agent.disk /\ b = agent.boot
      OBVIOUS
    <3>2. agent' = Down(d, b) /\ b \in Enr \cup {None}
      BY <1>1, <2>3, <3>1 DEF AgentCrash, AgentRow
    <3> QED  BY <2>1, <3>1, <3>2
  <2>4. CASE AgentStart
    <3>1. \/ agent.disk # None /\ agent' = [agent EXCEPT !.phase = "idle", !.mem = agent.disk]
          \/ agent.disk = None /\ agent' = [agent EXCEPT !.phase = "enrolling"]
      BY <2>4 DEF AgentStart
    <3>2. /\ agent' \in AgentRow /\ agent'.disk = agent.disk
          /\ \/ agent'.phase = "idle" /\ agent.disk # None /\ agent'.mem = agent'.disk
             \/ agent'.phase = "enrolling" /\ agent.disk = None
      BY <1>1, <3>1 DEF AgentRow
    <3> QED  BY <3>2 DEF Phases, AgentStays, AtWork
  <2>5. CASE saveStateFails
    <3>1. agent.phase = "executing" /\ agent' = [agent EXCEPT !.phase = "submitting", !.outcome = "failed"]
      BY <2>5 DEF saveStateFails
    <3>2. /\ agent' \in AgentRow /\ agent'.disk = agent.disk /\ agent'.mem = agent.mem /\ agent'.job = agent.job
          /\ agent'.phase = "submitting" /\ agent'.outcome = "failed"
      BY <1>1, <3>1 DEF AgentRow
    <3> QED  BY <1>1, <3>1, <3>2 DEF IdentityInv, Phases, AgentStays, AtWork
  <2> QED  BY <2>2, <2>3, <2>4, <2>5
<1>3. IdentityType'
  BY <1>1, <1>2 DEF IdentityInv, IdentityType
<1> QED  BY <1>1, <1>2, <1>3, RowsSame, IdentSame, QuietStep

\* Heartbeats, polls that bring no rotation, leases that lapse.
LEMMA LoopSteps ==
  ASSUME IdentityInv,
         agentHeartbeat \/ pollOther \/ RecoverStaleJobLeases \/ \E r \in Rot : LeaseLapse(r)
  PROVE  IdentityInv'
<1>1. /\ UNCHANGED <<results, issued, causes, requeue>>
      /\ agent \in AgentRow /\ rot \in [Rot -> RotRow]
  BY DEF agentHeartbeat, pollOther, RecoverStaleJobLeases, LeaseLapse, identityVars, jobVars, historyVars,
         IdentityInv, IdentityType
<1>2. rot' \in [Rot -> RotRow] /\ RowsStay
  <2>1. CASE rot' = progressed(rot)
    BY <1>1, <2>1, ProgressedRows DEF RowsStay
  <2>2. CASE rot' = recovered(rot)
    <3>1. /\ rot' \in [Rot -> RotRow]
          /\ \A r \in Rot : /\ rot'[r].status = IF rot[r].status = "running" /\ ~rot[r].leased
                                                THEN "retrying" ELSE rot[r].status
                            /\ rot'[r].token = rot[r].token /\ rot'[r].leased = rot[r].leased
                            /\ rot'[r].effect = rot[r].effect
      BY <1>1, <2>2, RecoveredRows
    <3>2. \A r \in Rot : rot[r].effect = "pending" => rot[r].status = "succeeded"
      BY DEF IdentityInv, Tokens
    <3> QED  BY <3>1, <3>2 DEF RowsStay, Live
  <2>3. ASSUME NEW r \in Rot, LeaseLapse(r)  PROVE  rot' \in [Rot -> RotRow] /\ RowsStay
    <3>1. rot' = [rot EXCEPT ![r].leased = FALSE]
      BY <2>3 DEF LeaseLapse
    <3>2. rot' \in [Rot -> RotRow]
      BY <1>1, <3>1 DEF RotRow
    <3>3. \A q \in Rot : /\ rot'[q].status = rot[q].status /\ rot'[q].token = rot[q].token
                         /\ rot'[q].effect = rot[q].effect /\ (rot'[q].leased => rot[q].leased)
      BY <1>1, <3>1 DEF RotRow
    <3> QED  BY <3>2, <3>3 DEF RowsStay
  <2>4. CASE rot' = rot
    BY <1>1, <2>4, RowsSame
  <2> QED  BY <2>1, <2>2, <2>3, <2>4 DEF agentHeartbeat, pollOther, RecoverStaleJobLeases
<1>3. /\ ident' \in [status : {"none", "active", "revoked"}, hash : Token \cup {None}, revokedAt : BOOLEAN]
      /\ IdentStays
  <2>1. CASE UNCHANGED ident
    BY <2>1, IdentSame DEF IdentityInv, IdentityType
  <2>2. CASE agentHeartbeat
    <3>1. ident' = [ident EXCEPT !.status = "active"]
      BY <2>2 DEF agentHeartbeat
    <3> QED  BY <3>1 DEF IdentityInv, IdentityType, IdentStays, storedTokenMatches
  <2> QED  BY <2>1, <2>2 DEF pollOther, RecoverStaleJobLeases, LeaseLapse, identityVars
<1>4. agent' \in AgentRow /\ Phases' /\ AgentStays
  <2>1. CASE UNCHANGED agent
    BY <1>1, <1>2, <2>1, PhasesStay DEF RowsStay, IdentityInv
  <2>2. CASE agentHeartbeat \/ pollOther
    <3>1. PICK ph \in {"idle", "polling"} : agent' = [agent EXCEPT !.phase = ph]
      BY <2>2 DEF agentHeartbeat, pollOther
    <3>2. agent.phase \in {"idle", "polling"}
      BY <2>2 DEF agentHeartbeat, pollOther
    <3>3. agent' \in AgentRow /\ agent'.disk = agent.disk /\ agent'.mem = agent.mem /\ agent'.phase = ph
      BY <1>1, <3>1 DEF AgentRow
    <3> QED  BY <3>2, <3>3 DEF IdentityInv, Phases, AgentStays, AtWork
  <2> QED  BY <2>1, <2>2 DEF RecoverStaleJobLeases, LeaseLapse
<1>5. evidence' \in [claim : Rot \cup {None}, result : Rot \cup {None}, answered : BOOLEAN]
  <2>1. CASE evidence' = [NoEvidence EXCEPT !.answered = TRUE]
    BY <2>1 DEF NoEvidence
  <2>2. CASE UNCHANGED evidence
    BY <2>2 DEF IdentityInv, IdentityType
  <2> QED  BY <2>1, <2>2 DEF agentHeartbeat, pollOther, RecoverStaleJobLeases, LeaseLapse
<1>6. IdentityType'
  BY <1>1, <1>2, <1>3, <1>4, <1>5 DEF IdentityInv, IdentityType
<1> QED  BY <1>1, <1>2, <1>3, <1>4, <1>6, QuietStep

\* The operator's interventions and the losses that are causes.
LEMMA CauseSteps ==
  ASSUME IdentityInv,
         \/ RevokeNodeAgentIdentity \/ RetireNode \/ ForceRetireNode \/ applyNodeEmergencyCleanupResult
         \/ ClearNodeStalePendingRotation
         \/ \E r \in Rot : CancelJob(r) \/ loseRotation(r)
  PROVE  IdentityInv'
<1>1. causes' # {}
  BY BecauseCauses DEF RevokeNodeAgentIdentity, RetireNode, ForceRetireNode, applyNodeEmergencyCleanupResult,
     ClearNodeStalePendingRotation, CancelJob, loseRotation
<1>2. UNCHANGED <<agent, results, issued, requeue>> /\ rot \in [Rot -> RotRow]
  BY DEF RevokeNodeAgentIdentity, RetireNode, ForceRetireNode, applyNodeEmergencyCleanupResult,
     ClearNodeStalePendingRotation, CancelJob, loseRotation, jobVars, IdentityInv, IdentityType
<1>3. /\ ident' \in [status : {"none", "active", "revoked"}, hash : Token \cup {None}, revokedAt : BOOLEAN]
      /\ ident'.hash \in {ident.hash, None}
  <2>1. CASE RevokeNodeAgentIdentity
    BY <2>1 DEF RevokeNodeAgentIdentity
  <2>2. CASE ident' = revokedRow
    BY <2>2 DEF revokedRow, IdentityInv, IdentityType
  <2>3. CASE UNCHANGED ident
    BY <2>3 DEF IdentityInv, IdentityType
  <2> QED  BY <2>1, <2>2, <2>3 DEF RetireNode, ForceRetireNode, applyNodeEmergencyCleanupResult,
     ClearNodeStalePendingRotation, CancelJob, loseRotation, identityVars
<1>4. /\ rot' \in [Rot -> RotRow]
      /\ \A r \in Rot : /\ rot'[r].token = rot[r].token
                        /\ rot'[r].status = "absent" <=> rot[r].status = "absent"
                        /\ rot'[r].effect = "pending" => rot'[r].status = "succeeded"
  <2>1. ASSUME NEW S, rot' = [r \in Rot |-> IF r \in S THEN cancelledRow(rot[r]) ELSE rot[r]],
               \A r \in Rot : r \in S => rot[r].status \in Live
        PROVE  /\ rot' \in [Rot -> RotRow]
               /\ \A r \in Rot : /\ rot'[r].token = rot[r].token
                                 /\ rot'[r].status = "absent" <=> rot[r].status = "absent"
                                 /\ rot'[r].effect = "pending" => rot'[r].status = "succeeded"
    <3>1. \A r \in Rot : /\ cancelledRow(rot[r]) \in RotRow /\ cancelledRow(rot[r]).status = "cancelled"
                         /\ cancelledRow(rot[r]).token = rot[r].token /\ cancelledRow(rot[r]).effect = rot[r].effect
      BY <1>2, CancelledRow
    <3> QED  BY <1>2, <2>1, <3>1 DEF IdentityInv, Tokens, Live
  <2>2. CASE ForceRetireNode
    <3>1. PICK S : S = {r \in Rot : rot[r].status \in Live}
      OBVIOUS
    <3>2. rot' = [r \in Rot |-> IF r \in S THEN cancelledRow(rot[r]) ELSE rot[r]]
      BY <2>2, <3>1 DEF ForceRetireNode
    <3> QED  BY <2>1, <3>1, <3>2
  <2>3. CASE ClearNodeStalePendingRotation
    <3>1. PICK S : S = {r \in Rot : SafeToClear(r)}
      OBVIOUS
    <3>2. rot' = [r \in Rot |-> IF r \in S THEN cancelledRow(rot[r]) ELSE rot[r]]
      BY <2>3, <3>1, Zenon DEF ClearNodeStalePendingRotation
    <3>3. \A r \in Rot : r \in S => rot[r].status \in Live
      BY <3>1 DEF SafeToClear, Live
    <3> QED  BY <2>1, <3>2, <3>3
  <2>4. ASSUME NEW q \in Rot, CancelJob(q)
        PROVE  /\ rot' \in [Rot -> RotRow]
               /\ \A r \in Rot : /\ rot'[r].token = rot[r].token
                                 /\ rot'[r].status = "absent" <=> rot[r].status = "absent"
                                 /\ rot'[r].effect = "pending" => rot'[r].status = "succeeded"
    <3>1. PICK rs : rs = recovered(rot)
      OBVIOUS
    <3>2. /\ rs \in [Rot -> RotRow]
          /\ \A r \in Rot : /\ rs[r].status = IF rot[r].status = "running" /\ ~rot[r].leased
                                              THEN "retrying" ELSE rot[r].status
                            /\ rs[r].token = rot[r].token /\ rs[r].effect = rot[r].effect
      BY <1>2, <3>1, RecoveredRows
    <3>3. rs[q].status \in {"queued", "retrying"} /\ rot' = [rs EXCEPT ![q] = cancelledRow(rs[q])]
      BY <2>4, <3>1 DEF CancelJob
    <3>4. PICK x : x = cancelledRow(rs[q])
      OBVIOUS
    <3>5. x \in RotRow /\ x.status = "cancelled" /\ x.token = rs[q].token /\ x.effect = rs[q].effect
      BY <3>2, <3>4, CancelledRow
    <3>6. \A r \in Rot : rot[r].effect = "pending" => rot[r].status = "succeeded"
      BY DEF IdentityInv, Tokens
    <3> QED  BY <3>2, <3>3, <3>4, <3>5, <3>6
  <2>5. ASSUME NEW q \in Rot, loseRotation(q)
        PROVE  /\ rot' \in [Rot -> RotRow]
               /\ \A r \in Rot : /\ rot'[r].token = rot[r].token
                                 /\ rot'[r].status = "absent" <=> rot[r].status = "absent"
                                 /\ rot'[r].effect = "pending" => rot'[r].status = "succeeded"
    <3>1. PICK x, y : /\ x = [rot EXCEPT ![q].effect = "lost"]
                      /\ y = [rot EXCEPT ![q].effect = "lost", ![q].status = "failed"]
      OBVIOUS
    <3>2. rot[q].effect = "pending" /\ (rot' = x \/ rot' = progressed(y))
      BY <2>5, <3>1 DEF loseRotation
    <3>3. rot[q].status = "succeeded"
      BY <3>2 DEF IdentityInv, Tokens
    <3>4. PICK v : v = [rot[q] EXCEPT !.effect = "lost", !.status = "failed"]
      OBVIOUS
    <3>5. v \in RotRow /\ v.token = rot[q].token /\ v.status = "failed" /\ v.effect = "lost"
      BY <1>2, <3>4 DEF RotRow
    <3>6. y = [rot EXCEPT ![q] = v]
      BY <3>1, <3>4, Zenon
    <3>7. y \in [Rot -> RotRow] /\ y[q] = v /\ \A r \in Rot : r # q => y[r] = rot[r]
      BY <1>2, <3>5, <3>6
    <3>8. /\ x \in [Rot -> RotRow] /\ x[q].status = "succeeded" /\ x[q].token = rot[q].token /\ x[q].effect = "lost"
          /\ \A r \in Rot : r # q => x[r] = rot[r]
      BY <1>2, <3>1, <3>3 DEF RotRow
    <3>9. /\ progressed(y) \in [Rot -> RotRow]
          /\ \A r \in Rot : /\ progressed(y)[r].status = y[r].status /\ progressed(y)[r].token = y[r].token
                            /\ progressed(y)[r].effect = y[r].effect
      BY <3>7, ProgressedRows
    <3>10. \A r \in Rot : rot[r].effect = "pending" => rot[r].status = "succeeded"
      BY DEF IdentityInv, Tokens
    <3>11. CASE rot' = x
      BY <3>3, <3>8, <3>10, <3>11
    <3>12. CASE rot' = progressed(y)
      BY <3>3, <3>5, <3>7, <3>9, <3>10, <3>12
    <3> QED  BY <3>2, <3>11, <3>12
  <2>6. CASE UNCHANGED rot
    BY <1>2, <2>6 DEF IdentityInv, Tokens
  <2> QED  BY <2>2, <2>3, <2>4, <2>5, <2>6 DEF RevokeNodeAgentIdentity, RetireNode, applyNodeEmergencyCleanupResult,
     jobVars
<1>5. evidence' \in [claim : Rot \cup {None}, result : Rot \cup {None}, answered : BOOLEAN]
  <2>1. ASSUME NEW r \in Rot, evidence' = resultRecorded(r)
        PROVE  evidence' \in [claim : Rot \cup {None}, result : Rot \cup {None}, answered : BOOLEAN]
    BY <2>1 DEF resultRecorded, IdentityInv, IdentityType
  <2>2. CASE UNCHANGED evidence
    BY <2>2 DEF IdentityInv, IdentityType
  <2> QED  BY <2>1, <2>2 DEF RevokeNodeAgentIdentity, RetireNode, ForceRetireNode, applyNodeEmergencyCleanupResult,
     ClearNodeStalePendingRotation, CancelJob, loseRotation, jobVars
<1>6. IdentityType'
  BY <1>2, <1>3, <1>4, <1>5 DEF IdentityInv, IdentityType
<1>7. Phases'
  BY <1>2, <1>4, PhasesStay DEF IdentityInv
<1>8. Tokens'
  BY <1>2, <1>3, <1>4, TokensKept
<1> QED  BY <1>1, <1>6, <1>7, <1>8, CauseStep

\* A result is refused, ends the rotation in failure, or leaves it pending.
\* The last is only for a result of the current attempt, made while the agent
\* is not at work on another.
LEMMA ResultSteps ==
  ASSUME IdentityInv, NEW m \in results, agentJobResult(m)  PROVE  IdentityInv'
<1>1. PICK q, rs : q = m.rot /\ rs = recovered(rot)
  OBVIOUS
<1>2. m \in ResultRow /\ q \in Rot /\ rot \in [Rot -> RotRow]
  BY <1>1 DEF IdentityInv, IdentityType, ResultRow
<1>3. /\ rs \in [Rot -> RotRow]
      /\ \A r \in Rot : /\ rs[r].status = IF rot[r].status = "running" /\ ~rot[r].leased
                                          THEN "retrying" ELSE rot[r].status
                        /\ rs[r].token = rot[r].token /\ rs[r].leased = rot[r].leased
                        /\ rs[r].effect = rot[r].effect
  BY <1>1, <1>2, RecoveredRows
<1>4. UNCHANGED <<ident, agent, issued, requeue>> /\ results' \subseteq results
  BY DEF agentJobResult, identityVars
<1>5. \A r \in Rot : rot[r].effect = "pending" => rot[r].status = "succeeded"
  BY DEF IdentityInv, Tokens
<1>6. PICK done : done = [rs EXCEPT ![q].status = m.status, ![q].leased = FALSE]
  OBVIOUS
<1>7. /\ done \in [Rot -> RotRow] /\ done[q].status = m.status /\ done[q].leased = FALSE
      /\ done[q].token = rot[q].token /\ done[q].effect = rot[q].effect
      /\ \A r \in Rot : r # q => done[r] = rs[r]
  <2>1. PICK x : x = [rs[q] EXCEPT !.status = m.status, !.leased = FALSE]
    OBVIOUS
  <2>2. done = [rs EXCEPT ![q] = x]
    BY <1>6, <2>1, Zenon
  <2>3. rs[q] \in RotRow /\ m.status \in {"succeeded", "failed"}
    BY <1>2, <1>3 DEF ResultRow
  <2>4. x \in RotRow /\ x.status = m.status /\ x.leased = FALSE /\ x.token = rs[q].token /\ x.effect = rs[q].effect
    BY <2>1, <2>3 DEF RotRow
  <2> QED  BY <1>2, <1>3, <2>2, <2>4
<1>8. CASE rot' = rs /\ UNCHANGED <<evidence, causes>>
  <2>1. RowsStay
    BY <1>3, <1>5, <1>8 DEF RowsStay, Live
  <2>2. IdentityType'
    BY <1>3, <1>4, <1>8 DEF IdentityInv, IdentityType
  <2>3. Phases' /\ AgentStays
    BY <1>4, <2>1, PhasesStay DEF IdentityInv, RowsStay
  <2> QED  BY <1>4, <1>8, <2>1, <2>2, <2>3, IdentSame, QuietStep
<1>9. CASE /\ rs[q].status = "running" /\ m.status = "failed" /\ rot' = progressed(done)
           /\ evidence' = resultRecorded(q) /\ Because("failed", TRUE)
  <2>1. /\ rot' \in [Rot -> RotRow]
        /\ \A r \in Rot : rot'[r].status = done[r].status /\ rot'[r].token = done[r].token /\ rot'[r].effect = done[r].effect
    BY <1>7, <1>9, ProgressedRows
  <2>2. rot[q].status = "running" /\ rot[q].effect # "pending"
    BY <1>2, <1>3, <1>5, <1>9
  <2>3. \A r \in Rot : /\ rot'[r].token = rot[r].token
                       /\ rot'[r].status = "absent" <=> rot[r].status = "absent"
                       /\ rot'[r].effect = "pending" => rot'[r].status = "succeeded"
    BY <1>3, <1>5, <1>7, <1>9, <2>1, <2>2
  <2>4. evidence' \in [claim : Rot \cup {None}, result : Rot \cup {None}, answered : BOOLEAN]
    BY <1>2, <1>9 DEF resultRecorded, IdentityInv, IdentityType
  <2>5. IdentityType'
    BY <1>4, <2>1, <2>4 DEF IdentityInv, IdentityType
  <2>6. Phases'
    BY <1>4, <2>3, PhasesStay DEF IdentityInv
  <2>7. Tokens'
    BY <1>4, <2>3, TokensKept
  <2> QED  BY <1>9, <2>5, <2>6, <2>7, CauseStep, BecauseCauses
<1>10. CASE /\ rs[q].status = "running" /\ m.status = "succeeded" /\ rot' = [done EXCEPT ![q].effect = "pending"]
            /\ Because("late", m.late) /\ UNCHANGED evidence
  <2>1. /\ rot' \in [Rot -> RotRow] /\ rot'[q].status = "succeeded" /\ rot'[q].token = rot[q].token
        /\ rot'[q].effect = "pending" /\ \A r \in Rot : r # q => rot'[r] = rs[r]
    BY <1>2, <1>7, <1>10 DEF RotRow
  <2>2. rot[q].status = "running" /\ rot[q].leased /\ rot[q].effect # "pending"
    BY <1>2, <1>3, <1>5, <1>10 DEF RotRow
  <2>3. \A r \in Rot : /\ rot'[r].token = rot[r].token
                       /\ rot'[r].status = "absent" <=> rot[r].status = "absent"
                       /\ rot'[r].effect = "pending" => rot'[r].status = "succeeded"
                       /\ rot'[r].status = "running" => rot[r].status = "running" /\ rot[r].leased /\ r # q
    BY <1>3, <1>5, <2>1, <2>2
  <2>4. IdentityType'
    BY <1>4, <1>10, <2>1 DEF IdentityInv, IdentityType
  <2>5. Phases'
    BY <1>4, <2>3, PhasesStay DEF IdentityInv
  <2>6. Tokens'
    BY <1>4, <2>3, TokensKept
  <2>7. ASSUME causes' = {}  PROVE  Undisturbed'
    <3>1. causes = {} /\ ~m.late
      BY <1>10, <2>7, BecauseCauses
    <3>2. Undisturbed
      BY <3>1 DEF IdentityInv
    <3> USE <3>2 DEF Undisturbed
    <3>3. \A r \in Rot : Carries(r)' <=> Carries(r)
      BY <1>3, <2>1, <2>2 DEF Carries, Live
    <3>4. OneCarrier' /\ NotYetStored'
      BY <1>4, <2>3, <3>3 DEF OneCarrier, NotYetStored
    <3>5. agent.disk \in {None, rot[q].token}
      BY <1>1, <1>10, <2>2, <3>1 DEF ReportedIsOnDisk
    <3>6. PendingIsOnDisk'
      BY <1>3, <1>4, <2>1, <3>5 DEF PendingIsOnDisk
    <3>7. ReportedIsOnDisk'
      <4>1. \A k \in results : k.rot \in Rot
        BY DEF IdentityInv, IdentityType, ResultRow
      <4> QED  BY <1>4, <2>3, <4>1 DEF ReportedIsOnDisk
    <3>8. ~AtWork
      BY <1>1, <1>2, <2>2, <3>1 DEF AloneAtWork
    <3>9. AloneAtWork' /\ SavedWhatItReports'
      BY <1>4, <3>8 DEF AtWork, AloneAtWork, SavedWhatItReports
    <3>10. DiskAccepted'
      <4> SUFFICES ASSUME agent.disk # None  PROVE  Accepted(agent.disk)'
        BY <1>4 DEF DiskAccepted
      <4>1. rot'[q].effect = "pending" /\ rot'[q].token = agent.disk
        BY <2>1, <3>5
      <4> QED  BY <1>2, <1>4, <4>1 DEF Accepted
    <3> QED  BY <3>4, <3>6, <3>7, <3>9, <3>10
  <2> QED  BY <2>4, <2>5, <2>6, <2>7 DEF IdentityInv
<1> QED  BY <1>1, <1>6, <1>8, <1>9, <1>10, Zenon DEF agentJobResult

\* The completion stores its token: the one of the state file.
LEMMA ApplySteps ==
  ASSUME IdentityInv, NEW q \in Rot, applyRotation(q)  PROVE  IdentityInv'
<1>1. PICK y : y = [rot EXCEPT ![q].effect = "done"]
  OBVIOUS
<1>2. /\ rot[q].effect = "pending" /\ rot' = progressed(y) /\ rot \in [Rot -> RotRow]
      /\ ident' = [status |-> "active", hash |-> rot[q].token, revokedAt |-> FALSE]
      /\ evidence' = resultRecorded(q) /\ UNCHANGED <<agent, results, issued, causes, requeue>>
  BY <1>1 DEF applyRotation, storeHash, historyVars, IdentityInv, IdentityType
<1>3. rot[q].status = "succeeded" /\ rot[q].token \in issued
  BY <1>2 DEF IdentityInv, Tokens
<1>4. /\ y \in [Rot -> RotRow] /\ y[q].status = "succeeded" /\ y[q].token = rot[q].token /\ y[q].effect = "done"
      /\ \A r \in Rot : r # q => y[r] = rot[r]
  BY <1>1, <1>2, <1>3 DEF RotRow
<1>5. /\ rot' \in [Rot -> RotRow]
      /\ \A r \in Rot : /\ rot'[r].status = y[r].status /\ rot'[r].token = y[r].token
                        /\ rot'[r].effect = y[r].effect /\ rot'[r].leased = y[r].leased
  BY <1>2, <1>4, ProgressedRows
<1>6. \A r \in Rot : /\ rot'[r].status = rot[r].status /\ rot'[r].token = rot[r].token
                     /\ rot'[r].effect = IF r = q THEN "done" ELSE rot[r].effect
                     /\ r # q => rot'[r].leased = rot[r].leased
  BY <1>3, <1>4, <1>5
<1>7. evidence' \in [claim : Rot \cup {None}, result : Rot \cup {None}, answered : BOOLEAN]
  BY <1>2 DEF resultRecorded, IdentityInv, IdentityType
<1>8. ident' \in [status : {"none", "active", "revoked"}, hash : Token \cup {None}, revokedAt : BOOLEAN]
  BY <1>2 DEF RotRow
<1>9. IdentityType'
  BY <1>2, <1>5, <1>7, <1>8 DEF IdentityInv, IdentityType
<1>10. Phases'
  BY <1>2, <1>6, PhasesStay DEF IdentityInv
<1>11. Tokens'
  <2>1. \A r \in Rot : rot[r].effect = "pending" => rot[r].status = "succeeded"
    BY DEF IdentityInv, Tokens
  <2> QED  BY <1>2, <1>3, <1>6, <2>1, TokensKept
<1>12. ASSUME causes = {}  PROVE  Undisturbed'
  <2> USE <1>12 DEF Undisturbed, IdentityInv
  <2>1. \A r \in Rot : Carries(r)' <=> Carries(r) /\ r # q
    BY <1>3, <1>6 DEF Carries, Live
  <2>2. OneCarrier'
    BY <1>6, <2>1 DEF OneCarrier
  <2>3. NotYetStored'
    BY <1>2, <1>6, <2>1 DEF OneCarrier, NotYetStored, Carries
  <2>4. PendingIsOnDisk'
    BY <1>2, <1>6 DEF PendingIsOnDisk
  <2>5. ReportedIsOnDisk'
    <3>1. \A k \in results : k.rot \in Rot
      BY DEF IdentityType, ResultRow
    <3> QED  BY <1>2, <1>3, <1>6, <3>1 DEF ReportedIsOnDisk
  <2>6. ~AtWork
    BY <1>2 DEF AloneAtWork
  <2>7. AloneAtWork' /\ SavedWhatItReports'
    BY <1>2, <2>6 DEF AtWork, AloneAtWork, SavedWhatItReports
  <2>8. DiskAccepted'
    BY <1>2 DEF PendingIsOnDisk, DiskAccepted, Accepted, ValidateAgentToken, storedTokenMatches
  <2> QED  BY <2>2, <2>3, <2>4, <2>5, <2>7, <2>8
<1> QED  BY <1>2, <1>9, <1>10, <1>11, <1>12 DEF IdentityInv

\* Enrollment stores a new token, and the agent saves it or has none.
LEMMA RegisterSteps ==
  ASSUME IdentityInv, NEW t \in Token, RegisterAgent(t)  PROVE  IdentityInv'
<1>1. /\ agent.phase = "enrolling" /\ t \notin issued /\ issued' = issued \cup {t}
      /\ ident' = [status |-> "active", hash |-> t, revokedAt |-> FALSE]
      /\ UNCHANGED <<rot, results, evidence, requeue>>
      /\ agent \in AgentRow /\ agent.disk = None /\ t # None
  BY IdentityAssumption DEF RegisterAgent, newToken, jobVars, IdentityInv, IdentityType, Phases
<1>2. /\ agent' \in AgentRow
      /\ \/ agent' = agent
         \/ agent'.phase = "idle" /\ agent'.disk = t /\ agent'.mem = t
  BY <1>1 DEF RegisterAgent, AgentRow
<1>3. IdentityType'
  BY <1>1, <1>2 DEF IdentityInv, IdentityType
<1>4. Phases'
  BY <1>1, <1>2 DEF IdentityInv, Phases, AtWork
<1>5. Tokens'
  BY <1>1 DEF IdentityInv, Tokens
<1>6. ASSUME causes' = {}  PROVE  Undisturbed'
  <2>1. Because("reinstall", \E r \in Rot : InFlight(r))
    BY DEF RegisterAgent
  <2>2. causes = {} /\ ~\E r \in Rot : InFlight(r)
    BY <1>6, <2>1, Zenon DEF Because
  <2> USE <2>2 DEF Undisturbed, IdentityInv
  <2>3. \A r \in Rot : Carries(r) => rot[r].token \in issued
    BY DEF Tokens, Carries, Live
  <2>4. OneCarrier'
    BY <1>1 DEF OneCarrier, Carries
  <2>5. NotYetStored'
    BY <1>1, <2>3 DEF NotYetStored, Carries
  <2>6. PendingIsOnDisk'
    BY <1>1 DEF PendingIsOnDisk, InFlight
  <2>7. ReportedIsOnDisk'
    <3>1. \A k \in results : k.rot \in Rot
      BY DEF IdentityType, ResultRow
    <3> QED  BY <1>1, <3>1 DEF ReportedIsOnDisk, InFlight
  <2>8. AloneAtWork' /\ SavedWhatItReports'
    BY <1>1, <1>2 DEF AtWork, AloneAtWork, SavedWhatItReports
  <2>9. DiskAccepted'
    BY <1>1, <1>2 DEF DiskAccepted, Accepted, ValidateAgentToken, storedTokenMatches
  <2> QED  BY <2>4, <2>5, <2>6, <2>7, <2>8, <2>9
<1> QED  BY <1>3, <1>4, <1>5, <1>6 DEF IdentityInv

\* A poll is answered only while nothing is pending; from then on results of
\* an earlier attempt are late.
LEMMA ClaimSteps ==
  ASSUME IdentityInv, NEW q \in Rot, AgentNextJob(q)  PROVE  IdentityInv'
<1>1. PICK rs : rs = recovered(progressed(rot))
  OBVIOUS
<1>2. /\ agent.phase = "polling" /\ ValidateAgentToken(agent.mem)
      /\ rs[q].status \in {"queued", "retrying"} /\ (\A o \in Rot : rs[o].status # "running")
      /\ rot' = claimed(rs, q) /\ results' = overtaken(q)
      /\ UNCHANGED <<ident, requeue, issued, causes>>
      /\ evidence' \in {evidence, claimRecorded(q)}
      /\ \/ agent' = [agent EXCEPT !.phase = "executing", !.job = q]
         \/ agent' = [agent EXCEPT !.phase = "idle"]
  BY <1>1 DEF AgentNextJob, identityVars
<1>3. agent \in AgentRow /\ rot \in [Rot -> RotRow] /\ agent.disk # None /\ agent.mem = agent.disk
  BY <1>2 DEF IdentityInv, IdentityType, Phases
<1>4. /\ rs \in [Rot -> RotRow]
      /\ \A r \in Rot : /\ rs[r].status = IF rot[r].status = "running" /\ ~rot[r].leased
                                          THEN "retrying" ELSE rot[r].status
                        /\ rs[r].token = rot[r].token /\ rs[r].effect = rot[r].effect
  <2>1. PICK ps : ps = progressed(rot)
    OBVIOUS
  <2>2. /\ ps \in [Rot -> RotRow]
        /\ \A r \in Rot : /\ ps[r].status = rot[r].status /\ ps[r].token = rot[r].token
                          /\ ps[r].leased = rot[r].leased /\ ps[r].effect = rot[r].effect
    BY <1>3, <2>1, ProgressedRows
  <2>3. rs = recovered(ps)
    BY <1>1, <2>1
  <2> QED  BY <2>2, <2>3, RecoveredRows
<1>5. /\ rot' \in [Rot -> RotRow] /\ rot'[q].status = "running"
      /\ rot'[q].token = rot[q].token /\ rot'[q].effect = rot[q].effect
      /\ \A r \in Rot : r # q => rot'[r] = rs[r]
  BY <1>2, <1>4, ClaimedRows
<1>6. rot[q].status \in Live
  BY <1>2, <1>4 DEF Live
<1>7. \A r \in Rot : rot[r].effect = "pending" => rot[r].status = "succeeded"
  BY DEF IdentityInv, Tokens
<1>8. \A r \in Rot : /\ rot'[r].token = rot[r].token /\ rot'[r].effect = rot[r].effect
                     /\ rot'[r].status \in Live <=> rot[r].status \in Live
                     /\ rot'[r].status = "absent" <=> rot[r].status = "absent"
                     /\ rot'[r].status = "running" => r = q
                     /\ rot[r].effect = "pending" => rot'[r].status = "succeeded"
  BY <1>2, <1>4, <1>5, <1>6, <1>7 DEF Live
<1>9. /\ agent' \in AgentRow /\ agent'.disk = agent.disk /\ agent'.mem = agent.mem
      /\ \/ agent'.phase = "executing" /\ agent'.job = q
         \/ agent'.phase = "idle"
  BY <1>2, <1>3 DEF AgentRow
<1>10. /\ results' \in SUBSET ResultRow
       /\ \A m \in results' : m.rot = q => m.late
  <2> SUFFICES ASSUME NEW m \in results'  PROVE  m \in ResultRow /\ (m.rot = q => m.late)
    OBVIOUS
  <2>1. PICK k \in results : m = [k EXCEPT !.late = k.late \/ k.rot = q]
    BY <1>2 DEF overtaken
  <2>2. k \in ResultRow
    BY DEF IdentityInv, IdentityType
  <2>3. PICK l \in BOOLEAN : l = (k.late \/ k.rot = q)
    BY Zenon
  <2>4. m = [k EXCEPT !.late = l]
    BY <2>1, <2>3, Zenon
  <2>5. m \in ResultRow /\ m.rot = k.rot /\ m.late = l
    BY <2>2, <2>4 DEF ResultRow
  <2> QED  BY <2>3, <2>5, Zenon
<1>11. evidence' \in [claim : Rot \cup {None}, result : Rot \cup {None}, answered : BOOLEAN]
  BY <1>2 DEF claimRecorded, IdentityInv, IdentityType
<1>12. IdentityType'
  BY <1>2, <1>5, <1>9, <1>10, <1>11 DEF IdentityInv, IdentityType
<1>13. Phases'
  BY <1>3, <1>5, <1>9 DEF IdentityInv, Phases, AtWork
<1>14. Tokens'
  BY <1>2, <1>8, TokensKept
<1>15. ASSUME causes = {}  PROVE  Undisturbed'
  <2> USE <1>15 DEF Undisturbed, IdentityInv
  <2>1. \A r \in Rot : Carries(r)' <=> Carries(r)
    BY <1>8 DEF Carries
  <2>2. OneCarrier' /\ NotYetStored'
    BY <1>2, <1>8, <2>1 DEF OneCarrier, NotYetStored
  <2>3. PendingIsOnDisk'
    BY <1>8, <1>9 DEF PendingIsOnDisk
  <2>4. ReportedIsOnDisk'
    <3>1. \A m \in results' : m.rot \in Rot
      BY <1>10 DEF ResultRow
    <3> QED  BY <1>8, <1>10, <3>1 DEF ReportedIsOnDisk
  <2>5. \A r \in Rot : rot[r].effect # "pending"
    <3> SUFFICES ASSUME NEW r \in Rot, rot[r].effect = "pending"  PROVE  FALSE
      OBVIOUS
    <3>1. agent.mem = rot[r].token /\ Carries(r)
      BY <1>3 DEF PendingIsOnDisk, Carries
    <3>2. ~storedTokenMatches(agent.mem)
      BY <3>1 DEF NotYetStored, storedTokenMatches
    <3>3. ~rotatedAgentTokenMatches(agent.mem)
      BY <1>7, <3>1 DEF OneCarrier, rotatedAgentTokenMatches, Carries, Live
    <3> QED  BY <1>2, <3>2, <3>3 DEF ValidateAgentToken
  <2>6. AloneAtWork'
    BY <1>5, <1>6, <1>8, <1>9, <1>10, <2>5 DEF AloneAtWork, AtWork
  <2>7. SavedWhatItReports'
    BY <1>9 DEF SavedWhatItReports
  <2>8. DiskAccepted'
    BY <1>2, <1>8, <1>9 DEF DiskAccepted, Accepted, ValidateAgentToken, storedTokenMatches, rotatedAgentTokenMatches
  <2> QED  BY <2>2, <2>3, <2>4, <2>6, <2>7, <2>8
<1> QED  BY <1>2, <1>12, <1>13, <1>14, <1>15 DEF IdentityInv

\* The state file gets the token of the job at work, which a live rotation
\* carries.
LEMMA RotateSteps ==
  ASSUME IdentityInv, rotateAgentToken  PROVE  IdentityInv'
<1>1. PICK q, t : q = agent.job /\ t = rot[q].token
  OBVIOUS
<1>2. /\ agent.phase = "executing" /\ UNCHANGED <<ident, rot, results, issued, causes, evidence, requeue>>
      /\ agent' = [agent EXCEPT !.phase = "submitting", !.disk = t, !.mem = t, !.outcome = "succeeded"]
      /\ agent \in AgentRow /\ rot \in [Rot -> RotRow]
  BY <1>1 DEF rotateAgentToken, identityVars, jobVars, historyVars, IdentityInv, IdentityType
<1>3. q \in Rot /\ rot[q].status # "absent" /\ t \in issued /\ t \in Token /\ t # None
  BY <1>1, <1>2, IdentityAssumption DEF IdentityInv, IdentityType, Phases, Tokens, AtWork
<1>4. /\ agent' \in AgentRow /\ agent'.phase = "submitting" /\ agent'.disk = t /\ agent'.mem = t
      /\ agent'.outcome = "succeeded" /\ agent'.job = q
  BY <1>1, <1>2, <1>3 DEF AgentRow
<1>5. IdentityType'
  BY <1>2, <1>4 DEF IdentityInv, IdentityType
<1>6. Phases'
  BY <1>2, <1>3, <1>4 DEF Phases, AtWork
<1>7. Tokens'
  BY <1>2 DEF IdentityInv, Tokens
<1>8. ASSUME causes = {}  PROVE  Undisturbed'
  <2> USE <1>8 DEF Undisturbed, IdentityInv
  <2>1. /\ \A r \in Rot : (rot[r].status = "running" => r = q) /\ rot[r].effect # "pending"
        /\ \A m \in results : m.rot = q => m.late
        /\ \E r \in Rot : rot[r].status \in Live /\ rot[r].token = t
    BY <1>1, <1>2 DEF AloneAtWork, AtWork
  <2>2. OneCarrier' /\ NotYetStored'
    BY <1>2 DEF OneCarrier, NotYetStored, Carries
  <2>3. PendingIsOnDisk'
    BY <1>2, <2>1 DEF PendingIsOnDisk
  <2>4. ReportedIsOnDisk'
    <3>1. \A m \in results : m.rot \in Rot
      BY DEF IdentityType, ResultRow
    <3> QED  BY <1>2, <2>1, <3>1 DEF ReportedIsOnDisk
  <2>5. AloneAtWork'
    BY <1>1, <1>2, <1>4, <2>1 DEF AloneAtWork
  <2>6. SavedWhatItReports'
    BY <1>1, <1>2, <1>4 DEF SavedWhatItReports
  <2>7. DiskAccepted'
    BY <1>2, <1>3, <1>4, <2>1 DEF DiskAccepted, Accepted, ValidateAgentToken, rotatedAgentTokenMatches
  <2> QED  BY <2>2, <2>3, <2>4, <2>5, <2>6, <2>7
<1> QED  BY <1>2, <1>5, <1>6, <1>7, <1>8 DEF IdentityInv

\* The result names a token that is in the state file.
LEMMA SubmitSteps ==
  ASSUME IdentityInv, submit  PROVE  IdentityInv'
<1>1. PICK m : m = [rot |-> agent.job, status |-> agent.outcome, token |-> agent.mem, late |-> FALSE]
  OBVIOUS
<1>2. /\ agent.phase = "submitting" /\ UNCHANGED <<ident, rot, issued, causes, evidence, requeue>>
      /\ results' = results \cup {m}
      /\ agent' = [agent EXCEPT !.phase = "idle", !.job = None, !.outcome = None]
      /\ agent \in AgentRow
  BY <1>1 DEF submit, identityVars, jobVars, historyVars, IdentityInv, IdentityType
<1>3. m \in ResultRow
  <2>1. agent.job \in Rot /\ agent.outcome \in {"succeeded", "failed"}
    BY <1>2 DEF IdentityInv, Phases, AtWork
  <2>2. agent.mem \in Token \cup {None}
    BY <1>2 DEF AgentRow
  <2> QED  BY <1>1, <2>1, <2>2 DEF ResultRow
<1>4. agent' \in AgentRow /\ agent'.phase = "idle" /\ agent'.disk = agent.disk /\ agent'.mem = agent.mem
  BY <1>2 DEF AgentRow
<1>5. IdentityType'
  BY <1>2, <1>3, <1>4 DEF IdentityInv, IdentityType
<1>6. Phases'
  BY <1>2, <1>4 DEF IdentityInv, Phases, AtWork
<1>7. Tokens'
  BY <1>2 DEF IdentityInv, Tokens
<1>8. ASSUME causes = {}  PROVE  Undisturbed'
  <2> USE <1>8 DEF Undisturbed, IdentityInv
  <2>1. OneCarrier' /\ NotYetStored' /\ PendingIsOnDisk'
    BY <1>2, <1>4 DEF OneCarrier, NotYetStored, Carries, PendingIsOnDisk
  <2>2. m.status = "succeeded" => agent.disk = rot[m.rot].token
    BY <1>1, <1>2 DEF SavedWhatItReports
  <2>3. ReportedIsOnDisk'
    BY <1>2, <1>4, <2>2 DEF ReportedIsOnDisk
  <2>4. AloneAtWork' /\ SavedWhatItReports'
    BY <1>4 DEF AloneAtWork, AtWork, SavedWhatItReports
  <2>5. DiskAccepted'
    BY <1>2, <1>4 DEF DiskAccepted, Accepted, ValidateAgentToken, storedTokenMatches, rotatedAgentTokenMatches
  <2> QED  BY <2>1, <2>3, <2>4, <2>5
<1> QED  BY <1>2, <1>5, <1>6, <1>7, <1>8 DEF IdentityInv

\* A new rotation carries a new token.
LEMMA CreateSteps ==
  ASSUME IdentityInv, NEW q \in Rot, NEW t \in Token, CreateNodeAgentTokenRotateJob(q, t)  PROVE  IdentityInv'
<1>1. PICK x : x = Queued(t)
  OBVIOUS
<1>2. /\ rot[q].status = "absent" /\ t \notin issued /\ issued' = issued \cup {t}
      /\ rot' = [rot EXCEPT ![q] = x] /\ rot \in [Rot -> RotRow]
      /\ UNCHANGED <<ident, evidence, requeue, agent, results, causes>>
  BY <1>1 DEF CreateNodeAgentTokenRotateJob, newRot, newToken, identityVars, IdentityInv, IdentityType
<1>3. x \in RotRow /\ x.status = "queued" /\ x.token = t /\ x.effect = "none"
  BY <1>1, QueuedRow
<1>4. rot' \in [Rot -> RotRow] /\ rot'[q] = x /\ \A r \in Rot : r # q => rot'[r] = rot[r]
  BY <1>2, <1>3
<1>5. IdentityType'
  BY <1>2, <1>4 DEF IdentityInv, IdentityType
<1>6. Phases'
  BY <1>2, <1>3, <1>4, PhasesStay DEF IdentityInv
<1>7. Tokens'
  BY <1>2, <1>3, <1>4 DEF IdentityInv, Tokens
<1>8. ASSUME causes = {}  PROVE  Undisturbed'
  <2> USE <1>8 DEF Undisturbed, IdentityInv
  <2>1. \A r \in Rot : /\ Carries(r)' => r = q \/ Carries(r)
                       /\ Carries(r) => rot[r].token \in issued
                       /\ rot[r].effect = "pending" => r # q
    BY <1>2, <1>4 DEF Carries, Tokens, Live
  <2>2. OneCarrier'
    BY <1>2, <1>3, <1>4, <2>1 DEF OneCarrier
  <2>3. NotYetStored'
    <3>1. None # t
      BY IdentityAssumption
    <3> QED  BY <1>2, <1>3, <1>4, <2>1, <3>1 DEF NotYetStored, Tokens
  <2>4. PendingIsOnDisk'
    BY <1>2, <1>3, <1>4 DEF PendingIsOnDisk
  <2>5. ReportedIsOnDisk'
    <3>1. \A m \in results : m.rot \in Rot
      BY DEF IdentityType, ResultRow
    <3> QED  BY <1>2, <1>3, <1>4, <3>1 DEF ReportedIsOnDisk
  <2>6. AtWork => agent.job \in Rot /\ agent.job # q
    BY <1>2 DEF Phases
  <2>7. AloneAtWork'
    <3> SUFFICES ASSUME AtWork
                 PROVE  /\ \A r \in Rot : rot'[r].status = "running" => r = agent.job
                        /\ \A r \in Rot : rot'[r].effect # "pending"
                        /\ \A m \in results : m.rot = agent.job => m.late
                        /\ \E r \in Rot : rot'[r].status \in Live /\ rot'[r].token = rot'[agent.job].token
      BY <1>2 DEF AloneAtWork, AtWork
    <3>1. PICK r \in Rot : rot[r].status \in Live /\ rot[r].token = rot[agent.job].token
      BY DEF AloneAtWork
    <3>2. r # q
      BY <1>2, <3>1 DEF Live
    <3>3. rot'[r].status \in Live /\ rot'[r].token = rot'[agent.job].token
      BY <1>4, <2>6, <3>1, <3>2
    <3> QED  BY <1>3, <1>4, <3>3 DEF AloneAtWork
  <2>8. SavedWhatItReports'
    BY <1>2, <1>4, <2>6 DEF SavedWhatItReports, AtWork
  <2>9. DiskAccepted'
    <3> SUFFICES ASSUME agent.disk # None  PROVE  Accepted(agent.disk)'
      BY <1>2 DEF DiskAccepted
    <3>1. \/ storedTokenMatches(agent.disk)
          \/ \E r \in Rot : Carries(r) /\ rot[r].token = agent.disk
      BY DEF DiskAccepted, Accepted, ValidateAgentToken, rotatedAgentTokenMatches, Carries
    <3>2. \A r \in Rot : Carries(r) => rot'[r] = rot[r]
      BY <1>2, <1>4, <2>1 DEF Carries, Live
    <3> QED  BY <1>2, <3>1, <3>2 DEF Accepted, ValidateAgentToken, storedTokenMatches, rotatedAgentTokenMatches, Carries
  <2> QED  BY <2>2, <2>3, <2>4, <2>5, <2>7, <2>8, <2>9
<1> QED  BY <1>2, <1>5, <1>6, <1>7, <1>8 DEF IdentityInv

\* The token of a stuck rotation moves to the new job in the transaction that
\* cancels the old one.
LEMMA RequeueSteps ==
  ASSUME IdentityInv, NEW k \in Rot, RequeueNodeStuckJob(k)  PROVE  IdentityInv'
<1>1. PICK q, t, x, y :
        /\ q = requeue /\ t = rot[q].token
        /\ x = (IF rot[q].status \in {"running", "retrying"} THEN cancelledRow(rot[q]) ELSE rot[q])
        /\ y = Queued(t)
  OBVIOUS
<1>2. PICK rs : rs = [rot EXCEPT ![q] = x, ![k] = y]
  OBVIOUS
<1>3. /\ q \in Rot /\ rot[k].status = "absent" /\ rot \in [Rot -> RotRow]
      /\ requeue' = None /\ UNCHANGED <<ident, evidence, agent, results, issued>>
  BY <1>1 DEF RequeueNodeStuckJob, newRot, identityVars, IdentityInv, IdentityType
<1>4. rot' = recovered(rs)
  BY <1>1, <1>2, Zenon DEF RequeueNodeStuckJob
<1>5. Because("requeue", ~(rot[q].status \in {"running", "retrying"}))
  BY <1>1 DEF RequeueNodeStuckJob
<1>6. q # k /\ rot[q].status # "absent" /\ t \in issued
  BY <1>1, <1>3 DEF RequeueNodeStuckJob, IdentityInv, Tokens
<1>7. y \in RotRow /\ y.status = "queued" /\ y.token = t /\ y.effect = "none"
  BY <1>1, <1>3, QueuedRow DEF RotRow
<1>8. /\ x \in RotRow /\ x.token = t /\ x.effect = rot[q].effect
      /\ x.status = IF rot[q].status \in {"running", "retrying"} THEN "cancelled" ELSE rot[q].status
  BY <1>1, <1>3, CancelledRow
<1>9. rs \in [Rot -> RotRow] /\ rs[q] = x /\ rs[k] = y /\ \A r \in Rot : r \notin {q, k} => rs[r] = rot[r]
  BY <1>2, <1>3, <1>6, <1>7, <1>8
<1>10. /\ rot' \in [Rot -> RotRow]
       /\ \A r \in Rot : /\ rot'[r].status = IF rs[r].status = "running" /\ ~rs[r].leased
                                             THEN "retrying" ELSE rs[r].status
                         /\ rot'[r].token = rs[r].token /\ rot'[r].leased = rs[r].leased
                         /\ rot'[r].effect = rs[r].effect
  BY <1>4, <1>9, RecoveredRows
<1>11. rot'[k].status = "queued" /\ rot'[k].token = t /\ rot'[k].effect = "none"
  BY <1>7, <1>9, <1>10
<1>12. /\ rot'[q].token = t /\ rot'[q].effect = rot[q].effect
       /\ rot'[q].status = IF rot[q].status \in {"running", "retrying"} THEN "cancelled" ELSE rot[q].status
  BY <1>3, <1>8, <1>9, <1>10
<1>13. \A r \in Rot : rot[r].effect = "pending" => rot[r].status = "succeeded"
  BY DEF IdentityInv, Tokens
<1>14. \A r \in Rot : r \notin {q, k} =>
         /\ rot'[r].token = rot[r].token /\ rot'[r].effect = rot[r].effect
         /\ rot'[r].status \in Live <=> rot[r].status \in Live
         /\ rot'[r].status = "absent" <=> rot[r].status = "absent"
         /\ rot[r].effect = "pending" => rot'[r].status = "succeeded"
         /\ rot'[r].status = "running" => rot[r].status = "running" /\ (rot'[r].leased => rot[r].leased)
  BY <1>9, <1>10, <1>13 DEF Live
<1>15. IdentityType'
  BY <1>3, <1>10 DEF IdentityInv, IdentityType
<1>16. Phases'
  <2>1. \A r \in Rot : rot'[r].status = "absent" => rot[r].status = "absent"
    BY <1>6, <1>11, <1>12, <1>14
  <2> QED  BY <1>3, <2>1, PhasesStay DEF IdentityInv
<1>17. Tokens'
  <2>1. \A r \in Rot : /\ rot'[r].status # "absent" => rot'[r].token \in issued
                       /\ rot'[r].effect = "pending" => rot'[r].status = "succeeded"
    <3> SUFFICES ASSUME NEW r \in Rot
                 PROVE  /\ rot'[r].status # "absent" => rot'[r].token \in issued
                        /\ rot'[r].effect = "pending" => rot'[r].status = "succeeded"
      OBVIOUS
    <3>1. CASE r \in {q, k}
      BY <1>3, <1>6, <1>11, <1>12, <1>13, <3>1
    <3>2. CASE r \notin {q, k}
      BY <1>14, <3>2 DEF IdentityInv, Tokens
    <3> QED  BY <3>1, <3>2
  <2> QED  BY <1>3, <2>1 DEF IdentityInv, Tokens
<1>18. ASSUME causes' = {}  PROVE  Undisturbed'
  <2>1. causes = {} /\ rot[q].status \in {"running", "retrying"}
    BY <1>5, <1>18, Zenon DEF Because
  <2> USE <2>1 DEF Undisturbed, IdentityInv
  <2>2. rot[q].status \in Live /\ rot[q].effect # "pending" /\ rot'[q].status = "cancelled"
    BY <1>3, <1>12, <1>13, <2>1 DEF Live
  <2>3. rot[k].effect # "pending" /\ rot[k].status \notin Live
    BY <1>3, <1>13 DEF Live
  <2>4. \A r \in Rot : Carries(r)' <=> r = k \/ (r # q /\ Carries(r))
    BY <1>11, <1>12, <1>14, <2>2, <2>3 DEF Carries, Live
  <2>5. \A r \in Rot : r # k => rot'[r].token = rot[r].token
    BY <1>1, <1>12, <1>14
  <2>6. OneCarrier'
    <3>1. \A r \in Rot : r # q /\ Carries(r) => rot[r].token # t
      BY <1>1, <1>3, <2>2 DEF OneCarrier, Carries
    <3> QED  BY <1>11, <2>4, <2>5, <3>1 DEF OneCarrier
  <2>7. NotYetStored'
    BY <1>1, <1>3, <1>11, <2>2, <2>4, <2>5 DEF NotYetStored, Carries
  <2>8. PendingIsOnDisk'
    BY <1>3, <1>11, <1>12, <1>14, <2>2 DEF PendingIsOnDisk
  <2>9. ReportedIsOnDisk'
    <3>1. \A m \in results : m.rot \in Rot
      BY DEF IdentityType, ResultRow
    <3> QED  BY <1>3, <1>11, <1>14, <2>2, <3>1 DEF ReportedIsOnDisk
  <2>10. AtWork => agent.job \in Rot /\ agent.job # k
    BY <1>3 DEF Phases
  <2>11. \A u : (\E r \in Rot : rot[r].status \in Live /\ rot[r].token = u)
                 => \E r \in Rot : rot'[r].status \in Live /\ rot'[r].token = u
    <3> SUFFICES ASSUME NEW r \in Rot, rot[r].status \in Live
                 PROVE  \E p \in Rot : rot'[p].status \in Live /\ rot'[p].token = rot[r].token
      OBVIOUS
    <3>1. CASE r = q
      BY <1>1, <1>11, <3>1 DEF Live
    <3>2. CASE r # q
      BY <1>14, <2>3, <3>2
    <3> QED  BY <3>1, <3>2
  <2>12. AloneAtWork'
    <3> SUFFICES ASSUME AtWork
                 PROVE  /\ \A r \in Rot : rot'[r].status = "running" => r = agent.job
                        /\ \A r \in Rot : rot'[r].effect # "pending"
                        /\ \A m \in results : m.rot = agent.job => m.late
                        /\ \E r \in Rot : rot'[r].status \in Live /\ rot'[r].token = rot'[agent.job].token
      BY <1>3 DEF AloneAtWork, AtWork
    <3>1. \A r \in Rot : (rot'[r].status = "running" => r = agent.job) /\ rot'[r].effect # "pending"
      BY <1>11, <1>12, <1>14, <2>2 DEF AloneAtWork
    <3>2. \E r \in Rot : rot[r].status \in Live /\ rot[r].token = rot[agent.job].token
      BY DEF AloneAtWork
    <3>3. rot'[agent.job].token = rot[agent.job].token
      BY <2>5, <2>10
    <3> QED  BY <2>11, <3>1, <3>2, <3>3 DEF AloneAtWork
  <2>13. SavedWhatItReports'
    BY <1>3, <2>5, <2>10 DEF SavedWhatItReports, AtWork
  <2>14. DiskAccepted'
    <3> SUFFICES ASSUME agent.disk # None  PROVE  Accepted(agent.disk)'
      BY <1>3 DEF DiskAccepted
    <3>1. \/ storedTokenMatches(agent.disk)
          \/ \E r \in Rot : rot[r].status \in Live /\ rot[r].token = agent.disk
          \/ \E r \in Rot : rot[r].effect = "pending" /\ rot[r].token = agent.disk
      BY DEF DiskAccepted, Accepted, ValidateAgentToken, rotatedAgentTokenMatches
    <3>2. \A r \in Rot : rot[r].effect = "pending" => rot'[r].effect = "pending" /\ rot'[r].token = rot[r].token
      BY <1>14, <2>2, <2>3
    <3> QED  BY <1>3, <2>11, <3>1, <3>2 DEF Accepted, ValidateAgentToken, storedTokenMatches, rotatedAgentTokenMatches
  <2> QED  BY <2>6, <2>7, <2>8, <2>9, <2>12, <2>13, <2>14
<1> QED  BY <1>15, <1>16, <1>17, <1>18 DEF IdentityInv

\* Every step keeps the invariant.
LEMMA IdentityStep == IdentityInv /\ [Next]_vars => IdentityInv'
<1> SUFFICES ASSUME IdentityInv, [Next]_vars  PROVE  IdentityInv'
  OBVIOUS
<1> QED
  BY AsideSteps, AgentSteps, LoopSteps, CauseSteps, ResultSteps, ApplySteps, RegisterSteps, ClaimSteps,
     RotateSteps, SubmitSteps, CreateSteps, RequeueSteps, Zenon DEF Next

\* The token in the agent's state file is accepted, or will be once a pending
\* completion has stored it, unless an operator intervened, an attempt or an
\* update failed, or a late result was accepted: however often the agent
\* crashes, results are lost, leases lapse and rotations overlap or are queued
\* again (rotateAgentToken, agentJobResult, ValidateAgentToken).
THEOREM NoLockoutWithoutCause == Spec => []LockoutHasCause
<1>1. IdentityInv => LockoutHasCause
  BY DEF IdentityInv, Undisturbed, DiskAccepted, LockoutHasCause
<1> QED  BY IdentityInitially, IdentityStep, <1>1, PTL DEF Spec
=============================================================================
