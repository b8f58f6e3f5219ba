--------------------------- MODULE JobQueueProofs ---------------------------
(***************************************************************************)
(* Proofs about JobQueue, for all jobs, nodes, workers, rows and leases.   *)
(*                                                                         *)
(* The transactions compose table operations (recover, then claim; release,*)
(* insert, then recover), so the inductive invariant of the two tables is  *)
(* an operator on their contents: each table operation has a lemma, and an *)
(* action cites the lemmas of the operations it composes.                  *)
(* The last section says what JobLease, which the queue implements, gives  *)
(* to those who rely on it.                                                *)
(***************************************************************************)
EXTENDS JobQueue, FiniteSetTheorems, TLAPS

TablesTyped(js, ls) ==
  /\ js \in [Job -> JobRow]
  /\ ls \in SUBSET LockRow
  /\ \A j \in Job : js[j].status = "absent" <=> js[j].row = None

LocksOwned(js, ls) ==
  \A l \in ls : /\ js[l.job].status = "running"
                /\ jobLockTarget(js[l.job].row) = l.key
                /\ l.ttl <= js[l.job].ttl

\* The unique index of resource_locks.
LocksUnique(ls) == \A l, m \in ls : l.key = m.key => l = m

\* A lease that still has MaxLag to go is covered by a lock row.
LeasesCovered(js, ls) ==
  \A j \in Job :
    js[j].status = "running" /\ jobLockTarget(js[j].row) # NoLock =>
      \/ js[j].ttl < MaxLag
      \/ \E l \in ls : l.job = j /\ js[j].ttl <= l.ttl + MaxLag

LeasesOwned(js) ==
  \A j \in Job :
    /\ js[j].status = "running" <=> js[j].lockedBy # None
    /\ js[j].status = "running" =>
         IF js[j].row.type \in AgentTypes
         THEN js[j].lockedBy = js[j].row.node
         ELSE js[j].lockedBy \in Worker

TablesInv(js, ls) ==
  /\ TablesTyped(js, ls)
  /\ LocksOwned(js, ls)
  /\ LocksUnique(ls)
  /\ LeasesCovered(js, ls)
  /\ LeasesOwned(js)

-----------------------------------------------------------------------------
\* Every job type's lease is longer than the lag of a claim.
LEMMA LeaseDuration ==
  ASSUME NEW type
  PROVE  jobLeaseDurationForType(type) \in Nat /\ MaxLag < jobLeaseDurationForType(type)
  BY LeaseAssumption, SMT DEF jobLeaseDurationForType

\* recoverStaleJobLeasesTx keeps the invariant of the two tables.
LEMMA RecoverTables ==
  ASSUME NEW js, NEW ls, TablesInv(js, ls)
  PROVE  TablesInv(recoveredJobs(js), recoveredLocks(ls))
<1> DEFINE rj == recoveredJobs(js)
           rl == recoveredLocks(ls)
<1> USE DEF TablesInv
<1>1. /\ js \in [Job -> JobRow]
      /\ ls \in SUBSET LockRow
      /\ \A j \in Job : js[j].status = "absent" <=> js[j].row = None
  BY DEF TablesTyped
<1>2. rj \in [Job -> JobRow]
  BY <1>1 DEF recoveredJobs, Released, JobRow, LiveStatus
<1>3. \A j \in Job : /\ rj[j].row = js[j].row
                     /\ StaleLease(js[j]) => rj[j].status = "retrying" /\ rj[j].lockedBy = None
                     /\ ~StaleLease(js[j]) => rj[j] = js[j]
  BY <1>1 DEF recoveredJobs, Released, JobRow
<1>4. rl \subseteq ls /\ \A l \in rl : l.ttl >= 0
  BY DEF recoveredLocks
<1>5. \A l \in ls : l.job \in Job /\ l.ttl \in Nat \cup {-1}
  BY <1>1 DEF LockRow
<1>6. TablesTyped(rj, rl)
  BY <1>1, <1>2, <1>3, <1>4 DEF TablesTyped, StaleLease
<1>7. LocksOwned(rj, rl)
  <2> SUFFICES ASSUME NEW l \in rl
               PROVE  rj[l.job] = js[l.job]
    BY <1>4 DEF LocksOwned
  <2>1. js[l.job].ttl >= l.ttl /\ l.ttl >= 0 /\ l.job \in Job
    BY <1>4, <1>5 DEF LocksOwned
  <2>2. js[l.job].ttl \in Nat \cup {-1}
    BY <1>1, <2>1 DEF JobRow
  <2> QED BY <1>3, <1>4, <1>5, <2>1, <2>2 DEF StaleLease
<1>8. LocksUnique(rl)
  BY <1>4 DEF LocksUnique
<1>9. LeasesCovered(rj, rl)
  <2> SUFFICES ASSUME NEW j \in Job, rj[j].status = "running", jobLockTarget(rj[j].row) # NoLock,
                      ~(rj[j].ttl < MaxLag)
               PROVE  \E l \in rl : l.job = j /\ rj[j].ttl <= l.ttl + MaxLag
    BY DEF LeasesCovered
  <2>1. rj[j] = js[j]
    BY <1>3
  <2>2. PICK l \in ls : l.job = j /\ js[j].ttl <= l.ttl + MaxLag
    BY <2>1 DEF LeasesCovered
  <2>3. js[j].ttl \in Nat \cup {-1} /\ l.ttl \in Nat \cup {-1}
    BY <1>1, <1>5 DEF JobRow
  <2>4. l.ttl >= 0
    BY <2>1, <2>2, <2>3, LeaseAssumption
  <2> QED BY <2>1, <2>2, <2>4 DEF recoveredLocks
<1>10. LeasesOwned(rj)
  BY <1>3 DEF LeasesOwned, StaleLease
<1> QED BY <1>6, <1>7, <1>8, <1>9, <1>10

\* Ending the lease of a set of live jobs and deleting their lock rows (as
\* completeJob, CancelJob and the force operations do) keeps the invariant.
LEMMA ReleaseTables ==
  ASSUME NEW js, NEW ls, TablesInv(js, ls),
         NEW S \in SUBSET Job, \A j \in S : js[j].status # "absent",
         NEW st \in TerminalStatus,
         NEW rj, rj = [j \in Job |-> IF j \in S THEN Released(js[j], st) ELSE js[j]]
  PROVE  TablesInv(rj, locksWithout(ls, S))
<1> DEFINE rl == locksWithout(ls, S)
<1> USE DEF TablesInv
<1>1. /\ js \in [Job -> JobRow]
      /\ ls \in SUBSET LockRow
      /\ \A j \in Job : js[j].status = "absent" <=> js[j].row = None
  BY DEF TablesTyped
<1>2. rj \in [Job -> JobRow]
  <2>1. ASSUME NEW r \in JobRow PROVE Released(r, st) \in JobRow
    BY <2>1 DEF Released, JobRow
  <2> QED BY <1>1, <2>1
<1>3. \A j \in Job : /\ rj[j].row = js[j].row
                     /\ j \in S => rj[j].status = st /\ rj[j].lockedBy = None
                     /\ j \notin S => rj[j] = js[j]
  BY <1>1 DEF Released, JobRow
<1>4. rl \subseteq ls /\ \A l \in rl : l.job \in Job \ S
  BY <1>1 DEF locksWithout, LockRow
<1>5. st # "absent" /\ st # "running"
  BY DEF TerminalStatus
<1>6. TablesTyped(rj, rl)
  BY <1>1, <1>2, <1>3, <1>4, <1>5 DEF TablesTyped
<1>7. LocksOwned(rj, rl)
  BY <1>3, <1>4 DEF LocksOwned
<1>8. LocksUnique(rl)
  BY <1>4 DEF LocksUnique
<1>9. LeasesCovered(rj, rl)
  <2> SUFFICES ASSUME NEW j \in Job, rj[j].status = "running", jobLockTarget(rj[j].row) # NoLock
               PROVE  \/ rj[j].ttl < MaxLag
                      \/ \E l \in rl : l.job = j /\ rj[j].ttl <= l.ttl + MaxLag
    BY DEF LeasesCovered
  <2>1. j \notin S /\ rj[j] = js[j]
    BY <1>3, <1>5
  <2> QED BY <2>1 DEF LeasesCovered, locksWithout
<1>10. LeasesOwned(rj)
  BY <1>3, <1>5 DEF LeasesOwned
<1> QED BY <1>6, <1>7, <1>8, <1>9, <1>10

\* The same for one job, in the form completeJob and CancelJob write it.
LEMMA ReleaseOne ==
  ASSUME NEW js, NEW ls, TablesInv(js, ls),
         NEW s \in Job, js[s].status # "absent", NEW st \in TerminalStatus
  PROVE  TablesInv([js EXCEPT ![s] = Released(@, st)], locksWithout(ls, {s}))
<1>1. [js EXCEPT ![s] = Released(@, st)]
        = [j \in Job |-> IF j \in {s} THEN Released(js[j], st) ELSE js[j]]
  BY DEF TablesInv, TablesTyped
<1>2. {s} \in SUBSET Job /\ \A j \in {s} : js[j].status # "absent"
  OBVIOUS
<1> QED BY <1>1, <1>2, ReleaseTables

\* Only running jobs have lock rows.
LEMMA IdleHasNoLock ==
  ASSUME NEW js, NEW ls, TablesInv(js, ls), NEW s \in Job, js[s].status # "running"
  PROVE  locksWithout(ls, {s}) = ls
  BY DEF TablesInv, LocksOwned, locksWithout

\* Writing a job row that has no lease over one that has none.
LEMMA RewriteTables ==
  ASSUME NEW js, NEW ls, TablesInv(js, ls),
         NEW k \in Job, js[k].status # "running",
         NEW r \in JobRow, r.status \notin {"running", "absent"}, r.row \in Template,
         r.lockedBy = None
  PROVE  TablesInv([js EXCEPT ![k] = r], ls)
<1> DEFINE rj == [js EXCEPT ![k] = r]
<1> USE DEF TablesInv
<1>1. js \in [Job -> JobRow] /\ ls \in SUBSET LockRow
  BY DEF TablesTyped
<1>2. \A j \in Job : rj[j] = IF j = k THEN r ELSE js[j]
  BY <1>1
<1>3. \A l \in ls : l.job \in Job /\ l.job # k
  BY <1>1 DEF LocksOwned, LockRow
<1>4. TablesTyped(rj, ls)
  <2>1. rj \in [Job -> JobRow]
    BY <1>1
  <2>2. r.row # None
    BY TemplateAssumption
  <2> QED BY <1>1, <1>2, <2>1, <2>2 DEF TablesTyped
<1>5. LocksOwned(rj, ls)
  BY <1>2, <1>3 DEF LocksOwned
<1>6. LeasesCovered(rj, ls)
  BY <1>2 DEF LeasesCovered
<1>7. LeasesOwned(rj)
  BY <1>2 DEF LeasesOwned
<1> QED BY <1>4, <1>5, <1>6, <1>7

\* claimJob, given contents that recovery left.
LEMMA ClaimTables ==
  ASSUME NEW js, NEW ls, TablesInv(js, ls), NEW owner \in Executor,
         NEW candidates \in SUBSET Waiting(js), NEW j \in Job,
         claimJob(owner, js, ls, candidates, j),
         IF js[j].row.type \in AgentTypes THEN owner = js[j].row.node ELSE owner \in Worker
  PROVE  TablesInv(jobs', locks') /\ jobs' = [js EXCEPT ![j] = Leased(@, owner)]
<1> DEFINE D == jobLeaseDurationForType(js[j].row.type)
<1> USE DEF TablesInv
<1>1. js \in [Job -> JobRow] /\ ls \in SUBSET LockRow
      /\ \A i \in Job : js[i].status = "absent" <=> js[i].row = None
  BY DEF TablesTyped
<1>2. js[j].status \in {"queued", "retrying"}
  BY DEF claimJob, IsHead, Waiting
<1>3. js[j].row \in Template
  BY <1>1, <1>2 DEF JobRow
<1>4. D \in Nat /\ MaxLag < D /\ MaxLag \in Nat
  BY LeaseDuration, LeaseAssumption
<1>5. jobs' = [js EXCEPT ![j] = Leased(@, owner)]
  BY DEF claimJob
<1>6. PICK lag \in 0..MaxLag : locks' = ls \cup LockRows(j, js[j].row, lag)
  BY DEF claimJob
<1>7. /\ jobs'[j] \in JobRow
      /\ jobs'[j].status = "running" /\ jobs'[j].lockedBy = owner
      /\ jobs'[j].ttl = D /\ jobs'[j].row = js[j].row
  BY <1>1, <1>4, <1>5 DEF Leased, JobRow, LiveStatus
<1>8. jobs' \in [Job -> JobRow] /\ \A i \in Job \ {j} : jobs'[i] = js[i]
  BY <1>1, <1>5, <1>7
<1>9. \A l \in ls : l.job \in Job /\ l.job # j /\ l.key # jobLockTarget(js[j].row)
  BY <1>1, <1>2 DEF LocksOwned, LockRow, claimJob, LockFree
<1>10. \A l \in LockRows(j, js[j].row, lag) :
          /\ l \in LockRow
          /\ l.key = jobLockTarget(js[j].row) /\ l.job = j /\ l.ttl = D - lag
          /\ D - lag \in Nat /\ D - lag <= D /\ D <= (D - lag) + MaxLag
  BY <1>3, <1>4 DEF LockRows, LockRow, LockKeys
<1>11. TablesTyped(jobs', locks')
  <2>1. locks' \in SUBSET LockRow
    BY <1>1, <1>6, <1>10
  <2>2. js[j].row # None
    BY <1>3, TemplateAssumption
  <2> QED BY <1>1, <1>7, <1>8, <2>1, <2>2 DEF TablesTyped
<1>12. LocksOwned(jobs', locks')
  <2> SUFFICES ASSUME NEW l \in locks'
               PROVE  /\ jobs'[l.job].status = "running"
                      /\ jobLockTarget(jobs'[l.job].row) = l.key
                      /\ l.ttl <= jobs'[l.job].ttl
    BY DEF LocksOwned
  <2>1. CASE l \in ls
    BY <2>1, <1>8, <1>9 DEF LocksOwned
  <2>2. CASE l \in LockRows(j, js[j].row, lag)
    BY <2>2, <1>7, <1>10
  <2> QED BY <1>6, <2>1, <2>2
<1>13. LocksUnique(locks')
  <2>1. \A l, m \in LockRows(j, js[j].row, lag) : l = m
    BY DEF LockRows
  <2> QED BY <1>6, <1>9, <1>10, <2>1 DEF LocksUnique
<1>14. LeasesCovered(jobs', locks')
  <2> SUFFICES ASSUME NEW i \in Job, jobs'[i].status = "running",
                      jobLockTarget(jobs'[i].row) # NoLock
               PROVE  \/ jobs'[i].ttl < MaxLag
                      \/ \E l \in locks' : l.job = i /\ jobs'[i].ttl <= l.ttl + MaxLag
    BY DEF LeasesCovered
  <2>1. CASE i = j
    <3>1. PICK l \in LockRows(j, js[j].row, lag) : TRUE
      BY <2>1, <1>7 DEF LockRows
    <3> QED BY <3>1, <2>1, <1>6, <1>7, <1>10
  <2>2. CASE i # j
    BY <2>2, <1>6, <1>8 DEF LeasesCovered
  <2> QED BY <2>1, <2>2
<1>15. LeasesOwned(jobs')
  BY <1>7, <1>8, OwnerAssumption DEF LeasesOwned
<1> QED BY <1>5, <1>11, <1>12, <1>13, <1>14, <1>15

\* The passing of time.
LEMMA TickTables ==
  ASSUME NEW js, NEW ls, TablesInv(js, ls)
  PROVE  TablesInv([j \in Job |-> [js[j] EXCEPT !.ttl = Less(@)]],
                   {[l EXCEPT !.ttl = Less(@)] : l \in ls})
<1> DEFINE rj == [j \in Job |-> [js[j] EXCEPT !.ttl = Less(@)]]
           older(l) == [l EXCEPT !.ttl = Less(@)]
           rl == {older(l) : l \in ls}
<1> USE DEF TablesInv
<1>1. js \in [Job -> JobRow] /\ ls \in SUBSET LockRow
      /\ \A i \in Job : js[i].status = "absent" <=> js[i].row = None
  BY DEF TablesTyped
<1>2. \A j \in Job : /\ rj[j] \in JobRow
                     /\ rj[j].status = js[j].status /\ rj[j].row = js[j].row
                     /\ rj[j].lockedBy = js[j].lockedBy
                     /\ rj[j].ttl = Less(js[j].ttl)
                     /\ js[j].ttl \in Nat \cup {-1}
  BY <1>1 DEF JobRow, Less
<1>3. \A l \in ls : /\ older(l) \in LockRow
                    /\ older(l).key = l.key /\ older(l).job = l.job
                    /\ older(l).ttl = Less(l.ttl)
                    /\ l.ttl \in Nat \cup {-1} /\ l.job \in Job
  BY <1>1 DEF LockRow, Less
<1>4. \A l \in rl : \E m \in ls : l = older(m)
  OBVIOUS
<1> HIDE DEF rj, rl, older
<1>5. TablesTyped(rj, rl)
  <2>1. rj \in [Job -> JobRow]
    BY <1>2 DEF rj
  <2> QED BY <1>1, <1>2, <1>3, <1>4, <2>1 DEF TablesTyped
<1>6. LocksOwned(rj, rl)
  <2> SUFFICES ASSUME NEW m \in ls
               PROVE  /\ rj[older(m).job].status = "running"
                      /\ jobLockTarget(rj[older(m).job].row) = older(m).key
                      /\ older(m).ttl <= rj[older(m).job].ttl
    BY <1>4 DEF LocksOwned
  <2>1. js[m.job].status = "running" /\ jobLockTarget(js[m.job].row) = m.key /\ m.ttl <= js[m.job].ttl
    BY DEF LocksOwned
  <2>2. Less(m.ttl) <= Less(js[m.job].ttl)
    BY <1>2, <1>3, <2>1 DEF Less
  <2> QED BY <1>2, <1>3, <2>1, <2>2
<1>7. LocksUnique(rl)
  <2> SUFFICES ASSUME NEW l \in rl, NEW m \in rl, l.key = m.key
               PROVE  l = m
    BY DEF LocksUnique
  <2>1. PICK a \in ls, b \in ls : l = older(a) /\ m = older(b)
    BY <1>4
  <2> QED BY <1>3, <2>1 DEF LocksUnique
<1>8. LeasesCovered(rj, rl)
  <2> SUFFICES ASSUME NEW j \in Job, rj[j].status = "running", jobLockTarget(rj[j].row) # NoLock,
                      ~(rj[j].ttl < MaxLag)
               PROVE  \E l \in rl : l.job = j /\ rj[j].ttl <= l.ttl + MaxLag
    BY DEF LeasesCovered
  <2>1. ~(js[j].ttl < MaxLag)
    BY <1>2, LeaseAssumption DEF Less
  <2>2. PICK m \in ls : m.job = j /\ js[j].ttl <= m.ttl + MaxLag
    BY <1>2, <2>1 DEF LeasesCovered
  <2>3. rj[j].ttl <= older(m).ttl + MaxLag
    BY <1>2, <1>3, <2>2, LeaseAssumption DEF Less
  <2>4. older(m) \in rl
    BY DEF rl
  <2> QED BY <1>3, <2>2, <2>3, <2>4
<1>9. LeasesOwned(rj)
  BY <1>2 DEF LeasesOwned
<1> QED BY <1>5, <1>6, <1>7, <1>8, <1>9 DEF rj, rl, older

-----------------------------------------------------------------------------
ProcessTyped ==
  /\ exec \in [Executor -> Job \cup {None}]
  /\ results \in SUBSET [job: Job, status: ResultStatus]
  /\ effect \in [Job -> [phase: {"none", "pending", "applied", "failed", "lost"},
                         by: Worker \cup {API, None}]]
  /\ claims \in [Node -> [job: Job \cup {None}, age: 0..StuckAfter, answered: BOOLEAN]]
  /\ requeue \in [Node -> Job \cup {None}]
  /\ copyOf \in [Job -> Job \cup {None}]
  /\ retired \in SUBSET Node
  /\ faults \in 0..MaxFaults

\* Processes hold the ids of rows that exist.
NoDangling ==
  /\ \A e \in Executor : exec[e] # None => jobs[exec[e]].status # "absent"
  /\ \A n \in Node : requeue[n] # None => jobs[requeue[n]].status # "absent"

IInv ==
  /\ TablesInv(jobs, locks)
  /\ ProcessTyped
  /\ NoDangling
  /\ EffectAgreesWithStatus

\* What a step does to the status of a job, seen from outside: rows stay, and
\* final statuses stay.
Forward ==
  \A j \in Job : /\ jobs[j].status # "absent" => jobs'[j].status # "absent"
                 /\ jobs[j].status \in TerminalStatus => jobs'[j].status = jobs[j].status

\* Recovery turns lapsed running jobs into retrying ones and nothing else.
LEMMA RecoveredStatus ==
  ASSUME NEW js, TablesTyped(js, {})
  PROVE  \A j \in Job : /\ recoveredJobs(js)[j].row = js[j].row
                        /\ \/ recoveredJobs(js)[j] = js[j]
                           \/ js[j].status = "running" /\ recoveredJobs(js)[j].status = "retrying"
  BY DEF TablesTyped, recoveredJobs, Released, StaleLease, JobRow

\* A step that only moves statuses forward and leaves the processes alone.
LEMMA TablesStep ==
  ASSUME IInv, TablesInv(jobs, locks)', Forward, UNCHANGED processVars
  PROVE  IInv'
<1>1. ProcessTyped'
  BY DEF IInv, ProcessTyped, processVars
<1>2. NoDangling'
  BY DEF IInv, NoDangling, ProcessTyped, processVars, Forward
<1>3. EffectAgreesWithStatus'
  BY DEF IInv, EffectAgreesWithStatus, processVars, Forward, TerminalStatus
<1> QED BY <1>1, <1>2, <1>3 DEF IInv

\* A row as CreateJob inserts it is typed, queued and unleased.
LEMMA InsertedRow ==
  ASSUME TablesInv(jobs, locks), NEW t \in Template, NEW p \in Nat
  PROVE  /\ Inserted(t, p) \in JobRow
         /\ Inserted(t, p).status = "queued" /\ Inserted(t, p).row = t
         /\ Inserted(t, p).lockedBy = None
<1>1. Cardinality({j \in Job : jobs[j].status # "absent"}) \in Nat
  <2>1. IsFiniteSet({j \in Job : jobs[j].status # "absent"})
    BY FS_Subset, JobAssumption
  <2> QED BY <2>1, FS_CardinalityType
<1> QED BY <1>1 DEF Inserted, JobRow, LiveStatus

-----------------------------------------------------------------------------
\* CreateJob: a queued row without lease or lock.
LEMMA CreateJobStep ==
  ASSUME IInv, NEW j \in Job, NEW t \in Template, CreateJob(j, t)
  PROVE  IInv'
<1>1. t.priority \in Nat
  BY TemplateAssumption
<1>2. TablesInv(jobs, locks)'
  BY <1>1, InsertedRow, RewriteTables DEF IInv, CreateJob
<1>3. Forward
  BY <1>1, InsertedRow DEF IInv, CreateJob, Forward, TablesInv, TablesTyped, TerminalStatus
<1> QED BY <1>2, <1>3, TablesStep DEF CreateJob

\* setQueuedJobPriority: a queued row stays as it is but for its priority.
LEMMA setQueuedJobPriorityStep ==
  ASSUME IInv, NEW j \in Job, setQueuedJobPriority(j)
  PROVE  IInv'
<1> DEFINE r == [jobs[j] EXCEPT !.priority = 60]
<1>1. jobs[j] \in JobRow /\ jobs[j].status = "queued" /\ jobs[j].row # None /\ jobs[j].lockedBy = None
  BY DEF IInv, TablesInv, TablesTyped, LeasesOwned, setQueuedJobPriority
<1>2. /\ r \in JobRow /\ r.status = "queued"
      /\ r.row \in Template /\ r.lockedBy = None
  BY <1>1 DEF JobRow
<1>3. jobs' = [jobs EXCEPT ![j] = r] /\ locks' = locks
  BY DEF setQueuedJobPriority
<1> HIDE DEF r
<1>4. TablesInv(jobs, locks)'
  BY <1>1, <1>2, <1>3, RewriteTables DEF IInv
<1>5. Forward
  BY <1>1, <1>2, <1>3 DEF IInv, Forward, TablesInv, TablesTyped
<1> QED BY <1>4, <1>5, TablesStep DEF setQueuedJobPriority

\* RecoverStaleJobLeases: recovery alone, committed.
LEMMA RecoverStep ==
  ASSUME IInv, RecoverStaleJobLeases
  PROVE  IInv'
<1>1. TablesInv(jobs, locks)'
  BY RecoverTables DEF IInv, RecoverStaleJobLeases
<1>2. Forward
  BY RecoveredStatus DEF IInv, RecoverStaleJobLeases, Forward, TablesInv, TablesTyped, TerminalStatus
<1> QED BY <1>1, <1>2, TablesStep DEF RecoverStaleJobLeases

\* CancelJob: recovery, or the release of a job that is still live.
LEMMA CancelJobStep ==
  ASSUME IInv, NEW j \in Job, CancelJob(j)
  PROVE  IInv'
<1> DEFINE js == recoveredJobs(jobs)
           ls == recoveredLocks(locks)
<1>1. TablesInv(js, ls)
  BY RecoverTables DEF IInv
<1>2. \A i \in Job : \/ js[i] = jobs[i]
                     \/ jobs[i].status = "running" /\ js[i].status = "retrying"
  BY RecoveredStatus DEF IInv, TablesInv, TablesTyped
<1> HIDE DEF js, ls
<1>3. CASE jobs' = js /\ locks' = ls
  <2>1. Forward
    BY <1>2, <1>3 DEF Forward, TerminalStatus
  <2> QED BY <1>1, <1>3, <2>1, TablesStep DEF CancelJob
<1>4. CASE /\ js[j].status \in {"queued", "retrying"}
           /\ jobs' = [js EXCEPT ![j] = Released(@, "cancelled")]
           /\ locks' = locksWithout(ls, {j})
  <2>1. TablesInv(jobs, locks)'
    BY <1>1, <1>4, ReleaseOne DEF TerminalStatus
  <2>2. \A i \in Job : i # j => jobs'[i] = js[i]
    BY <1>1, <1>4 DEF TablesInv, TablesTyped
  <2>3. jobs'[j].status = "cancelled"
    BY <1>1, <1>4 DEF TablesInv, TablesTyped, JobRow, Released
  <2>4. Forward
    BY <1>2, <1>4, <2>2, <2>3 DEF Forward, TerminalStatus
  <2> QED BY <2>1, <2>4, TablesStep DEF CancelJob
<1> QED BY <1>3, <1>4 DEF CancelJob, js, ls

\* Time passes for leases and locks alike.
LEMMA TickStep ==
  ASSUME IInv, Tick
  PROVE  IInv'
<1>1. TablesInv(jobs, locks)'
  BY TickTables DEF IInv, Tick
<1>2. \A j \in Job : jobs'[j].status = jobs[j].status
  BY DEF IInv, TablesInv, TablesTyped, Tick, JobRow
<1>3. ProcessTyped'
  <2>1. claims' \in [Node -> [job: Job \cup {None}, age: 0..StuckAfter, answered: BOOLEAN]]
    BY LeaseAssumption DEF IInv, ProcessTyped, Tick
  <2>2. faults' \in 0..MaxFaults
    BY LeaseAssumption DEF IInv, ProcessTyped, Tick, Fault
  <2> QED BY <2>1, <2>2 DEF IInv, ProcessTyped, Tick
<1>4. NoDangling'
  BY <1>2 DEF IInv, NoDangling, ProcessTyped, Tick
<1>5. EffectAgreesWithStatus'
  BY <1>2 DEF IInv, EffectAgreesWithStatus, Tick
<1> QED BY <1>1, <1>3, <1>4, <1>5 DEF IInv

\* What a claim leaves, for the claims of workers and of agents.
LEMMA ClaimForward ==
  ASSUME IInv, NEW owner \in Executor, NEW j \in Job, NEW candidates,
         candidates \in SUBSET Waiting(recoveredJobs(jobs)),
         claimJob(owner, recoveredJobs(jobs), recoveredLocks(locks), candidates, j),
         IF recoveredJobs(jobs)[j].row.type \in AgentTypes
         THEN owner = recoveredJobs(jobs)[j].row.node ELSE owner \in Worker
  PROVE  TablesInv(jobs, locks)' /\ Forward /\ jobs'[j].status = "running"
<1> DEFINE js == recoveredJobs(jobs)
           ls == recoveredLocks(locks)
<1>1. TablesInv(js, ls)
  BY RecoverTables DEF IInv
<1>2. \A i \in Job : \/ js[i] = jobs[i]
                     \/ jobs[i].status = "running" /\ js[i].status = "retrying"
  BY RecoveredStatus DEF IInv, TablesInv, TablesTyped
<1>3. js[j].status \in {"queued", "retrying"}
  BY DEF claimJob, IsHead, Waiting
<1> HIDE DEF js, ls
<1>4. TablesInv(jobs', locks') /\ jobs' = [js EXCEPT ![j] = Leased(@, owner)]
  BY <1>1, ClaimTables DEF js, ls
<1>5. jobs'[j].status = "running" /\ \A i \in Job : i # j => jobs'[i] = js[i]
  BY <1>1, <1>4 DEF TablesInv, TablesTyped, Leased, JobRow
<1>6. Forward
  BY <1>2, <1>3, <1>5 DEF Forward, TerminalStatus
<1> QED BY <1>4, <1>5, <1>6

\* ClaimJob: recovery, then the lease and the lock of the first candidate.
LEMMA ClaimJobStep ==
  ASSUME IInv, NEW w \in Worker, ClaimJob(w)
  PROVE  IInv'
<1>1. PICK j \in Job :
        /\ claimJob(w, recoveredJobs(jobs), recoveredLocks(locks),
                    workerCandidates(recoveredJobs(jobs)), j)
        /\ exec' = [exec EXCEPT ![w] = j]
  BY DEF ClaimJob
<1>2. /\ workerCandidates(recoveredJobs(jobs)) \in SUBSET Waiting(recoveredJobs(jobs))
      /\ recoveredJobs(jobs)[j].row.type \notin AgentTypes
      /\ w \in Executor
  BY <1>1 DEF workerCandidates, claimJob, IsHead, Executor
<1>3. TablesInv(jobs, locks)' /\ Forward /\ jobs'[j].status = "running"
  BY <1>1, <1>2, ClaimForward
<1>4. ProcessTyped'
  BY <1>1, <1>2 DEF IInv, ProcessTyped, ClaimJob
<1>5. NoDangling'
  BY <1>1, <1>3 DEF IInv, NoDangling, ProcessTyped, ClaimJob, Forward
<1>6. EffectAgreesWithStatus'
  BY <1>3 DEF IInv, EffectAgreesWithStatus, ClaimJob, Forward, TerminalStatus
<1> QED BY <1>3, <1>4, <1>5, <1>6 DEF IInv

\* AgentNextJob: the same for an agent, whose answer may get lost.
LEMMA AgentNextJobStep ==
  ASSUME IInv, NEW n \in Node, AgentNextJob(n)
  PROVE  IInv'
<1>1. PICK j \in Job :
        /\ claimJob(n, recoveredJobs(jobs), recoveredLocks(locks),
                    agentCandidates(recoveredJobs(jobs), n), j)
        /\ exec' = [exec EXCEPT ![n] = j] \/ exec' = exec
        /\ claims' = claims \/ claims' = [claims EXCEPT ![n] = [job |-> j, age |-> 0, answered |-> FALSE]]
        /\ faults' = faults \/ Fault
  BY DEF AgentNextJob
<1>2. /\ agentCandidates(recoveredJobs(jobs), n) \in SUBSET Waiting(recoveredJobs(jobs))
      /\ recoveredJobs(jobs)[j].row.type \in AgentTypes
      /\ recoveredJobs(jobs)[j].row.node = n
      /\ n \in Executor
  BY <1>1 DEF agentCandidates, claimJob, IsHead, Executor
<1>3. TablesInv(jobs, locks)' /\ Forward /\ jobs'[j].status = "running"
  BY <1>1, <1>2, ClaimForward
<1>4. ProcessTyped'
  <2>1. exec' \in [Executor -> Job \cup {None}]
    BY <1>1, <1>2 DEF IInv, ProcessTyped
  <2>2. claims' \in [Node -> [job: Job \cup {None}, age: 0..StuckAfter, answered: BOOLEAN]]
    <3>1. 0 \in 0..StuckAfter
      BY LeaseAssumption
    <3>2. [job |-> j, age |-> 0, answered |-> FALSE]
            \in [job: Job \cup {None}, age: 0..StuckAfter, answered: BOOLEAN]
      BY <3>1, Zenon
    <3>3. claims \in [Node -> [job: Job \cup {None}, age: 0..StuckAfter, answered: BOOLEAN]]
      BY DEF IInv, ProcessTyped
    <3> QED BY <1>1, <3>2, <3>3, Zenon
  <2>3. faults' \in 0..MaxFaults
    BY <1>1, LeaseAssumption DEF IInv, ProcessTyped, Fault
  <2> QED BY <2>1, <2>2, <2>3 DEF IInv, ProcessTyped, AgentNextJob
<1>5. NoDangling'
  BY <1>1, <1>3 DEF IInv, NoDangling, ProcessTyped, AgentNextJob, Forward
<1>6. EffectAgreesWithStatus'
  BY <1>3 DEF IInv, EffectAgreesWithStatus, AgentNextJob, Forward, TerminalStatus
<1> QED BY <1>3, <1>4, <1>5, <1>6 DEF IInv

\* A completion, once the tables are dealt with.
LEMMA CompletedStep ==
  ASSUME IInv, TablesInv(jobs, locks)', Forward,
         NEW s \in Job, jobs'[s].status \in ResultStatus,
         NEW by \in Worker \cup {API},
         effect' = [effect EXCEPT ![s] = [phase |-> "pending", by |-> by]],
         \A e \in Executor : exec'[e] \in {exec[e], None},
         exec' \in [Executor -> Job \cup {None}],
         results' \in SUBSET results,
         UNCHANGED <<claims, requeue, copyOf, retired, faults>>
  PROVE  IInv'
<1>1. ProcessTyped'
  <2>1. effect' \in [Job -> [phase: {"none", "pending", "applied", "failed", "lost"},
                            by: Worker \cup {API, None}]]
    BY DEF IInv, ProcessTyped
  <2> QED BY <2>1 DEF IInv, ProcessTyped
<1>2. NoDangling'
  BY DEF IInv, NoDangling, ProcessTyped, Forward
<1>3. EffectAgreesWithStatus'
  <2>1. \A i \in Job : i # s => effect'[i] = effect[i]
    BY DEF IInv, ProcessTyped
  <2>2. effect'[s].phase = "pending"
    BY DEF IInv, ProcessTyped
  <2> QED BY <2>1, <2>2 DEF IInv, EffectAgreesWithStatus, Forward, ResultStatus, TerminalStatus
<1> QED BY <1>1, <1>2, <1>3 DEF IInv

\* CompleteJob: a worker's release of its job, leased to it or not.
LEMMA CompleteJobStep ==
  ASSUME IInv, NEW w \in Worker, NEW status \in ResultStatus, CompleteJob(w, status)
  PROVE  IInv'
<1>1. exec[w] \in Job /\ jobs[exec[w]].status # "absent" /\ w \in Executor
  BY DEF IInv, ProcessTyped, NoDangling, CompleteJob, Executor
<1>2. exec' \in [Executor -> Job \cup {None}] /\ \A e \in Executor : exec'[e] \in {exec[e], None}
  BY DEF IInv, ProcessTyped, CompleteJob
<1>3. CASE jobs[exec[w]].status \in TerminalStatus
  <2>1. UNCHANGED <<jobs, locks, effect>>
    BY <1>3 DEF CompleteJob
  <2>2. ProcessTyped'
    BY <1>2, <2>1 DEF IInv, ProcessTyped, CompleteJob
  <2>3. NoDangling'
    BY <1>2, <2>1 DEF IInv, NoDangling, CompleteJob
  <2>4. EffectAgreesWithStatus'
    BY <2>1 DEF IInv, EffectAgreesWithStatus
  <2> QED BY <2>1, <2>2, <2>3, <2>4 DEF IInv
<1>4. CASE jobs[exec[w]].status \notin TerminalStatus
  <2>1. completed(jobs, locks, exec[w], status, w)
    BY <1>4 DEF CompleteJob
  <2>2. /\ jobs[exec[w]].status \notin TerminalStatus \cup {"absent"}
        /\ TablesInv(jobs, locks)
        /\ w \in Worker \cup {API}
    BY <1>1, <1>4 DEF IInv
  <2>3. results' \in SUBSET results /\ UNCHANGED <<claims, requeue, copyOf, retired, faults>>
    BY DEF CompleteJob
  <2>4. TablesInv(jobs, locks)' /\ Forward /\ jobs'[exec[w]].status = status
    <3>1. status \in TerminalStatus
      BY DEF ResultStatus, TerminalStatus
    <3>2. /\ jobs' = [jobs EXCEPT ![exec[w]] = Released(@, status)]
          /\ locks' = locksWithout(locks, {exec[w]})
      BY <2>1 DEF completed
    <3>3. TablesInv(jobs, locks)'
      BY <1>1, <2>2, <3>1, <3>2, ReleaseOne
    <3>4. jobs'[exec[w]].status = status /\ \A i \in Job : i # exec[w] => jobs'[i] = jobs[i]
      BY <1>1, <2>2, <3>2 DEF TablesInv, TablesTyped, JobRow, Released
    <3> QED BY <2>2, <3>1, <3>3, <3>4 DEF Forward, TerminalStatus
  <2>5. effect' = [effect EXCEPT ![exec[w]] = [phase |-> "pending", by |-> w]]
    BY <2>1 DEF completed
  <2> QED BY <1>1, <1>2, <2>2, <2>3, <2>4, <2>5, CompletedStep
<1> QED BY <1>3, <1>4

\* AgentJobResult: recovery or release, as the lease is lapsed or held.
LEMMA AgentJobResultStep ==
  ASSUME IInv, NEW m \in results, AgentJobResult(m)
  PROVE  IInv'
<1> DEFINE js == recoveredJobs(jobs)
           ls == recoveredLocks(locks)
<1>1. TablesInv(js, ls)
  BY RecoverTables DEF IInv
<1>2. \A i \in Job : \/ js[i] = jobs[i]
                     \/ jobs[i].status = "running" /\ js[i].status = "retrying"
  BY RecoveredStatus DEF IInv, TablesInv, TablesTyped
<1>3. m.job \in Job /\ m.status \in ResultStatus
  BY DEF IInv, ProcessTyped
<1>4. /\ exec' \in [Executor -> Job \cup {None}]
      /\ \A e \in Executor : exec'[e] \in {exec[e], None}
      /\ results' \in SUBSET results
  BY DEF IInv, ProcessTyped, AgentJobResult
<1> HIDE DEF js, ls
<1>5. CASE leaseHeld(js[m.job]) /\ completed(js, ls, m.job, m.status, API)
  <2>1. js[m.job].status \notin TerminalStatus \cup {"absent"}
    BY <1>5 DEF leaseHeld, TerminalStatus
  <2>2. UNCHANGED <<claims, requeue, copyOf, retired, faults>>
    BY DEF AgentJobResult
  <2>3. TablesInv(jobs, locks)' /\ Forward /\ jobs'[m.job].status = m.status
    <3>1. m.status \in TerminalStatus
      BY <1>3 DEF ResultStatus, TerminalStatus
    <3>2. /\ jobs' = [js EXCEPT ![m.job] = Released(@, m.status)]
          /\ locks' = locksWithout(ls, {m.job})
      BY <1>5 DEF completed
    <3>3. TablesInv(jobs, locks)'
      BY <1>1, <1>3, <2>1, <3>1, <3>2, ReleaseOne
    <3>4. jobs'[m.job].status = m.status /\ \A i \in Job : i # m.job => jobs'[i] = js[i]
      BY <1>1, <1>3, <3>2 DEF TablesInv, TablesTyped, JobRow, Released
    <3> QED BY <1>2, <2>1, <3>1, <3>3, <3>4 DEF Forward, TerminalStatus
  <2>4. effect' = [effect EXCEPT ![m.job] = [phase |-> "pending", by |-> API]]
    BY <1>5 DEF completed
  <2> QED BY <1>3, <1>4, <2>2, <2>3, <2>4, CompletedStep
<1>6. CASE jobs' = js /\ locks' = ls /\ UNCHANGED effect
  <2>1. TablesInv(jobs, locks)'
    BY <1>1, <1>6
  <2>2. Forward
    BY <1>2, <1>6 DEF Forward, TerminalStatus
  <2>3. ProcessTyped'
    BY <1>4, <1>6 DEF IInv, ProcessTyped, AgentJobResult
  <2>4. NoDangling'
    BY <2>2 DEF IInv, NoDangling, ProcessTyped, AgentJobResult, Forward
  <2>5. EffectAgreesWithStatus'
    BY <1>6, <2>2 DEF IInv, EffectAgreesWithStatus, Forward, TerminalStatus
  <2> QED BY <2>1, <2>3, <2>4, <2>5 DEF IInv
<1> QED BY <1>5, <1>6 DEF AgentJobResult, js, ls

\* A step of the processes that leaves the two tables alone.
Aside ==
  /\ UNCHANGED <<jobs, locks>>
  /\ \A e \in Executor : exec'[e] \in {exec[e], None}
  /\ \A n \in Node : requeue'[n] = requeue[n] \/ jobs[requeue'[n]].status # "absent"
  /\ \A j \in Job : \/ effect'[j] = effect[j]
                    \/ effect[j].phase = "pending" /\ effect'[j].phase \in {"applied", "lost"}

\* A step that leaves the two tables alone keeps what is said of them.
LEMMA ProcessStep ==
  ASSUME IInv, ProcessTyped', Aside
  PROVE  IInv'
<1>1. NoDangling'
  BY DEF IInv, NoDangling, Aside
<1>2. EffectAgreesWithStatus'
  BY DEF IInv, EffectAgreesWithStatus, Aside
<1> QED BY <1>1, <1>2 DEF IInv, Aside

\* Recording the answer to a result keeps the evidence of the claim typed.
LEMMA AnsweredTyped ==
  ASSUME IInv, NEW j \in Job, answered(j)
  PROVE  claims' \in [Node -> [job: Job \cup {None}, age: 0..StuckAfter, answered: BOOLEAN]]
<1> DEFINE Claim == [job: Job \cup {None}, age: 0..StuckAfter, answered: BOOLEAN]
<1>1. claims \in [Node -> Claim]
  BY DEF IInv, ProcessTyped
<1>2. \A c \in Claim : [c EXCEPT !.answered = TRUE] \in Claim
  BY Zenon
<1> HIDE DEF Claim
<1>3. \A x : [claims EXCEPT ![x] = [@ EXCEPT !.answered = TRUE]] \in [Node -> Claim]
  BY <1>1, <1>2
<1>4. claims' = claims \/ \E x : claims' = [claims EXCEPT ![x] = [@ EXCEPT !.answered = TRUE]]
  BY DEF answered
<1> QED BY <1>1, <1>3, <1>4 DEF Claim

\* ApplyJobCompletionSideEffects succeeds.
LEMMA ApplySideEffectsStep ==
  ASSUME IInv, NEW j \in Job, ApplyJobCompletionSideEffects(j)
  PROVE  IInv'
<1>1. effect' \in [Job -> [phase: {"none", "pending", "applied", "failed", "lost"},
                          by: Worker \cup {API, None}]]
  BY DEF IInv, ProcessTyped, ApplyJobCompletionSideEffects
<1>2. ProcessTyped'
  BY <1>1, AnsweredTyped DEF IInv, ProcessTyped, ApplyJobCompletionSideEffects
<1>3. Aside
  BY DEF IInv, ProcessTyped, ApplyJobCompletionSideEffects, Aside
<1> QED BY <1>2, <1>3, ProcessStep

\* A completion is cut off before its side effects.
LEMMA CompletionCrashStep ==
  ASSUME IInv, NEW j \in Job, CompletionCrash(j)
  PROVE  IInv'
<1>1. effect' \in [Job -> [phase: {"none", "pending", "applied", "failed", "lost"},
                          by: Worker \cup {API, None}]]
  BY DEF IInv, ProcessTyped, CompletionCrash
<1>2. faults' \in 0..MaxFaults
  BY LeaseAssumption DEF IInv, ProcessTyped, CompletionCrash, Fault
<1>3. ProcessTyped'
  BY <1>1, <1>2 DEF IInv, ProcessTyped, CompletionCrash
<1>4. Aside
  BY DEF IInv, ProcessTyped, CompletionCrash, Aside
<1> QED BY <1>3, <1>4, ProcessStep

\* markJobCompletionSideEffectFailure: a success becomes a failure.
LEMMA SideEffectFailureStep ==
  ASSUME IInv, NEW j \in Job, markJobCompletionSideEffectFailure(j)
  PROVE  IInv'
<1>1. jobs[j].status \in {"succeeded", "failed"}
  BY DEF IInv, EffectAgreesWithStatus, markJobCompletionSideEffectFailure
<1>2. jobs' = [jobs EXCEPT ![j] = Released(@, "failed")] /\ locks' = locks
  BY DEF markJobCompletionSideEffectFailure
<1>3. TablesInv(jobs, locks)'
  <2>1. locksWithout(locks, {j}) = locks
    BY <1>1, IdleHasNoLock DEF IInv
  <2>2. TablesInv([jobs EXCEPT ![j] = Released(@, "failed")], locksWithout(locks, {j}))
    BY <1>1, ReleaseOne DEF IInv, TerminalStatus
  <2> QED BY <1>2, <2>1, <2>2
<1>4. jobs'[j].status = "failed" /\ \A i \in Job : i # j => jobs'[i] = jobs[i]
  BY <1>2 DEF IInv, TablesInv, TablesTyped, JobRow, Released
<1>5. effect' = [effect EXCEPT ![j] = [phase |-> "failed", by |-> None]]
  BY DEF markJobCompletionSideEffectFailure
<1>6. ProcessTyped'
  <2>1. effect' \in [Job -> [phase: {"none", "pending", "applied", "failed", "lost"},
                            by: Worker \cup {API, None}]]
    BY <1>5 DEF IInv, ProcessTyped
  <2>2. claims' \in [Node -> [job: Job \cup {None}, age: 0..StuckAfter, answered: BOOLEAN]]
    BY AnsweredTyped DEF markJobCompletionSideEffectFailure
  <2> QED BY <2>1, <2>2 DEF IInv, ProcessTyped, markJobCompletionSideEffectFailure
<1>7. NoDangling'
  BY <1>4 DEF IInv, NoDangling, markJobCompletionSideEffectFailure
<1>8. EffectAgreesWithStatus'
  BY <1>4, <1>5 DEF IInv, ProcessTyped, EffectAgreesWithStatus
<1> QED BY <1>3, <1>6, <1>7, <1>8 DEF IInv

\* The agent posts a result.
LEMMA AgentSubmitStep ==
  ASSUME IInv, NEW n \in Node, NEW status \in ResultStatus, AgentSubmit(n, status)
  PROVE  IInv'
<1>1. exec[n] \in Job
  BY DEF IInv, ProcessTyped, AgentSubmit, Executor
<1>2. ProcessTyped'
  <2>1. [job |-> exec[n], status |-> status] \in [job: Job, status: ResultStatus]
    BY <1>1
  <2>2. results' \in SUBSET [job: Job, status: ResultStatus]
    BY <2>1 DEF IInv, ProcessTyped, AgentSubmit
  <2>3. exec' \in [Executor -> Job \cup {None}]
    BY DEF IInv, ProcessTyped, AgentSubmit
  <2> QED BY <2>2, <2>3 DEF IInv, ProcessTyped, AgentSubmit
<1>3. Aside
  BY DEF IInv, ProcessTyped, AgentSubmit, Aside
<1> QED BY <1>2, <1>3, ProcessStep

\* A worker or an agent stops.
LEMMA CrashStep ==
  ASSUME IInv, NEW e \in Executor, Crash(e)
  PROVE  IInv'
<1>1. faults' \in 0..MaxFaults
  BY LeaseAssumption DEF IInv, ProcessTyped, Crash, Fault
<1>2. ProcessTyped'
  BY <1>1 DEF IInv, ProcessTyped, Crash
<1>3. Aside
  BY DEF IInv, ProcessTyped, Crash, Aside
<1> QED BY <1>2, <1>3, ProcessStep

\* A posted result is lost.
LEMMA LoseResultStep ==
  ASSUME IInv, NEW m \in results, LoseResult(m)
  PROVE  IInv'
<1>1. faults' \in 0..MaxFaults
  BY LeaseAssumption DEF IInv, ProcessTyped, LoseResult, Fault
<1>2. ProcessTyped'
  BY <1>1 DEF IInv, ProcessTyped, LoseResult
<1>3. Aside
  BY DEF IInv, ProcessTyped, LoseResult, Aside
<1> QED BY <1>2, <1>3, ProcessStep

\* A requeue reads the stale claim.
LEMMA loadNodeStaleClaimStep ==
  ASSUME IInv, NEW n \in Node, loadNodeStaleClaim(n)
  PROVE  IInv'
<1>1. claims[n].job \in Job
  BY DEF IInv, ProcessTyped, loadNodeStaleClaim
<1>2. ProcessTyped'
  BY <1>1 DEF IInv, ProcessTyped, loadNodeStaleClaim
<1>3. Aside
  BY DEF IInv, ProcessTyped, loadNodeStaleClaim, Aside
<1> QED BY <1>2, <1>3, ProcessStep

-----------------------------------------------------------------------------
\* Cancelling a set of live jobs.
LEMMA CancelledTables ==
  ASSUME IInv, NEW S, S \in SUBSET {j \in Job : jobs[j].status \in LiveStatus},
         jobs' = cancelled(S)
  PROVE  TablesInv(jobs', locksWithout(locks, S)) /\ Forward
<1>1. S \in SUBSET Job /\ \A j \in S : jobs[j].status \in LiveStatus
  OBVIOUS
<1>2. \A j \in S : jobs[j].status # "absent" /\ jobs[j].status \notin TerminalStatus
  BY <1>1 DEF LiveStatus, TerminalStatus
<1>3. jobs' = [j \in Job |-> IF j \in S THEN Released(jobs[j], "cancelled") ELSE jobs[j]]
  BY DEF cancelled
<1>4. TablesInv(jobs', locksWithout(locks, S))
  BY <1>1, <1>2, <1>3, ReleaseTables DEF IInv, TerminalStatus
<1>5. \A j \in Job : jobs'[j].status = IF j \in S THEN "cancelled" ELSE jobs[j].status
  <2>1. \A r \in JobRow : Released(r, "cancelled").status = "cancelled"
    BY DEF JobRow, Released
  <2>2. jobs \in [Job -> JobRow]
    BY DEF IInv, TablesInv, TablesTyped
  <2> QED BY <1>3, <2>1, <2>2
<1>6. Forward
  BY <1>2, <1>5 DEF Forward
<1> QED BY <1>4, <1>6

\* ForceDeleteInstance: the instance's live jobs are released.
LEMMA ForceDeleteInstanceStep ==
  ASSUME IInv, NEW i, ForceDeleteInstance(i)
  PROVE  IInv'
<1> DEFINE S == {j \in Job : jobs[j].status \in LiveStatus /\ i \in jobs[j].row.instances}
<1>1. jobs' = cancelled(S) /\ locks' = locksWithout(locks, S) /\ UNCHANGED processVars
  BY DEF ForceDeleteInstance
<1>2. S \in SUBSET {j \in Job : jobs[j].status \in LiveStatus}
  OBVIOUS
<1> HIDE DEF S
<1>3. TablesInv(jobs', locksWithout(locks, S)) /\ Forward
  BY <1>1, <1>2, CancelledTables
<1> QED BY <1>1, <1>3, TablesStep

\* A lock key on a node belongs to a row of that node.
LEMMA NodeLockTarget ==
  ASSUME NEW t \in Template, jobLockTarget(t) # NoLock, jobLockTarget(t)[1] = "node"
  PROVE  jobLockTarget(t)[2] = t.node /\ t.node \in Node /\ t.node \in t.touches
<1> DEFINE isInstance == t.type \notin InventoryTypes /\ t.instance # None
           isNode == t.type \in NodeTypes \ InventoryTypes /\ t.instance = None /\ t.node # None
           isClient == t.type = "client.provision" /\ t.instance = None /\ t.scope # None
           isGroup == t.type = "client_access_group.provision" /\ t.instance = None /\ t.scope # None
<1>0. "client.provision" \notin NodeTypes /\ "client_access_group.provision" \notin NodeTypes
  BY DEF NodeTypes, AgentTypes, InventoryTypes, InstanceTypes
<1>00. "client.provision" \notin InventoryTypes /\ "client_access_group.provision" \notin InventoryTypes
  BY DEF InventoryTypes
<1>1. CASE isNode
  <2>1. jobLockTarget(t) = <<"node", t.node, "bootstrap">>
    BY <1>0, <1>00, <1>1 DEF jobLockTarget
  <2> QED BY <1>1, <2>1, TemplateAssumption
<1>2. CASE ~isNode
  <2>1. CASE isInstance
    <3>1. jobLockTarget(t) = <<"instance", t.instance, LockKind(t.type)>>
      BY <1>0, <1>00, <1>2, <2>1 DEF jobLockTarget
    <3> QED BY <3>1
  <2>2. CASE isClient
    <3>1. jobLockTarget(t) = <<"client", t.scope, "provision">>
      BY <1>0, <1>00, <1>2, <2>2 DEF jobLockTarget
    <3> QED BY <3>1
  <2>3. CASE isGroup
    <3>1. jobLockTarget(t) = <<"access_group", t.scope, "provision">>
      BY <1>0, <1>00, <1>2, <2>3 DEF jobLockTarget
    <3> QED BY <3>1
  <2>4. CASE ~isInstance /\ ~isClient /\ ~isGroup
    BY <1>2, <2>4 DEF jobLockTarget
  <2> QED BY <2>1, <2>2, <2>3, <2>4
<1> QED BY <1>1, <1>2

\* The locks on the node are those of the jobs that a force retire cancels.
LEMMA RetiredNodeLocks ==
  ASSUME IInv, NEW n \in Node, ForceRetireNode(n)
  PROVE  locks' = locksWithout(locks, {j \in Job : jobs[j].status \in LiveStatus /\ n \in jobs[j].row.touches})
<1> DEFINE S == {j \in Job : jobs[j].status \in LiveStatus /\ n \in jobs[j].row.touches}
           ls == locksWithout(locks, S)
<1>1. locks' = {l \in ls : ~(l.key[1] = "node" /\ l.key[2] = n)}
  BY DEF ForceRetireNode
<1> SUFFICES ASSUME NEW l \in ls, l.key[1] = "node", l.key[2] = n
             PROVE  FALSE
  BY <1>1
<1>2. l \in locks /\ l.job \in Job /\ l.job \notin S /\ l.key # NoLock
  BY DEF locksWithout, IInv, TablesInv, TablesTyped, LockRow, LockKeys
<1>3. jobs[l.job].status = "running" /\ jobLockTarget(jobs[l.job].row) = l.key
  BY <1>2 DEF IInv, TablesInv, LocksOwned
<1>4. jobs[l.job].row \in Template
  BY <1>2, <1>3 DEF IInv, TablesInv, TablesTyped, JobRow
<1>5. n \in jobs[l.job].row.touches
  BY <1>2, <1>3, <1>4, NodeLockTarget
<1> QED BY <1>2, <1>3, <1>5 DEF LiveStatus

\* ForceRetireNode: the node's live jobs are released.
LEMMA ForceRetireNodeStep ==
  ASSUME IInv, NEW n \in Node, ForceRetireNode(n)
  PROVE  IInv'
<1> DEFINE S == {j \in Job : jobs[j].status \in LiveStatus /\ n \in jobs[j].row.touches}
           ls == locksWithout(locks, S)
<1>1. /\ jobs' = cancelled(S)
      /\ locks' = {l \in ls : ~(l.key[1] = "node" /\ l.key[2] = n)}
      /\ retired' = retired \cup {n}
      /\ UNCHANGED <<exec, results, effect, claims, requeue, copyOf, faults>>
  BY DEF ForceRetireNode
<1>2. S \in SUBSET {j \in Job : jobs[j].status \in LiveStatus}
  OBVIOUS
<1>3. locks' = ls
  BY RetiredNodeLocks
<1> HIDE DEF S
<1>4. TablesInv(jobs, locks)' /\ Forward
  BY <1>1, <1>2, <1>3, CancelledTables
<1>5. ProcessTyped'
  BY <1>1 DEF IInv, ProcessTyped
<1>6. NoDangling'
  BY <1>1, <1>4 DEF IInv, NoDangling, ProcessTyped, Forward
<1>7. EffectAgreesWithStatus'
  BY <1>1, <1>4 DEF IInv, EffectAgreesWithStatus, Forward, TerminalStatus
<1> QED BY <1>4, <1>5, <1>6, <1>7 DEF IInv

\* RequeueNodeStuckJob: release, insertion of the copy, recovery.
LEMMA RequeueStep ==
  ASSUME IInv, NEW n \in Node, NEW k \in Job, RequeueNodeStuckJob(n, k)
  PROVE  IInv'
<1> DEFINE s == requeue[n]
           cut == IF jobs[s].status \in {"running", "retrying"}
                  THEN [jobs EXCEPT ![s] = Released(@, "cancelled")] ELSE jobs
           rest == locksWithout(locks, {s})
           copy == Inserted(jobs[s].row, jobs[s].priority)
           js == [cut EXCEPT ![k] = copy]
<1>1. s \in Job /\ jobs[s].status # "absent" /\ jobs[k].status = "absent" /\ s # k
  BY DEF RequeueNodeStuckJob, IInv, ProcessTyped, NoDangling
<1>2. jobs \in [Job -> JobRow] /\ jobs[s].row \in Template /\ jobs[s].priority \in Nat
  BY <1>1 DEF IInv, TablesInv, TablesTyped, JobRow
\* Cancelled or not, what remains is consistent.
<1>3. TablesInv(cut, rest) /\ cut[k] = jobs[k]
  <2>1. CASE jobs[s].status \in {"running", "retrying"}
    BY <1>1, <1>2, <2>1, ReleaseOne DEF IInv, TerminalStatus
  <2>2. CASE jobs[s].status \notin {"running", "retrying"}
    BY <1>1, <2>2, IdleHasNoLock DEF IInv
  <2> QED BY <2>1, <2>2
<1>4. /\ copy \in JobRow /\ copy.status = "queued" /\ copy.row \in Template /\ copy.lockedBy = None
  BY <1>2, InsertedRow DEF IInv
<1>5. \A i \in Job : \/ cut[i] = jobs[i]
                     \/ jobs[i].status \in {"running", "retrying"} /\ cut[i].status = "cancelled"
  BY <1>1, <1>2 DEF JobRow, Released
<1>6. jobs' = recoveredJobs(js) /\ locks' = recoveredLocks(rest)
  <2>1. js = [jobs EXCEPT ![s] = IF @.status \in {"running", "retrying"}
                                 THEN Released(@, "cancelled") ELSE @,
                          ![k] = Inserted(jobs[s].row, jobs[s].priority)]
    BY <1>1, <1>2
  <2> QED BY <2>1 DEF RequeueNodeStuckJob
<1>7. cut \in [Job -> JobRow]
  BY <1>3 DEF TablesInv, TablesTyped
<1> HIDE DEF cut, rest, copy
<1>8. TablesInv(js, rest)
  BY <1>1, <1>3, <1>4, RewriteTables
<1>9. \A i \in Job : js[i] = IF i = k THEN copy ELSE cut[i]
  BY <1>7
<1> HIDE DEF js
<1>10. TablesInv(jobs, locks)'
  BY <1>6, <1>8, RecoverTables
<1>11. \A i \in Job : \/ jobs'[i] = js[i]
                      \/ js[i].status = "running" /\ jobs'[i].status = "retrying"
  BY <1>6, <1>8, RecoveredStatus DEF TablesInv, TablesTyped
<1>12. Forward
  BY <1>1, <1>4, <1>5, <1>9, <1>11 DEF Forward, TerminalStatus
<1>13. ProcessTyped'
  BY <1>1 DEF IInv, ProcessTyped, RequeueNodeStuckJob
<1>14. NoDangling'
  BY <1>12 DEF IInv, NoDangling, ProcessTyped, RequeueNodeStuckJob, Forward
<1>15. EffectAgreesWithStatus'
  BY <1>12 DEF IInv, EffectAgreesWithStatus, RequeueNodeStuckJob, Forward, TerminalStatus
<1> QED BY <1>10, <1>13, <1>14, <1>15 DEF IInv

-----------------------------------------------------------------------------
\* The initial tables are empty.
LEMMA InitIInv == Init => IInv
<1> SUFFICES ASSUME Init PROVE IInv
  OBVIOUS
<1>1. Absent \in JobRow /\ Absent.status = "absent" /\ Absent.row = None /\ Absent.lockedBy = None
  BY DEF Absent, JobRow
<1>2. TablesInv(jobs, locks)
  BY <1>1 DEF Init, TablesInv, TablesTyped, LocksOwned, LocksUnique, LeasesCovered, LeasesOwned
<1>3. ProcessTyped
  <2>1. claims \in [Node -> [job: Job \cup {None}, age: 0..StuckAfter, answered: BOOLEAN]]
    <3>1. 0 \in 0..StuckAfter
      BY LeaseAssumption
    <3>2. NoClaim \in [job: Job \cup {None}, age: 0..StuckAfter, answered: BOOLEAN]
      BY <3>1, Zenon DEF NoClaim
    <3> QED BY <3>2 DEF Init
  <2>2. effect \in [Job -> [phase: {"none", "pending", "applied", "failed", "lost"},
                           by: Worker \cup {API, None}]]
    BY DEF Init, NoEffect
  <2>3. faults \in 0..MaxFaults
    BY LeaseAssumption DEF Init
  <2> QED BY <2>1, <2>2, <2>3 DEF Init, ProcessTyped
<1>4. NoDangling
  BY DEF Init, NoDangling
<1>5. EffectAgreesWithStatus
  BY DEF Init, EffectAgreesWithStatus, NoEffect
<1> QED BY <1>2, <1>3, <1>4, <1>5 DEF IInv

\* Every step, stuttering included, keeps the inductive invariant.
LEMMA NextIInv == IInv /\ [Next]_vars => IInv'
<1> SUFFICES ASSUME IInv, [Next]_vars PROVE IInv'
  OBVIOUS
<1>1. ASSUME NEW j \in Job, NEW t \in Template, CreateJob(j, t) PROVE IInv'
  BY <1>1, CreateJobStep
<1>2. ASSUME NEW j \in Job, setQueuedJobPriority(j) PROVE IInv'
  BY <1>2, setQueuedJobPriorityStep
<1>3. ASSUME NEW j \in Job, CancelJob(j) PROVE IInv'
  BY <1>3, CancelJobStep
<1>4. ASSUME NEW j \in Job, ApplyJobCompletionSideEffects(j) PROVE IInv'
  BY <1>4, ApplySideEffectsStep
<1>5. ASSUME NEW j \in Job, markJobCompletionSideEffectFailure(j) PROVE IInv'
  BY <1>5, SideEffectFailureStep
<1>6. ASSUME NEW j \in Job, CompletionCrash(j) PROVE IInv'
  BY <1>6, CompletionCrashStep
<1>7. CASE RecoverStaleJobLeases
  BY <1>7, RecoverStep
<1>8. ASSUME NEW w \in Worker, ClaimJob(w) PROVE IInv'
  BY <1>8, ClaimJobStep
<1>9. ASSUME NEW w \in Worker, NEW status \in ResultStatus, CompleteJob(w, status) PROVE IInv'
  BY <1>9, CompleteJobStep
<1>10. ASSUME NEW n \in Node, AgentNextJob(n) PROVE IInv'
  BY <1>10, AgentNextJobStep
<1>11. ASSUME NEW n \in Node, NEW status \in ResultStatus, AgentSubmit(n, status) PROVE IInv'
  BY <1>11, AgentSubmitStep
<1>12. ASSUME NEW n \in Node, ForceRetireNode(n) PROVE IInv'
  BY <1>12, ForceRetireNodeStep
<1>13. ASSUME NEW n \in Node, loadNodeStaleClaim(n) PROVE IInv'
  BY <1>13, loadNodeStaleClaimStep
<1>14. ASSUME NEW n \in Node, NEW k \in Job, RequeueNodeStuckJob(n, k) PROVE IInv'
  BY <1>14, RequeueStep
<1>15. ASSUME NEW i, ForceDeleteInstance(i) PROVE IInv'
  BY <1>15, ForceDeleteInstanceStep
<1>16. ASSUME NEW m \in results, AgentJobResult(m) PROVE IInv'
  BY <1>16, AgentJobResultStep
<1>17. ASSUME NEW m \in results, LoseResult(m) PROVE IInv'
  BY <1>17, LoseResultStep
<1>18. ASSUME NEW e \in Executor, Crash(e) PROVE IInv'
  BY <1>18, CrashStep
<1>19. CASE Tick
  BY <1>19, TickStep
<1>20. CASE UNCHANGED vars
  BY <1>20 DEF vars, IInv, ProcessTyped, NoDangling, EffectAgreesWithStatus
<1> QED
  BY <1>1, <1>2, <1>3, <1>4, <1>5, <1>6, <1>7, <1>8, <1>9, <1>10, <1>11, <1>12, <1>13,
     <1>14, <1>15, <1>16, <1>17, <1>18, <1>19, <1>20 DEF Next

\* The inductive invariant holds in every reachable state.
THEOREM Invariance == Spec => []IInv
  BY InitIInv, NextIInv, PTL DEF Spec

\* Type correctness: every row and process keeps its shape, and a job row, once
\* inserted, never loses the row it was inserted with.
THEOREM TypeCorrect == Spec => []TypeOK
<1>1. IInv => TypeOK
  BY DEF IInv, TablesInv, TablesTyped, ProcessTyped, TypeOK
<1> QED BY <1>1, Invariance, PTL

\* Lock rows never outlive the running job they belong to, for any number of
\* jobs, executors and operators.
THEOREM LocksHaveOwners == Spec => []NoOrphanLock
<1>1. IInv => NoOrphanLock
  BY DEF IInv, TablesInv, LocksOwned, NoOrphanLock
<1> QED BY <1>1, Invariance, PTL

\* Two running jobs that need the same lock overlap by less than MaxLag.
THEOREM LeasesExclude == Spec => []LeaseExclusion
<1>1. IInv => LeaseExclusion
  <2> SUFFICES ASSUME IInv, NEW i \in Job, NEW j \in Job, i # j,
                      jobs[i].status = "running", jobs[j].status = "running",
                      jobLockTarget(jobs[i].row) # NoLock,
                      jobLockTarget(jobs[i].row) = jobLockTarget(jobs[j].row),
                      ~(jobs[i].ttl < MaxLag), ~(jobs[j].ttl < MaxLag)
               PROVE  FALSE
    BY DEF LeaseExclusion
  <2>1. PICK l \in locks : l.job = i
    BY DEF IInv, TablesInv, LeasesCovered
  <2>2. PICK m \in locks : m.job = j
    BY DEF IInv, TablesInv, LeasesCovered
  <2>3. l.key = m.key
    BY <2>1, <2>2 DEF IInv, TablesInv, LocksOwned
  <2> QED BY <2>1, <2>2, <2>3 DEF IInv, TablesInv, LocksUnique
<1> QED BY <1>1, Invariance, PTL

\* A job is leased exactly while it runs, to an executor that may run it.
THEOREM RunningJobsAreLeased == Spec => []RunningIsLeased
<1>1. IInv => RunningIsLeased
  BY DEF IInv, TablesInv, LeasesOwned, RunningIsLeased
<1> QED BY <1>1, Invariance, PTL

\* Side effects are started for finished jobs only, and a job whose side
\* effects failed is marked failed.
THEOREM EffectsAgree == Spec => []EffectAgreesWithStatus
<1>1. IInv => EffectAgreesWithStatus
  BY DEF IInv
<1> QED BY <1>1, Invariance, PTL
-----------------------------------------------------------------------------
(***************************************************************************)
(* Final statuses.                                                         *)
(***************************************************************************)
\* The rows js leave every final status of the table as it is.
FinalKept(js) == \A j \in Job : jobs[j].status \in TerminalStatus => js[j].status = jobs[j].status

\* What TerminalStable allows a step to do to job j.
FinalOrFailing(j) ==
  jobs[j].status \in TerminalStatus =>
    \/ jobs'[j].status = jobs[j].status
    \/ jobs[j].status = "succeeded" /\ jobs'[j].status = "failed" /\ effect[j].phase = "pending"

\* Recovery keeps final statuses, and so does a change of one live row after it.
LEMMA RecoveredFinal ==
  ASSUME IInv
  PROVE  /\ recoveredJobs(jobs) \in [Job -> JobRow]
         /\ FinalKept(recoveredJobs(jobs))
         /\ \A j \in Job : recoveredJobs(jobs)[j].status \notin TerminalStatus
                             => jobs[j].status \notin TerminalStatus
<1>1. jobs \in [Job -> JobRow]
  BY DEF IInv, TablesInv, TablesTyped
<1>2. recoveredJobs(jobs) \in [Job -> JobRow]
  BY RecoverTables DEF IInv, TablesInv, TablesTyped
<1>3. \A j \in Job : \/ recoveredJobs(jobs)[j] = jobs[j]
                     \/ jobs[j].status = "running" /\ recoveredJobs(jobs)[j].status = "retrying"
  BY RecoveredStatus DEF IInv, TablesInv, TablesTyped
<1> QED BY <1>2, <1>3 DEF FinalKept, TerminalStatus

\* A rewrite of one row that was not final.
LEMMA LiveRewritten ==
  ASSUME NEW js, js \in [Job -> JobRow], FinalKept(js), NEW k \in Job, NEW r,
         jobs[k].status \notin TerminalStatus, jobs' = [js EXCEPT ![k] = r]
  PROVE  \A j \in Job : FinalOrFailing(j)
  BY DEF FinalKept, FinalOrFailing

\* Each transaction, tick and fault keeps final statuses, but for the failure
\* of side effects that are due.
LEMMA FinalStep ==
  ASSUME IInv, [Next]_vars
  PROVE  \A j \in Job : FinalOrFailing(j)
<1>0. jobs \in [Job -> JobRow] /\ FinalKept(jobs)
  BY DEF IInv, TablesInv, TablesTyped, FinalKept
<1>1. CASE UNCHANGED jobs
  BY <1>1 DEF FinalOrFailing
<1>2. ASSUME NEW k \in Job, NEW t \in Template, CreateJob(k, t)
      PROVE  \A j \in Job : FinalOrFailing(j)
  BY <1>0, <1>2, LiveRewritten DEF CreateJob, TerminalStatus
<1>3. ASSUME NEW k \in Job, setQueuedJobPriority(k)
      PROVE  \A j \in Job : FinalOrFailing(j)
  BY <1>0, <1>3, LiveRewritten DEF setQueuedJobPriority, TerminalStatus
<1>4. CASE jobs' = recoveredJobs(jobs)
  BY <1>4, RecoveredFinal DEF FinalKept, FinalOrFailing
<1>5. ASSUME NEW k \in Job, CancelJob(k)
      PROVE  \A j \in Job : FinalOrFailing(j)
  <2>1. CASE recoveredJobs(jobs)[k].status \in {"queued", "retrying"}
    <3>1. jobs' = [recoveredJobs(jobs) EXCEPT ![k] = Released(@, "cancelled")]
      BY <1>5, <2>1 DEF CancelJob
    <3>2. jobs[k].status \notin TerminalStatus
      BY <2>1, RecoveredFinal DEF TerminalStatus
    <3> QED BY <3>1, <3>2, RecoveredFinal, LiveRewritten
  <2>2. CASE recoveredJobs(jobs)[k].status \notin {"queued", "retrying"}
    BY <1>4, <1>5, <2>2 DEF CancelJob
  <2> QED BY <2>1, <2>2
<1>6. ASSUME NEW k \in Job, markJobCompletionSideEffectFailure(k)
      PROVE  \A j \in Job : FinalOrFailing(j)
  <2>1. jobs' = [jobs EXCEPT ![k] = Released(@, "failed")] /\ effect[k].phase = "pending"
    BY <1>6 DEF markJobCompletionSideEffectFailure
  <2>2. jobs[k].status \in {"succeeded", "failed"}
    BY <2>1 DEF IInv, EffectAgreesWithStatus
  <2>3. \A r \in JobRow : Released(r, "failed").status = "failed"
    BY DEF Released, JobRow
  <2> QED BY <1>0, <2>1, <2>2, <2>3 DEF FinalOrFailing
<1>7. ASSUME NEW owner, NEW k \in Job, NEW candidates,
             candidates \in SUBSET Waiting(recoveredJobs(jobs)),
             claimJob(owner, recoveredJobs(jobs), recoveredLocks(locks), candidates, k)
      PROVE  \A j \in Job : FinalOrFailing(j)
  <2>1. recoveredJobs(jobs)[k].status \in {"queued", "retrying"}
    BY <1>7 DEF claimJob, IsHead, Waiting
  <2>2. jobs[k].status \notin TerminalStatus
    BY <2>1, RecoveredFinal DEF TerminalStatus
  <2> QED BY <1>7, <2>2, RecoveredFinal, LiveRewritten DEF claimJob
<1>8. ASSUME NEW w \in Worker, ClaimJob(w)
      PROVE  \A j \in Job : FinalOrFailing(j)
  <2>1. workerCandidates(recoveredJobs(jobs)) \in SUBSET Waiting(recoveredJobs(jobs))
    BY DEF workerCandidates
  <2> QED BY <1>7, <1>8, <2>1 DEF ClaimJob
<1>9. ASSUME NEW n \in Node, AgentNextJob(n)
      PROVE  \A j \in Job : FinalOrFailing(j)
  <2>1. agentCandidates(recoveredJobs(jobs), n) \in SUBSET Waiting(recoveredJobs(jobs))
    BY DEF agentCandidates
  <2> QED BY <1>7, <1>9, <2>1 DEF AgentNextJob
<1>10. ASSUME NEW w \in Worker, NEW status \in ResultStatus, CompleteJob(w, status)
       PROVE  \A j \in Job : FinalOrFailing(j)
  <2>1. CASE jobs[exec[w]].status \in TerminalStatus
    BY <1>1, <1>10, <2>1 DEF CompleteJob
  <2>2. CASE jobs[exec[w]].status \notin TerminalStatus
    <3>1. exec[w] \in Job
      BY <1>10 DEF IInv, ProcessTyped, CompleteJob, Executor
    <3>2. jobs' = [jobs EXCEPT ![exec[w]] = Released(@, status)]
      BY <1>10, <2>2 DEF CompleteJob, completed
    <3> QED BY <1>0, <2>2, <3>1, <3>2, LiveRewritten
  <2> QED BY <2>1, <2>2
<1>11. ASSUME NEW m \in results, AgentJobResult(m)
       PROVE  \A j \in Job : FinalOrFailing(j)
  <2> DEFINE js == recoveredJobs(jobs)
  <2>1. m.job \in Job
    BY <1>11 DEF IInv, ProcessTyped
  <2>2. CASE leaseHeld(js[m.job]) /\ js[m.job].row.node \notin retired
    <3>1. jobs' = [js EXCEPT ![m.job] = Released(@, m.status)]
      BY <1>11, <2>2 DEF AgentJobResult, completed
    <3>2. jobs[m.job].status \notin TerminalStatus
      BY <2>1, <2>2, RecoveredFinal DEF leaseHeld, TerminalStatus
    <3> QED BY <2>1, <3>1, <3>2, RecoveredFinal, LiveRewritten
  <2>3. CASE ~(leaseHeld(js[m.job]) /\ js[m.job].row.node \notin retired)
    BY <1>4, <1>11, <2>3 DEF AgentJobResult
  <2> QED BY <2>2, <2>3
<1>12. ASSUME NEW S, S \in SUBSET {j \in Job : jobs[j].status \in LiveStatus}, jobs' = cancelled(S)
       PROVE  \A j \in Job : FinalOrFailing(j)
  BY <1>12, CancelledTables DEF Forward, FinalOrFailing
<1>13. ASSUME NEW n \in Node, ForceRetireNode(n)
       PROVE  \A j \in Job : FinalOrFailing(j)
  BY <1>12, <1>13 DEF ForceRetireNode
<1>14. ASSUME NEW i, ForceDeleteInstance(i)
       PROVE  \A j \in Job : FinalOrFailing(j)
  BY <1>12, <1>14 DEF ForceDeleteInstance
<1>15. ASSUME NEW n \in Node, NEW k \in Job, RequeueNodeStuckJob(n, k)
       PROVE  \A j \in Job : FinalOrFailing(j)
  <2> DEFINE s == requeue[n]
             old == IF jobs[s].status \in {"running", "retrying"} THEN Released(jobs[s], "cancelled")
                    ELSE jobs[s]
             js == [jobs EXCEPT ![s] = old, ![k] = Inserted(jobs[s].row, jobs[s].priority)]
  <2>1. jobs' = recoveredJobs(js) /\ jobs[k].status = "absent"
    BY <1>15 DEF RequeueNodeStuckJob
  <2>2. \A j \in Job : jobs[j].status \in TerminalStatus => js[j] = jobs[j]
    BY <1>0, <2>1 DEF TerminalStatus
  <2> HIDE DEF js
  <2>3. \A j \in Job : jobs[j].status \in TerminalStatus => jobs'[j] = jobs[j]
    BY <2>1, <2>2 DEF recoveredJobs, StaleLease, TerminalStatus
  <2> QED BY <2>3 DEF FinalOrFailing
<1>16. CASE Tick
  <2>1. \A j \in Job : jobs'[j].status = jobs[j].status
    BY <1>0, <1>16 DEF Tick, JobRow
  <2> QED BY <2>1 DEF FinalOrFailing
<1>17. CASE RecoverStaleJobLeases
  BY <1>4, <1>17 DEF RecoverStaleJobLeases
<1>18. ASSUME NEW k \in Job, ApplyJobCompletionSideEffects(k) \/ CompletionCrash(k)
       PROVE  UNCHANGED jobs
  BY <1>18 DEF ApplyJobCompletionSideEffects, CompletionCrash
<1>19. ASSUME NEW n \in Node, loadNodeStaleClaim(n) \/ \E st \in ResultStatus : AgentSubmit(n, st)
       PROVE  UNCHANGED jobs
  BY <1>19 DEF loadNodeStaleClaim, AgentSubmit
<1>20. ASSUME (\E m \in results : LoseResult(m)) \/ (\E e \in Executor : Crash(e)) \/ UNCHANGED vars
       PROVE  UNCHANGED jobs
  BY <1>20 DEF LoseResult, Crash, vars
<1> QED
  BY <1>1, <1>2, <1>3, <1>5, <1>6, <1>8, <1>9, <1>10, <1>11, <1>13, <1>14, <1>15, <1>16,
     <1>17, <1>18, <1>19, <1>20 DEF Next

\* A final status is final, whatever executor completes late or twice and
\* whoever cancels, recovers or requeues: the only change is the failure that
\* markJobCompletionSideEffectFailure records while side effects are due.
THEOREM FinalIsFinal == Spec => TerminalStable
<1>1. IInv /\ [Next]_vars => [\A j \in Job : FinalOrFailing(j)]_vars
  BY FinalStep
<1>2. [\A j \in Job : FinalOrFailing(j)]_vars
        => [\A j \in Job :
              jobs[j].status \in TerminalStatus =>
                \/ jobs'[j].status = jobs[j].status
                \/ /\ jobs[j].status = "succeeded" /\ jobs'[j].status = "failed"
                   /\ effect[j].phase = "pending"]_vars
  BY DEF FinalOrFailing
<1> QED BY <1>1, <1>2, Invariance, PTL DEF Spec, TerminalStable

-----------------------------------------------------------------------------
(***************************************************************************)
(* JobQueue implements JobLease: every transaction of the queue is one of  *)
(* the steps of JobLease or changes nothing that JobLease sees.  As with   *)
(* the invariant, each table operation has a lemma that says what it does  *)
(* to the view, and an action cites the lemmas of the operations that it   *)
(* composes.                                                               *)
(***************************************************************************)

\* Recovery is invisible: an expired lease counts as waiting, an expired lock
\* as free, before as after it.
LEMMA RecoverView ==
  ASSUME NEW js, NEW ls, TablesTyped(js, ls)
  PROVE  /\ leasePhases(recoveredJobs(js)) = leasePhases(js)
         /\ leaseKeys(recoveredJobs(js)) = leaseKeys(js)
         /\ heldKeys(recoveredLocks(ls)) = heldKeys(ls)
<1>1. ASSUME NEW j \in Job
      PROVE  /\ LeasePhase(recoveredJobs(js)[j]) = LeasePhase(js[j])
             /\ recoveredJobs(js)[j].status = "absent" <=> js[j].status = "absent"
             /\ recoveredJobs(js)[j].row = js[j].row
  <2>1. js[j] \in JobRow
    BY DEF TablesTyped
  <2>2. CASE StaleLease(js[j])
    <3>1. recoveredJobs(js)[j] = Released(js[j], "retrying")
      BY <2>2 DEF recoveredJobs
    <3>2. recoveredJobs(js)[j].status = "retrying" /\ recoveredJobs(js)[j].row = js[j].row
      BY <2>1, <3>1 DEF Released, JobRow
    <3> QED BY <2>2, <3>2 DEF StaleLease, LeasePhase
  <2>3. CASE ~StaleLease(js[j])
    BY <2>3 DEF recoveredJobs
  <2> QED BY <2>2, <2>3
<1>2. leasePhases(recoveredJobs(js)) = leasePhases(js)
  BY <1>1 DEF leasePhases
<1>3. leaseKeys(recoveredJobs(js)) = leaseKeys(js)
  BY <1>1 DEF leaseKeys
<1>4. heldKeys(recoveredLocks(ls)) = heldKeys(ls)
  BY DEF heldKeys, recoveredLocks
<1> QED BY <1>2, <1>3, <1>4

\* Ending jobs ends them in the view and gives their keys back.
LEMMA ReleaseView ==
  ASSUME NEW js, NEW ls, TablesInv(js, ls),
         NEW S \in SUBSET Job, \A j \in S : js[j].status # "absent",
         NEW st \in TerminalStatus,
         NEW rj, rj = [j \in Job |-> IF j \in S THEN Released(js[j], st) ELSE js[j]]
  PROVE  /\ leasePhases(rj) = [j \in Job |-> IF j \in S
                                             THEN IF st = "cancelled" THEN "cancelled" ELSE "done"
                                             ELSE leasePhases(js)[j]]
         /\ leaseKeys(rj) = leaseKeys(js)
         /\ heldKeys(locksWithout(ls, S)) = heldKeys(ls) \ {h \in heldKeys(ls) : h[2] \in S}
<1>1. ASSUME NEW j \in Job
      PROVE  /\ LeasePhase(rj[j]) = IF j \in S
                                    THEN IF st = "cancelled" THEN "cancelled" ELSE "done"
                                    ELSE LeasePhase(js[j])
             /\ rj[j].status = "absent" <=> js[j].status = "absent"
             /\ rj[j].row = js[j].row
  <2>1. js[j] \in JobRow
    BY DEF TablesInv, TablesTyped
  <2>2. CASE j \in S
    <3>1. rj[j].status = st /\ rj[j].row = js[j].row
      BY <2>1, <2>2 DEF Released, JobRow
    <3> QED BY <2>2, <3>1 DEF LeasePhase, TerminalStatus
  <2>3. CASE j \notin S
    BY <2>3
  <2> QED BY <2>2, <2>3
<1>2. leasePhases(rj) = [j \in Job |-> IF j \in S
                                       THEN IF st = "cancelled" THEN "cancelled" ELSE "done"
                                       ELSE leasePhases(js)[j]]
  BY <1>1 DEF leasePhases
<1>3. leaseKeys(rj) = leaseKeys(js)
  BY <1>1 DEF leaseKeys
<1>4. heldKeys(locksWithout(ls, S)) = heldKeys(ls) \ {h \in heldKeys(ls) : h[2] \in S}
  BY DEF heldKeys, locksWithout
<1> QED BY <1>2, <1>3, <1>4

\* A row as it is inserted waits for its key.
LEMMA InsertView ==
  ASSUME NEW js \in [Job -> JobRow], NEW k \in Job,
         NEW r \in JobRow, r.status = "queued", r.row \in Template
  PROVE  /\ leasePhases([js EXCEPT ![k] = r]) = [leasePhases(js) EXCEPT ![k] = "waiting"]
         /\ leaseKeys([js EXCEPT ![k] = r]) = [leaseKeys(js) EXCEPT ![k] = jobLockTarget(r.row)]
         /\ jobLockTarget(r.row) \in LockKeys \cup {NoLock}
<1>1. LeasePhase(r) = "waiting"
  BY DEF LeasePhase
<1>2. leasePhases([js EXCEPT ![k] = r]) = [leasePhases(js) EXCEPT ![k] = "waiting"]
  BY <1>1 DEF leasePhases
<1>3. leaseKeys([js EXCEPT ![k] = r]) = [leaseKeys(js) EXCEPT ![k] = jobLockTarget(r.row)]
  BY DEF leaseKeys
<1>4. jobLockTarget(r.row) \in LockKeys \cup {NoLock}
  BY DEF LockKeys
<1> QED BY <1>2, <1>3, <1>4

\* A claim leases one waiting job and takes its key, which was free.
LEMMA ClaimView ==
  ASSUME NEW js, NEW ls, TablesInv(js, ls), NEW owner \in Executor,
         NEW candidates \in SUBSET Waiting(js), NEW j \in Job,
         claimJob(owner, js, ls, candidates, j)
  PROVE  /\ leasePhases(js)[j] = "waiting"
         /\ \A h \in heldKeys(ls) : h[1] # leaseKeys(js)[j]
         /\ leasePhases(jobs') = [leasePhases(js) EXCEPT ![j] = "leased"]
         /\ leaseKeys(jobs') = leaseKeys(js)
         /\ heldKeys(locks') = heldKeys(ls) \cup ({leaseKeys(js)[j]} \ {NoLock}) \X {j}
<1> DEFINE D == jobLeaseDurationForType(js[j].row.type)
           target == jobLockTarget(js[j].row)
<1>1. js \in [Job -> JobRow]
  BY DEF TablesInv, TablesTyped
<1>2. js[j].status \in {"queued", "retrying"}
  BY DEF claimJob, IsHead, Waiting
<1>3. D \in Nat /\ MaxLag < D /\ MaxLag \in Nat
  BY LeaseDuration, LeaseAssumption
<1>4. jobs' = [js EXCEPT ![j] = Leased(@, owner)]
  BY DEF claimJob
<1>5. PICK lag \in 0..MaxLag : locks' = ls \cup LockRows(j, js[j].row, lag)
  BY DEF claimJob
<1>6. /\ jobs'[j].status = "running" /\ jobs'[j].ttl = D /\ jobs'[j].row = js[j].row
      /\ \A i \in Job \ {j} : jobs'[i] = js[i]
  BY <1>1, <1>4 DEF Leased, JobRow
<1> HIDE DEF D
<1>7. leasePhases(js)[j] = "waiting" /\ leaseKeys(js)[j] = target
  BY <1>2 DEF leasePhases, LeasePhase, leaseKeys
<1>8. \A h \in heldKeys(ls) : h[1] # target
  BY DEF heldKeys, claimJob, LockFree
<1>9. leasePhases(jobs') = [leasePhases(js) EXCEPT ![j] = "leased"]
  <2>1. LeasePhase(jobs'[j]) = "leased"
    BY <1>3, <1>6 DEF LeasePhase
  <2> QED BY <1>6, <2>1 DEF leasePhases
<1>10. leaseKeys(jobs') = leaseKeys(js)
  BY <1>2, <1>6 DEF leaseKeys
<1>11. heldKeys(LockRows(j, js[j].row, lag)) = ({target} \ {NoLock}) \X {j}
  <2>1. CASE target = NoLock
    BY <2>1 DEF LockRows, heldKeys
  <2>2. CASE target # NoLock
    <3> DEFINE lock == [key |-> target, job |-> j, ttl |-> D - lag]
    <3>1. LockRows(j, js[j].row, lag) = {lock}
      BY <2>2 DEF LockRows, D
    <3>2. lock.key = target /\ lock.job = j /\ lock.ttl >= 0
      BY <1>3
    <3> HIDE DEF lock
    <3>3. heldKeys({lock}) = {<<target, j>>}
      BY <3>2 DEF heldKeys
    <3> QED BY <2>2, <3>1, <3>3
  <2> QED BY <2>1, <2>2
<1>12. heldKeys(locks') = heldKeys(ls) \cup heldKeys(LockRows(j, js[j].row, lag))
  BY <1>5 DEF heldKeys
<1> QED BY <1>7, <1>8, <1>9, <1>10, <1>11, <1>12

\* Time: the leases and keys that end with the tick.
LEMMA TickView ==
  ASSUME TablesInv(jobs, locks), Tick
  PROVE  LET J == {j \in Job : jobs[j].status = "running" /\ jobs[j].ttl = 0}
             H == {<<l.key, l.job>> : l \in {l \in locks : l.ttl = 0}}
         IN  /\ \A j \in J : leasePhases(jobs)[j] = "leased"
             /\ {h \in heldKeys(locks) : h[2] \in J} \subseteq H
             /\ H \subseteq heldKeys(locks)
             /\ leasePhases(jobs') = [j \in Job |-> IF j \in J THEN "waiting" ELSE leasePhases(jobs)[j]]
             /\ leaseKeys(jobs') = leaseKeys(jobs)
             /\ heldKeys(locks') = heldKeys(locks) \ H
<1> DEFINE J == {j \in Job : jobs[j].status = "running" /\ jobs[j].ttl = 0}
           H == {<<l.key, l.job>> : l \in {l \in locks : l.ttl = 0}}
           older(l) == [l EXCEPT !.ttl = Less(@)]
<1>1. jobs \in [Job -> JobRow] /\ locks \in SUBSET LockRow
  BY DEF TablesInv, TablesTyped
<1>2. \A j \in Job : /\ jobs'[j].status = jobs[j].status /\ jobs'[j].row = jobs[j].row
                      /\ jobs'[j].ttl = Less(jobs[j].ttl) /\ jobs[j].ttl \in Nat \cup {-1}
  BY <1>1 DEF Tick, JobRow
<1>3. \A l \in locks : /\ older(l).key = l.key /\ older(l).job = l.job /\ older(l).ttl = Less(l.ttl)
                        /\ l.ttl \in Nat \cup {-1} /\ l.job \in Job
  BY <1>1 DEF LockRow
<1>4. locks' = {older(l) : l \in locks}
  BY DEF Tick
<1>5. \A j \in J : leasePhases(jobs)[j] = "leased"
  BY DEF leasePhases, LeasePhase
<1>6. {h \in heldKeys(locks) : h[2] \in J} \subseteq H
  <2> SUFFICES ASSUME NEW l \in locks, l.ttl >= 0, l.job \in J
               PROVE  l.ttl = 0
    BY DEF heldKeys
  <2> QED BY <1>3 DEF TablesInv, LocksOwned
<1>7. H \subseteq heldKeys(locks)
  BY DEF heldKeys
<1>8. leasePhases(jobs') = [j \in Job |-> IF j \in J THEN "waiting" ELSE leasePhases(jobs)[j]]
  <2> SUFFICES ASSUME NEW j \in Job
               PROVE  LeasePhase(jobs'[j]) = IF j \in J THEN "waiting" ELSE LeasePhase(jobs[j])
    BY DEF leasePhases
  <2>1. CASE j \in J
    BY <1>2, <2>1 DEF LeasePhase, Less
  <2>2. CASE j \notin J
    BY <1>2, <2>2 DEF LeasePhase, Less
  <2> QED BY <2>1, <2>2
<1>9. leaseKeys(jobs') = leaseKeys(jobs)
  BY <1>2 DEF leaseKeys
<1>10. heldKeys(locks') = heldKeys(locks) \ H
  <2> HIDE DEF older
  <2>1. ASSUME NEW h \in heldKeys(locks') PROVE h \in heldKeys(locks) \ H
    <3>1. PICK l \in locks : h = <<l.key, l.job>> /\ Less(l.ttl) >= 0
      BY <1>3, <1>4, <2>1 DEF heldKeys
    <3>2. l.ttl > 0
      BY <1>3, <3>1 DEF Less
    <3>3. ASSUME NEW m \in locks, m.ttl = 0, h = <<m.key, m.job>> PROVE FALSE
      <4>1. m = l
        BY <3>1, <3>3 DEF TablesInv, LocksUnique
      <4> QED BY <3>2, <3>3, <4>1
    <3>4. h \in heldKeys(locks)
      BY <1>3, <3>1, <3>2 DEF heldKeys
    <3> QED BY <3>3, <3>4
  <2>2. ASSUME NEW h \in heldKeys(locks) \ H PROVE h \in heldKeys(locks')
    <3>1. PICK l \in locks : h = <<l.key, l.job>> /\ l.ttl >= 0
      BY <2>2 DEF heldKeys
    <3>2. l.ttl # 0
      BY <2>2, <3>1
    <3>3. Less(l.ttl) >= 0
      BY <1>3, <3>1, <3>2 DEF Less
    <3> QED BY <1>3, <1>4, <3>1, <3>3 DEF heldKeys
  <2> QED BY <2>1, <2>2
<1> QED BY <1>5, <1>6, <1>7, <1>8, <1>9, <1>10

-----------------------------------------------------------------------------
ViewStep == [LeaseView!Next]_(LeaseView!leaseVars)

\* A step that the view does not show.
LEMMA Unseen ==
  ASSUME leasePhases(jobs') = leasePhases(jobs), leaseKeys(jobs') = leaseKeys(jobs),
         heldKeys(locks') = heldKeys(locks), owedEffects(effect') = owedEffects(effect)
  PROVE  ViewStep
  BY DEF ViewStep, LeaseView!leaseVars

\* Recovery alone, or nothing at all, happens to the tables.
LEMMA RecoveredUnseen ==
  ASSUME IInv, UNCHANGED effect,
         \/ jobs' = recoveredJobs(jobs) /\ locks' = recoveredLocks(locks)
         \/ UNCHANGED <<jobs, locks>>
  PROVE  ViewStep
<1>1. /\ leasePhases(jobs') = leasePhases(jobs) /\ leaseKeys(jobs') = leaseKeys(jobs)
      /\ heldKeys(locks') = heldKeys(locks)
  BY RecoverView DEF IInv, TablesInv
<1> QED BY <1>1, Unseen

\* A live job is alive in the view.
LEMMA LiveView ==
  ASSUME NEW js \in [Job -> JobRow], NEW j \in Job, js[j].status \in LiveStatus
  PROVE  leasePhases(js)[j] \in {"waiting", "leased"}
<1>1. leasePhases(js)[j] = LeasePhase(js[j]) /\ js[j].ttl \in Nat \cup {-1}
  BY DEF leasePhases, JobRow
<1>2. CASE js[j].status = "running" /\ js[j].ttl >= 0
  BY <1>1, <1>2 DEF LeasePhase
<1>3. CASE js[j].status = "running" /\ js[j].ttl < 0
  BY <1>1, <1>3 DEF LeasePhase
<1>4. CASE js[j].status \in {"queued", "retrying"}
  BY <1>1, <1>4 DEF LeasePhase
<1> QED BY <1>1, <1>2, <1>3, <1>4 DEF LiveStatus

\* CreateJob inserts.
LEMMA CreateJobView ==
  ASSUME IInv, NEW j \in Job, NEW t \in Template, CreateJob(j, t)
  PROVE  ViewStep
<1> DEFINE r == Inserted(t, t.priority)
<1>1. r \in JobRow /\ r.status = "queued" /\ r.row = t
  BY InsertedRow, TemplateAssumption DEF IInv
<1>2. /\ jobs \in [Job -> JobRow] /\ jobs' = [jobs EXCEPT ![j] = r]
      /\ locks' = locks /\ effect' = effect /\ jobs[j].status = "absent"
  BY DEF IInv, TablesInv, TablesTyped, CreateJob, processVars
<1> HIDE DEF r
<1>3. /\ leasePhases(jobs') = [leasePhases(jobs) EXCEPT ![j] = "waiting"]
      /\ leaseKeys(jobs') = [leaseKeys(jobs) EXCEPT ![j] = jobLockTarget(t)]
      /\ jobLockTarget(t) \in LockKeys \cup {NoLock}
  BY <1>1, <1>2, InsertView
<1>4. leasePhases(jobs)[j] = "absent"
  BY <1>2 DEF leasePhases, LeasePhase
<1>5. LeaseView!Insert(j, jobLockTarget(t))
  BY <1>2, <1>3, <1>4 DEF LeaseView!Insert
<1> QED BY <1>3, <1>5 DEF ViewStep, LeaseView!Next

\* setQueuedJobPriority changes what the view leaves out.
LEMMA setQueuedJobPriorityView ==
  ASSUME IInv, NEW j \in Job, setQueuedJobPriority(j)
  PROVE  ViewStep
<1>1. \A i \in Job : jobs'[i].status = jobs[i].status /\ jobs'[i].row = jobs[i].row /\ jobs'[i].ttl = jobs[i].ttl
  BY DEF IInv, TablesInv, TablesTyped, JobRow, setQueuedJobPriority
<1>2. leasePhases(jobs') = leasePhases(jobs) /\ leaseKeys(jobs') = leaseKeys(jobs)
  BY <1>1 DEF leasePhases, leaseKeys, LeasePhase
<1> QED BY <1>2, Unseen DEF setQueuedJobPriority, processVars

\* A claim by a worker or an agent.
LEMMA ClaimedView ==
  ASSUME IInv, NEW owner \in Executor, NEW candidates \in SUBSET Waiting(recoveredJobs(jobs)),
         NEW j \in Job, claimJob(owner, recoveredJobs(jobs), recoveredLocks(locks), candidates, j),
         UNCHANGED effect
  PROVE  ViewStep
<1> DEFINE js == recoveredJobs(jobs)
           ls == recoveredLocks(locks)
<1>1. TablesInv(js, ls)
  BY RecoverTables DEF IInv
<1>2. /\ leasePhases(js) = leasePhases(jobs) /\ leaseKeys(js) = leaseKeys(jobs)
      /\ heldKeys(ls) = heldKeys(locks)
  BY RecoverView DEF IInv, TablesInv
<1> HIDE DEF js, ls
<1>3. /\ leasePhases(js)[j] = "waiting"
      /\ \A h \in heldKeys(ls) : h[1] # leaseKeys(js)[j]
      /\ leasePhases(jobs') = [leasePhases(js) EXCEPT ![j] = "leased"]
      /\ leaseKeys(jobs') = leaseKeys(js)
      /\ heldKeys(locks') = heldKeys(ls) \cup ({leaseKeys(js)[j]} \ {NoLock}) \X {j}
  BY <1>1, ClaimView DEF js, ls
<1>4. LeaseView!Lease(j)
  BY <1>2, <1>3 DEF LeaseView!Lease
<1> QED BY <1>4 DEF ViewStep, LeaseView!Next

\* A worker's claim is a lease.
LEMMA ClaimJobView ==
  ASSUME IInv, NEW w \in Worker, ClaimJob(w)
  PROVE  ViewStep
<1>1. PICK j \in Job : claimJob(w, recoveredJobs(jobs), recoveredLocks(locks),
                                workerCandidates(recoveredJobs(jobs)), j)
  BY DEF ClaimJob
<1>2. workerCandidates(recoveredJobs(jobs)) \in SUBSET Waiting(recoveredJobs(jobs))
  BY DEF workerCandidates
<1>3. UNCHANGED effect /\ w \in Executor
  BY DEF ClaimJob, Executor
<1> QED BY <1>1, <1>2, <1>3, ClaimedView

\* An agent's claim is a lease, whether or not the answer reaches it.
LEMMA AgentNextJobView ==
  ASSUME IInv, NEW n \in Node, AgentNextJob(n)
  PROVE  ViewStep
<1>1. PICK j \in Job : claimJob(n, recoveredJobs(jobs), recoveredLocks(locks),
                                agentCandidates(recoveredJobs(jobs), n), j)
  BY DEF AgentNextJob
<1>2. agentCandidates(recoveredJobs(jobs), n) \in SUBSET Waiting(recoveredJobs(jobs))
  BY DEF agentCandidates
<1>3. UNCHANGED effect /\ n \in Executor
  BY DEF AgentNextJob, Executor
<1> QED BY <1>1, <1>2, <1>3, ClaimedView

\* Time is a lapse.
LEMMA TickStepView ==
  ASSUME IInv, Tick
  PROVE  ViewStep
<1> DEFINE J == {j \in Job : jobs[j].status = "running" /\ jobs[j].ttl = 0}
           H == {<<l.key, l.job>> : l \in {l \in locks : l.ttl = 0}}
<1>1. /\ \A j \in J : leasePhases(jobs)[j] = "leased"
      /\ {h \in heldKeys(locks) : h[2] \in J} \subseteq H
      /\ H \subseteq heldKeys(locks)
      /\ leasePhases(jobs') = [j \in Job |-> IF j \in J THEN "waiting" ELSE leasePhases(jobs)[j]]
      /\ leaseKeys(jobs') = leaseKeys(jobs)
      /\ heldKeys(locks') = heldKeys(locks) \ H
  BY TickView DEF IInv
<1>2. UNCHANGED effect /\ J \in SUBSET Job
  BY DEF Tick
<1> HIDE DEF J, H
<1>3. LeaseView!Lapse(J, H)
  BY <1>1, <1>2 DEF LeaseView!Lapse, LeaseView!KeysOf
<1> QED BY <1>1, <1>2, <1>3 DEF ViewStep, LeaseView!Next

\* One job is released with a final status, after recovery or without it.
LEMMA ReleaseOneView ==
  ASSUME NEW js, NEW ls, TablesInv(js, ls), NEW j \in Job, js[j].status # "absent",
         NEW st \in TerminalStatus,
         jobs' = [js EXCEPT ![j] = Released(@, st)], locks' = locksWithout(ls, {j})
  PROVE  /\ leasePhases(jobs') = [leasePhases(js) EXCEPT ![j] = IF st = "cancelled"
                                                                THEN "cancelled" ELSE "done"]
         /\ leaseKeys(jobs') = leaseKeys(js)
         /\ heldKeys(locks') = heldKeys(ls) \ {h \in heldKeys(ls) : h[2] \in {j}}
<1> DEFINE rj == [js EXCEPT ![j] = Released(@, st)]
           S == {j}
<1>1. rj = [i \in Job |-> IF i \in S THEN Released(js[i], st) ELSE js[i]]
  BY DEF TablesInv, TablesTyped
<1>2. S \in SUBSET Job /\ \A i \in S : js[i].status # "absent"
  OBVIOUS
<1>3. jobs' = rj /\ locks' = locksWithout(ls, S)
  OBVIOUS
<1> HIDE DEF rj, S
<1>4. /\ leasePhases(rj) = [i \in Job |-> IF i \in S
                                           THEN IF st = "cancelled" THEN "cancelled" ELSE "done"
                                           ELSE leasePhases(js)[i]]
      /\ leaseKeys(rj) = leaseKeys(js)
      /\ heldKeys(locksWithout(ls, S)) = heldKeys(ls) \ {h \in heldKeys(ls) : h[2] \in S}
  BY <1>1, <1>2, ReleaseView
<1>5. leasePhases(rj) = [leasePhases(js) EXCEPT ![j] = IF st = "cancelled" THEN "cancelled" ELSE "done"]
  BY <1>4 DEF leasePhases, S
<1>6. heldKeys(locks') = heldKeys(ls) \ {h \in heldKeys(ls) : h[2] \in {j}}
  BY <1>3, <1>4 DEF S
<1> QED BY <1>3, <1>4, <1>5, <1>6

\* A completion ends the job and makes its side effects due.
LEMMA CompletedView ==
  ASSUME IInv, NEW js, NEW ls, TablesInv(js, ls),
         leasePhases(js) = leasePhases(jobs), leaseKeys(js) = leaseKeys(jobs),
         heldKeys(ls) = heldKeys(locks),
         NEW j \in Job, js[j].status \in LiveStatus, NEW st \in ResultStatus,
         NEW by, completed(js, ls, j, st, by)
  PROVE  ViewStep
<1>1. js[j].status # "absent" /\ st \in TerminalStatus /\ st # "cancelled"
  BY DEF LiveStatus, ResultStatus, TerminalStatus
<1>2. jobs' = [js EXCEPT ![j] = Released(@, st)] /\ locks' = locksWithout(ls, {j})
  BY DEF completed
<1>3. /\ leasePhases(jobs') = [leasePhases(js) EXCEPT ![j] = IF st = "cancelled"
                                                             THEN "cancelled" ELSE "done"]
      /\ leaseKeys(jobs') = leaseKeys(js)
      /\ heldKeys(locks') = heldKeys(ls) \ {h \in heldKeys(ls) : h[2] \in {j}}
  BY <1>1, <1>2, ReleaseOneView
<1>4. leasePhases(js)[j] \in {"waiting", "leased"}
  BY LiveView DEF TablesInv, TablesTyped
<1>5. owedEffects(effect') = [owedEffects(effect) EXCEPT ![j] = "due"]
  BY DEF completed, owedEffects, IInv, ProcessTyped
<1>6. LeaseView!End(j)
  BY <1>1, <1>3, <1>4, <1>5 DEF LeaseView!End, LeaseView!Alive, LeaseView!KeysOf
<1> QED BY <1>6 DEF ViewStep, LeaseView!Next

\* A worker's completion ends its job, or is unseen when the job has ended.
LEMMA CompleteJobView ==
  ASSUME IInv, NEW w \in Worker, NEW status \in ResultStatus, CompleteJob(w, status)
  PROVE  ViewStep
<1>1. exec[w] \in Job /\ jobs[exec[w]].status # "absent" /\ jobs \in [Job -> JobRow]
  BY DEF IInv, TablesInv, TablesTyped, ProcessTyped, NoDangling, CompleteJob, Executor
<1>2. CASE jobs[exec[w]].status \in TerminalStatus
  BY <1>2, RecoveredUnseen DEF CompleteJob
<1>3. CASE jobs[exec[w]].status \notin TerminalStatus
  <2>1. completed(jobs, locks, exec[w], status, w)
    BY <1>3 DEF CompleteJob
  <2>2. jobs[exec[w]].status \in LiveStatus
    BY <1>1, <1>3 DEF JobRow
  <2> QED BY <1>1, <2>1, <2>2, CompletedView DEF IInv
<1> QED BY <1>2, <1>3

\* An agent's result ends its job, or shows only the recovery it began with.
LEMMA AgentJobResultView ==
  ASSUME IInv, NEW m \in results, AgentJobResult(m)
  PROVE  ViewStep
<1> DEFINE js == recoveredJobs(jobs)
           ls == recoveredLocks(locks)
<1>1. TablesInv(js, ls)
  BY RecoverTables DEF IInv
<1>2. /\ leasePhases(js) = leasePhases(jobs) /\ leaseKeys(js) = leaseKeys(jobs)
      /\ heldKeys(ls) = heldKeys(locks)
  BY RecoverView DEF IInv, TablesInv
<1>3. m.job \in Job /\ m.status \in ResultStatus
  BY DEF IInv, ProcessTyped
<1>4. \/ leaseHeld(js[m.job]) /\ completed(js, ls, m.job, m.status, API)
      \/ jobs' = js /\ locks' = ls /\ UNCHANGED effect
  BY DEF AgentJobResult
<1>5. CASE jobs' = js /\ locks' = ls /\ UNCHANGED effect
  BY <1>5, RecoveredUnseen
<1> HIDE DEF js, ls
<1>6. CASE leaseHeld(js[m.job]) /\ completed(js, ls, m.job, m.status, API)
  <2>1. js[m.job].status \in LiveStatus
    BY <1>6 DEF leaseHeld, LiveStatus
  <2> QED BY <1>1, <1>2, <1>3, <1>6, <2>1, CompletedView
<1> QED BY <1>4, <1>5, <1>6

\* The side effects of a job that were due are settled: applied, failed and
\* recorded, or lost with their process.
LEMMA SettledView ==
  ASSUME IInv, NEW j \in Job, effect[j].phase = "pending",
         NEW ph \in {"applied", "failed", "lost"},
         effect' = [effect EXCEPT ![j] = [phase |-> ph, by |-> None]], UNCHANGED locks,
         \/ UNCHANGED jobs
         \/ jobs' = [jobs EXCEPT ![j] = Released(@, "failed")]
  PROVE  ViewStep
<1>1. owedEffects(effect)[j] = "due" /\ owedEffects(effect') = [owedEffects(effect) EXCEPT ![j] = "settled"]
  BY DEF owedEffects, IInv, ProcessTyped
<1>2. jobs[j].status \in {"succeeded", "failed"} /\ jobs \in [Job -> JobRow]
  BY DEF IInv, TablesInv, TablesTyped, EffectAgreesWithStatus
<1>3. leasePhases(jobs') = leasePhases(jobs) /\ leaseKeys(jobs') = leaseKeys(jobs)
  <2>1. CASE UNCHANGED jobs
    BY <2>1
  <2>2. CASE jobs' = [jobs EXCEPT ![j] = Released(@, "failed")]
    <3>1. /\ \A i \in Job \ {j} : jobs'[i] = jobs[i]
          /\ jobs'[j].status = "failed" /\ jobs'[j].row = jobs[j].row
      BY <1>2, <2>2 DEF Released, JobRow
    <3>2. LeasePhase(jobs'[j]) = LeasePhase(jobs[j])
      BY <1>2, <3>1 DEF LeasePhase
    <3> QED BY <1>2, <3>1, <3>2 DEF leasePhases, leaseKeys
  <2> QED BY <2>1, <2>2
<1>4. LeaseView!Settle(j)
  BY <1>1, <1>3 DEF LeaseView!Settle
<1> QED BY <1>4 DEF ViewStep, LeaseView!Next

\* Live jobs are cancelled, after recovery or without it.
LEMMA CancelView ==
  ASSUME NEW js, NEW ls, TablesInv(js, ls),
         leasePhases(js) = leasePhases(jobs), leaseKeys(js) = leaseKeys(jobs),
         heldKeys(ls) = heldKeys(locks),
         NEW S \in SUBSET Job, \A j \in S : js[j].status \in LiveStatus,
         jobs' = [j \in Job |-> IF j \in S THEN Released(js[j], "cancelled") ELSE js[j]],
         locks' = locksWithout(ls, S), UNCHANGED effect
  PROVE  ViewStep
<1>1. \A j \in S : js[j].status # "absent" /\ leasePhases(js)[j] \in {"waiting", "leased"}
  BY LiveView DEF TablesInv, TablesTyped, LiveStatus
<1>2. "cancelled" \in TerminalStatus
  BY DEF TerminalStatus
<1>3. /\ leasePhases(jobs') = [j \in Job |-> IF j \in S
                                              THEN IF "cancelled" = "cancelled" THEN "cancelled" ELSE "done"
                                              ELSE leasePhases(js)[j]]
      /\ leaseKeys(jobs') = leaseKeys(js)
      /\ heldKeys(locksWithout(ls, S)) = heldKeys(ls) \ {h \in heldKeys(ls) : h[2] \in S}
  BY <1>1, <1>2, ReleaseView
<1>4. LeaseView!Cancel(S)
  BY <1>1, <1>3 DEF LeaseView!Cancel, LeaseView!Alive, LeaseView!KeysOf
<1> QED BY <1>4 DEF ViewStep, LeaseView!Next

\* CancelJob cancels one waiting job, or shows only its recovery.
LEMMA CancelJobView ==
  ASSUME IInv, NEW j \in Job, CancelJob(j)
  PROVE  ViewStep
<1> DEFINE js == recoveredJobs(jobs)
           ls == recoveredLocks(locks)
           S  == {j}
<1>1. TablesInv(js, ls)
  BY RecoverTables DEF IInv
<1>2. /\ leasePhases(js) = leasePhases(jobs) /\ leaseKeys(js) = leaseKeys(jobs)
      /\ heldKeys(ls) = heldKeys(locks)
  BY RecoverView DEF IInv, TablesInv
<1>3. UNCHANGED effect
  BY DEF CancelJob, processVars
<1>4. \/ jobs' = js /\ locks' = ls
      \/ /\ js[j].status \in {"queued", "retrying"}
         /\ jobs' = [js EXCEPT ![j] = Released(@, "cancelled")]
         /\ locks' = locksWithout(ls, S)
  BY DEF CancelJob
<1>5. CASE jobs' = js /\ locks' = ls
  BY <1>3, <1>5, RecoveredUnseen
<1> HIDE DEF js, ls
<1>6. CASE /\ js[j].status \in {"queued", "retrying"}
           /\ jobs' = [js EXCEPT ![j] = Released(@, "cancelled")]
           /\ locks' = locksWithout(ls, S)
  <2>1. jobs' = [i \in Job |-> IF i \in S THEN Released(js[i], "cancelled") ELSE js[i]]
    BY <1>1, <1>6 DEF TablesInv, TablesTyped
  <2>2. S \in SUBSET Job /\ \A i \in S : js[i].status \in LiveStatus
    BY <1>6 DEF LiveStatus
  <2> HIDE DEF S
  <2> QED BY <1>1, <1>2, <1>3, <1>6, <2>1, <2>2, CancelView
<1> QED BY <1>4, <1>5, <1>6

\* The two force operations cancel sets of live jobs.
LEMMA ForceDeleteInstanceView ==
  ASSUME IInv, NEW i, ForceDeleteInstance(i)
  PROVE  ViewStep
<1> DEFINE S == {j \in Job : jobs[j].status \in LiveStatus /\ i \in jobs[j].row.instances}
<1>1. /\ jobs' = [j \in Job |-> IF j \in S THEN Released(jobs[j], "cancelled") ELSE jobs[j]]
      /\ locks' = locksWithout(locks, S) /\ UNCHANGED effect
  BY DEF ForceDeleteInstance, cancelled, processVars
<1>2. S \in SUBSET Job /\ \A j \in S : jobs[j].status \in LiveStatus
  OBVIOUS
<1> HIDE DEF S
<1> QED BY <1>1, <1>2, CancelView DEF IInv

\* The locks a force retire drops for the node are those of jobs it cancels.
LEMMA ForceRetireNodeView ==
  ASSUME IInv, NEW n \in Node, ForceRetireNode(n)
  PROVE  ViewStep
<1> DEFINE S == {j \in Job : jobs[j].status \in LiveStatus /\ n \in jobs[j].row.touches}
           ls == locksWithout(locks, S)
<1>1. /\ jobs' = [j \in Job |-> IF j \in S THEN Released(jobs[j], "cancelled") ELSE jobs[j]]
      /\ locks' = {l \in ls : ~(l.key[1] = "node" /\ l.key[2] = n)}
      /\ UNCHANGED effect
  BY DEF ForceRetireNode, cancelled
<1>2. S \in SUBSET Job /\ \A j \in S : jobs[j].status \in LiveStatus
  OBVIOUS
<1>3. locks' = ls
  BY RetiredNodeLocks
<1> HIDE DEF S
<1> QED BY <1>1, <1>2, <1>3, CancelView DEF IInv

\* RequeueNodeStuckJob puts a new job in the place of the stuck one, which it
\* cancels with it unless that one has ended meanwhile.
LEMMA RequeueView ==
  ASSUME IInv, NEW n \in Node, NEW k \in Job, RequeueNodeStuckJob(n, k)
  PROVE  ViewStep
<1> DEFINE s == requeue[n]
           J == IF jobs[s].status \in {"running", "retrying"} THEN {s} ELSE {}
           cut == [j \in Job |-> IF j \in J THEN Released(jobs[j], "cancelled") ELSE jobs[j]]
           rest == locksWithout(locks, J)
           copy == Inserted(jobs[s].row, jobs[s].priority)
           js == [cut EXCEPT ![k] = copy]
<1>1. s \in Job /\ jobs[s].status # "absent" /\ jobs[k].status = "absent" /\ s # k
  BY DEF RequeueNodeStuckJob, IInv, ProcessTyped, NoDangling
<1>2. jobs \in [Job -> JobRow] /\ jobs[s].row \in Template /\ jobs[s].priority \in Nat
  BY <1>1 DEF IInv, TablesInv, TablesTyped, JobRow
<1>3. copy \in JobRow /\ copy.status = "queued" /\ copy.row \in Template /\ copy.lockedBy = None
  BY <1>2, InsertedRow DEF IInv
<1>4. jobs' = recoveredJobs(js) /\ locks' = recoveredLocks(rest) /\ UNCHANGED effect
  <2>1. js = [jobs EXCEPT ![s] = IF @.status \in {"running", "retrying"}
                                 THEN Released(@, "cancelled") ELSE @,
                          ![k] = Inserted(jobs[s].row, jobs[s].priority)]
    BY <1>1, <1>2
  <2>2. rest = locksWithout(locks, {s})
    <3>1. CASE jobs[s].status \in {"running", "retrying"}
      BY <3>1
    <3>2. CASE jobs[s].status \notin {"running", "retrying"}
      <4>1. locksWithout(locks, {s}) = locks
        BY <1>1, <3>2, IdleHasNoLock DEF IInv
      <4> QED BY <3>2, <4>1 DEF locksWithout
    <3> QED BY <3>1, <3>2
  <2> QED BY <2>1, <2>2 DEF RequeueNodeStuckJob
<1>5. J \in SUBSET Job /\ k \notin J /\ \A j \in J : jobs[j].status \in LiveStatus
  BY <1>1 DEF LiveStatus
<1> HIDE DEF J, copy
<1>6. \A j \in J : jobs[j].status # "absent" /\ leasePhases(jobs)[j] \in {"waiting", "leased"}
  BY <1>2, <1>5, LiveView DEF LiveStatus
<1>7. "cancelled" \in TerminalStatus
  BY DEF TerminalStatus
<1>8. cut = [j \in Job |-> IF j \in J THEN Released(jobs[j], "cancelled") ELSE jobs[j]]
  OBVIOUS
<1>9. cut[k] = jobs[k]
  BY <1>5
<1> HIDE DEF cut
<1>10. TablesInv(cut, rest)
  BY <1>5, <1>6, <1>7, <1>8, ReleaseTables DEF IInv
<1>11. /\ leasePhases(cut) = [j \in Job |-> IF j \in J
                                             THEN IF "cancelled" = "cancelled" THEN "cancelled" ELSE "done"
                                             ELSE leasePhases(jobs)[j]]
       /\ leaseKeys(cut) = leaseKeys(jobs)
       /\ heldKeys(locksWithout(locks, J)) = heldKeys(locks) \ {h \in heldKeys(locks) : h[2] \in J}
  <2>1. TablesInv(jobs, locks)
    BY DEF IInv
  <2>2. J \in SUBSET Job /\ \A j \in J : jobs[j].status # "absent"
    BY <1>5, <1>6
  <2> QED BY <1>7, <1>8, <2>1, <2>2, ReleaseView
<1>12. cut \in [Job -> JobRow]
  BY <1>10 DEF TablesInv, TablesTyped
<1>13. /\ leasePhases(js) = [leasePhases(cut) EXCEPT ![k] = "waiting"]
       /\ leaseKeys(js) = [leaseKeys(cut) EXCEPT ![k] = jobLockTarget(copy.row)]
       /\ jobLockTarget(copy.row) \in LockKeys \cup {NoLock}
  BY <1>3, <1>12, InsertView
<1>14. TablesInv(js, rest)
  BY <1>1, <1>3, <1>9, <1>10, RewriteTables
<1> HIDE DEF js, rest
<1>15. /\ leasePhases(jobs') = leasePhases(js) /\ leaseKeys(jobs') = leaseKeys(js)
       /\ heldKeys(locks') = heldKeys(rest)
  BY <1>4, <1>14, RecoverView DEF TablesInv
<1>16. leasePhases(jobs)[k] = "absent"
  BY <1>1 DEF leasePhases, LeasePhase
<1>17. leasePhases(jobs') = [j \in Job |-> IF j \in J THEN "cancelled"
                                           ELSE IF j = k THEN "waiting" ELSE leasePhases(jobs)[j]]
  BY <1>5, <1>11, <1>13, <1>15
<1>18. heldKeys(locks') = heldKeys(locks) \ {h \in heldKeys(locks) : h[2] \in J}
  BY <1>11, <1>15 DEF rest
<1>19. LeaseView!Replace(J, k)
  BY <1>4, <1>6, <1>11, <1>13, <1>15, <1>16, <1>17, <1>18
     DEF LeaseView!Replace, LeaseView!Alive, LeaseView!KeysOf
<1> QED BY <1>5, <1>19 DEF ViewStep, LeaseView!Next

\* Every step of the queue is a step of its view, or leaves it alone.
LEMMA StepView ==
  ASSUME IInv, [Next]_vars
  PROVE  ViewStep
<1>1. ASSUME NEW j \in Job, NEW t \in Template, CreateJob(j, t) PROVE ViewStep
  BY <1>1, CreateJobView
<1>2. ASSUME NEW j \in Job, setQueuedJobPriority(j) PROVE ViewStep
  BY <1>2, setQueuedJobPriorityView
<1>3. ASSUME NEW j \in Job, CancelJob(j) PROVE ViewStep
  BY <1>3, CancelJobView
<1>4. ASSUME NEW j \in Job, ApplyJobCompletionSideEffects(j) PROVE ViewStep
  BY <1>4, SettledView DEF ApplyJobCompletionSideEffects
<1>5. ASSUME NEW j \in Job, markJobCompletionSideEffectFailure(j) PROVE ViewStep
  BY <1>5, SettledView DEF markJobCompletionSideEffectFailure
<1>6. ASSUME NEW j \in Job, CompletionCrash(j) PROVE ViewStep
  BY <1>6, SettledView DEF CompletionCrash
<1>7. CASE RecoverStaleJobLeases
  BY <1>7, RecoveredUnseen DEF RecoverStaleJobLeases, processVars
<1>8. ASSUME NEW w \in Worker, ClaimJob(w) PROVE ViewStep
  BY <1>8, ClaimJobView
<1>9. ASSUME NEW w \in Worker, NEW status \in ResultStatus, CompleteJob(w, status) PROVE ViewStep
  BY <1>9, CompleteJobView
<1>10. ASSUME NEW n \in Node, AgentNextJob(n) PROVE ViewStep
  BY <1>10, AgentNextJobView
<1>11. ASSUME NEW n \in Node, NEW status \in ResultStatus, AgentSubmit(n, status) PROVE ViewStep
  BY <1>11, RecoveredUnseen DEF AgentSubmit
<1>12. ASSUME NEW n \in Node, ForceRetireNode(n) PROVE ViewStep
  BY <1>12, ForceRetireNodeView
<1>13. ASSUME NEW n \in Node, loadNodeStaleClaim(n) PROVE ViewStep
  BY <1>13, RecoveredUnseen DEF loadNodeStaleClaim
<1>14. ASSUME NEW n \in Node, NEW k \in Job, RequeueNodeStuckJob(n, k) PROVE ViewStep
  BY <1>14, RequeueView
<1>15. ASSUME NEW i, ForceDeleteInstance(i) PROVE ViewStep
  BY <1>15, ForceDeleteInstanceView
<1>16. ASSUME NEW m \in results, AgentJobResult(m) PROVE ViewStep
  BY <1>16, AgentJobResultView
<1>17. ASSUME NEW m \in results, LoseResult(m) PROVE ViewStep
  BY <1>17, RecoveredUnseen DEF LoseResult
<1>18. ASSUME NEW e \in Executor, Crash(e) PROVE ViewStep
  BY <1>18, RecoveredUnseen DEF Crash
<1>19. CASE Tick
  BY <1>19, TickStepView
<1>20. CASE UNCHANGED vars
  BY <1>20, RecoveredUnseen DEF vars
<1> QED
  BY <1>1, <1>2, <1>3, <1>4, <1>5, <1>6, <1>7, <1>8, <1>9, <1>10, <1>11, <1>12, <1>13,
     <1>14, <1>15, <1>16, <1>17, <1>18, <1>19, <1>20 DEF Next

\* The empty tables are the empty view.
LEMMA InitView == Init => LeaseView!Init
  BY DEF Init, Absent, NoEffect, LeaseView!Init, leasePhases, LeasePhase, leaseKeys, heldKeys, owedEffects

\* The queue implements JobLease for every set of jobs, nodes, workers and job
\* rows and for every lease length: a job ends once, a key excludes until its
\* lease ends, side effects are owed once, whatever crashes, is lost or late.
THEOREM QueueImplementsJobLease == Spec => ImplementsJobLease
<1>1. IInv /\ [Next]_vars => [LeaseView!Next]_(LeaseView!leaseVars)
  BY StepView DEF ViewStep
<1> QED BY <1>1, InitView, Invariance, PTL DEF Spec, ImplementsJobLease, LeaseView!Spec

-----------------------------------------------------------------------------
(***************************************************************************)
(* What JobLease amounts to, for any jobs and resources of its own, and    *)
(* so, by the refinement, what the queue amounts to for whoever relies on  *)
(* it: exclusion by key and side effects of exactly the jobs that are done.*)
(***************************************************************************)
CONSTANTS AnyJob, Resource, NoResource
VARIABLES phase, key, held, owed

Leases == INSTANCE JobLease WITH Job <- AnyJob, Key <- Resource, NoKey <- NoResource

LeaseTyped ==
  /\ phase \in [AnyJob -> {"absent", "waiting", "leased", "done", "cancelled"}]
  /\ key \in [AnyJob -> Resource \cup {NoResource}]
  /\ held \in SUBSET (Resource \X AnyJob)
  /\ owed \in [AnyJob -> {"none", "due", "settled"}]

LeaseInv == LeaseTyped /\ Leases!KeyExclusion /\ Leases!EffectsOfDone

\* A lease takes a key that nobody holds, for the job that needs it.
LEMMA LeaseStep ==
  ASSUME LeaseInv, NEW j \in AnyJob, Leases!Lease(j)
  PROVE  LeaseInv'
<1> USE DEF LeaseInv, LeaseTyped
<1>1. LeaseTyped'
  BY DEF Leases!Lease
<1>2. /\ phase'[j] = "leased" /\ key' = key
      /\ \A i \in AnyJob \ {j} : phase'[i] = phase[i]
      /\ \A h \in held' : h \in held \/ h = <<key[j], j>>
      /\ \A h \in held : h[1] # key[j]
  BY DEF Leases!Lease
<1>3. Leases!KeyExclusion'
  <2>1. ASSUME NEW g \in held', NEW h \in held', g[1] = h[1] PROVE g = h
    BY <1>2, <2>1 DEF Leases!KeyExclusion
  <2>2. ASSUME NEW h \in held' PROVE phase'[h[2]] = "leased" /\ key'[h[2]] = h[1]
    BY <1>2, <2>2 DEF Leases!KeyExclusion
  <2> QED BY <2>1, <2>2 DEF Leases!KeyExclusion
<1>4. Leases!EffectsOfDone'
  BY DEF Leases!Lease, Leases!EffectsOfDone
<1> QED BY <1>1, <1>3, <1>4

\* Whatever a step ends, it takes the keys of the jobs that it ends: a step
\* that leases nothing and keeps the keys of other jobs keeps the exclusion.
LEMMA GivenBack ==
  ASSUME LeaseInv, LeaseTyped', held' \subseteq held,
         \A h \in held' : phase'[h[2]] = "leased" /\ key'[h[2]] = key[h[2]]
  PROVE  Leases!KeyExclusion'
<1>1. ASSUME NEW g \in held', NEW h \in held', g[1] = h[1] PROVE g = h
  BY <1>1 DEF LeaseInv, Leases!KeyExclusion
<1>2. ASSUME NEW h \in held' PROVE phase'[h[2]] = "leased" /\ key'[h[2]] = h[1]
  BY <1>2 DEF LeaseInv, Leases!KeyExclusion
<1> QED BY <1>1, <1>2 DEF Leases!KeyExclusion

\* Every step keeps the invariant.
LEMMA NextLeaseInv == LeaseInv /\ [Leases!Next]_(Leases!leaseVars) => LeaseInv'
<1> SUFFICES ASSUME LeaseInv, [Leases!Next]_(Leases!leaseVars) PROVE LeaseInv'
  OBVIOUS
<1>0. LeaseTyped /\ Leases!EffectsOfDone /\ \A h \in held : h[2] \in AnyJob /\ phase[h[2]] = "leased"
  BY DEF LeaseInv, LeaseTyped, Leases!KeyExclusion
<1>1. ASSUME NEW j \in AnyJob, NEW k \in Resource \cup {NoResource}, Leases!Insert(j, k) PROVE LeaseInv'
  <2>1. LeaseTyped'
    BY <1>0, <1>1 DEF LeaseTyped, Leases!Insert
  <2>2. \A h \in held' : phase'[h[2]] = "leased" /\ key'[h[2]] = key[h[2]]
    BY <1>0, <1>1 DEF LeaseTyped, Leases!Insert
  <2>3. Leases!KeyExclusion'
    BY <1>1, <2>1, <2>2, GivenBack DEF Leases!Insert
  <2>4. Leases!EffectsOfDone'
    BY <1>0, <1>1 DEF LeaseTyped, Leases!EffectsOfDone, Leases!Insert
  <2> QED BY <2>1, <2>3, <2>4 DEF LeaseInv
<1>2. ASSUME NEW j \in AnyJob, Leases!Lease(j) PROVE LeaseInv'
  BY <1>2, LeaseStep
<1>3. ASSUME NEW j \in AnyJob, Leases!End(j) PROVE LeaseInv'
  <2>1. LeaseTyped'
    BY <1>0, <1>3 DEF LeaseTyped, Leases!End
  <2>2. \A h \in held' : phase'[h[2]] = "leased" /\ key'[h[2]] = key[h[2]]
    BY <1>0, <1>3 DEF LeaseTyped, Leases!End, Leases!KeysOf
  <2>3. Leases!KeyExclusion'
    BY <1>3, <2>1, <2>2, GivenBack DEF Leases!End
  <2>4. Leases!EffectsOfDone'
    BY <1>0, <1>3 DEF LeaseTyped, Leases!EffectsOfDone, Leases!End
  <2> QED BY <2>1, <2>3, <2>4 DEF LeaseInv
<1>4. ASSUME NEW j \in AnyJob, Leases!Settle(j) PROVE LeaseInv'
  <2>1. LeaseTyped'
    BY <1>0, <1>4 DEF LeaseTyped, Leases!Settle
  <2>2. Leases!KeyExclusion'
    BY <1>4 DEF Leases!Settle, LeaseInv, Leases!KeyExclusion
  <2>3. Leases!EffectsOfDone'
    BY <1>0, <1>4 DEF LeaseTyped, Leases!EffectsOfDone, Leases!Settle
  <2> QED BY <2>1, <2>2, <2>3 DEF LeaseInv
<1>5. ASSUME NEW J \in SUBSET AnyJob, NEW H \in SUBSET held, Leases!Lapse(J, H) PROVE LeaseInv'
  <2>1. LeaseTyped'
    BY <1>0, <1>5 DEF LeaseTyped, Leases!Lapse
  <2>2. \A h \in held' : phase'[h[2]] = "leased" /\ key'[h[2]] = key[h[2]]
    BY <1>0, <1>5 DEF LeaseTyped, Leases!Lapse, Leases!KeysOf
  <2>3. Leases!KeyExclusion'
    BY <1>5, <2>1, <2>2, GivenBack DEF Leases!Lapse
  <2>4. Leases!EffectsOfDone'
    BY <1>0, <1>5 DEF LeaseTyped, Leases!EffectsOfDone, Leases!Lapse
  <2> QED BY <2>1, <2>3, <2>4 DEF LeaseInv
<1>6. ASSUME NEW J \in SUBSET AnyJob, Leases!Cancel(J) PROVE LeaseInv'
  <2>1. LeaseTyped'
    BY <1>0, <1>6 DEF LeaseTyped, Leases!Cancel
  <2>2. \A h \in held' : phase'[h[2]] = "leased" /\ key'[h[2]] = key[h[2]]
    BY <1>0, <1>6 DEF LeaseTyped, Leases!Cancel, Leases!KeysOf
  <2>3. Leases!KeyExclusion'
    BY <1>6, <2>1, <2>2, GivenBack DEF Leases!Cancel
  <2>4. Leases!EffectsOfDone'
    BY <1>0, <1>6 DEF LeaseTyped, Leases!EffectsOfDone, Leases!Cancel, Leases!Alive
  <2> QED BY <2>1, <2>3, <2>4 DEF LeaseInv
<1>7. ASSUME NEW J \in SUBSET AnyJob, NEW k \in AnyJob, Leases!Replace(J, k) PROVE LeaseInv'
  <2>1. LeaseTyped'
    BY <1>0, <1>7 DEF LeaseTyped, Leases!Replace
  <2>2. \A h \in held' : phase'[h[2]] = "leased" /\ key'[h[2]] = key[h[2]]
    BY <1>0, <1>7 DEF LeaseTyped, Leases!Replace, Leases!KeysOf
  <2>3. Leases!KeyExclusion'
    BY <1>7, <2>1, <2>2, GivenBack DEF Leases!Replace
  <2>4. Leases!EffectsOfDone'
    BY <1>0, <1>7 DEF LeaseTyped, Leases!EffectsOfDone, Leases!Replace, Leases!Alive
  <2> QED BY <2>1, <2>3, <2>4 DEF LeaseInv
<1>8. CASE UNCHANGED Leases!leaseVars
  BY <1>8 DEF Leases!leaseVars, LeaseInv, LeaseTyped, Leases!KeyExclusion, Leases!EffectsOfDone
<1> QED BY <1>1, <1>2, <1>3, <1>4, <1>5, <1>6, <1>7, <1>8 DEF Leases!Next

\* One job at a time holds a key, only while it is leased and only its own; and
\* side effects are owed or settled for exactly the jobs that are done.
THEOREM LeaseSafety == Leases!Spec => [](Leases!KeyExclusion /\ Leases!EffectsOfDone)
<1>1. Leases!Init => LeaseInv
  BY DEF Leases!Init, LeaseInv, LeaseTyped, Leases!KeyExclusion, Leases!EffectsOfDone
<1> QED BY <1>1, NextLeaseInv, PTL DEF Leases!Spec, LeaseInv
=============================================================================
