------------------------------ MODULE JobLease ------------------------------
(***************************************************************************)
(* What the job queue promises, without rows, clocks or processes: a job   *)
(* waits, is leased, and ends once, as done or cancelled; a lease needs    *)
(* the job's key, which one job holds at a time and no job holds without a *)
(* lease; a job that is done owes its side effects exactly once, and a     *)
(* cancelled job never.  JobQueue implements this specification.           *)
(***************************************************************************)
CONSTANTS
  Job,
  Key,    \* the resources that jobs exclude each other from
  NoKey   \* the key of a job that needs none

VARIABLES
  phase,  \* job -> where it stands
  key,    \* job -> the key a lease of it needs
  held,   \* pairs <<key, job>>: the keys that are held, and by which job
  owed    \* job -> its side effects: none, due or settled

leaseVars == <<phase, key, held, owed>>

Alive(j) == phase[j] \in {"waiting", "leased"}

KeysOf(J) == {h \in held : h[2] \in J}

Init ==
  /\ phase = [j \in Job |-> "absent"]
  /\ key = [j \in Job |-> NoKey]
  /\ held = {}
  /\ owed = [j \in Job |-> "none"]

Insert(j, k) ==
  /\ phase[j] = "absent"
  /\ phase' = [phase EXCEPT ![j] = "waiting"]
  /\ key' = [key EXCEPT ![j] = k]
  /\ UNCHANGED <<held, owed>>

\* A lease begins when nobody holds the job's key.
Lease(j) ==
  /\ phase[j] = "waiting"
  /\ \A h \in held : h[1] # key[j]
  /\ phase' = [phase EXCEPT ![j] = "leased"]
  /\ held' = held \cup ({key[j]} \ {NoKey}) \X {j}
  /\ UNCHANGED <<key, owed>>

\* Time takes leases from the jobs J and keys H: a key goes with its lease or
\* before it, never after.
Lapse(J, H) ==
  /\ \A j \in J : phase[j] = "leased"
  /\ KeysOf(J) \subseteq H
  /\ phase' = [j \in Job |-> IF j \in J THEN "waiting" ELSE phase[j]]
  /\ held' = held \ H
  /\ UNCHANGED <<key, owed>>

\* A job ends whether or not its lease has lapsed meanwhile.
End(j) ==
  /\ Alive(j)
  /\ phase' = [phase EXCEPT ![j] = "done"]
  /\ held' = held \ KeysOf({j})
  /\ owed' = [owed EXCEPT ![j] = "due"]
  /\ UNCHANGED key

Cancel(J) ==
  /\ \A j \in J : Alive(j)
  /\ phase' = [j \in Job |-> IF j \in J THEN "cancelled" ELSE phase[j]]
  /\ held' = held \ KeysOf(J)
  /\ UNCHANGED <<key, owed>>

\* The job k takes the place of the jobs J: of one that is cancelled with it,
\* or of none.
Replace(J, k) ==
  /\ \A j \in J : Alive(j)
  /\ phase[k] = "absent"
  /\ phase' = [j \in Job |-> IF j \in J THEN "cancelled" ELSE IF j = k THEN "waiting" ELSE phase[j]]
  /\ held' = held \ KeysOf(J)
  /\ \E c \in Key \cup {NoKey} : key' = [key EXCEPT ![k] = c]
  /\ UNCHANGED owed

Settle(j) ==
  /\ owed[j] = "due"
  /\ owed' = [owed EXCEPT ![j] = "settled"]
  /\ UNCHANGED <<phase, key, held>>

Next ==
  \/ \E j \in Job : \/ \E k \in Key \cup {NoKey} : Insert(j, k)
                    \/ Lease(j)
                    \/ End(j)
                    \/ Settle(j)
  \/ \E J \in SUBSET Job : \/ \E H \in SUBSET held : Lapse(J, H)
                           \/ Cancel(J)
                           \/ \E k \in Job : Replace(J, k)

Spec == Init /\ [][Next]_leaseVars

-----------------------------------------------------------------------------
\* The key of a leased job excludes: one job holds it, its holder is leased,
\* and it is the key that job needs (claimJob's lock rows).
KeyExclusion ==
  /\ \A g, h \in held : g[1] = h[1] => g = h
  /\ \A h \in held : phase[h[2]] = "leased" /\ key[h[2]] = h[1]

\* Side effects belong to jobs that are done, and every job that is done owes
\* them or has settled them (completeJob and applyJobCompletionSideEffects).
EffectsOfDone == \A j \in Job : owed[j] # "none" <=> phase[j] = "done"
=============================================================================
