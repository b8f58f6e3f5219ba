-------------------------- MODULE TrafficAccounting --------------------------
(***************************************************************************)
(* Traffic accounting: the agent of a node reads the absolute counters of  *)
(* its services, submits what they grew by since its last report, and the  *)
(* control plane stores each delta as a row under a sample key.            *)
(*                                                                         *)
(* Sources: cmd/agent/traffic_accounting.go,                               *)
(* internal/infra/postgres/traffic_accounting.go.  A stream is what one    *)
(* client uses of one instance, so it stands for the user, the public key  *)
(* or the common name of a reading.  Time is a clock of report intervals;  *)
(* a second of the sample key is one tick of it.  The server handles one   *)
(* request at a time.                                                      *)
(***************************************************************************)
EXTENDS Integers, FiniteSets, FiniteSetsExt, SequencesExt

CONSTANTS
  Setup,       \* what a node may have: by stream "xray", "wireguard" or "openvpn"
  InstanceOf,  \* by stream: its instance
  MaxBytes,    \* what a stream moves at most
  MaxClock,
  MaxSpan,     \* trafficAccountingMaxBucketSpan
  Retention,   \* domain.TrafficAccountingRetentionDays
  PruneBudget, \* rows one ingest prunes
  MaxFaults

VARIABLES
  kinds,       \* what this node has; it stays so
  used,        \* by stream and direction: bytes moved so far
  counter,     \* what the service counts, from its last start
  base,        \* what the agent has committed, None before the first reading
  last,        \* lastTrafficReportAt, 0 when the agent has just started
  clock,
  net,         \* the request under way and whether the agent waits for it
  rows,        \* traffic_accounting_samples
  access,      \* by stream: the service access is live, revoked or deleted with its client
  instance,    \* by instance: active or deleted
  faults,
  first,       \* by stream: the first reading of an undisturbed stream
  pruned,      \* by stream and direction: bytes of the rows that were pruned
  spoiled,     \* streams of which a reset, a restart or a rejection loses bytes
  doubted      \* an answer was lost after rows had been stored

vars == <<kinds, used, counter, base, last, clock, net, rows, access, instance, faults,
          first, pruned, spoiled, doubted>>

Stream == DOMAIN kinds
Direction == {"rx", "tx"}
Instances == {InstanceOf[s] : s \in Stream}
None == -1
Zero == [d \in Direction |-> 0]
NoBase == [d \in Direction |-> None]
Idle == [stage |-> "idle", samples |-> <<>>, readings |-> <<>>, at |-> 0, waits |-> FALSE]

Init ==
  /\ kinds \in Setup
  /\ used = [s \in Stream |-> Zero]
  /\ counter = [s \in Stream |-> Zero]
  /\ base = [s \in Stream |-> NoBase]
  /\ last = 0
  /\ clock = 1
  /\ net = Idle
  /\ rows = {}
  /\ access = [s \in Stream |-> "active"]
  /\ instance = [i \in Instances |-> "active"]
  /\ faults = 0
  /\ first = [s \in Stream |-> NoBase]
  /\ pruned = [s \in Stream |-> Zero]
  /\ spoiled = {}
  /\ doubted = FALSE

Fault == faults < MaxFaults /\ faults' = faults + 1

-----------------------------------------------------------------------------
(***************************************************************************)
(* The services.                                                           *)
(***************************************************************************)
Use ==
  /\ \E s \in Stream, d \in Direction :
       /\ used[s]["rx"] + used[s]["tx"] < MaxBytes
       /\ instance[InstanceOf[s]] = "active"
       /\ used' = [used EXCEPT ![s][d] = @ + 1]
       /\ counter' = [counter EXCEPT ![s][d] = @ + 1]
  /\ UNCHANGED <<base, last, clock, net, rows, access, instance, faults, first, pruned, spoiled, doubted>>

\* A restart of the service, or a client that connects again, counts from zero.
CounterReset ==
  /\ Fault
  /\ \E s \in Stream : /\ counter' = [counter EXCEPT ![s] = Zero]
                       /\ spoiled' = spoiled \cup {s}
  /\ UNCHANGED <<used, base, last, clock, net, rows, access, instance, first, pruned, doubted>>

Tick ==
  /\ clock < MaxClock
  /\ clock' = clock + 1
  /\ UNCHANGED <<used, counter, base, last, net, rows, access, instance, faults, first, pruned, spoiled, doubted>>

\* RevokeClient and DeleteClient, and the deletion of an instance.
AccessEnds ==
  /\ Fault
  /\ \/ \E s \in Stream, a \in {"revoked", "deleted"} :
          access[s] = "active" /\ access' = [access EXCEPT ![s] = a] /\ UNCHANGED instance
     \/ \E i \in Instances :
          instance[i] = "active" /\ instance' = [instance EXCEPT ![i] = "deleted"] /\ UNCHANGED access
  /\ UNCHANGED <<used, counter, base, last, clock, net, rows, first, pruned, spoiled, doubted>>

-----------------------------------------------------------------------------
(***************************************************************************)
(* The agent: reportTrafficAccounting.                                     *)
(***************************************************************************)
\* The targets the three collectors read: those of instances that are to run.
\* A collector may fail for an instance, whose streams are then not read.
targets(failing) == {s \in Stream : /\ instance[InstanceOf[s]] # "deleted"
                                    /\ InstanceOf[s] \notin failing}

\* xrayTrafficAccountingSamples: each direction by itself.
xrayDelta(s) ==
  [d \in Direction |-> IF base[s][d] = None \/ counter[s][d] < base[s][d] THEN 0
                       ELSE counter[s][d] - base[s][d]]

\* wireGuardTrafficAccountingSamples, openVPNTrafficAccountingSamples: a
\* direction that went back, or has no baseline, leaves out both.
bothDelta(s) ==
  IF \E d \in Direction : base[s][d] = None \/ counter[s][d] < base[s][d] THEN Zero
  ELSE [d \in Direction |-> counter[s][d] - base[s][d]]

\* A wrong form: a stream that was never read has counted from zero.
deltaFromZero(s) ==
  [d \in Direction |-> IF counter[s][d] < base[s][d] THEN 0
                       ELSE IF base[s][d] = None THEN counter[s][d] ELSE counter[s][d] - base[s][d]]

delta(s) == IF kinds[s] = "xray" THEN xrayDelta(s) ELSE bothDelta(s)

bucketStart == IF last = 0 THEN clock - 1 ELSE last

sample(s) == [key |-> <<s, clock>>, s |-> s, start |-> bucketStart, end |-> clock, bytes |-> delta(s)]

\* commit...TrafficReadings.
committed(readings) == [s \in Stream |-> IF s \in DOMAIN readings THEN readings[s] ELSE base[s]]

firstRead(readings) ==
  [s \in Stream |-> IF s \in DOMAIN readings /\ first[s] = NoBase THEN readings[s] ELSE first[s]]

Report ==
  /\ net = Idle
  /\ last = 0 \/ clock - last >= 1
  /\ \E failing \in SUBSET Instances :
       LET read == targets(failing)
           readings == [s \in read |-> counter[s]]
           samples == {sample(s) : s \in {t \in read : delta(t) # Zero}}
       IN  /\ IF failing = {} THEN UNCHANGED faults ELSE Fault
           /\ IF samples = {}
              THEN /\ base' = IF failing # {} /\ read = {} THEN base ELSE committed(readings)
                   /\ first' = IF failing # {} /\ read = {} THEN first ELSE firstRead(readings)
                   /\ last' = clock
                   /\ UNCHANGED net
              ELSE /\ net' = [stage |-> "sent", samples |-> SetToSeq(samples), readings |-> readings,
                              at |-> clock, waits |-> TRUE]
                   /\ UNCHANGED <<base, first, last>>
  /\ UNCHANGED <<used, counter, clock, rows, access, instance, pruned, spoiled, doubted>>

\* The readings become the baseline only with the answer.
Answered ==
  /\ net.stage = "answered"
  /\ IF net.waits
     THEN base' = committed(net.readings) /\ first' = firstRead(net.readings) /\ last' = net.at
     ELSE UNCHANGED <<base, first, last>>
  /\ net' = Idle
  /\ UNCHANGED <<used, counter, clock, rows, access, instance, faults, pruned, spoiled, doubted>>

\* The request does not arrive: the agent keeps its baseline and tries again.
RequestLost ==
  /\ Fault
  /\ net.stage = "sent"
  /\ net' = Idle
  /\ UNCHANGED <<used, counter, base, last, clock, rows, access, instance, first, pruned, spoiled, doubted>>

\* The agent gives up waiting while the server goes on.
AnswerLost ==
  /\ Fault
  /\ net.stage # "idle" /\ net.waits
  /\ net' = [net EXCEPT !.waits = FALSE]
  /\ doubted' = TRUE
  /\ UNCHANGED <<used, counter, base, last, clock, rows, access, instance, first, pruned, spoiled>>

AgentCrash ==
  /\ Fault
  /\ base' = [s \in Stream |-> NoBase]
  /\ last' = 0
  /\ net' = [net EXCEPT !.waits = FALSE]
  /\ spoiled' = Stream
  /\ UNCHANGED <<used, counter, clock, rows, access, instance, first, pruned, doubted>>

-----------------------------------------------------------------------------
(***************************************************************************)
(* The control plane: SubmitAgentTrafficAccountingSamples.                 *)
(***************************************************************************)
\* normalizeTrafficAccountingSample: refused for its span, for an instance
\* that is gone, or for the access a WireGuard peer names.
refused(x) ==
  \/ x.end - x.start > MaxSpan
  \/ instance[InstanceOf[x.s]] = "deleted"
  \/ kinds[x.s] = "wireguard" /\ access[x.s] # "active"

\* Whose row it is: an access that is gone leaves the client its name finds,
\* and a client that is gone leaves nobody.
attributed(x) == IF access[x.s] = "deleted" THEN "nobody" ELSE "client"

\* A wrong form: a row that is there stays as it is.
inserted(x) ==
  IF \E r \in rows : r.key = x.key THEN rows
  ELSE rows \cup {[key |-> x.key, s |-> x.s, bytes |-> x.bytes, client |-> attributed(x), received |-> clock]}

\* upsertTrafficAccountingSample, on conflict of the sample key.
upserted(x) ==
  {r \in rows : r.key # x.key} \cup
  {[key |-> x.key, s |-> x.s, bytes |-> x.bytes, client |-> attributed(x), received |-> clock]}

IngestSample ==
  LET x == Head(net.samples)
  IN  /\ net.stage \in {"sent", "stored"} /\ net.samples # <<>>
      /\ net' = [net EXCEPT !.stage = "stored", !.samples = Tail(@)]
      /\ IF refused(x) THEN UNCHANGED rows /\ spoiled' = spoiled \cup {x.s}
         ELSE rows' = upserted(x) /\ UNCHANGED spoiled
      /\ UNCHANGED <<used, counter, base, last, clock, access, instance, faults, first, pruned, doubted>>

\* The statement fails; what was stored before it stays, the agent has an error.
IngestFails ==
  /\ Fault
  /\ net.stage \in {"sent", "stored"} /\ net.samples # <<>>
  /\ net' = Idle
  /\ doubted' = TRUE
  /\ UNCHANGED <<used, counter, base, last, clock, rows, access, instance, first, pruned, spoiled>>

cutoff == clock - Retention
expired == {r \in rows : r.received < cutoff}

\* pruneTrafficAccountingSamples: the oldest of the expired rows, up to the budget.
prunable ==
  IF Cardinality(expired) <= PruneBudget THEN expired
  ELSE CHOOSE P \in kSubset(PruneBudget, expired) :
         \A r \in P, q \in expired \ P : r.received <= q.received

bytesOf(R, s, d) == MapThenSumSet(LAMBDA r : IF r.s = s THEN r.bytes[d] ELSE 0, R)

IngestEnds ==
  /\ net.stage = "stored" /\ net.samples = <<>>
  /\ net' = [net EXCEPT !.stage = "answered"]
  /\ rows' = rows \ prunable
  /\ pruned' = [s \in Stream |-> [d \in Direction |-> pruned[s][d] + bytesOf(prunable, s, d)]]
  /\ UNCHANGED <<used, counter, base, last, clock, access, instance, faults, first, spoiled, doubted>>

Next ==
  /\ UNCHANGED kinds
  /\ \/ Use \/ CounterReset \/ Tick \/ AccessEnds
     \/ Report \/ Answered \/ RequestLost \/ AnswerLost \/ AgentCrash
     \/ IngestSample \/ IngestFails \/ IngestEnds

-----------------------------------------------------------------------------
(***************************************************************************)
(* What the overview shows.                                                *)
(***************************************************************************)
\* trafficAccountingFilterWhere: reads see no row past its retention.
visible == {r \in rows : r.received >= cutoff}

activeInstances(kind) == {i \in Instances : /\ instance[i] = "active"
                                            /\ \E s \in Stream : InstanceOf[s] = i /\ kinds[s] = kind}
observedInstances(kind) == {InstanceOf[r.s] : r \in {q \in visible : kinds[q.s] = kind}}

\* A wrong form: coverage plays no part.
statusByAge(age, missing) == IF age \in 0..1 THEN "active" ELSE "inactive"

\* trafficAccountingCollectorStatus, with windows of one and two ticks.
trafficAccountingCollectorStatus(age, missing) ==
  IF age = None THEN IF missing > 0 THEN "missing" ELSE "inactive"
  ELSE IF age \in 0..1 THEN IF missing > 0 THEN "degraded" ELSE "active"
  ELSE IF age = 2 THEN "degraded" ELSE "inactive"

collectorStatus(kind) ==
  LET mine == {r \in visible : kinds[r.s] = kind}
      age == IF mine = {} THEN None ELSE clock - Max({r.received : r \in mine})
      missing == Cardinality(activeInstances(kind)) - Cardinality(observedInstances(kind))
  IN  trafficAccountingCollectorStatus(age, missing)

-----------------------------------------------------------------------------
(***************************************************************************)
(* Properties.                                                             *)
(***************************************************************************)
Stored(s, d) == bytesOf(rows, s, d) + pruned[s][d]

\* No byte is stored twice, whatever restarts and is refused or sent again, as
\* long as no answer is lost: what is stored of a stream never exceeds what
\* moved (the baselines and the deltas of reportTrafficAccounting).
NoOvercount == ~doubted => \A s \in Stream, d \in Direction : Stored(s, d) <= used[s][d]

\* No byte is lost of a stream whose service, agent and access stay: what the
\* agent has committed is stored, lost requests and answers included.
NothingLost ==
  \A s \in Stream \ spoiled : first[s] # NoBase =>
    \A d \in Direction : base[s][d] # None => Stored(s, d) >= base[s][d] - first[s][d]

\* A collector that shows as active has a row of each instance it is to cover,
\* as long as no instance was deleted.
ActiveMeansObserved ==
  (\A i \in Instances : instance[i] = "active") =>
    \A kind \in {"xray", "wireguard", "openvpn"} :
      collectorStatus(kind) = "active" => activeInstances(kind) \subseteq observedInstances(kind)

\* docs/TRAFFIC_ACCOUNTING.md: sending a sample again updates its row instead of
\* duplicating it.
ResendIsIdempotent == \A s \in Stream, d \in Direction : Stored(s, d) <= used[s][d]

Spec == Init /\ [][Next]_vars
=============================================================================
