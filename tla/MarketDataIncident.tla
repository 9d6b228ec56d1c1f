------------------------- MODULE MarketDataIncident -------------------------
(***************************************************************************)
(* MarketDataIncidentTracker: one incident per instrument, identified by a  *)
(* fingerprint of what is wrong; announced when it opens, when its reason   *)
(* changes and when it has recovered for RecoveryThreshold observations in  *)
(* a row.  The state survives a restart in a file that is written behind    *)
(* the cycle's back, one queued snapshot after the other.                   *)
(***************************************************************************)
EXTENDS Integers, Sequences, SequencesExt

CONSTANTS
  Instrument,
  Fingerprint,          \* what can be wrong with an instrument's candles
  Healthy,              \* no incident: not a Fingerprint
  RecoveryThreshold,    \* consecutive healthy cycles that end an incident
  MaxQueue              \* bound on the writes that wait for the disk

ASSUME HealthyAssumption   == Healthy \notin Fingerprint
ASSUME ThresholdAssumption == RecoveryThreshold \in Nat \ {0}

VARIABLES
  incident,    \* ActiveIncidentRecord.fingerprint, or Healthy
  count,       \* its consecutiveHealthyCount
  file,        \* the persisted snapshot
  queue,       \* snapshots scheduled on pendingPersist
  announce,    \* transitions of this cycle still to be announced
  told,        \* what the operator was last told of each instrument
  streak,      \* healthy observations in a row, as the world sees them
  past         \* history: which kinds of disturbance have happened so far

trackerVars == <<incident, count>>
vars == <<incident, count, file, queue, announce, told, streak, past>>

Observation == Fingerprint \cup {Healthy}
Records == [incident : [Instrument -> Observation],
            count    : [Instrument -> 0 .. RecoveryThreshold - 1]]
\* Only an incident has a healthy count, and it ends before it gets to the threshold.
Snapshot == { s \in Records : \A i \in Instrument : s.incident[i] = Healthy => s.count[i] = 0 }
Kind == { "opened", "changed", "recovered" }
\* A graceful restart, a crash, a write that failed.
Disturbance == { "restart", "crash", "lost" }
Announcement == [kind : Kind, instrument : Instrument, fingerprint : Observation]

TypeOK ==
  /\ [incident |-> incident, count |-> count] \in Snapshot
  /\ file \in Snapshot
  /\ queue \in Seq(Snapshot)
  /\ announce \subseteq Announcement
  /\ told \in [Instrument -> Observation]
  /\ streak \in [Instrument -> 0 .. RecoveryThreshold]
  /\ past \subseteq Disturbance

Nothing == [incident |-> [i \in Instrument |-> Healthy], count |-> [i \in Instrument |-> 0]]

Init ==
  /\ incident = Nothing.incident /\ count = Nothing.count
  /\ file = Nothing /\ queue = <<>>
  /\ announce = {} /\ told = Nothing.incident
  /\ streak = Nothing.count
  /\ past = {}

-----------------------------------------------------------------------------
(* recordCycleObservations *)

\* Has i recovered with this observation?
Recovers(i, o) == o = Healthy /\ incident[i] # Healthy /\ count[i] + 1 >= RecoveryThreshold

\* Mutant: one healthy observation is enough.
RecoversAtOnce(i, o) == o = Healthy /\ incident[i] # Healthy

IncidentAfter(i, o) ==
  IF o # Healthy THEN o ELSE IF Recovers(i, o) THEN Healthy ELSE incident[i]

\* Mutant: an invalid observation leaves the healthy count as it was.
CountKept(i, o) ==
  IF o = Healthy /\ incident[i] # Healthy /\ ~Recovers(i, o) THEN count[i] + 1 ELSE count[i]

CountAfter(i, o) ==
  IF o = Healthy /\ incident[i] # Healthy /\ ~Recovers(i, o) THEN count[i] + 1 ELSE 0

Transition(i, o) ==
  IF o = Healthy THEN IF Recovers(i, o) THEN {"recovered"} ELSE {}
  ELSE IF incident[i] = Healthy THEN {"opened"}
  ELSE IF o # incident[i] THEN {"changed"} ELSE {}

\* Mutants: a new reason is not written; progress towards recovery is not.
WorthWritingOnceOpened(obs) ==
  \E i \in Instrument : (obs[i] = Healthy /\ incident[i] # Healthy) \/ Transition(i, obs[i]) = {"opened"}

WorthWritingTransitions(obs) == \E i \in Instrument : Transition(i, obs[i]) # {}

\* A snapshot is scheduled for every transition and for progress towards
\* recovery, but not when an incident is merely observed again.
WorthWriting(obs) ==
  \E i \in Instrument : (obs[i] = Healthy /\ incident[i] # Healthy) \/ Transition(i, obs[i]) # {}

Observe(obs) ==
  LET after == [incident |-> [i \in Instrument |-> IncidentAfter(i, obs[i])],
                count    |-> [i \in Instrument |-> CountAfter(i, obs[i])]]
  IN  /\ announce = {}
      /\ WorthWriting(obs) => Len(queue) < MaxQueue
      /\ incident' = after.incident /\ count' = after.count
      /\ queue' = IF WorthWriting(obs) THEN Append(queue, after) ELSE queue
      /\ announce' = { a \in Announcement :
                         /\ a.kind \in Transition(a.instrument, obs[a.instrument])
                         /\ a.fingerprint = after.incident[a.instrument] }
      /\ streak' = [i \in Instrument |->
                      IF obs[i] # Healthy THEN 0
                      ELSE IF streak[i] < RecoveryThreshold THEN streak[i] + 1 ELSE streak[i]]
      /\ UNCHANGED <<file, told, past>>

-----------------------------------------------------------------------------
(* recordMarketDataIncidentState: one message per kind, in this order *)

Before(k) == CASE k = "opened" -> {} [] k = "changed" -> {"opened"} [] OTHER -> {"opened", "changed"}

Announce(k) ==
  LET due == { a \in announce : a.kind = k }
  IN  /\ due # {} /\ \A a \in announce : a.kind \notin Before(k)
      /\ told' = [i \in Instrument |->
                    IF \E a \in due : a.instrument = i
                    THEN (CHOOSE a \in due : a.instrument = i).fingerprint ELSE told[i]]
      /\ announce' = announce \ due
      /\ UNCHANGED <<trackerVars, file, queue, streak, past>>

-----------------------------------------------------------------------------
(* The file *)

\* The next scheduled snapshot replaces the file as a whole, or is given up.
Write ==
  /\ queue # <<>>
  /\ \/ file' = Head(queue) /\ UNCHANGED past
     \/ UNCHANGED file /\ past' = past \cup {"lost"}
  /\ queue' = Tail(queue)
  /\ UNCHANGED <<trackerVars, announce, told, streak>>

\* stop() lets the cycle finish and flushes the queue; start() loads the file.
Load ==
  /\ incident' = file.incident
  /\ count' = file.count

Restart ==
  /\ queue = <<>> /\ announce = {}
  /\ Load
  /\ past' = past \cup {"restart"}
  /\ UNCHANGED <<file, queue, announce, told, streak>>

Crash ==
  /\ Load
  /\ queue' = <<>> /\ announce' = {}
  /\ past' = past \cup {"crash"}
  /\ UNCHANGED <<file, told, streak>>

-----------------------------------------------------------------------------
Next ==
  \/ \E obs \in [Instrument -> Observation] : Observe(obs)
  \/ \E k \in Kind : Announce(k)
  \/ Write \/ Restart \/ Crash

Spec == Init /\ [][Next]_vars

\* A cycle finishes what it announces, the disk gets to every write, and the
\* cycles never stop observing.
Fairness ==
  /\ \A k \in Kind : WF_vars(Announce(k))
  /\ WF_vars(Write)
  /\ WF_vars(\E obs \in [Instrument -> Observation] : Observe(obs))

FairSpec == Spec /\ Fairness

-----------------------------------------------------------------------------
\* Nothing worse than graceful restarts has happened.
Orderly == past \subseteq {"restart"}

\* Once a cycle has announced what it found, the operator has been told exactly
\* the incident the tracker holds: across graceful restarts no incident is
\* silently forgotten, silently changed or silently closed.
OperatorInformed == Orderly => (announce = {} => told = incident)

\* The operator hears of an incident as new only when the last thing they were
\* told is that the instrument is healthy, and of a change only when it is one:
\* an unchanged condition is never announced again, restarts included.
NoRepeatedAnnouncement ==
  Orderly =>
    \A a \in announce :
      /\ a.kind = "opened" => told[a.instrument] = Healthy
      /\ a.kind = "changed" => told[a.instrument] \notin {Healthy, a.fingerprint}
      /\ a.kind = "recovered" => told[a.instrument] # Healthy

Earned(a) == a.kind = "recovered" => streak[a.instrument] >= RecoveryThreshold

\* Within one process an incident ends only after RecoveryThreshold healthy
\* observations in a row, whatever the disk does (recordCycleObservations).
RecoveryEarned == past \subseteq {"lost"} => \A a \in announce : Earned(a)

\* "A single anomalous successful fetch never clears an incident on its own"
\* (DEFAULT_MARKET_DATA_INCIDENT_RECOVERY_THRESHOLD), restarts included.
SingleFetchNeverClears == Orderly => \A a \in announce : Earned(a)

\* While no write has been lost, what the file will say once the scheduled ones
\* are done is the incident the tracker holds: a restart resumes it, even one
\* that interrupts the writes.
WillPersist ==
  "lost" \notin past => (IF queue = <<>> THEN file ELSE Last(queue)).incident = incident

\* An instrument that stays healthy is announced as recovered, however often
\* the process is restarted meanwhile (the write of recovery-pending progress).
HealthyIsAnnounced ==
  []Orderly => \A i \in Instrument : <>[](streak[i] > 0) => <>[](told[i] = Healthy)

\* An incident survives a restart and is announced once: WillPersist and
\* NoRepeatedAnnouncement.
IncidentIsKept == WillPersist /\ NoRepeatedAnnouncement
=============================================================================
