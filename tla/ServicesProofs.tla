--------------------------- MODULE ServicesProofs ---------------------------
(***************************************************************************)
(* Proofs about the services around the trading cycle that share no state   *)
(* with each other: RuntimeControl (its type, the one pending timer, the    *)
(* idleness of a stopped runtime, when a cycle may begin), DailySummary (no *)
(* evening is reported twice, or marked without having been reported),      *)
(* OpposingStability (any positions, holding time and number of confirma-   *)
(* tions), MarketDataIncident (any instruments and fingerprints: what the   *)
(* operator knows, what the file will hold, what a recovery took),          *)
(* MarketUniverse (any listings, prices and batch size: what is eligible,   *)
(* that a run which wrote all it had to follows the listing), HermesScan    *)
(* (any universe, agent and limits: what a scan selects and phase B uses),  *)
(* Acquisition (any months, publications, damage and crashes: datasets hold *)
(* published archives only), AlertTrail (any writers, events, failures and  *)
(* crashes: what record() acknowledged is in the file, the operator hears   *)
(* of nothing that is not there, and unless the process dies a trade is     *)
(* told or the trail says that telling failed) and PaperExecution (any      *)
(* strategies, fixtures, cash, limits and failing writes: the paper account *)
(* of the fixture replay is sound).                                         *)
(***************************************************************************)
EXTENDS RuntimeControl, DailySummary, OpposingStability, MarketDataIncident, MarketUniverse,
        HermesScan, Acquisition, AlertTrail, PaperExecution, FiniteSetTheorems, SequenceTheorems,
        WellFoundedInduction, TLAPS


-----------------------------------------------------------------------------
(* RuntimeControl *)

\* The type of the runtime's state is invariant.
THEOREM RuntimeTypeCorrect == RuntimeSpec => []RuntimeTypeOK
<1>1. RuntimeInit => RuntimeTypeOK
  <2> SUFFICES ASSUME RuntimeInit PROVE RuntimeTypeOK
    OBVIOUS
  <2>1. timers \in Nat
    BY DEF RuntimeInit
  <2>2. polling \in BOOLEAN /\ timedOut \in BOOLEAN
    BY Zenon DEF RuntimeInit
  <2> QED  BY <2>1, <2>2 DEF RuntimeInit, RuntimeTypeOK, RuntimeState
<1>2. RuntimeTypeOK /\ [RuntimeNext]_runtimeVars => RuntimeTypeOK'
  <2> SUFFICES ASSUME RuntimeTypeOK, [RuntimeNext]_runtimeVars PROVE RuntimeTypeOK'
    OBVIOUS
  <2> USE DEF RuntimeTypeOK, RuntimeState
  <2>1. CASE Start  BY <2>1 DEF Start
  <2>2. CASE StartScheduler  BY <2>2 DEF StartScheduler
  <2>3. CASE Tick  BY <2>3 DEF Tick, Attempt
  <2>4. CASE CycleEnds  BY <2>4 DEF CycleEnds
  <2>5. CASE Pause  BY <2>5 DEF Pause
  <2>6. CASE Resume  BY <2>6 DEF Resume
  <2>7. CASE RunNow  BY <2>7 DEF RunNow, Attempt
  <2>8. CASE Reply \/ LoopEnds  BY <2>8 DEF Reply, LoopEnds
  <2>9. CASE Stop  BY <2>9 DEF Stop
  <2>10. CASE Shutdown  BY <2>10 DEF Shutdown, AwaitCycle, Stopped, StopReturns, Exit
  <2>11. CASE RuntimeRestart  BY <2>11 DEF RuntimeRestart
  <2>12. CASE UNCHANGED runtimeVars  BY <2>12 DEF runtimeVars
  <2> QED  BY <2>1, <2>2, <2>3, <2>4, <2>5, <2>6, <2>7, <2>8, <2>9, <2>10, <2>11, <2>12 DEF RuntimeNext, Command
<1> QED  BY <1>1, <1>2, PTL DEF RuntimeSpec

-----------------------------------------------------------------------------
\* Where the shutdown is determines which states the runtime can be in: only the
\* Telegram loop, which outlives stop(), can make a STOPPED runtime RUNNING again.
StateFits ==
  /\ boot = "new" => state = "STOPPED" /\ bot = "off" /\ cycle = "none"
  /\ boot # "ready" => shutdown = "no"
  /\ boot # "new" /\ shutdown = "no" => state \in {"RUNNING", "PAUSED"}
  /\ shutdown \in {"cycle", "flush"} => state = "STOPPING"
  /\ shutdown \in {"audit", "bot", "exited"} => state # "STOPPING"

\* What stop() waited for is over, unless it gave up.
NothingAbandoned ==
  ~timedOut /\ (shutdown = "flush" \/ (shutdown # "no" /\ state = "STOPPED")) => cycle = "none"

\* The inductive invariant behind the properties.
RuntimeInv == RuntimeTypeOK /\ StateFits /\ OnePendingTimer /\ NothingAbandoned

\* Every step keeps the fit of state, shutdown and timer.
LEMMA RuntimeInvStep == RuntimeInv /\ [RuntimeNext]_runtimeVars /\ RuntimeTypeOK' => RuntimeInv'
<1> SUFFICES ASSUME RuntimeInv, [RuntimeNext]_runtimeVars, RuntimeTypeOK' PROVE (StateFits /\ OnePendingTimer /\ NothingAbandoned)'
  BY DEF RuntimeInv
<1> USE DEF RuntimeInv, Listening, RuntimeTypeOK, RuntimeState, StateFits, OnePendingTimer, NothingAbandoned, May, ValidRuntimeTransitions
<1>1. CASE Start  BY <1>1 DEF Start
<1>2. CASE StartScheduler  BY <1>2 DEF StartScheduler
<1>3. CASE Tick  BY <1>3 DEF Tick, Attempt
<1>4. CASE CycleEnds  BY <1>4 DEF CycleEnds
<1>5. CASE Pause  BY <1>5 DEF Pause
<1>6. CASE Resume  BY <1>6 DEF Resume
<1>7. CASE RunNow  BY <1>7 DEF RunNow, Attempt
<1>8. CASE Reply \/ LoopEnds  BY <1>8 DEF Reply, LoopEnds
<1>9. CASE Stop  BY <1>9 DEF Stop
<1>10. CASE AwaitCycle  BY <1>10 DEF AwaitCycle
<1>11. CASE Stopped  BY <1>11 DEF Stopped
<1>12. CASE StopReturns \/ Exit  BY <1>12 DEF StopReturns, Exit
<1>13. CASE RuntimeRestart  BY <1>13 DEF RuntimeRestart
<1>14. CASE UNCHANGED runtimeVars  BY <1>14 DEF runtimeVars
<1> QED
  BY <1>1, <1>2, <1>3, <1>4, <1>5, <1>6, <1>7, <1>8, <1>9, <1>10, <1>11, <1>12, <1>13, <1>14
  DEF RuntimeNext, Command, Shutdown

\* The inductive invariant holds of every behaviour of the runtime.
LEMMA RuntimeInvariant == RuntimeSpec => []RuntimeInv
<1>1. RuntimeInit => StateFits /\ OnePendingTimer /\ NothingAbandoned
  BY DEF RuntimeInit, StateFits, OnePendingTimer, NothingAbandoned
<1> QED  BY <1>1, RuntimeInvStep, RuntimeTypeCorrect, PTL DEF RuntimeSpec, RuntimeInv

\* However commands, ticks, cycles and signals are ordered, the scheduler has exactly one
\* timer from the end of start() to stop(), and a runtime that reports STOPPED without
\* having timed out has no cycle left (TradingScheduler, stop()).
THEOREM RuntimeStaysOrderly == RuntimeSpec => []RuntimeIsOrderly
<1>1. RuntimeInv => RuntimeIsOrderly
  BY DEF RuntimeInv, RuntimeTypeOK, RuntimeIsOrderly, OnePendingTimer, StoppedMeansIdle, StateFits, NothingAbandoned
<1> QED  BY <1>1, RuntimeInvariant, PTL

\* No cycle begins unless the runtime is RUNNING (attemptCycle, which itself only looks for
\* PAUSED: the rest follows from the timer and from what runNow refuses).
THEOREM CyclesBeginRunning == RuntimeSpec => CyclesOnlyWhileRunning
<1>1. RuntimeInv /\ [RuntimeNext]_runtimeVars => [cycle = "none" /\ cycle' # "none" => state = "RUNNING"]_runtimeVars
  <2> SUFFICES ASSUME RuntimeInv, RuntimeNext, cycle = "none", cycle' # "none" PROVE state = "RUNNING"
    OBVIOUS
  <2>1. Tick \/ RunNow
    BY DEF RuntimeNext, Command, Shutdown, Start, StartScheduler, CycleEnds, Pause, Resume, Reply,
           LoopEnds, Stop, AwaitCycle, Stopped, StopReturns, Exit, RuntimeRestart
  <2>2. CASE Tick
    BY <2>2 DEF Tick, Attempt, RuntimeInv, RuntimeTypeOK, StateFits, OnePendingTimer
  <2>3. CASE RunNow
    BY <2>3 DEF RunNow, Attempt, RuntimeInv, RuntimeTypeOK, RuntimeState
  <2> QED  BY <2>1, <2>2, <2>3
<1> QED  BY <1>1, RuntimeInvariant, PTL DEF RuntimeSpec, CyclesOnlyWhileRunning

-----------------------------------------------------------------------------
(* DailySummary *)

\* What maybeSend knows at each of its awaits.
Inside ==
  /\ pc \in {"sending", "sent", "recorded"} => today \in Day
  /\ pc \in {"sent", "recorded"} => delivered[today] > 0

\* While nothing has failed but reads and sends: no day is reported in advance, and a day
\* that was reported is known to the file, or about to be.
Known ==
  summaryPast = {} =>
    /\ \A d \in Day : d > day => delivered[d] = 0
    /\ \A d \in Day : delivered[d] <= 1
    /\ pc = "sending" => delivered[today] = 0 /\ delivered[day] = 0
    /\ pc \in {"sent", "recorded"} /\ delivered[day] > 0 => today = day
    /\ pc = "idle" /\ delivered[day] > 0 => summaryFile = day /\ cached \in {Unread, day}

\* The inductive invariant.
SummaryInv == SummaryTypeOK /\ today <= day /\ Inside /\ MarkedMeansSent /\ Known

\* The service starts with values of their types.
LEMMA SummaryInitTyped == ASSUME MaxDay \in Nat \ {0}, SummaryInit PROVE SummaryTypeOK
<1>1. evening \in BOOLEAN
  BY Zenon DEF SummaryInit
<1> QED  BY <1>1 DEF SummaryInit, SummaryTypeOK, Day, Never, Unread, ManySends, Fault

\* The state of the service has its type, for any number of days.
THEOREM SummaryTypeCorrect == ASSUME MaxDay \in Nat \ {0} PROVE SummarySpec => []SummaryTypeOK
<1> USE DEF SummaryTypeOK, Day, Never, Unread, ManySends, Fault
<1>1. SummaryInit => SummaryTypeOK
  BY SummaryInitTyped
<1>2. SummaryTypeOK /\ [SummaryNext]_summaryVars => SummaryTypeOK'
  <2> SUFFICES ASSUME SummaryTypeOK, [SummaryNext]_summaryVars PROVE SummaryTypeOK'
    OBVIOUS
  <2>1. CASE Clock
    <3>1. evening' \in BOOLEAN
      BY <2>1, Zenon DEF Clock
    <3> QED  BY <2>1, <3>1 DEF Clock
  <2>2. CASE Check  BY <2>2 DEF Check, LoadDate
  <2>3. CASE Deliver \/ DeliverUnanswered
    <3>1. today \in Day => delivered' \in [Day -> 0 .. ManySends]
      BY <2>3 DEF Deliver, DeliverUnanswered, Received
    <3>2. today \notin Day => delivered' = delivered
      BY <2>3 DEF Deliver, DeliverUnanswered, Received
    <3> QED  BY <2>3, <3>1, <3>2 DEF Deliver, DeliverUnanswered
  <2>4. CASE NotDelivered \/ Record  BY <2>4 DEF NotDelivered, Record
  <2>5. CASE Save  BY <2>5 DEF Save
  <2>6. CASE SummaryRestart \/ SummaryCrash  BY <2>6 DEF SummaryRestart, SummaryCrash
  <2>7. CASE UNCHANGED summaryVars  BY <2>7 DEF summaryVars
  <2> QED  BY <2>1, <2>2, <2>3, <2>4, <2>5, <2>6, <2>7 DEF SummaryNext
<1> QED  BY <1>1, <1>2, PTL DEF SummarySpec

\* Every step keeps what the summary service knows of the evenings it reported.
LEMMA SummaryInvStep ==
  ASSUME MaxDay \in Nat \ {0}, SummaryInv, [SummaryNext]_summaryVars, SummaryTypeOK'
  PROVE  SummaryInv'
<1> USE DEF SummaryInv, SummaryTypeOK, Day, Never, Unread, ManySends, Inside, MarkedMeansSent, Known
<1>1. CASE Clock  BY <1>1 DEF Clock
<1>2. CASE Check  BY <1>2 DEF Check, LoadDate
<1>3. CASE Deliver
  <2>1. today \in Day /\ delivered'[today] > 0
    BY <1>3 DEF Deliver, Received
  <2>2. \A d \in Day : d # today => delivered'[d] = delivered[d]
    BY <1>3 DEF Deliver, Received
  <2>3. delivered[today] = 0 => delivered'[today] = 1
    BY <1>3 DEF Deliver, Received
  <2> QED  BY <1>3, <2>1, <2>2, <2>3 DEF Deliver
<1>4. CASE NotDelivered  BY <1>4 DEF NotDelivered
<1>5. CASE Record
  <2>1. CASE pc' = "recorded"  BY <1>5, <2>1 DEF Record
  <2>2. CASE summaryPast' = summaryPast \cup {"audit"}
    <3>1. summaryPast' # {}
      BY <2>2
    <3> QED  BY <1>5, <2>2, <3>1 DEF Record
  <2> QED  BY <1>5, <2>1, <2>2 DEF Record
<1>6. CASE Save
  <2>1. CASE summaryFile' = today /\ UNCHANGED summaryPast
    BY <1>6, <2>1 DEF Save
  <2>2. CASE UNCHANGED summaryFile /\ summaryPast' = summaryPast \cup {"disk"}
    <3>1. summaryPast' # {}
      BY <2>2
    <3> QED  BY <1>6, <2>2, <3>1 DEF Save
  <2> QED  BY <1>6, <2>1, <2>2 DEF Save
<1>7. CASE SummaryRestart  BY <1>7 DEF SummaryRestart
<1>8. CASE SummaryCrash  BY <1>8 DEF SummaryCrash
<1>9. CASE UNCHANGED summaryVars  BY <1>9 DEF summaryVars
<1>10. CASE DeliverUnanswered
  <2>1. \A d \in Day : delivered[d] > 0 => delivered'[d] > 0
    BY <1>10 DEF DeliverUnanswered, Received
  <2>2. summaryPast' # {}
    BY <1>10 DEF DeliverUnanswered
  <2> QED  BY <1>10, <2>1, <2>2 DEF DeliverUnanswered
<1> QED  BY <1>1, <1>2, <1>3, <1>4, <1>5, <1>6, <1>7, <1>8, <1>9, <1>10 DEF SummaryNext

\* Across restarts, readings of the account that fail and sends that fail before the
\* message went out, an evening's summary is delivered at most once, while no send is
\* killed after its message went out, no process crashes and the audit trail and the file
\* work; and neither the cache nor the file ever names an evening that was not reported,
\* whatever has failed (maybeSend; the code that would break it is the order of its awaits).
THEOREM Once == ASSUME MaxDay \in Nat \ {0} PROVE SummarySpec => []SummaryOncePerEvening
<1>1. SummaryInit => SummaryInv
  <2> SUFFICES ASSUME SummaryInit PROVE SummaryInv
    OBVIOUS
  <2>1. /\ day = 1 /\ pc = "idle" /\ today = 0 /\ cached = MaxDay + 1 /\ summaryFile = 0
        /\ \A d \in 1 .. MaxDay : delivered[d] = 0
    BY DEF SummaryInit, Day, Never, Unread
  <2> QED  BY <2>1, SummaryInitTyped DEF SummaryInv, Day, Inside, MarkedMeansSent, Known
<1>2. SummaryInv /\ [SummaryNext]_summaryVars /\ SummaryTypeOK' => SummaryInv'
  BY SummaryInvStep
<1>3. SummaryInv => SummaryOncePerEvening
  BY DEF SummaryInv, SummaryOncePerEvening, SentOncePerDay, Known
<1> QED  BY <1>1, <1>2, <1>3, SummaryTypeCorrect, PTL DEF SummarySpec

-----------------------------------------------------------------------------
(* OpposingStability *)

\* The tracker holds a count for the position it last synchronised with, at most, and in
\* the middle of a cycle that is the instrument's own.
CountsOwn ==
  /\ DOMAIN counts \subseteq {syncedId}
  /\ phase = "decided" => syncedId = position

\* An id that was never used has no count, so a new position starts from nothing.
CountsUsed ==
  /\ used \subseteq PositionId
  /\ position \in used \cup {NoPosition}
  /\ DOMAIN counts \subseteq used

\* The count of the position never runs ahead of the cycles that found it opposed.
CountsEarned ==
  /\ opposingRun \in Nat /\ time \in Nat /\ openedAt \in Int
  /\ \A id \in DOMAIN counts : counts[id] \in Nat
  /\ position \in DOMAIN counts => counts[position] <= opposingRun

\* The inductive invariant.
StabilityInv == CountsOwn /\ CountsUsed /\ CountsEarned /\ ExitIsConfirmed

\* The count of the position is a number, and no more than the opposing evaluations in a row.
LEMMA CountBounded == StabilityInv => Count(position) \in Nat /\ Count(position) <= opposingRun
BY DEF StabilityInv, CountsEarned, Count

\* An opposing signal, counted or acted upon, keeps the invariant.
LEMMA OpposingSignalKeeps ==
  ASSUME MIN_HOLD \in Int, REQUIRED_CONFIRMATIONS \in Int, NoPosition \notin PositionId,
         StabilityInv, OpposingSignal
  PROVE  StabilityInv'
<1> DEFINE number == Count(position) + 1
           counted == [i \in DOMAIN counts \cup {position} |-> IF i = position THEN number ELSE counts[i]]
<1>1. number \in Nat /\ number <= opposingRun + 1
  BY CountBounded DEF StabilityInv, CountsEarned
<1>2. position = syncedId /\ position \in used
  BY DEF OpposingSignal, StabilityInv, CountsOwn, CountsUsed
<1>3. /\ DOMAIN counted = {position}
      /\ counted[position] = number
  BY <1>2 DEF StabilityInv, CountsOwn
<1>4. DOMAIN Without(position) = {}
  BY <1>2 DEF Without, StabilityInv, CountsOwn
<1>5. (counts' = counted /\ position' = position /\ openedAt' = openedAt /\ opposingRun' = opposingRun + 1)
      \/ (counts' = Without(position) /\ position' = NoPosition /\ openedAt' = -1 /\ opposingRun' = 0)
  BY DEF OpposingSignal
<1>6. CountsOwn' /\ CountsUsed'
  BY <1>2, <1>3, <1>4, <1>5 DEF OpposingSignal, StabilityInv, CountsOwn, CountsUsed
<1>7. CountsEarned'
  <2>1. CASE counts' = counted /\ position' = position /\ openedAt' = openedAt /\ opposingRun' = opposingRun + 1
    BY <1>1, <1>3, <2>1 DEF OpposingSignal, StabilityInv, CountsEarned
  <2>2. CASE counts' = Without(position) /\ position' = NoPosition /\ openedAt' = -1 /\ opposingRun' = 0
    BY <1>4, <2>2 DEF OpposingSignal, StabilityInv, CountsEarned
  <2> QED  BY <1>5, <2>1, <2>2
<1>8. ExitIsConfirmed'
  <2>1. CASE MinHoldReached /\ number >= REQUIRED_CONFIRMATIONS
    <3>1. allowed' = {[id |-> position, held |-> time - openedAt, opposingRun |-> opposingRun + 1]}
      BY <2>1 DEF OpposingSignal
    <3>2. time - openedAt >= MIN_HOLD /\ opposingRun + 1 >= REQUIRED_CONFIRMATIONS
      BY <1>1, <2>1 DEF MinHoldReached, StabilityInv, CountsEarned
    <3> QED  BY <3>1, <3>2 DEF ExitIsConfirmed
  <2>2. CASE ~(MinHoldReached /\ number >= REQUIRED_CONFIRMATIONS)
    BY <2>2 DEF OpposingSignal, StabilityInv, ExitIsConfirmed
  <2> QED  BY <2>1, <2>2
<1> QED  BY <1>6, <1>7, <1>8 DEF StabilityInv

\* So does every other step.
LEMMA StabilityInvStep ==
  ASSUME MIN_HOLD \in Int, REQUIRED_CONFIRMATIONS \in Int, NoPosition \notin PositionId,
         StabilityInv, [StabilityNext]_stabilityVars
  PROVE  StabilityInv'
<1> USE DEF StabilityInv, CountsOwn, CountsUsed, CountsEarned, ExitIsConfirmed
<1>1. CASE Changes  BY <1>1 DEF Changes
<1>2. CASE SyncPosition
  <2>1. CASE syncedId # position
    <3>1. DOMAIN counts' = {}
      BY <1>2, <2>1 DEF SyncPosition, Without
    <3> QED  BY <1>2, <2>1, <3>1 DEF SyncPosition
  <2>2. CASE syncedId = position
    BY <1>2, <2>2 DEF SyncPosition
  <2> QED  BY <2>1, <2>2
<1>3. CASE OpposingSignal  BY <1>3, OpposingSignalKeeps
<1>4. CASE OtherDecision
  <2>1. DOMAIN counts' = {}
    BY <1>4 DEF OtherDecision, Without
  <2> QED  BY <1>4, <2>1 DEF OtherDecision
<1>5. CASE CycleEndsEarly  BY <1>5 DEF CycleEndsEarly
<1>6. CASE ProcessRestarts  BY <1>6 DEF ProcessRestarts
<1>7. CASE UNCHANGED stabilityVars  BY <1>7 DEF stabilityVars
<1> QED  BY <1>1, <1>2, <1>3, <1>4, <1>5, <1>6, <1>7 DEF StabilityNext

\* However positions are opened, closed and replaced between cycles, and whenever the
\* process restarts or a cycle ends before it evaluates: an opposing signal closes only a
\* position that was held for MIN_HOLD and that REQUIRED_CONFIRMATIONS evaluations in a row
\* found opposed, and no count outlives its position.
THEOREM Confirmed ==
  ASSUME MIN_HOLD \in Int, REQUIRED_CONFIRMATIONS \in Int, NoPosition \notin PositionId
  PROVE  StabilitySpec => []ExitNeedsConfirmation
<1>1. StabilityInit => StabilityInv
  BY DEF StabilityInit, StabilityInv, CountsOwn, CountsUsed, CountsEarned, ExitIsConfirmed
<1>2. StabilityInv /\ [StabilityNext]_stabilityVars => StabilityInv'
  BY StabilityInvStep
<1>3. StabilityInv => ExitNeedsConfirmation
  BY DEF StabilityInv, CountsOwn, ExitNeedsConfirmation, ExitIsConfirmed, NoStaleCount
<1> QED  BY <1>1, <1>2, <1>3, PTL DEF StabilitySpec

-----------------------------------------------------------------------------
(* MarketDataIncident *)


\* What the tracker holds, as a record that may be written.
Held == [incident |-> incident, count |-> count]

After(obs) == [incident |-> [i \in Instrument |-> IncidentAfter(i, obs[i])],
               count    |-> [i \in Instrument |-> CountAfter(i, obs[i])]]

(* Lemmas about one observation *)

\* An observation turns what may be written into what may be written.
LEMMA AfterSnapshot ==
  ASSUME TypeOK, NEW obs \in [Instrument -> Observation]
  PROVE  After(obs) \in Snapshot
<1>1. \A i \in Instrument : IncidentAfter(i, obs[i]) \in Observation
  BY DEF TypeOK, Snapshot, Records, IncidentAfter, Recovers, Observation
<1>2. \A i \in Instrument : CountAfter(i, obs[i]) \in 0 .. RecoveryThreshold - 1
  BY ThresholdAssumption DEF TypeOK, Snapshot, Records, CountAfter, Recovers
<1>3. \A i \in Instrument : IncidentAfter(i, obs[i]) = Healthy => CountAfter(i, obs[i]) = 0
  BY DEF IncidentAfter, CountAfter, Recovers
<1> QED  BY <1>1, <1>2, <1>3 DEF After, Snapshot, Records

\* An observation announces exactly the transitions of each instrument, of
\* which there is at most one, and one without a transition keeps its incident.
LEMMA OneTransition ==
  ASSUME TypeOK, NEW obs \in [Instrument -> Observation], NEW i \in Instrument
  PROVE  \/ Transition(i, obs[i]) = {} /\ IncidentAfter(i, obs[i]) = incident[i]
         \/ /\ Transition(i, obs[i]) = {"opened"}
            /\ incident[i] = Healthy /\ IncidentAfter(i, obs[i]) # Healthy
         \/ /\ Transition(i, obs[i]) = {"changed"}
            /\ incident[i] # Healthy
            /\ IncidentAfter(i, obs[i]) \notin {Healthy, incident[i]}
         \/ /\ Transition(i, obs[i]) = {"recovered"}
            /\ incident[i] # Healthy /\ IncidentAfter(i, obs[i]) = Healthy
BY DEF Transition, IncidentAfter, Recovers

\* An observation that is not worth writing leaves every incident as it was.
LEMMA UnwrittenUnchanged ==
  ASSUME TypeOK, NEW obs \in [Instrument -> Observation], ~WorthWriting(obs)
  PROVE  After(obs).incident = incident
<1>1. incident = [i \in Instrument |-> incident[i]]
  BY DEF TypeOK, Snapshot, Records
<1>2. \A i \in Instrument : IncidentAfter(i, obs[i]) = incident[i]
  BY OneTransition DEF WorthWriting
<1> QED  BY <1>1, <1>2 DEF After

(* Types *)

\* Every reachable state has its type; in particular only an incident has a
\* healthy count and it stays below the threshold (recordCycleObservations),
\* whatever the disk, a crash or a restart does.
THEOREM TypeCorrect == Spec => []TypeOK
<1>1. Init => TypeOK
  BY ThresholdAssumption
     DEF Init, TypeOK, Nothing, Snapshot, Records, Observation, Announcement, Disturbance
<1>2. TypeOK /\ [Next]_vars => TypeOK'
  <2> SUFFICES ASSUME TypeOK, [Next]_vars PROVE TypeOK'
    OBVIOUS
  <2>1. ASSUME NEW obs \in [Instrument -> Observation], Observe(obs) PROVE TypeOK'
    <3>1. After(obs) \in Snapshot /\ Held' = After(obs)
      BY <2>1, AfterSnapshot DEF Observe, After, Held
    <3>2. queue' \in Seq(Snapshot)
      BY <2>1, <3>1 DEF Observe, After, TypeOK
    <3>3. announce' \subseteq Announcement
      <4>1. \A i \in Instrument : IncidentAfter(i, obs[i]) \in Observation
        BY <3>1 DEF Snapshot, Records, After
      <4> QED  BY <2>1, <4>1 DEF Observe, Announcement
    <3>4. streak' \in [Instrument -> 0 .. RecoveryThreshold]
      BY <2>1, ThresholdAssumption DEF Observe, TypeOK
    <3> QED  BY <2>1, <3>1, <3>2, <3>3, <3>4 DEF Observe, TypeOK, Held
  <2>2. ASSUME NEW k \in Kind, Announce(k) PROVE TypeOK'
    <3> DEFINE due == { a \in announce : a.kind = k }
    <3>1. \A i \in Instrument : (\E a \in due : a.instrument = i)
            => (CHOOSE a \in due : a.instrument = i).fingerprint \in Observation
      BY DEF TypeOK, Announcement
    <3>2. told' \in [Instrument -> Observation]
      BY <2>2, <3>1 DEF Announce, TypeOK
    <3> QED  BY <2>2, <3>2 DEF Announce, TypeOK, trackerVars
  <2>3. CASE Write
    <3>1. file' \in Snapshot /\ queue' \in Seq(Snapshot)
      BY <2>3 DEF Write, TypeOK
    <3>2. past' \subseteq Disturbance
      BY <2>3 DEF Write, TypeOK, Disturbance
    <3> QED  BY <2>3, <3>1, <3>2 DEF Write, TypeOK, trackerVars
  <2>4. CASE Restart
    BY <2>4 DEF Restart, Load, TypeOK, Snapshot, Records, Disturbance
  <2>5. CASE Crash
    BY <2>5 DEF Crash, Load, TypeOK, Snapshot, Records, Disturbance
  <2>6. CASE UNCHANGED vars
    BY <2>6 DEF vars, TypeOK
  <2> QED  BY <2>1, <2>2, <2>3, <2>4, <2>5, <2>6 DEF Next
<1> QED  BY <1>1, <1>2, PTL DEF Spec

(* Persistence *)

\* While no write is lost, the writes still to come end with the incident the
\* tracker holds, so neither a restart nor a crash loses one that was written
\* (schedulePersist, loadPersistedState).
THEOREM Persistent == Spec => []WillPersist
<1>1. Init => WillPersist
  BY DEF Init, WillPersist, Nothing
<1>2. TypeOK /\ WillPersist /\ [Next]_vars => WillPersist'
  <2> SUFFICES ASSUME TypeOK, WillPersist, [Next]_vars PROVE WillPersist'
    OBVIOUS
  <2>1. ASSUME NEW obs \in [Instrument -> Observation], Observe(obs) PROVE WillPersist'
    <3>1. incident' = After(obs).incident
      BY <2>1 DEF Observe, After
    <3>2. CASE WorthWriting(obs)
      <4>1. queue' = Append(queue, After(obs)) /\ queue \in Seq(Snapshot)
        BY <2>1, <3>2 DEF Observe, After, TypeOK
      <4>2. queue' # <<>> /\ Last(queue') = After(obs)
        BY <4>1 DEF Last
      <4> QED  BY <3>1, <4>2 DEF WillPersist
    <3>3. CASE ~WorthWriting(obs)
      BY <2>1, <3>1, <3>3, UnwrittenUnchanged DEF Observe, WillPersist
    <3> QED  BY <3>2, <3>3
  <2>2. ASSUME NEW k \in Kind, Announce(k) PROVE WillPersist'
    BY <2>2 DEF Announce, WillPersist, trackerVars
  <2>3. CASE Write
    <3>0. CASE "lost" \in past'
      BY <3>0 DEF WillPersist
    <3> SUFFICES ASSUME "lost" \notin past' PROVE WillPersist'
      BY <3>0
    <3>1. /\ queue # <<>> /\ queue \in Seq(Snapshot)
          /\ file' = Head(queue) /\ queue' = Tail(queue)
          /\ "lost" \notin past
      BY <2>3 DEF Write, TypeOK
    <3>2. IF queue' = <<>> THEN Last(queue) = file' ELSE Last(queue') = Last(queue)
      <4>1. Len(queue) \in Nat \ {0}
        BY <3>1, EmptySeq, LenProperties
      <4>2. Len(queue') = Len(queue) - 1
        BY <3>1, <4>1, HeadTailProperties
      <4>3. CASE Len(queue) = 1
        BY <3>1, <4>2, <4>3, HeadTailProperties, EmptySeq DEF Last
      <4>4. CASE Len(queue) > 1
        <5>1. queue' # <<>>
          BY <4>2, <4>4
        <5>2. queue'[Len(queue')] = queue[Len(queue)]
          BY <3>1, <4>1, <4>2, <4>4, HeadTailProperties
        <5> QED  BY <5>1, <5>2 DEF Last
      <4>5. Len(queue) = 1 \/ Len(queue) > 1
        BY <4>1
      <4> QED  BY <4>3, <4>4, <4>5
    <3> QED  BY <2>3, <3>1, <3>2 DEF Write, WillPersist, trackerVars
  <2>4. CASE Restart
    BY <2>4 DEF Restart, Load, WillPersist
  <2>5. CASE Crash
    BY <2>5 DEF Crash, Load, WillPersist
  <2>6. CASE UNCHANGED vars
    BY <2>6 DEF vars, WillPersist
  <2> QED  BY <2>1, <2>2, <2>3, <2>4, <2>5, <2>6 DEF Next
<1> QED  BY <1>1, <1>2, TypeCorrect, PTL DEF Spec

(* What the operator knows *)

Pending(i) == { a \in announce : a.instrument = i }

Consistent(a) ==
  /\ a.kind = "opened" => told[a.instrument] = Healthy
  /\ a.kind = "changed" => told[a.instrument] \notin {Healthy, a.fingerprint}
  /\ a.kind = "recovered" => told[a.instrument] # Healthy

\* The inductive form: of each instrument the operator knows the incident the
\* tracker holds, or the one announcement under way is about to tell them.
Told ==
  \A i \in Instrument :
    \/ Pending(i) = {} /\ told[i] = incident[i]
    \/ \E a \in announce : /\ Pending(i) = {a}
                           /\ a.fingerprint = incident[i]
                           /\ Consistent(a)

\* An announcement tells the operator of its instrument and of no other.
LEMMA ToldAfter ==
  ASSUME TypeOK, Told, NEW k \in Kind, Announce(k)
  PROVE  Told'
<1> DEFINE due == { a \in announce : a.kind = k }
<1> SUFFICES ASSUME NEW i \in Instrument
             PROVE  \/ Pending(i)' = {} /\ told'[i] = incident'[i]
                    \/ \E a \in announce' : /\ Pending(i)' = {a}
                                            /\ a.fingerprint = incident'[i]
                                            /\ Consistent(a)'
  BY DEF Told
<1>1. /\ announce' = announce \ due /\ incident' = incident
      /\ told' = [j \in Instrument |->
                    IF \E a \in due : a.instrument = j
                    THEN (CHOOSE a \in due : a.instrument = j).fingerprint ELSE told[j]]
  BY DEF Announce, trackerVars
<1>2. CASE Pending(i) = {} /\ told[i] = incident[i]
  BY <1>1, <1>2 DEF Pending
<1>3. ASSUME NEW a \in announce, Pending(i) = {a}, a.fingerprint = incident[i], Consistent(a)
      PROVE  \/ Pending(i)' = {} /\ told'[i] = incident'[i]
             \/ \E b \in announce' : /\ Pending(i)' = {b}
                                     /\ b.fingerprint = incident'[i]
                                     /\ Consistent(b)'
  <2>1. a.instrument = i
    BY <1>3 DEF Pending
  <2>2. CASE a.kind = k
    <3>1. a \in due /\ \A b \in due : b.instrument = i => b = a
      BY <1>3, <2>2 DEF Pending
    <3>2. (CHOOSE b \in due : b.instrument = i) = a
      BY <2>1, <3>1
    <3>3. told'[i] = a.fingerprint
      BY <1>1, <2>1, <3>1, <3>2
    <3>4. Pending(i)' = {}
      BY <1>1, <1>3, <3>1 DEF Pending
    <3> QED  BY <1>1, <1>3, <3>3, <3>4
  <2>3. CASE a.kind # k
    <3>1. ~ \E b \in due : b.instrument = i
      BY <1>3, <2>3 DEF Pending
    <3>2. told'[i] = told[i]
      BY <1>1, <3>1
    <3>3. a \in announce' /\ Pending(i)' = {a}
      BY <1>1, <1>3, <2>3 DEF Pending
    <3>4. Consistent(a)'
      BY <1>3, <2>1, <3>2 DEF Consistent
    <3> QED  BY <1>1, <1>3, <3>3, <3>4
  <2> QED  BY <2>2, <2>3
<1> QED  BY <1>2, <1>3 DEF Told

\* A cycle begins with nothing to announce and announces what it changed.
LEMMA ToldObserved ==
  ASSUME TypeOK, Told, NEW obs \in [Instrument -> Observation], Observe(obs)
  PROVE  Told'
<1> SUFFICES ASSUME NEW i \in Instrument
             PROVE  \/ Pending(i)' = {} /\ told'[i] = incident'[i]
                    \/ \E a \in announce' : /\ Pending(i)' = {a}
                                            /\ a.fingerprint = incident'[i]
                                            /\ Consistent(a)'
  BY DEF Told
<1>1. told[i] = incident[i] /\ told' = told
  BY DEF Observe, Told, Pending
<1>2. /\ incident'[i] = IncidentAfter(i, obs[i])
      /\ announce' = { a \in Announcement :
                         /\ a.kind \in Transition(a.instrument, obs[a.instrument])
                         /\ a.fingerprint = incident'[a.instrument] }
  BY DEF Observe, Announcement
<1>3. incident'[i] \in Observation
  BY <1>2 DEF TypeOK, Snapshot, Records, IncidentAfter, Observation
<1>4. ASSUME NEW k \in Kind, Transition(i, obs[i]) = {k},
             NEW f \in Observation, f = incident'[i],
             k = "opened" => incident[i] = Healthy,
             k = "changed" => incident[i] \notin {Healthy, f},
             k = "recovered" => incident[i] # Healthy
      PROVE  \E a \in announce' : /\ Pending(i)' = {a}
                                  /\ a.fingerprint = incident'[i]
                                  /\ Consistent(a)'
  <2> DEFINE a == [kind |-> k, instrument |-> i, fingerprint |-> f]
  <2>1. a \in announce'
    BY <1>2, <1>3, <1>4 DEF Announcement
  <2>2. ASSUME NEW b \in announce', b.instrument = i PROVE b = a
    BY <1>2, <1>4, <2>2 DEF Announcement
  <2>3. Pending(i)' = {a}
    BY <2>1, <2>2 DEF Pending
  <2>4. Consistent(a)'
    BY <1>1, <1>4 DEF Consistent
  <2>5. a.fingerprint = incident'[i]
    BY <1>4
  <2> QED  BY <2>1, <2>3, <2>4, <2>5
<1>5. CASE Transition(i, obs[i]) = {} /\ IncidentAfter(i, obs[i]) = incident[i]
  <2>1. Pending(i)' = {}
    BY <1>2, <1>5 DEF Pending, Announcement
  <2> QED  BY <1>1, <1>2, <1>5, <2>1
<1> QED  BY <1>2, <1>3, <1>4, <1>5, OneTransition DEF Kind

\* As long as nothing worse than graceful restarts happens, the operator is told
\* of every incident exactly once: after a cycle they know what the tracker
\* holds, and nothing is announced that they know already
\* (recordMarketDataIncidentState).
THEOREM Informed == Spec => [](OperatorInformed /\ NoRepeatedAnnouncement)
<1> DEFINE Inv == Orderly => Told
<1>1. Init => Inv
  BY DEF Init, Told, Pending, Nothing
<1>2. TypeOK /\ WillPersist /\ Inv /\ [Next]_vars => Inv'
  <2> SUFFICES ASSUME TypeOK, WillPersist, Inv, [Next]_vars, Orderly' PROVE Told'
    OBVIOUS
  <2>0. Orderly
    BY DEF Orderly, Next, Observe, Announce, Write, Restart, Crash, vars
  <2>1. ASSUME NEW obs \in [Instrument -> Observation], Observe(obs) PROVE Told'
    BY <2>0, <2>1, ToldObserved
  <2>2. ASSUME NEW k \in Kind, Announce(k) PROVE Told'
    BY <2>0, <2>2, ToldAfter
  <2>3. CASE Write
    BY <2>0, <2>3 DEF Write, Told, Pending, Consistent, trackerVars
  <2>4. CASE Restart
    <3>1. incident' = incident /\ UNCHANGED <<announce, told>>
      BY <2>0, <2>4 DEF Restart, Load, WillPersist, Orderly
    <3> QED  BY <2>0, <3>1 DEF Told, Pending, Consistent
  <2>5. CASE Crash
    BY <2>5 DEF Crash, Orderly
  <2>6. CASE UNCHANGED vars
    BY <2>0, <2>6 DEF vars, Told, Pending, Consistent
  <2> QED  BY <2>1, <2>2, <2>3, <2>4, <2>5, <2>6 DEF Next
<1>3. TypeOK /\ Inv => OperatorInformed
  <2> SUFFICES ASSUME TypeOK, Told, announce = {} PROVE told = incident
    BY DEF OperatorInformed
  <2>1. \A i \in Instrument : told[i] = incident[i]
    BY DEF Told
  <2> QED  BY <2>1 DEF TypeOK, Snapshot, Records
<1>4. TypeOK /\ Inv => NoRepeatedAnnouncement
  <2> SUFFICES ASSUME TypeOK, Told, NEW a \in announce PROVE Consistent(a)
    BY DEF NoRepeatedAnnouncement, Consistent
  <2>1. a.instrument \in Instrument
    BY DEF TypeOK, Announcement
  <2>2. a \in Pending(a.instrument)
    BY DEF Pending
  <2> QED  BY <2>1, <2>2 DEF Told
<1> QED  BY <1>1, <1>2, <1>3, <1>4, Persistent, TypeCorrect, PTL DEF Spec

(* The end of an incident *)

\* What is being written ends with the incident that memory holds, over every restart
\* and crash that loses no write, and in one process no transition is announced twice
\* (persist's queue, the load at start, recordCycleObservations).
THEOREM Kept == Spec => []IncidentIsKept
<1>1. WillPersist /\ (OperatorInformed /\ NoRepeatedAnnouncement) => IncidentIsKept
  BY DEF IncidentIsKept
<1> QED  BY <1>1, Persistent, Informed, PTL

\* The inductive form: in memory the healthy count never runs ahead of the
\* healthy observations the world has shown.
Counted ==
  past \subseteq {"lost"} =>
    /\ \A i \in Instrument : count[i] <= streak[i]
    /\ \A a \in announce : Earned(a)

\* Within one process an incident is announced as recovered only after
\* RecoveryThreshold healthy observations in a row (recordCycleObservations);
\* a restart breaks this, which is why the theorem ends there.
THEOREM Recovered == Spec => []RecoveryEarned
<1>1. Init => Counted
  BY ThresholdAssumption DEF Init, Counted, Nothing
<1>2. TypeOK /\ Counted /\ [Next]_vars => Counted'
  <2> SUFFICES ASSUME TypeOK, Counted, [Next]_vars, past' \subseteq {"lost"}
               PROVE  (\A i \in Instrument : count[i] <= streak[i])'
                      /\ (\A a \in announce : Earned(a))'
    BY DEF Counted
  <2>0. past \subseteq {"lost"}
    BY DEF Next, Observe, Announce, Write, Restart, Crash, vars
  <2>1. ASSUME NEW obs \in [Instrument -> Observation], Observe(obs)
        PROVE  (\A i \in Instrument : count[i] <= streak[i])'
               /\ (\A a \in announce : Earned(a))'
    <3>1. ASSUME NEW i \in Instrument
          PROVE  /\ count'[i] <= streak'[i]
                 /\ Recovers(i, obs[i]) => streak'[i] >= RecoveryThreshold
      <4>1. /\ count[i] \in 0 .. RecoveryThreshold - 1
            /\ streak[i] \in 0 .. RecoveryThreshold
            /\ count[i] <= streak[i]
        BY <2>0 DEF TypeOK, Snapshot, Records, Counted
      <4>2. /\ count'[i] = CountAfter(i, obs[i])
            /\ streak'[i] = IF obs[i] # Healthy THEN 0
                            ELSE IF streak[i] < RecoveryThreshold THEN streak[i] + 1 ELSE streak[i]
        BY <2>1 DEF Observe
      <4> QED  BY <4>1, <4>2, ThresholdAssumption DEF CountAfter, Recovers
    <3>2. ASSUME NEW a \in announce' PROVE Earned(a)'
      <4>1. /\ a.instrument \in Instrument
            /\ a.kind \in Transition(a.instrument, obs[a.instrument])
        BY <2>1 DEF Observe, Announcement
      <4>2. a.kind = "recovered" => Recovers(a.instrument, obs[a.instrument])
        BY <4>1 DEF Transition
      <4> QED  BY <3>1, <4>1, <4>2 DEF Earned
    <3> QED  BY <3>1, <3>2
  <2>2. ASSUME NEW k \in Kind, Announce(k)
        PROVE  (\A i \in Instrument : count[i] <= streak[i])'
               /\ (\A a \in announce : Earned(a))'
    BY <2>0, <2>2 DEF Announce, Counted, Earned, trackerVars
  <2>3. CASE Write
    BY <2>0, <2>3 DEF Write, Counted, Earned, trackerVars
  <2>4. CASE Restart
    BY <2>4 DEF Restart
  <2>5. CASE Crash
    BY <2>5 DEF Crash
  <2>6. CASE UNCHANGED vars
    BY <2>0, <2>6 DEF vars, Counted, Earned
  <2> QED  BY <2>1, <2>2, <2>3, <2>4, <2>5, <2>6 DEF Next
<1>3. Counted => RecoveryEarned
  BY DEF Counted, RecoveryEarned
<1> QED  BY <1>1, <1>2, <1>3, TypeCorrect, PTL DEF Spec

-----------------------------------------------------------------------------
(* MarketUniverse *)


Fields == {"raw", "type", "active", "status", "price", "checkedAt", "eligible", "reason",
           "firstSeen", "lastSeen", "delistedAt"}

\* A row as every write leaves it.  A row has one price at most, which is what lets a single
\* price that is high enough stand for all of them.
SoundRow(row) ==
  /\ DOMAIN row = Fields
  /\ row.type = ClassifyInstrumentType(row.raw)
  /\ row.status = "checked" => row.checkedAt # {}
  /\ \A p, q \in row.price : p = q
  /\ row.active <=> row.delistedAt = {}
  /\ row.eligible =>
       /\ row.active
       /\ Eligible(ComputeListingExclusion(TRUE, row.raw.test, row.type), row.status, row.price)

Rows == \A s \in DOMAIN universe : SoundRow(universe[s])
PendingRows ==
  /\ \A s \in DOMAIN diff.new : SoundRow(diff.new[s])
  /\ \A s \in DOMAIN diff.changed : SoundRow(diff.changed[s])
DiffShape == DOMAIN diff = {"new", "changed", "delisted", "unchanged"}

\* The listing facts of a row are those that were read.
AsRead(row, read) == row.active = read.active /\ row.raw = read.raw /\ row.type = read.type

\* From the choice of the batch to its last price the rows are listed as they were read:
\* one run at a time, and its writes of the listing are behind it.
Captured ==
  /\ DOMAIN quotes \subseteq DOMAIN batch
  /\ refresh # "record" => DOMAIN quotes = {}
  /\ refresh \in {"check", "record"} =>
       \A s \in DOMAIN batch : s \in DOMAIN universe /\ AsRead(universe[s], batch[s])

\* What every write of a row needs to keep.
RowsInv == Rows /\ PendingRows /\ DiffShape /\ Captured

(* One row *)

\* A row as BuildRow makes it.
Fresh(row, raw, now) == SoundRow(row) /\ row.active = TRUE /\ row.raw = raw /\ row.lastSeen = now

\* BuildRow of a row that is sound, or of none.
LEMMA BuildRowSound ==
  ASSUME NEW raw, NEW now, NEW existing,
         existing = {} \/ \E e : existing = {e} /\ SoundRow(e)
  PROVE  Fresh(BuildRow(raw, now, existing), raw, now)
<1> DEFINE row == BuildRow(raw, now, existing)
<1>1. CASE existing = {}
  <2>1. row.status = "awaiting_check" /\ row.price = {}
    BY <1>1 DEF BuildRow
  <2>2. ~row.eligible
    BY <1>1 DEF BuildRow, Eligible
  <2> QED  BY <2>1, <2>2 DEF BuildRow, SoundRow, Fields, Fresh
<1>2. ASSUME NEW e, existing = {e}, SoundRow(e)
      PROVE  Fresh(row, raw, now)
  <2>1. row.status = e.status /\ row.price = e.price /\ row.checkedAt = e.checkedAt
    <3>1. (CHOOSE x \in existing : TRUE) = e /\ existing # {}
      BY <1>2
    <3>2. UNION {x.price : x \in existing} = e.price /\ UNION {x.checkedAt : x \in existing} = e.checkedAt
      BY <1>2
    <3> QED  BY <3>1, <3>2 DEF BuildRow
  <2>2. row.type = ClassifyInstrumentType(raw) /\ row.raw = raw /\ row.active = TRUE
        /\ row.delistedAt = {} /\ row.lastSeen = now /\ DOMAIN row = Fields
    BY DEF BuildRow, Fields
  <2>3. row.eligible = Eligible(ComputeListingExclusion(TRUE, row.raw.test, row.type), row.status, row.price)
    BY DEF BuildRow
  <2> HIDE DEF row
  <2> QED  BY <1>2, <2>1, <2>2, <2>3 DEF SoundRow, Fresh
<1> QED  BY <1>1, <1>2

\* A delisted row is sound and inactive.
LEMMA DelistSound ==
  ASSUME NEW row, SoundRow(row)
  PROVE  SoundRow(Delist(row)) /\ Delist(row).active = FALSE
BY DEF SoundRow, Delist, Fields

\* A row that is given a price is sound and still listed as it was, if it was read as it is.
LEMMA PricedSound ==
  ASSUME NEW row, NEW read, NEW price, SoundRow(row), AsRead(row, read)
  PROVE  /\ SoundRow(Priced(row, read, price))
         /\ AsRead(Priced(row, read, price), row) /\ Priced(row, read, price).lastSeen = row.lastSeen
<1> DEFINE reason == ComputeListingExclusion(read.active, read.raw.test, read.type)
           new == Priced(row, read, price)
<1>1. /\ DOMAIN new = Fields /\ new.raw = row.raw /\ new.type = row.type /\ new.active = row.active
      /\ new.status = "checked" /\ new.price = {price} /\ new.checkedAt = {runDay}
      /\ new.eligible = Eligible(reason, "checked", {price})
      /\ new.lastSeen = row.lastSeen /\ new.delistedAt = row.delistedAt
  BY DEF SoundRow, Priced, Fields
<1>2. reason = {} => row.active /\ ComputeListingExclusion(TRUE, row.raw.test, row.type) = {}
  BY DEF ComputeListingExclusion, AsRead
<1> HIDE DEF new, reason
<1>3. new.eligible => row.active /\ Eligible(ComputeListingExclusion(TRUE, row.raw.test, row.type), "checked", {price})
  BY <1>1, <1>2 DEF Eligible
<1>4. SoundRow(new)
  BY <1>1, <1>3 DEF SoundRow
<1> QED  BY <1>1, <1>4 DEF new, AsRead

\* So is one that is only seen again.
LEMMA SeenSound ==
  ASSUME NEW row, NEW d, SoundRow(row)
  PROVE  LET new == [row EXCEPT !.lastSeen = d]
         IN  SoundRow(new) /\ new.active = row.active /\ new.raw = row.raw /\ new.lastSeen = d
BY DEF SoundRow, Fields

\* What a sound row says of its eligibility.
LEMMA SoundMeansEligible ==
  ASSUME NEW row, SoundRow(row)
  PROVE  /\ row.eligible => /\ row.active /\ ~row.raw.test /\ ClassifyInstrumentType(row.raw) # "unsupported"
                            /\ row.checkedAt # {} /\ \A p \in row.price : p >= MINIMUM_ELIGIBLE_PRICE
         /\ row.active <=> row.delistedAt = {}
BY DEF SoundRow, Eligible, ComputeListingExclusion

(* The table *)

\* What Compare finds.
LEMMA DiffIsSound ==
  ASSUME Rows, NEW snap
  PROVE  LET d == DiffUniverseSnapshot(universe, snap)
         IN  /\ DOMAIN d = {"new", "changed", "delisted", "unchanged"}
             /\ \A s \in DOMAIN d.new : Fresh(d.new[s], snap[s], runDay)
             /\ \A s \in DOMAIN d.changed : Fresh(d.changed[s], snap[s], runDay)
<1> DEFINE built(s) == BuildRow(snap[s], runDay, {universe[t] : t \in {s} \cap DOMAIN universe})
           d == DiffUniverseSnapshot(universe, snap)
<1>1. ASSUME NEW s PROVE Fresh(built(s), snap[s], runDay)
  <2> DEFINE existing == {universe[t] : t \in {s} \cap DOMAIN universe}
  <2>1. existing = {} \/ \E e : existing = {e} /\ SoundRow(e)
    <3>1. CASE s \in DOMAIN universe
      <4>1. existing = {universe[s]} /\ SoundRow(universe[s])
        BY <3>1 DEF Rows
      <4> QED  BY <4>1
    <3>2. CASE s \notin DOMAIN universe
      BY <3>2
    <3> QED  BY <3>1, <3>2
  <2> HIDE DEF existing
  <2>2. Fresh(BuildRow(snap[s], runDay, existing), snap[s], runDay)
    BY <2>1, BuildRowSound
  <2>3. built(s) = BuildRow(snap[s], runDay, existing)
    BY Zenon DEF existing
  <2> QED  BY <2>2, <2>3, Zenon
<1>2. /\ DOMAIN d = {"new", "changed", "delisted", "unchanged"}
      /\ \A s \in DOMAIN d.new : d.new[s] = built(s)
      /\ \A s \in DOMAIN d.changed : d.changed[s] = built(s)
  BY DEF DiffUniverseSnapshot
<1> HIDE DEF built, d
<1> QED  BY <1>1, <1>2 DEF d

\* An empty table has only sound rows.
LEMMA RowsInvInit == UniverseInit => RowsInv
BY DEF UniverseInit, RowsInv, Rows, PendingRows, DiffShape, NoDiff, Captured

\* No step of a run comes between the rows it read for their prices and the table.
LEMMA CapturedStep == ASSUME RowsInv, [UniverseNext]_universeVars PROVE Captured'
<1> USE DEF RowsInv, Captured
<1>1. CASE SelectBatch
  <2>1. PICK S \in SUBSET DOMAIN universe : batch' = Only(universe, S)
    BY <1>1 DEF SelectBatch, FirstBy, Waiting, Stale
  <2>2. DOMAIN batch' = S /\ \A s \in S : batch'[s] = universe[s]
    BY <2>1 DEF Only
  <2> QED  BY <1>1, <2>2 DEF SelectBatch, AsRead
<1>2. CASE CheckPrices
  <2>1. DOMAIN quotes' \subseteq DOMAIN batch
    BY <1>2 DEF CheckPrices
  <2> QED  BY <1>2, <2>1 DEF CheckPrices
<1>3. CASE RecordPrice
  <2>1. PICK s \in DOMAIN quotes : /\ universe' = [universe EXCEPT ![s] = Priced(@, batch[s], quotes[s])]
                                   /\ quotes' = Only(quotes, DOMAIN quotes \ {s})
    BY <1>3 DEF RecordPrice
  <2>2. /\ DOMAIN universe' = DOMAIN universe
        /\ s \in DOMAIN universe => universe'[s] = Priced(universe[s], batch[s], quotes[s])
        /\ \A t \in DOMAIN universe : t # s => universe'[t] = universe[t]
    BY <2>1
  <2>3. DOMAIN quotes' \subseteq DOMAIN batch
    BY <2>1 DEF Only
  <2>4. ASSUME NEW t \in DOMAIN batch PROVE t \in DOMAIN universe' /\ AsRead(universe'[t], batch[t])
    <3>1. t \in DOMAIN universe /\ AsRead(universe[t], batch[t])
      BY <1>3 DEF RecordPrice
    <3>2. CASE t # s  BY <2>2, <3>1, <3>2
    <3>3. CASE t = s
      <4>1. universe'[s] = Priced(universe[s], batch[s], quotes[s]) /\ SoundRow(universe[s])
        BY <2>2, <3>1, <3>3 DEF Rows
      <4>2. AsRead(universe'[s], universe[s])
        BY <3>1, <3>3, <4>1, PricedSound
      <4> QED  BY <2>2, <3>1, <3>3, <4>2 DEF AsRead
    <3> QED  BY <3>2, <3>3
  <2> QED  BY <1>3, <2>3, <2>4 DEF RecordPrice
<1>4. CASE Complete \/ Fail \/ RefreshCrash
  BY <1>4 DEF Complete, Fail, RefreshCrash, Forget
<1>5. CASE \/ WriteNew \/ WriteChanged \/ WriteDelisted \/ WriteUnchanged \/ Written
           \/ StartRefresh \/ Download \/ Compare \/ Publish
  BY <1>5 DEF WriteNew, WriteChanged, WriteDelisted, WriteUnchanged, Written, StartRefresh, Download,
              Compare, Publish, run
<1>6. CASE UNCHANGED universeVars
  BY <1>6 DEF universeVars, run
<1> QED  BY <1>1, <1>2, <1>3, <1>4, <1>5, <1>6 DEF UniverseNext

\* Every write leaves the rows sound, those in the table and those still to be written.
LEMMA RowsInvStep == ASSUME RowsInv, [UniverseNext]_universeVars, Captured' PROVE RowsInv'
<1> USE DEF RowsInv, Rows, PendingRows, DiffShape
<1>0. ASSUME Forget PROVE PendingRows' /\ DiffShape'
  BY <1>0 DEF Forget, NoDiff
<1>1. CASE StartRefresh \/ Publish \/ Download \/ SelectBatch \/ CheckPrices \/ Written
  BY <1>1 DEF StartRefresh, Publish, Download, SelectBatch, CheckPrices, Written, run
<1>2. CASE Compare
  BY <1>2, DiffIsSound DEF Compare, Fresh
<1>3. CASE WriteNew
  <2>1. PICK s \in DOMAIN diff.new : /\ universe' = Overlay(universe, Only(diff.new, {s}))
                                     /\ diff' = [diff EXCEPT !.new = Only(@, DOMAIN @ \ {s})]
    BY <1>3 DEF WriteNew
  <2>2. /\ DOMAIN universe' = DOMAIN universe \cup {s}
        /\ universe'[s] = diff.new[s]
        /\ \A t \in DOMAIN universe : t # s => universe'[t] = universe[t]
    BY <2>1 DEF Overlay, Only
  <2>3. Rows'
    BY <2>2
  <2>4. PendingRows' /\ DiffShape'
    BY <2>1 DEF Only
  <2> QED  BY <2>3, <2>4
<1>4. CASE WriteChanged
  <2>1. PICK s \in DOMAIN diff.changed : /\ universe' = Overlay(universe, Only(diff.changed, {s}))
                                         /\ diff' = [diff EXCEPT !.changed = Only(@, DOMAIN @ \ {s})]
    BY <1>4 DEF WriteChanged
  <2>2. /\ DOMAIN universe' = DOMAIN universe \cup {s}
        /\ universe'[s] = diff.changed[s]
        /\ \A t \in DOMAIN universe : t # s => universe'[t] = universe[t]
    BY <2>1 DEF Overlay, Only
  <2>3. Rows'
    BY <2>2
  <2>4. PendingRows' /\ DiffShape'
    BY <2>1 DEF Only
  <2> QED  BY <2>3, <2>4
<1>5. CASE WriteDelisted
  <2>1. PICK s \in diff.delisted : /\ universe' = [universe EXCEPT ![s] = Delist(@)]
                                   /\ diff' = [diff EXCEPT !.delisted = @ \ {s}]
    BY <1>5 DEF WriteDelisted
  <2>2. \A t \in DOMAIN universe' : universe'[t] = IF t = s THEN Delist(universe[s]) ELSE universe[t]
    BY <2>1
  <2>3. Rows'
    BY <2>1, <2>2, DelistSound
  <2>4. PendingRows' /\ DiffShape'
    BY <2>1
  <2> QED  BY <2>3, <2>4
<1>6. CASE WriteUnchanged
  <2>1. PICK s \in diff.unchanged : /\ universe' = [universe EXCEPT ![s].lastSeen = runDay]
                                    /\ diff' = [diff EXCEPT !.unchanged = @ \ {s}]
    BY <1>6 DEF WriteUnchanged
  <2>2. \A t \in DOMAIN universe' :
          universe'[t] = IF t = s THEN [universe[s] EXCEPT !.lastSeen = runDay] ELSE universe[t]
    BY <2>1
  <2>3. Rows'
    BY <2>1, <2>2, SeenSound
  <2>4. PendingRows' /\ DiffShape'
    BY <2>1
  <2> QED  BY <2>3, <2>4
<1>7. CASE RecordPrice
  <2>1. PICK s \in DOMAIN quotes : universe' = [universe EXCEPT ![s] = Priced(@, batch[s], quotes[s])]
    BY <1>7 DEF RecordPrice
  <2>2. \A t \in DOMAIN universe' :
          universe'[t] = IF t = s THEN Priced(universe[s], batch[s], quotes[s]) ELSE universe[t]
    BY <2>1
  <2>3. s \in DOMAIN universe => AsRead(universe[s], batch[s])
    BY <1>7 DEF RecordPrice, Captured
  <2>4. Rows'
    BY <2>1, <2>2, <2>3, PricedSound
  <2> QED  BY <1>7, <2>4 DEF RecordPrice
<1>8. CASE Complete \/ Fail \/ RefreshCrash
  BY <1>0, <1>8 DEF Complete, Fail, RefreshCrash
<1>9. CASE UNCHANGED universeVars
  BY <1>9 DEF universeVars, run
<1> QED  BY <1>1, <1>2, <1>3, <1>4, <1>5, <1>6, <1>7, <1>8, <1>9 DEF UniverseNext

(* The table and the listing *)

Active == {s \in DOMAIN universe : universe[s].active}

\* Halfway through the writes: a symbol of the listing waits in a group or is as it should
\* be, and what is active beyond the listing waits to be delisted.
Progress ==
  refresh = "write" =>
    /\ diff.delisted \cap DOMAIN snapshot = {}
    /\ DOMAIN diff.new \cup DOMAIN diff.changed \subseteq DOMAIN snapshot
    /\ \A s \in DOMAIN diff.new : Fresh(diff.new[s], snapshot[s], runDay)
    /\ \A s \in DOMAIN diff.changed : Fresh(diff.changed[s], snapshot[s], runDay)
    /\ \A s \in DOMAIN snapshot \ (DOMAIN diff.new \cup DOMAIN diff.changed) :
          /\ s \in DOMAIN universe /\ universe[s].active = TRUE /\ universe[s].raw = snapshot[s]
          /\ s \in diff.unchanged \/ universe[s].lastSeen = runDay
    /\ \A s \in DOMAIN universe : universe[s].active => s \in DOMAIN snapshot \cup diff.delisted

Finished ==
  refresh \in {"select", "check", "record"} =>
    /\ Active = DOMAIN snapshot
    /\ \A s \in DOMAIN snapshot : universe[s].raw = snapshot[s] /\ universe[s].lastSeen = runDay

\* The snapshot that was applied as a whole is still what the table says.
Applied ==
  \A sn \in applied : Active = DOMAIN sn /\ \A s \in DOMAIN sn : universe[s].raw = sn[s]

NothingLeft ==
  refresh = "write" /\ snapshot \in applied =>
    DOMAIN diff.new = {} /\ DOMAIN diff.changed = {} /\ diff.delisted = {}

Follows == Progress /\ Finished /\ Applied /\ NothingLeft

\* Before the first run nothing has to be followed.
LEMMA FollowsInit == UniverseInit => Follows
BY DEF UniverseInit, Follows, Progress, Finished, Applied, NothingLeft

\* A write that leaves every row active or not, and as it was listed.
LEMMA Untouched ==
  ASSUME Applied, applied' = applied, DOMAIN universe' = DOMAIN universe,
         \A s \in DOMAIN universe : universe'[s].active = universe[s].active
                                    /\ universe'[s].raw = universe[s].raw
  PROVE  Active' = Active /\ Applied'
<1>1. Active' = Active
  BY DEF Active
<1>2. \A s \in Active : universe'[s].raw = universe[s].raw
  BY DEF Active
<1> QED  BY <1>1, <1>2 DEF Applied

\* Every step keeps what a run that is writing still owes the listing.
LEMMA FollowsStep == ASSUME RowsInv, Follows, [UniverseNext]_universeVars PROVE Follows'
<1> USE DEF Follows
<1>0. ASSUME UNCHANGED <<universe, applied>> PROVE Active' = Active /\ Applied'
  BY <1>0, Untouched
<1>1. CASE StartRefresh \/ Publish \/ Download \/ SelectBatch \/ CheckPrices
  <2>1. UNCHANGED <<universe, applied>> /\ refresh' # "write"
    BY <1>1 DEF StartRefresh, Publish, Download, SelectBatch, CheckPrices, run
  <2>2. refresh' \in {"select", "check", "record"} =>
          refresh \in {"select", "check", "record"} /\ UNCHANGED <<snapshot, runDay>>
    BY <1>1 DEF StartRefresh, Publish, Download, SelectBatch, CheckPrices, run
  <2>3. Finished'
    BY <1>0, <2>1, <2>2 DEF Finished
  <2> QED  BY <1>0, <2>1, <2>3 DEF Progress, NothingLeft
<1>2. CASE Compare
  <2> DEFINE known == {s \in DOMAIN snapshot \cap DOMAIN universe : universe[s].active}
  <2>1. /\ diff' = DiffUniverseSnapshot(universe, snapshot) /\ refresh' = "write"
        /\ UNCHANGED <<universe, runDay, snapshot, applied>>
    BY <1>2 DEF Compare
  <2>2. /\ diff'.delisted = {s \in DOMAIN universe : universe[s].active} \ DOMAIN snapshot
        /\ diff'.unchanged = {s \in known : IsUnchanged(snapshot[s], universe[s])}
        /\ DOMAIN diff'.new = DOMAIN snapshot \ known
        /\ DOMAIN diff'.changed = known \ diff'.unchanged
    BY <2>1 DEF DiffUniverseSnapshot
  <2>3. /\ \A s \in DOMAIN diff'.new : Fresh(diff'.new[s], snapshot[s], runDay)
        /\ \A s \in DOMAIN diff'.changed : Fresh(diff'.changed[s], snapshot[s], runDay)
    BY <2>1, DiffIsSound DEF RowsInv
  <2>4. Progress'
    BY <2>1, <2>2, <2>3 DEF Progress, IsUnchanged
  <2>5. ASSUME snapshot \in applied
        PROVE  DOMAIN diff'.new = {} /\ DOMAIN diff'.changed = {} /\ diff'.delisted = {}
    <3>1. /\ Active = DOMAIN snapshot
          /\ \A s \in DOMAIN snapshot : universe[s].raw = snapshot[s]
      BY <2>5 DEF Applied
    <3>2. known = DOMAIN snapshot
      BY <3>1 DEF Active
    <3>3. diff'.unchanged = known
      <4>1. ASSUME NEW s \in known PROVE IsUnchanged(snapshot[s], universe[s])
        <5>1. SoundRow(universe[s]) /\ universe[s].active /\ universe[s].raw = snapshot[s]
          BY <3>1 DEF RowsInv, Rows
        <5> QED  BY <5>1 DEF SoundRow, IsUnchanged
      <4> HIDE DEF known
      <4> QED  BY <2>2, <4>1
    <3> QED  BY <2>2, <3>1, <3>2, <3>3 DEF Active
  <2> QED  BY <2>1, <2>4, <2>5 DEF Finished, Applied, NothingLeft, Active
<1>3. CASE WriteNew
  <2>1. PICK s \in DOMAIN diff.new : /\ universe' = Overlay(universe, Only(diff.new, {s}))
                                     /\ diff' = [diff EXCEPT !.new = Only(@, DOMAIN @ \ {s})]
    BY <1>3 DEF WriteNew
  <2>2. /\ DOMAIN universe' = DOMAIN universe \cup {s}
        /\ universe'[s] = diff.new[s]
        /\ \A t \in DOMAIN universe : t # s => universe'[t] = universe[t]
    BY <2>1 DEF Overlay, Only
  <2>3. /\ DOMAIN diff'.new = DOMAIN diff.new \ {s}
        /\ \A t \in DOMAIN diff'.new : diff'.new[t] = diff.new[t]
        /\ diff'.changed = diff.changed /\ diff'.delisted = diff.delisted /\ diff'.unchanged = diff.unchanged
    BY <2>1 DEF Only, RowsInv, DiffShape
  <2>4. Progress'
    <3>1. /\ refresh = "write" /\ UNCHANGED <<runDay, snapshot>> /\ s \in DOMAIN snapshot
          /\ Fresh(diff.new[s], snapshot[s], runDay)
      BY <1>3 DEF WriteNew, Progress
    <3>2. \A t \in DOMAIN snapshot \ (DOMAIN diff'.new \cup DOMAIN diff'.changed) :
            /\ t \in DOMAIN universe' /\ universe'[t].active = TRUE /\ universe'[t].raw = snapshot[t]
            /\ t \in diff'.unchanged \/ universe'[t].lastSeen = runDay
      BY <2>2, <2>3, <3>1 DEF Progress, Fresh
    <3>3. \A t \in DOMAIN universe' : universe'[t].active => t \in DOMAIN snapshot \cup diff'.delisted
      BY <2>2, <2>3, <3>1 DEF Progress
    <3> QED  BY <2>3, <3>1, <3>2, <3>3 DEF Progress
  <2> QED  BY <1>3, <2>4 DEF WriteNew, Finished, Applied, NothingLeft
<1>4. CASE WriteChanged
  <2>1. PICK s \in DOMAIN diff.changed : /\ universe' = Overlay(universe, Only(diff.changed, {s}))
                                         /\ diff' = [diff EXCEPT !.changed = Only(@, DOMAIN @ \ {s})]
    BY <1>4 DEF WriteChanged
  <2>2. /\ DOMAIN universe' = DOMAIN universe \cup {s}
        /\ universe'[s] = diff.changed[s]
        /\ \A t \in DOMAIN universe : t # s => universe'[t] = universe[t]
    BY <2>1 DEF Overlay, Only
  <2>3. /\ DOMAIN diff'.changed = DOMAIN diff.changed \ {s}
        /\ \A t \in DOMAIN diff'.changed : diff'.changed[t] = diff.changed[t]
        /\ diff'.new = diff.new /\ diff'.delisted = diff.delisted /\ diff'.unchanged = diff.unchanged
    BY <2>1 DEF Only, RowsInv, DiffShape
  <2>4. Progress'
    <3>1. /\ refresh = "write" /\ UNCHANGED <<runDay, snapshot>> /\ s \in DOMAIN snapshot
          /\ Fresh(diff.changed[s], snapshot[s], runDay)
      BY <1>4 DEF WriteChanged, Progress
    <3>2. \A t \in DOMAIN snapshot \ (DOMAIN diff'.new \cup DOMAIN diff'.changed) :
            /\ t \in DOMAIN universe' /\ universe'[t].active = TRUE /\ universe'[t].raw = snapshot[t]
            /\ t \in diff'.unchanged \/ universe'[t].lastSeen = runDay
      BY <2>2, <2>3, <3>1 DEF Progress, Fresh
    <3>3. \A t \in DOMAIN universe' : universe'[t].active => t \in DOMAIN snapshot \cup diff'.delisted
      BY <2>2, <2>3, <3>1 DEF Progress
    <3> QED  BY <2>3, <3>1, <3>2, <3>3 DEF Progress
  <2> QED  BY <1>4, <2>4 DEF WriteChanged, Finished, Applied, NothingLeft
<1>5. CASE WriteDelisted
  <2>1. PICK s \in diff.delisted : /\ universe' = [universe EXCEPT ![s] = Delist(@)]
                                   /\ diff' = [diff EXCEPT !.delisted = @ \ {s}]
    BY <1>5 DEF WriteDelisted
  <2>2. /\ DOMAIN universe' = DOMAIN universe
        /\ s \in DOMAIN universe => universe'[s] = Delist(universe[s])
        /\ \A t \in DOMAIN universe : t # s => universe'[t] = universe[t]
    BY <2>1
  <2>3. s \in DOMAIN universe => universe'[s].active = FALSE
    BY <2>2, DelistSound DEF RowsInv, Rows
  <2>4. /\ diff'.delisted = diff.delisted \ {s}
        /\ diff'.new = diff.new /\ diff'.changed = diff.changed /\ diff'.unchanged = diff.unchanged
    BY <2>1 DEF RowsInv, DiffShape
  <2>5. Progress'
    BY <1>5, <2>2, <2>3, <2>4 DEF WriteDelisted, Progress
  <2> QED  BY <1>5, <2>5 DEF WriteDelisted, Finished, Applied, NothingLeft
<1>6. CASE WriteUnchanged
  <2>1. PICK s \in diff.unchanged : /\ universe' = [universe EXCEPT ![s].lastSeen = runDay]
                                    /\ diff' = [diff EXCEPT !.unchanged = @ \ {s}]
    BY <1>6 DEF WriteUnchanged
  <2>2. /\ DOMAIN universe' = DOMAIN universe
        /\ s \in DOMAIN universe => universe'[s] = [universe[s] EXCEPT !.lastSeen = runDay]
        /\ \A t \in DOMAIN universe : t # s => universe'[t] = universe[t]
    BY <2>1
  <2>3. s \in DOMAIN universe => /\ universe'[s].active = universe[s].active
                                 /\ universe'[s].raw = universe[s].raw /\ universe'[s].lastSeen = runDay
    BY <2>2 DEF RowsInv, Rows, SoundRow, Fields
  <2>4. /\ diff'.unchanged = diff.unchanged \ {s}
        /\ diff'.new = diff.new /\ diff'.changed = diff.changed /\ diff'.delisted = diff.delisted
    BY <2>1 DEF RowsInv, DiffShape
  <2>5. Progress'
    BY <1>6, <2>2, <2>3, <2>4 DEF WriteUnchanged, Progress
  <2>6. Applied'
    <3>1. applied' = applied
      BY <1>6 DEF WriteUnchanged
    <3> QED  BY <2>2, <2>3, <3>1, Untouched
  <2> QED  BY <1>6, <2>4, <2>5, <2>6 DEF WriteUnchanged, Finished, NothingLeft
<1>7. CASE Written
  <2>1. /\ Active = DOMAIN snapshot
        /\ \A s \in DOMAIN snapshot : universe[s].raw = snapshot[s] /\ universe[s].lastSeen = runDay
    BY <1>7 DEF Written, Progress, Active
  <2> QED  BY <1>7, <2>1 DEF Written, run, Progress, Finished, Applied, NothingLeft, Active
<1>8. CASE RecordPrice
  <2>1. PICK s \in DOMAIN quotes : universe' = [universe EXCEPT ![s] = Priced(@, batch[s], quotes[s])]
    BY <1>8 DEF RecordPrice
  <2>2. /\ DOMAIN universe' = DOMAIN universe
        /\ s \in DOMAIN universe => universe'[s] = Priced(universe[s], batch[s], quotes[s])
        /\ \A t \in DOMAIN universe : t # s => universe'[t] = universe[t]
    BY <2>1
  <2>3. s \in DOMAIN universe => AsRead(universe[s], batch[s])
    BY <1>8 DEF RecordPrice, RowsInv, Captured
  <2>4. \A t \in DOMAIN universe : AsRead(universe'[t], universe[t]) /\ universe'[t].lastSeen = universe[t].lastSeen
    BY <2>2, <2>3, PricedSound DEF RowsInv, Rows, AsRead
  <2>5. Active' = Active /\ Applied'
    BY <1>8, <2>2, <2>4, Untouched DEF RecordPrice, AsRead
  <2>6. Finished'
    BY <1>8, <2>2, <2>4, <2>5 DEF RecordPrice, Finished, Active, AsRead
  <2> QED  BY <1>8, <2>5, <2>6 DEF RecordPrice, Progress, NothingLeft
<1>9. CASE Complete \/ Fail \/ RefreshCrash
  <2>1. UNCHANGED <<universe, applied>> /\ refresh' = "idle"
    BY <1>9 DEF Complete, Fail, RefreshCrash
  <2> QED  BY <1>0, <2>1 DEF Progress, Finished, NothingLeft
<1>10. CASE UNCHANGED universeVars
  BY <1>10 DEF universeVars, run, Progress, Finished, Applied, NothingLeft, Active
<1> QED  BY <1>1, <1>2, <1>3, <1>4, <1>5, <1>6, <1>7, <1>8, <1>9, <1>10 DEF UniverseNext

\* A refresh that ends anywhere leaves no instrument eligible that should not be; once the
\* four groups are written the table is the listing, also behind runs that wrote only some
\* of theirs, and a run that finds the applied listing again has nothing to write.
THEOREM Refreshed == UniverseSpec => []UniverseIsSound
<1>1. RowsInv => EligibleIsSound
  BY SoundMeansEligible DEF RowsInv, Rows, EligibleIsSound
<1>2. Follows => UniverseFollowsListing
  BY DEF Follows, Finished, NothingLeft, Active, UniverseFollowsListing
<1>3. RowsInv /\ [UniverseNext]_universeVars => RowsInv'
  BY RowsInvStep, CapturedStep
<1>4. RowsInv /\ Follows /\ [UniverseNext]_universeVars => Follows'
  BY FollowsStep
<1>5. EligibleIsSound /\ UniverseFollowsListing => UniverseIsSound
  BY DEF UniverseIsSound
<1> QED  BY <1>1, <1>2, <1>3, <1>4, <1>5, RowsInvInit, FollowsInit, PTL DEF UniverseSpec
-----------------------------------------------------------------------------
(* HermesScan *)

\* The members of a list are finitely many.
LEMMA ListIsFinite ==
    ASSUME NEW s, s \in Seq(ToSet(s))
    PROVE  IsFiniteSet(ToSet(s))
<1>1. s \in Surjection(1 .. Len(s), ToSet(s)) /\ Len(s) \in Nat
    BY LenProperties DEF ToSet, Surjection
<1> QED  BY <1>1, FS_Interval, FS_Surjection

\* What is ranked: proposals of known instruments, one per instrument.
Rankable(ps) ==
    /\ IsFiniteSet(ps)
    /\ \A p \in ps : p.instrument \in Instruments /\ p.confidence \in Int
    /\ \A p, q \in ps : p.instrument = q.instrument => p = q

\* The ranking is a strict order.
LEMMA RankingIsStrict ==
    ASSUME NEW ps, Rankable(ps)
    PROVE  /\ \A p \in ps : ~RankedBefore(p, p)
           /\ \A p, q, r \in ps : RankedBefore(p, q) /\ RankedBefore(q, r) => RankedBefore(p, r)
           /\ \A p, q \in ps : p # q => RankedBefore(p, q) \/ RankedBefore(q, p)
<1>1. \A i \in Instruments : Place(i) \in Int /\ ScanUniverse[Place(i)] = i
    <2> SUFFICES ASSUME NEW i \in Instruments PROVE Place(i) \in Int /\ ScanUniverse[Place(i)] = i
        OBVIOUS
    <2>1. \E n \in DOMAIN ScanUniverse : ScanUniverse[n] = i
        BY DEF Instruments, ToSet
    <2>2. Place(i) \in DOMAIN ScanUniverse /\ ScanUniverse[Place(i)] = i
        BY <2>1 DEF Place
    <2>3. DOMAIN ScanUniverse \subseteq Int
        BY ScanAssumption, LenProperties
    <2> QED  BY <2>2, <2>3
<1>2. \A p, q \in ps : p # q => Place(p.instrument) # Place(q.instrument)
    BY <1>1 DEF Rankable
<1>3. \A p \in ps : p.confidence \in Int /\ Place(p.instrument) \in Int
    BY <1>1 DEF Rankable
<1> QED  BY <1>2, <1>3 DEF RankedBefore

\* No more than n proposals come first.
LEMMA FirstAreFew ==
    ASSUME NEW ps, Rankable(ps), NEW n \in Nat
    PROVE  IsFiniteSet(First(n, ps)) /\ Cardinality(First(n, ps)) <= n
<1> DEFINE T == First(n, ps)
           Earlier(p) == {q \in ps : RankedBefore(q, p)}
           f == [p \in T |-> Cardinality(Earlier(p))]
<1>1. \A p \in ps : IsFiniteSet(Earlier(p)) /\ Cardinality(Earlier(p)) \in Nat
    BY FS_Subset, FS_CardinalityType DEF Rankable
<1>2. T \subseteq ps /\ \A p \in T : f[p] \in 0 .. (n - 1)
    BY <1>1 DEF First, Rank
<1>3. ASSUME NEW p \in T, NEW q \in T, RankedBefore(p, q) PROVE f[p] < f[q]
    <2>1. Earlier(p) \subseteq Earlier(q) /\ p \in Earlier(q) /\ p \notin Earlier(p)
        BY <1>2, <1>3, RankingIsStrict
    <2>2. Cardinality(Earlier(p)) < Cardinality(Earlier(q))
        <3> HIDE DEF Earlier
        <3>1. Cardinality(Earlier(p)) <= Cardinality(Earlier(q)) /\ Cardinality(Earlier(p)) # Cardinality(Earlier(q))
            BY <1>1, <1>2, <2>1, FS_Subset
        <3> QED  BY <1>1, <1>2, <3>1
    <2> QED  BY <2>2
<1>4. \A p, q \in T : f[p] = f[q] => p = q
    <2>1. ASSUME NEW p \in T, NEW q \in T, f[p] = f[q], p # q PROVE FALSE
        <3>1. RankedBefore(p, q) \/ RankedBefore(q, p)
            BY <1>2, <2>1, RankingIsStrict
        <3>2. f[p] \in Int
            BY <1>2
        <3> HIDE DEF f
        <3> QED  BY <1>3, <2>1, <3>1, <3>2
    <2> QED  BY <2>1
<1>5. f \in Injection(T, 0 .. (n - 1))
    BY <1>2, <1>4 DEF Injection, IsInjective
<1>6. IsFiniteSet(0 .. (n - 1)) /\ Cardinality(0 .. (n - 1)) = n
    BY FS_Interval
<1> HIDE DEF f, T
<1> QED  BY <1>5, <1>6, FS_Injection DEF T

\* A set is not smaller than what a function makes of it.
LEMMA ImageBound ==
    ASSUME NEW S, IsFiniteSet(S), NEW f, DOMAIN f = S
    PROVE  /\ IsFiniteSet({f[x] : x \in S}) /\ Cardinality({f[x] : x \in S}) \in Nat
           /\ Cardinality({f[x] : x \in S}) <= Cardinality(S)
<1> DEFINE g == [x \in S |-> f[x]]
           T == {f[x] : x \in S}
<1>1. g \in Surjection(S, T)
    BY DEF Surjection
<1> HIDE DEF g, T
<1>2. IsFiniteSet(T) /\ Cardinality(T) <= Cardinality(S)
    BY <1>1, FS_Surjection
<1> QED  BY <1>2, FS_CardinalityType DEF T

\* What the scan selects from an accepted answer.
LEMMA SelectionFits ==
    ASSUME NEW answer \in Answers, Accepted(answer), adapterList \subseteq Instruments,
           NEW S, S = Selected(answer), NEW B, B = {p \in S : p.action = "BUY"}
    PROVE  /\ IsFiniteSet(S) /\ Cardinality(S) <= MAX_PROPOSALS
           /\ \A p, q \in S : p.instrument = q.instrument => p = q
           /\ \A p \in S : p.instrument \in eligible' /\ (p.action = "BUY" <=> p.instrument \notin adapterList)
           /\ B # {} => Cardinality(B) + Cardinality(adapterList) <= MAX_OPEN_POSITIONS
<1> DEFINE all     == RankEligibleProposals(answer.proposals)
           top     == SelectTopProposals(answer.proposals)
           fitting == {p \in top : Executable(p)}
           buys    == {p \in fitting : p.action = "BUY"}
           room    == MAX_OPEN_POSITIONS - Cardinality(adapterList)
<1>1. Rankable(all)
    <2> DEFINE ps == answer.proposals
    <2>1. ps \in Seq(ToSet(ps))
        BY ScanAssumption
    <2>2. IsFiniteSet(ToSet(ps))
        BY <2>1, ListIsFinite
    <2>3. \A p \in ToSet(ps) : p.instrument \in Instruments /\ p.confidence \in Int
        <3> SUFFICES ASSUME NEW p \in ToSet(ps) PROVE p.instrument \in Instruments /\ p.confidence \in Int
            OBVIOUS
        <3>1. ValidProposal(p)
            BY DEF Accepted, ToSet
        <3>2. p.instrument \in Instruments /\ p.confidence \in 0 .. 100
            BY <3>1 DEF ValidProposal
        <3> QED  BY <3>2
    <2>4. \A p, q \in ToSet(ps) : p.instrument = q.instrument => p = q
        BY DEF Accepted, ToSet
    <2> HIDE DEF ps
    <2>5. all \subseteq ToSet(ps)
        BY DEF RankEligibleProposals, ps
    <2> HIDE DEF all
    <2> QED  BY <2>2, <2>3, <2>4, <2>5, FS_Subset DEF Rankable
<1>2. top = First(MAX_PROPOSALS, all) /\ top \subseteq all
    BY DEF SelectTopProposals, First
<1>3. IsFiniteSet(top) /\ Cardinality(top) <= MAX_PROPOSALS
    BY <1>1, <1>2, ScanAssumption, FirstAreFew
<1>4. S = (fitting \ buys) \cup First(room, buys) /\ First(room, buys) \subseteq buys
    BY DEF Selected, First
<1>5. \A p \in fitting : p.instrument \in eligible' /\ (p.action = "BUY" <=> p.instrument \notin adapterList)
    BY DEF Executable
<1> HIDE DEF all, top
<1>6. Rankable(buys)
    <2>1. buys \subseteq all
        BY <1>2
    <2> HIDE DEF buys
    <2> QED  BY <1>1, <2>1, FS_Subset DEF Rankable
<1>7. S \subseteq top /\ S \subseteq fitting /\ B = First(room, buys)
    BY <1>4
<1>8. IsFiniteSet(S) /\ Cardinality(S) <= MAX_PROPOSALS
    <2>1. IsFiniteSet(S) /\ Cardinality(S) \in Nat /\ Cardinality(top) \in Nat /\ Cardinality(S) <= Cardinality(top)
        BY <1>3, <1>7, FS_Subset, FS_CardinalityType
    <2> QED  BY <1>3, <2>1, ScanAssumption
<1>9. \A p, q \in S : p.instrument = q.instrument => p = q
    BY <1>1, <1>2, <1>7 DEF Rankable
<1>10. ASSUME B # {} PROVE Cardinality(B) + Cardinality(adapterList) <= MAX_OPEN_POSITIONS
    <2>1. IsFiniteSet(Instruments)
        BY ScanAssumption, ListIsFinite DEF Instruments
    <2>2. Cardinality(adapterList) \in Nat
        BY <2>1, FS_Subset, FS_CardinalityType
    <2>3. room \in Int
        BY <2>2, ScanAssumption
    <2> HIDE DEF buys
    <2>4. PICK p \in buys : Rank(p, buys) < room
        BY <1>7, <1>10 DEF First
    <2>5. Rank(p, buys) \in Nat
        BY <1>6, FS_Subset, FS_CardinalityType DEF Rank, Rankable
    <2>6. room \in Nat
        BY <2>3, <2>4, <2>5
    <2> HIDE DEF room
    <2>7. Cardinality(B) <= room /\ Cardinality(B) \in Nat
        BY <1>6, <1>7, <2>6, FirstAreFew, FS_CardinalityType
    <2> QED  BY <2>2, <2>7, ScanAssumption DEF room
<1> QED  BY <1>5, <1>7, <1>8, <1>9, <1>10

\* Phase B has the proposals of its own cycle, about instruments the scan could price; while the
\* scan runs nothing has been decided yet.
Current ==
    /\ live \subseteq Instruments /\ adapterList \subseteq Instruments /\ unvisited \subseteq Instruments
    /\ stage = "act" => \A p \in scanProposals : p.from = scanCycle /\ p.instrument \in eligible
    /\ stage = "scan" => decided = {}
    /\ ActsOnFreshProposals /\ SelectionFitsAccount

\* A scan whose answer is accepted or refused.
LEMMA ScanKeeps == ASSUME Current, Scan PROVE Current'
<1>1. /\ UNCHANGED <<scanCycle, live, adapterList, decided>> /\ decided = {} /\ stage' = "act"
      /\ unvisited' = Instruments
    BY DEF Scan, Current
<1>2. CASE scanProposals' = {}
    <2>1. SelectionFitsAccount'
        <3>1. Cardinality({}) = 0
            BY FS_EmptySet
        <3> QED  BY <1>1, <1>2, <3>1, ScanAssumption DEF SelectionFitsAccount
    <2> QED  BY <1>1, <1>2, <2>1 DEF Current, ActsOnFreshProposals
<1>3. CASE scanProposals' # {}
    <2>1. PICK answer \in Answers :
             /\ Accepted(answer)
             /\ scanProposals' = {[instrument |-> p.instrument, action |-> p.action, confidence |-> p.confidence,
                                   from |-> scanCycle] : p \in Selected(answer)}
        BY <1>3 DEF Scan
    <2>2. PICK S : S = Selected(answer)
        OBVIOUS
    <2>3. PICK B : B = {p \in S : p.action = "BUY"}
        OBVIOUS
    <2> DEFINE f == [p \in S |-> [instrument |-> p.instrument, action |-> p.action,
                                  confidence |-> p.confidence, from |-> scanCycle]]
               b == [p \in B |-> p.instrument]
    <2>4. /\ IsFiniteSet(S) /\ Cardinality(S) <= MAX_PROPOSALS /\ Cardinality(S) \in Nat
          /\ \A p, q \in S : p.instrument = q.instrument => p = q
          /\ \A p \in S : p.instrument \in eligible' /\ (p.action = "BUY" <=> p.instrument \notin adapterList)
          /\ B # {} => Cardinality(B) + Cardinality(adapterList) <= MAX_OPEN_POSITIONS
        BY <2>1, <2>2, <2>3, SelectionFits, FS_CardinalityType DEF Current
    <2>5. scanProposals' = {f[p] : p \in S}
        BY <2>1, <2>2
    <2>6. /\ \A p \in S : /\ f[p].instrument = p.instrument /\ f[p].action = p.action /\ f[p].from = scanCycle
        OBVIOUS
    <2>7. Cardinality(scanProposals') <= MAX_PROPOSALS
        <3> HIDE DEF f
        <3>1. DOMAIN f = S
            BY DEF f
        <3>2. Cardinality({f[p] : p \in S}) <= Cardinality(S) /\ Cardinality({f[p] : p \in S}) \in Nat
            BY <2>4, <3>1, ImageBound
        <3> QED  BY <2>4, <2>5, <3>2, ScanAssumption
    <2> HIDE DEF f
    <2> DEFINE buys == {p.instrument : p \in {q \in scanProposals' : q.action = "BUY"}}
    <2>8. buys = {p.instrument : p \in B}
        BY <2>3, <2>5, <2>6
    <2>9. buys # {} => Cardinality(buys \cup adapterList) <= MAX_OPEN_POSITIONS
        <3>1. IsFiniteSet(B) /\ Cardinality(B) \in Nat
            BY <2>3, <2>4, FS_Subset, FS_CardinalityType
        <3>2. buys = {b[p] : p \in B} /\ DOMAIN b = B
            BY <2>8
        <3> HIDE DEF b
        <3>3. IsFiniteSet(buys) /\ Cardinality(buys) \in Nat /\ Cardinality(buys) <= Cardinality(B)
            BY <3>1, <3>2, ImageBound
        <3>4. IsFiniteSet(adapterList) /\ Cardinality(adapterList) \in Nat
            BY ScanAssumption, ListIsFinite, FS_Subset, FS_CardinalityType DEF Instruments, Current
        <3>5. buys # {} => B # {}
            BY <2>8
        <3> HIDE DEF buys
        <3>6. /\ Cardinality(buys \cup adapterList) = Cardinality(buys) + Cardinality(adapterList) - Cardinality(buys \cap adapterList)
              /\ Cardinality(buys \cap adapterList) \in Nat
            BY <3>3, <3>4, FS_Union, FS_Intersection, FS_CardinalityType
        <3> QED  BY <2>4, <3>1, <3>3, <3>4, <3>5, <3>6, ScanAssumption
    <2>10. SelectionFitsAccount'
        <3>1. \A p, q \in scanProposals' : p.instrument = q.instrument => p = q
            BY <2>4, <2>5, <2>6
        <3>2. buys \cap adapterList = {}
            BY <2>3, <2>4, <2>8
        <3>3. \A p \in scanProposals' : p.action = "SELL" => p.instrument \in adapterList
            BY <2>4, <2>5, <2>6
        <3> QED  BY <1>1, <2>7, <2>9, <3>1, <3>2, <3>3 DEF SelectionFitsAccount
    <2>11. \A p \in scanProposals' : p.from = scanCycle /\ p.instrument \in eligible'
        BY <2>4, <2>5, <2>6
    <2> QED  BY <1>1, <2>10, <2>11 DEF Current, ActsOnFreshProposals
<1> QED  BY <1>2, <1>3

\* The other steps.
LEMMA CurrentInductive == Current /\ [ScanNext]_scanVars => Current'
<1> SUFFICES ASSUME Current, [ScanNext]_scanVars PROVE Current'
    OBVIOUS
<1>1. CASE BeginCycle
    BY <1>1 DEF BeginCycle, Current, ActsOnFreshProposals, SelectionFitsAccount
<1>2. CASE Scan
    BY <1>2, ScanKeeps
<1>3. CASE ScanFails
    <2>1. UNCHANGED <<scanCycle, live, adapterList, decided>> /\ decided = {} /\ stage' = "act"
          /\ unvisited' = Instruments /\ scanProposals' = {}
        BY <1>3 DEF ScanFails, Current
    <2>2. Cardinality({}) = 0
        BY FS_EmptySet
    <2>3. SelectionFitsAccount'
        BY <2>1, <2>2, ScanAssumption DEF SelectionFitsAccount
    <2> QED  BY <2>1, <2>3 DEF Current, ActsOnFreshProposals
<1>4. CASE AgentRestart
    BY <1>4 DEF AgentRestart, Current, ActsOnFreshProposals, SelectionFitsAccount
<1>5. ASSUME NEW i \in unvisited, Act(i) PROVE Current'
    <2>1. /\ stage = "act" /\ stage' \in {"between", "act"} /\ i \in Instruments
          /\ unvisited' = unvisited \ {i} /\ decided' = decided \cup {AgentDecision(i)}
          /\ UNCHANGED <<scanCycle, scanProposals, eligible>>
          /\ live' \subseteq live \cup {i} /\ adapterList' \subseteq adapterList \cup {i}
        BY <1>5 DEF Act, Current
    <2>2. AgentDecision(i).action # "HOLD" => AgentDecision(i).from = scanCycle /\ AgentDecision(i).instrument \in eligible
        <3> DEFINE wanted == IF i \in live THEN "SELL" ELSE "BUY"
                   mine == {p \in scanProposals : p.instrument = i /\ p.action = wanted}
        <3>1. CASE mine = {}
            BY <3>1 DEF AgentDecision
        <3>2. CASE mine # {}
            <4>1. (CHOOSE p \in mine : TRUE) \in mine
                BY <3>2
            <4>2. (CHOOSE p \in mine : TRUE).from = scanCycle /\ i \in eligible
                BY <2>1, <4>1 DEF Current
            <4>3. AgentDecision(i).from = (CHOOSE p \in mine : TRUE).from /\ AgentDecision(i).instrument = i
                BY <3>2 DEF AgentDecision
            <4> QED  BY <4>2, <4>3
        <3> QED  BY <3>1, <3>2
    <2>3. ActsOnFreshProposals'
        BY <2>1, <2>2 DEF Current, ActsOnFreshProposals
    <2>4. SelectionFitsAccount'
        BY <2>1 DEF SelectionFitsAccount
    <2> QED  BY <2>1, <2>3, <2>4 DEF Current
<1>6. CASE UNCHANGED scanVars
    BY <1>6 DEF scanVars, Current, ActsOnFreshProposals, SelectionFitsAccount
<1> QED  BY <1>1, <1>2, <1>3, <1>4, <1>5, <1>6 DEF ScanNext

\* A cycle acts on the proposals of its own scan only, and a scan selects no more than the account
\* has room for, one per instrument and none that could not be executed: whatever the agent
\* answers, whichever scan fails and whatever happens to the account by hand (universe-scanner.ts).
THEOREM ScanStaysSound == ScanSpec => []ScanIsSound
<1>1. ScanInit => Current
    BY DEF ScanInit, Current, ActsOnFreshProposals, SelectionFitsAccount
<1>2. Current => ScanIsSound
    BY DEF Current, ScanIsSound
<1> QED  BY <1>1, <1>2, CurrentInductive, PTL DEF ScanSpec

-----------------------------------------------------------------------------
(* Acquisition *)

Version(m) == 1 .. published[m]
Entry == [role : ToSet(RoleOrder), made : UNION {[MonthsOf[r] -> Nat] : r \in ToSet(RoleOrder)}]

\* What the exchange has published, the cache holds or held; damage does not reach a checksum.
CacheIsPublished ==
    /\ DOMAIN published = RequiredMonth /\ \A m \in RequiredMonth : published[m] \in Nat \ {0}
    /\ DOMAIN zip = RequiredMonth /\ \A m \in RequiredMonth : zip[m] \in Version(m) \cup {NoArchive, Damaged}
    /\ DOMAIN checksum = RequiredMonth /\ \A m \in RequiredMonth : checksum[m] \in Version(m) \cup {NoArchive}

\* The checksum at hand is one the exchange gave for the month at hand.
DownloadIsKnown ==
    /\ acquiring \in {"checksum", "zip", "saveZip", "saveChecksum"} => todo \in Seq(RequiredMonth) \ {<<>>}
    /\ acquiring \in {"zip", "saveZip", "saveChecksum"} => expected \in Version(Head(todo))

\* What the datasets are made of was verified, and those the run no longer has to write are there.
ReadingIsVerified ==
    acquiring \in {"write", "list"} =>
        /\ left \in Seq(ToSet(RoleOrder)) \ {<<>>}
        /\ \A m \in RequiredMonth : archives[m] \in Version(m)
        /\ acquiring = "write" => \A r \in ToSet(RoleOrder) \ ToSet(left) : dataset[r] = Made(r)
        /\ acquiring = "list" => \A r \in ToSet(RoleOrder) : dataset[r] = Made(r)

\* A dataset is missing or made of published versions of its own months, and so is what the manifest
\* says of it: an entry that promises nothing is about a role without months.
DatasetsArePublished ==
    /\ DOMAIN dataset = ToSet(RoleOrder)
    /\ \A r \in ToSet(RoleOrder) : \A m \in DOMAIN dataset[r] : m \in RequiredMonth /\ dataset[r][m] \in Version(m)
    /\ manifest \in Seq(Entry)
    /\ \A e \in ToSet(manifest) : dataset[e.role] = e.made /\ e.made \in [MonthsOf[e.role] -> Nat]

Acquired == CacheIsPublished /\ DownloadIsKnown /\ ReadingIsVerified /\ DatasetsArePublished

\* A step that ends the run, or leaves the run as it is, with the files as they are.
LEMMA StopKeeps ==
    ASSUME Acquired, EndRun, UNCHANGED <<published, zip, checksum, dataset, manifest>>
    PROVE  Acquired'
BY DEF Acquired, EndRun, CacheIsPublished, DownloadIsKnown, ReadingIsVerified, DatasetsArePublished, Version

\* A download and its checksum.
LEMMA DownloadKeeps ==
    ASSUME Acquired,
           Begin \/ FetchFails \/ FetchChecksum \/ FetchZip \/ SaveZip \/ SaveChecksum
    PROVE  Acquired'
<1> USE DEF Acquired, fetching, making
<1>1. CASE EndRun /\ UNCHANGED <<published, zip, checksum, dataset, manifest>>
    BY <1>1, StopKeeps
<1> SUFFICES ASSUME ~(EndRun /\ UNCHANGED <<published, zip, checksum, dataset, manifest>>)
             PROVE  Acquired'
    BY <1>1
<1>2. UNCHANGED <<published, dataset, manifest, archives, left>> /\ acquiring' \notin {"write", "list"}
    BY DEF Begin, FetchFails, FetchChecksum, FetchZip, SaveZip, SaveChecksum
<1>3. DatasetsArePublished' /\ ReadingIsVerified'
    BY <1>2 DEF DatasetsArePublished, ReadingIsVerified, Version
<1>4. todo # <<>> /\ todo \in Seq(RequiredMonth) => Head(todo) \in RequiredMonth
    BY HeadTailProperties
<1>5. CASE Begin
    <2>1. PICK i, j \in DOMAIN Required : i <= j /\ todo' = SubSeq(Required, i, j)
        BY <1>5 DEF Begin
    <2>2. /\ Len(Required) \in Nat /\ i \in 1 .. Len(Required) /\ j \in 1 .. Len(Required)
          /\ \A k \in i .. j : Required[k] \in RequiredMonth
        BY LenProperties, ElementOfSeq, PlanAssumption
    <2>3. todo' \in Seq(RequiredMonth) /\ Len(todo') = j - i + 1
        BY <2>1, <2>2, SubSeqProperties
    <2>4. todo' # <<>>
        <3>1. Len(todo') > 0 /\ Len(<<>>) = 0
            BY <2>1, <2>2, <2>3
        <3> QED  BY <3>1
    <2> QED  BY <1>2, <1>3, <1>5, <2>3, <2>4 DEF Begin, CacheIsPublished, DownloadIsKnown, Version
<1>6. CASE FetchFails
    BY <1>2, <1>3, <1>6 DEF FetchFails, CacheIsPublished, DownloadIsKnown, Version
<1>7. CASE FetchChecksum
    <2>1. expected' \in Version(Head(todo))
        BY <1>4, <1>7 DEF FetchChecksum, DownloadIsKnown, CacheIsPublished, Version
    <2> QED  BY <1>2, <1>3, <1>7, <2>1 DEF FetchChecksum, CacheIsPublished, DownloadIsKnown, Version
<1>8. CASE FetchZip
    BY <1>2, <1>3, <1>8 DEF FetchZip, CacheIsPublished, DownloadIsKnown, Version
<1>9. CASE SaveZip
    BY <1>2, <1>3, <1>4, <1>9 DEF SaveZip, CacheIsPublished, DownloadIsKnown, Version
<1>10. CASE SaveChecksum
    <2>1. /\ todo \in Seq(RequiredMonth) /\ todo # <<>> /\ expected \in Version(Head(todo))
          /\ todo' = Tail(todo) /\ acquiring' = IF Len(todo) = 1 THEN "audit" ELSE "checksum"
          /\ checksum' = [checksum EXCEPT ![Head(todo)] = expected] /\ zip' = zip
        BY <1>10 DEF SaveChecksum, DownloadIsKnown
    <2>2. /\ todo' \in Seq(RequiredMonth) /\ Len(todo') = Len(todo) - 1 /\ Len(todo) \in Nat
        BY <2>1, HeadTailProperties, LenProperties
    <2>3. acquiring' = "checksum" => todo' # <<>>
        <3>1. todo = <<>> \/ Len(todo) > 0
            BY <2>1, EmptySeq
        <3>2. acquiring' = "checksum" => Len(todo') > 0
            BY <2>1, <2>2, <3>1
        <3>3. Len(<<>>) = 0
            OBVIOUS
        <3> QED  BY <3>2, <3>3
    <2>4. DownloadIsKnown'
        BY <2>1, <2>2, <2>3 DEF DownloadIsKnown
    <2>5. CacheIsPublished'
        BY <1>2, <2>1 DEF CacheIsPublished, Version
    <2> QED  BY <1>3, <2>4, <2>5
<1> QED  BY <1>5, <1>6, <1>7, <1>8, <1>9, <1>10

\* Only archives that agree with their checksum are read, and a checksum is never of damage.
LEMMA AuditKeeps ==
    ASSUME Acquired, AuditAndAssemble
    PROVE  Acquired'
<1> USE DEF Acquired
<1>1. CASE EndRun
    BY <1>1, StopKeeps DEF AuditAndAssemble
<1>2. CASE ~EndRun
    <2>1. /\ UNCHANGED <<published, zip, checksum, dataset, manifest>>
          /\ archives' = zip /\ left' = RoleOrder /\ acquiring' = "write"
          /\ \A m \in RequiredMonth : Verified(m)
        BY <1>2 DEF AuditAndAssemble
    <2>2. \A m \in RequiredMonth : zip[m] \in Version(m)
        BY <2>1 DEF Verified, CacheIsPublished, NoArchive
    <2> QED  BY <2>1, <2>2, PlanAssumption DEF CacheIsPublished, DownloadIsKnown, ReadingIsVerified,
                               DatasetsArePublished, Version
<1> QED  BY <1>1, <1>2

\* What is still to be written after one role is written.
LEMMA LeftShrinks ==
    ASSUME left \in Seq(ToSet(RoleOrder)) \ {<<>>}
    PROVE  /\ Head(left) \in ToSet(RoleOrder)
           /\ Len(left) # 1 => Tail(left) \in Seq(ToSet(RoleOrder)) \ {<<>>}
           /\ ToSet(left) = IF Len(left) = 1 THEN {Head(left)} ELSE {Head(left)} \cup ToSet(Tail(left))
<1>1. Len(left) \in Nat \ {0} /\ DOMAIN left = 1 .. Len(left)
    BY LenProperties, EmptySeq
<1>2. /\ Head(left) \in ToSet(RoleOrder) /\ Head(left) = left[1]
      /\ Tail(left) \in Seq(ToSet(RoleOrder)) /\ Len(Tail(left)) = Len(left) - 1
      /\ \A i \in 1 .. Len(Tail(left)) : Tail(left)[i] = left[i + 1]
    BY HeadTailProperties
<1>3. DOMAIN Tail(left) = 1 .. (Len(left) - 1)
    BY <1>2, LenProperties
<1>4. Len(left) # 1 => Tail(left) # <<>>
    <2> DEFINE t == Tail(left)
    <2>1. Len(left) # 1 => Len(t) > 0
        BY <1>1, <1>2
    <2>2. Len(<<>>) = 0
        OBVIOUS
    <2> HIDE DEF t
    <2>3. Len(left) # 1 => t # <<>>
        BY <2>1, <2>2
    <2> QED  BY <2>3 DEF t
<1>5. CASE Len(left) = 1
    BY <1>1, <1>2, <1>5 DEF ToSet
<1>6. CASE Len(left) # 1
    <2>1. ToSet(left) \subseteq {Head(left)} \cup ToSet(Tail(left))
        <3> SUFFICES ASSUME NEW i \in 1 .. Len(left), i # 1
                     PROVE  left[i] \in ToSet(Tail(left))
            BY <1>1, <1>2 DEF ToSet
        <3>1. i - 1 \in 1 .. (Len(left) - 1)
            BY <1>1
        <3>2. Tail(left)[i - 1] = left[i]
            BY <1>1, <1>2, <3>1
        <3> QED  BY <1>3, <3>1, <3>2 DEF ToSet
    <2>2. ToSet(Tail(left)) \subseteq ToSet(left)
        <3> SUFFICES ASSUME NEW i \in 1 .. (Len(left) - 1)
                     PROVE  Tail(left)[i] \in ToSet(left)
            BY <1>3 DEF ToSet
        <3>1. i + 1 \in 1 .. Len(left) /\ Tail(left)[i] = left[i + 1]
            BY <1>1, <1>2
        <3> QED  BY <1>1, <3>1 DEF ToSet
    <2>3. Head(left) \in ToSet(left)
        BY <1>1, <1>2 DEF ToSet
    <2>4. ToSet(left) = {Head(left)} \cup ToSet(Tail(left))
        BY <2>1, <2>2, <2>3, Zenon
    <2> QED  BY <1>2, <1>4, <1>6, <2>4
<1> QED  BY <1>2, <1>4, <1>5, <1>6

\* A dataset is written once, from what was verified.
LEMMA WriteKeeps ==
    ASSUME Acquired, WriteNext
    PROVE  Acquired'
<1> USE DEF Acquired
<1> DEFINE role == Head(left)
<1>1. CASE EndRun /\ dataset' = dataset
    BY <1>1, StopKeeps DEF WriteNext
<1>2. CASE ~(EndRun /\ dataset' = dataset)
    <2>1. /\ acquiring = "write" /\ UNCHANGED <<published, zip, checksum, manifest, archives>>
          /\ dataset[role] = <<>> /\ dataset' = [dataset EXCEPT ![role] = Made(role)]
          /\ IF Len(left) = 1 THEN left' = RoleOrder /\ acquiring' = "list" ELSE left' = Tail(left) /\ acquiring' = "write"
        BY <1>2 DEF WriteNext, WriteDataset
    <2>2. /\ left \in Seq(ToSet(RoleOrder)) \ {<<>>}
          /\ \A m \in RequiredMonth : archives[m] \in Version(m)
          /\ \A r \in ToSet(RoleOrder) \ ToSet(left) : dataset[r] = Made(r)
        BY <2>1 DEF ReadingIsVerified
    <2>3. /\ role \in ToSet(RoleOrder)
          /\ Len(left) # 1 => Tail(left) \in Seq(ToSet(RoleOrder)) \ {<<>>}
          /\ ToSet(left) = IF Len(left) = 1 THEN {role} ELSE {role} \cup ToSet(Tail(left))
        BY <2>2, LeftShrinks
    <2>4. /\ \A m \in DOMAIN Made(role) : m \in RequiredMonth /\ Made(role)[m] \in Version(m)
          /\ Made(role) \in [MonthsOf[role] -> Nat]
        <3>1. MonthsOf[role] \subseteq RequiredMonth
            BY <2>3, PlanAssumption
        <3>2. \A m \in RequiredMonth : archives[m] \in Nat
            BY <2>2 DEF CacheIsPublished, Version
        <3> QED  BY <2>2, <3>1, <3>2 DEF Made
    <2>5. /\ DOMAIN dataset = ToSet(RoleOrder)
          /\ \A r \in ToSet(RoleOrder) : dataset'[r] = IF r = role THEN Made(role) ELSE dataset[r]
        BY <2>1, <2>3 DEF DatasetsArePublished
    <2>6. \A r : Made(r)' = Made(r)
        BY <2>1 DEF Made
    <2>7. \A e \in ToSet(manifest) : e.role = role => e.made = Made(role)
        <3> SUFFICES ASSUME NEW e \in ToSet(manifest), e.role = role PROVE e.made = Made(role)
            OBVIOUS
        <3>1. e.made = <<>> /\ e.made \in [MonthsOf[role] -> Nat]
            BY <2>1 DEF DatasetsArePublished
        <3>2. DOMAIN <<>> = {}
            OBVIOUS
        <3>3. MonthsOf[role] = {}
            BY <3>1, <3>2
        <3> QED  BY <2>4, <3>1, <3>3
    <2>8. \A e \in ToSet(manifest) : e.role \in ToSet(RoleOrder)
        <3>1. DOMAIN manifest = 1 .. Len(manifest)
            BY LenProperties DEF DatasetsArePublished
        <3>2. \A i \in 1 .. Len(manifest) : manifest[i] \in Entry
            BY ElementOfSeq DEF DatasetsArePublished
        <3>3. \A x \in Entry : x.role \in ToSet(RoleOrder)
            BY DEF Entry
        <3> QED  BY <3>1, <3>2, <3>3 DEF ToSet
    <2> HIDE DEF role
    <2>9. DatasetsArePublished'
        <3>1. DOMAIN dataset' = ToSet(RoleOrder)
            BY <2>1, <2>5
        <3>2. \A r \in ToSet(RoleOrder) : \A m \in DOMAIN dataset'[r] : m \in RequiredMonth /\ dataset'[r][m] \in Version(m)
            BY <2>4, <2>5 DEF DatasetsArePublished
        <3>3. \A e \in ToSet(manifest) : dataset'[e.role] = e.made /\ e.made \in [MonthsOf[e.role] -> Nat]
            BY <2>5, <2>7, <2>8 DEF DatasetsArePublished
        <3> QED  BY <2>1, <3>1, <3>2, <3>3 DEF DatasetsArePublished, Version
    <2>10. ReadingIsVerified'
        BY <2>1, <2>2, <2>3, <2>5, <2>6, PlanAssumption DEF ReadingIsVerified, Version, role
    <2>11. CacheIsPublished' /\ DownloadIsKnown'
        BY <2>1 DEF CacheIsPublished, DownloadIsKnown, Version
    <2> QED  BY <2>9, <2>10, <2>11
<1> QED  BY <1>1, <1>2

\* What is listed is on disk.
LEMMA ListKeeps ==
    ASSUME Acquired, AppendEntry
    PROVE  Acquired'
<1> USE DEF Acquired, fetching
<1> DEFINE role == Head(left)
           e == [role |-> role, made |-> Made(role)]
<1>1. CASE EndRun /\ manifest' = manifest
    BY <1>1, StopKeeps DEF AppendEntry
<1>2. CASE ~(EndRun /\ manifest' = manifest)
    <2>1. /\ acquiring = "list" /\ UNCHANGED <<published, zip, checksum, dataset>>
          /\ manifest' = Append(manifest, e)
          /\ \/ EndRun
             \/ Len(left) # 1 /\ left' = Tail(left) /\ UNCHANGED <<acquiring, todo, tries, expected, archives>>
        BY <1>2 DEF AppendEntry
    <2>2. /\ left \in Seq(ToSet(RoleOrder)) \ {<<>>}
          /\ \A m \in RequiredMonth : archives[m] \in Version(m)
          /\ \A r \in ToSet(RoleOrder) : dataset[r] = Made(r)
        BY <2>1 DEF ReadingIsVerified
    <2>3. /\ role \in ToSet(RoleOrder)
          /\ Len(left) # 1 => Tail(left) \in Seq(ToSet(RoleOrder)) \ {<<>>}
        BY <2>2, LeftShrinks
    <2>4. Made(role) \in [MonthsOf[role] -> Nat]
        <3>1. MonthsOf[role] \subseteq RequiredMonth
            BY <2>3, PlanAssumption
        <3>2. \A m \in RequiredMonth : archives[m] \in Nat
            BY <2>2 DEF CacheIsPublished, Version
        <3> QED  BY <3>1, <3>2 DEF Made
    <2>5. e \in Entry
        BY <2>3, <2>4 DEF Entry
    <2>6. manifest \in Seq(Entry)
        BY DEF DatasetsArePublished
    <2>7. e.role = role /\ e.made = Made(role)
        OBVIOUS
    <2> HIDE DEF e
    <2>8. /\ manifest' \in Seq(Entry) /\ Len(manifest') = Len(manifest) + 1 /\ Len(manifest) \in Nat
          /\ \A i \in 1 .. Len(manifest) : manifest'[i] = manifest[i]
          /\ manifest'[Len(manifest) + 1] = e
        BY <2>1, <2>5, <2>6, AppendProperties, LenProperties
    <2>9. \A x \in ToSet(manifest') : x \in ToSet(manifest) \/ x = e
        <3>1. DOMAIN manifest' = 1 .. (Len(manifest) + 1) /\ DOMAIN manifest = 1 .. Len(manifest)
            BY <2>6, <2>8, LenProperties
        <3>2. \A i \in 1 .. (Len(manifest) + 1) : i \in 1 .. Len(manifest) \/ i = Len(manifest) + 1
            BY <2>8
        <3> QED  BY <2>8, <3>1, <3>2 DEF ToSet
    <2>10. DatasetsArePublished'
        BY <2>1, <2>2, <2>3, <2>4, <2>7, <2>8, <2>9 DEF DatasetsArePublished, Version
    <2>11. CacheIsPublished' /\ DownloadIsKnown' /\ ReadingIsVerified'
        <3>1. CASE EndRun
            BY <2>1, <3>1 DEF EndRun, CacheIsPublished, DownloadIsKnown, ReadingIsVerified, Version
        <3>2. CASE Len(left) # 1 /\ left' = Tail(left) /\ UNCHANGED <<acquiring, todo, tries, expected, archives>>
            <4>1. \A r : Made(r)' = Made(r)
                BY <3>2 DEF Made
            <4>2. ReadingIsVerified'
                BY <2>1, <2>2, <2>3, <3>2, <4>1 DEF ReadingIsVerified, Version
            <4> QED  BY <2>1, <3>2, <4>2 DEF CacheIsPublished, DownloadIsKnown, Version
        <3> QED  BY <2>1, <3>1, <3>2
    <2> QED  BY <2>10, <2>11
<1> QED  BY <1>1, <1>2

\* What happens outside of a run, or ends it.
LEMMA OutsideKeeps ==
    ASSUME Acquired, RunCrash \/ PublishAnew \/ Damage \/ UNCHANGED archiveVars
    PROVE  Acquired'
<1> USE DEF Acquired, fetching, making
<1>1. CASE RunCrash
    BY <1>1, StopKeeps DEF RunCrash
<1>2. CASE PublishAnew
    <2>1. PICK m \in RequiredMonth : published' = [published EXCEPT ![m] = @ + 1]
        BY <1>2 DEF PublishAnew
    <2>2. /\ UNCHANGED <<zip, checksum, dataset, manifest, acquiring, todo, tries, expected, archives, left>>
          /\ DOMAIN published' = RequiredMonth
          /\ \A n \in RequiredMonth : published'[n] \in Nat \ {0} /\ Version(n) \subseteq Version(n)'
        BY <1>2, <2>1 DEF PublishAnew, CacheIsPublished, Version
    <2>3. CacheIsPublished'
        BY <2>2 DEF CacheIsPublished
    <2>4. DownloadIsKnown'
        <3>1. todo \in Seq(RequiredMonth) \ {<<>>} => Head(todo) \in RequiredMonth
            BY HeadTailProperties
        <3> QED  BY <2>2, <3>1 DEF DownloadIsKnown
    <2>5. ReadingIsVerified'
        BY <2>2, ZenonT(60) DEF ReadingIsVerified, Made
    <2>6. DatasetsArePublished'
        BY <2>2 DEF DatasetsArePublished
    <2> QED  BY <2>3, <2>4, <2>5, <2>6
<1>3. CASE Damage
    BY <1>3 DEF Damage, CacheIsPublished, DownloadIsKnown, ReadingIsVerified, DatasetsArePublished, Version
<1>4. CASE UNCHANGED archiveVars
    BY <1>4 DEF archiveVars, CacheIsPublished, DownloadIsKnown, ReadingIsVerified, DatasetsArePublished, Version, Made
<1> QED  BY <1>1, <1>2, <1>3, <1>4

\* A cache, datasets and a manifest that start empty.
LEMMA AcquiredInitially == ArchiveInit => Acquired
<1> SUFFICES ASSUME ArchiveInit PROVE Acquired
    OBVIOUS
<1>1. manifest \in Seq(Entry) /\ ToSet(manifest) = {}
    BY EmptySeq DEF ArchiveInit, ToSet
<1>2. DOMAIN <<>> = {}
    OBVIOUS
<1> QED  BY <1>1, <1>2 DEF ArchiveInit, Acquired, CacheIsPublished, DownloadIsKnown, ReadingIsVerified,
                          DatasetsArePublished, Version, NoArchive

\* However often an acquisition is begun and wherever it ends, whatever is published anew or
\* damaged: no dataset is made of what the exchange did not publish, and the manifest lists what
\* is on disk and comes of one reading (auditLocalCache, the create-only output).
THEOREM Archived == ArchiveSpec => []ArchivesAreSound
<1>1. Acquired /\ [ArchiveNext]_archiveVars => Acquired'
    BY DownloadKeeps, AuditKeeps, WriteKeeps, ListKeeps, OutsideKeeps DEF ArchiveNext
<1>2. Acquired => ArchivesAreSound
    BY DEF Acquired, ArchivesAreSound, OnlyPublishedArchives, ListedComeFromOneRun, DatasetsArePublished,
           ReadingIsVerified, Version
<1> QED  BY <1>1, <1>2, AcquiredInitially, PTL DEF ArchiveSpec

-----------------------------------------------------------------------------
(* AlertTrail *)

IsSeq(s) == s \in Seq(ToSet(s))

\* The event a writer records when n are left of its feed, that one included.
Nth(w, n) == Feed[w][Len(Feed[w]) - n + 1]
Event(w, n) == [type |-> Nth(w, n).type, about |-> Nth(w, n).about, by |-> w, left |-> n]
Events == UNION {{Event(w, n) : n \in 1 .. Len(Feed[w])} : w \in Writer}

FeedIsLeft ==
    /\ DOMAIN feed = Writer
    /\ \A w \in Writer :
         /\ feed[w] \in Seq(ToSet(Feed[w])) /\ Len(feed[w]) <= Len(Feed[w])
         /\ \A i \in 1 .. Len(feed[w]) : feed[w][i] = Feed[w][Len(Feed[w]) - Len(feed[w]) + i]

Call == [at : {"write", "alert", "return", "throw", "noted"}, event : Events, then : {"return", "alert", "noted"}]

TrailTyped ==
    /\ FeedIsLeft
    /\ doing \in [Writer -> {Idle} \cup Call]
    /\ IsSeq(memory) /\ IsSeq(disk) /\ IsSeq(sent)
    /\ heard \subseteq Events /\ settled \subseteq Events
    /\ budget \in [failures : Nat, crashes : 0 .. MaxCrashes]

\* The file is what memory was when it was last written.
FileIsPrefix == Len(disk) <= Len(memory) /\ \A i \in 1 .. Len(disk) : disk[i] = memory[i]

NoCrash == budget.crashes = MaxCrashes
TradeTold(e) == e \in heard \/ FailureNoted(e)

\* A call has pushed its event; past its write the event is in the file.  An alert is for an event
\* that has a text, and after it a trade is told or its failure is noted.
CallIsSound(d) ==
    /\ d.event \in ToSet(memory)
    /\ d.at \in {"alert", "return", "noted"} \/ d.then = "noted" => d.event \in ToSet(disk)
    /\ d.at = "alert" \/ d.then = "alert" => FormatAlert(d.event) # {}
    /\ d.at = "write" /\ d.then = "return" => FormatAlert(d.event) = {}
    /\ NoCrash /\ d.event.type \in Trade =>
          /\ d.at \in {"return", "noted"} => TradeTold(d.event)
          /\ d.at = "write" /\ d.then = "noted" => FailureNoted(d.event)

Faithful ==
    /\ TrailTyped /\ FileIsPrefix
    /\ \A w \in Writer : doing[w] # Idle => CallIsSound(doing[w])
    /\ settled \cup heard \subseteq ToSet(disk)
    /\ NoCrash => \A e \in settled : e.type \in Trade => TradeTold(e)
    /\ \A text \in ToSet(sent) : \E e \in heard : FormatAlert(e) = {text}

-----------------------------------------------------------------------------
(* Sequences                                                               *)

\* One more element.
LEMMA Appended ==
    ASSUME NEW s, IsSeq(s), NEW e
    PROVE  /\ IsSeq(Append(s, e)) /\ ToSet(Append(s, e)) = ToSet(s) \cup {e}
           /\ Len(s) \in Nat /\ Len(Append(s, e)) = Len(s) + 1
           /\ \A i \in 1 .. Len(s) : Append(s, e)[i] = s[i]
           /\ Append(s, e)[Len(s) + 1] = e
           /\ DOMAIN s = 1 .. Len(s) /\ DOMAIN Append(s, e) = 1 .. (Len(s) + 1)
<1> DEFINE S == ToSet(s) \cup {e}
           t == Append(s, e)
<1>1. s \in Seq(S) /\ e \in S
    BY SeqMonotonic DEF IsSeq
<1> HIDE DEF S
<1>2. /\ t \in Seq(S) /\ Len(t) = Len(s) + 1 /\ Len(s) \in Nat
      /\ \A i \in 1 .. Len(s) : t[i] = s[i]
      /\ t[Len(s) + 1] = e
      /\ DOMAIN s = 1 .. Len(s)
    BY <1>1, AppendProperties, LenProperties
<1>3. DOMAIN t = 1 .. (Len(s) + 1)
    BY <1>2, LenProperties
<1> HIDE DEF t
<1>4. ToSet(t) = ToSet(s) \cup {e}
    <2>1. \A i \in 1 .. (Len(s) + 1) : i \in 1 .. Len(s) \/ i = Len(s) + 1
        BY <1>2
    <2>2. 1 .. Len(s) \subseteq 1 .. (Len(s) + 1) /\ Len(s) + 1 \in 1 .. (Len(s) + 1)
        BY <1>2
    <2> QED  BY <1>2, <1>3, <2>1, <2>2 DEF ToSet
<1>5. IsSeq(t)
    BY <1>2, <1>4 DEF IsSeq, S
<1> QED  BY <1>2, <1>3, <1>4, <1>5 DEF t

\* What is left of a sequence after its first element.
LEMMA TailIsPart ==
    ASSUME NEW s, IsSeq(s), s # <<>>
    PROVE  IsSeq(Tail(s)) /\ ToSet(Tail(s)) \subseteq ToSet(s)
<1> DEFINE t == Tail(s)
<1>1. /\ t \in Seq(ToSet(s)) /\ Len(t) = Len(s) - 1 /\ Len(s) \in Nat
      /\ \A i \in 1 .. Len(t) : t[i] = s[i + 1]
      /\ DOMAIN s = 1 .. Len(s)
    BY HeadTailProperties, LenProperties DEF IsSeq
<1>2. DOMAIN t = 1 .. Len(t) /\ Len(t) \in Nat
    BY <1>1, LenProperties
<1> HIDE DEF t
<1>3. ToSet(t) \subseteq ToSet(s)
    <2> SUFFICES ASSUME NEW i \in 1 .. Len(t) PROVE t[i] \in ToSet(s)
        BY <1>2 DEF ToSet
    <2>1. i + 1 \in 1 .. Len(s) /\ t[i] = s[i + 1]
        BY <1>1, <1>2
    <2> QED  BY <1>1, <2>1 DEF ToSet
<1>4. t \in Seq(ToSet(t))
    <2>1. t \in [1 .. Len(t) -> ToSet(t)]
        <3>1. \A i \in 1 .. Len(t) : t[i] \in ToSet(t)
            BY <1>2 DEF ToSet
        <3>2. t \in [1 .. Len(t) -> ToSet(s)]
            BY <1>1, LenProperties
        <3> QED  BY <3>1, <3>2
    <2> QED  BY <1>2, <2>1, SeqDef
<1> QED  BY <1>3, <1>4 DEF IsSeq, t

\* What is left of a sequence is the end of it, and so is what is left after one more.
LEMMA TailIsLeft ==
    ASSUME NEW S, NEW f \in Seq(S), NEW s \in Seq(S), s # <<>>, Len(s) <= Len(f),
           \A i \in 1 .. Len(s) : s[i] = f[Len(f) - Len(s) + i]
    PROVE  /\ Tail(s) \in Seq(S) /\ Len(Tail(s)) <= Len(f)
           /\ \A i \in 1 .. Len(Tail(s)) : Tail(s)[i] = f[Len(f) - Len(Tail(s)) + i]
<1> DEFINE t == Tail(s)
           k == Len(f)
           n == Len(s)
           m == Len(t)
<1>1. /\ t \in Seq(S) /\ m = n - 1 /\ n \in Nat /\ k \in Nat /\ n <= k
      /\ \A i \in 1 .. m : t[i] = s[i + 1]
      /\ \A i \in 1 .. n : s[i] = f[k - n + i]
    BY HeadTailProperties, LenProperties
<1> HIDE DEF t, k, n, m
<1>2. m <= k
    BY <1>1
<1>3. \A i \in 1 .. m : t[i] = f[k - m + i]
    <2> SUFFICES ASSUME NEW i \in 1 .. m PROVE t[i] = f[k - m + i]
        OBVIOUS
    <2>1. i + 1 \in 1 .. n /\ k - n + (i + 1) = k - m + i
        BY <1>1
    <2>2. t[i] = s[i + 1] /\ s[i + 1] = f[k - n + (i + 1)]
        BY <1>1, <2>1
    <2> QED  BY <2>1, <2>2
<1> QED  BY <1>1, <1>2, <1>3 DEF t, k, m

\* A file that memory extends holds nothing that memory does not.
LEMMA WrittenIsPrefix ==
    ASSUME IsSeq(memory), IsSeq(disk), FileIsPrefix
    PROVE  IsPrefix(disk, memory) /\ ToSet(disk) \subseteq ToSet(memory)
<1>1. /\ Len(disk) \in Nat /\ Len(memory) \in Nat
      /\ DOMAIN disk = 1 .. Len(disk) /\ DOMAIN memory = 1 .. Len(memory)
      /\ disk \in Seq(ToSet(memory))
      /\ ToSet(disk) \subseteq ToSet(memory)
    <2>1. /\ Len(disk) \in Nat /\ Len(memory) \in Nat
          /\ DOMAIN disk = 1 .. Len(disk) /\ DOMAIN memory = 1 .. Len(memory)
        BY LenProperties DEF IsSeq
    <2>2. \A i \in 1 .. Len(disk) : i \in 1 .. Len(memory)
        BY <2>1 DEF FileIsPrefix
    <2>3. ToSet(disk) \subseteq ToSet(memory)
        BY <2>1, <2>2 DEF ToSet, FileIsPrefix
    <2> QED  BY <2>1, <2>3, SeqMonotonic DEF IsSeq
<1>2. SubSeq(disk, 1, Len(disk)) = disk
    BY <1>1, SubSeqFull
<1>3. /\ SubSeq(memory, 1, Len(disk)) \in Seq(ToSet(memory))
      /\ Len(SubSeq(memory, 1, Len(disk))) = Len(disk)
      /\ \A i \in 1 .. Len(disk) : SubSeq(memory, 1, Len(disk))[i] = memory[i]
    <2>1. \A i \in 1 .. Len(disk) : memory[i] \in ToSet(memory)
        BY <1>1 DEF FileIsPrefix, ToSet
    <2>2. /\ SubSeq(memory, 1, Len(disk)) \in Seq(ToSet(memory))
          /\ Len(SubSeq(memory, 1, Len(disk))) = IF 1 <= Len(disk) THEN Len(disk) - 1 + 1 ELSE 0
          /\ \A i \in 1 .. (Len(disk) - 1 + 1) : SubSeq(memory, 1, Len(disk))[i] = memory[1 + i - 1]
        BY <1>1, <2>1, SubSeqProperties
    <2> QED  BY <1>1, <2>2
<1>4. SubSeq(memory, 1, Len(disk)) = disk
    <2> DEFINE t == SubSeq(memory, 1, Len(disk))
    <2>1. /\ t \in Seq(ToSet(memory)) /\ Len(t) = Len(disk) /\ \A i \in 1 .. Len(t) : t[i] = disk[i]
        BY <1>3 DEF FileIsPrefix
    <2> HIDE DEF t
    <2>2. t = disk
        BY <1>1, <2>1, SeqEqual
    <2> QED  BY <2>2 DEF t
<1> QED  BY <1>1, <1>2, <1>4 DEF IsPrefix, FileIsPrefix

-----------------------------------------------------------------------------
(* Events                                                                  *)

\* The event at the head of a feed is the one its place says.
LEMMA HeadIsEvent ==
    ASSUME FeedIsLeft, NEW w \in Writer, feed[w] # <<>>
    PROVE  Upcoming(w) \in Events
<1> DEFINE n == Len(feed[w])
<1>1. /\ feed[w] \in Seq(ToSet(Feed[w])) /\ Feed[w] \in Seq(ToSet(Feed[w]))
      /\ \A i \in 1 .. n : feed[w][i] = Feed[w][Len(Feed[w]) - n + i]
      /\ n <= Len(Feed[w])
    BY FeedAssumption DEF FeedIsLeft
<1>2. n \in Nat \ {0} /\ Len(Feed[w]) \in Nat /\ Head(feed[w]) = feed[w][1]
    BY <1>1, LenProperties, EmptySeq, HeadTailProperties
<1> HIDE DEF n
<1>3. Head(feed[w]) = Nth(w, n)
    <2>1. 1 \in 1 .. n
        BY <1>2
    <2>2. feed[w][1] = Feed[w][Len(Feed[w]) - n + 1]
        BY <1>1, <2>1
    <2> QED  BY <1>2, <2>2 DEF Nth
<1>4. n \in 1 .. Len(Feed[w])
    BY <1>1, <1>2
<1>5. Upcoming(w) = Event(w, n)
    BY <1>3 DEF Upcoming, Event, n
<1> QED  BY <1>4, <1>5 DEF Events

\* Two events of trades with the same text are the same event.
LEMMA TradeIsUnique ==
    ASSUME NEW e \in Events, NEW f \in Events, e.type \in Trade,
           FormatAlert(e) = FormatAlert(f)
    PROVE  e = f
<1>1. PICK v \in Writer : \E n \in 1 .. Len(Feed[v]) : e = Event(v, n)
    BY DEF Events
<1>2. PICK n \in 1 .. Len(Feed[v]) : e = Event(v, n)
    BY <1>1
<1>3. PICK w \in Writer : \E m \in 1 .. Len(Feed[w]) : f = Event(w, m)
    BY DEF Events
<1>4. PICK m \in 1 .. Len(Feed[w]) : f = Event(w, m)
    BY <1>3
<1>5. e.type = f.type /\ e.about = f.about
    <2>1. FormatAlert(e) = {<<e.type, e.about>>}
        BY DEF FormatAlert, Trade
    <2>2. FormatAlert(f) = {} \/ FormatAlert(f) = {<<f.type, f.about>>}
        BY DEF FormatAlert
    <2>3. <<e.type, e.about>> = <<f.type, f.about>>
        BY <2>1, <2>2
    <2> QED  BY <2>3
<1> DEFINE i == Len(Feed[v]) - n + 1
           j == Len(Feed[w]) - m + 1
<1>6. /\ Len(Feed[v]) \in Nat /\ Len(Feed[w]) \in Nat
      /\ DOMAIN Feed[v] = 1 .. Len(Feed[v]) /\ DOMAIN Feed[w] = 1 .. Len(Feed[w])
    BY LenProperties, FeedAssumption
<1>7. i \in DOMAIN Feed[v] /\ j \in DOMAIN Feed[w]
    <2>1. \A l \in Nat : \A k \in 1 .. l : l - k + 1 \in 1 .. l
        OBVIOUS
    <2> QED  BY <1>6, <2>1
<1>8. /\ Feed[v][i] = [type |-> e.type, about |-> e.about]
      /\ Feed[w][j] = [type |-> f.type, about |-> f.about]
    <2>1. Feed[v][i] \in ToSet(Feed[v]) /\ Feed[w][j] \in ToSet(Feed[w])
        BY <1>7 DEF ToSet
    <2>2. /\ Feed[v][i] = [type |-> Feed[v][i].type, about |-> Feed[v][i].about]
          /\ Feed[w][j] = [type |-> Feed[w][j].type, about |-> Feed[w][j].about]
        BY <2>1, FeedAssumption
    <2>3. /\ e.type = Feed[v][i].type /\ e.about = Feed[v][i].about
          /\ f.type = Feed[w][j].type /\ f.about = Feed[w][j].about
        BY <1>2, <1>4 DEF Event, Nth
    <2> QED  BY <2>2, <2>3
<1>9. Feed[v][i] = Feed[w][j] /\ Feed[v][i].type \in Trade
    BY <1>5, <1>8
<1>10. v = w /\ i = j
    <2> HIDE DEF i, j
    <2> QED  BY <1>7, <1>9, FeedAssumption
<1>11. n = m
    BY <1>6, <1>10
<1> QED  BY <1>2, <1>4, <1>10, <1>11

-----------------------------------------------------------------------------
(* Steps                                                                   *)

\* Memory only grows at its end.
MemoryGrows ==
    /\ IsSeq(memory) /\ IsSeq(memory)' /\ Len(memory) <= Len(memory')
    /\ \A i \in 1 .. Len(memory) : memory'[i] = memory[i]

\* What a call has done stays done while memory, the file and the operator's knowledge grow.
LEMMA MoveKeeps ==
    ASSUME MemoryGrows, ToSet(disk) \subseteq ToSet(disk'), heard \subseteq heard', NoCrash' => NoCrash
    PROVE  /\ \A e : TradeTold(e) => TradeTold(e)'
           /\ \A e : FailureNoted(e) => FailureNoted(e)'
           /\ \A d : CallIsSound(d) => CallIsSound(d)'
<1>1. /\ DOMAIN memory = 1 .. Len(memory) /\ DOMAIN memory' = 1 .. Len(memory')
      /\ Len(memory) \in Nat /\ Len(memory') \in Nat
    BY LenProperties DEF MemoryGrows, IsSeq
<1>2. \A i \in DOMAIN memory : i \in DOMAIN memory' /\ memory'[i] = memory[i]
    BY <1>1 DEF MemoryGrows
<1>3. \A e : FailureNoted(e) => FailureNoted(e)'
    BY <1>2 DEF FailureNoted
<1>4. \A e : TradeTold(e) => TradeTold(e)'
    BY <1>3 DEF TradeTold
<1>5. ToSet(memory) \subseteq ToSet(memory')
    BY <1>2 DEF ToSet
<1>6. ASSUME NEW d, CallIsSound(d) PROVE CallIsSound(d)'
    BY <1>3, <1>4, <1>5, <1>6 DEF CallIsSound
<1> QED  BY <1>3, <1>4, <1>6

\* A step of one writer that leaves what it and the others have done true is faithful.
LEMMA OneCallMoves ==
    ASSUME Faithful, TrailTyped', FileIsPrefix', MemoryGrows,
           ToSet(disk) \subseteq ToSet(disk'), heard \subseteq heard', NoCrash' => NoCrash,
           NEW w \in Writer, NEW d, doing' = [doing EXCEPT ![w] = d], d # Idle => CallIsSound(d)',
           settled' \cup heard' \subseteq ToSet(disk'),
           \A e \in settled' \ settled : NoCrash' /\ e.type \in Trade => TradeTold(e)',
           \A text \in ToSet(sent') : \E e \in heard' : FormatAlert(e) = {text}
    PROVE  Faithful'
<1>1. /\ \A e : TradeTold(e) => TradeTold(e)'
      /\ \A c : CallIsSound(c) => CallIsSound(c)'
    BY MoveKeeps
<1>2. (\A v \in Writer : doing[v] # Idle => CallIsSound(doing[v]))'
    <2> SUFFICES ASSUME NEW v \in Writer, doing'[v] # Idle PROVE CallIsSound(doing[v])'
        OBVIOUS
    <2>1. PICK c : c = doing'[v]
        OBVIOUS
    <2>2. CallIsSound(c)'
        <3>1. CASE v = w
            <4>1. c = d
                BY <2>1, <3>1 DEF Faithful, TrailTyped
            <4> QED  BY <2>1, <4>1
        <3>2. CASE v # w
            <4>1. c = doing[v]
                BY <2>1, <3>2
            <4>2. CallIsSound(doing[v])
                BY <2>1, <4>1 DEF Faithful
            <4>3. CallIsSound(c)
                BY <4>1, <4>2
            <4> QED  BY <1>1, <4>3
        <3> QED  BY <3>1, <3>2
    <2> QED  BY <2>1, <2>2 DEF CallIsSound
<1>3. NoCrash' => \A e \in settled' : e.type \in Trade => TradeTold(e)'
    BY <1>1 DEF Faithful
<1> QED  BY <1>2, <1>3 DEF Faithful


\* An entry pushed is in memory, whose beginning the file still is.
LEMMA PushGrows ==
    ASSUME TrailTyped, FileIsPrefix, NEW w \in Writer, NEW entry, NEW event \in Events,
           NEW then \in {"return", "alert", "noted"}, Push(w, entry, event, then), disk' = disk
    PROVE  /\ MemoryGrows /\ FileIsPrefix' /\ entry \in ToSet(memory') /\ ToSet(disk) = ToSet(disk')
           /\ doing' = [doing EXCEPT ![w] = [at |-> "write", event |-> event, then |-> then]]
           /\ doing' \in [Writer -> {Idle} \cup Call]
           /\ memory'[Len(memory')] = entry /\ Len(memory') \in DOMAIN memory'
<1>1. /\ memory' = Append(memory, entry)
      /\ doing' = [doing EXCEPT ![w] = [at |-> "write", event |-> event, then |-> then]]
    BY DEF Push, Await
<1>2. /\ IsSeq(memory') /\ ToSet(memory') = ToSet(memory) \cup {entry}
      /\ Len(memory) \in Nat /\ Len(memory') = Len(memory) + 1
      /\ \A i \in 1 .. Len(memory) : memory'[i] = memory[i]
      /\ memory'[Len(memory) + 1] = entry
      /\ DOMAIN memory' = 1 .. (Len(memory) + 1)
    BY <1>1, Appended DEF TrailTyped
<1>3. MemoryGrows
    BY <1>2 DEF MemoryGrows, TrailTyped, IsSeq
<1>4. FileIsPrefix'
    <2>1. Len(disk) \in Nat
        BY LenProperties DEF TrailTyped, IsSeq
    <2>2. \A i \in 1 .. Len(disk) : i \in 1 .. Len(memory)
        BY <1>2, <2>1 DEF FileIsPrefix
    <2> QED  BY <1>2, <2>1, <2>2 DEF FileIsPrefix
<1>5. doing' \in [Writer -> {Idle} \cup Call]
    <2>1. [at |-> "write", event |-> event, then |-> then] \in Call
        BY DEF Call
    <2> QED  BY <1>1, <2>1 DEF TrailTyped
<1> QED  BY <1>1, <1>2, <1>3, <1>4, <1>5

\* A call moved on is still a call.
LEMMA CallMoved ==
    ASSUME TrailTyped, NEW w \in Writer, NEW at \in {"write", "alert", "return", "throw", "noted"},
           doing[w].at # "idle", NEW d, d = [doing[w] EXCEPT !.at = at], Await(w, d)
    PROVE  /\ doing' \in [Writer -> {Idle} \cup Call] /\ doing' = [doing EXCEPT ![w] = d]
           /\ d.at = at /\ d.event = doing[w].event /\ d.then = doing[w].then
           /\ doing[w] \in Call /\ doing[w] # Idle
<1>1. doing[w] \in Call /\ doing[w] # Idle
    BY DEF TrailTyped, Idle
<1>2. d \in Call
    BY <1>1 DEF Call
<1> QED  BY <1>1, <1>2 DEF Await, TrailTyped, Call

\* Nothing moves in memory.
LEMMA MemoryStays ==
    ASSUME TrailTyped, memory' = memory
    PROVE  MemoryGrows
<1>1. Len(memory) \in Nat
    BY LenProperties DEF TrailTyped, IsSeq
<1> QED  BY <1>1 DEF MemoryGrows, TrailTyped, IsSeq

\* Recording the next event keeps the trail faithful.
LEMMA BeginRecordKeeps ==
    ASSUME Faithful, NEW w \in Writer, BeginRecord(w)
    PROVE  Faithful'
<1> DEFINE then == IF FormatAlert(Upcoming(w)) = {} THEN "return" ELSE "alert"
           d == [at |-> "write", event |-> Upcoming(w), then |-> then]
<1>1. /\ feed[w] # <<>> /\ feed' = [feed EXCEPT ![w] = Tail(@)]
      /\ Push(w, Upcoming(w), Upcoming(w), then)
      /\ UNCHANGED <<disk, sent, heard, settled, budget>>
    BY DEF BeginRecord
<1>2. TrailTyped /\ FileIsPrefix
    BY DEF Faithful
<1>3. Upcoming(w) \in Events
    BY <1>1, <1>2, HeadIsEvent DEF TrailTyped
<1>4. PICK event : event = Upcoming(w)
    OBVIOUS
<1>5. PICK go : go = then
    OBVIOUS
<1>6. go \in {"return", "alert", "noted"}
    BY <1>5
<1>7. /\ MemoryGrows /\ FileIsPrefix' /\ event \in ToSet(memory') /\ ToSet(disk) = ToSet(disk')
      /\ doing' = [doing EXCEPT ![w] = [at |-> "write", event |-> event, then |-> go]]
      /\ doing' \in [Writer -> {Idle} \cup Call]
    BY <1>1, <1>2, <1>3, <1>4, <1>5, <1>6, PushGrows
<1>8. FeedIsLeft'
    <2> DEFINE t == Tail(feed[w])
    <2>1. t \in Seq(ToSet(Feed[w])) /\ Len(t) <= Len(Feed[w])
          /\ \A i \in 1 .. Len(t) : t[i] = Feed[w][Len(Feed[w]) - Len(t) + i]
        BY <1>1, <1>2, TailIsLeft, FeedAssumption DEF TrailTyped, FeedIsLeft
    <2> HIDE DEF t
    <2>2. feed' = [feed EXCEPT ![w] = t]
        BY <1>1 DEF t
    <2>3. DOMAIN feed' = Writer /\ \A v \in Writer : feed'[v] = IF v = w THEN t ELSE feed[v]
        BY <1>2, <2>2 DEF TrailTyped, FeedIsLeft
    <2>4. \A v \in Writer : LET s == feed'[v] IN
             /\ s \in Seq(ToSet(Feed[v])) /\ Len(s) <= Len(Feed[v])
             /\ \A i \in 1 .. Len(s) : s[i] = Feed[v][Len(Feed[v]) - Len(s) + i]
        <3> SUFFICES ASSUME NEW v \in Writer
                     PROVE  LET s == feed'[v] IN
                            /\ s \in Seq(ToSet(Feed[v])) /\ Len(s) <= Len(Feed[v])
                            /\ \A i \in 1 .. Len(s) : s[i] = Feed[v][Len(Feed[v]) - Len(s) + i]
            OBVIOUS
        <3>1. CASE v = w
            <4>1. feed'[v] = t
                BY <2>3, <3>1
            <4> QED  BY <2>1, <3>1, <4>1
        <3>2. CASE v # w
            <4>1. feed'[v] = feed[v]
                BY <2>3, <3>2
            <4> QED  BY <1>2, <4>1 DEF TrailTyped, FeedIsLeft
        <3> QED  BY <3>1, <3>2
    <2> QED  BY <2>3, <2>4 DEF FeedIsLeft
<1>9. TrailTyped'
    BY <1>1, <1>2, <1>7, <1>8 DEF TrailTyped, MemoryGrows, IsSeq
<1>10. PICK c : c = [at |-> "write", event |-> event, then |-> go]
    OBVIOUS
<1>11. CallIsSound(c)'
    <2>1. c.at = "write" /\ c.event = event /\ c.then = go /\ go # "noted"
        BY <1>5, <1>10
    <2>2. IF go = "return" THEN FormatAlert(event) = {} ELSE FormatAlert(event) # {}
        BY <1>4, <1>5
    <2> QED  BY <1>7, <2>1, <2>2 DEF CallIsSound
<1> QED
    BY <1>1, <1>2, <1>7, <1>9, <1>10, <1>11, OneCallMoves DEF Faithful, NoCrash


\* Writing memory to the file, or failing to, keeps the trail faithful.
LEMMA PersistKeeps ==
    ASSUME Faithful, NEW w \in Writer, Persist(w)
    PROVE  Faithful'
<1>1. /\ doing[w].at = "write"
      /\ UNCHANGED <<feed, memory, sent, heard, settled>>
    BY DEF Persist
<1>2. TrailTyped /\ FileIsPrefix
    BY DEF Faithful
<1>3. doing[w] \in Call /\ doing[w] # Idle
    BY <1>1, <1>2 DEF TrailTyped, Idle
<1>4. PICK c : c = doing[w]
    OBVIOUS
<1>5. /\ c.at = "write" /\ c \in Call /\ c.event \in Events /\ c.then \in {"return", "alert", "noted"}
      /\ CallIsSound(c)
    BY <1>1, <1>3, <1>4 DEF Faithful, Call
<1>6. MemoryGrows
    BY <1>1, <1>2, MemoryStays
<1>7. ToSet(disk) \subseteq ToSet(memory) /\ IsSeq(memory)
    BY <1>2, WrittenIsPrefix DEF TrailTyped
<1>8. CASE /\ disk' = memory
           /\ Await(w, [doing[w] EXCEPT !.at = doing[w].then])
           /\ UNCHANGED budget
    <2>1. PICK d : d = [c EXCEPT !.at = c.then]
        OBVIOUS
    <2>2. /\ d.at = c.then /\ d.event = c.event /\ d.then = c.then
          /\ doing' = [doing EXCEPT ![w] = d]
          /\ doing' \in [Writer -> {Idle} \cup Call]
        <3>1. c.then \in {"write", "alert", "return", "throw", "noted"} /\ doing[w].at # "idle"
            BY <1>4, <1>5
        <3>2. Await(w, d) /\ d = [doing[w] EXCEPT !.at = c.then]
            BY <1>4, <1>8, <2>1
        <3> QED  BY <1>2, <1>4, <3>1, <3>2, CallMoved
    <2>3. TrailTyped'
        BY <1>1, <1>2, <1>7, <1>8, <2>2 DEF TrailTyped, FeedIsLeft, IsSeq
    <2>4. FileIsPrefix'
        <3>1. Len(memory) \in Nat
            BY <1>7, LenProperties DEF IsSeq
        <3> QED  BY <1>1, <1>8, <3>1 DEF FileIsPrefix
    <2>5. CallIsSound(d)'
        <3>1. ToSet(disk') = ToSet(memory) /\ ToSet(memory') = ToSet(memory)
            BY <1>1, <1>8
        <3>2. NoCrash' => NoCrash
            BY <1>8 DEF NoCrash
        <3>3. \A e : (TradeTold(e) => TradeTold(e)') /\ (FailureNoted(e) => FailureNoted(e)')
            BY <1>1, <1>8, <3>1 DEF TradeTold, FailureNoted
        <3>4. d.event \in ToSet(memory') /\ d.event \in ToSet(disk')
            BY <1>5, <2>2, <3>1 DEF CallIsSound
        <3>5. d.event.type \in Trade => FormatAlert(d.event) # {}
            BY DEF FormatAlert, Trade
        <3>6. d.event.type \in Trade => d.then # "return"
            BY <1>5, <2>2, <3>5 DEF CallIsSound
        <3>7. NoCrash /\ d.event.type \in Trade /\ d.at = "noted" => TradeTold(d.event)'
            BY <1>5, <2>2, <3>3 DEF CallIsSound, TradeTold
        <3> QED  BY <1>5, <2>2, <3>2, <3>3, <3>4, <3>5, <3>6, <3>7 DEF CallIsSound
    <2> QED  BY <1>1, <1>2, <1>6, <1>7, <1>8, <2>2, <2>3, <2>4, <2>5, OneCallMoves DEF Faithful, NoCrash
<1>9. CASE /\ SendFails /\ UNCHANGED disk
           /\ Await(w, [doing[w] EXCEPT !.at = IF doing[w].then = "noted" THEN "return" ELSE "throw"])
    <2>1. PICK at : at = IF c.then = "noted" THEN "return" ELSE "throw"
        OBVIOUS
    <2>2. PICK d : d = [c EXCEPT !.at = at]
        OBVIOUS
    <2>3. /\ d.at = at /\ d.event = c.event /\ d.then = c.then
          /\ doing' = [doing EXCEPT ![w] = d]
          /\ doing' \in [Writer -> {Idle} \cup Call]
        <3>1. at \in {"write", "alert", "return", "throw", "noted"} /\ doing[w].at # "idle"
            BY <1>4, <1>5, <2>1
        <3>2. Await(w, d) /\ d = [doing[w] EXCEPT !.at = at]
            BY <1>4, <1>9, <2>1, <2>2
        <3> QED  BY <1>2, <1>4, <3>1, <3>2, CallMoved
    <2>4. budget' \in [failures : Nat, crashes : 0 .. MaxCrashes] /\ budget'.crashes = budget.crashes
        BY <1>2, <1>9 DEF SendFails, TrailTyped
    <2>5. TrailTyped'
        BY <1>1, <1>2, <1>9, <2>3, <2>4 DEF TrailTyped, FeedIsLeft, IsSeq
    <2>6. FileIsPrefix'
        BY <1>1, <1>2, <1>9 DEF FileIsPrefix
    <2>7. CallIsSound(d)'
        <3>1. NoCrash' => NoCrash
            BY <2>4 DEF NoCrash
        <3>2. \A e : FailureNoted(e) => FailureNoted(e)'
            BY <1>1 DEF FailureNoted
        <3> QED  BY <1>1, <1>5, <1>9, <2>1, <2>3, <3>1, <3>2 DEF CallIsSound, TradeTold
    <2> QED  BY <1>1, <1>6, <1>9, <2>3, <2>4, <2>5, <2>6, <2>7, OneCallMoves DEF Faithful, NoCrash
<1> QED
    BY <1>8, <1>9 DEF Persist


\* The call of the gateway, however it ends, keeps the trail faithful.
LEMMA SendAlertKeeps ==
    ASSUME Faithful, NEW w \in Writer, SendAlert(w)
    PROVE  Faithful'
<1>1. doing[w].at = "alert" /\ UNCHANGED <<feed, disk, settled>>
    BY DEF SendAlert
<1>2. TrailTyped /\ FileIsPrefix
    BY DEF Faithful
<1>3. doing[w] \in Call /\ doing[w] # Idle
    BY <1>1, <1>2 DEF TrailTyped, Idle
<1>4. PICK c : c = doing[w]
    OBVIOUS
<1>5. PICK event : event = c.event
    OBVIOUS
<1>6. /\ c.at = "alert" /\ c \in Call /\ event \in Events /\ CallIsSound(c)
      /\ event \in ToSet(disk) /\ FormatAlert(event) # {}
    <2>1. c.at = "alert" /\ c \in Call /\ event \in Events /\ CallIsSound(c)
        BY <1>1, <1>3, <1>4, <1>5 DEF Faithful, Call
    <2> QED  BY <1>5, <2>1 DEF CallIsSound
<1>7. PICK text : text = CHOOSE t \in FormatAlert(event) : TRUE
    OBVIOUS
<1>8. FormatAlert(event) = {text}
    BY <1>6, <1>7 DEF FormatAlert
<1>9. CASE /\ Await(w, [c EXCEPT !.at = "return"])
           /\ UNCHANGED <<memory, waiting, budget>>
           /\ \/ text \in ToSet(sent) /\ UNCHANGED <<sent, heard>>
              \/ Remember(text) /\ heard' = heard \cup {event}
    <2>1. PICK d : d = [c EXCEPT !.at = "return"]
        OBVIOUS
    <2>2. /\ d.at = "return" /\ d.event = event /\ d.then = c.then
          /\ doing' = [doing EXCEPT ![w] = d]
          /\ doing' \in [Writer -> {Idle} \cup Call]
        <3>1. doing[w].at # "idle" /\ Await(w, d) /\ d = [doing[w] EXCEPT !.at = "return"]
            BY <1>1, <1>4, <1>9, <2>1
        <3> QED  BY <1>2, <1>4, <1>5, <3>1, CallMoved
    <2>3. MemoryGrows
        BY <1>2, <1>9, MemoryStays
    <2>4. heard \subseteq heard' /\ heard' \subseteq heard \cup {event}
        BY <1>9
    <2>5. IsSeq(sent)' /\ ToSet(sent') \subseteq ToSet(sent) \cup {text} /\ (event \in heard' \/ sent' = sent)
        <3>1. CASE UNCHANGED <<sent, heard>>
            BY <1>2, <3>1 DEF TrailTyped, IsSeq
        <3>2. CASE Remember(text) /\ heard' = heard \cup {event}
            <4> DEFINE kept == IF Len(sent) >= MAX_REMEMBERED THEN Tail(sent) ELSE sent
            <4>1. IsSeq(kept) /\ ToSet(kept) \subseteq ToSet(sent)
                <5>1. CASE Len(sent) >= MAX_REMEMBERED
                    <6>1. sent # <<>>
                        <7>1. Len(<<>>) = 0 /\ MAX_REMEMBERED \in Nat \ {0}
                            BY FeedAssumption
                        <7> HIDE DEF kept
                        <7> QED  BY <5>1, <7>1
                    <6> QED  BY <1>2, <5>1, <6>1, TailIsPart DEF TrailTyped
                <5>2. CASE ~ (Len(sent) >= MAX_REMEMBERED)
                    BY <1>2, <5>2 DEF TrailTyped
                <5> QED  BY <5>1, <5>2
            <4>2. sent' = Append(kept, text)
                BY <3>2 DEF Remember
            <4> HIDE DEF kept
            <4>3. IsSeq(Append(kept, text)) /\ ToSet(Append(kept, text)) = ToSet(kept) \cup {text}
                BY <4>1, Appended
            <4>4. IsSeq(sent') /\ ToSet(sent') \subseteq ToSet(sent) \cup {text}
                BY <4>1, <4>2, <4>3
            <4> QED  BY <3>2, <4>4 DEF IsSeq
        <3> QED  BY <1>9, <3>1, <3>2
    <2>6. TrailTyped'
        BY <1>1, <1>2, <1>6, <1>9, <2>2, <2>4, <2>5 DEF TrailTyped, FeedIsLeft, IsSeq
    <2>7. FileIsPrefix'
        BY <1>1, <1>2, <1>9 DEF FileIsPrefix
    <2>8. \A t \in ToSet(sent') : \E e \in heard' : FormatAlert(e) = {t}
        BY <1>8, <2>4, <2>5 DEF Faithful
    <2>9. event.type \in Trade => event \in heard'
        <3>1. CASE text \in ToSet(sent) /\ UNCHANGED <<sent, heard>>
            <4>1. PICK e \in heard : FormatAlert(e) = {text}
                BY <3>1 DEF Faithful
            <4>2. e \in Events
                BY <1>2 DEF TrailTyped
            <4>3. event.type \in Trade => e = event
                BY <1>6, <1>8, <4>1, <4>2, TradeIsUnique
            <4> QED  BY <3>1, <4>3
        <3>2. CASE heard' = heard \cup {event}
            BY <3>2
        <3> QED  BY <1>9, <3>1, <3>2
    <2>10. CallIsSound(d)'
        BY <1>1, <1>5, <1>6, <1>9, <2>2, <2>9 DEF CallIsSound, TradeTold
    <2>11. ToSet(disk) = ToSet(disk') /\ settled' \cup heard' \subseteq ToSet(disk')
        BY <1>1, <1>6, <2>4 DEF Faithful
    <2>12. NoCrash' => NoCrash
        BY <1>9 DEF NoCrash
    <2> QED  BY <1>1, <2>2, <2>3, <2>4, <2>6, <2>7, <2>8, <2>10, <2>11, <2>12, OneCallMoves
<1> DEFINE failed == [type |-> "TELEGRAM_NOTIFICATION_FAILED", about |-> event.about, by |-> event.by, left |-> event.left]
<1>10. CASE /\ SendFails /\ heard' \in {heard, heard \cup {event}} /\ UNCHANGED sent
            /\ Push(w, failed, event, "noted")
    <2>1. PICK entry : entry = failed
        OBVIOUS
    <2>2. /\ MemoryGrows /\ FileIsPrefix' /\ ToSet(disk) = ToSet(disk')
          /\ doing' = [doing EXCEPT ![w] = [at |-> "write", event |-> event, then |-> "noted"]]
          /\ doing' \in [Writer -> {Idle} \cup Call]
          /\ memory'[Len(memory')] = entry /\ Len(memory') \in DOMAIN memory'
        BY <1>1, <1>2, <1>6, <1>10, <2>1, PushGrows
    <2>3. FailureNoted(event)'
        BY <2>1, <2>2 DEF FailureNoted
    <2>4. PICK d : d = [at |-> "write", event |-> event, then |-> "noted"]
        OBVIOUS
    <2>5. heard \subseteq heard' /\ heard' \subseteq heard \cup {event}
        BY <1>10
    <2>6. budget' \in [failures : Nat, crashes : 0 .. MaxCrashes] /\ budget'.crashes = budget.crashes
        BY <1>2, <1>10 DEF SendFails, TrailTyped
    <2>7. TrailTyped'
        BY <1>1, <1>2, <1>6, <1>10, <2>2, <2>5, <2>6 DEF TrailTyped, FeedIsLeft, IsSeq, MemoryGrows
    <2>8. CallIsSound(d)'
        <3>1. event \in ToSet(memory') /\ event \in ToSet(disk')
            <4>1. NoCrash' => NoCrash
                BY <2>6 DEF NoCrash
            <4>2. CallIsSound(c)'
                BY <1>6, <2>2, <2>5, <4>1, MoveKeeps
            <4> QED  BY <1>5, <1>6, <2>2, <4>2 DEF CallIsSound
        <3> QED  BY <1>6, <2>3, <2>4, <3>1 DEF CallIsSound
    <2>9. settled' \cup heard' \subseteq ToSet(disk')
        BY <1>1, <1>6, <2>2, <2>5 DEF Faithful
    <2>10. \A t \in ToSet(sent') : \E e \in heard' : FormatAlert(e) = {t}
        BY <1>10, <2>5 DEF Faithful
    <2>11. NoCrash' => NoCrash
        BY <2>6 DEF NoCrash
    <2> QED  BY <1>1, <2>2, <2>4, <2>5, <2>7, <2>8, <2>9, <2>10, <2>11, OneCallMoves
<1> QED
    BY <1>4, <1>5, <1>7, <1>9, <1>10 DEF SendAlert


\* A call that returns keeps the trail faithful: what it acknowledges is in the file.
LEMMA ReturnKeeps ==
    ASSUME Faithful, NEW w \in Writer, Return(w)
    PROVE  Faithful'
<1>1. /\ doing[w].at \in {"return", "throw", "noted"} /\ doing' = [doing EXCEPT ![w] = Idle]
      /\ settled' = IF doing[w].at # "throw" THEN settled \cup {doing[w].event} ELSE settled
      /\ UNCHANGED <<feed, memory, disk, waiting, sent, heard, budget>>
    BY DEF Return, Await
<1>2. TrailTyped /\ FileIsPrefix
    BY DEF Faithful
<1>3. doing[w] \in Call /\ doing[w] # Idle
    BY <1>1, <1>2 DEF TrailTyped, Idle
<1>4. PICK c : c = doing[w]
    OBVIOUS
<1>5. /\ c.at \in {"return", "throw", "noted"} /\ c.event \in Events /\ CallIsSound(c)
      /\ settled' = IF c.at # "throw" THEN settled \cup {c.event} ELSE settled
    BY <1>1, <1>3, <1>4 DEF Faithful, Call
<1>6. MemoryGrows
    BY <1>1, <1>2, MemoryStays
<1>7. TrailTyped' /\ FileIsPrefix'
    <2>1. settled' \subseteq Events
        BY <1>2, <1>5 DEF TrailTyped
    <2>2. doing' \in [Writer -> {Idle} \cup Call]
        BY <1>1, <1>2 DEF TrailTyped
    <2> QED  BY <1>1, <1>2, <2>1, <2>2 DEF TrailTyped, FeedIsLeft, IsSeq, FileIsPrefix
<1>8. settled' \cup heard' \subseteq ToSet(disk')
    BY <1>1, <1>5 DEF Faithful, CallIsSound
<1>9. \A e \in settled' \ settled : NoCrash' /\ e.type \in Trade => TradeTold(e)'
    BY <1>1, <1>5 DEF CallIsSound, NoCrash, TradeTold, FailureNoted
<1>10. ToSet(disk) \subseteq ToSet(disk') /\ heard \subseteq heard' /\ (NoCrash' => NoCrash)
    BY <1>1 DEF NoCrash
<1>11. \A t \in ToSet(sent') : \E e \in heard' : FormatAlert(e) = {t}
    BY <1>1 DEF Faithful
<1>12. PICK d : d = Idle
    OBVIOUS
<1> QED
    BY <1>1, <1>6, <1>7, <1>8, <1>9, <1>10, <1>11, <1>12, OneCallMoves

\* The process dies: memory is the file again, and nothing is being recorded.
LEMMA CrashKeeps ==
    ASSUME Faithful, TrailCrash
    PROVE  Faithful'
<1>1. /\ budget.crashes > 0 /\ budget' = [budget EXCEPT !.crashes = @ - 1]
      /\ memory' = disk /\ doing' = [w \in Writer |-> Idle]
      /\ waiting' = <<>> /\ sent' = <<>>
      /\ UNCHANGED <<feed, disk, heard, settled>>
    BY DEF TrailCrash
<1>2. TrailTyped
    BY DEF Faithful
<1>3. /\ budget' \in [failures : Nat, crashes : 0 .. MaxCrashes]
      /\ budget'.crashes < budget.crashes /\ ~ NoCrash'
    BY <1>1, <1>2, FeedAssumption DEF TrailTyped, NoCrash
<1>4. ToSet(sent') = {} /\ IsSeq(sent)'
    <2>1. ToSet(<<>>) = {}
        BY DEF ToSet
    <2>2. <<>> \in Seq(ToSet(<<>>))
        BY EmptySeq
    <2> QED  BY <1>1, <2>1, <2>2 DEF IsSeq
<1>5. doing' \in [Writer -> {Idle} \cup Call]
    BY <1>1
<1>6. TrailTyped'
    BY <1>1, <1>2, <1>3, <1>4, <1>5 DEF TrailTyped, FeedIsLeft, IsSeq
<1>7. FileIsPrefix'
    <2>1. Len(disk) \in Nat
        BY <1>2, LenProperties DEF TrailTyped, IsSeq
    <2> QED  BY <1>1, <2>1 DEF FileIsPrefix
<1> QED
    BY <1>1, <1>3, <1>4, <1>6, <1>7 DEF Faithful

\* At the start nothing is recorded.
LEMMA FaithfulInitially ==
    ASSUME AlertInit
    PROVE  Faithful
<1>1. ToSet(<<>>) = {} /\ IsSeq(<<>>) /\ Len(<<>>) = 0
    <2>1. ToSet(<<>>) = {}
        BY DEF ToSet
    <2> QED  BY <2>1, EmptySeq DEF IsSeq
<1>2. FeedIsLeft
    <2>1. \A w \in Writer : Len(Feed[w]) \in Nat
        BY LenProperties, FeedAssumption
    <2>2. \A w \in Writer : \A i \in 1 .. Len(Feed[w]) : Len(Feed[w]) - Len(Feed[w]) + i = i
        BY <2>1
    <2> QED  BY <2>1, <2>2, FeedAssumption DEF AlertInit, FeedIsLeft
<1>3. budget \in [failures : Nat, crashes : 0 .. MaxCrashes]
    BY FeedAssumption DEF AlertInit
<1>4. TrailTyped
    BY <1>1, <1>2, <1>3 DEF AlertInit, TrailTyped
<1>5. FileIsPrefix
    BY <1>1 DEF AlertInit, FileIsPrefix
<1> QED
    BY <1>1, <1>4, <1>5 DEF AlertInit, Faithful

\* The invariant says what the trail promises.
LEMMA FaithfulMeans ==
    ASSUME Faithful
    PROVE  AlertsAreFaithful
<1>1. IsPrefix(disk, memory)
    BY WrittenIsPrefix DEF Faithful, TrailTyped
<1>2. AcknowledgedIsDurable
    BY <1>1 DEF Faithful, AcknowledgedIsDurable
<1>3. ToldIsOnRecord
    BY DEF Faithful, ToldIsOnRecord
<1>4. TradeNeverSilent
    BY DEF Faithful, TradeNeverSilent, NoCrash, TradeTold
<1> QED
    BY <1>2, <1>3, <1>4 DEF AlertsAreFaithful

\* In every state: what record() acknowledged is in the file, which is the beginning of memory; the
\* operator was told nothing that is not in the file; and unless the process died, every recorded
\* opening or closing of a trade was told, or the trail notes that telling failed.
THEOREM AlertsStayFaithful == AlertSpec => []AlertsAreFaithful
<1>1. AlertInit => Faithful
    BY FaithfulInitially
<1>2. Faithful /\ [AlertNext]_alertVars => Faithful'
    <2> SUFFICES ASSUME Faithful, [AlertNext]_alertVars PROVE Faithful'
        OBVIOUS
    <2>1. CASE UNCHANGED alertVars
        <3>1. UNCHANGED <<feed, doing, memory, disk, waiting, sent, heard, settled, budget>>
            BY <2>1 DEF alertVars
        <3>2. TrailTyped' /\ FileIsPrefix'
            BY <3>1 DEF Faithful, TrailTyped, FeedIsLeft, IsSeq, FileIsPrefix
        <3>3. /\ \A e : TradeTold(e) => TradeTold(e)'
              /\ \A c : CallIsSound(c) => CallIsSound(c)'
              /\ NoCrash' => NoCrash
            BY <3>1 DEF CallIsSound, NoCrash, TradeTold, FailureNoted
        <3>4. (\A w \in Writer : doing[w] # Idle => CallIsSound(doing[w]))'
            BY <3>1 DEF Faithful, CallIsSound, NoCrash, TradeTold, FailureNoted
        <3> QED  BY <3>1, <3>2, <3>3, <3>4 DEF Faithful
    <2>2. CASE TrailCrash
        BY <2>2, CrashKeeps
    <2>3. ASSUME NEW w \in Writer, BeginRecord(w) PROVE Faithful'
        BY <2>3, BeginRecordKeeps
    <2>4. ASSUME NEW w \in Writer, Persist(w) PROVE Faithful'
        BY <2>4, PersistKeeps
    <2>5. ASSUME NEW w \in Writer, SendAlert(w) PROVE Faithful'
        BY <2>5, SendAlertKeeps
    <2>6. ASSUME NEW w \in Writer, Return(w) PROVE Faithful'
        BY <2>6, ReturnKeeps
    <2> QED  BY <2>1, <2>2, <2>3, <2>4, <2>5, <2>6 DEF AlertNext
<1>3. Faithful => AlertsAreFaithful
    BY FaithfulMeans
<1> QED
    BY <1>1, <1>2, <1>3, PTL DEF AlertSpec


-----------------------------------------------------------------------------
(* PaperExecution *)

\* The positions a log tells of.
Heard(events_, type) == {events_[i].position : i \in {j \in DOMAIN events_ : events_[j].type = type}}
Closed(b) == {t.position : t \in b.trades}

ReplayEvent ==
    [type : {"CANDLE_PROCESSED", "RISK_APPROVED", "RISK_REJECTED", "ORDER_SUBMITTED", "REALISED_PNL"}]
    \cup [type : {"SIGNAL_GENERATED"}, action : {"NO_ACTION", "ENTER_LONG", "EXIT_POSITION"}]
    \cup [type : {"POSITION_OPENED", "POSITION_CLOSED"}, position : Nat]

\* What is evaluated is a candle of a fixture.
CandleIsRead ==
    /\ candles = <<>> \/ candles \in Fixtures
    /\ index \in 0 .. Len(candles)
    /\ pending \subseteq Strategy
    /\ (pending # {} \/ step.at \notin {"idle", "aborted"}) => index > 0

\* Positions are numbered as they are opened, and each is open or closed once.
BookIsWhole ==
    /\ book = [cash |-> book.cash, open |-> book.open, trades |-> book.trades] /\ book.cash \in Int
    /\ IsFiniteSet(book.open) /\ IsFiniteSet(book.trades)
    /\ \A p \in book.open : p.quantity \in Nat /\ p.entryPrice \in Nat
    /\ \A t \in book.trades : t.pnl \in Int
    /\ \A p, q \in book.open : p.id = q.id => p = q
    /\ \A p \in book.open : p.id \notin Closed(book)
    /\ IsFiniteSet(EverOpened(book)) /\ EverOpened(book) = 1 .. Cardinality(EverOpened(book))
    /\ \A b \in bookFile : b.trades \subseteq book.trades

\* Nothing changes the book or the price between an approval and its fill.
StepIsReal ==
    /\ step.at \in {"idle", "aborted", "risk", "submit", "place", "close", "opened", "closed", "pnl"}
    /\ step.at \in {"risk", "submit", "place"} => step.order.quantity \in Nat /\ step.order.price \in Nat
    /\ step.at = "risk" => step.order.strategy = step.strategy.id
    /\ step.at \in {"submit", "place"} => ~BrokerRefuses(step.order)
    /\ step.at = "close" => step.position \in book.open

\* The log has every fill but the one at hand, or the one whose write ended the replay.
LogTells ==
    /\ events \in Seq(ReplayEvent) /\ log \in Seq(ReplayEvent)
    /\ step.at # "aborted" => events = log
    /\ Heard(log, "POSITION_OPENED") \subseteq EverOpened(book)
    /\ Heard(log, "POSITION_CLOSED") \subseteq Closed(book)
    /\ step.at \notin {"opened", "aborted"} => EverOpened(book) = Heard(log, "POSITION_OPENED")
    /\ step.at \notin {"closed", "aborted"} => Closed(book) = Heard(log, "POSITION_CLOSED")
    /\ step.at = "opened" => EverOpened(book) = Heard(log, "POSITION_OPENED") \cup {step.position}
    /\ step.at = "closed" => Closed(book) = Heard(log, "POSITION_CLOSED") \cup {step.position}

Accounted == CandleIsRead /\ BookIsWhole /\ CashConserved /\ StepIsReal /\ LogTells

-----------------------------------------------------------------------------
(* What a book costs or earned is a sum in any order: a fold takes the       *)
(* elements in an order of its own.                                         *)

\* Every set of naturals that is not empty has a least element.
LEMMA Least == ASSUME NEW N \in SUBSET Nat, N # {} PROVE \E n \in N : \A m \in N : n <= m
<1> DEFINE R == {p \in Nat \X Nat : p[1] < p[2]}
<1>1. IsWellFoundedOn(R, Nat)
    <2>1. OpToRel(<, Nat) = R
        BY DEF OpToRel
    <2> HIDE DEF R
    <2> QED  BY <2>1, NatLessThanWellFounded, Zenon
<1>2. \A m, n \in Nat : m < n => <<m, n>> \in R
    OBVIOUS
<1> HIDE DEF R
<1>3. PICK n \in N : \A m \in N : <<m, n>> \notin R
    BY <1>1, WFMin
<1>4. ASSUME NEW m \in N PROVE n <= m
    <2>1. m \in Nat /\ n \in Nat /\ ~(m < n)
        BY <1>2, <1>3
    <2> QED  BY <2>1
<1> QED  BY <1>4

\* The element a fold takes next.
Picked(s) == CHOOSE e \in s : TRUE

\* g is the fold of f over every set of D.
Adds(g, f, D) == g = [s \in D |-> IF s = {} THEN 0 ELSE f[Picked(s)] + g[s \ {Picked(s)}]]

\* Folds of functions that agree on a finite set agree on it, when both cover its subsets.
LEMMA AddsUnique ==
    ASSUME NEW S, IsFiniteSet(S), NEW f, NEW h, \A x \in S : f[x] = h[x],
           NEW D, NEW E, NEW g, Adds(g, f, D), NEW k, Adds(k, h, E), SUBSET S \subseteq D \cap E
    PROVE  g[S] = k[S]
<1> DEFINE Bad == {n \in Nat : \E r \in SUBSET S : Cardinality(r) = n /\ g[r] # k[r]}
<1> SUFFICES ASSUME g[S] # k[S] PROVE FALSE
    OBVIOUS
<1>1. Cardinality(S) \in Bad
    BY FS_CardinalityType
<1>2. PICK n \in Bad : \A m \in Bad : n <= m
    BY <1>1, Least
<1>3. PICK r \in SUBSET S : Cardinality(r) = n /\ g[r] # k[r]
    BY <1>2
<1>4. r # {}
    BY <1>3 DEF Adds
<1> DEFINE t == Picked(r)
<1>5. t \in r
    BY <1>4 DEF Picked
<1> HIDE DEF t
<1>6. IsFiniteSet(r) /\ Cardinality(r \ {t}) = n - 1 /\ n \in Nat /\ n - 1 \in Nat
    <2>1. IsFiniteSet(r) /\ n \in Nat
        BY <1>3, FS_Subset
    <2>2. Cardinality(r \ {t}) = Cardinality(r) - 1
        BY <1>5, <2>1, FS_RemoveElement
    <2>3. Cardinality(r \ {t}) \in Nat
        BY <2>1, FS_Subset, FS_CardinalityType
    <2> QED  BY <1>3, <2>1, <2>2, <2>3
<1>7. g[r \ {t}] = k[r \ {t}]
    <2>1. n - 1 \notin Bad
        BY <1>2, <1>6
    <2> QED  BY <1>3, <1>6, <2>1
<1>8. g[r] = f[t] + g[r \ {t}] /\ k[r] = h[t] + k[r \ {t}] /\ f[t] = h[t]
    BY <1>3, <1>4, <1>5 DEF Adds, t
<1> QED  BY <1>3, <1>7, <1>8

\* The fold exists.
LEMMA AddsExists ==
    ASSUME NEW S, IsFiniteSet(S), NEW h
    PROVE  \E f : Adds(f, h, SUBSET S)
<1> DEFINE D(n) == {s \in SUBSET S : Cardinality(s) <= n}
           Bad == {n \in Nat : ~ \E f : Adds(f, h, D(n))}
<1>1. \A s \in SUBSET S : IsFiniteSet(s) /\ Cardinality(s) \in Nat /\ Cardinality(s) <= Cardinality(S)
    BY FS_Subset, FS_CardinalityType
<1>2. Cardinality(S) \in Nat /\ D(Cardinality(S)) = SUBSET S
    BY <1>1, FS_CardinalityType
<1> SUFFICES ASSUME Cardinality(S) \in Bad PROVE FALSE
    BY <1>2
<1>3. PICK n \in Bad : \A m \in Bad : n <= m
    BY Least
<1>4. n # 0
    <2>1. ASSUME n = 0 PROVE \A s \in D(0) : s = {}
        BY <1>1, FS_EmptySet
    <2>2. ASSUME n = 0 PROVE Adds([s \in D(0) |-> 0], h, D(0))
        BY <2>1, <2>2 DEF Adds
    <2> QED  BY <1>3, <2>2
<1>5. n \in Nat /\ n - 1 \in Nat /\ n - 1 \notin Bad
    <2>1. n \in Nat
        OBVIOUS
    <2> HIDE DEF Bad
    <2> QED  BY <1>3, <1>4, <2>1
<1>6. PICK f : Adds(f, h, D(n - 1))
    BY <1>5
<1> DEFINE g == [s \in D(n) |-> IF s = {} THEN 0 ELSE h[Picked(s)] + f[s \ {Picked(s)}]]
<1>7. ASSUME NEW s \in D(n), s # {}
      PROVE  s \ {Picked(s)} \in D(n - 1) /\ g[s \ {Picked(s)}] = f[s \ {Picked(s)}]
    <2>1. Picked(s) \in s
        BY <1>7 DEF Picked
    <2>2. Cardinality(s \ {Picked(s)}) = Cardinality(s) - 1 /\ Cardinality(s) \in Nat
        BY <1>1, <2>1, FS_RemoveElement
    <2>3. s \ {Picked(s)} \in D(n - 1) /\ s \ {Picked(s)} \in D(n)
        BY <1>5, <2>2
    <2> DEFINE r == s \ {Picked(s)}
    <2>4. f[r] = IF r = {} THEN 0 ELSE h[Picked(r)] + f[r \ {Picked(r)}]
        <3> HIDE DEF D
        <3> QED  BY <1>6, <2>3 DEF Adds
    <2> QED  BY <2>3, <2>4
<1>8. Adds(g, h, D(n))
    <2> HIDE DEF D
    <2> SUFFICES \A s \in D(n) : g[s] = IF s = {} THEN 0 ELSE h[Picked(s)] + g[s \ {Picked(s)}]
        BY DEF Adds
    <2> QED  BY <1>7
<1> QED  BY <1>3, <1>8

\* A sum is that of the next element and the rest, and depends on the values only.
LEMMA SumStep ==
    ASSUME NEW S, IsFiniteSet(S), NEW f, NEW h, \A x \in S : f[x] = h[x]
    PROVE  /\ SumFunctionOnSet(f, S) = IF S = {} THEN 0
                                       ELSE f[Picked(S)] + SumFunctionOnSet(f, S \ {Picked(S)})
           /\ SumFunctionOnSet(f, S) = SumFunctionOnSet(h, S)
<1> DEFINE Fold(e, R) == CHOOSE g : Adds(g, e, SUBSET R)
<1>1. ASSUME NEW e, NEW R PROVE SumFunctionOnSet(e, R) = Fold(e, R)[R]
    BY DEF SumFunctionOnSet, FoldFunctionOnSet, MapThenFoldSet, Adds, Picked
<1>2. ASSUME NEW e, NEW R, IsFiniteSet(R) PROVE Adds(Fold(e, R), e, SUBSET R)
    BY <1>2, AddsExists
<1> HIDE DEF Fold
<1>3. Fold(f, S)[S] = IF S = {} THEN 0 ELSE f[Picked(S)] + Fold(f, S)[S \ {Picked(S)}]
    <2>1. Adds(Fold(f, S), f, SUBSET S)
        BY <1>2
    <2> QED  BY <2>1 DEF Adds
<1> DEFINE r == S \ {Picked(S)}
<1>4. Fold(f, S)[r] = Fold(f, r)[r]
    <2>1. IsFiniteSet(r) /\ r \subseteq S
        BY FS_Subset
    <2> HIDE DEF r
    <2>2. Adds(Fold(f, S), f, SUBSET S) /\ Adds(Fold(f, r), f, SUBSET r)
        BY <1>2, <2>1
    <2>3. SUBSET r \subseteq (SUBSET S) \cap (SUBSET r)
        BY <2>1
    <2> QED  BY <2>1, <2>2, <2>3, AddsUnique
<1>5. Fold(f, S)[S] = Fold(h, S)[S]
    <2>1. Adds(Fold(f, S), f, SUBSET S) /\ Adds(Fold(h, S), h, SUBSET S)
        BY <1>2
    <2> QED  BY <2>1, AddsUnique
<1> QED  BY <1>1, <1>3, <1>4, <1>5

Summable(f, S) == IsFiniteSet(S) /\ \A x \in S : f[x] \in Int

\* A sum of integers is one.
LEMMA SumInt ==
    ASSUME NEW f, NEW S, Summable(f, S)
    PROVE  SumFunctionOnSet(f, S) \in Int
<1> DEFINE Of(r) == SumFunctionOnSet(f, r)
           Bad == {n \in Nat : \E r \in SUBSET S : Cardinality(r) = n /\ Of(r) \notin Int}
<1> SUFFICES ASSUME Of(S) \notin Int PROVE FALSE
    OBVIOUS
<1>0. \A r \in SUBSET S : Of(r) = IF r = {} THEN 0 ELSE f[Picked(r)] + Of(r \ {Picked(r)})
    BY FS_Subset, SumStep DEF Summable
<1> HIDE DEF Of
<1>1. Cardinality(S) \in Bad
    BY FS_CardinalityType DEF Summable
<1>2. PICK n \in Bad : \A m \in Bad : n <= m
    BY <1>1, Least
<1>3. PICK r \in SUBSET S : Cardinality(r) = n /\ Of(r) \notin Int
    BY <1>2
<1>4. IsFiniteSet(r) /\ r # {}
    <2>1. IsFiniteSet(r)
        BY <1>3, FS_Subset DEF Summable
    <2>2. r = {} => Of(r) = 0
        BY <1>0, <1>3
    <2> QED  BY <1>3, <2>1, <2>2
<1> DEFINE t == Picked(r)
<1>5. t \in r
    BY <1>4 DEF Picked
<1>9. Of(r) = f[t] + Of(r \ {t})
    BY <1>0, <1>3, <1>4
<1> HIDE DEF t
<1>6. n \in Nat /\ n - 1 \in Nat /\ Cardinality(r \ {t}) = n - 1
    <2>1. Cardinality(r \ {t}) = n - 1
        BY <1>3, <1>4, <1>5, FS_RemoveElement
    <2>2. Cardinality(r \ {t}) \in Nat
        BY <1>4, FS_Subset, FS_CardinalityType
    <2> QED  BY <1>2, <2>1, <2>2
<1>7. n - 1 \notin Bad
    <2> HIDE DEF Bad
    <2> QED  BY <1>2, <1>6
<1>8. Of(r \ {t}) \in Int
    BY <1>3, <1>6, <1>7
<1> QED  BY <1>3, <1>5, <1>8, <1>9 DEF Summable

\* Any element may be taken out first.
LEMMA SumRemove ==
    ASSUME NEW f, NEW S, Summable(f, S), NEW u \in S
    PROVE  SumFunctionOnSet(f, S) = f[u] + SumFunctionOnSet(f, S \ {u})
<1> DEFINE Of(r) == SumFunctionOnSet(f, r)
           Bad == {n \in Nat : \E r \in SUBSET S, v \in S : /\ Cardinality(r) = n /\ v \in r
                                                            /\ Of(r) # f[v] + Of(r \ {v})}
<1> SUFFICES ASSUME Of(S) # f[u] + Of(S \ {u}) PROVE FALSE
    OBVIOUS
<1>0. /\ \A r \in SUBSET S : r # {} => Of(r) = f[Picked(r)] + Of(r \ {Picked(r)})
      /\ \A r \in SUBSET S : Of(r) \in Int
    BY FS_Subset, SumStep, SumInt DEF Summable
<1> HIDE DEF Of
<1>1. Cardinality(S) \in Bad
    BY FS_CardinalityType DEF Summable
<1>2. PICK n \in Bad : \A m \in Bad : n <= m
    BY <1>1, Least
<1>3. PICK r \in SUBSET S, v \in S : Cardinality(r) = n /\ v \in r /\ Of(r) # f[v] + Of(r \ {v})
    BY <1>2
<1>4. IsFiniteSet(r) /\ r # {}
    BY <1>3, FS_Subset DEF Summable
<1> DEFINE t == Picked(r)
<1>5. t \in r /\ t \in S
    BY <1>4 DEF Picked
<1>6. Of(r) = f[t] + Of(r \ {t})
    BY <1>0, <1>4
<1> HIDE DEF t
<1>7. t # v
    BY <1>3, <1>6
<1>8. n \in Nat /\ n - 1 \in Nat /\ Cardinality(r \ {t}) = n - 1 /\ Cardinality(r \ {v}) = n - 1
    <2>1. Cardinality(r \ {t}) = n - 1 /\ Cardinality(r \ {v}) = n - 1
        BY <1>3, <1>4, <1>5, FS_RemoveElement
    <2>2. Cardinality(r \ {t}) \in Nat
        BY <1>4, FS_Subset, FS_CardinalityType
    <2> QED  BY <1>2, <2>1, <2>2
<1>9. n - 1 \notin Bad
    <2> HIDE DEF Bad
    <2> QED  BY <1>2, <1>8
<1>10. Of(r \ {t}) = f[v] + Of((r \ {t}) \ {v})
    BY <1>3, <1>7, <1>8, <1>9
<1>11. Of(r \ {v}) = f[t] + Of((r \ {v}) \ {t})
    BY <1>3, <1>5, <1>7, <1>8, <1>9
<1>12. (r \ {t}) \ {v} = (r \ {v}) \ {t}
    OBVIOUS
<1>13. f[v] \in Int /\ f[t] \in Int /\ Of((r \ {t}) \ {v}) \in Int
    BY <1>0, <1>3, <1>5 DEF Summable
<1>14. Of(r \ {v}) = f[t] + Of((r \ {t}) \ {v})
    BY <1>11, <1>12
<1>15. \A a, b, c \in Int : a + (b + c) = b + (a + c)
    OBVIOUS
<1> QED  BY <1>3, <1>6, <1>10, <1>13, <1>14, <1>15

\* What one position more costs.
LEMMA CostAdd ==
    ASSUME NEW S, IsFiniteSet(S), NEW u, u \notin S,
           \A p \in S \cup {u} : p.quantity \in Nat /\ p.entryPrice \in Nat
    PROVE  /\ Cost(S) \in Int
           /\ Cost(S \cup {u}) = u.quantity * u.entryPrice + Cost(S)
<1> DEFINE T == S \cup {u}
           f == [p \in T |-> p.quantity * p.entryPrice]
           h == [p \in S |-> p.quantity * p.entryPrice]
<1>1. Summable(f, T) /\ Summable(h, S) /\ u \in T /\ f[u] = u.quantity * u.entryPrice
    <2>1. IsFiniteSet(T)
        BY FS_AddElement
    <2>2. \A a, b \in Nat : a * b \in Int
        OBVIOUS
    <2> QED  BY <2>1, <2>2 DEF Summable
<1>2. \A p \in S : f[p] = h[p]
    OBVIOUS
<1>3. Cost(T) = SumFunctionOnSet(f, T) /\ Cost(S) = SumFunctionOnSet(h, S)
    BY DEF Cost, SumFunction
<1>4. T \ {u} = S
    OBVIOUS
<1> HIDE DEF T, f, h
<1>5. SumFunctionOnSet(f, T) = f[u] + SumFunctionOnSet(f, S)
    BY <1>1, <1>4, SumRemove
<1>6. SumFunctionOnSet(f, S) = SumFunctionOnSet(h, S)
    BY <1>2, SumStep
<1> QED  BY <1>1, <1>3, <1>5, <1>6, SumInt DEF T

\* What one trade more earned.
LEMMA RealisedAdd ==
    ASSUME NEW S, IsFiniteSet(S), NEW u, u \notin S, \A t \in S \cup {u} : t.pnl \in Int
    PROVE  /\ Realised(S) \in Int
           /\ Realised(S \cup {u}) = u.pnl + Realised(S)
<1> DEFINE T == S \cup {u}
           f == [t \in T |-> t.pnl]
           h == [t \in S |-> t.pnl]
<1>1. Summable(f, T) /\ Summable(h, S) /\ u \in T /\ f[u] = u.pnl
    BY FS_AddElement DEF Summable
<1>2. \A t \in S : f[t] = h[t]
    OBVIOUS
<1>3. Realised(T) = SumFunctionOnSet(f, T) /\ Realised(S) = SumFunctionOnSet(h, S)
    BY DEF Realised, SumFunction
<1>4. T \ {u} = S
    OBVIOUS
<1> HIDE DEF T, f, h
<1>5. SumFunctionOnSet(f, T) = f[u] + SumFunctionOnSet(f, S)
    BY <1>1, <1>4, SumRemove
<1>6. SumFunctionOnSet(f, S) = SumFunctionOnSet(h, S)
    BY <1>2, SumStep
<1> QED  BY <1>1, <1>3, <1>5, <1>6, SumInt DEF T

-----------------------------------------------------------------------------
(* The account, step by step.                                              *)

\* A fixture's candles have prices.
LEMMA CandlePrices ==
    ASSUME CandleIsRead
    PROVE  /\ Len(candles) \in Nat /\ index \in Nat
           /\ index > 0 => index \in DOMAIN candles /\ Price \in Nat \ {0}
BY ReplayAssumption DEF CandleIsRead, Price

\* What one event more makes of a log.
LEMMA HeardAppend ==
    ASSUME NEW l \in Seq(ReplayEvent), NEW e \in ReplayEvent, NEW type
    PROVE  /\ Append(l, e) \in Seq(ReplayEvent)
           /\ Heard(Append(l, e), type) = IF e.type = type THEN Heard(l, type) \cup {e.position} ELSE Heard(l, type)
<1>1. /\ Append(l, e) \in Seq(ReplayEvent)
      /\ Len(l) \in Nat /\ DOMAIN l = 1 .. Len(l) /\ DOMAIN Append(l, e) = 1 .. (Len(l) + 1)
      /\ \A i \in 1 .. Len(l) : Append(l, e)[i] = l[i]
      /\ Append(l, e)[Len(l) + 1] = e
    BY AppendProperties, LenProperties
<1>2. (DOMAIN l) \cup {Len(l) + 1} = DOMAIN Append(l, e) /\ Len(l) + 1 \notin DOMAIN l
    BY <1>1
<1> QED  BY <1>1, <1>2 DEF Heard

\* The position numbers, and so the log's beginning.
LEMMA AccountedInitially == ReplayInit => Accounted
<1> SUFFICES ASSUME ReplayInit PROVE Accounted
    OBVIOUS
<1> USE DEF ReplayInit, NoStep
<1>1. EverOpened(book) = {} /\ Closed(book) = {} /\ \A type : Heard(log, type) = {}
    BY DEF EverOpened, Closed, Heard
<1>2. IsFiniteSet({}) /\ Cardinality({}) = 0 /\ 1 .. 0 = {}
    BY FS_EmptySet
<1>3. CandleIsRead /\ StepIsReal
    BY DEF CandleIsRead, StepIsReal
<1>4. BookIsWhole
    <2>1. book.open = {} /\ book.trades = {} /\ bookFile = {} /\ book.cash \in Int
          /\ book = [cash |-> book.cash, open |-> book.open, trades |-> book.trades]
        BY ReplayAssumption
    <2> QED  BY <1>1, <1>2, <2>1 DEF BookIsWhole
<1>5. LogTells
    <2>1. <<>> \in Seq(ReplayEvent) /\ step.at = "idle"
        OBVIOUS
    <2> QED  BY <1>1, <2>1 DEF LogTells
<1>6. CashConserved
    <2>1. SumFunctionOnSet([p \in {} |-> p.quantity * p.entryPrice], {}) = 0
          /\ SumFunctionOnSet([t \in {} |-> t.pnl], {}) = 0
        BY <1>2, SumStep
    <2>2. Cost({}) = 0 /\ Realised({}) = 0
        BY <2>1 DEF Cost, Realised, SumFunction
    <2> QED  BY <2>2, ReplayAssumption DEF CashConserved
<1> QED  BY <1>3, <1>4, <1>5, <1>6 DEF Accounted

\* A step that leaves the book and the place in the fixture.
LEMMA BookStays ==
    ASSUME BookIsWhole, CashConserved, UNCHANGED <<book, bookFile>>
    PROVE  BookIsWhole' /\ CashConserved' /\ EverOpened(book)' = EverOpened(book) /\ Closed(book)' = Closed(book)
BY DEF BookIsWhole, CashConserved, EverOpened, Closed

\* An event about no position, recorded while the log has all the book has.
LEMMA NewsKeeps ==
    ASSUME LogTells, UNCHANGED book, NEW e \in ReplayEvent, NEW next, RecordEvent(e, next),
           e.type \notin {"POSITION_OPENED", "POSITION_CLOSED"},
           step.at \notin {"opened", "closed", "aborted"}, next.at \notin {"opened", "closed", "aborted"}
    PROVE  LogTells'
<1>1. events = log /\ events \in Seq(ReplayEvent)
    BY DEF LogTells
<1> DEFINE more == Append(log, e)
<1>2. more \in Seq(ReplayEvent) /\ Heard(more, "POSITION_OPENED") = Heard(log, "POSITION_OPENED")
      /\ Heard(more, "POSITION_CLOSED") = Heard(log, "POSITION_CLOSED")
    BY <1>1, HeardAppend
<1>3. events' = more /\ (\/ log' = more /\ step' = next
                         \/ log' = log /\ step'.at = "aborted")
    BY <1>1 DEF RecordEvent
<1> HIDE DEF more
<1> QED  BY <1>1, <1>2, <1>3 DEF LogTells

\* Reading the fixture, skipping a candle and going to the next.
LEMMA ReadingKeeps ==
    ASSUME Accounted, LoadFixture \/ SkipCandle \/ NextCandle
    PROVE  Accounted'
<1> USE DEF Accounted
<1>1. Len(candles) \in Nat /\ index \in Nat
    BY CandlePrices
<1>2. CASE LoadFixture
    <2>1. Len(candles) = 0 /\ index = 0 /\ pending = {} /\ step.at \in {"idle", "aborted"}
        BY <1>2 DEF LoadFixture, CandleIsRead
    <2>2. candles' \in Fixtures /\ Len(candles') \in Nat
        BY <1>2, ReplayAssumption DEF LoadFixture
    <2>3. CandleIsRead' /\ StepIsReal'
        BY <1>2, <2>1, <2>2 DEF LoadFixture, CandleIsRead, StepIsReal
    <2>4. bookFile' \in {{book}, bookFile, {}} /\ UNCHANGED <<book, events, log, step>>
        BY <1>2 DEF LoadFixture, SaveBook
    <2>5. BookIsWhole' /\ CashConserved'
        BY <2>4 DEF BookIsWhole, CashConserved, EverOpened, Closed
    <2>6. LogTells'
        BY <2>4 DEF LogTells
    <2> QED  BY <2>3, <2>5, <2>6
<1>3. CASE SkipCandle
    <2>1. UNCHANGED <<candles, pending, step, book, bookFile, events, log>> /\ index' = index + 1 /\ index < Len(candles)
        BY <1>3 DEF SkipCandle
    <2>2. CandleIsRead'
        BY <1>1, <2>1 DEF CandleIsRead
    <2>3. StepIsReal' /\ LogTells'
        BY <2>1 DEF StepIsReal, BrokerRefuses, LogTells
    <2> QED  BY <2>1, <2>2, <2>3, BookStays
<1>4. CASE NextCandle
    <2> DEFINE e == [type |-> "CANDLE_PROCESSED"]
    <2>1. UNCHANGED <<candles, book, bookFile>> /\ index' = index + 1 /\ index < Len(candles)
          /\ pending' \subseteq Strategy /\ RecordEvent(e, NoStep) /\ step = NoStep
        BY <1>4 DEF NextCandle
    <2>2. step'.at \in {"idle", "aborted"} /\ step.at = "idle"
        BY <2>1 DEF RecordEvent, NoStep
    <2>3. CandleIsRead' /\ StepIsReal'
        BY <1>1, <2>1, <2>2 DEF CandleIsRead, StepIsReal
    <2>4. e \in ReplayEvent /\ e.type = "CANDLE_PROCESSED"
        BY DEF ReplayEvent
    <2>5. LogTells'
        <3> HIDE DEF e
        <3> QED  BY <2>1, <2>2, <2>4, NewsKeeps DEF NoStep
    <2> QED  BY <2>1, <2>3, <2>5, BookStays
<1> QED  BY <1>2, <1>3, <1>4

\* The evaluation of a strategy: an exit is about a position there is, an order is at a price.
LEMMA EvaluateKeeps ==
    ASSUME Accounted, NEW s \in pending, Evaluate(s)
    PROVE  Accounted'
<1> USE DEF Accounted
<1> DEFINE signal == EvaluateSignal(s, Window, Existing(s))
           e == [type |-> "SIGNAL_GENERATED", action |-> signal]
           next == CASE signal = "NO_ACTION"  -> NoStep
                     [] signal = "ENTER_LONG" -> [at |-> "risk", strategy |-> s, order |-> Order(s)]
                     [] OTHER -> [at |-> "close", position |-> CHOOSE p \in Existing(s) : TRUE]
<1>1. UNCHANGED <<candles, index, book, bookFile>> /\ pending' = pending \ {s}
      /\ RecordEvent(e, next) /\ step = NoStep
    BY DEF Evaluate
<1>2. signal \in {"NO_ACTION", "ENTER_LONG", "EXIT_POSITION"} /\ (signal = "EXIT_POSITION" => Existing(s) # {})
    BY DEF EvaluateSignal
<1>3. s \in Strategy /\ index > 0
    BY DEF CandleIsRead
<1>4. Order(s).quantity \in Nat /\ Order(s).price \in Nat /\ Order(s).strategy = s.id
    <2>1. Price \in Nat \ {0} /\ s.maxPositionValue \in Nat
        BY <1>3, CandlePrices, ReplayAssumption
    <2>2. \A n \in Nat, d \in Nat \ {0} : n \div d \in Nat
        OBVIOUS
    <2> QED  BY <2>1, <2>2 DEF Order
<1>5. e \in ReplayEvent /\ e.type = "SIGNAL_GENERATED"
    BY <1>2 DEF ReplayEvent
<1>6. next.at \in {"idle", "risk", "close"}
      /\ (next.at = "risk" => next.order = Order(s) /\ next.strategy = s)
      /\ (next.at = "close" => next.position \in Existing(s))
    <2> HIDE DEF signal
    <2>1. CASE signal = "NO_ACTION"
        BY <2>1 DEF NoStep
    <2>2. CASE signal = "ENTER_LONG"
        BY <2>2
    <2>3. CASE signal = "EXIT_POSITION"
        BY <1>2, <2>3
    <2> QED  BY <1>2, <2>1, <2>2, <2>3
<1> HIDE DEF e, next, signal
<1>7. step' = next \/ step' = [at |-> "aborted"]
    BY <1>1 DEF RecordEvent
<1>8. StepIsReal'
    <2>1. CASE step' = [at |-> "aborted"]
        BY <2>1 DEF StepIsReal
    <2>2. CASE step' = next
        BY <1>1, <1>4, <1>6, <2>2 DEF StepIsReal, Existing
    <2> QED  BY <1>7, <2>1, <2>2
<1>9. CandleIsRead'
    BY <1>1, <1>3 DEF CandleIsRead
<1>10. LogTells'
    BY <1>1, <1>5, <1>6, NewsKeeps DEF NoStep
<1> QED  BY <1>1, <1>8, <1>9, <1>10, BookStays

\* The risk engine approves what the broker will not refuse.
LEMMA ApprovalKeeps ==
    ASSUME Accounted, AssessRisk \/ Submit
    PROVE  Accounted'
<1> USE DEF Accounted
<1>0. UNCHANGED <<candles, index, pending, book, bookFile>> /\ step.at \in {"risk", "submit"} /\ index > 0
    BY DEF AssessRisk, Submit, CandleIsRead
<1>1. ASSUME NEW e, NEW next, RecordEvent(e, next), next.at \in {"idle", "submit", "place"},
             e \in {[type |-> "RISK_APPROVED"], [type |-> "RISK_REJECTED"], [type |-> "ORDER_SUBMITTED"]},
             next.at # "idle" => next.order = step.order /\ ~BrokerRefuses(step.order)
      PROVE  Accounted'
    <2>1. e \in ReplayEvent /\ e.type \in {"RISK_APPROVED", "RISK_REJECTED", "ORDER_SUBMITTED"}
        BY <1>1 DEF ReplayEvent
    <2>2. LogTells'
        BY <1>0, <1>1, <2>1, NewsKeeps
    <2>3. CASE step' = [at |-> "aborted"]
        <3>1. StepIsReal' /\ CandleIsRead'
            BY <1>0, <2>3 DEF StepIsReal, CandleIsRead
        <3> QED  BY <1>0, <2>2, <3>1, BookStays
    <2>4. CASE step' = next
        <3>1. StepIsReal'
            BY <1>0, <1>1, <2>4 DEF StepIsReal, BrokerRefuses
        <3>2. CandleIsRead'
            BY <1>0, <2>4 DEF CandleIsRead
        <3> QED  BY <1>0, <2>2, <3>1, <3>2, BookStays
    <2> QED  BY <1>1, <2>3, <2>4 DEF RecordEvent
<1>2. CASE AssessRisk
    <2> DEFINE failed == EvaluateRisk(step.strategy, step.order, book.cash, book.open, RISK)
    <2>1. CASE failed # {}
        <3>1. RecordEvent([type |-> "RISK_REJECTED"], NoStep)
            BY <1>2, <2>1 DEF AssessRisk
        <3> QED  BY <1>1, <3>1 DEF NoStep
    <2>2. CASE failed = {}
        <3>1. /\ ~(step.order.quantity <= 0)
              /\ ~(CalculateNotional(RISK.sizing, step.order.quantity, step.order.price) > book.cash)
              /\ ~\E p \in book.open : p.strategy = step.strategy.id /\ p.instrument = step.order.instrument
            BY <2>2 DEF EvaluateRisk
        <3>2. ~BrokerRefuses(step.order)
            BY <1>2, <3>1, ReplayAssumption
            DEF AssessRisk, StepIsReal, BrokerRefuses, CalculateNotional, Value
        <3> DEFINE next == [at |-> "submit", order |-> step.order]
        <3>3. RecordEvent([type |-> "RISK_APPROVED"], next)
            BY <1>2, <2>2 DEF AssessRisk
        <3>4. next.at = "submit" /\ next.order = step.order
            OBVIOUS
        <3> HIDE DEF next
        <3> QED  BY <1>1, <3>2, <3>3, <3>4
    <2> QED  BY <2>1, <2>2
<1>3. CASE Submit
    <2> DEFINE next == [at |-> "place", order |-> step.order]
    <2>1. RecordEvent([type |-> "ORDER_SUBMITTED"], next) /\ ~BrokerRefuses(step.order)
        BY <1>3 DEF Submit, StepIsReal
    <2>2. next.at = "place" /\ next.order = step.order
        OBVIOUS
    <2> HIDE DEF next
    <2> QED  BY <1>1, <2>1, <2>2
<1> QED  BY <1>2, <1>3

\* A fill: a new number, and cash for what it costs.
LEMMA PlaceKeeps ==
    ASSUME Accounted, PlaceMarketOrder
    PROVE  Accounted'
<1> USE DEF Accounted
<1> DEFINE order == step.order
           id == Cardinality(EverOpened(book)) + 1
           filled == [id |-> id, strategy |-> order.strategy, instrument |-> order.instrument,
                      quantity |-> order.quantity, entryPrice |-> order.price]
<1>1. /\ UNCHANGED <<candles, index, pending, events, log>> /\ step.at = "place"
      /\ book' = [book EXCEPT !.cash = @ - Value(order), !.open = @ \cup {filled}]
      /\ bookFile' \in {{book'}, bookFile, {}} /\ step' = [at |-> "opened", position |-> id]
    BY DEF PlaceMarketOrder, StepIsReal, SaveBook
<1>2. /\ order.quantity \in Nat /\ order.price \in Nat /\ Value(order) = order.quantity * order.price
      /\ Value(order) \in Int /\ ~(Value(order) > book.cash)
    <2>1. \A a, b \in Nat : a * b \in Int
        OBVIOUS
    <2> QED  BY <1>1, <2>1 DEF StepIsReal, BrokerRefuses, Value
<1>3. /\ filled.id = id /\ filled.quantity = order.quantity /\ filled.entryPrice = order.price
      /\ step'.at = "opened" /\ step'.position = id
    BY <1>1
<1> HIDE DEF filled, order
<1>4. /\ book'.cash = book.cash - Value(order) /\ book'.open = book.open \cup {filled}
      /\ book'.trades = book.trades
      /\ book' = [cash |-> book'.cash, open |-> book'.open, trades |-> book'.trades]
    BY <1>1 DEF BookIsWhole
<1>5. id \in Nat /\ id \notin EverOpened(book) /\ EverOpened(book) \cup {id} = 1 .. id
      /\ IsFiniteSet(EverOpened(book) \cup {id}) /\ Cardinality(EverOpened(book) \cup {id}) = id
    <2>1. Cardinality(EverOpened(book)) \in Nat
        BY FS_CardinalityType DEF BookIsWhole
    <2>2. id \notin EverOpened(book) /\ EverOpened(book) \cup {id} = 1 .. id
        <3> DEFINE n == Cardinality(EverOpened(book))
        <3>1. EverOpened(book) = 1 .. n
            BY DEF BookIsWhole
        <3> HIDE DEF n
        <3>2. id = n + 1 /\ n \in Nat
            BY <2>1 DEF n
        <3> HIDE DEF id
        <3> QED  BY <3>1, <3>2
    <2>3. IsFiniteSet(EverOpened(book)) /\ Cardinality(EverOpened(book)) + 1 = id /\ id \in Nat
        BY <2>1 DEF BookIsWhole
    <2> HIDE DEF id
    <2>4. IsFiniteSet(EverOpened(book) \cup {id}) /\ Cardinality(EverOpened(book) \cup {id}) = id
        BY <2>2, <2>3, FS_AddElement
    <2> QED  BY <2>2, <2>3, <2>4
<1> HIDE DEF id
<1>6. EverOpened(book)' = EverOpened(book) \cup {id} /\ Closed(book)' = Closed(book)
    BY <1>3, <1>4 DEF EverOpened, Closed
<1>7. filled \notin book.open /\ id \notin Closed(book) /\ \A p \in book.open : p.id # id
    BY <1>3, <1>5 DEF EverOpened, Closed
<1>8. BookIsWhole'
    <2>1. IsFiniteSet(book'.open) /\ IsFiniteSet(book'.trades)
        BY <1>4, FS_AddElement DEF BookIsWhole
    <2>2. book'.cash \in Int
        BY <1>2, <1>4 DEF BookIsWhole
    <2>3. /\ \A p \in book'.open : p.quantity \in Nat /\ p.entryPrice \in Nat
          /\ \A t \in book'.trades : t.pnl \in Int
        BY <1>2, <1>3, <1>4 DEF BookIsWhole
    <2>4. /\ \A p, q \in book'.open : p.id = q.id => p = q
          /\ \A p \in book'.open : p.id \notin Closed(book)'
        BY <1>3, <1>4, <1>6, <1>7 DEF BookIsWhole
    <2>5. \A b \in bookFile' : b.trades \subseteq book'.trades
        BY <1>1, <1>4 DEF BookIsWhole
    <2> QED  BY <1>4, <1>5, <1>6, <2>1, <2>2, <2>3, <2>4, <2>5 DEF BookIsWhole
<1>9. CashConserved'
    <2>1. Cost(book.open) \in Int
          /\ Cost(book.open \cup {filled}) = filled.quantity * filled.entryPrice + Cost(book.open)
        BY <1>2, <1>3, <1>7, CostAdd DEF BookIsWhole
    <2>2. book'.cash >= 0
        BY <1>2, <1>4 DEF BookIsWhole
    <2>3. book'.cash + Cost(book'.open) = book.cash + Cost(book.open)
        <3> DEFINE v == Value(order)
                   c == Cost(book.open)
                   x == book.cash
        <3>1. v \in Int /\ c \in Int /\ x \in Int
            BY <1>2, <2>1 DEF BookIsWhole
        <3>2. book'.cash = x - v /\ Cost(book'.open) = v + c
            BY <1>2, <1>3, <1>4, <2>1
        <3> HIDE DEF v, c, x
        <3>3. book'.cash + Cost(book'.open) = x + c
            BY <3>1, <3>2
        <3> QED  BY <3>3 DEF c, x
    <2> QED  BY <1>4, <2>2, <2>3 DEF CashConserved
<1>10. CandleIsRead' /\ StepIsReal'
    BY <1>1, <1>3 DEF CandleIsRead, StepIsReal
<1>11. LogTells'
    BY <1>1, <1>3, <1>6 DEF LogTells
<1> QED  BY <1>8, <1>9, <1>10, <1>11

\* A close: the position's cost and what it earned come back.
LEMMA CloseKeeps ==
    ASSUME Accounted, ClosePosition
    PROVE  Accounted'
<1> USE DEF Accounted
<1> DEFINE p == step.position
           trade == [position |-> p.id, pnl |-> (Price - p.entryPrice) * p.quantity]
<1>1. /\ UNCHANGED <<candles, index, pending, events, log>> /\ step.at = "close" /\ p \in book.open
      /\ book' = [cash |-> book.cash + p.quantity * Price, open |-> book.open \ {p}, trades |-> book.trades \cup {trade}]
      /\ bookFile' \in {{book'}, bookFile, {}} /\ step' = [at |-> "closed", position |-> p.id]
    BY DEF ClosePosition, StepIsReal, SaveBook
<1>2. p.quantity \in Nat /\ p.entryPrice \in Nat /\ Price \in Nat
    BY <1>1, CandlePrices DEF BookIsWhole, CandleIsRead
<1>3. /\ trade.position = p.id /\ trade.pnl = (Price - p.entryPrice) * p.quantity
      /\ step'.at = "closed" /\ step'.position = p.id
    BY <1>1
<1> HIDE DEF trade, p
<1>4. /\ book'.cash = book.cash + p.quantity * Price /\ book'.open = book.open \ {p}
      /\ book'.trades = book.trades \cup {trade}
      /\ book' = [cash |-> book'.cash, open |-> book'.open, trades |-> book'.trades]
    BY <1>1
<1>5. EverOpened(book)' = EverOpened(book) /\ Closed(book)' = Closed(book) \cup {p.id}
    BY <1>1, <1>3, <1>4 DEF EverOpened, Closed
<1>6. trade \notin book.trades
    BY <1>1, <1>3 DEF BookIsWhole, Closed
<1>7. /\ p.quantity * Price \in Nat /\ trade.pnl \in Int /\ p.quantity * p.entryPrice \in Int
      /\ p.quantity * Price = p.quantity * p.entryPrice + trade.pnl
    <2>1. \A a, b, c \in Nat : /\ a * b \in Nat /\ (b - c) * a \in Int /\ a * c \in Int
                               /\ a * b = a * c + (b - c) * a
        OBVIOUS
    <2> QED  BY <1>2, <1>3, <2>1
<1>8. BookIsWhole'
    <2>1. IsFiniteSet(book'.open) /\ IsFiniteSet(book'.trades)
        BY <1>4, FS_AddElement, FS_Subset DEF BookIsWhole
    <2>2. book'.cash \in Int
        BY <1>4, <1>7 DEF BookIsWhole
    <2>3. /\ \A q \in book'.open : q.quantity \in Nat /\ q.entryPrice \in Nat
          /\ \A t \in book'.trades : t.pnl \in Int
        BY <1>4, <1>7 DEF BookIsWhole
    <2>4. /\ \A r, q \in book'.open : r.id = q.id => r = q
          /\ \A q \in book'.open : q.id \notin Closed(book)'
        BY <1>1, <1>4, <1>5 DEF BookIsWhole
    <2>5. \A b \in bookFile' : b.trades \subseteq book'.trades
        BY <1>1, <1>4 DEF BookIsWhole
    <2> QED  BY <1>4, <1>5, <2>1, <2>2, <2>3, <2>4, <2>5 DEF BookIsWhole
<1>9. CashConserved'
    <2> DEFINE rest == book.open \ {p}
    <2>1. IsFiniteSet(rest) /\ rest \cup {p} = book.open /\ p \notin rest
          /\ \A q \in rest \cup {p} : q.quantity \in Nat /\ q.entryPrice \in Nat
        BY <1>1, FS_Subset DEF BookIsWhole
    <2> HIDE DEF rest
    <2>2. Cost(rest) \in Int /\ Cost(rest \cup {p}) = p.quantity * p.entryPrice + Cost(rest)
        BY <2>1, CostAdd
    <2>3. Realised(book.trades) \in Int /\ Realised(book'.trades) = trade.pnl + Realised(book.trades)
        <3>1. \A t \in book.trades \cup {trade} : t.pnl \in Int
            BY <1>7 DEF BookIsWhole
        <3> QED  BY <1>4, <1>6, <3>1, RealisedAdd DEF BookIsWhole
    <2>4. book.cash \in Int /\ book.cash >= 0 /\ STARTING_CASH \in Int
          /\ book.cash + (p.quantity * p.entryPrice + Cost(rest)) = STARTING_CASH + Realised(book.trades)
        <3>1. book.cash \in Int
            BY DEF BookIsWhole
        <3>2. STARTING_CASH \in Int
            BY ReplayAssumption
        <3>3. book.cash >= 0 /\ book.cash + Cost(book.open) = STARTING_CASH + Realised(book.trades)
            BY DEF CashConserved
        <3> QED  BY <2>1, <2>2, <3>1, <3>2, <3>3
    <2>5. book'.open = rest
        BY <1>4 DEF rest
    <2>6. \A x, a, b, c, d, s, r \in Int :
             a = b + c /\ x + (b + d) = s + r => (x + a) + d = s + (c + r)
        OBVIOUS
    <2>7. (book.cash + p.quantity * Price) + Cost(rest) = STARTING_CASH + (trade.pnl + Realised(book.trades))
        BY <1>7, <2>2, <2>3, <2>4, <2>6
    <2>8. book'.cash >= 0
        BY <1>4, <1>7, <2>4
    <2> QED  BY <1>4, <2>3, <2>5, <2>7, <2>8 DEF CashConserved
<1>10. CandleIsRead' /\ StepIsReal'
    BY <1>1, <1>3 DEF CandleIsRead, StepIsReal
<1>11. LogTells'
    BY <1>1, <1>3, <1>5 DEF LogTells
<1> QED  BY <1>8, <1>9, <1>10, <1>11

\* The audit of a fill, a close and its result.
LEMMA RecordKeeps ==
    ASSUME Accounted, RecordOpened \/ RecordClosed \/ RecordPnl
    PROVE  Accounted'
<1> USE DEF Accounted
<1>1. UNCHANGED <<candles, index, pending, book, bookFile>> /\ step.at \in {"opened", "closed", "pnl"}
      /\ step'.at \in {"idle", "aborted", "pnl"}
    BY DEF RecordOpened, RecordClosed, RecordPnl, RecordEvent, NoStep
<1>2. CandleIsRead' /\ StepIsReal'
    BY <1>1 DEF CandleIsRead, StepIsReal
<1>3. events = log /\ log \in Seq(ReplayEvent)
      /\ EverOpened(book)' = EverOpened(book) /\ Closed(book)' = Closed(book)
    BY <1>1 DEF LogTells, EverOpened, Closed
<1>4. EverOpened(book) \subseteq Nat /\ Closed(book) \subseteq Nat
    <2>1. Closed(book) \subseteq EverOpened(book)
        BY DEF Closed, EverOpened
    <2>2. Cardinality(EverOpened(book)) \in Nat
        BY FS_CardinalityType DEF BookIsWhole
    <2>3. \A n \in Nat : 1 .. n \subseteq Nat
        OBVIOUS
    <2> QED  BY <2>1, <2>2, <2>3 DEF BookIsWhole
<1>5. LogTells'
    <2>1. CASE RecordPnl
        <3> DEFINE e == [type |-> "REALISED_PNL"]
        <3>1. e \in ReplayEvent /\ e.type = "REALISED_PNL"
            BY DEF ReplayEvent
        <3>2. RecordEvent(e, NoStep) /\ step.at = "pnl" /\ book' = book
            BY <2>1 DEF RecordPnl
        <3> HIDE DEF e
        <3> QED  BY <3>1, <3>2, NewsKeeps DEF NoStep
    <2>2. CASE RecordOpened
        <3> DEFINE e == [type |-> "POSITION_OPENED", position |-> step.position]
                   more == Append(log, e)
        <3>1. step.at = "opened" /\ step.position \in EverOpened(book) /\ RecordEvent(e, NoStep)
            BY <2>2 DEF RecordOpened, LogTells
        <3>2. e \in ReplayEvent /\ e.type = "POSITION_OPENED" /\ e.position = step.position
            BY <1>4, <3>1 DEF ReplayEvent
        <3>3. events' = more /\ (\/ log' = more /\ step' = NoStep
                                 \/ log' = log /\ step'.at = "aborted")
            BY <1>3, <3>1 DEF RecordEvent
        <3> HIDE DEF e
        <3>4. more \in Seq(ReplayEvent)
              /\ Heard(more, "POSITION_OPENED") = Heard(log, "POSITION_OPENED") \cup {step.position}
              /\ Heard(more, "POSITION_CLOSED") = Heard(log, "POSITION_CLOSED")
            BY <1>3, <3>2, HeardAppend
        <3> HIDE DEF more
        <3>5. /\ events' \in Seq(ReplayEvent) /\ log' \in Seq(ReplayEvent)
              /\ step'.at = "idle" \/ step'.at = "aborted"
              /\ step'.at # "aborted" => events' = log'
            BY <1>3, <3>3, <3>4 DEF NoStep
        <3> QED  BY <1>3, <3>1, <3>3, <3>4, <3>5 DEF LogTells
    <2>3. CASE RecordClosed
        <3> DEFINE e == [type |-> "POSITION_CLOSED", position |-> step.position]
                   more == Append(log, e)
        <3>1. step.at = "closed" /\ step.position \in Closed(book) /\ RecordEvent(e, [at |-> "pnl"])
            BY <2>3 DEF RecordClosed, LogTells
        <3>2. e \in ReplayEvent /\ e.type = "POSITION_CLOSED" /\ e.position = step.position
            BY <1>4, <3>1 DEF ReplayEvent
        <3>3. events' = more /\ (\/ log' = more /\ step'.at = "pnl"
                                 \/ log' = log /\ step'.at = "aborted")
            BY <1>3, <3>1 DEF RecordEvent
        <3> HIDE DEF e
        <3>4. more \in Seq(ReplayEvent)
              /\ Heard(more, "POSITION_CLOSED") = Heard(log, "POSITION_CLOSED") \cup {step.position}
              /\ Heard(more, "POSITION_OPENED") = Heard(log, "POSITION_OPENED")
            BY <1>3, <3>2, HeardAppend
        <3> HIDE DEF more
        <3> QED  BY <1>3, <3>1, <3>3, <3>4 DEF LogTells
    <2> QED  BY <2>1, <2>2, <2>3
<1> QED  BY <1>1, <1>2, <1>5, BookStays

\* Every step keeps the account.
LEMMA AccountedInductive == Accounted /\ [ReplayNext]_replayVars => Accounted'
<1> SUFFICES ASSUME Accounted, [ReplayNext]_replayVars PROVE Accounted'
    OBVIOUS
<1>1. CASE UNCHANGED replayVars
    BY <1>1 DEF replayVars, Accounted, CandleIsRead, BookIsWhole, CashConserved, StepIsReal, LogTells,
                BrokerRefuses
<1>2. ASSUME NEW s \in pending, Evaluate(s) PROVE Accounted'
    BY <1>2, EvaluateKeeps
<1> QED  BY <1>1, <1>2, ReadingKeeps, ApprovalKeeps, PlaceKeeps, CloseKeeps, RecordKeeps DEF ReplayNext

\* The paper account neither makes nor loses money, its broker fills every order the risk engine
\* approved, and neither the log nor the health page ever tells of a fill or a close it does not
\* have: whichever write fails and whatever the strategies decide (execution-runner.ts).
THEOREM PaperBookIsSound == ReplaySpec => []BookIsSound
<1>1. Accounted => BookIsSound
    <2> SUFFICES ASSUME Accounted PROVE BookIsSound
        OBVIOUS
    <2> USE DEF Accounted
    <2>1. CashConserved /\ ApprovedOrdersFill
        BY DEF ApprovedOrdersFill, StepIsReal
    <2>2. \A type : InLog(type) = Heard(log, type)
        BY DEF InLog, Heard
    <2>3. Status.trades \subseteq book.trades
        <3>1. CASE bookFile = {}
            BY <3>1 DEF Status
        <3>2. CASE bookFile # {}
            <4>1. (CHOOSE b \in bookFile : TRUE) \in bookFile
                BY <3>2
            <4> QED  BY <3>2, <4>1 DEF Status, BookIsWhole
        <3> QED  BY <3>1, <3>2
    <2>4. step = NoStep => step.at = "idle"
        BY DEF NoStep
    <2>5. LogFollowsBook
        BY <2>2, <2>3, <2>4 DEF LogFollowsBook, LogTells, Closed
    <2> QED  BY <2>1, <2>5 DEF BookIsSound
<1> QED  BY <1>1, AccountedInitially, AccountedInductive, PTL DEF ReplaySpec
=============================================================================
