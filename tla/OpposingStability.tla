------------------------- MODULE OpposingStability -------------------------
(***************************************************************************)
(* OpposingSignalStabilityTracker and its callers in the trading cycle: an  *)
(* opposing signal closes a position only after enough cycles in a row and  *)
(* a minimum holding time.  One instrument; positions come and go outside   *)
(* the runtime, may be replaced between two cycles, and a cycle may end     *)
(* before it evaluates anything.  One cycle is one unit of time.            *)
(***************************************************************************)
EXTENDS Integers, FiniteSets

CONSTANTS
    PositionId,      \* lifecycle record ids, each used by one position
    NoPosition,
    MIN_HOLD, REQUIRED_CONFIRMATIONS,
    MaxTime

VARIABLES
    time,
    position,        \* the instrument's active record at the broker, or NoPosition
    openedAt,        \* its opening time, or -1 when the record has none
    used,            \* ids spent
    counts,          \* consecutiveCounts: a count for some ids
    syncedId,        \* activePositionByInstrument
    phase,           \* "between" cycles, or "decided" once phase A has synchronised
    opposingRun,     \* cycles in a row that found the position and an opposing signal
    allowed          \* the position last closed by an opposing signal, as it was
stabilityVars == <<time, position, openedAt, used, counts, syncedId, phase, opposingRun, allowed>>

Without(id) == [i \in (DOMAIN counts) \ {id} |-> counts[i]]
Count(id) == IF id \in DOMAIN counts THEN counts[id] ELSE 0

StabilityInit ==
    /\ time = 0 /\ position = NoPosition /\ openedAt = -1 /\ used = {}
    /\ counts = [i \in {} |-> 0] /\ syncedId = NoPosition
    /\ phase = "between" /\ opposingRun = 0 /\ allowed = {}

\* A position opens, closes or is replaced by another between two cycles, by whatever hand.
Changes ==
    /\ phase = "between"
    /\ \/ /\ position # NoPosition /\ position' = NoPosition /\ openedAt' = -1 /\ UNCHANGED used
       \/ \E id \in PositionId \ used :
            position' = id /\ used' = used \cup {id} /\ openedAt' \in {time, -1}
    /\ opposingRun' = 0
    /\ UNCHANGED <<time, counts, syncedId, phase, allowed>>

\* Mutant: the count of a position that went away is not dropped.
SyncPositionForgetful ==
    /\ phase = "between" /\ time < MaxTime
    /\ time' = time + 1 /\ syncedId' = position /\ phase' = "decided"
    /\ UNCHANGED <<position, openedAt, used, counts, opposingRun, allowed>>

\* syncPosition, right after reconciliation.
SyncPosition ==
    /\ phase = "between" /\ time < MaxTime
    /\ time' = time + 1
    /\ counts' = IF syncedId # position THEN Without(syncedId) ELSE counts
    /\ syncedId' = position
    /\ phase' = "decided"
    /\ UNCHANGED <<position, openedAt, used, opposingRun, allowed>>

MinHoldReached == openedAt # -1 /\ time - openedAt >= MIN_HOLD

\* evaluate() on an opposing signal: counted first, then held against both conditions.
OpposingSignal ==
    /\ phase = "decided" /\ position # NoPosition
    /\ phase' = "between"
    /\ LET count == Count(position) + 1 IN
       IF MinHoldReached /\ count >= REQUIRED_CONFIRMATIONS
       THEN /\ allowed' = {[id |-> position, held |-> time - openedAt, opposingRun |-> opposingRun + 1]}
            /\ \/ position' = NoPosition /\ openedAt' = -1 /\ opposingRun' = 0 /\ counts' = Without(position)
               \/ /\ opposingRun' = opposingRun + 1                    \* the close fails and the count stays
                  /\ counts' = [i \in DOMAIN counts \cup {position} |-> IF i = position THEN count ELSE counts[i]]
                  /\ UNCHANGED <<position, openedAt>>
       ELSE /\ counts' = [i \in DOMAIN counts \cup {position} |-> IF i = position THEN count ELSE counts[i]]
            /\ opposingRun' = opposingRun + 1
            /\ UNCHANGED <<position, openedAt, allowed>>
    /\ UNCHANGED <<time, used, syncedId>>

\* Mutant: a decision that is not opposing leaves the count alone.
OtherDecisionKeepingCount ==
    /\ phase = "decided"
    /\ phase' = "between" /\ opposingRun' = 0
    /\ UNCHANGED <<time, position, openedAt, used, counts, syncedId, allowed>>

\* Any other decision resets the count; another exit closes the position, too.
OtherDecision ==
    /\ phase = "decided"
    /\ phase' = "between" /\ opposingRun' = 0
    /\ counts' = Without(position)
    /\ \/ UNCHANGED <<position, openedAt>>
       \/ position # NoPosition /\ position' = NoPosition /\ openedAt' = -1
    /\ UNCHANGED <<time, used, syncedId, allowed>>

\* No usable history, a failed quote or a blocked entry end the cycle before evaluate().
CycleEndsEarly ==
    /\ phase = "decided" /\ phase' = "between"
    /\ UNCHANGED <<time, position, openedAt, used, counts, syncedId, opposingRun, allowed>>

\* A restart loses every count.
ProcessRestarts ==
    /\ counts' = [i \in {} |-> 0] /\ syncedId' = NoPosition /\ phase' = "between"
    /\ UNCHANGED <<time, position, openedAt, used, opposingRun, allowed>>

StabilityNext == Changes \/ SyncPosition \/ OpposingSignal \/ OtherDecision \/ CycleEndsEarly \/ ProcessRestarts
StabilitySpec == StabilityInit /\ [][StabilityNext]_stabilityVars

-----------------------------------------------------------------------------
\* An opposing signal closes a position only if that very position was held long enough and enough
\* cycles in a row that evaluated it found the signal opposing: neither a predecessor on the same
\* instrument nor a count from before another decision helps (opposing-signal-stability.ts 9-17).
ExitIsConfirmed ==
    \A a \in allowed : a.held >= MIN_HOLD /\ a.opposingRun >= REQUIRED_CONFIRMATIONS

\* No count outlives its position by more than a cycle: after a synchronisation the only count is
\* that of the position the instrument has now.
NoStaleCount == phase = "decided" => DOMAIN counts \subseteq {position}

\* An opposing signal closes a position only after consecutive confirmations of its own:
\* ExitIsConfirmed and NoStaleCount.
ExitNeedsConfirmation == ExitIsConfirmed /\ NoStaleCount
=============================================================================
