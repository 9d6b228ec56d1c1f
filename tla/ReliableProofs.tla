--------------------------- MODULE ReliableProofs ---------------------------
(***************************************************************************)
(* What one runtime process promises while its audit trail and its broker   *)
(* answer, orders settle in time and nobody else trades on the account:     *)
(* theorems about TradeExecution for any number of candidates, records and  *)
(* positions, through crashes, refused writes, a market that is away and a  *)
(* registry that changes its mind.  The inductive invariant says that every *)
(* position on its way is owed to the one active record, and that what is   *)
(* gone leaves no candidate waiting.                                        *)
(***************************************************************************)
EXTENDS SingleProcessProofs

\* Neither the audit trail nor the broker fails, orders settle within the
\* recovery threshold, and nobody else trades.
Reliable == Faults \cap {"audit", "broker", "external", "slow"} = {}

OnTheWay == { q \in Position : pState[q] \in {"pending", "live"} }

NothingUnresolved == \A r \in Record : rStatus[r] # "EXECUTION_RECONCILIATION_REQUIRED"

\* Every position on its way is owed to an active record of its candidate, which
\* is waiting for it or names it.
Backed ==
  \A q \in OnTheWay : \E r \in Record :
    /\ rCand[r] = pOrigin[q]
    /\ \/ rStatus[r] = "EXECUTION_SUBMITTED"
       \/ rStatus[r] \in ProvesOpened \cap SlotActive /\ rPos[r] = q

\* A position that is gone leaves its candidate decided for good.
Spent ==
  \A q \in Position :
    /\ Filled(q) => pOrigin[q] \in BuyCand
    /\ pState[q] = "gone" => cStatus[pOrigin[q]] \notin Waiting \cup {None}

\* No BUY waits next to an active record but the record's own.
ActiveIsFrom ==
  \A r \in Record : rStatus[r] \in SlotActive =>
    /\ rCand[r] \in BuyCand
    /\ \A b \in BuyCand : cStatus[b] \in Waiting => rCand[r] = b

\* A record that waits for its position grows old only after the order settled.
StaleHasNone ==
  \A r \in Record : r \in stale /\ rStatus[r] = "EXECUTION_SUBMITTED" =>
    \A q \in Position : pState[q] # "pending"

\* The durable part of the inductive invariant.
SoundTables ==
  /\ NothingUnresolved /\ Backed /\ Spent /\ ActiveIsFrom /\ StaleHasNone
  /\ OneLivePosition /\ OnePositionPerCandidate

\* What the process may rely on around an order and in the recovery sweep.
OrderKnown(p) ==
  /\ pc[p] = "order" => rec[p] \notin stale
  /\ pc[p] \in {"order", "execFailed"} => OnTheWay = {}
  /\ pc[p] \in {"await", "opened"} => OnTheWay \subseteq {pos[p]} /\ pOrigin[pos[p]] = cand[p]
  /\ pc[p] = "await" => pState[pos[p]] \in {"pending", "live", "rejected"}
  /\ pc[p] \in {"opened", "adopt"} => pState[pos[p]] = "live"
  /\ pc[p] = "recoverWrite" =>
       \/ plan[p] = "abandon" /\ OnTheWay = {}
       \/ plan[p] = "correlate" /\ pState[pos[p]] = "live"
  /\ tracked[p] = Watched(p)

\* After an exit closed the position nothing waits to be bought; and a watched
\* position leaves no candidate approved but the one whose turn it is.
ExitedKnown(p) ==
  pc[p] \in ExitSteps \cup Loop =>
    /\ exited[p] = "closed" => \A b \in BuyCand : cStatus[b] \notin Waiting
    /\ \A q \in Watched(p) : cStatus[pOrigin[q]] = "APPROVED" =>
         pOrigin[q] = cand[p] /\ pc[p] \in {"opened", "candExecuted", "candFailed"}

Sound == SoundTables /\ \A p \in Process : OrderKnown(p) /\ ExitedKnown(p)

-----------------------------------------------------------------------------
(* What a step may do *)

\* A position on its way is owed to the active record, whichever that is.
LEMMA OwedToActive ==
  ASSUME OneActiveRecord, Backed, NEW r \in Record, rStatus[r] \in SlotActive, NEW q \in OnTheWay
  PROVE  /\ rCand[r] = pOrigin[q]
         /\ rStatus[r] = "EXECUTION_SUBMITTED" \/ (rStatus[r] \in ProvesOpened /\ rPos[r] = q)
BY DEF OneActiveRecord, Backed, SlotActive

\* What a step may do to the records: it adopts nothing and leaves nothing
\* unresolved, and the record that waits for a position moves on only when the
\* position is there, or none is on its way.
RecordsSound(p) ==
  \A r \in Record :
    /\ rStatus'[r] # "EXECUTION_RECONCILIATION_REQUIRED"
    /\ rStatus[r] = None /\ rStatus'[r] # None => rStatus'[r] = "DECISION_CREATED"
    /\ rStatus[r] = "EXECUTION_SUBMITTED" /\ rStatus'[r] # "EXECUTION_SUBMITTED" =>
         \/ OnTheWay = {}
         \/ rStatus'[r] = "OPEN" /\ OnTheWay \subseteq {rPos'[r]}

\* A transition of a record that neither waits for a position nor is unborn.
LEMMA TransitionSound ==
  ASSUME TypeOK, NothingUnresolved, NEW p \in Process, NEW r \in Record, NEW to, NEW q, NEW ok, NEW failed,
         Transition(p, r, to, q, ok, failed),
         to # "EXECUTION_RECONCILIATION_REQUIRED",
         rStatus[r] # None,
         rStatus[r] = "EXECUTION_SUBMITTED" =>
           OnTheWay = {} \/ (to = "OPEN" /\ OnTheWay \subseteq {q})
  PROVE  RecordsSound(p)
<1>1. \/ UNCHANGED <<rStatus, rPos>>
      \/ /\ \A s \in Record : rStatus'[s] = IF s = r THEN to ELSE rStatus[s]
         /\ \A s \in Record : rPos'[s] = IF s = r THEN q ELSE rPos[s]
  BY TransitionEnds
<1> QED BY <1>1 DEF RecordsSound, NothingUnresolved

\* An orphan is never adopted: what is live is owed to a record.
LEMMA NoAdoption ==
  ASSUME TypeOK, OneActiveRecord, Consistent, Backed, NEW p \in Process, OrderKnown(p), Adopt(p)
  PROVE  FALSE
<1>1. pos[p] \in OnTheWay
  BY DEF Adopt, OrderKnown, Consistent, Knows, ReconcileKnows, Opened, OnTheWay
<1>2. PICK r \in Record : rStatus[r] \in SlotActive
  BY <1>1 DEF Backed, SlotActive
<1>3. PICK s \in Record : ~Clash(s, "OPEN", pos[p]) /\ rStatus[s] = None
  BY DEF Adopt, Insert
<1> QED BY <1>2, <1>3 DEF Clash, SlotActive, None

\* So does every step of the process.
LEMMA StepRecordsSound ==
  ASSUME TypeOK, OneActiveRecord, Consistent, SoundTables, NEW p \in Process, OrderKnown(p), Step(p)
  PROVE  RecordsSound(p)
<1> USE DEF Consistent, Knows, SoundTables
<1>1. CASE UNCHANGED recVars
  BY <1>1 DEF RecordsSound, NothingUnresolved, recVars
<1>2. CASE RecoverWrite(p)
  <2>1. /\ pc[p] = "recoverWrite" /\ rec[p] \in Record /\ rStatus[rec[p]] \in PreOpenRecoverable
        /\ plan[p] \in {"abandon", "correlate"}
    BY <1>2 DEF RecoverWrite, RecoverKnows, HeldIn, OrderKnown
  <2>2. CASE Save(rec[p], Resolution(plan[p]), pos[p])
    <3>1. /\ \A s \in Record : rStatus'[s] = IF s = rec[p] THEN Resolution(plan[p]) ELSE rStatus[s]
          /\ \A s \in Record : rPos'[s] = IF s = rec[p] THEN pos[p] ELSE rPos[s]
      BY <2>2 DEF Save, TypeOK
    <3>2. CASE plan[p] = "abandon"
      BY <2>1, <3>1, <3>2 DEF OrderKnown, Resolution, RecordsSound, NothingUnresolved, PreOpenRecoverable, None
    <3>3. CASE plan[p] = "correlate"
      <4>1. pos[p] \in OnTheWay
        BY <2>1, <3>3 DEF OrderKnown, RecoverKnows, Opened, OnTheWay
      <4>2. OnTheWay \subseteq {pos[p]}
        BY <4>1 DEF OneLivePosition, OnTheWay
      <4> QED BY <2>1, <3>1, <3>3, <4>2 DEF Resolution, RecordsSound, NothingUnresolved, PreOpenRecoverable, None
    <3> QED BY <2>1, <3>2, <3>3
  <2> QED BY <1>1, <1>2, <2>2 DEF RecoverWrite
<1>3. CASE Reopen(p)
  BY <1>3, TransitionSound DEF Reopen, ReconcileKnows, HeldIn, None
<1>4. CASE CloseUnreconciled(p)
  BY <1>4, TransitionSound DEF CloseUnreconciled, ReconcileKnows, HeldIn, ReconcilableToClosed, None
<1>5. CASE CloseRequest(p)
  BY <1>1, <1>5, TransitionSound
     DEF CloseRequest, ExitKnows, CloseSteps, Held, HeldIn, ReconcilableToClosed, None
<1>6. CASE RecordClosed(p)
  <2>1. HeldIn(p, {"CLOSE_REQUESTED", "CLOSE_FAILED"})
    BY <1>6 DEF RecordClosed, ExitKnows
  <2>2. CASE Save(rec[p], "CLOSED", rPos[rec[p]])
    BY <2>1, <2>2 DEF Save, HeldIn, RecordsSound, NothingUnresolved, TypeOK, None
  <2>3. CASE Transition(p, rec[p], "CLOSED", rPos[rec[p]], AfterExit(p), "closeFailed")
    BY <2>1, <2>3, TransitionSound DEF HeldIn, None
  <2> QED BY <1>1, <1>6, <2>2, <2>3 DEF RecordClosed
<1>7. CASE RecordCloseFailed(p)
  BY <1>7, TransitionSound DEF RecordCloseFailed, ExitKnows, HeldIn, None
<1>8. CASE CreateRecord(p)
  <2>1. CASE \E r \in Record : Insert(r, "DECISION_CREATED", cand[p], NoPosition)
    BY <2>1 DEF Insert, RecordsSound, NothingUnresolved, TypeOK, None
  <2> QED BY <1>1, <1>8, <2>1 DEF CreateRecord
<1>9. CASE EvaluateRisk(p)
  <2>1. HeldIn(p, {"DECISION_CREATED"})
    BY <1>9 DEF EvaluateRisk, LoopKnows, HeldFor
  <2>2. CASE Transition(p, rec[p], "RISK_REJECTED", NoPosition, "candFailed", "candFailed")
    BY <2>1, <2>2, TransitionSound DEF HeldIn, None
  <2>3. CASE Transition(p, rec[p], "APPROVED", NoPosition, "submit", "candFailed")
    BY <2>1, <2>3, TransitionSound DEF HeldIn, None
  <2> QED BY <1>9, <2>2, <2>3 DEF EvaluateRisk
<1>10. CASE Submit(p)
  BY <1>10, TransitionSound DEF Submit, LoopKnows, HeldFor, HeldIn, None
<1>11. CASE RecordOpened(p)
  BY <1>11, TransitionSound DEF RecordOpened, LoopKnows, HeldFor, HeldIn, OrderKnown, None
<1>12. CASE RecordExecutionFailed(p)
  BY <1>12, TransitionSound DEF RecordExecutionFailed, LoopKnows, HeldFor, HeldIn, OrderKnown, None
<1>13. CASE SellRequestClose(p)
  BY <1>13, TransitionSound DEF SellRequestClose, LoopKnows, HeldIn, None
<1>14. CASE SellRecordClosed(p)
  BY <1>14, TransitionSound DEF SellRecordClosed, LoopKnows, HeldIn, None
<1>15. CASE SellRecordCloseFailed(p)
  BY <1>15, TransitionSound DEF SellRecordCloseFailed, LoopKnows, HeldIn, None
<1>16. CASE \/ BeginCycle(p) \/ EndCycle(p) \/ RecoverScan(p)
            \/ ReconcileUnsafe(p) \/ ReconcileNothingHeld(p) \/ ReconcileVanished(p)
            \/ ReconcileMatched(p) \/ ReconcileOrphan(p) \/ AdoptRefused(p)
            \/ RepairCandidate(p) \/ Sweep(p) \/ ExitCheck(p) \/ Close(p)
            \/ Decide(p) \/ ListApproved(p) \/ NextApproved(p) \/ PlaceOrder(p)
            \/ AwaitPosition(p) \/ SellStart(p) \/ SellClosePosition(p) \/ MarkExecuted(p)
            \/ MarkFailed(p) \/ FreshDecision(p) \/ AutoApprove(p) \/ AutoRevert(p)
  <2>1. UNCHANGED recVars
    BY <1>16 DEF BeginCycle, EndCycle, RecoverScan, ReconcileUnsafe,
              ReconcileNothingHeld, ReconcileVanished, ReconcileMatched, ReconcileOrphan,
              AdoptRefused, RepairCandidate, Sweep, ExitCheck, Close, Decide, ListApproved,
              NextApproved, PlaceOrder, AwaitPosition, SellStart, SellClosePosition, MarkExecuted,
              MarkFailed, FreshDecision, AutoApprove, AutoRevert
  <2> QED BY <1>1, <2>1
<1> QED BY NoAdoption, <1>2, <1>3, <1>4, <1>5, <1>6, <1>7, <1>8, <1>9, <1>10, <1>11, <1>12,
           <1>13, <1>14, <1>15, <1>16 DEF Step, PhaseA, PhaseB

\* What a step may do to the positions: it orders one while none is on its way,
\* and closes one only when its candidate has been decided.
PositionsSound(p) ==
  \/ UNCHANGED brokerVars
  \/ /\ pc[p] = "order"
     /\ \E q \in Position :
          /\ pState[q] = "unborn"
          /\ pState' = [pState EXCEPT ![q] = "pending"]
          /\ pOrigin' = [pOrigin EXCEPT ![q] = cand[p]]
  \/ \E q \in Position :
       /\ pState[q] = "live" /\ cStatus[pOrigin[q]] \notin Waiting \cup {None}
       /\ pState' = [pState EXCEPT ![q] = "gone"]
       /\ UNCHANGED pOrigin

\* So does every step of the process.
LEMMA StepPositionsSound ==
  ASSUME TypeOK, OneActiveRecord, Consistent, SoundTables, NEW p \in Process,
         OrderKnown(p), ExitedKnown(p), Step(p)
  PROVE  PositionsSound(p)
<1> USE DEF Consistent, Knows, SoundTables, PositionsSound
<1>a. ASSUME NEW q \in OnTheWay
      PROVE  /\ pOrigin[q] \in Candidate
             /\ cStatus[pOrigin[q]] # "APPROVED" => cStatus[pOrigin[q]] \notin Waiting \cup {None}
  <2>1. pOrigin[q] \in BuyCand
    BY <1>a DEF Spent, OnTheWay, Filled
  <2>2. PICK r \in Record : rCand[r] = pOrigin[q]
    BY <1>a DEF Backed
  <2> QED BY <2>1, <2>2 DEF Tables, RecordsNameApproved, Candidate, Waiting
<1>1. CASE PlaceOrder(p)
  BY <1>1 DEF PlaceOrder
<1>2. CASE Close(p)
  <2> DEFINE q == rPos[rec[p]]
  <2>1. \/ UNCHANGED brokerVars
        \/ pState[q] = "live" /\ pState' = [pState EXCEPT ![q] = "gone"] /\ UNCHANGED pOrigin
    BY <1>2 DEF Close, ClosePosition, brokerVars
  <2>2. pc[p] = "close" /\ rec[p] \in Record /\ rStatus[rec[p]] \in ProvesOpened /\ q \in Position
        /\ rStatus[rec[p]] \in SlotActive
    BY <1>2 DEF Close, ExitKnows, HeldIn, Tables, RecordsNamePositions, ProvesOpened, SlotActive
  <2>3. CASE pState[q] = "live"
    <3>1. q \in OnTheWay /\ rCand[rec[p]] = pOrigin[q]
      BY <2>2, <2>3, OwedToActive DEF OnTheWay
    <3>2. cStatus[pOrigin[q]] # "APPROVED"
      BY <1>a, <2>2, <3>1 DEF SlotKnows, ExitSteps, CloseSteps
    <3> QED BY <1>a, <2>1, <2>2, <2>3, <3>1, <3>2
  <2> QED BY <2>1, <2>3
<1>3. CASE SellClosePosition(p)
  <2>1. \/ UNCHANGED brokerVars
        \/ \E q \in tracked[p] : pState[q] = "live" /\ pState' = [pState EXCEPT ![q] = "gone"] /\ UNCHANGED pOrigin
    BY <1>3 DEF SellClosePosition, ClosePosition, brokerVars
  <2>2. CASE \E q \in tracked[p] : pState[q] = "live" /\ pState' = [pState EXCEPT ![q] = "gone"] /\ UNCHANGED pOrigin
    <3>1. PICK q \in tracked[p] : pState[q] = "live" /\ pState' = [pState EXCEPT ![q] = "gone"] /\ UNCHANGED pOrigin
      BY <2>2
    <3>2. q \in Watched(p) /\ q \in OnTheWay /\ q \in Position
      BY <3>1 DEF Watched, OnTheWay, TypeOK
    <3>3. cStatus[pOrigin[q]] # "APPROVED"
      BY <1>3, <3>2 DEF SellClosePosition, ExitedKnown, Loop, CandSteps, SellSteps
    <3> QED BY <1>a, <3>1, <3>2, <3>3
  <2> QED BY <2>1, <2>2
<1>5. CASE PhaseA(p) /\ ~Close(p)
  BY <1>5 DEF PhaseA, BeginCycle, EndCycle, RecoverScan, RecoverWrite, ReconcileUnsafe,
              ReconcileNothingHeld, ReconcileVanished, ReconcileMatched, ReconcileOrphan, Adopt,
              AdoptRefused, Reopen, RepairCandidate, CloseUnreconciled, Sweep, ExitCheck,
              CloseRequest, RecordClosed, RecordCloseFailed
<1>6. CASE PhaseB(p) /\ ~PlaceOrder(p) /\ ~SellClosePosition(p)
  BY <1>6 DEF PhaseB, Decide, ListApproved, NextApproved, CreateRecord, EvaluateRisk, Submit,
              AwaitPosition, RecordOpened, RecordExecutionFailed, SellStart, SellRequestClose,
              SellRecordClosed, SellRecordCloseFailed, MarkExecuted, MarkFailed, FreshDecision,
              AutoApprove, AutoRevert
<1> QED BY <1>1, <1>2, <1>3, <1>5, <1>6 DEF Step

-----------------------------------------------------------------------------
(* The tables stay sound *)

\* A record that is written leaves every position on its way owed.
LEMMA WriteKeepsSound ==
  ASSUME TypeOK, Reliable, Tables, SoundTables, NEW p \in Process, RecordsSound(p),
         RecordWrite(p), UNCHANGED <<cStatus, cRecord, pState, pOrigin>>
  PROVE  SoundTables'
<1>1. PICK r \in Record, to \in RecordStatus, q \in MaybePosition :
        /\ \A s \in Record : rStatus'[s] = IF s = r THEN to ELSE rStatus[s]
        /\ \A s \in Record : rPos'[s] = IF s = r THEN q ELSE rPos[s]
        /\ rStatus[r] \in ProvesOpened => q = rPos[r]
        /\ stale' \subseteq stale /\ (to = "EXECUTION_SUBMITTED" => r \notin stale')
        /\ to \in {"CLOSED", "CLOSED_UNRECONCILED"} => pState[q] = "gone"
        /\ \/ rCand' = rCand /\ MovesTo(rStatus[r], to)
           \/ /\ rStatus[r] = None /\ to = "DECISION_CREATED"
              /\ \A s \in Record : rCand'[s] = IF s = r THEN cand[p] ELSE rCand[s]
              /\ cand[p] \in BuyCand /\ cStatus[cand[p]] = "APPROVED"
           \/ rStatus[r] = None /\ to = "OPEN"
  BY DEF RecordWrite, TypeOK
<1>2. \/ /\ rCand' = rCand /\ MovesTo(rStatus[r], to)
      \/ /\ rStatus[r] = None /\ to = "DECISION_CREATED"
         /\ \A s \in Record : rCand'[s] = IF s = r THEN cand[p] ELSE rCand[s]
         /\ cand[p] \in BuyCand /\ cStatus[cand[p]] = "APPROVED"
  <2>1. ~(rStatus[r] = None /\ to = "OPEN")
    BY <1>1 DEF RecordsSound, None
  <2> QED BY <1>1, <2>1
<1>3. MovesTo(rStatus[r], to) =>
        /\ rStatus[r] \in ProvesOpened => to \in ProvesOpened
        /\ to \in SlotActive => rStatus[r] \in SlotActive
  BY DEF Reliable, May, MovesTo, ValidTransitions, ProvesOpened, SlotActive
<1>4. NothingUnresolved'
  BY DEF RecordsSound, NothingUnresolved
<1>5. Backed'
  <2> SUFFICES ASSUME NEW d \in OnTheWay
               PROVE  \E s \in Record :
                        /\ rCand'[s] = pOrigin[d]
                        /\ \/ rStatus'[s] = "EXECUTION_SUBMITTED"
                           \/ rStatus'[s] \in ProvesOpened \cap SlotActive /\ rPos'[s] = d
    BY DEF Backed, OnTheWay
  <2>1. PICK s \in Record :
          /\ rCand[s] = pOrigin[d]
          /\ \/ rStatus[s] = "EXECUTION_SUBMITTED"
             \/ rStatus[s] \in ProvesOpened \cap SlotActive /\ rPos[s] = d
    BY DEF SoundTables, Backed
  <2>2. CASE s # r
    BY <1>1, <1>2, <2>1, <2>2
  <2>3. CASE s = r
    <3>1. rCand' = rCand /\ MovesTo(rStatus[r], to)
      BY <1>2, <2>1, <2>3 DEF None, ProvesOpened
    <3>2. CASE rStatus[r] = "EXECUTION_SUBMITTED"
      BY <1>1, <2>1, <2>3, <3>1, <3>2 DEF RecordsSound, ProvesOpened, SlotActive
    <3>3. CASE rStatus[r] \in ProvesOpened \cap SlotActive /\ rPos[r] = d
      <4>1. to \in ProvesOpened /\ q = d /\ pState[d] # "gone"
        BY <1>1, <1>3, <3>1, <3>3 DEF OnTheWay
      <4>2. to \in SlotActive
        BY <1>1, <4>1 DEF ProvesOpened, SlotActive
      <4> QED BY <1>1, <2>1, <2>3, <3>1, <4>1, <4>2
    <3> QED BY <2>1, <2>3, <3>2, <3>3
  <2> QED BY <2>2, <2>3
<1>6. ActiveIsFrom'
  <2> SUFFICES ASSUME NEW s \in Record, rStatus'[s] \in SlotActive
               PROVE  /\ rCand'[s] \in BuyCand
                      /\ \A b \in BuyCand : cStatus[b] \in Waiting => rCand'[s] = b
    BY DEF ActiveIsFrom
  <2>1. CASE s = r /\ rStatus[r] = None /\ rCand'[s] = cand[p] /\ cand[p] \in BuyCand /\ cStatus[cand[p]] = "APPROVED"
    BY <2>1 DEF Tables, OneBuyWaits, Waiting
  <2>2. CASE rStatus[s] \in SlotActive /\ rCand'[s] = rCand[s]
    BY <2>2 DEF SoundTables, ActiveIsFrom
  <2> QED BY <1>1, <1>2, <1>3, <2>1, <2>2
<1>7. StaleHasNone'
  BY <1>1 DEF SoundTables, StaleHasNone
<1>8. Spent' /\ OneLivePosition' /\ OnePositionPerCandidate'
  BY DEF SoundTables, Spent, OneLivePosition, OnePositionPerCandidate, Filled
<1> QED BY <1>4, <1>5, <1>6, <1>7, <1>8 DEF SoundTables

\* So does a position that is ordered, closed or settled.
LEMMA PositionKeepsSound ==
  ASSUME TypeOK, Reliable, OneActiveRecord, Consistent, SoundTables, NEW p \in Process, OrderKnown(p),
         UNCHANGED <<rStatus, rCand, rPos, cStatus, cRecord>>,
         \A r \in stale' \ stale : May("slow") \/ ~InHand(r),
         PositionsSound(p) \/ Settled
  PROVE  SoundTables'
<1>s. \A r \in stale' \ stale : r # rec[p] /\ \A q \in Position : pState[q] # "pending"
  BY DEF Reliable, May, InHand
<1>1. CASE UNCHANGED brokerVars
  <2>1. StaleHasNone'
    BY <1>1, <1>s DEF SoundTables, StaleHasNone, brokerVars, TypeOK
  <2> QED BY <1>1, <2>1 DEF SoundTables, NothingUnresolved, Backed, OnTheWay, Spent, ActiveIsFrom,
             OneLivePosition, OnePositionPerCandidate, Filled, brokerVars
<1>2. ASSUME NEW q \in Position, pc[p] = "order", pState[q] = "unborn",
             pState' = [pState EXCEPT ![q] = "pending"],
             pOrigin' = [pOrigin EXCEPT ![q] = cand[p]]
      PROVE  SoundTables'
  <2>1. /\ \A d \in Position : pState'[d] = IF d = q THEN "pending" ELSE pState[d]
        /\ \A d \in Position : pOrigin'[d] = IF d = q THEN cand[p] ELSE pOrigin[d]
    BY <1>2 DEF TypeOK
  <2>2. /\ OnTheWay = {} /\ rec[p] \notin stale /\ HeldFor(p, "EXECUTION_SUBMITTED")
        /\ cand[p] \in BuyCand /\ cStatus[cand[p]] = "APPROVED"
    BY <1>2 DEF OrderKnown, Consistent, Knows, LoopKnows, BuySteps, CandSteps
  <2>3. OnTheWay' = {q}
    BY <2>1, <2>2 DEF OnTheWay
  <2>4. Backed'
    BY <2>1, <2>2, <2>3 DEF Backed, HeldFor, HeldIn
  <2>5. Spent'
    BY <2>1, <2>2 DEF SoundTables, Spent, Filled
  <2>6. OneLivePosition'
    BY <2>3 DEF OneLivePosition, OnTheWay
  <2>7. \A d \in Position : Filled(d) => pState[d] = "gone"
    BY <2>2 DEF OnTheWay, Filled
  <2>8. \A d \in Position : Filled(d) => pOrigin[d] # cand[p]
    BY <2>2, <2>7 DEF SoundTables, Spent, Waiting
  <2>9. OnePositionPerCandidate'
    BY <2>1, <2>8 DEF SoundTables, OnePositionPerCandidate, Filled
  <2>10. StaleHasNone'
    <3>1. \A r \in Record : rStatus[r] = "EXECUTION_SUBMITTED" => r = rec[p]
      BY <2>2 DEF HeldFor, HeldIn, OneActiveRecord, SlotActive
    <3>2. rec[p] \notin stale'
      BY <1>s, <2>2
    <3> QED BY <1>2, <3>1, <3>2 DEF StaleHasNone
  <2> QED BY <2>4, <2>5, <2>6, <2>9, <2>10 DEF SoundTables, NothingUnresolved, ActiveIsFrom
<1>3. ASSUME NEW q \in Position, NEW s \in {"live", "gone", "rejected"},
             \/ pState[q] = "pending" /\ s # "gone"
             \/ pState[q] = "live" /\ s = "gone" /\ cStatus[pOrigin[q]] \notin Waiting \cup {None},
             pState' = [pState EXCEPT ![q] = s], UNCHANGED pOrigin
      PROVE  SoundTables'
  <2>1. \A d \in Position : pState'[d] = IF d = q THEN s ELSE pState[d]
    BY <1>3 DEF TypeOK
  <2>2. OnTheWay' \subseteq OnTheWay
    BY <1>3, <2>1 DEF OnTheWay
  <2>3. \A d \in Position : Filled(d)' => Filled(d)
    BY <1>3, <2>1 DEF Filled
  <2>4. Backed'
    BY <1>3, <2>2 DEF SoundTables, Backed
  <2>5. Spent'
    BY <1>3, <2>1, <2>3 DEF SoundTables, Spent
  <2>6. OneLivePosition'
    BY <2>2 DEF SoundTables, OneLivePosition, OnTheWay
  <2>7. OnePositionPerCandidate'
    BY <1>3, <2>3 DEF SoundTables, OnePositionPerCandidate
  <2>8. StaleHasNone'
    <3>1. \A d \in Position : pState'[d] = "pending" => pState[d] = "pending"
      BY <1>3, <2>1
    <3> QED BY <1>s, <3>1 DEF SoundTables, StaleHasNone
  <2> QED BY <2>4, <2>5, <2>6, <2>7, <2>8 DEF SoundTables, NothingUnresolved, ActiveIsFrom
<1>4. CASE PositionsSound(p)
  BY <1>1, <1>2, <1>3, <1>4 DEF PositionsSound
<1>5. CASE Settled
  <2>1. PICK q \in Position : /\ pState[q] = "pending" /\ UNCHANGED pOrigin
                              /\ \E s \in {"live", "rejected"} : pState' = [pState EXCEPT ![q] = s]
    BY <1>5 DEF Settled
  <2>2. PICK s \in {"live", "rejected"} : pState' = [pState EXCEPT ![q] = s]
    BY <2>1
  <2> QED BY <1>3, <2>1, <2>2
<1> QED BY <1>4, <1>5

\* So does a candidate that is decided, marked or born.
LEMMA CandidateKeepsSound ==
  ASSUME TypeOK, Reliable, Tables, SoundTables, NEW p \in Process, CandidatesStep(p),
         UNCHANGED <<rStatus, rCand, rPos, pState, pOrigin>>,
         \A r \in stale' \ stale : May("slow") \/ ~InHand(r)
  PROVE  SoundTables'
<1>1. \A c \in Candidate : CandidateMoves(p, c)
  BY DEF CandidatesStep
<1>2. \A c \in Candidate : cStatus[c] \notin Waiting \cup {None} => cStatus'[c] \notin Waiting \cup {None}
  BY <1>1 DEF CandidateMoves, Waiting, None
<1>3. Spent'
  BY <1>2 DEF SoundTables, Spent, Filled, Candidate
<1>4. ActiveIsFrom'
  <2> SUFFICES ASSUME NEW r \in Record, rStatus[r] \in SlotActive, NEW b \in BuyCand, cStatus'[b] \in Waiting
               PROVE  rCand[r] = b
    BY DEF SoundTables, ActiveIsFrom
  <2>1. cStatus[b] \in Waiting \/ (cStatus[b] = None /\ cStatus'[b] = "PENDING")
    BY <1>1 DEF CandidateMoves, Waiting, Candidate
  <2> QED BY <2>1 DEF CandidatesStep, SoundTables, ActiveIsFrom
<1>5. StaleHasNone'
  BY DEF SoundTables, StaleHasNone, Reliable, May, InHand
<1> QED BY <1>3, <1>4, <1>5 DEF SoundTables, NothingUnresolved, Backed, OnTheWay,
           OneLivePosition, OnePositionPerCandidate, Filled

-----------------------------------------------------------------------------
(* What the process may rely on *)

\* The adapter tracks live positions only: what it closes it forgets.
LEMMA TrackedLive ==
  ASSUME TypeOK, Reliable, Consistent, NEW p \in Process, tracked[p] = Watched(p), Step(p)
  PROVE  (tracked[p] = Watched(p))'
<1> USE DEF Reliable, May
<1>1. CASE UNCHANGED <<tracked, pState>>
  BY <1>1 DEF Watched
<1>2. CASE RecoverScan(p)
  <2>1. CASE UNCHANGED tracked
    BY <1>1, <1>2, <2>1 DEF RecoverScan, brokerVars
  <2>2. CASE \E r \in DueForRecovery : \E v \in Verdicts(p, r) :
               tracked' = [tracked EXCEPT ![p] = @ \cup ({v[2]} \ {NoPosition})]
    <3>1. PICK r \in DueForRecovery : \E v \in Verdicts(p, r) :
               tracked' = [tracked EXCEPT ![p] = @ \cup ({v[2]} \ {NoPosition})]
      BY <2>2
    <3>2. PICK v \in Verdicts(p, r) :
               tracked' = [tracked EXCEPT ![p] = @ \cup ({v[2]} \ {NoPosition})]
      BY <3>1
    <3>3. v[2] = NoPosition \/ v[2] \in Live
      BY DEF Verdicts
    <3> QED BY <1>2, <3>2, <3>3, SentinelAssumption DEF RecoverScan, Watched, Live, TypeOK, brokerVars
  <2> QED BY <1>2, <2>1, <2>2 DEF RecoverScan
<1>3. CASE ReconcileMatched(p)
  BY <1>3 DEF ReconcileMatched, Matching, Watched, Live, TypeOK, brokerVars
<1>4. CASE ReconcileOrphan(p)
  BY <1>4 DEF ReconcileOrphan, Watched, Live, TypeOK, brokerVars
<1>5. CASE AwaitPosition(p)
  BY <1>5 DEF AwaitPosition, Watched, TypeOK, brokerVars
<1>6. CASE PlaceOrder(p)
  <2>1. \A q \in Position : pState'[q] = pState[q] \/ pState[q] = "unborn"
    BY <1>6 DEF PlaceOrder, TypeOK, brokerVars
  <2>2. UNCHANGED tracked
    BY <1>6 DEF PlaceOrder
  <2>3. \A q \in tracked[p] : q \in Position /\ pState[q] = "live"
    BY DEF Watched, TypeOK
  <2> QED BY <2>1, <2>2, <2>3 DEF Watched
<1>7. ASSUME NEW q \in tracked[p], NEW ok, NEW failed, ClosePosition(p, q, ok, failed)
      PROVE  (tracked[p] = Watched(p))'
  <2>1. CASE UNCHANGED <<pState, tracked>>
    BY <1>1, <2>1
  <2>2. CASE /\ pState' = [pState EXCEPT ![q] = "gone"]
             /\ tracked' = [tracked EXCEPT ![p] = @ \ {q}]
    BY <1>7, <2>2 DEF Watched, TypeOK
  <2> QED BY <1>7, <2>1, <2>2 DEF ClosePosition
<1>8. CASE Close(p)
  BY <1>1, <1>7, <1>8 DEF Close, brokerVars
<1>9. CASE SellClosePosition(p)
  BY <1>1, <1>7, <1>9 DEF SellClosePosition, brokerVars
<1>10. CASE PhaseA(p) /\ ~RecoverScan(p) /\ ~ReconcileMatched(p) /\ ~ReconcileOrphan(p) /\ ~Close(p)
  <2>1. UNCHANGED <<tracked, pState>>
    BY <1>10 DEF PhaseA, brokerVars, BeginCycle, EndCycle, RecoverWrite, ReconcileUnsafe,
                ReconcileNothingHeld, ReconcileVanished, Adopt, AdoptRefused, Reopen,
                RepairCandidate, CloseUnreconciled, Sweep, ExitCheck, CloseRequest,
                RecordClosed, RecordCloseFailed
  <2> QED BY <1>1, <2>1
<1>11. CASE PhaseB(p) /\ ~PlaceOrder(p) /\ ~AwaitPosition(p) /\ ~SellClosePosition(p)
  <2>1. UNCHANGED <<tracked, pState>>
    BY <1>11 DEF PhaseB, brokerVars, Decide, ListApproved, NextApproved, CreateRecord, EvaluateRisk,
                Submit, RecordOpened, RecordExecutionFailed, SellStart, SellRequestClose,
                SellRecordClosed, SellRecordCloseFailed, MarkExecuted, MarkFailed, FreshDecision,
                AutoApprove, AutoRevert
  <2> QED BY <1>1, <2>1
<1> QED BY <1>2, <1>3, <1>4, <1>5, <1>6, <1>8, <1>9, <1>10, <1>11 DEF Step

\* The recovery sweep either finds nothing on its way and gives the record up,
\* or finds the position the record waits for.
LEMMA VerdictSound ==
  ASSUME TypeOK, Reliable, OneActiveRecord, Consistent, SoundTables, NEW p \in Process, OrderKnown(p),
         NEW r \in DueForRecovery, NEW v \in Verdicts(p, r)
  PROVE  \/ v = <<"abandon", NoPosition>> /\ OnTheWay = {}
         \/ v[1] = "correlate" /\ v[2] \in Live
<1> USE DEF Consistent, Tables, SoundTables
<1>1. r \in Record /\ r \in stale /\ rStatus[r] \in SlotActive
      /\ rStatus[r] \in {"DECISION_CREATED", "APPROVED", "EXECUTION_SUBMITTED"}
  BY DEF DueForRecovery, PreOpenRecoverable, SlotActive, NothingUnresolved, TypeOK
<1>2. ~ContradictsCandidate(r)
  BY <1>1 DEF ContradictsCandidate, ExecutedIsOpen, ExecutedNeverPreOpen, PreOpenRecoverable
<1>3. Live \subseteq OnTheWay
  BY DEF Live, OnTheWay
<1>4. CASE rStatus[r] \in {"DECISION_CREATED", "APPROVED"}
  <2>1. OnTheWay = {}
    BY <1>1, <1>4, OwedToActive DEF ProvesOpened
  <2>2. tracked[p] = {}
    BY <1>3, <2>1 DEF OrderKnown, Watched, Live, TypeOK
  <2> QED BY <1>2, <1>4, <2>1, <2>2 DEF Verdicts
<1>5. CASE rStatus[r] = "EXECUTION_SUBMITTED"
  <2>1. ~(Cardinality(Live) > 1)
    <3>1. CASE Live = {}
      BY <3>1, FS_EmptySet
    <3>2. ASSUME NEW q \in Live
          PROVE  ~(Cardinality(Live) > 1)
      <4>1. Live = {q}
        BY <3>2 DEF OneLivePosition, Live
      <4> QED BY <4>1, FS_Singleton
    <3> QED BY <3>1, <3>2
  <2>2. ~May("broker")
    BY DEF Reliable, May
  <2>3. \/ v = <<"abandon", NoPosition>> /\ Live = {}
        \/ \E q \in Live : /\ v = IF \E s \in Record \ {r} : rPos[s] = q
                                  THEN <<"abandon", NoPosition>> ELSE <<"correlate", q>>
    BY <1>2, <1>5, <2>1, <2>2 DEF Verdicts
  <2>4. Live = {} => OnTheWay = {}
    BY <1>1, <1>5 DEF StaleHasNone, Live, OnTheWay
  <2>5. \A q \in Live : \A s \in Record \ {r} : rPos[s] # q
    <3> SUFFICES ASSUME NEW q \in Live, NEW s \in Record \ {r}, rPos[s] = q PROVE FALSE
      OBVIOUS
    <3>1. rStatus[s] \in ProvesOpened
      BY SentinelAssumption DEF RecordsNamePositions, Live
    <3>2. rStatus[s] \notin SlotActive
      BY <1>1 DEF OneActiveRecord
    <3> QED BY <3>1, <3>2 DEF ClosedMeansGone, ProvesOpened, SlotActive, Live
  <2> QED BY <2>3, <2>4, <2>5
<1> QED BY <1>1, <1>4, <1>5

\* Around an order the process relies on nothing it may not.
LEMMA OrderStays ==
  ASSUME TypeOK, Reliable, OneActiveRecord, Consistent, SoundTables, NEW p \in Process, OrderKnown(p), Step(p)
  PROVE  OrderKnown(p)'
<1> USE DEF Consistent, Knows, SoundTables
<1>t. (tracked[p] = Watched(p))'
  BY TrackedLive DEF OrderKnown
<1>1. CASE pc'[p] \notin {"order", "execFailed", "await", "opened", "adopt", "recoverWrite"}
  BY <1>t, <1>1 DEF OrderKnown
<1>2. CASE RecoverScan(p)
  <2>1. CASE pc'[p] = "reconcile"
    BY <1>1, <2>1
  <2>2. CASE /\ pc'[p] = "recoverWrite"
             /\ \E r \in DueForRecovery : \E v \in Verdicts(p, r) : plan'[p] = v[1] /\ pos'[p] = v[2]
    <3>1. PICK r \in DueForRecovery : \E v \in Verdicts(p, r) : plan'[p] = v[1] /\ pos'[p] = v[2]
      BY <2>2
    <3>2. PICK v \in Verdicts(p, r) : plan'[p] = v[1] /\ pos'[p] = v[2]
      BY <3>1
    <3>3. \/ v = <<"abandon", NoPosition>> /\ OnTheWay = {}
          \/ v[1] = "correlate" /\ v[2] \in Live
      BY VerdictSound
    <3>4. UNCHANGED pState
      BY <1>2 DEF RecoverScan, brokerVars
    <3> QED BY <1>t, <2>2, <3>2, <3>3, <3>4 DEF OrderKnown, OnTheWay, Live
  <2> QED BY <1>2, <2>1, <2>2 DEF RecoverScan, Goto, TypeOK
<1>3. CASE ReconcileOrphan(p)
  <2>1. pc'[p] = "adopt" /\ pos'[p] \in Live /\ UNCHANGED pState
    BY <1>3 DEF ReconcileOrphan, Goto, TypeOK, brokerVars
  <2> QED BY <1>t, <2>1 DEF OrderKnown, Live
<1>4. CASE Submit(p)
  <2>1. HeldFor(p, "APPROVED") /\ UNCHANGED <<pState, rec>>
    BY <1>4 DEF Submit, LoopKnows, brokerVars, heldVars
  <2>2. OnTheWay = {}
    BY <2>1, OwedToActive DEF HeldFor, HeldIn, SlotActive, ProvesOpened
  <2>3. /\ pc'[p] \in {"order", "candFailed"}
        /\ pc'[p] = "order" => rec[p] \notin stale'
    BY <1>4, <2>1 DEF Submit, Transition, Save, Goto, TypeOK, Reliable, May
  <2> QED BY <1>t, <2>1, <2>2, <2>3 DEF OrderKnown, OnTheWay
<1>5. CASE PlaceOrder(p)
  <2>1. pc[p] = "order" /\ OnTheWay = {} /\ UNCHANGED cand
    BY <1>5 DEF PlaceOrder, OrderKnown
  <2>2. \/ pc'[p] = "execFailed" /\ UNCHANGED pState
        \/ /\ pc'[p] = "await"
           /\ \E q \in Position :
                /\ pos'[p] = q /\ pOrigin'[q] = cand[p]
                /\ \A d \in Position : pState'[d] = IF d = q THEN "pending" ELSE pState[d]
    BY <1>5 DEF PlaceOrder, Goto, TypeOK, brokerVars, Reliable, May
  <2> QED BY <1>t, <2>1, <2>2 DEF OrderKnown, OnTheWay
<1>6. CASE AwaitPosition(p)
  <2>1. /\ pc[p] = "await" /\ pos[p] \in Position
        /\ UNCHANGED <<pState, pOrigin, pos, cand>>
    BY <1>6 DEF AwaitPosition, LoopKnows, brokerVars, heldVars
  <2>2. \/ pc'[p] = "opened" /\ pState[pos[p]] = "live"
        \/ pc'[p] = "execFailed" /\ pState[pos[p]] \in {"gone", "rejected"}
    BY <1>6 DEF AwaitPosition, Goto, TypeOK, Reliable, May
  <2> QED BY <1>t, <2>1, <2>2 DEF OrderKnown, OnTheWay
<1>7. CASE PhaseA(p) /\ ~RecoverScan(p) /\ ~ReconcileOrphan(p)
  <2>1. pc'[p] \notin {"order", "execFailed", "await", "opened", "adopt", "recoverWrite"}
    BY <1>7 DEF PhaseA, BeginCycle, EndCycle, RecoverWrite, ReconcileUnsafe,
                ReconcileNothingHeld, ReconcileVanished, ReconcileMatched, Adopt, AdoptRefused, Reopen,
                RepairCandidate, CloseUnreconciled, Sweep, ExitCheck, CloseRequest, Close,
                RecordClosed, RecordCloseFailed, Goto, Audited, Transition, ClosePosition,
                AfterExit, TypeOK
  <2> QED BY <1>1, <2>1
<1>8. CASE PhaseB(p) /\ ~Submit(p) /\ ~PlaceOrder(p) /\ ~AwaitPosition(p)
  <2>1. pc'[p] \notin {"order", "execFailed", "await", "opened", "adopt", "recoverWrite"}
    BY <1>8 DEF PhaseB, Decide, ListApproved, NextApproved, CreateRecord, EvaluateRisk,
                RecordOpened, RecordExecutionFailed, SellStart, SellRequestClose,
                SellClosePosition, SellRecordClosed, SellRecordCloseFailed, MarkExecuted,
                MarkFailed, FreshDecision, AutoApprove, AutoRevert,
                Goto, Audited, Transition, ClosePosition, TypeOK
  <2> QED BY <1>1, <2>1
<1> QED BY <1>2, <1>3, <1>4, <1>5, <1>6, <1>7, <1>8 DEF Step

\* What is watched stays owed when a step of the cycle tracks nothing new and
\* approves nothing.
LEMMA ExitedCalm ==
  ASSUME TypeOK, SoundTables, NEW p \in Process, ExitedKnown(p), pc[p] \in ExitSteps \cup Loop,
         \A q \in Watched(p)' : q \in Watched(p) /\ pOrigin'[q] = pOrigin[q],
         \A c \in Candidate : cStatus'[c] \in Waiting => cStatus'[c] = cStatus[c],
         exited'[p] = "closed" => exited[p] = "closed",
         \/ pc[p] \notin {"opened", "candExecuted", "candFailed"}
         \/ cand'[p] = cand[p] /\ pc'[p] \in {"opened", "candExecuted", "candFailed"}
  PROVE  ExitedKnown(p)'
<1>1. \A q \in Watched(p) : pOrigin[q] \in Candidate
  BY DEF SoundTables, Spent, Watched, Filled, Candidate, TypeOK
<1>2. ASSUME exited'[p] = "closed", NEW b \in BuyCand
      PROVE  cStatus'[b] \notin Waiting
  BY <1>2 DEF ExitedKnown, Candidate, Waiting
<1>3. ASSUME NEW q \in Watched(p)', cStatus'[pOrigin'[q]] = "APPROVED"
      PROVE  pOrigin'[q] = cand'[p] /\ pc'[p] \in {"opened", "candExecuted", "candFailed"}
  BY <1>1, <1>3 DEF ExitedKnown, Waiting
<1> QED BY <1>2, <1>3 DEF ExitedKnown

\* The process does not lose sight of what waits after an exit.
LEMMA ExitedStays ==
  ASSUME TypeOK, Reliable, OneActiveRecord, Consistent, SoundTables, NEW p \in Process,
         OrderKnown(p), ExitedKnown(p), Step(p)
  PROVE  ExitedKnown(p)'
<1> USE DEF Consistent, Knows, SoundTables
<1>1. CASE pc'[p] \notin ExitSteps \cup Loop
  BY <1>1 DEF ExitedKnown
<1>w. \A q \in Watched(p) : q \in OnTheWay /\ pOrigin[q] \in BuyCand
  BY DEF Spent, Watched, Filled, OnTheWay, TypeOK
<1>2. CASE Watched(p)' = {} /\ exited'[p] = None
  BY <1>2 DEF ExitedKnown, None
<1>3. CASE ReconcileNothingHeld(p)
  <2>1. Live = {} /\ UNCHANGED <<exited, tracked, pState>>
    BY <1>3 DEF ReconcileNothingHeld, NothingUnresolved, Unresolved, LocalActive, brokerVars
  <2>2. Watched(p)' = {}
    BY <2>1 DEF Watched, Live, TypeOK
  <2> QED BY <1>2, <1>3, <2>1, <2>2 DEF ReconcileNothingHeld, StartKnows
<1>4. CASE CloseUnreconciled(p)
  <2>1. Watched(p)' = {} /\ exited'[p] = None
    BY <1>4 DEF CloseUnreconciled, StartKnows, AdapterKnows, Watched, brokerVars
  <2> QED BY <1>2, <2>1
<1>5. CASE RepairCandidate(p)
  <2>1. CASE pc[p] = "repair" /\ pc'[p] = "sweep"
    <3> DEFINE c == rCand[rec[p]]
    <3>1. /\ HeldIn(p, OpenStatuses) /\ Watched(p) \subseteq {rPos[rec[p]]}
          /\ exited'[p] = None /\ Watched(p)' = Watched(p) /\ UNCHANGED pOrigin
      BY <1>5, <2>1 DEF RepairCandidate, ReconcileKnows, StartKnows, AdapterKnows, Held, HeldIn,
                        Watched, heldVars, brokerVars
    <3>2. \A q \in Watched(p) : pOrigin[q] = c /\ c \in Candidate
      BY <1>w, <3>1, OwedToActive DEF HeldIn, OpenStatuses, SlotActive, Candidate
    <3>3. c \in Candidate => cStatus'[c] # "APPROVED"
      BY <1>5, <2>1 DEF RepairCandidate, CompareAndSet, Goto, candVars, TypeOK
    <3> QED BY <3>1, <3>2, <3>3 DEF ExitedKnown, None
  <2>2. CASE pc[p] = "repair" /\ pc'[p] # "sweep"
    BY <1>1, <1>5, <2>2 DEF RepairCandidate, Goto, TypeOK, ExitSteps, CloseSteps, Loop, CandSteps, BuySteps, SellSteps
  <2>3. CASE pc[p] = "repairVanished"
    BY <1>1, <1>5, <2>3 DEF RepairCandidate, Goto, TypeOK, ExitSteps, CloseSteps, Loop, CandSteps, BuySteps, SellSteps
  <2> QED BY <1>5, <2>1, <2>2, <2>3 DEF RepairCandidate
<1>6. CASE \/ BeginCycle(p) \/ EndCycle(p) \/ RecoverScan(p) \/ RecoverWrite(p)
           \/ ReconcileUnsafe(p) \/ ReconcileVanished(p) \/ ReconcileMatched(p) \/ ReconcileOrphan(p)
           \/ Adopt(p) \/ AdoptRefused(p) \/ Reopen(p) \/ (Sweep(p) /\ pc[p] = "sweepUnsafe")
           \/ FreshDecision(p) \/ AutoApprove(p) \/ AutoRevert(p)
  <2>1. pc'[p] \notin ExitSteps \cup Loop
    BY <1>6 DEF BeginCycle, EndCycle, RecoverScan, RecoverWrite, ReconcileUnsafe, ReconcileVanished,
                ReconcileMatched, ReconcileOrphan, Adopt, AdoptRefused, Reopen, Transition, Sweep,
                FreshDecision, AutoApprove, AutoRevert, Goto, Audited, TypeOK,
                ExitSteps, CloseSteps, Loop, CandSteps, BuySteps, SellSteps
  <2> QED BY <1>1, <2>1
<1>7. CASE Sweep(p) /\ pc[p] = "sweep"
  <2>1. /\ \A c \in Candidate : cStatus'[c] \in Waiting => cStatus'[c] = cStatus[c]
        /\ UNCHANGED <<exited, tracked, pState, pOrigin>>
    BY <1>7 DEF Sweep, Waiting, heldVars, brokerVars
  <2> QED BY <1>7, <2>1, ExitedCalm DEF ExitSteps, Watched
<1>8. CASE RecordClosed(p)
  <2>1. /\ pc[p] = "closed" /\ UNCHANGED <<cStatus, tracked, pState, pOrigin>>
        /\ HeldIn(p, {"CLOSE_REQUESTED", "CLOSE_FAILED"})
    BY <1>8 DEF RecordClosed, ExitKnows, candVars, brokerVars
  <2>2. \A b \in BuyCand : cStatus[b] \notin Waiting
    <3> SUFFICES ASSUME NEW b \in BuyCand, cStatus[b] \in Waiting PROVE FALSE
      OBVIOUS
    <3>1. rCand[rec[p]] = b /\ b \in Candidate
      BY <2>1 DEF ActiveIsFrom, HeldIn, SlotActive, Candidate
    <3>2. cStatus[b] = "APPROVED"
      BY <2>1, <3>1 DEF Tables, RecordsNameApproved, HeldIn, Waiting
    <3> QED BY <2>1, <3>1, <3>2 DEF SlotKnows, HeldIn, ExitSteps, CloseSteps, ProvesOpened
  <2>3. \A q \in Watched(p)' : q \in Watched(p)
    BY <2>1 DEF Watched
  <2> QED BY <2>1, <2>2, <2>3 DEF ExitedKnown, ExitSteps, CloseSteps
<1>9. CASE \/ ExitCheck(p) \/ CloseRequest(p) \/ RecordCloseFailed(p) \/ Decide(p) \/ ListApproved(p)
           \/ NextApproved(p) \/ CreateRecord(p) \/ EvaluateRisk(p) \/ Submit(p) \/ RecordExecutionFailed(p)
           \/ SellStart(p) \/ SellRequestClose(p) \/ SellRecordClosed(p) \/ SellRecordCloseFailed(p)
  <2>1. /\ pc[p] \in (ExitSteps \cup Loop) \ {"opened", "candExecuted", "candFailed"}
        /\ UNCHANGED <<cStatus, tracked, pState, pOrigin>>
        /\ exited'[p] = "closed" => exited[p] = "closed"
    BY <1>9 DEF ExitCheck, CloseRequest, RecordCloseFailed, Decide, ListApproved, NextApproved,
                CreateRecord, EvaluateRisk, Submit, RecordExecutionFailed, SellStart, SellRequestClose,
                SellRecordClosed, SellRecordCloseFailed, heldVars, candVars, brokerVars, TypeOK,
                ExitSteps, CloseSteps, Loop, CandSteps, BuySteps, SellSteps
  <2>2. Watched(p)' = Watched(p)
    BY <2>1 DEF Watched
  <2> QED BY <2>1, <2>2, ExitedCalm
<1>10. CASE PlaceOrder(p) \/ Close(p) \/ SellClosePosition(p)
  <2>1. /\ pc[p] \in (ExitSteps \cup Loop) \ {"opened", "candExecuted", "candFailed"}
        /\ UNCHANGED <<cStatus, exited>>
        /\ tracked'[p] \subseteq tracked[p]
    BY <1>10 DEF PlaceOrder, Close, SellClosePosition, ClosePosition, heldVars, candVars, TypeOK,
                 ExitSteps, CloseSteps, Loop, CandSteps, BuySteps, SellSteps
  <2>2. \A q \in tracked[p] : q \in Position /\ pState[q] # "unborn"
    BY DEF AdapterKnows, TypeOK
  <2>3. \A q \in Position : pState[q] # "unborn" =>
          /\ pOrigin'[q] = pOrigin[q]
          /\ pState'[q] = "live" => pState[q] = "live"
    BY <1>10 DEF PlaceOrder, Close, SellClosePosition, ClosePosition, brokerVars, TypeOK
  <2>4. ASSUME NEW q \in Watched(p)'
        PROVE  q \in Watched(p) /\ pOrigin'[q] = pOrigin[q]
    <3>1. q \in tracked[p] /\ pState'[q] = "live"
      BY <2>1 DEF Watched
    <3> QED BY <2>2, <2>3, <3>1 DEF Watched
  <2> QED BY <2>1, <2>4, ExitedCalm
<1>11. CASE AwaitPosition(p)
  <2>1. /\ pc[p] = "await" /\ UNCHANGED <<cStatus, exited, cand, pState, pOrigin>>
        /\ OnTheWay \subseteq {pos[p]} /\ pOrigin[pos[p]] = cand[p]
    BY <1>11 DEF AwaitPosition, OrderKnown, candVars, brokerVars, heldVars
  <2>2. \/ pc'[p] = "opened"
        \/ pc'[p] = "execFailed" /\ UNCHANGED tracked
    BY <1>11 DEF AwaitPosition, Goto, TypeOK, Reliable, May
  <2>3. CASE UNCHANGED tracked
    BY <2>1, <2>3, ExitedCalm DEF Watched, Loop, CandSteps, BuySteps
  <2>4. CASE pc'[p] = "opened"
    <3>1. \A q \in Watched(p)' : q \in OnTheWay
      BY <1>11, <2>1 DEF AwaitPosition, Watched, OnTheWay, LoopKnows, TypeOK
    <3>2. \A b \in BuyCand : exited'[p] = "closed" => cStatus'[b] \notin Waiting
      BY <2>1 DEF ExitedKnown, Loop, CandSteps, BuySteps
    <3> QED BY <2>1, <2>4, <3>1, <3>2 DEF ExitedKnown
  <2> QED BY <2>2, <2>3, <2>4
<1>12. CASE RecordOpened(p)
  <2>1. /\ pc[p] = "opened" /\ pc'[p] \in {"candExecuted", "candFailed"}
        /\ UNCHANGED <<cStatus, exited, cand, tracked, pState, pOrigin>>
    BY <1>12 DEF RecordOpened, Transition, Goto, candVars, brokerVars, heldVars, TypeOK
  <2> QED BY <2>1, ExitedCalm DEF Watched, Loop, CandSteps, BuySteps
<1>13. CASE MarkExecuted(p) \/ MarkFailed(p)
  <2>1. /\ pc[p] \in {"candExecuted", "candFailed"} /\ UNCHANGED <<exited, tracked, pState, pOrigin>>
        /\ cand[p] \in Candidate /\ cStatus[cand[p]] = "APPROVED"
    BY <1>13 DEF MarkExecuted, MarkFailed, LoopKnows, CandSteps, brokerVars
  <2>2. \/ pc'[p] = "end"
        \/ pc'[p] = "candFailed" /\ UNCHANGED <<cStatus, cand>>
        \/ \A c \in Candidate : IF c = cand[p] THEN cStatus'[c] \in {"EXECUTED", "FAILED"}
                                               ELSE cStatus'[c] = cStatus[c]
    BY <1>13, <2>1 DEF MarkExecuted, MarkFailed, CompareAndSet, Goto, Audited, candVars, TypeOK
  <2>3. CASE pc'[p] = "end"
    BY <1>1, <2>3 DEF ExitSteps, CloseSteps, Loop, CandSteps, BuySteps, SellSteps
  <2>4. CASE pc'[p] = "candFailed" /\ UNCHANGED <<cStatus, cand>>
    BY <2>1, <2>4, ExitedCalm DEF Watched, Loop, CandSteps
  <2>5. CASE \A c \in Candidate : IF c = cand[p] THEN cStatus'[c] \in {"EXECUTED", "FAILED"}
                                                 ELSE cStatus'[c] = cStatus[c]
    <3>1. \A q \in Watched(p) : cStatus'[pOrigin[q]] # "APPROVED"
      BY <1>w, <2>1, <2>5 DEF ExitedKnown, Candidate, Loop, CandSteps
    <3>2. \A b \in BuyCand : exited'[p] = "closed" => cStatus'[b] \notin Waiting
      BY <2>1, <2>5 DEF ExitedKnown, Loop, CandSteps, Candidate, Waiting
    <3>3. Watched(p)' = Watched(p)
      BY <2>1 DEF Watched
    <3> QED BY <2>1, <3>1, <3>2, <3>3 DEF ExitedKnown
  <2> QED BY <2>2, <2>3, <2>4, <2>5
<1>14. Sweep(p) => pc[p] \in {"sweep", "sweepUnsafe"}
  BY DEF Sweep
<1> QED BY <1>3, <1>4, <1>5, <1>6, <1>7, <1>8, <1>9, <1>10, <1>11, <1>12, <1>13, <1>14
        DEF Step, PhaseA, PhaseB

-----------------------------------------------------------------------------
(* The rest of the world *)

\* Without a human at the account the world only settles what was ordered.
LEMMA WorldStays ==
  ASSUME TypeOK, Reliable, Consistent, SoundTables, NEW p \in Process, OrderKnown(p), ExitedKnown(p), WorldStep
  PROVE  OrderKnown(p)' /\ ExitedKnown(p)'
<1> USE DEF Consistent, Knows, SoundTables
<1>1. /\ UNCHANGED <<pc, plan, cand, rec, pos, exited, tracked>>
      /\ UNCHANGED brokerVars \/ Settled
      /\ \A r \in stale' \ stale : ~InHand(r)
  BY DEF WorldStep, procVars, heldVars, Reliable, May
<1>2. /\ UNCHANGED pOrigin
      /\ \A q \in Position : pState'[q] = pState[q] \/ (pState[q] = "pending" /\ pState'[q] \in {"live", "rejected"})
  BY <1>1 DEF Settled, brokerVars, TypeOK
<1>3. OnTheWay' \subseteq OnTheWay
  BY <1>2 DEF OnTheWay
<1>4. Watched(p)' = Watched(p)
  BY <1>1, <1>2 DEF AdapterKnows, Watched, TypeOK
<1>5. rec[p] \notin stale => rec[p] \notin stale'
  BY <1>1 DEF InHand
<1>6. OrderKnown(p)'
  <2>1. pc[p] \in {"await", "opened"} => pos[p] \in Position
    BY DEF LoopKnows, Opened
  <2>2. pc[p] = "adopt" => pos[p] \in Position
    BY DEF ReconcileKnows, Opened
  <2>3. pc[p] = "recoverWrite" /\ plan[p] = "correlate" => pos[p] \in Position
    BY DEF RecoverKnows, Opened
  <2> QED BY <1>1, <1>2, <1>3, <1>4, <1>5, <2>1, <2>2, <2>3 DEF OrderKnown
<1>7. ExitedKnown(p)'
  <2>1. \A c \in Candidate : cStatus'[c] \in Waiting => cStatus[c] \in Waiting
    BY DEF WorldStep, Waiting
  <2>2. \A q \in Watched(p) : pOrigin[q] \in Candidate /\ cStatus'[pOrigin[q]] = cStatus[pOrigin[q]]
    <3> SUFFICES ASSUME NEW q \in Watched(p) PROVE pOrigin[q] \in Candidate /\ cStatus'[pOrigin[q]] = cStatus[pOrigin[q]]
      OBVIOUS
    <3>1. q \in OnTheWay /\ pOrigin[q] \in Candidate
      BY DEF Spent, Watched, Filled, OnTheWay, Candidate, TypeOK
    <3>2. PICK r \in Record : rCand[r] = pOrigin[q]
      BY <3>1 DEF Backed
    <3>3. cStatus[pOrigin[q]] # "PENDING"
      BY <3>1, <3>2 DEF Tables, RecordsNameApproved
    <3> QED BY <3>1, <3>3 DEF WorldStep
  <2> QED BY <1>1, <1>2, <1>4, <2>1, <2>2 DEF ExitedKnown, Candidate
<1> QED BY <1>6, <1>7

\* A start and a crash leave nothing to be careful about.
LEMMA RestartStays ==
  ASSUME TypeOK, Consistent, NEW p \in Process, OrderKnown(p), Boot(p) \/ Crash(p)
  PROVE  OrderKnown(p)' /\ ExitedKnown(p)'
<1>1. /\ pc'[p] \in {"idle", "down"} /\ UNCHANGED pState
      /\ tracked'[p] = tracked[p] \/ tracked'[p] = {}
  BY DEF Boot, Crash, Goto, brokerVars, TypeOK
<1>2. (tracked[p] = Watched(p))'
  BY <1>1 DEF OrderKnown, Watched
<1> QED BY <1>1, <1>2 DEF OrderKnown, ExitedKnown, ExitSteps, CloseSteps, Loop, CandSteps, BuySteps, SellSteps

-----------------------------------------------------------------------------
(* The theorems *)

\* Every step of a system with one process and a reliable world stays sound.
LEMMA SoundInductive ==
  ASSUME TypeOK, Reliable, OneActiveRecord, Consistent, Sound,
         NEW p \in Process, \A q \in Process : q = p, [Next]_vars
  PROVE  Sound'
<1>1. OrderKnown(p) /\ ExitedKnown(p) /\ SoundTables /\ Tables
  BY DEF Sound, Consistent
<1>2. RecordsStep(p) /\ CandidatesApart(p)
  BY NextWrites
<1>3. CASE UNCHANGED vars
  <2>1. WorldStep
    BY <1>3 DEF WorldStep, BrokerMoves, vars, recVars, candVars, brokerVars, procVars, heldVars
  <2>2. SoundTables'
    BY <1>1, <1>3 DEF SoundTables, NothingUnresolved, Backed, OnTheWay, Spent, ActiveIsFrom, StaleHasNone,
                      OneLivePosition, OnePositionPerCandidate, Filled, vars
  <2> QED BY <1>1, <2>1, <2>2, WorldStays DEF Sound
<1>4. ASSUME Next, PositionsSound(p) \/ Settled, RecordsSound(p)
      PROVE  SoundTables'
  <2>1. CASE RecordWrite(p) /\ UNCHANGED <<cStatus, cRecord, pState, pOrigin>>
    BY <1>1, <1>4, <2>1, WriteKeepsSound
  <2>2. CASE /\ UNCHANGED <<rStatus, rCand, rPos, cStatus, cRecord>>
             /\ \A r \in stale' \ stale : May("slow") \/ ~InHand(r)
    BY <1>1, <1>4, <2>2, PositionKeepsSound
  <2>3. CASE /\ UNCHANGED <<rStatus, rCand, rPos, pState, pOrigin>> /\ CandidatesStep(p)
             /\ \A r \in stale' \ stale : May("slow") \/ ~InHand(r)
    BY <1>1, <2>3, CandidateKeepsSound
  <2> QED BY <1>2, <2>1, <2>2, <2>3 DEF RecordsStep, CandidatesApart, candVars
<1>5. CASE Step(p)
  <2>1. SoundTables'
    BY <1>1, <1>4, <1>5, StepRecordsSound, StepPositionsSound DEF Next
  <2> QED BY <1>1, <1>5, <2>1, OrderStays, ExitedStays DEF Sound
<1>6. CASE Next /\ WorldStep
  <2>1. RecordsSound(p)
    BY <1>1, <1>6 DEF WorldStep, RecordsSound, SoundTables, NothingUnresolved
  <2>2. PositionsSound(p) \/ Settled
    BY <1>6 DEF WorldStep, PositionsSound, Reliable, May
  <2>3. SoundTables'
    BY <1>4, <1>6, <2>1, <2>2
  <2> QED BY <1>1, <1>6, <2>3, WorldStays DEF Sound
<1>7. CASE Boot(p) \/ Crash(p)
  <2>1. SoundTables'
    BY <1>1, <1>7 DEF Boot, Crash, SoundTables, NothingUnresolved, Backed, OnTheWay, Spent, ActiveIsFrom,
                      StaleHasNone, OneLivePosition, OnePositionPerCandidate, Filled,
                      candVars, recVars, brokerVars
  <2> QED BY <1>1, <1>7, <2>1, RestartStays DEF Sound
<1> QED BY <1>3, <1>5, <1>6, <1>7, WorldMoves

\* It holds at the start.
LEMMA SoundInitially ==
  ASSUME Init
  PROVE  Sound
<1>1. SoundTables
  BY DEF Init, SoundTables, NothingUnresolved, Backed, OnTheWay, Spent, ActiveIsFrom, StaleHasNone,
         OneLivePosition, OnePositionPerCandidate, Filled, SlotActive, None
<1>2. ASSUME NEW p \in Process
      PROVE  OrderKnown(p) /\ ExitedKnown(p)
  BY DEF Init, OrderKnown, ExitedKnown, Watched, ExitSteps, CloseSteps, Loop, CandSteps, BuySteps, SellSteps
<1> QED BY <1>1, <1>2 DEF Sound

\* So it holds for ever, of a process that knows what it does.
LEMMA SoundCorrect ==
  ASSUME NEW p \in Process, \A q \in Process : q = p, Reliable
  PROVE  Spec => [](Consistent /\ Sound)
<1>1. Init => Sound
  BY SoundInitially
<1>2. TypeOK /\ OneActiveRecord /\ Consistent /\ Sound /\ [Next]_vars => Sound'
  BY SoundInductive
<1>3. Spec => []TypeOK
  BY TypeCorrect
<1>4. Spec => []OneActiveRecord
  BY OneActive
<1>5. Spec => []Consistent
  BY ConsistentCorrect
<1> QED BY <1>1, <1>2, <1>3, <1>4, <1>5, PTL DEF Spec

\* The runtime never holds two positions of the instrument at once, nor sends
\* an order while it holds one.
THEOREM OneLive ==
  ASSUME NEW p \in Process, \A q \in Process : q = p, Reliable
  PROVE  Spec => []OneLivePosition
<1>1. Sound => OneLivePosition
  BY DEF Sound, SoundTables
<1> QED BY <1>1, SoundCorrect, PTL

\* A candidate that is tried again after a crash never buys a second time.
THEOREM OnePerCandidate ==
  ASSUME NEW p \in Process, \A q \in Process : q = p, Reliable
  PROVE  Spec => []OnePositionPerCandidate
<1>1. Sound => OnePositionPerCandidate
  BY DEF Sound, SoundTables
<1> QED BY <1>1, SoundCorrect, PTL

\* A cycle that closed the position sends no order: its candidate would have to
\* be an approved BUY, and none waits.
THEOREM NoEntry ==
  ASSUME NEW p \in Process, \A q \in Process : q = p, Reliable
  PROVE  Spec => []NoEntryAfterExit
<1>1. Consistent /\ Sound => NoEntryAfterExit
  BY DEF Consistent, Knows, LoopKnows, Sound, ExitedKnown, NoEntryAfterExit, Waiting,
         Loop, CandSteps, BuySteps
<1> QED BY <1>1, SoundCorrect, PTL
=============================================================================
