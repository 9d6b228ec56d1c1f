------------------------ MODULE SingleProcessProofs ------------------------
(***************************************************************************)
(* What one runtime process promises about its records, its candidates and  *)
(* the broker's positions, whatever fails and whoever else trades: theorems *)
(* about TradeExecution for a single process and any number of candidates,  *)
(* records and positions.  The inductive invariant says, for every step of  *)
(* a cycle, what the process knows about the record, the candidate and the  *)
(* position it holds across the awaits.                                     *)
(***************************************************************************)
EXTENDS TradeExecutionProofs, FiniteSetTheorems

Waiting == {"PENDING", "APPROVED"}

\* A record names a broker position exactly when it proves one was opened, and
\* that position is live or was.
RecordsNamePositions ==
  \A r \in Record :
    /\ rStatus[r] \notin ProvesOpened => rPos[r] = NoPosition
    /\ rStatus[r] \in ProvesOpened =>
         rPos[r] \in Position /\ pState[rPos[r]] \in {"live", "gone"}

\* A record that names a candidate names a BUY that was approved.
RecordsNameApproved ==
  \A r \in Record : rCand[r] \in Candidate =>
    /\ rStatus[r] # None
    /\ rCand[r] \in BuyCand
    /\ cStatus[rCand[r]] \notin {None, "PENDING"}

\* At most one BUY candidate waits for a decision or for its turn.
OneBuyWaits ==
  \A b, c \in BuyCand : cStatus[b] \in Waiting /\ cStatus[c] \in Waiting => b = c

\* The durable part of the inductive invariant.
Tables ==
  /\ RecordsNamePositions /\ RecordsNameApproved /\ OneBuyWaits
  /\ ClosedMeansGone /\ ExecutedIsOpen /\ SpentCandidateNotApproved

-----------------------------------------------------------------------------
(* What a process knows at each step of its cycle *)

Held(p)        == rec[p] \in Record
HeldIn(p, S)   == rec[p] \in Record /\ rStatus[rec[p]] \in S
HeldFor(p, st) == HeldIn(p, {st}) /\ rCand[rec[p]] = cand[p]
HeldGone(p)    == rPos[rec[p]] \in Position /\ pState[rPos[rec[p]]] = "gone"
Opened(q)      == q \in Position /\ pState[q] \in {"live", "gone"}

CloseSteps == { "closeRequest", "close", "closed", "closeFailed" }
ExitSteps  == { "sweep", "exit", "decide", "list" } \cup CloseSteps
BuySteps   == { "create", "risk", "submit", "order", "await", "execFailed", "opened" }
SellSteps  == { "sellStart", "sellRequest", "sellClose", "sellClosed", "sellCloseFailed" }
CandSteps  == BuySteps \cup SellSteps \cup { "candExecuted", "candFailed" }
Loop       == CandSteps \cup { "approved" }

\* Nothing is in hand before a cycle has reconciled.
StartKnows(p) ==
  /\ pc[p] \in {"down", "idle", "recover", "reconcile", "adopt"} => rec[p] = NoRecord
  /\ pc[p] \in {"down", "idle", "recover", "recoverWrite", "reconcile", "adopt",
                "repairVanished", "closeUnreconciled"} => ~open[p] /\ exited[p] = None
  /\ pc[p] \in {"reopen", "repair", "sweep", "exit"} => exited[p] = None

\* Between the verdict of the recovery sweep and its write.
RecoverKnows(p) ==
  pc[p] = "recoverWrite" =>
    /\ HeldIn(p, PreOpenRecoverable)
    /\ seen[p] = rStatus[rec[p]]
    /\ plan[p] \in {"abandon", "ambiguous", "correlate"}
    /\ plan[p] # "correlate" => pos[p] = NoPosition
    /\ plan[p] = "correlate" =>
         /\ Opened(pos[p])
         /\ rStatus[rec[p]] \in {"EXECUTION_SUBMITTED", "EXECUTION_RECONCILIATION_REQUIRED"}

\* Between the reconciliation and the repair of the candidate.
ReconcileKnows(p) ==
  /\ pc[p] = "adopt" => Opened(pos[p])
  /\ pc[p] = "reopen" => HeldIn(p, {"CLOSE_FAILED"}) /\ open[p]
  /\ pc[p] = "repair" => HeldIn(p, OpenStatuses) /\ seen[p] = rStatus[rec[p]] /\ open[p]
  /\ pc[p] \in {"repairVanished", "closeUnreconciled"} =>
       HeldIn(p, ReconcilableToClosed) /\ HeldGone(p)
  /\ pc[p] = "closeUnreconciled" /\ rCand[rec[p]] \in Candidate =>
       cStatus[rCand[rec[p]]] # "APPROVED"

\* While the exits of the cycle look at the position it found open.
ExitKnows(p) ==
  /\ pc[p] \in {"sweep", "exit", "decide", "list", "closeRequest"} /\ Held(p) =>
       /\ HeldIn(p, ReconcilableToClosed) /\ open[p] /\ exited[p] # "closed"
       /\ exited[p] = None => rStatus[rec[p]] \in OpenStatuses /\ seen[p] = rStatus[rec[p]]
       /\ exited[p] = "failed" => rStatus[rec[p]] = "CLOSE_FAILED"
  /\ pc[p] \in ExitSteps /\ exited[p] = "closed" => ~open[p]
  /\ pc[p] \in CloseSteps =>
       Held(p) /\ open[p] /\ exited[p] # "closed" /\ (exited[p] = "failed" => May("registry"))
  /\ pc[p] \in {"close", "closed"} =>
       /\ HeldIn(p, {"CLOSE_REQUESTED", "CLOSE_FAILED"})
       /\ exited[p] = None => HeldIn(p, {"CLOSE_REQUESTED"})
  /\ pc[p] = "closed" => HeldGone(p)
  /\ pc[p] = "closeFailed" =>
       /\ HeldIn(p, {"CLOSE_REQUESTED", "CLOSE_FAILED", "CLOSED"})
       /\ exited[p] = None => HeldIn(p, {"CLOSE_REQUESTED", "CLOSED"})
       /\ HeldIn(p, {"CLOSED"}) => May("audit")

\* While an approved candidate is executed: it is still approved, and nobody
\* else has written the record of its execution.
LoopKnows(p) ==
  /\ pc[p] \in {"approved", "create", "sellStart"} => rec[p] = NoRecord
  /\ pc[p] \in CandSteps =>
       cand[p] \in Candidate /\ cStatus[cand[p]] = "APPROVED" /\ cand[p] \notin todo[p]
  /\ pc[p] \in Loop => \A c \in todo[p] : cStatus[c] = "APPROVED"
  /\ pc[p] \in BuySteps => cand[p] \in BuyCand /\ ~open[p]
  /\ pc[p] = "risk" => HeldFor(p, "DECISION_CREATED")
  /\ pc[p] = "submit" => HeldFor(p, "APPROVED")
  /\ pc[p] \in {"order", "await", "execFailed", "opened"} => HeldFor(p, "EXECUTION_SUBMITTED")
  /\ pc[p] = "await" => pos[p] \in Position /\ pState[pos[p]] # "unborn"
  /\ pc[p] = "opened" => Opened(pos[p])
  /\ pc[p] = "candExecuted" /\ cand[p] \in BuyCand => HeldFor(p, "OPEN")
  /\ pc[p] \in SellSteps => cand[p] \in SellCand
  /\ pc[p] = "sellRequest" => HeldIn(p, {"OPEN"})
  /\ pc[p] = "sellClose" /\ Held(p) => HeldIn(p, {"CLOSE_REQUESTED"})
  /\ pc[p] \in {"sellClosed", "sellCloseFailed"} => HeldIn(p, {"CLOSE_REQUESTED"})
  /\ pc[p] = "sellClosed" => HeldGone(p)
  /\ pc[p] \in {"auto", "autoRevert"} => cand[p] \in BuyCand

\* The live positions the adapter would close.
Watched(p) == { q \in tracked[p] : pState[q] = "live" }

\* The adapter never watches two live positions, none while an order may be on
\* its way, and only the one of the record in hand or of the open record.
AdapterKnows(p) ==
  /\ \A q \in tracked[p] : pState[q] \in {"live", "gone"}
  /\ \A q, s \in Watched(p) : q = s
  /\ pc[p] = "adopt" => Watched(p) \subseteq {pos[p]}
  /\ pc[p] \in {"repairVanished", "closeUnreconciled", "sellClosed"} => Watched(p) = {}
  /\ pc[p] = "candExecuted" /\ cand[p] \in SellCand => Watched(p) = {}
  /\ pc[p] \in ExitSteps /\ ~open[p] => Watched(p) = {}
  /\ pc[p] \in BuySteps \ {"execFailed", "opened"} => Watched(p) = {}
  /\ pc[p] = "opened" => Watched(p) \subseteq {pos[p]}
  /\ pc[p] \in Loop /\ ~open[p] /\ todo[p] \cap BuyCand # {} => Watched(p) = {}
  /\ pc[p] \in ExitSteps \cup {"reopen", "repair"} /\ Held(p) => Watched(p) \subseteq {rPos[rec[p]]}
  /\ pc[p] \in Loop => \A r \in Record :
       rStatus[r] \in OpenStatuses /\ pState[rPos[r]] = "live" => Watched(p) \subseteq {rPos[r]}

\* Once reconciled, no open record but the one in hand exists, and no record of
\* an opened position leaves its candidate approved.
SlotKnows(p) ==
  /\ pc[p] \in ExitSteps => \A r \in Record : rStatus[r] \in OpenStatuses => rec[p] = r
  /\ pc[p] \in ExitSteps \cup Loop =>
       \A r \in Record :
         rStatus[r] \in ProvesOpened /\ rCand[r] \in Candidate /\ cStatus[rCand[r]] = "APPROVED"
           => rCand[r] = cand[p] /\ pc[p] \in {"candExecuted", "candFailed"}

Knows(p) == /\ StartKnows(p) /\ RecoverKnows(p) /\ ReconcileKnows(p) /\ ExitKnows(p)
            /\ LoopKnows(p) /\ AdapterKnows(p) /\ SlotKnows(p)

Consistent == Tables /\ \A p \in Process : Knows(p)

-----------------------------------------------------------------------------
(* What one step may do to the records, the candidates and the broker *)

\* The edges a status may move along: the table's, and those a failed audit
\* write or a registry that changes its answer adds behind a refused close.
MovesTo(a, b) ==
  \/ <<a, b>> \in ValidTransitions
  \/ May("audit") /\ a = "CLOSED" /\ b = "CLOSE_FAILED"
  \/ /\ May("audit") \/ May("registry")
     /\ a = "CLOSE_FAILED" /\ b \in {"CLOSE_REQUESTED", "CLOSED", "CLOSE_FAILED"}

\* One record is written: along an edge, or for the first time.
RecordWrite(p) ==
  \E r \in Record, to \in RecordStatus, q \in MaybePosition :
    /\ rStatus' = [rStatus EXCEPT ![r] = to]
    /\ rPos' = [rPos EXCEPT ![r] = q]
    /\ to \in SlotActive => \A s \in Record \ {r} : rStatus[s] \notin SlotActive
    /\ to \notin ProvesOpened => q = NoPosition
    /\ to \in ProvesOpened => Opened(q)
    /\ rStatus[r] \in ProvesOpened => q = rPos[r]
    /\ stale' \subseteq stale /\ (to = "EXECUTION_SUBMITTED" => r \notin stale')
    /\ to \in {"CLOSED", "CLOSED_UNRECONCILED"} =>
         /\ pState[q] = "gone"
         /\ rCand[r] \in Candidate => cStatus[rCand[r]] # "APPROVED"
    /\ \/ rCand' = rCand /\ MovesTo(rStatus[r], to)
       \/ /\ rStatus[r] = None /\ to = "DECISION_CREATED"
          /\ rCand' = [rCand EXCEPT ![r] = cand[p]]
          /\ cand[p] \in BuyCand /\ cStatus[cand[p]] = "APPROVED"
       \/ /\ rStatus[r] = None /\ to = "OPEN"
          /\ rCand' = [rCand EXCEPT ![r] = NoCand]

\* The record table is left alone, or one record is written and nothing else is.
RecordsStep(p) ==
  \/ /\ UNCHANGED <<rStatus, rCand, rPos>>
     /\ \A r \in stale' \ stale : May("slow") \/ ~InHand(r)
  \/ RecordWrite(p) /\ UNCHANGED <<cStatus, cRecord, pState, pOrigin>>

USE DEF None

\* A transition whose status, position and candidate suit the record is one.
LEMMA TransitionWrites ==
  ASSUME TypeOK, NEW p \in Process, NEW r \in Record, NEW to \in RecordStatus, NEW q, NEW ok, NEW failed,
         Transition(p, r, to, q, ok, failed),
         UNCHANGED <<cStatus, cRecord, pState, pOrigin>>,
         MovesTo(rStatus[r], to),
         to \notin ProvesOpened => q = NoPosition,
         to \in ProvesOpened => Opened(q),
         rStatus[r] \in ProvesOpened => q = rPos[r],
         to \in {"CLOSED", "CLOSED_UNRECONCILED"} =>
           /\ pState[q] = "gone"
           /\ rCand[r] \in Candidate => cStatus[rCand[r]] # "APPROVED"
  PROVE  RecordsStep(p)
<1>1. CASE UNCHANGED recVars
  BY <1>1 DEF recVars, RecordsStep
<1>2. CASE ~Clash(r, to, q) /\ Save(r, to, q)
  <2>1. q \in MaybePosition
    BY DEF MaybePosition, Opened
  <2>2. to \in SlotActive => \A s \in Record \ {r} : rStatus[s] \notin SlotActive
    BY <1>2 DEF Clash
  <2> QED BY <1>2, <2>1, <2>2 DEF RecordsStep, RecordWrite, Save
<1> QED BY <1>1, <1>2 DEF Transition

\* Phase A writes records only so.
LEMMA PhaseAWrites ==
  ASSUME TypeOK, OneActiveRecord, Consistent, NEW p \in Process, PhaseA(p)
  PROVE  RecordsStep(p)
<1> USE DEF Consistent, Knows, Tables, HeldIn
<1>1. CASE \/ BeginCycle(p) \/ EndCycle(p) \/ RecoverScan(p)
           \/ ReconcileUnsafe(p) \/ ReconcileNothingHeld(p) \/ ReconcileVanished(p)
           \/ ReconcileMatched(p) \/ ReconcileOrphan(p) \/ AdoptRefused(p)
           \/ RepairCandidate(p) \/ Sweep(p) \/ ExitCheck(p) \/ Close(p)
  BY <1>1 DEF RecordsStep, recVars, BeginCycle, EndCycle, RecoverScan, ReconcileUnsafe,
              ReconcileNothingHeld, ReconcileVanished, ReconcileMatched, ReconcileOrphan,
              AdoptRefused, RepairCandidate, Sweep, ExitCheck, Close
<1>2. CASE RecoverWrite(p)
  <2> DEFINE to == Resolution(plan[p])
  <2>1. CASE UNCHANGED recVars
    BY <2>1 DEF RecordsStep, recVars
  <2>2. CASE to # seen[p] /\ ~Clash(rec[p], to, pos[p]) /\ Save(rec[p], to, pos[p])
    <3>1. RecoverKnows(p) /\ pc[p] = "recoverWrite" /\ UNCHANGED <<cStatus, cRecord, pState, pOrigin>>
      BY <1>2 DEF RecoverWrite, candVars, brokerVars
    <3>2. rec[p] \in Record /\ to \in RecordStatus /\ MovesTo(rStatus[rec[p]], to)
      BY <2>2, <3>1 DEF RecoverKnows, MovesTo, ValidTransitions, PreOpenRecoverable, Resolution, RecordStatus
    <3>3. /\ to \notin ProvesOpened => pos[p] = NoPosition
          /\ to \in ProvesOpened => Opened(pos[p])
          /\ to \notin {"CLOSED", "CLOSED_UNRECONCILED"}
      BY <3>1 DEF RecoverKnows, Resolution, ProvesOpened
    <3>4. pos[p] \in MaybePosition /\ rStatus[rec[p]] \notin ProvesOpened
      BY <3>1 DEF TypeOK, MaybePosition, RecoverKnows, PreOpenRecoverable, ProvesOpened
    <3>5. to \in SlotActive => \A s \in Record \ {rec[p]} : rStatus[s] \notin SlotActive
      BY <2>2 DEF Clash
    <3> HIDE DEF to
    <3> QED BY <2>2, <3>1, <3>2, <3>3, <3>4, <3>5 DEF RecordsStep, RecordWrite, Save
  <2> QED BY <1>2, <2>1, <2>2 DEF RecoverWrite
<1>3. CASE Adopt(p)
  <2>1. PICK r \in Record : /\ ~Clash(r, "OPEN", pos[p])
                            /\ Insert(r, "OPEN", NoCand, pos[p])
    BY <1>3 DEF Adopt
  <2>2. Opened(pos[p]) /\ UNCHANGED <<cStatus, cRecord, pState, pOrigin>>
    BY <1>3 DEF Adopt, ReconcileKnows, candVars, brokerVars
  <2>3. \A s \in Record \ {r} : rStatus[s] \notin SlotActive
    BY <2>1 DEF Clash, SlotActive
  <2> QED BY <2>1, <2>2, <2>3 DEF RecordsStep, RecordWrite, Insert, MaybePosition, Opened,
                                  ProvesOpened, RecordStatus
<1>4. CASE Reopen(p)
  <2>1. /\ HeldIn(p, {"CLOSE_FAILED"}) /\ UNCHANGED <<cStatus, cRecord, pState, pOrigin>>
        /\ Transition(p, rec[p], "OPEN", rPos[rec[p]], "repair", "end")
    BY <1>4 DEF Reopen, ReconcileKnows, candVars, brokerVars
  <2>2. Opened(rPos[rec[p]])
    BY <2>1 DEF RecordsNamePositions, Opened, ProvesOpened
  <2> QED BY <2>1, <2>2, TransitionWrites DEF MovesTo, ValidTransitions, ProvesOpened, RecordStatus
<1>5. CASE CloseUnreconciled(p)
  <2>1. /\ HeldIn(p, ReconcilableToClosed) /\ HeldGone(p) /\ UNCHANGED <<cStatus, cRecord, pState, pOrigin>>
        /\ Transition(p, rec[p], "CLOSED_UNRECONCILED", rPos[rec[p]], "sweep", "end")
        /\ rCand[rec[p]] \in Candidate => cStatus[rCand[rec[p]]] # "APPROVED"
    BY <1>5 DEF CloseUnreconciled, ReconcileKnows, candVars, brokerVars
  <2>2. MovesTo(rStatus[rec[p]], "CLOSED_UNRECONCILED")
    BY <2>1 DEF MovesTo, ValidTransitions, ReconcilableToClosed
  <2> QED BY <2>1, <2>2, TransitionWrites DEF HeldGone, Opened, ProvesOpened, RecordStatus
<1>6. CASE CloseRequest(p)
  <2>1. CASE UNCHANGED recVars
    BY <2>1 DEF RecordsStep, recVars
  <2>2. CASE /\ seen[p] = "OPEN"
             /\ Transition(p, rec[p], "CLOSE_REQUESTED", rPos[rec[p]], "close", "end")
    <3>1. /\ ExitKnows(p) /\ pc[p] = "closeRequest" /\ exited[p] \in {None, "failed", "closed"}
          /\ UNCHANGED <<cStatus, cRecord, pState, pOrigin>>
      BY <1>6 DEF CloseRequest, candVars, brokerVars, TypeOK
    <3>2. /\ HeldIn(p, {"OPEN", "CLOSE_FAILED", "CLOSE_REQUESTED"})
          /\ exited[p] = None => HeldIn(p, {"OPEN"})
          /\ exited[p] = "failed" => HeldIn(p, {"CLOSE_FAILED"}) /\ May("registry")
          /\ exited[p] # "closed"
      BY <2>2, <3>1 DEF ExitKnows, Held, ReconcilableToClosed, CloseSteps
    <3>3. Opened(rPos[rec[p]])
      BY <3>2 DEF RecordsNamePositions, Opened, ProvesOpened
    <3> QED BY <2>2, <3>1, <3>2, <3>3, TransitionWrites DEF MovesTo, ValidTransitions, ProvesOpened, RecordStatus
  <2> QED BY <1>6, <2>1, <2>2 DEF CloseRequest
<1>7. CASE RecordClosed(p)
  <2>1. /\ ExitKnows(p) /\ pc[p] = "closed" /\ exited[p] \in {None, "failed", "closed"}
        /\ UNCHANGED <<cStatus, cRecord, pState, pOrigin>>
    BY <1>7 DEF RecordClosed, candVars, brokerVars, TypeOK
  <2>2. /\ HeldIn(p, {"CLOSE_REQUESTED", "CLOSE_FAILED"}) /\ HeldGone(p)
        /\ MovesTo(rStatus[rec[p]], "CLOSED")
    BY <2>1 DEF ExitKnows, CloseSteps, MovesTo, ValidTransitions
  <2>3. rCand[rec[p]] \in Candidate => cStatus[rCand[rec[p]]] # "APPROVED"
    BY <2>1, <2>2 DEF SlotKnows, ExitSteps, CloseSteps, ProvesOpened
  <2>4. CASE UNCHANGED recVars
    BY <2>4 DEF RecordsStep, recVars
  <2>5. CASE Transition(p, rec[p], "CLOSED", rPos[rec[p]], AfterExit(p), "closeFailed")
    BY <2>1, <2>2, <2>3, <2>5, TransitionWrites DEF HeldGone, Opened, ProvesOpened, RecordStatus
  <2>6. CASE Save(rec[p], "CLOSED", rPos[rec[p]])
    <3>1. /\ rec[p] \in Record /\ "CLOSED" \in RecordStatus /\ rPos[rec[p]] \in MaybePosition
          /\ "CLOSED" \notin SlotActive /\ Opened(rPos[rec[p]]) /\ pState[rPos[rec[p]]] = "gone"
      BY <2>2 DEF HeldGone, Opened, RecordStatus, SlotActive, MaybePosition
    <3>2. RecordWrite(p)
      BY <2>2, <2>3, <2>6, <3>1 DEF RecordWrite, Save, ProvesOpened
    <3> QED BY <2>1, <3>2 DEF RecordsStep
  <2> QED BY <1>7, <2>4, <2>5, <2>6 DEF RecordClosed
<1>8. CASE RecordCloseFailed(p)
  <2>1. /\ ExitKnows(p) /\ pc[p] = "closeFailed" /\ exited[p] \in {None, "failed", "closed"}
        /\ UNCHANGED <<cStatus, cRecord, pState, pOrigin>>
        /\ Transition(p, rec[p], "CLOSE_FAILED", rPos[rec[p]], AfterExit(p), "end")
    BY <1>8 DEF RecordCloseFailed, candVars, brokerVars, TypeOK
  <2>2. HeldIn(p, {"CLOSE_REQUESTED", "CLOSE_FAILED", "CLOSED"}) /\ MovesTo(rStatus[rec[p]], "CLOSE_FAILED")
    BY <2>1 DEF ExitKnows, CloseSteps, MovesTo, ValidTransitions
  <2>3. Opened(rPos[rec[p]])
    BY <2>2 DEF RecordsNamePositions, Opened, ProvesOpened
  <2> QED BY <2>1, <2>2, <2>3, TransitionWrites DEF ProvesOpened, RecordStatus
<1> QED
  BY <1>1, <1>2, <1>3, <1>4, <1>5, <1>6, <1>7, <1>8 DEF PhaseA

\* So does Phase B.
LEMMA PhaseBWrites ==
  ASSUME TypeOK, OneActiveRecord, Consistent, NEW p \in Process, PhaseB(p)
  PROVE  RecordsStep(p)
<1> USE DEF Consistent, Knows, Tables, HeldIn, HeldFor, BuySteps, SellSteps, CandSteps
<1>1. CASE \/ Decide(p) \/ ListApproved(p) \/ NextApproved(p) \/ PlaceOrder(p)
           \/ AwaitPosition(p) \/ SellStart(p) \/ SellClosePosition(p) \/ MarkExecuted(p)
           \/ MarkFailed(p) \/ FreshDecision(p) \/ AutoApprove(p) \/ AutoRevert(p)
  BY <1>1 DEF RecordsStep, recVars, Decide, ListApproved, NextApproved, PlaceOrder,
              AwaitPosition, SellStart, SellClosePosition, MarkExecuted, MarkFailed,
              FreshDecision, AutoApprove, AutoRevert
<1>2. CASE CreateRecord(p)
  <2>1. CASE UNCHANGED recVars
    BY <2>1 DEF RecordsStep, recVars
  <2>2. CASE \E r \in Record : /\ ~Clash(r, "DECISION_CREATED", NoPosition)
                               /\ Insert(r, "DECISION_CREATED", cand[p], NoPosition)
    <3>1. PICK r \in Record : /\ ~Clash(r, "DECISION_CREATED", NoPosition)
                              /\ Insert(r, "DECISION_CREATED", cand[p], NoPosition)
      BY <2>2
    <3>2. cand[p] \in BuyCand /\ cStatus[cand[p]] = "APPROVED" /\ UNCHANGED <<cStatus, cRecord, pState, pOrigin>>
      BY <1>2 DEF CreateRecord, LoopKnows, candVars, brokerVars
    <3>3. \A s \in Record \ {r} : rStatus[s] \notin SlotActive
      BY <3>1 DEF Clash, SlotActive
    <3> QED BY <3>1, <3>2, <3>3 DEF RecordsStep, RecordWrite, Insert, MaybePosition, ProvesOpened, RecordStatus
  <2> QED BY <1>2, <2>1, <2>2 DEF CreateRecord
<1>3. CASE EvaluateRisk(p)
  <2>1. /\ HeldIn(p, {"DECISION_CREATED"}) /\ UNCHANGED <<cStatus, cRecord, pState, pOrigin>>
        /\ \/ Transition(p, rec[p], "RISK_REJECTED", NoPosition, "candFailed", "candFailed")
           \/ Transition(p, rec[p], "APPROVED", NoPosition, "submit", "candFailed")
    BY <1>3 DEF EvaluateRisk, LoopKnows, candVars, brokerVars
  <2>2. /\ MovesTo(rStatus[rec[p]], "RISK_REJECTED") /\ MovesTo(rStatus[rec[p]], "APPROVED")
    BY <2>1 DEF MovesTo, ValidTransitions
  <2>3. CASE Transition(p, rec[p], "RISK_REJECTED", NoPosition, "candFailed", "candFailed")
    BY <2>1, <2>2, <2>3, TransitionWrites DEF ProvesOpened, RecordStatus
  <2>4. CASE Transition(p, rec[p], "APPROVED", NoPosition, "submit", "candFailed")
    BY <2>1, <2>2, <2>4, TransitionWrites DEF ProvesOpened, RecordStatus
  <2> QED BY <2>1, <2>3, <2>4
<1>4. CASE Submit(p)
  <2>1. /\ HeldIn(p, {"APPROVED"}) /\ UNCHANGED <<cStatus, cRecord, pState, pOrigin>>
        /\ Transition(p, rec[p], "EXECUTION_SUBMITTED", NoPosition, "order", "candFailed")
    BY <1>4 DEF Submit, LoopKnows, candVars, brokerVars
  <2> QED BY <2>1, TransitionWrites DEF MovesTo, ValidTransitions, ProvesOpened, RecordStatus
<1>5. CASE RecordOpened(p)
  <2>1. /\ HeldIn(p, {"EXECUTION_SUBMITTED"}) /\ Opened(pos[p]) /\ UNCHANGED <<cStatus, cRecord, pState, pOrigin>>
        /\ Transition(p, rec[p], "OPEN", pos[p], "candExecuted", "candFailed")
    BY <1>5 DEF RecordOpened, LoopKnows, candVars, brokerVars
  <2> QED BY <2>1, TransitionWrites DEF MovesTo, ValidTransitions, ProvesOpened, RecordStatus
<1>6. CASE RecordExecutionFailed(p)
  <2>1. /\ HeldIn(p, {"EXECUTION_SUBMITTED"}) /\ UNCHANGED <<cStatus, cRecord, pState, pOrigin>>
        /\ Transition(p, rec[p], "EXECUTION_FAILED", NoPosition, "candFailed", "candFailed")
    BY <1>6 DEF RecordExecutionFailed, LoopKnows, candVars, brokerVars
  <2> QED BY <2>1, TransitionWrites DEF MovesTo, ValidTransitions, ProvesOpened, RecordStatus
<1>7. CASE SellRequestClose(p)
  <2>1. /\ HeldIn(p, {"OPEN"}) /\ UNCHANGED <<cStatus, cRecord, pState, pOrigin>>
        /\ Transition(p, rec[p], "CLOSE_REQUESTED", rPos[rec[p]], "sellClose", "candFailed")
    BY <1>7 DEF SellRequestClose, LoopKnows, candVars, brokerVars
  <2>2. Opened(rPos[rec[p]])
    BY <2>1 DEF RecordsNamePositions, Opened, ProvesOpened
  <2> QED BY <2>1, <2>2, TransitionWrites DEF MovesTo, ValidTransitions, ProvesOpened, RecordStatus
<1>8. CASE SellRecordClosed(p)
  <2>1. /\ HeldIn(p, {"CLOSE_REQUESTED"}) /\ HeldGone(p) /\ UNCHANGED <<cStatus, cRecord, pState, pOrigin>>
        /\ Transition(p, rec[p], "CLOSED", rPos[rec[p]], "candExecuted", "candFailed")
        /\ pc[p] = "sellClosed"
    BY <1>8 DEF SellRecordClosed, LoopKnows, candVars, brokerVars
  <2>2. rCand[rec[p]] \in Candidate => cStatus[rCand[rec[p]]] # "APPROVED"
    BY <2>1 DEF SlotKnows, Loop, ProvesOpened
  <2> QED BY <2>1, <2>2, TransitionWrites DEF HeldGone, Opened, MovesTo, ValidTransitions, ProvesOpened, RecordStatus
<1>9. CASE SellRecordCloseFailed(p)
  <2>1. /\ HeldIn(p, {"CLOSE_REQUESTED"}) /\ UNCHANGED <<cStatus, cRecord, pState, pOrigin>>
        /\ Transition(p, rec[p], "CLOSE_FAILED", rPos[rec[p]], "candFailed", "candFailed")
    BY <1>9 DEF SellRecordCloseFailed, LoopKnows, candVars, brokerVars
  <2>2. Opened(rPos[rec[p]])
    BY <2>1 DEF RecordsNamePositions, Opened, ProvesOpened
  <2> QED BY <2>1, <2>2, TransitionWrites DEF MovesTo, ValidTransitions, ProvesOpened, RecordStatus
<1> QED
  BY <1>1, <1>2, <1>3, <1>4, <1>5, <1>6, <1>7, <1>8, <1>9 DEF PhaseB

\* How a step may change one candidate.
CandidateMoves(p, c) ==
  \/ cStatus'[c] = cStatus[c] /\ cRecord'[c] = cRecord[c]
  \/ /\ cStatus[c] = "APPROVED" /\ cStatus'[c] = "EXECUTED" /\ cRecord'[c] = rec[p]
     /\ c \in BuyCand =>
          HeldIn(p, ProvesOpened \cap SlotActive) /\ rCand[rec[p]] = c
  \/ cStatus[c] \in Waiting /\ cStatus'[c] \in {"REJECTED", "EXPIRED", "FAILED"}
  \/ cStatus[c] = "PENDING" /\ cStatus'[c] = "APPROVED"
  \/ cStatus[c] = None /\ cStatus'[c] = "PENDING" /\ pc'[p] \in {"end", "auto"}

\* The candidate table moves so, every candidate that moves to the same
\* status, and a BUY is only born while no other waits and no record is active.
CandidatesStep(p) ==
  /\ \A c \in Candidate : CandidateMoves(p, c)
  /\ \E to \in CandidateStatus : \A c \in Candidate : cStatus'[c] \in {cStatus[c], to}
  /\ \A b \in BuyCand : cStatus[b] = None /\ cStatus'[b] = "PENDING" =>
       /\ \A c \in BuyCand \ {b} : cStatus'[c] \notin Waiting
       /\ \A r \in Record : rStatus[r] \notin SlotActive

\* Either the candidates are left alone, or the records and the broker are.
CandidatesApart(p) ==
  \/ UNCHANGED candVars
  \/ CandidatesStep(p) /\ UNCHANGED <<rStatus, rCand, rPos, pState, pOrigin>>

\* The edges of a broker position.
BrokerMoves(a, b) ==
  \/ a = b
  \/ <<a, b>> \in { <<"unborn", "pending">>, <<"unborn", "live">>, <<"pending", "live">>,
                    <<"pending", "rejected">>, <<"live", "gone">> }

\* Positions move along them, and only when neither table is written; where a
\* position came from is settled when it is born.
BrokerStep ==
  /\ \A q \in Position : BrokerMoves(pState[q], pState'[q])
  /\ \A q \in Position : pState[q] # "unborn" => pOrigin'[q] = pOrigin[q]
  /\ UNCHANGED brokerVars \/ UNCHANGED <<candVars, rStatus, rCand, rPos>>

\* A compare-and-set that is not the execution moves candidates so.
LEMMA CompareAndSetMoves ==
  ASSUME TypeOK, NEW p \in Process, NEW c \in Candidate, NEW from, NEW to,
         CompareAndSet(c, from, to, cRecord[c]),
         \/ from \in Waiting /\ to \in {"REJECTED", "EXPIRED", "FAILED"}
         \/ from = "PENDING" /\ to = "APPROVED"
  PROVE  CandidatesStep(p)
<1>1. CASE UNCHANGED candVars
  BY <1>1 DEF CandidatesStep, CandidateMoves, CandidateStatus, candVars
<1>2. CASE cStatus[c] = from /\ cStatus' = [cStatus EXCEPT ![c] = to] /\ cRecord' = cRecord
  <2>1. \A d \in Candidate : cStatus'[d] = IF d = c THEN to ELSE cStatus[d]
    BY <1>2 DEF TypeOK
  <2> QED BY <1>2, <2>1 DEF CandidatesStep, CandidateMoves, CandidateStatus, Waiting
<1> QED BY <1>1, <1>2 DEF CompareAndSet, TypeOK

\* A compare-and-set to EXECUTED with the record in hand does too.
LEMMA ExecutionMoves ==
  ASSUME TypeOK, NEW p \in Process, NEW c \in Candidate,
         CompareAndSet(c, "APPROVED", "EXECUTED", rec[p]),
         c \in BuyCand => HeldIn(p, ProvesOpened \cap SlotActive) /\ rCand[rec[p]] = c
  PROVE  CandidatesStep(p)
<1>1. CASE UNCHANGED candVars
  BY <1>1 DEF CandidatesStep, CandidateMoves, CandidateStatus, candVars
<1>2. CASE /\ cStatus[c] = "APPROVED" /\ cStatus' = [cStatus EXCEPT ![c] = "EXECUTED"]
           /\ cRecord' = [cRecord EXCEPT ![c] = rec[p]]
  <2>1. \A d \in Candidate : /\ cStatus'[d] = IF d = c THEN "EXECUTED" ELSE cStatus[d]
                             /\ cRecord'[d] = IF d = c THEN rec[p] ELSE cRecord[d]
    BY <1>2 DEF TypeOK
  <2> QED BY <1>2, <2>1 DEF CandidatesStep, CandidateMoves, CandidateStatus
<1> QED BY <1>1, <1>2 DEF CompareAndSet

\* Every candidate write of a cycle is one of these.
LEMMA CandidateWrites ==
  ASSUME TypeOK, OneActiveRecord, Consistent, NEW p \in Process, Step(p)
  PROVE  CandidatesApart(p)
<1> USE DEF Consistent, Knows, Tables, HeldIn, HeldFor, CandidatesApart
<1>1. CASE RepairCandidate(p)
  <2>1. \/ UNCHANGED candVars
        \/ /\ rCand[rec[p]] \in Candidate
           /\ CompareAndSet(rCand[rec[p]], "APPROVED", "EXECUTED", rec[p])
    BY <1>1 DEF RepairCandidate, candVars, CompareAndSet
  <2>2. HeldIn(p, ProvesOpened \cap SlotActive) /\ UNCHANGED <<rStatus, rCand, rPos, pState, pOrigin>>
    BY <1>1 DEF RepairCandidate, ReconcileKnows, OpenStatuses, ReconcilableToClosed, ProvesOpened,
                SlotActive, recVars, brokerVars
  <2> QED BY <2>1, <2>2, ExecutionMoves
<1>2. CASE Sweep(p)
  <2>1. PICK S \in SUBSET { c \in overdue : cStatus[c] \in {"PENDING", "APPROVED"} } :
          cStatus' = [c \in Candidate |-> IF c \in S THEN "EXPIRED" ELSE cStatus[c]]
    BY <1>2 DEF Sweep
  <2>2. cRecord' = cRecord /\ UNCHANGED <<rStatus, rCand, rPos, pState, pOrigin>>
    BY <1>2 DEF Sweep, recVars, brokerVars
  <2>3. CandidatesStep(p)
    BY <2>1, <2>2 DEF CandidatesStep, CandidateMoves, CandidateStatus, Waiting, Candidate
  <2> QED BY <2>2, <2>3
<1>3. CASE MarkExecuted(p)
  <2>1. UNCHANGED candVars \/ CompareAndSet(cand[p], "APPROVED", "EXECUTED", rec[p])
    BY <1>3 DEF MarkExecuted
  <2>2. /\ cand[p] \in Candidate /\ UNCHANGED <<rStatus, rCand, rPos, pState, pOrigin>>
        /\ cand[p] \in BuyCand => HeldIn(p, ProvesOpened \cap SlotActive) /\ rCand[rec[p]] = cand[p]
    BY <1>3 DEF MarkExecuted, LoopKnows, CandSteps, ProvesOpened, SlotActive, recVars, brokerVars
  <2> QED BY <2>1, <2>2, ExecutionMoves
<1>4. CASE MarkFailed(p) \/ AutoRevert(p)
  <2>1. UNCHANGED candVars \/ CompareAndSet(cand[p], "APPROVED", "FAILED", cRecord[cand[p]])
    BY <1>4 DEF MarkFailed, AutoRevert
  <2>2. cand[p] \in Candidate /\ UNCHANGED <<rStatus, rCand, rPos, pState, pOrigin>>
    BY <1>4 DEF MarkFailed, AutoRevert, LoopKnows, CandSteps, Candidate, recVars, brokerVars
  <2> QED BY <2>1, <2>2, CompareAndSetMoves DEF Waiting
<1>5. CASE AutoApprove(p)
  <2>1. UNCHANGED candVars \/ CompareAndSet(cand[p], "PENDING", "APPROVED", cRecord[cand[p]])
    BY <1>5 DEF AutoApprove
  <2>2. cand[p] \in Candidate /\ UNCHANGED <<rStatus, rCand, rPos, pState, pOrigin>>
    BY <1>5 DEF AutoApprove, LoopKnows, Candidate, recVars, brokerVars
  <2> QED BY <2>1, <2>2, CompareAndSetMoves
<1>6. CASE FreshDecision(p)
  <2>1. UNCHANGED <<rStatus, rCand, rPos, pState, pOrigin, cRecord>>
    BY <1>6 DEF FreshDecision, recVars, brokerVars
  <2>2. CASE UNCHANGED cStatus
    BY <2>1, <2>2 DEF candVars
  <2>3. CASE \E c \in Candidate : /\ cStatus[c] = None
                                  /\ cStatus' = [cStatus EXCEPT ![c] = "PENDING"]
                                  /\ c \in SellCand \/ ~DuplicateEntry
    <3>1. PICK c \in Candidate : /\ cStatus[c] = None
                                 /\ cStatus' = [cStatus EXCEPT ![c] = "PENDING"]
                                 /\ c \in SellCand \/ ~DuplicateEntry
      BY <2>3
    <3>2. \A d \in Candidate : cStatus'[d] = IF d = c THEN "PENDING" ELSE cStatus[d]
      BY <3>1 DEF TypeOK
    <3>3. pc'[p] \in {"end", "auto"}
      BY <1>6 DEF FreshDecision, Goto, TypeOK
    <3>4. CandidatesStep(p)
      BY <2>1, <3>1, <3>2, <3>3, SidesAssumption
         DEF CandidatesStep, CandidateMoves, CandidateStatus, DuplicateEntry, Waiting, Candidate
    <3> QED BY <2>1, <3>4
  <2> QED BY <1>6, <2>2, <2>3 DEF FreshDecision
<1>7. CASE PhaseA(p) /\ ~RepairCandidate(p) /\ ~Sweep(p)
  <2>1. UNCHANGED candVars
    BY <1>7 DEF PhaseA, candVars, BeginCycle, EndCycle, RecoverScan, RecoverWrite,
                ReconcileUnsafe, ReconcileNothingHeld, ReconcileVanished, ReconcileMatched,
                ReconcileOrphan, Adopt, AdoptRefused, Reopen, CloseUnreconciled, ExitCheck,
                CloseRequest, Close, RecordClosed, RecordCloseFailed
  <2> QED BY <2>1
<1>8. CASE \/ Decide(p) \/ ListApproved(p) \/ NextApproved(p) \/ CreateRecord(p)
           \/ EvaluateRisk(p) \/ Submit(p) \/ PlaceOrder(p) \/ AwaitPosition(p)
           \/ RecordOpened(p) \/ RecordExecutionFailed(p) \/ SellStart(p)
           \/ SellRequestClose(p) \/ SellClosePosition(p) \/ SellRecordClosed(p)
           \/ SellRecordCloseFailed(p)
  <2>1. UNCHANGED candVars
    BY <1>8 DEF candVars, Decide, ListApproved, NextApproved, CreateRecord, EvaluateRisk,
                Submit, PlaceOrder, AwaitPosition, RecordOpened, RecordExecutionFailed,
                SellStart, SellRequestClose, SellClosePosition, SellRecordClosed,
                SellRecordCloseFailed
  <2> QED BY <2>1
<1> QED BY <1>1, <1>2, <1>3, <1>4, <1>5, <1>6, <1>7, <1>8 DEF Step, PhaseB

\* A cycle moves positions only by ordering one, or by closing one.
LEMMA BrokerWrites ==
  ASSUME TypeOK, NEW p \in Process, Step(p)
  PROVE  BrokerStep
<1> USE DEF BrokerStep, BrokerMoves, candVars, recVars, brokerVars, TypeOK
<1>1. CASE PlaceOrder(p)
  BY <1>1 DEF PlaceOrder
<1>2. CASE Close(p)
  BY <1>2 DEF Close, ClosePosition
<1>3. CASE SellClosePosition(p)
  BY <1>3 DEF SellClosePosition, ClosePosition
<1>4. CASE UNCHANGED brokerVars
  BY <1>4
<1>5. CASE PhaseA(p) /\ ~Close(p)
  <2>1. UNCHANGED brokerVars
    BY <1>5 DEF PhaseA, BeginCycle, EndCycle, RecoverScan, RecoverWrite, ReconcileUnsafe,
                ReconcileNothingHeld, ReconcileVanished, ReconcileMatched, ReconcileOrphan, Adopt,
                AdoptRefused, Reopen, RepairCandidate, CloseUnreconciled, Sweep, ExitCheck,
                CloseRequest, RecordClosed, RecordCloseFailed
  <2> QED BY <1>4, <2>1
<1>6. CASE PhaseB(p) /\ ~PlaceOrder(p) /\ ~SellClosePosition(p)
  <2>1. UNCHANGED brokerVars
    BY <1>6 DEF PhaseB, Decide, ListApproved, NextApproved, CreateRecord, EvaluateRisk, Submit,
                AwaitPosition, RecordOpened, RecordExecutionFailed, SellStart, SellRequestClose,
                SellRecordClosed, SellRecordCloseFailed, MarkExecuted, MarkFailed, FreshDecision,
                AutoApprove, AutoRevert
  <2> QED BY <1>4, <2>1
<1> QED BY <1>1, <1>2, <1>3, <1>5, <1>6 DEF Step

\* Steps of these kinds keep the tables consistent.
LEMMA TablesKept ==
  ASSUME TypeOK, OneActiveRecord, Tables, NEW p \in Process,
         RecordsStep(p), CandidatesApart(p), BrokerStep
  PROVE  Tables'
<1> USE DEF Tables, ExecutedIsOpen
<1>1. CASE RecordWrite(p) /\ UNCHANGED <<cStatus, cRecord, pState, pOrigin>>
  <2>1. PICK r \in Record, to \in RecordStatus, q \in MaybePosition :
          /\ \A s \in Record : rStatus'[s] = IF s = r THEN to ELSE rStatus[s]
          /\ \A s \in Record : rPos'[s] = IF s = r THEN q ELSE rPos[s]
          /\ to \notin ProvesOpened => q = NoPosition
          /\ to \in ProvesOpened => Opened(q)
          /\ to \in {"CLOSED", "CLOSED_UNRECONCILED"} =>
               /\ pState[q] = "gone"
               /\ rCand[r] \in Candidate => cStatus[rCand[r]] # "APPROVED"
          /\ \/ rCand' = rCand /\ MovesTo(rStatus[r], to)
             \/ /\ rStatus[r] = None /\ to = "DECISION_CREATED"
                /\ \A s \in Record : rCand'[s] = IF s = r THEN cand[p] ELSE rCand[s]
                /\ cand[p] \in BuyCand /\ cStatus[cand[p]] = "APPROVED"
             \/ /\ rStatus[r] = None /\ to = "OPEN"
                /\ \A s \in Record : rCand'[s] = IF s = r THEN NoCand ELSE rCand[s]
    BY <1>1 DEF RecordWrite, TypeOK
  <2>2. /\ rCand'[r] = rCand[r] \/ rStatus[r] = None
        /\ MovesTo(rStatus[r], to) \/ rStatus[r] = None
        /\ to # None
    BY <2>1 DEF RecordStatus
  <2>3. RecordsNamePositions' /\ ClosedMeansGone'
    BY <1>1, <2>1 DEF RecordsNamePositions, ClosedMeansGone, Opened, ProvesOpened
  <2>4. RecordsNameApproved'
    BY <1>1, <2>1, <2>2, SentinelAssumption DEF RecordsNameApproved, Candidate, MovesTo, ValidTransitions
  <2>5. OneBuyWaits'
    BY <1>1 DEF OneBuyWaits
  <2>6. rStatus[r] \in ProvesOpened => to \in ProvesOpened
    BY <2>1 DEF MovesTo, ValidTransitions, ProvesOpened
  <2>7. ExecutedHasPosition'
    <3> SUFFICES ASSUME NEW c \in BuyCand, cStatus[c] = "EXECUTED"
                 PROVE  /\ cRecord[c] \in Record /\ rCand'[cRecord[c]] = c
                        /\ rStatus'[cRecord[c]] \in ProvesOpened /\ rPos'[cRecord[c]] \in Position
      BY <1>1 DEF ExecutedHasPosition
    <3>1. /\ cRecord[c] \in Record /\ rCand[cRecord[c]] = c
          /\ rStatus[cRecord[c]] \in ProvesOpened /\ rPos[cRecord[c]] \in Position
      BY DEF ExecutedHasPosition
    <3> QED BY <2>1, <2>2, <2>6, <3>1 DEF Opened, ProvesOpened
  <2>8. to \in PreOpenRecoverable => rStatus[r] \in PreOpenRecoverable \cup {None}
    BY <2>1 DEF MovesTo, ValidTransitions, PreOpenRecoverable
  <2>9. ExecutedNeverPreOpen'
    <3> SUFFICES ASSUME NEW s \in Record, rStatus'[s] \in PreOpenRecoverable, rCand'[s] \in Candidate
                 PROVE  cStatus[rCand'[s]] # "EXECUTED"
      BY <1>1 DEF ExecutedNeverPreOpen
    <3>1. CASE s # r
      BY <2>1, <3>1 DEF ExecutedNeverPreOpen
    <3>2. CASE s = r /\ rStatus[r] = None
      BY <2>1, <3>2, SentinelAssumption DEF MovesTo, ValidTransitions
    <3>3. CASE s = r /\ rStatus[r] # None
      BY <2>1, <2>2, <2>8, <3>3 DEF ExecutedNeverPreOpen
    <3> QED BY <3>1, <3>2, <3>3
  <2>10. SpentCandidateNotApproved'
    <3>1. to \in ProvesOpened \ SlotActive => to \in {"CLOSED", "CLOSED_UNRECONCILED"}
      BY DEF ProvesOpened, SlotActive
    <3>2. to \in {"CLOSED", "CLOSED_UNRECONCILED"} => rCand' = rCand
      BY <2>1
    <3> QED BY <1>1, <2>1, <3>1, <3>2 DEF SpentCandidateNotApproved
  <2> QED BY <2>3, <2>4, <2>5, <2>7, <2>9, <2>10
<1>2. CASE UNCHANGED <<rStatus, rCand, rPos>> /\ UNCHANGED candVars
  <2>1. \A q \in Position : pState[q] \in {"live", "gone"} => pState'[q] \in {"live", "gone"}
    BY DEF BrokerStep, BrokerMoves
  <2>2. \A q \in Position : pState[q] = "gone" => pState'[q] = "gone"
    BY DEF BrokerStep, BrokerMoves
  <2>3. RecordsNamePositions' /\ ClosedMeansGone'
    BY <1>2, <2>1, <2>2 DEF RecordsNamePositions, ClosedMeansGone
  <2>4. RecordsNameApproved' /\ OneBuyWaits' /\ SpentCandidateNotApproved'
    BY <1>2 DEF RecordsNameApproved, OneBuyWaits, SpentCandidateNotApproved, candVars
  <2>5. ExecutedHasPosition' /\ ExecutedNeverPreOpen'
    BY <1>2 DEF ExecutedHasPosition, ExecutedNeverPreOpen, candVars
  <2> QED BY <2>3, <2>4, <2>5
<1>3. CASE CandidatesStep(p) /\ UNCHANGED <<rStatus, rCand, rPos, pState, pOrigin>>
  <2>1. \A c \in Candidate : CandidateMoves(p, c)
    BY <1>3 DEF CandidatesStep
  <2>2. RecordsNamePositions' /\ ClosedMeansGone'
    BY <1>3 DEF RecordsNamePositions, ClosedMeansGone
  <2>3. RecordsNameApproved'
    BY <1>3, <2>1 DEF RecordsNameApproved, CandidateMoves, Waiting
  <2>4. OneBuyWaits'
    <3> SUFFICES ASSUME NEW b \in BuyCand, NEW c \in BuyCand, cStatus'[b] \in Waiting,
                        cStatus'[c] \in Waiting, b # c
                 PROVE  FALSE
      BY DEF OneBuyWaits
    <3>1. cStatus[b] \in Waiting \/ (cStatus[b] = None /\ cStatus'[b] = "PENDING")
      BY <2>1 DEF CandidateMoves, Waiting, Candidate
    <3>2. cStatus[c] \in Waiting \/ (cStatus[c] = None /\ cStatus'[c] = "PENDING")
      BY <2>1 DEF CandidateMoves, Waiting, Candidate
    <3> QED BY <1>3, <3>1, <3>2 DEF CandidatesStep, OneBuyWaits
  <2>5. ExecutedHasPosition'
    <3> SUFFICES ASSUME NEW c \in BuyCand, cStatus'[c] = "EXECUTED"
                 PROVE  /\ cRecord'[c] \in Record /\ rCand[cRecord'[c]] = c
                        /\ rStatus[cRecord'[c]] \in ProvesOpened /\ rPos[cRecord'[c]] \in Position
      BY <1>3 DEF ExecutedHasPosition
    <3>1. CASE cStatus[c] = "EXECUTED"
      BY <2>1, <3>1 DEF CandidateMoves, Waiting, Candidate, ExecutedHasPosition
    <3>2. CASE cStatus[c] # "EXECUTED"
      BY <2>1, <3>2 DEF CandidateMoves, Candidate, HeldIn, RecordsNamePositions
    <3> QED BY <3>1, <3>2
  <2>6. ExecutedNeverPreOpen'
    <3> SUFFICES ASSUME NEW r \in Record, rStatus[r] \in PreOpenRecoverable, rCand[r] \in Candidate,
                        cStatus'[rCand[r]] = "EXECUTED"
                 PROVE  FALSE
      BY <1>3 DEF ExecutedNeverPreOpen
    <3>1. cStatus[rCand[r]] # "EXECUTED" /\ rCand[r] \in BuyCand
      BY DEF ExecutedNeverPreOpen, RecordsNameApproved
    <3>2. HeldIn(p, ProvesOpened \cap SlotActive)
      BY <2>1, <3>1 DEF CandidateMoves
    <3>3. rec[p] = r
      BY <3>2 DEF HeldIn, OneActiveRecord, PreOpenRecoverable, SlotActive
    <3> QED BY <3>2, <3>3 DEF HeldIn, ProvesOpened, PreOpenRecoverable
  <2>7. SpentCandidateNotApproved'
    BY <1>3, <2>1, <2>3 DEF SpentCandidateNotApproved, RecordsNameApproved, CandidateMoves, ProvesOpened
  <2> QED BY <2>2, <2>3, <2>4, <2>5, <2>6, <2>7
<1> QED BY <1>1, <1>2, <1>3 DEF RecordsStep, CandidatesApart, candVars

-----------------------------------------------------------------------------
(* What the process knows after each of its own steps *)

\* The beginning of a cycle and the recovery sweep.
LEMMA RecoveryKnows ==
  ASSUME TypeOK, Consistent, NEW p \in Process,
         BeginCycle(p) \/ EndCycle(p) \/ RecoverScan(p) \/ RecoverWrite(p)
  PROVE  Knows(p)'
<1> USE DEF Consistent, Knows, CloseSteps, ExitSteps, BuySteps, SellSteps, CandSteps, Loop, Goto
<1>1. CASE BeginCycle(p)
  <2>1. /\ pc[p] = "idle" /\ pc'[p] = "recover"
        /\ UNCHANGED <<rec, open, exited, tracked, pState>>
    BY <1>1 DEF BeginCycle, TypeOK, heldVars, brokerVars
  <2>2. AdapterKnows(p)'
    BY <2>1 DEF AdapterKnows, Watched
  <2> QED BY <2>1, <2>2 DEF StartKnows, RecoverKnows, ReconcileKnows, ExitKnows, LoopKnows, SlotKnows
<1>2. CASE EndCycle(p)
  <2>1. /\ pc[p] = "end" /\ pc'[p] = "idle" /\ rec'[p] = NoRecord /\ open'[p] = FALSE /\ exited'[p] = None
        /\ UNCHANGED <<tracked, pState>>
    BY <1>2 DEF EndCycle, TypeOK, brokerVars
  <2>2. AdapterKnows(p)'
    BY <2>1 DEF AdapterKnows, Watched
  <2> QED BY <2>1, <2>2 DEF StartKnows, RecoverKnows, ReconcileKnows, ExitKnows, LoopKnows, SlotKnows
<1>3. CASE RecoverScan(p)
  <2>1. /\ pc[p] = "recover" /\ UNCHANGED <<open, exited, rStatus, pState>>
    BY <1>3 DEF RecoverScan, recVars, brokerVars
  <2>2. CASE pc'[p] = "reconcile" /\ UNCHANGED <<rec, tracked>>
    <3>1. AdapterKnows(p)'
      BY <2>1, <2>2 DEF AdapterKnows, Watched
    <3> QED BY <2>1, <2>2, <3>1 DEF StartKnows, RecoverKnows, ReconcileKnows, ExitKnows, LoopKnows, SlotKnows
  <2>3. CASE /\ pc'[p] = "recoverWrite"
             /\ \E r \in DueForRecovery : \E v \in Verdicts(p, r) :
                  /\ plan'[p] = v[1] /\ rec'[p] = r /\ seen'[p] = rStatus[r] /\ pos'[p] = v[2]
                  /\ tracked'[p] = tracked[p] \cup ({v[2]} \ {NoPosition})
    <3>0. PICK r \in DueForRecovery : \E v \in Verdicts(p, r) :
                  /\ plan'[p] = v[1] /\ rec'[p] = r /\ seen'[p] = rStatus[r] /\ pos'[p] = v[2]
                  /\ tracked'[p] = tracked[p] \cup ({v[2]} \ {NoPosition})
      BY <2>3
    <3>1. PICK v \in Verdicts(p, r) :
                  /\ plan'[p] = v[1] /\ rec'[p] = r /\ seen'[p] = rStatus[r] /\ pos'[p] = v[2]
                  /\ tracked'[p] = tracked[p] \cup ({v[2]} \ {NoPosition})
      BY <3>0
    <3>2. r \in Record /\ rStatus[r] \in PreOpenRecoverable
      BY DEF DueForRecovery, TypeOK
    <3>3. \/ v = <<"abandon", NoPosition>> \/ v = <<"ambiguous", NoPosition>>
          \/ /\ v[1] = "correlate" /\ v[2] \in Position /\ Live = {v[2]}
             /\ rStatus[r] \notin {"DECISION_CREATED", "APPROVED"}
      BY DEF Verdicts, Live
    <3>4. RecoverKnows(p)'
      BY <2>1, <2>3, <3>1, <3>2, <3>3 DEF RecoverKnows, HeldIn, Opened, Live, PreOpenRecoverable
    <3>5. AdapterKnows(p)'
      <4>1. \A q \in tracked'[p] : q \in tracked[p] \/ Live = {q}
        BY <3>1, <3>3
      <4> QED BY <2>1, <2>3, <4>1 DEF AdapterKnows, Watched, Live, TypeOK
    <3> QED BY <2>1, <2>3, <3>4, <3>5 DEF StartKnows, ReconcileKnows, ExitKnows, LoopKnows, SlotKnows
  <2> QED BY <1>3, <2>2, <2>3 DEF RecoverScan, TypeOK
<1>4. CASE RecoverWrite(p)
  <2>1. /\ pc[p] = "recoverWrite" /\ pc'[p] \in {"reconcile", "end"} /\ rec'[p] = NoRecord
        /\ UNCHANGED <<open, exited, tracked, pState>>
    BY <1>4 DEF RecoverWrite, TypeOK, brokerVars
  <2>2. AdapterKnows(p)'
    BY <2>1 DEF AdapterKnows, Watched
  <2> QED BY <2>1, <2>2 DEF StartKnows, RecoverKnows, ReconcileKnows, ExitKnows, LoopKnows, SlotKnows
<1> QED BY <1>1, <1>2, <1>3, <1>4

\* A finite set of at most one element.
LEMMA AtMostOne ==
  ASSUME NEW S, IsFiniteSet(S), Cardinality(S) <= 1, NEW x \in S, NEW y \in S
  PROVE  x = y
<1> SUFFICES ASSUME x # y PROVE FALSE
  OBVIOUS
<1>1. Cardinality({x, y}) = 2
  <2>1. IsFiniteSet({y}) /\ Cardinality({y}) = 1
    BY FS_Singleton
  <2>2. Cardinality({y} \cup {x}) = Cardinality({y}) + 1
    BY <2>1, FS_AddElement
  <2>3. {y} \cup {x} = {x, y}
    OBVIOUS
  <2> QED BY <2>1, <2>2, <2>3
<1>2. Cardinality({x, y}) <= Cardinality(S)
  BY FS_Subset
<1>3. Cardinality(S) \in Nat
  BY FS_CardinalityType
<1> QED BY <1>1, <1>2, <1>3

\* Where a transition takes the process, and what it wrote on the way.
LEMMA TransitionEnds ==
  ASSUME TypeOK, NEW p \in Process, NEW r \in Record, NEW to, NEW q, NEW ok, NEW failed,
         Transition(p, r, to, q, ok, failed)
  PROVE  /\ rCand' = rCand
         /\ pc' = [pc EXCEPT ![p] = pc'[p]]
         /\ \/ pc'[p] = failed /\ UNCHANGED <<rStatus, rPos>>
            \/ /\ pc'[p] = ok \/ (pc'[p] = failed /\ May("audit"))
               /\ \A s \in Record : rStatus'[s] = IF s = r THEN to ELSE rStatus[s]
               /\ \A s \in Record : rPos'[s] = IF s = r THEN q ELSE rPos[s]
BY DEF Transition, Save, Goto, recVars, TypeOK

\* The reconciliation, up to the repair of the candidate.
LEMMA ReconciliationKnows ==
  ASSUME TypeOK, OneActiveRecord, Consistent, Tables', NEW p \in Process,
         \/ ReconcileUnsafe(p) \/ ReconcileNothingHeld(p) \/ ReconcileVanished(p)
         \/ ReconcileMatched(p) \/ ReconcileOrphan(p)
  PROVE  Knows(p)'
<1> USE DEF Consistent, Knows, CloseSteps, ExitSteps, BuySteps, SellSteps, CandSteps, Loop, Goto
<1>a. MayReconcile => \A x, y \in Live : x = y
  <2>1. IsFiniteSet(Live)
    BY AccountAssumption, FS_Subset DEF Live
  <2> QED BY <2>1, AtMostOne DEF MayReconcile
<1>1. CASE ReconcileUnsafe(p)
  <2>1. /\ pc[p] = "reconcile" /\ pc'[p] \in {"sweepUnsafe", "end"}
        /\ UNCHANGED <<tracked, pState>>
    BY <1>1 DEF ReconcileUnsafe, Audited, TypeOK, brokerVars
  <2>2. AdapterKnows(p)'
    BY <2>1 DEF AdapterKnows, Watched
  <2> QED BY <2>1, <2>2 DEF StartKnows, RecoverKnows, ReconcileKnows, ExitKnows, LoopKnows, SlotKnows
<1>2. CASE ReconcileNothingHeld(p)
  <2>1. /\ pc[p] = "reconcile" /\ pc'[p] = "sweep" /\ open'[p] = Unresolved
        /\ UNCHANGED <<rStatus, rCand, cStatus, rec, cand, exited, tracked, pState>>
        /\ Unresolved \/ (Live = {} /\ LocalActive = {})
    BY <1>2 DEF ReconcileNothingHeld, TypeOK, candVars, recVars, brokerVars
  <2>2. AdapterKnows(p)'
    BY <2>1, SentinelAssumption DEF AdapterKnows, Watched, StartKnows, Held, Live, TypeOK
  <2>3. \A r \in Record : rStatus[r] \in ProvesOpened => rStatus[r] \notin SlotActive
    BY <2>1 DEF Unresolved, LocalActive, OneActiveRecord, ProvesOpened, SlotActive, PositionActive
  <2>4. SlotKnows(p)'
    BY <2>1, <2>3 DEF SlotKnows, Tables, SpentCandidateNotApproved, ProvesOpened, OpenStatuses, SlotActive
  <2> QED BY <2>1, <2>2, <2>4, SentinelAssumption
          DEF StartKnows, RecoverKnows, ReconcileKnows, ExitKnows, LoopKnows, Held
<1>3. CASE ReconcileVanished(p)
  <2>1. PICK r \in LocalActive :
          /\ rStatus[r] \in ReconcilableToClosed /\ rec'[p] = r
          /\ pc[p] = "reconcile" /\ pc'[p] = "repairVanished" /\ Live = {}
          /\ UNCHANGED <<rStatus, rPos, open, exited, tracked, pState>>
    BY <1>3 DEF ReconcileVanished, LocalActive, TypeOK, recVars, brokerVars
  <2>2. r \in Record /\ rPos[r] \in Position /\ pState[rPos[r]] = "gone"
    BY <2>1 DEF LocalActive, Tables, RecordsNamePositions, ReconcilableToClosed, ProvesOpened, Live
  <2>3. AdapterKnows(p)'
    BY <2>1 DEF AdapterKnows, Watched, Live, TypeOK
  <2> QED BY <2>1, <2>2, <2>3
          DEF StartKnows, RecoverKnows, ReconcileKnows, ExitKnows, LoopKnows, SlotKnows, HeldIn, HeldGone
<1>4. CASE ReconcileMatched(p)
  <2>1. PICK r \in Record :
          /\ rPos[r] \in Live /\ rStatus[r] \in OpenStatuses \cup {"CLOSE_FAILED"}
          /\ tracked'[p] = tracked[p] \cup {rPos[r]}
          /\ rec'[p] = r /\ seen'[p] = rStatus[r] /\ open'[p] = TRUE
          /\ pc[p] = "reconcile" /\ MayReconcile
          /\ pc'[p] \in {IF rStatus[r] = "CLOSE_FAILED" THEN "reopen" ELSE "repair", "end"}
          /\ UNCHANGED <<rStatus, rPos, exited, pState>>
    BY <1>4 DEF ReconcileMatched, Matching, Audited, Live, TypeOK, recVars, brokerVars
  <2>2. AdapterKnows(p)'
    <3>1. \A q \in tracked'[p] : pState[q] \in {"live", "gone"}
      BY <2>1 DEF AdapterKnows, Live
    <3>2. Watched(p)' \subseteq Live
      BY <2>1 DEF Watched, Live, TypeOK
    <3>3. Watched(p)' \subseteq {rPos[r]}
      BY <2>1, <3>2, <1>a
    <3> QED BY <2>1, <3>1, <3>3 DEF AdapterKnows
  <2> QED BY <2>1, <2>2
          DEF StartKnows, RecoverKnows, ReconcileKnows, ExitKnows, LoopKnows, SlotKnows, HeldIn, HeldGone
<1>5. CASE ReconcileOrphan(p)
  <2>1. PICK q \in Live :
          /\ tracked'[p] = tracked[p] \cup {q} /\ pos'[p] = q
          /\ pc[p] = "reconcile" /\ pc'[p] = "adopt" /\ MayReconcile
          /\ UNCHANGED <<rec, open, exited, pState>>
    BY <1>5 DEF ReconcileOrphan, Live, TypeOK, brokerVars
  <2>2. AdapterKnows(p)'
    <3>1. \A s \in tracked'[p] : pState[s] \in {"live", "gone"}
      BY <2>1 DEF AdapterKnows, Live
    <3>2. Watched(p)' \subseteq Live
      BY <2>1 DEF Watched, Live, TypeOK
    <3>3. Watched(p)' \subseteq {q}
      BY <2>1, <3>2, <1>a
    <3> QED BY <2>1, <3>1, <3>3 DEF AdapterKnows
  <2> QED BY <2>1, <2>2
          DEF StartKnows, RecoverKnows, ReconcileKnows, ExitKnows, LoopKnows, SlotKnows, Opened, Live
<1> QED BY <1>1, <1>2, <1>3, <1>4, <1>5

\* The adoption of an orphan, and the reopening of a record whose close failed.
LEMMA AdoptionKnows ==
  ASSUME TypeOK, Consistent, NEW p \in Process, Adopt(p) \/ AdoptRefused(p) \/ Reopen(p)
  PROVE  Knows(p)'
<1> USE DEF Consistent, Knows, CloseSteps, ExitSteps, BuySteps, SellSteps, CandSteps, Loop, Goto
<1>1. CASE Adopt(p)
  <2>1. PICK r \in Record :
          /\ rStatus'[r] = "OPEN" /\ rPos'[r] = pos[p] /\ rec'[p] = r
          /\ seen'[p] = "OPEN" /\ open'[p] = TRUE
          /\ pc[p] = "adopt" /\ pc'[p] \in {"repair", "end"}
          /\ UNCHANGED <<exited, tracked, pState>>
    BY <1>1 DEF Adopt, Insert, Audited, TypeOK, brokerVars
  <2>2. AdapterKnows(p)'
    BY <2>1 DEF AdapterKnows, Watched
  <2> QED BY <2>1, <2>2
          DEF StartKnows, RecoverKnows, ReconcileKnows, ExitKnows, LoopKnows, SlotKnows, HeldIn, OpenStatuses
<1>2. CASE AdoptRefused(p)
  <2>1. /\ pc[p] = "adopt" /\ pc'[p] \in {"sweepUnsafe", "end"}
        /\ UNCHANGED <<tracked, pState>>
    BY <1>2 DEF AdoptRefused, Audited, TypeOK, brokerVars
  <2>2. AdapterKnows(p)'
    BY <2>1 DEF AdapterKnows, Watched
  <2> QED BY <2>1, <2>2 DEF StartKnows, RecoverKnows, ReconcileKnows, ExitKnows, LoopKnows, SlotKnows
<1>3. CASE Reopen(p)
  <2>1. /\ pc[p] = "reopen" /\ HeldIn(p, {"CLOSE_FAILED"}) /\ open[p]
        /\ Transition(p, rec[p], "OPEN", rPos[rec[p]], "repair", "end")
        /\ seen'[p] = "OPEN" /\ UNCHANGED <<rec, open, exited, tracked, pState>>
    BY <1>3 DEF Reopen, ReconcileKnows, TypeOK, brokerVars
  <2>2. /\ rPos'[rec[p]] = rPos[rec[p]] /\ pc'[p] \in {"repair", "end"}
        /\ pc'[p] = "repair" => rStatus'[rec[p]] = "OPEN"
    BY <2>1, TransitionEnds DEF HeldIn
  <2>3. AdapterKnows(p)'
    BY <2>1, <2>2 DEF AdapterKnows, Watched, Held, HeldIn
  <2> QED BY <2>1, <2>2, <2>3
          DEF StartKnows, RecoverKnows, ReconcileKnows, ExitKnows, LoopKnows, SlotKnows, HeldIn, OpenStatuses
<1> QED BY <1>1, <1>2, <1>3

\* The repair of the candidate, and the record whose position has vanished.
LEMMA RepairKnows ==
  ASSUME TypeOK, OneActiveRecord, Consistent, Tables', NEW p \in Process,
         RepairCandidate(p) \/ CloseUnreconciled(p)
  PROVE  Knows(p)'
<1> USE DEF Consistent, Knows, CloseSteps, ExitSteps, BuySteps, SellSteps, CandSteps, Loop, Goto
<1>1. CASE RepairCandidate(p)
  <2>1. /\ pc[p] \in {"repair", "repairVanished"}
        /\ pc'[p] \in {IF pc[p] = "repair" THEN "sweep" ELSE "closeUnreconciled", "end"}
        /\ UNCHANGED <<rStatus, rCand, rPos, rec, cand, seen, open, exited, tracked, pState>>
        /\ pc'[p] # "end" /\ rCand[rec[p]] \in Candidate => cStatus'[rCand[rec[p]]] # "APPROVED"
    BY <1>1 DEF RepairCandidate, CompareAndSet, TypeOK, candVars, recVars, brokerVars, heldVars
  <2>2. AdapterKnows(p)'
    BY <2>1 DEF AdapterKnows, Watched, ReconcileKnows, Held
  <2>3. HeldIn(p, ReconcilableToClosed)
    BY <2>1 DEF ReconcileKnows, HeldIn, OpenStatuses, ReconcilableToClosed
  <2>4. \A r \in Record : rStatus[r] \in SlotActive => r = rec[p]
    BY <2>3 DEF HeldIn, ReconcilableToClosed, OneActiveRecord, SlotActive
  <2>5. SlotKnows(p)'
    BY <2>1, <2>4 DEF SlotKnows, Tables, SpentCandidateNotApproved, ProvesOpened, OpenStatuses, SlotActive
  <2> QED BY <2>1, <2>2, <2>3, <2>5
          DEF StartKnows, RecoverKnows, ReconcileKnows, ExitKnows, LoopKnows, HeldIn, HeldGone, Held
<1>2. CASE CloseUnreconciled(p)
  <2>1. /\ pc[p] = "closeUnreconciled" /\ HeldIn(p, ReconcilableToClosed) /\ ~open[p]
        /\ Transition(p, rec[p], "CLOSED_UNRECONCILED", rPos[rec[p]], "sweep", "end")
        /\ rec'[p] = NoRecord /\ UNCHANGED <<cStatus, cand, open, exited, tracked, pState>>
    BY <1>2 DEF CloseUnreconciled, ReconcileKnows, StartKnows, TypeOK, candVars, brokerVars
  <2>2. /\ pc'[p] \in {"sweep", "end"} /\ rCand' = rCand
        /\ pc'[p] = "sweep" =>
             \A s \in Record : rStatus'[s] = IF s = rec[p] THEN "CLOSED_UNRECONCILED" ELSE rStatus[s]
    BY <2>1, TransitionEnds DEF HeldIn
  <2>3. AdapterKnows(p)'
    BY <2>1, <2>2, SentinelAssumption DEF AdapterKnows, Watched, Held
  <2>4. \A r \in Record : rStatus[r] \in SlotActive => r = rec[p]
    BY <2>1 DEF HeldIn, ReconcilableToClosed, OneActiveRecord, SlotActive
  <2>5. SlotKnows(p)'
    BY <2>1, <2>2, <2>4 DEF SlotKnows, Tables, SpentCandidateNotApproved, ProvesOpened, OpenStatuses, SlotActive
  <2> QED BY <2>1, <2>2, <2>3, <2>5, SentinelAssumption
          DEF StartKnows, RecoverKnows, ReconcileKnows, ExitKnows, LoopKnows, Held
<1> QED BY <1>1, <1>2

\* The expiry sweep and the decisions whether to exit.
LEMMA ExitDecisionKnows ==
  ASSUME TypeOK, Consistent, NEW p \in Process, Sweep(p) \/ ExitCheck(p) \/ Decide(p)
  PROVE  Knows(p)'
<1> USE DEF Consistent, Knows, CloseSteps, ExitSteps, BuySteps, SellSteps, CandSteps, Loop, Goto
<1>1. CASE Sweep(p)
  <2>1. /\ pc[p] \in {"sweep", "sweepUnsafe"}
        /\ pc'[p] \in {IF pc[p] = "sweep" THEN "exit" ELSE "end", "end"}
        /\ UNCHANGED <<rStatus, rCand, rPos, rec, cand, seen, open, exited, tracked, pState>>
        /\ \A c \in Candidate : cStatus'[c] = "APPROVED" => cStatus[c] = "APPROVED"
    BY <1>1 DEF Sweep, TypeOK, recVars, brokerVars, heldVars
  <2>2. AdapterKnows(p)'
    BY <2>1 DEF AdapterKnows, Watched, Held
  <2>3. SlotKnows(p)'
    BY <2>1 DEF SlotKnows
  <2> QED BY <2>1, <2>2, <2>3
          DEF StartKnows, RecoverKnows, ReconcileKnows, ExitKnows, LoopKnows, HeldIn, Held
<1>2. CASE ExitCheck(p) \/ Decide(p)
  <2>1. /\ pc[p] \in {"exit", "decide"} /\ pc'[p] \in {"closeRequest", "decide", "list", "end"}
        /\ UNCHANGED <<rStatus, rCand, rPos, rec, cand, seen, open, exited, tracked, pState, cStatus>>
        /\ pc'[p] = "closeRequest" =>
             /\ Held(p) /\ open[p]
             /\ pc[p] = "exit" \/ exited[p] = None \/ May("registry")
    BY <1>2 DEF ExitCheck, Decide, HoldsPosition, Held, TypeOK, candVars, recVars, brokerVars
  <2>2. AdapterKnows(p)'
    BY <2>1 DEF AdapterKnows, Watched, Held
  <2>3. SlotKnows(p)'
    BY <2>1 DEF SlotKnows
  <2>4. ExitKnows(p)'
    BY <2>1 DEF ExitKnows, StartKnows, HeldIn, Held
  <2> QED BY <2>1, <2>2, <2>3, <2>4 DEF StartKnows, RecoverKnows, ReconcileKnows, LoopKnows
<1> QED BY <1>1, <1>2

\* The automatic close.
LEMMA ExitKnowsOn ==
  ASSUME TypeOK, OneActiveRecord, Consistent, Tables', NEW p \in Process,
         CloseRequest(p) \/ Close(p) \/ RecordClosed(p) \/ RecordCloseFailed(p)
  PROVE  Knows(p)'
<1> USE DEF Consistent, Knows, CloseSteps, ExitSteps, BuySteps, SellSteps, CandSteps, Loop
<1>e. exited[p] \in {None, "failed", "closed"}
  BY DEF TypeOK
<1>1. CASE CloseRequest(p)
  <2>1. /\ pc[p] = "closeRequest" /\ ExitKnows(p)
        /\ UNCHANGED <<rec, cand, seen, open, exited, tracked, pState, cStatus>>
    BY <1>1 DEF CloseRequest, heldVars, candVars, brokerVars
  <2>2. rec[p] \in Record
    BY <2>1 DEF ExitKnows, Held
  <2>3. /\ rCand' = rCand /\ rPos'[rec[p]] = rPos[rec[p]] /\ pc'[p] \in {"close", "end"}
        /\ \A s \in Record \ {rec[p]} : rStatus'[s] = rStatus[s]
        /\ pc'[p] = "close" => \/ rStatus'[rec[p]] = "CLOSE_REQUESTED"
                               \/ seen[p] # "OPEN" /\ rStatus'[rec[p]] = rStatus[rec[p]]
    <3>1. CASE seen[p] = "OPEN" /\ Transition(p, rec[p], "CLOSE_REQUESTED", rPos[rec[p]], "close", "end")
      BY <2>2, <3>1, TransitionEnds
    <3>2. CASE UNCHANGED recVars
      BY <1>1, <2>2, <3>2, TransitionEnds DEF CloseRequest, recVars, Goto, TypeOK
    <3> QED BY <1>1, <3>1, <3>2 DEF CloseRequest
  <2>4. pc'[p] = "close" =>
          /\ rStatus'[rec[p]] \in {"CLOSE_REQUESTED", "CLOSE_FAILED"}
          /\ exited[p] = None => rStatus'[rec[p]] = "CLOSE_REQUESTED"
    BY <1>e, <2>1, <2>2, <2>3 DEF ExitKnows, Held, HeldIn, OpenStatuses
  <2>5. AdapterKnows(p)'
    BY <2>1, <2>2, <2>3 DEF AdapterKnows, Watched, Held, ExitKnows
  <2>6. SlotKnows(p)'
    <3>1. rStatus[rec[p]] \in ProvesOpened
      BY <2>1, <2>2 DEF ExitKnows, HeldIn, Held, ProvesOpened, ReconcilableToClosed
    <3> QED BY <2>1, <2>2, <2>3, <3>1 DEF SlotKnows
  <2>7. ExitKnows(p)'
    BY <2>1, <2>2, <2>3, <2>4 DEF ExitKnows, HeldIn, Held
  <2> QED BY <2>1, <2>3, <2>5, <2>6, <2>7 DEF StartKnows, RecoverKnows, ReconcileKnows, LoopKnows
<1>2. CASE Close(p)
  <2> DEFINE q == rPos[rec[p]]
  <2>1. /\ pc[p] = "close" /\ ExitKnows(p) /\ pc'[p] \in {"closed", "closeFailed"}
        /\ UNCHANGED <<rStatus, rCand, rPos, rec, cand, seen, open, exited, cStatus>>
        /\ pc'[p] = "closed" => pState'[q] = "gone"
        /\ tracked'[p] \subseteq tracked[p]
        /\ \A s \in Position : pState'[s] = pState[s] \/ pState'[s] = "gone"
    BY <1>2 DEF Close, ClosePosition, Goto, TypeOK, heldVars, candVars, recVars, brokerVars
  <2>2. q \in Position
    BY <2>1 DEF ExitKnows, HeldIn, Tables, RecordsNamePositions, ProvesOpened
  <2>3. Watched(p)' \subseteq Watched(p)
    BY <2>1 DEF Watched, TypeOK
  <2>4. AdapterKnows(p)'
    BY <2>1, <2>3 DEF AdapterKnows, Held, ExitKnows, TypeOK
  <2>5. SlotKnows(p)'
    BY <2>1 DEF SlotKnows
  <2>6. ExitKnows(p)'
    BY <2>1, <2>2 DEF ExitKnows, HeldIn, Held, HeldGone
  <2> QED BY <2>1, <2>4, <2>5, <2>6 DEF StartKnows, RecoverKnows, ReconcileKnows, LoopKnows
<1>3. CASE RecordClosed(p)
  <2>1. /\ pc[p] = "closed" /\ ExitKnows(p) /\ UNCHANGED <<cand, tracked, pState, cStatus>>
    BY <1>3 DEF RecordClosed, candVars, brokerVars
  <2>2. HeldIn(p, {"CLOSE_REQUESTED", "CLOSE_FAILED"}) /\ HeldGone(p) /\ open[p]
    BY <2>1 DEF ExitKnows
  <2>3. /\ rCand' = rCand
        /\ \A s \in Record \ {rec[p]} : rStatus'[s] = rStatus[s]
        /\ rPos'[rec[p]] = rPos[rec[p]]
        /\ rStatus'[rec[p]] \in {"CLOSED", rStatus[rec[p]]}
        /\ \/ /\ pc'[p] \in {"decide", "list"} /\ rStatus'[rec[p]] = "CLOSED"
              /\ rec'[p] = NoRecord /\ open'[p] = FALSE /\ exited'[p] = "closed"
           \/ /\ pc'[p] = "closeFailed" /\ UNCHANGED <<rec, open, exited>>
              /\ rStatus'[rec[p]] = "CLOSED" => May("audit") \/ rStatus[rec[p]] = "CLOSED"
           \/ pc'[p] = "end"
    <3>1. CASE /\ May("audit") /\ Goto(p, "end")
               /\ Save(rec[p], "CLOSED", rPos[rec[p]]) \/ UNCHANGED recVars
      BY <2>2, <3>1 DEF Goto, Save, recVars, HeldIn, TypeOK
    <3>2. CASE /\ Transition(p, rec[p], "CLOSED", rPos[rec[p]], AfterExit(p), "closeFailed")
               /\ \/ /\ pc'[p] = AfterExit(p)
                     /\ exited' = [exited EXCEPT ![p] = "closed"]
                     /\ open' = [open EXCEPT ![p] = FALSE]
                     /\ rec' = [rec EXCEPT ![p] = NoRecord]
                  \/ pc'[p] = "closeFailed" /\ UNCHANGED <<exited, open, rec>>
      BY <2>2, <3>2, TransitionEnds DEF AfterExit, HeldIn, TypeOK
    <3> QED BY <1>3, <3>1, <3>2 DEF RecordClosed
  <2>4. \A r \in Record : rStatus[r] \in SlotActive => r = rec[p]
    BY <2>2 DEF HeldIn, OneActiveRecord, SlotActive
  <2>5. AdapterKnows(p)'
    <3>1. Watched(p)' = {}
      BY <2>1, <2>2 DEF AdapterKnows, Watched, HeldIn, HeldGone, Held
    <3> QED BY <2>1, <2>3, <3>1 DEF AdapterKnows
  <2>6. SlotKnows(p)'
    <3>1. \A r \in Record : rStatus'[r] \in OpenStatuses => rStatus[r] \in OpenStatuses
      BY <2>3 DEF OpenStatuses
    <3>2. CASE pc'[p] \in {"decide", "list"}
      <4>1. \A r \in Record : rStatus'[r] \notin SlotActive
        BY <2>3, <2>4, <3>2 DEF SlotActive
      <4> QED BY <2>3, <3>2, <4>1 DEF SlotKnows, Tables, SpentCandidateNotApproved, OpenStatuses, SlotActive
    <3>3. CASE pc'[p] = "closeFailed"
      <4>1. rStatus[rec[p]] \in ProvesOpened
        BY <2>2 DEF HeldIn, ProvesOpened
      <4> QED BY <2>1, <2>2, <2>3, <3>1, <3>3, <4>1 DEF SlotKnows, HeldIn
    <3> QED BY <2>3, <3>2, <3>3 DEF SlotKnows
  <2>7. ExitKnows(p)'
    BY <2>1, <2>2, <2>3, SentinelAssumption DEF ExitKnows, HeldIn, Held
  <2> QED BY <2>3, <2>5, <2>6, <2>7 DEF StartKnows, RecoverKnows, ReconcileKnows, LoopKnows
<1>4. CASE RecordCloseFailed(p)
  <2>1. /\ pc[p] = "closeFailed" /\ ExitKnows(p)
        /\ Transition(p, rec[p], "CLOSE_FAILED", rPos[rec[p]], AfterExit(p), "end")
        /\ exited'[p] = "failed" /\ UNCHANGED <<rec, cand, seen, open, tracked, pState, cStatus>>
    BY <1>4 DEF RecordCloseFailed, candVars, brokerVars, TypeOK
  <2>2. HeldIn(p, {"CLOSE_REQUESTED", "CLOSE_FAILED", "CLOSED"}) /\ open[p]
    BY <2>1 DEF ExitKnows
  <2>3. /\ pc'[p] \in {"decide", "list", "end"} /\ rCand' = rCand /\ rPos'[rec[p]] = rPos[rec[p]]
        /\ \A s \in Record \ {rec[p]} : rStatus'[s] = rStatus[s]
        /\ pc'[p] # "end" => rStatus'[rec[p]] = "CLOSE_FAILED"
    BY <2>1, <2>2, TransitionEnds DEF HeldIn, AfterExit
  <2>4. AdapterKnows(p)'
    BY <2>1, <2>2, <2>3 DEF AdapterKnows, Watched, Held
  <2>5. SlotKnows(p)'
    BY <2>1, <2>2, <2>3 DEF SlotKnows, HeldIn, OpenStatuses, ProvesOpened
  <2>6. ExitKnows(p)'
    BY <2>1, <2>2, <2>3 DEF ExitKnows, HeldIn, Held, ReconcilableToClosed
  <2> QED BY <2>3, <2>4, <2>5, <2>6 DEF StartKnows, RecoverKnows, ReconcileKnows, LoopKnows
<1> QED BY <1>1, <1>2, <1>3, <1>4

\* While a BUY is executed nothing else of its kind is left to visit.
LEMMA NoOtherBuy ==
  ASSUME TypeOK, Tables, NEW p \in Process, LoopKnows(p), pc[p] \in CandSteps, cand[p] \in BuyCand
  PROVE  todo[p] \cap BuyCand = {}
BY DEF Tables, OneBuyWaits, LoopKnows, Loop, Waiting, TypeOK

\* The list of approved candidates and the choice of the next one.
LEMMA ApprovedKnows ==
  ASSUME TypeOK, Consistent, NEW p \in Process, ListApproved(p) \/ NextApproved(p)
  PROVE  Knows(p)'
<1> USE DEF Consistent, Knows, CloseSteps, ExitSteps, BuySteps, SellSteps, CandSteps, Loop, Goto
<1>1. CASE ListApproved(p)
  <2>1. /\ pc[p] = "list" /\ pc'[p] = "approved" /\ rec'[p] = NoRecord
        /\ todo'[p] = { c \in Candidate : cStatus[c] = "APPROVED" }
        /\ UNCHANGED <<rStatus, rCand, rPos, open, cand, tracked, pState, cStatus>>
    BY <1>1 DEF ListApproved, TypeOK, candVars, recVars, brokerVars
  <2>2. AdapterKnows(p)'
    BY <2>1 DEF AdapterKnows, Watched, SlotKnows, Held
  <2>3. SlotKnows(p)'
    BY <2>1 DEF SlotKnows
  <2> QED BY <2>1, <2>2, <2>3 DEF StartKnows, RecoverKnows, ReconcileKnows, ExitKnows, LoopKnows
<1>2. CASE NextApproved(p)
  <2>0. /\ pc[p] = "approved"
        /\ UNCHANGED <<rStatus, rCand, rPos, rec, open, tracked, pState, cStatus>>
    BY <1>2 DEF NextApproved, candVars, recVars, brokerVars
  <2>1. /\ pc'[p] \in {"fresh", "approved", "create", "sellStart"}
        /\ todo'[p] \subseteq todo[p]
        /\ pc'[p] \in {"create", "sellStart"} =>
             cand'[p] \in todo[p] /\ cand'[p] \notin todo'[p]
        /\ pc'[p] = "create" => cand'[p] \in BuyCand /\ ~open[p]
        /\ pc'[p] = "sellStart" => cand'[p] \in SellCand
    <3>1. CASE Goto(p, "fresh") /\ UNCHANGED <<cand, todo>>
      BY <3>1 DEF TypeOK
    <3>2. CASE \E c \in todo[p] :
                 /\ todo' = [todo EXCEPT ![p] = @ \ {c}]
                 /\ \/ UNCHANGED <<cand, pc>>
                    \/ /\ c \in SellCand \/ ~(kill[p] \/ open[p])
                       /\ cand' = [cand EXCEPT ![p] = c]
                       /\ Goto(p, IF c \in BuyCand THEN "create" ELSE "sellStart")
      <4>1. PICK c \in todo[p] :
                 /\ todo' = [todo EXCEPT ![p] = @ \ {c}]
                 /\ \/ UNCHANGED <<cand, pc>>
                    \/ /\ c \in SellCand \/ ~(kill[p] \/ open[p])
                       /\ cand' = [cand EXCEPT ![p] = c]
                       /\ Goto(p, IF c \in BuyCand THEN "create" ELSE "sellStart")
        BY <3>2
      <4>2. c \in Candidate /\ todo'[p] = todo[p] \ {c}
        BY <4>1 DEF TypeOK
      <4>3. CASE UNCHANGED <<cand, pc>>
        BY <2>0, <4>2, <4>3
      <4>4. CASE /\ c \in SellCand \/ ~open[p]
                 /\ cand'[p] = c /\ pc'[p] = IF c \in BuyCand THEN "create" ELSE "sellStart"
        BY <4>2, <4>4, SidesAssumption DEF Candidate
      <4> QED BY <4>1, <4>3, <4>4 DEF TypeOK
    <3> QED BY <1>2, <3>1, <3>2 DEF NextApproved
  <2>2. AdapterKnows(p)'
    BY <2>0, <2>1 DEF AdapterKnows, Watched
  <2>3. SlotKnows(p)'
    BY <2>0, <2>1 DEF SlotKnows
  <2>4. LoopKnows(p)'
    BY <2>0, <2>1 DEF LoopKnows, TypeOK
  <2> QED BY <2>0, <2>1, <2>2, <2>3, <2>4 DEF StartKnows, RecoverKnows, ReconcileKnows, ExitKnows
<1> QED BY <1>1, <1>2

\* A BUY up to the order: the adapter watches nothing.
LEMMA EntryKnows ==
  ASSUME TypeOK, Consistent, NEW p \in Process,
         CreateRecord(p) \/ EvaluateRisk(p) \/ Submit(p)
  PROVE  Knows(p)'
<1> USE DEF Consistent, Knows, CloseSteps, ExitSteps, BuySteps, SellSteps, CandSteps, Loop
<1>1. /\ pc[p] \in {"create", "risk", "submit"}
      /\ cand[p] \in BuyCand /\ cand[p] \in Candidate /\ cStatus[cand[p]] = "APPROVED"
      /\ UNCHANGED <<cand, todo, open, tracked, pState, cStatus>>
  BY DEF CreateRecord, EvaluateRisk, Submit, LoopKnows, candVars, brokerVars, heldVars
<1>2. /\ \A s \in Record : rStatus'[s] \in ProvesOpened =>
             rStatus'[s] = rStatus[s] /\ rCand'[s] = rCand[s]
      /\ pc'[p] \in {"risk", "submit", "order", "candFailed"}
      /\ pc'[p] \in {"risk", "submit", "order"} =>
           /\ rec'[p] \in Record /\ rCand'[rec'[p]] = cand[p]
           /\ rStatus'[rec'[p]] = IF pc'[p] = "risk" THEN "DECISION_CREATED"
                                  ELSE IF pc'[p] = "submit" THEN "APPROVED" ELSE "EXECUTION_SUBMITTED"
  <2>1. CASE CreateRecord(p)
    <3>1. CASE UNCHANGED recVars /\ Goto(p, "candFailed")
      BY <3>1 DEF recVars, Goto, TypeOK
    <3>2. CASE \E r \in Record : /\ Insert(r, "DECISION_CREATED", cand[p], NoPosition)
                                 /\ rec' = [rec EXCEPT ![p] = r]
                                 /\ Goto(p, "risk") \/ Goto(p, "candFailed")
      BY <3>2 DEF Insert, Goto, TypeOK, ProvesOpened
    <3> QED BY <2>1, <3>1, <3>2 DEF CreateRecord
  <2>2. CASE EvaluateRisk(p)
    <3>1. HeldFor(p, "DECISION_CREATED") /\ UNCHANGED rec
      BY <2>2 DEF EvaluateRisk, LoopKnows, heldVars
    <3>2. CASE Transition(p, rec[p], "RISK_REJECTED", NoPosition, "candFailed", "candFailed")
      BY <3>1, <3>2, TransitionEnds DEF HeldFor, HeldIn, ProvesOpened
    <3>3. CASE Transition(p, rec[p], "APPROVED", NoPosition, "submit", "candFailed")
      BY <3>1, <3>3, TransitionEnds DEF HeldFor, HeldIn, ProvesOpened
    <3> QED BY <2>2, <3>2, <3>3 DEF EvaluateRisk
  <2>3. CASE Submit(p)
    <3>1. HeldFor(p, "APPROVED") /\ UNCHANGED rec
      BY <2>3 DEF Submit, LoopKnows, heldVars
    <3>2. Transition(p, rec[p], "EXECUTION_SUBMITTED", NoPosition, "order", "candFailed")
      BY <2>3 DEF Submit
    <3> QED BY <3>1, <3>2, TransitionEnds DEF HeldFor, HeldIn, ProvesOpened
  <2> QED BY <2>1, <2>2, <2>3
<1>3. Watched(p) = {}
  BY <1>1 DEF AdapterKnows
<1>4. AdapterKnows(p)'
  <2>1. Watched(p)' = {}
    BY <1>1, <1>3 DEF Watched
  <2> QED BY <1>1, <1>2, <2>1 DEF AdapterKnows
<1>5. SlotKnows(p)'
  BY <1>1, <1>2 DEF SlotKnows
<1>6. LoopKnows(p)'
  BY <1>1, <1>2 DEF LoopKnows, HeldFor, HeldIn
<1> QED BY <1>2, <1>4, <1>5, <1>6 DEF StartKnows, RecoverKnows, ReconcileKnows, ExitKnows

\* A BUY from the order on: the adapter watches only the position it has found.
LEMMA OrderKnows ==
  ASSUME TypeOK, OneActiveRecord, Consistent, NEW p \in Process, PlaceOrder(p) \/ AwaitPosition(p)
  PROVE  Knows(p)'
<1> USE DEF Consistent, Knows, CloseSteps, ExitSteps, BuySteps, SellSteps, CandSteps, Loop
<1>1. CASE PlaceOrder(p)
  <2>1. /\ pc[p] = "order"
        /\ UNCHANGED <<rStatus, rCand, rPos, rec, cand, todo, open, tracked, cStatus>>
    BY <1>1 DEF PlaceOrder, candVars, recVars
  <2>2. /\ pc'[p] \in {"await", "execFailed"}
        /\ pc'[p] = "await" => pos'[p] \in Position /\ pState'[pos'[p]] = "pending"
        /\ \A q \in Position : pState[q] \in {"live", "gone"} => pState'[q] = pState[q]
    <3>1. CASE UNCHANGED brokerVars /\ Goto(p, "execFailed")
      BY <3>1 DEF brokerVars, Goto, TypeOK
    <3>2. CASE \E q \in Position : /\ pState[q] = "unborn"
                                   /\ pState' = [pState EXCEPT ![q] = "pending"]
                                   /\ pos' = [pos EXCEPT ![p] = q]
                                   /\ Goto(p, "await") \/ Goto(p, "execFailed")
      BY <3>2 DEF Goto, TypeOK
    <3> QED BY <1>1, <3>1, <3>2 DEF PlaceOrder
  <2>3. AdapterKnows(p)'
    <3>1. /\ \A q \in tracked'[p] : pState'[q] \in {"live", "gone"}
          /\ Watched(p)' = {}
      BY <2>1, <2>2, SMTT(30) DEF AdapterKnows, Watched, TypeOK
    <3> QED BY <2>1, <2>2, <3>1 DEF AdapterKnows
  <2>4. SlotKnows(p)'
    BY <2>1, <2>2 DEF SlotKnows
  <2>5. LoopKnows(p)'
    BY <2>1, <2>2 DEF LoopKnows, HeldFor, HeldIn
  <2> QED BY <2>2, <2>3, <2>4, <2>5 DEF StartKnows, RecoverKnows, ReconcileKnows, ExitKnows
<1>2. CASE AwaitPosition(p)
  <2>1. /\ pc[p] = "await" /\ pos[p] \in Position /\ HeldFor(p, "EXECUTION_SUBMITTED")
        /\ cand[p] \in BuyCand
        /\ UNCHANGED <<rStatus, rCand, rPos, rec, cand, pos, todo, open, pState, cStatus>>
    BY <1>2 DEF AwaitPosition, LoopKnows, candVars, recVars, brokerVars, heldVars
  <2>2. /\ pc'[p] \in {"opened", "execFailed"}
        /\ pc'[p] = "opened" => pState[pos[p]] = "live"
        /\ tracked'[p] = tracked[p] \/ (tracked'[p] = tracked[p] \cup {pos[p]} /\ pState[pos[p]] = "live")
    BY <1>2 DEF AwaitPosition, Goto, TypeOK
  <2>3. AdapterKnows(p)'
    <3>1. \A q \in tracked'[p] : pState[q] \in {"live", "gone"}
      BY <2>2 DEF AdapterKnows
    <3>2. Watched(p)' \subseteq {pos[p]}
      BY <2>1, <2>2 DEF AdapterKnows, Watched
    <3>3. todo[p] \cap BuyCand = {}
      BY <2>1, NoOtherBuy
    <3>4. \A r \in Record : rStatus[r] \notin OpenStatuses
      BY <2>1 DEF HeldFor, HeldIn, OneActiveRecord, OpenStatuses, SlotActive
    <3> QED BY <2>1, <2>2, <3>1, <3>2, <3>3, <3>4 DEF AdapterKnows
  <2>4. SlotKnows(p)'
    BY <2>1, <2>2 DEF SlotKnows
  <2>5. LoopKnows(p)'
    BY <2>1, <2>2 DEF LoopKnows, HeldFor, HeldIn, Opened
  <2> QED BY <2>2, <2>3, <2>4, <2>5 DEF StartKnows, RecoverKnows, ReconcileKnows, ExitKnows
<1> QED BY <1>1, <1>2

\* The record of an execution is opened, or marked failed.
LEMMA OutcomeKnows ==
  ASSUME TypeOK, OneActiveRecord, Consistent, NEW p \in Process,
         RecordOpened(p) \/ RecordExecutionFailed(p)
  PROVE  Knows(p)'
<1> USE DEF Consistent, Knows, CloseSteps, ExitSteps, BuySteps, SellSteps, CandSteps, Loop
<1>1. /\ pc[p] \in {"opened", "execFailed"} /\ HeldFor(p, "EXECUTION_SUBMITTED")
      /\ cand[p] \in BuyCand /\ cand[p] \in Candidate
      /\ UNCHANGED <<rec, cand, todo, open, tracked, pState, cStatus>>
  BY DEF RecordOpened, RecordExecutionFailed, LoopKnows, candVars, brokerVars, heldVars
<1>2. /\ rCand' = rCand
      /\ \A s \in Record \ {rec[p]} : rStatus'[s] = rStatus[s] /\ rPos'[s] = rPos[s]
      /\ pc'[p] \in {"candExecuted", "candFailed"}
      /\ rStatus'[rec[p]] \in {"EXECUTION_SUBMITTED", "EXECUTION_FAILED", "OPEN"}
      /\ rStatus'[rec[p]] = "OPEN" => pc[p] = "opened" /\ rPos'[rec[p]] = pos[p]
      /\ pc'[p] = "candExecuted" => rStatus'[rec[p]] = "OPEN"
  <2>1. rec[p] \in Record /\ rStatus[rec[p]] = "EXECUTION_SUBMITTED"
    BY <1>1 DEF HeldFor, HeldIn
  <2>2. CASE RecordOpened(p)
    BY <2>1, <2>2, TransitionEnds DEF RecordOpened
  <2>3. CASE RecordExecutionFailed(p)
    BY <2>1, <2>3, TransitionEnds DEF RecordExecutionFailed
  <2> QED BY <2>2, <2>3
<1>3. \A r \in Record : rStatus[r] \in SlotActive => r = rec[p]
  BY <1>1 DEF HeldFor, HeldIn, OneActiveRecord, SlotActive
<1>4. AdapterKnows(p)'
  <2>1. Watched(p)' = Watched(p)
    BY <1>1 DEF Watched
  <2>2. todo[p] \cap BuyCand = {}
    BY <1>1, NoOtherBuy
  <2>3. \A r \in Record : rStatus'[r] \in OpenStatuses => pc[p] = "opened" /\ rPos'[r] = pos[p]
    BY <1>2, <1>3 DEF OpenStatuses, SlotActive
  <2> QED BY <1>1, <1>2, <2>1, <2>2, <2>3, SidesAssumption DEF AdapterKnows
<1>5. SlotKnows(p)'
  BY <1>1, <1>2 DEF SlotKnows, HeldFor
<1>6. LoopKnows(p)'
  BY <1>1, <1>2 DEF LoopKnows, HeldFor, HeldIn
<1> QED BY <1>2, <1>4, <1>5, <1>6 DEF StartKnows, RecoverKnows, ReconcileKnows, ExitKnows

\* A SELL up to the close.
LEMMA SellKnows ==
  ASSUME TypeOK, Consistent, NEW p \in Process,
         SellStart(p) \/ SellRequestClose(p) \/ SellClosePosition(p)
  PROVE  Knows(p)'
<1> USE DEF Consistent, Knows, CloseSteps, ExitSteps, BuySteps, SellSteps, CandSteps, Loop
<1>1. CASE SellStart(p)
  <2>1. /\ pc[p] = "sellStart" /\ pc'[p] \in {"candFailed", "sellClose", "sellRequest"}
        /\ UNCHANGED <<rStatus, rCand, rPos, cand, todo, open, tracked, pState, cStatus>>
        /\ pc'[p] = "sellClose" => rec'[p] = NoRecord
        /\ pc'[p] = "sellRequest" => rec'[p] \in Record /\ rStatus[rec'[p]] = "OPEN"
    BY <1>1 DEF SellStart, Goto, TypeOK, candVars, recVars, brokerVars
  <2>2. AdapterKnows(p)'
    BY <2>1, SidesAssumption DEF AdapterKnows, Watched, LoopKnows
  <2>3. SlotKnows(p)'
    BY <2>1 DEF SlotKnows
  <2>4. LoopKnows(p)'
    BY <2>1, SentinelAssumption DEF LoopKnows, HeldIn, Held
  <2> QED BY <2>1, <2>2, <2>3, <2>4 DEF StartKnows, RecoverKnows, ReconcileKnows, ExitKnows
<1>2. CASE SellRequestClose(p)
  <2>1. /\ pc[p] = "sellRequest" /\ HeldIn(p, {"OPEN"})
        /\ Transition(p, rec[p], "CLOSE_REQUESTED", rPos[rec[p]], "sellClose", "candFailed")
        /\ UNCHANGED <<rec, cand, todo, open, tracked, pState, cStatus>>
    BY <1>2 DEF SellRequestClose, LoopKnows, candVars, brokerVars, heldVars
  <2>2. /\ rCand' = rCand /\ pc'[p] \in {"sellClose", "candFailed"}
        /\ \A s \in Record : rStatus'[s] = rStatus[s] \/ (s = rec[p] /\ rStatus'[s] = "CLOSE_REQUESTED")
        /\ \A s \in Record : rPos'[s] = rPos[s]
        /\ pc'[p] = "sellClose" => rStatus'[rec[p]] = "CLOSE_REQUESTED"
    BY <2>1, TransitionEnds DEF HeldIn
  <2>3. AdapterKnows(p)'
    BY <2>1, <2>2 DEF AdapterKnows, Watched, HeldIn, OpenStatuses
  <2>4. SlotKnows(p)'
    BY <2>1, <2>2 DEF SlotKnows, HeldIn, ProvesOpened
  <2>5. LoopKnows(p)'
    BY <2>1, <2>2 DEF LoopKnows, HeldIn
  <2> QED BY <2>2, <2>3, <2>4, <2>5 DEF StartKnows, RecoverKnows, ReconcileKnows, ExitKnows
<1>3. CASE SellClosePosition(p)
  <2>1. /\ pc[p] = "sellClose"
        /\ UNCHANGED <<rStatus, rCand, rPos, rec, cand, todo, open, cStatus>>
    BY <1>3 DEF SellClosePosition, candVars, recVars, heldVars
  <2>2. /\ pc'[p] \in {"candExecuted", "candFailed", "sellClosed", "sellCloseFailed"}
        /\ pc'[p] \in {"sellClosed", "sellCloseFailed"} => rec[p] # NoRecord
        /\ tracked'[p] \subseteq tracked[p]
        /\ \A s \in Position : pState'[s] = pState[s] \/ pState'[s] = "gone"
        /\ pc'[p] \in {"candExecuted", "sellClosed"} =>
             \E q \in tracked[p] : pState[q] = "live" /\ pState'[q] = "gone"
    <3>1. CASE \E q \in tracked[p] :
                 ClosePosition(p, q, IF rec[p] = NoRecord THEN "candExecuted" ELSE "sellClosed",
                                     IF rec[p] = NoRecord THEN "candFailed" ELSE "sellCloseFailed")
      BY <3>1 DEF ClosePosition, Goto, TypeOK
    <3>2. CASE /\ Goto(p, IF rec[p] = NoRecord THEN "candFailed" ELSE "sellCloseFailed")
               /\ UNCHANGED <<brokerVars, tracked>>
      BY <3>2 DEF Goto, brokerVars, TypeOK
    <3> QED BY <1>3, <3>1, <3>2 DEF SellClosePosition
  <2>3. Watched(p)' \subseteq Watched(p)
    BY <2>2 DEF Watched, TypeOK
  <2>4. pc'[p] \in {"candExecuted", "sellClosed"} => Watched(p)' = {}
    BY <2>2, <2>3 DEF AdapterKnows, Watched
  <2>5. AdapterKnows(p)'
    <3>1. \A q \in tracked'[p] : pState'[q] \in {"live", "gone"}
      BY <2>2 DEF AdapterKnows, TypeOK
    <3>2. \A r \in Record : rStatus[r] \in OpenStatuses /\ pState'[rPos[r]] = "live" => pState[rPos[r]] = "live"
      BY <2>2 DEF Tables, RecordsNamePositions, OpenStatuses, ProvesOpened
    <3> QED BY <2>1, <2>2, <2>3, <2>4, <3>1, <3>2 DEF AdapterKnows
  <2>6. SlotKnows(p)'
    BY <2>1, <2>2 DEF SlotKnows
  <2>7. LoopKnows(p)'
    <3>1. pc'[p] \in {"sellClosed", "sellCloseFailed"} => HeldIn(p, {"CLOSE_REQUESTED"})
      BY <2>1, <2>2 DEF LoopKnows, Held, TypeOK
    <3>2. pc'[p] = "sellClosed" => HeldGone(p)'
      <4> SUFFICES ASSUME pc'[p] = "sellClosed" PROVE HeldGone(p)'
        OBVIOUS
      <4>1. rec[p] \in Record /\ rPos[rec[p]] \in Position /\ pState[rPos[rec[p]]] \in {"live", "gone"}
            /\ rStatus[rec[p]] \in OpenStatuses
        BY <3>1 DEF HeldIn, Tables, RecordsNamePositions, OpenStatuses, ProvesOpened
      <4>2. CASE pState[rPos[rec[p]]] = "live"
        <5>1. Watched(p) \subseteq {rPos[rec[p]]}
          BY <2>1, <4>1, <4>2 DEF AdapterKnows
        <5>2. PICK q \in tracked[p] : pState[q] = "live" /\ pState'[q] = "gone"
          BY <2>2
        <5>3. q \in Watched(p)
          BY <5>2 DEF Watched
        <5> QED BY <2>1, <4>1, <5>1, <5>2, <5>3 DEF HeldGone
      <4>3. CASE pState[rPos[rec[p]]] = "gone"
        BY <2>1, <2>2, <4>1, <4>3 DEF HeldGone
      <4> QED BY <4>1, <4>2, <4>3
    <3>3. cand[p] \in SellCand /\ cand[p] \notin BuyCand
      BY <2>1, SidesAssumption DEF LoopKnows
    <3> QED BY <2>1, <2>2, <3>1, <3>2, <3>3 DEF LoopKnows, HeldIn, HeldFor
  <2> QED BY <2>2, <2>5, <2>6, <2>7 DEF StartKnows, RecoverKnows, ReconcileKnows, ExitKnows
<1> QED BY <1>1, <1>2, <1>3

\* The record of a SELL's close is written.
LEMMA SoldKnows ==
  ASSUME TypeOK, Consistent, NEW p \in Process,
         SellRecordClosed(p) \/ SellRecordCloseFailed(p)
  PROVE  Knows(p)'
<1> USE DEF Consistent, Knows, CloseSteps, ExitSteps, BuySteps, SellSteps, CandSteps, Loop
<1>1. /\ pc[p] \in {"sellClosed", "sellCloseFailed"} /\ HeldIn(p, {"CLOSE_REQUESTED"})
      /\ UNCHANGED <<rec, cand, todo, open, tracked, pState, cStatus>>
  BY DEF SellRecordClosed, SellRecordCloseFailed, LoopKnows, candVars, brokerVars, heldVars
<1>2. /\ rCand' = rCand /\ pc'[p] \in {"candExecuted", "candFailed"}
      /\ \A s \in Record : \/ rStatus'[s] = rStatus[s]
                           \/ s = rec[p] /\ rStatus'[s] \in {"CLOSED", "CLOSE_FAILED"}
      /\ \A s \in Record : rPos'[s] = rPos[s]
      /\ pc'[p] = "candExecuted" => pc[p] = "sellClosed"
  <2>1. rec[p] \in Record
    BY <1>1 DEF HeldIn
  <2>2. CASE SellRecordClosed(p)
    BY <2>1, <2>2, TransitionEnds DEF SellRecordClosed
  <2>3. CASE SellRecordCloseFailed(p)
    BY <2>1, <2>3, TransitionEnds DEF SellRecordCloseFailed
  <2> QED BY <2>2, <2>3
<1>3. cand[p] \in SellCand /\ cand[p] \notin BuyCand
  BY <1>1, SidesAssumption DEF LoopKnows
<1>4. AdapterKnows(p)'
  BY <1>1, <1>2, <1>3 DEF AdapterKnows, Watched, OpenStatuses
<1>5. SlotKnows(p)'
  BY <1>1, <1>2 DEF SlotKnows, HeldIn, ProvesOpened
<1>6. LoopKnows(p)'
  BY <1>1, <1>2, <1>3 DEF LoopKnows
<1> QED BY <1>2, <1>4, <1>5, <1>6 DEF StartKnows, RecoverKnows, ReconcileKnows, ExitKnows

\* The candidate is marked, and the loop goes on.
LEMMA MarkKnows ==
  ASSUME TypeOK, Consistent, NEW p \in Process, MarkExecuted(p) \/ MarkFailed(p)
  PROVE  Knows(p)'
<1> USE DEF Consistent, Knows, CloseSteps, ExitSteps, BuySteps, SellSteps, CandSteps, Loop
<1>1. /\ pc[p] \in {"candExecuted", "candFailed"}
      /\ cand[p] \in Candidate /\ cStatus[cand[p]] = "APPROVED" /\ cand[p] \notin todo[p]
      /\ UNCHANGED <<rStatus, rCand, rPos, todo, tracked, pState>>
  BY DEF MarkExecuted, MarkFailed, LoopKnows, recVars, brokerVars
<1>2. CASE /\ pc[p] = "candExecuted" /\ pc'[p] = "candFailed"
           /\ UNCHANGED <<candVars, cand, rec, pos, open>>
  <2>1. AdapterKnows(p)'
    BY <1>1, <1>2 DEF AdapterKnows, Watched
  <2>2. SlotKnows(p)'
    BY <1>1, <1>2 DEF SlotKnows, candVars
  <2>3. LoopKnows(p)'
    BY <1>1, <1>2 DEF LoopKnows, candVars
  <2> QED BY <1>2, <2>1, <2>2, <2>3 DEF StartKnows, RecoverKnows, ReconcileKnows, ExitKnows
<1>3. CASE pc'[p] = "end"
  <2>1. AdapterKnows(p)'
    BY <1>1, <1>3 DEF AdapterKnows, Watched
  <2> QED BY <1>3, <2>1 DEF StartKnows, RecoverKnows, ReconcileKnows, ExitKnows, LoopKnows, SlotKnows
<1>4. CASE /\ pc'[p] = "approved" /\ rec'[p] = NoRecord
           /\ cStatus'[cand[p]] # "APPROVED"
           /\ \A c \in Candidate \ {cand[p]} : cStatus'[c] = cStatus[c]
           /\ open'[p] = open[p] \/ (pc[p] = "candExecuted" /\ open'[p] = (cand[p] \in BuyCand))
  <2>1. AdapterKnows(p)'
    <3>1. Watched(p)' = Watched(p)
      BY <1>1 DEF Watched
    <3>2. ~open'[p] /\ todo[p] \cap BuyCand # {} => Watched(p) = {}
      <4>1. CASE open'[p] = open[p]
        BY <1>1, <4>1 DEF AdapterKnows
      <4>2. CASE pc[p] = "candExecuted" /\ cand[p] \notin BuyCand
        BY <1>1, <4>2 DEF AdapterKnows, Candidate
      <4>3. CASE cand[p] \in BuyCand
        BY <1>1, <4>3, NoOtherBuy
      <4> QED BY <1>4, <4>1, <4>2, <4>3
    <3> QED BY <1>1, <1>4, <3>1, <3>2 DEF AdapterKnows
  <2>2. SlotKnows(p)'
    BY <1>1, <1>4 DEF SlotKnows
  <2>3. LoopKnows(p)'
    BY <1>1, <1>4 DEF LoopKnows, TypeOK
  <2> QED BY <1>4, <2>1, <2>2, <2>3 DEF StartKnows, RecoverKnows, ReconcileKnows, ExitKnows
<1>5. CASE MarkExecuted(p)
  <2>1. CASE /\ CompareAndSet(cand[p], "APPROVED", "EXECUTED", rec[p]) /\ Drop(p)
             /\ Goto(p, "approved") \/ Goto(p, "end")
             /\ UNCHANGED open \/ open' = [open EXCEPT ![p] = cand[p] \in BuyCand]
    BY <1>1, <1>3, <1>4, <1>5, <2>1 DEF CompareAndSet, Drop, Goto, MarkExecuted, TypeOK
  <2>2. CASE Goto(p, "candFailed") /\ UNCHANGED <<candVars, cand, rec, pos, open>>
    BY <1>2, <1>5, <2>2 DEF Goto, MarkExecuted, TypeOK
  <2> QED BY <1>1, <1>5, <2>1, <2>2 DEF MarkExecuted, Audited
<1>6. CASE MarkFailed(p)
  <2>1. CASE CompareAndSet(cand[p], "APPROVED", "FAILED", cRecord[cand[p]]) /\ Audited(p, "approved")
    BY <1>1, <1>3, <1>4, <1>6, <2>1 DEF CompareAndSet, Audited, Drop, Goto, MarkFailed, TypeOK
  <2>2. CASE Goto(p, "end")
    BY <1>3, <2>2 DEF Goto, TypeOK
  <2> QED BY <1>6, <2>1, <2>2 DEF MarkFailed
<1> QED BY <1>5, <1>6

\* The fresh decision.
LEMMA FreshKnows ==
  ASSUME TypeOK, Consistent, NEW p \in Process,
         FreshDecision(p) \/ AutoApprove(p) \/ AutoRevert(p)
  PROVE  Knows(p)'
<1> USE DEF Consistent, Knows, CloseSteps, ExitSteps, BuySteps, SellSteps, CandSteps, Loop, Goto
<1>1. /\ pc'[p] \in {"end", "auto", "autoRevert"} /\ UNCHANGED <<tracked, pState>>
      /\ pc'[p] \in {"auto", "autoRevert"} => cand'[p] \in BuyCand
  BY DEF FreshDecision, AutoApprove, AutoRevert, LoopKnows, TypeOK, brokerVars, heldVars
<1>2. AdapterKnows(p)'
  BY <1>1 DEF AdapterKnows, Watched
<1> QED BY <1>1, <1>2 DEF StartKnows, RecoverKnows, ReconcileKnows, ExitKnows, LoopKnows, SlotKnows

\* The process still knows what it must after every step of its own.
LEMMA StepKnows ==
  ASSUME TypeOK, OneActiveRecord, Consistent, Tables', NEW p \in Process, Step(p)
  PROVE  Knows(p)'
<1>1. CASE PhaseA(p)
  BY <1>1, RecoveryKnows, ReconciliationKnows, AdoptionKnows, RepairKnows, ExitDecisionKnows, ExitKnowsOn
     DEF PhaseA
<1>2. CASE PhaseB(p)
  BY <1>2, ExitDecisionKnows, ApprovedKnows, EntryKnows, OrderKnows, OutcomeKnows, SellKnows,
     SoldKnows, MarkKnows, FreshKnows DEF PhaseB
<1> QED BY <1>1, <1>2 DEF Step

-----------------------------------------------------------------------------
(* The rest of the world *)

\* The broker fills an order or turns it down.
Settled ==
  \E q \in Position :
    /\ pState[q] = "pending" /\ UNCHANGED pOrigin
    /\ \E s \in {"live", "rejected"} : pState' = [pState EXCEPT ![q] = s]

\* The operator, time and the broker, as far as the process can tell.
WorldStep ==
  /\ UNCHANGED <<rStatus, rCand, rPos, cRecord, procVars>>
  /\ \E to \in {"APPROVED", "REJECTED", "EXPIRED"} : \A c \in Candidate :
       cStatus'[c] = cStatus[c] \/ (cStatus[c] = "PENDING" /\ cStatus'[c] = to)
  /\ \A q \in Position : BrokerMoves(pState[q], pState'[q])
  /\ \A q \in Position : pState[q] # "unborn" => pOrigin'[q] = pOrigin[q]
  /\ UNCHANGED brokerVars \/ UNCHANGED candVars
  /\ UNCHANGED brokerVars \/ Settled \/ May("external")
  /\ \A r \in stale' \ stale : May("slow") \/ ~InHand(r)

\* Every action of the operator, of time and of the broker is one.
LEMMA WorldMoves ==
  ASSUME TypeOK, Next
  PROVE  (\E p \in Process : Boot(p) \/ Crash(p) \/ Step(p)) \/ WorldStep
<1> USE DEF WorldStep, Settled, BrokerMoves, candVars, recVars, brokerVars, TypeOK
<1>1. ASSUME NEW c \in Candidate, Approve(c) \/ Reject(c) \/ Expire(c)
      PROVE  WorldStep
  BY <1>1 DEF Approve, Reject, Expire
<1>2. ASSUME NEW r \in Record, Age(r)
      PROVE  WorldStep
  BY <1>2 DEF Age
<1>3. ASSUME NEW q \in Position, Settle(q) \/ ExternalOpen(q) \/ ExternalClose(q)
      PROVE  WorldStep
  BY <1>3 DEF Settle, ExternalOpen, ExternalClose
<1> QED BY <1>1, <1>2, <1>3 DEF Next

\* What a process knows outlives them: a record never names a candidate that
\* still waits for its approval, and a position never comes back.
LEMMA WorldKnows ==
  ASSUME TypeOK, Consistent, NEW p \in Process, WorldStep
  PROVE  Knows(p)'
<1> USE DEF Consistent, Knows, CloseSteps, ExitSteps, BuySteps, SellSteps, CandSteps, Loop
<1>1. UNCHANGED <<rStatus, rCand, rPos, pc, plan, cand, rec, seen, pos, open, todo, exited, tracked>>
  BY DEF WorldStep, procVars, heldVars
<1>2. /\ \A q \in Position : pState[q] \in {"live", "gone"} => pState'[q] \in {"live", "gone"}
      /\ \A q \in Position : pState[q] = "gone" => pState'[q] = "gone"
      /\ \A q \in Position : pState[q] # "unborn" => pState'[q] # "unborn"
  BY DEF WorldStep, BrokerMoves
<1>3. /\ \A c \in Candidate : cStatus[c] = "APPROVED" => cStatus'[c] = "APPROVED"
      /\ \A c \in Candidate : cStatus[c] # "PENDING" => cStatus'[c] = cStatus[c]
  BY DEF WorldStep
<1>4. \A r \in Record : rCand[r] \in Candidate => cStatus'[rCand[r]] = cStatus[rCand[r]]
  BY <1>3 DEF Tables, RecordsNameApproved
<1>5. StartKnows(p)' /\ RecoverKnows(p)'
  BY <1>1, <1>2 DEF StartKnows, RecoverKnows, HeldIn, Opened
<1>6. ReconcileKnows(p)'
  BY <1>1, <1>2, <1>4 DEF ReconcileKnows, HeldIn, HeldGone, Opened
<1>7. ExitKnows(p)'
  BY <1>1, <1>2 DEF ExitKnows, Held, HeldIn, HeldGone
<1>8. LoopKnows(p)'
  BY <1>1, <1>2, <1>3 DEF LoopKnows, Held, HeldIn, HeldFor, HeldGone, Opened, TypeOK
<1>9. AdapterKnows(p)'
  <2>1. \A q \in tracked[p] : q \in Position /\ pState[q] \in {"live", "gone"}
    BY DEF AdapterKnows, TypeOK
  <2>2. Watched(p)' \subseteq Watched(p)
    BY <1>1, <1>2, <2>1 DEF Watched
  <2>3. \A r \in Record : rStatus[r] \in OpenStatuses /\ pState'[rPos[r]] = "live" => pState[rPos[r]] = "live"
    BY <1>2 DEF Tables, RecordsNamePositions, OpenStatuses, ProvesOpened
  <2> QED BY <1>1, <1>2, <2>1, <2>2, <2>3 DEF AdapterKnows, Held
<1>10. SlotKnows(p)'
  BY <1>1, <1>4 DEF SlotKnows
<1> QED BY <1>5, <1>6, <1>7, <1>8, <1>9, <1>10

\* A start knows nothing, and a crash forgets everything.
LEMMA RestartKnows ==
  ASSUME TypeOK, Consistent, NEW p \in Process, Boot(p) \/ Crash(p)
  PROVE  Knows(p)'
<1> USE DEF Consistent, Knows, CloseSteps, ExitSteps, BuySteps, SellSteps, CandSteps, Loop, Goto
<1>1. /\ pc'[p] \in {"idle", "down"} /\ rec'[p] = NoRecord /\ open'[p] = FALSE /\ exited'[p] = None
      /\ tracked'[p] \subseteq tracked[p] /\ UNCHANGED pState
  BY DEF Boot, Crash, StartKnows, TypeOK, heldVars, brokerVars
<1>2. AdapterKnows(p)'
  BY <1>1 DEF AdapterKnows, Watched
<1> QED BY <1>1, <1>2 DEF StartKnows, RecoverKnows, ReconcileKnows, ExitKnows, LoopKnows, SlotKnows

\* Every step of a system with one process writes the tables so.
LEMMA NextWrites ==
  ASSUME TypeOK, OneActiveRecord, Consistent, NEW p \in Process, \A q \in Process : q = p, [Next]_vars
  PROVE  RecordsStep(p) /\ CandidatesApart(p) /\ BrokerStep
<1>1. CASE Step(p)
  BY <1>1, PhaseAWrites, PhaseBWrites, CandidateWrites, BrokerWrites DEF Step
<1>2. CASE WorldStep
  <2>1. RecordsStep(p)
    BY <1>2 DEF WorldStep, RecordsStep
  <2>2. CASE UNCHANGED candVars
    BY <1>2, <2>1, <2>2 DEF WorldStep, BrokerStep, CandidatesApart, candVars, brokerVars
  <2>3. CASE UNCHANGED brokerVars
    BY <1>2, <2>1, <2>3 DEF WorldStep, BrokerStep, BrokerMoves, CandidatesApart, CandidatesStep,
                            CandidateMoves, CandidateStatus, Waiting, Candidate, brokerVars
  <2> QED BY <1>2, <2>2, <2>3 DEF WorldStep
<1>3. CASE UNCHANGED <<candVars, recVars, brokerVars>>
  BY <1>3 DEF RecordsStep, CandidatesApart, BrokerStep, BrokerMoves, recVars, brokerVars
<1>4. CASE Boot(p) \/ Crash(p)
  BY <1>3, <1>4 DEF Boot, Crash
<1>5. CASE UNCHANGED vars
  BY <1>3, <1>5 DEF vars, candVars, recVars, brokerVars
<1> QED BY <1>1, <1>2, <1>4, <1>5, WorldMoves

\* The invariant is inductive.
LEMMA ConsistentInductive ==
  ASSUME TypeOK, OneActiveRecord, Consistent, NEW p \in Process, \A q \in Process : q = p, [Next]_vars
  PROVE  Consistent'
<1>1. Tables'
  BY NextWrites, TablesKept DEF Consistent
<1>2. Knows(p)'
  <2>1. CASE Step(p)
    BY <1>1, <2>1, StepKnows
  <2>2. CASE Boot(p) \/ Crash(p)
    BY <2>2, RestartKnows
  <2>3. CASE WorldStep
    BY <2>3, WorldKnows
  <2>4. CASE UNCHANGED vars
    <3>1. WorldStep
      BY <2>4 DEF WorldStep, BrokerMoves, vars, recVars, candVars, brokerVars, procVars, heldVars
    <3> QED BY <3>1, WorldKnows
  <2> QED BY <2>1, <2>2, <2>3, <2>4, WorldMoves
<1> QED BY <1>1, <1>2 DEF Consistent

\* It holds at the start.
LEMMA ConsistentInitially ==
  ASSUME Init
  PROVE  Consistent
<1> USE DEF Init, TypeOK
<1>1. Tables
  BY SentinelAssumption
     DEF Tables, RecordsNamePositions, RecordsNameApproved, OneBuyWaits, ClosedMeansGone,
         ExecutedIsOpen, ExecutedHasPosition, ExecutedNeverPreOpen, SpentCandidateNotApproved,
         Waiting, ProvesOpened, PreOpenRecoverable, Candidate, None
<1>2. ASSUME NEW p \in Process
      PROVE  Knows(p)
  BY DEF Knows, StartKnows, RecoverKnows, ReconcileKnows, ExitKnows, LoopKnows, AdapterKnows,
         SlotKnows, Watched, CloseSteps, ExitSteps, BuySteps, SellSteps, CandSteps, Loop
<1> QED BY <1>1, <1>2 DEF Consistent

-----------------------------------------------------------------------------
(* The theorems *)

\* The invariant holds for ever when one process runs.
LEMMA ConsistentCorrect ==
  ASSUME NEW p \in Process, \A q \in Process : q = p
  PROVE  Spec => []Consistent
<1>1. Init => Consistent
  BY ConsistentInitially
<1>2. TypeOK /\ OneActiveRecord /\ Consistent /\ [Next]_vars => Consistent'
  BY ConsistentInductive
<1>3. Spec => []TypeOK
  BY TypeCorrect
<1>4. Spec => []OneActiveRecord
  BY OneActive
<1> QED BY <1>1, <1>2, <1>3, <1>4, PTL DEF Spec

\* One process never reports a position closed that is not gone, whatever fails
\* and whoever else trades on the account.
THEOREM ClosedGone ==
  ASSUME NEW p \in Process, \A q \in Process : q = p
  PROVE  Spec => []ClosedMeansGone
<1>1. Consistent => ClosedMeansGone
  BY DEF Consistent, Tables
<1> QED BY <1>1, ConsistentCorrect, PTL

\* EXECUTED and OPEN go together: an executed BUY leads to the record of its own
\* execution, which names its position, and to none that has not opened yet.
THEOREM ExecutedOpen ==
  ASSUME NEW p \in Process, \A q \in Process : q = p
  PROVE  Spec => []ExecutedIsOpen
<1>1. Consistent => ExecutedIsOpen
  BY DEF Consistent, Tables
<1> QED BY <1>1, ConsistentCorrect, PTL

\* A candidate whose position is over is not approved any more.
THEOREM SpentNotApproved ==
  ASSUME NEW p \in Process, \A q \in Process : q = p
  PROVE  Spec => []SpentCandidateNotApproved
<1>1. Consistent => SpentCandidateNotApproved
  BY DEF Consistent, Tables
<1> QED BY <1>1, ConsistentCorrect, PTL

-----------------------------------------------------------------------------
(* The refinement *)

\* A step of one process whose audit trail and registry do not fail is a step
\* of the abstract tables, or leaves them alone.
LEMMA StepRefines ==
  ASSUME TypeOK, TypeOK', OneActiveRecord, Consistent, NEW p \in Process, \A q \in Process : q = p,
         ~May("audit"), ~May("registry"), [Next]_vars
  PROVE  [Lifecycle!Next]_<<cStatus, rStatus>>
<1>1. RecordsStep(p) /\ CandidatesApart(p)
  BY NextWrites
<1>2. CASE RecordWrite(p) /\ UNCHANGED <<cStatus, cRecord, pState>>
  <2>1. PICK r \in Record, to \in RecordStatus :
          /\ rStatus' = [rStatus EXCEPT ![r] = to]
          /\ to \in SlotActive => \A s \in Record \ {r} : rStatus[s] \notin SlotActive
          /\ \/ MovesTo(rStatus[r], to)
             \/ rStatus[r] = None /\ to \in {"DECISION_CREATED", "OPEN"}
    BY <1>2 DEF RecordWrite
  <2>2. MovesTo(rStatus[r], to) => <<rStatus[r], to>> \in ValidTransitions
    BY DEF MovesTo
  <2> QED BY <1>2, <2>1, <2>2
          DEF Lifecycle!Next, Lifecycle!RecordMoves, Lifecycle!SlotFree, Lifecycle!RecordStatus,
              Lifecycle!ValidTransitions, Lifecycle!SlotActive, Lifecycle!None,
              RecordStatus, ValidTransitions, SlotActive, None
<1>3. CASE CandidatesStep(p) /\ UNCHANGED rStatus
  <2>1. PICK to \in CandidateStatus : \A c \in Candidate : cStatus'[c] \in {cStatus[c], to}
    BY <1>3 DEF CandidatesStep
  <2> DEFINE S == { c \in Candidate : cStatus'[c] # cStatus[c] }
  <2>2. cStatus' = [c \in Candidate |-> IF c \in S THEN to ELSE cStatus[c]]
    BY <2>1 DEF TypeOK
  <2>3. \A c \in S : <<cStatus[c], to>> \in ValidCandidateTransitions \/ (cStatus[c] = None /\ to = "PENDING")
    <3> SUFFICES ASSUME NEW c \in Candidate, cStatus'[c] # cStatus[c]
                 PROVE  <<cStatus[c], to>> \in ValidCandidateTransitions \/ (cStatus[c] = None /\ to = "PENDING")
      OBVIOUS
    <3>1. cStatus'[c] = to
      BY <2>1
    <3>2. CASE cStatus[c] = None
      BY <1>3, <3>1, <3>2 DEF CandidatesStep, CandidateMoves, Waiting, None
    <3>3. CASE cStatus[c] # None
      BY <3>1, <3>3, NextLegal DEF LegalMoves, vars
    <3> QED BY <3>2, <3>3
  <2> HIDE DEF S
  <2>4. S \in SUBSET Candidate
    BY DEF S
  <2> QED BY <1>3, <2>2, <2>3, <2>4
          DEF Lifecycle!Next, Lifecycle!CandidatesMove, Lifecycle!CandidateStatus,
              Lifecycle!ValidCandidateTransitions, Lifecycle!None,
              CandidateStatus, ValidCandidateTransitions, None
<1>4. CASE UNCHANGED <<cStatus, rStatus>>
  BY <1>4
<1> QED BY <1>1, <1>2, <1>3, <1>4 DEF RecordsStep, CandidatesApart, candVars

\* One process whose audit trail and registry do not fail implements the
\* abstract lifecycle: no in-memory copy drags a durable row off its graph.
THEOREM RefinesLifecycle ==
  ASSUME NEW p \in Process, \A q \in Process : q = p, ~May("audit"), ~May("registry")
  PROVE  Spec => ImplementsLifecycle
<1>1. Init => Lifecycle!Init
  BY DEF Init, Lifecycle!Init, Lifecycle!None, None
<1>2. TypeOK /\ TypeOK' /\ OneActiveRecord /\ Consistent /\ [Next]_vars => [Lifecycle!Next]_<<cStatus, rStatus>>
  BY StepRefines
<1>3. Spec => []TypeOK
  BY TypeCorrect
<1>4. Spec => []OneActiveRecord
  BY OneActive
<1>5. Spec => []Consistent
  BY ConsistentCorrect
<1> QED BY <1>1, <1>2, <1>3, <1>4, <1>5, PTL DEF Spec, ImplementsLifecycle, Lifecycle!Spec
=============================================================================
