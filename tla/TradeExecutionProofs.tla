------------------------ MODULE TradeExecutionProofs ------------------------
(***************************************************************************)
(* Theorems about TradeExecution, for any number of processes, candidates,  *)
(* records and positions, and any set of failures.                          *)
(***************************************************************************)
EXTENDS TradeExecution, TLAPS

MaybeRecord   == Record \cup {NoRecord}
MaybePosition == Position \cup {NoPosition}
MaybeStatus   == RecordStatus \cup {None}

-----------------------------------------------------------------------------
(* What the shared operators write is typed, even for a sentinel argument:  *)
(* an EXCEPT outside the domain changes nothing.                            *)

RecordsTyped ==
  /\ rStatus \in [Record -> MaybeStatus]
  /\ rCand \in [Record -> Candidate \cup {NoCand}]
  /\ rPos \in [Record -> MaybePosition]
  /\ stale \subseteq Record

CandidatesTyped ==
  /\ cStatus \in [Candidate -> CandidateStatus \cup {None}]
  /\ cRecord \in [Candidate -> MaybeRecord]

\* Storing a record, in hand or not, keeps the record table typed.
LEMMA SaveTyped ==
  ASSUME RecordsTyped, NEW r, NEW status \in MaybeStatus, NEW q,
         r \in Record => q \in MaybePosition,
         Save(r, status, q)
  PROVE  RecordsTyped'
<1>1. CASE r \in Record
  BY <1>1 DEF RecordsTyped, Save
<1>2. CASE r \notin Record
  <2>1. rStatus' = rStatus /\ rPos' = rPos
    BY <1>2 DEF RecordsTyped, Save
  <2> QED BY <2>1 DEF RecordsTyped, Save
<1> QED BY <1>1, <1>2

\* So does inserting a new one.
LEMMA InsertTyped ==
  ASSUME RecordsTyped, NEW r \in Record, NEW status \in MaybeStatus,
         NEW c \in Candidate \cup {NoCand}, NEW q \in MaybePosition,
         Insert(r, status, c, q)
  PROVE  RecordsTyped'
BY DEF RecordsTyped, Insert

\* A lifecycle transition leaves the record table typed and moves the process
\* to one of its two continuations.
LEMMA TransitionTyped ==
  ASSUME RecordsTyped, NEW p, NEW r, NEW status \in MaybeStatus, NEW q,
         r \in Record => q \in MaybePosition, NEW ok, NEW failed,
         Transition(p, r, status, q, ok, failed)
  PROVE  RecordsTyped' /\ (Goto(p, ok) \/ Goto(p, failed))
<1>1. CASE Save(r, status, q)
  BY <1>1, SaveTyped DEF Transition, Goto
<1>2. CASE UNCHANGED recVars
  BY <1>2 DEF RecordsTyped, recVars, Transition, Goto
<1> QED BY <1>1, <1>2 DEF Transition

\* A compare-and-set leaves the candidate table typed.
LEMMA CompareAndSetTyped ==
  ASSUME CandidatesTyped, NEW c, NEW from, NEW to \in CandidateStatus, NEW r,
         c \in Candidate => r \in MaybeRecord,
         CompareAndSet(c, from, to, r)
  PROVE  CandidatesTyped'
<1>1. CASE c \in Candidate
  BY <1>1 DEF CandidatesTyped, CompareAndSet, candVars
<1>2. CASE c \notin Candidate
  <2>1. cStatus' = cStatus /\ cRecord' = cRecord
    BY <1>2 DEF CandidatesTyped, CompareAndSet, candVars
  <2> QED BY <2>1 DEF CandidatesTyped
<1> QED BY <1>1, <1>2


BrokerTyped ==
  /\ pState \in [Position -> {"unborn", "pending", "live", "gone", "rejected"}]
  /\ pOrigin \in [Position -> Candidate \cup {External, NoCand}]

\* A process that awaits an order's position has one in hand.
StepTyped ==
  /\ pc \in [Process -> PcValues]
  /\ \A p \in Process : pc[p] = "await" => pos[p] \in Position

HeldTyped ==
  /\ plan \in [Process -> {None, "abandon", "ambiguous", "correlate", "phaseA", "phaseB"}]
  /\ cand \in [Process -> Candidate \cup {NoCand}]
  /\ rec \in [Process -> MaybeRecord]
  /\ seen \in [Process -> MaybeStatus]
  /\ pos \in [Process -> MaybePosition]
  /\ open \in [Process -> BOOLEAN]
  /\ todo \in [Process -> SUBSET Candidate]
  /\ exited \in [Process -> {None, "failed", "closed"}]

WorldTyped ==
  /\ overdue \subseteq Candidate
  /\ kill \in [Process -> BOOLEAN]
  /\ tracked \in [Process -> SUBSET Position]
  /\ crashes \in Nat

\* The type invariant, one part per group of variables.
Typed == /\ RecordsTyped /\ CandidatesTyped /\ BrokerTyped
         /\ StepTyped /\ HeldTyped /\ WorldTyped

LEMMA TypedImpliesTypeOK == Typed => TypeOK
BY DEF Typed, TypeOK, RecordsTyped, CandidatesTyped, BrokerTyped, StepTyped, HeldTyped,
       WorldTyped, MaybeRecord, MaybePosition, MaybeStatus

-----------------------------------------------------------------------------
\* Every step of PhaseA keeps the type invariant.
LEMMA PhaseATyped ==
  ASSUME Typed, NEW p \in Process, PhaseA(p)
  PROVE  Typed'
<1> USE DEF Typed, RecordsTyped, CandidatesTyped, BrokerTyped, StepTyped, HeldTyped, WorldTyped,
            MaybeRecord, MaybePosition, MaybeStatus, PcValues, None, RecordStatus,
            CandidateStatus, recVars, candVars, brokerVars, heldVars, worldVars, Goto, Audited
<1>a. rec[p] \in Record => rPos[rec[p]] \in MaybePosition
  OBVIOUS
<1>1. CASE BeginCycle(p)
  <2>1. RecordsTyped' /\ CandidatesTyped' /\ BrokerTyped' /\ HeldTyped' /\ WorldTyped'
    BY <1>1 DEF BeginCycle
  <2>2. StepTyped'
    BY <1>1 DEF BeginCycle
  <2> QED BY <2>1, <2>2
<1>2. CASE EndCycle(p)
  <2>1. RecordsTyped' /\ CandidatesTyped' /\ BrokerTyped' /\ WorldTyped'
    BY <1>2 DEF EndCycle
  <2>2. StepTyped'
    BY <1>2 DEF EndCycle
  <2>3. HeldTyped'
    BY <1>2 DEF EndCycle
  <2> QED BY <2>1, <2>2, <2>3
<1>3. CASE RecoverScan(p)
  <2>1. RecordsTyped' /\ CandidatesTyped' /\ BrokerTyped'
    BY <1>3 DEF RecoverScan
  <2>2. StepTyped'
    BY <1>3 DEF RecoverScan
  <2>v. \A r \in Record :
          Verdicts(p, r) \subseteq {"abandon", "ambiguous", "correlate"} \X MaybePosition
    BY DEF Verdicts, Live
  <2>3. HeldTyped'
    <3>1. CASE UNCHANGED <<plan, rec, seen, pos>>
      BY <1>3, <3>1 DEF RecoverScan
    <3>2. CASE \E r \in DueForRecovery : \E v \in Verdicts(p, r) :
                 /\ plan' = [plan EXCEPT ![p] = v[1]]
                 /\ rec' = [rec EXCEPT ![p] = r]
                 /\ seen' = [seen EXCEPT ![p] = rStatus[r]]
                 /\ pos' = [pos EXCEPT ![p] = v[2]]
      <4>1. PICK r \in Record, v \in {"abandon", "ambiguous", "correlate"} \X MaybePosition :
                 /\ plan' = [plan EXCEPT ![p] = v[1]]
                 /\ rec' = [rec EXCEPT ![p] = r]
                 /\ seen' = [seen EXCEPT ![p] = rStatus[r]]
                 /\ pos' = [pos EXCEPT ![p] = v[2]]
        BY <3>2, <2>v DEF DueForRecovery
      <4> QED BY <1>3, <4>1 DEF RecoverScan
    <3> QED BY <1>3, <3>1, <3>2 DEF RecoverScan
  <2>4. WorldTyped'
    BY <1>3, <2>v, SMTT(30) DEF RecoverScan, DueForRecovery
  <2> QED BY <2>1, <2>2, <2>3, <2>4
<1>4. CASE RecoverWrite(p)
  <2>1. CandidatesTyped' /\ BrokerTyped' /\ WorldTyped'
    BY <1>4 DEF RecoverWrite
  <2>2. RecordsTyped'
    BY <1>4, SaveTyped, ZenonT(60) DEF RecoverWrite, Resolution
  <2>3. StepTyped'
    BY <1>4, SMTT(30) DEF RecoverWrite
  <2>4. HeldTyped'
    BY <1>4 DEF RecoverWrite
  <2> QED BY <2>1, <2>2, <2>3, <2>4
<1>5. CASE ReconcileUnsafe(p)
  <2>1. RecordsTyped' /\ CandidatesTyped' /\ BrokerTyped' /\ HeldTyped' /\ WorldTyped'
    BY <1>5 DEF ReconcileUnsafe
  <2>2. StepTyped'
    BY <1>5 DEF ReconcileUnsafe
  <2> QED BY <2>1, <2>2
<1>6. CASE ReconcileNothingHeld(p)
  <2>1. RecordsTyped' /\ CandidatesTyped' /\ BrokerTyped' /\ WorldTyped'
    BY <1>6 DEF ReconcileNothingHeld
  <2>2. StepTyped'
    BY <1>6 DEF ReconcileNothingHeld
  <2>3. HeldTyped'
    BY <1>6 DEF ReconcileNothingHeld, Unresolved
  <2> QED BY <2>1, <2>2, <2>3
<1>7. CASE ReconcileVanished(p)
  <2>1. RecordsTyped' /\ CandidatesTyped' /\ BrokerTyped' /\ WorldTyped'
    BY <1>7 DEF ReconcileVanished
  <2>2. StepTyped'
    BY <1>7 DEF ReconcileVanished
  <2>3. HeldTyped'
    BY <1>7 DEF ReconcileVanished, LocalActive
  <2> QED BY <2>1, <2>2, <2>3
<1>8. CASE ReconcileMatched(p)
  <2>1. RecordsTyped' /\ CandidatesTyped' /\ BrokerTyped'
    BY <1>8 DEF ReconcileMatched
  <2>2. StepTyped'
    <3>1. Goto(p, "reopen") \/ Goto(p, "repair") \/ Goto(p, "end")
      BY <1>8 DEF ReconcileMatched
    <3> QED BY <1>8, <3>1, SMTT(30) DEF ReconcileMatched
  <2>3. HeldTyped'
    BY <1>8 DEF ReconcileMatched, Matching
  <2>4. WorldTyped'
    BY <1>8 DEF ReconcileMatched, Matching, Live
  <2> QED BY <2>1, <2>2, <2>3, <2>4
<1>9. CASE ReconcileOrphan(p)
  <2>1. RecordsTyped' /\ CandidatesTyped' /\ BrokerTyped'
    BY <1>9 DEF ReconcileOrphan
  <2>2. StepTyped'
    BY <1>9 DEF ReconcileOrphan
  <2>3. HeldTyped'
    BY <1>9 DEF ReconcileOrphan, Live
  <2>4. WorldTyped'
    BY <1>9 DEF ReconcileOrphan, Live
  <2> QED BY <2>1, <2>2, <2>3, <2>4
<1>10. CASE Adopt(p)
  <2>1. CandidatesTyped' /\ BrokerTyped' /\ WorldTyped'
    BY <1>10 DEF Adopt
  <2>2. RecordsTyped'
    BY <1>10, InsertTyped DEF Adopt
  <2>3. StepTyped'
    BY <1>10, SMTT(30) DEF Adopt
  <2>4. HeldTyped'
    BY <1>10 DEF Adopt
  <2> QED BY <2>1, <2>2, <2>3, <2>4
<1>11. CASE AdoptRefused(p)
  <2>1. RecordsTyped' /\ CandidatesTyped' /\ BrokerTyped' /\ HeldTyped' /\ WorldTyped'
    BY <1>11 DEF AdoptRefused
  <2>2. StepTyped'
    BY <1>11 DEF AdoptRefused
  <2> QED BY <2>1, <2>2
<1>12. CASE Reopen(p)
  <2>1. CandidatesTyped' /\ BrokerTyped' /\ WorldTyped'
    BY <1>12 DEF Reopen
  <2>2. RecordsTyped'
    BY <1>12, <1>a, TransitionTyped DEF Reopen
  <2>3. Goto(p, "repair") \/ Goto(p, "end")
    BY <1>12 DEF Reopen, Transition
  <2>4. StepTyped'
    BY <1>12, <2>3 DEF Reopen
  <2>5. HeldTyped'
    BY <1>12 DEF Reopen
  <2> QED BY <2>1, <2>2, <2>3, <2>4, <2>5
<1>13. CASE RepairCandidate(p)
  <2>1. RecordsTyped' /\ BrokerTyped' /\ HeldTyped' /\ WorldTyped'
    BY <1>13 DEF RepairCandidate
  <2>2. CandidatesTyped'
    BY <1>13, CompareAndSetTyped, ZenonT(60) DEF RepairCandidate
  <2>3. StepTyped'
    BY <1>13 DEF RepairCandidate
  <2> QED BY <2>1, <2>2, <2>3
<1>14. CASE CloseUnreconciled(p)
  <2>1. CandidatesTyped' /\ BrokerTyped' /\ WorldTyped'
    BY <1>14 DEF CloseUnreconciled
  <2>2. RecordsTyped'
    BY <1>14, <1>a, TransitionTyped DEF CloseUnreconciled
  <2>3. Goto(p, "sweep") \/ Goto(p, "end")
    BY <1>14 DEF CloseUnreconciled, Transition
  <2>4. StepTyped'
    BY <1>14, <2>3, SMTT(30) DEF CloseUnreconciled
  <2>5. HeldTyped'
    BY <1>14 DEF CloseUnreconciled
  <2> QED BY <2>1, <2>2, <2>3, <2>4, <2>5
<1>15. CASE Sweep(p)
  <2>1. RecordsTyped' /\ BrokerTyped' /\ HeldTyped' /\ WorldTyped'
    BY <1>15 DEF Sweep
  <2>2. CandidatesTyped'
    BY <1>15 DEF Sweep
  <2>3. StepTyped'
    BY <1>15 DEF Sweep
  <2> QED BY <2>1, <2>2, <2>3
<1>16. CASE ExitCheck(p)
  <2>1. RecordsTyped' /\ CandidatesTyped' /\ BrokerTyped' /\ WorldTyped'
    BY <1>16 DEF ExitCheck
  <2>2. StepTyped'
    BY <1>16, SMTT(30) DEF ExitCheck
  <2>3. HeldTyped'
    BY <1>16 DEF ExitCheck
  <2> QED BY <2>1, <2>2, <2>3
<1>17. CASE CloseRequest(p)
  <2>1. CandidatesTyped' /\ BrokerTyped' /\ HeldTyped' /\ WorldTyped'
    BY <1>17 DEF CloseRequest
  <2>2. RecordsTyped'
    <3>1. CASE UNCHANGED recVars
      BY <3>1
    <3>2. CASE Transition(p, rec[p], "CLOSE_REQUESTED", rPos[rec[p]], "close", "end")
      BY <3>2, <1>a, TransitionTyped
    <3> QED BY <1>17, <3>1, <3>2 DEF CloseRequest
  <2>3. Goto(p, "close") \/ Goto(p, "end")
    BY <1>17 DEF CloseRequest, Transition
  <2>4. StepTyped'
    BY <1>17, <2>3 DEF CloseRequest
  <2> QED BY <2>1, <2>2, <2>3, <2>4
<1>18. CASE Close(p)
  <2>1. RecordsTyped' /\ CandidatesTyped' /\ HeldTyped'
    BY <1>18 DEF Close
  <2>2. BrokerTyped' /\ StepTyped' /\ WorldTyped'
    BY <1>18, SMTT(30) DEF Close, ClosePosition
  <2> QED BY <2>1, <2>2
<1>19. CASE RecordClosed(p)
  <2>1. CandidatesTyped' /\ BrokerTyped' /\ WorldTyped'
    BY <1>19 DEF RecordClosed
  <2>2. RecordsTyped'
    <3>1. CASE UNCHANGED recVars
      BY <3>1
    <3>2. CASE Transition(p, rec[p], "CLOSED", rPos[rec[p]], AfterExit(p), "closeFailed")
      BY <3>2, <1>a, TransitionTyped
    <3>3. CASE Save(rec[p], "CLOSED", rPos[rec[p]])
      BY <3>3, <1>a, SaveTyped
    <3> QED BY <1>19, <3>1, <3>2, <3>3 DEF RecordClosed
  <2>3. Goto(p, "decide") \/ Goto(p, "list") \/ Goto(p, "closeFailed") \/ Goto(p, "end")
    BY <1>19 DEF RecordClosed, Transition, AfterExit
  <2>4. StepTyped'
    BY <1>19, <2>3 DEF RecordClosed
  <2>5. HeldTyped'
    <3>1. CASE UNCHANGED <<exited, open, rec>>
      BY <1>19, <3>1 DEF RecordClosed
    <3>2. CASE /\ exited' = [exited EXCEPT ![p] = "closed"]
               /\ open' = [open EXCEPT ![p] = FALSE]
               /\ rec' = [rec EXCEPT ![p] = NoRecord]
      BY <1>19, <3>2 DEF RecordClosed
    <3> QED BY <1>19, <3>1, <3>2 DEF RecordClosed
  <2> QED BY <2>1, <2>2, <2>3, <2>4, <2>5
<1>20. CASE RecordCloseFailed(p)
  <2>1. CandidatesTyped' /\ BrokerTyped' /\ WorldTyped'
    BY <1>20 DEF RecordCloseFailed
  <2>2. RecordsTyped'
    BY <1>20, <1>a, TransitionTyped DEF RecordCloseFailed, AfterExit
  <2>3. Goto(p, "decide") \/ Goto(p, "list") \/ Goto(p, "end")
    BY <1>20 DEF RecordCloseFailed, Transition, AfterExit
  <2>4. StepTyped'
    BY <1>20, <2>3 DEF RecordCloseFailed
  <2>5. HeldTyped'
    BY <1>20 DEF RecordCloseFailed
  <2> QED BY <2>1, <2>2, <2>3, <2>4, <2>5
<1> QED
  BY <1>1, <1>2, <1>3, <1>4, <1>5, <1>6, <1>7, <1>8, <1>9, <1>10, <1>11, <1>12, <1>13, <1>14, <1>15, <1>16, <1>17, <1>18, <1>19, <1>20 DEF PhaseA

-----------------------------------------------------------------------------
\* Every step of PhaseB keeps the type invariant.
LEMMA PhaseBTyped ==
  ASSUME Typed, NEW p \in Process, PhaseB(p)
  PROVE  Typed'
<1> USE DEF Typed, RecordsTyped, CandidatesTyped, BrokerTyped, StepTyped, HeldTyped, WorldTyped,
            MaybeRecord, MaybePosition, MaybeStatus, PcValues, None, RecordStatus,
            CandidateStatus, recVars, candVars, brokerVars, heldVars, worldVars, Goto, Audited
<1>a. rec[p] \in Record => rPos[rec[p]] \in MaybePosition
  OBVIOUS
<1>1. CASE Decide(p)
  <2>1. RecordsTyped' /\ CandidatesTyped' /\ BrokerTyped' /\ WorldTyped'
    BY <1>1 DEF Decide
  <2>2. StepTyped'
    BY <1>1 DEF Decide
  <2>3. HeldTyped'
    BY <1>1 DEF Decide
  <2> QED BY <2>1, <2>2, <2>3
<1>2. CASE ListApproved(p)
  <2>1. RecordsTyped' /\ CandidatesTyped' /\ BrokerTyped' /\ WorldTyped'
    BY <1>2 DEF ListApproved
  <2>2. StepTyped'
    BY <1>2 DEF ListApproved
  <2>3. HeldTyped'
    BY <1>2 DEF ListApproved
  <2> QED BY <2>1, <2>2, <2>3
<1>3. CASE NextApproved(p)
  <2>1. RecordsTyped' /\ CandidatesTyped' /\ BrokerTyped' /\ WorldTyped'
    BY <1>3 DEF NextApproved
  <2>2. StepTyped'
    BY <1>3 DEF NextApproved
  <2>3. HeldTyped'
    BY <1>3, SMTT(30) DEF NextApproved
  <2> QED BY <2>1, <2>2, <2>3
<1>4. CASE CreateRecord(p)
  <2>1. CandidatesTyped' /\ BrokerTyped' /\ WorldTyped'
    BY <1>4 DEF CreateRecord
  <2>2. RecordsTyped'
    BY <1>4, InsertTyped, ZenonT(60) DEF CreateRecord
  <2>3. StepTyped'
    BY <1>4, SMTT(30) DEF CreateRecord
  <2>4. HeldTyped'
    BY <1>4, SMTT(30) DEF CreateRecord
  <2> QED BY <2>1, <2>2, <2>3, <2>4
<1>5. CASE EvaluateRisk(p)
  <2>1. CandidatesTyped' /\ BrokerTyped' /\ HeldTyped' /\ WorldTyped'
    BY <1>5 DEF EvaluateRisk
  <2>2. RecordsTyped'
    BY <1>5, TransitionTyped DEF EvaluateRisk
  <2>3. Goto(p, "submit") \/ Goto(p, "candFailed")
    BY <1>5 DEF EvaluateRisk, Transition
  <2>4. StepTyped'
    BY <1>5, <2>3 DEF EvaluateRisk
  <2> QED BY <2>1, <2>2, <2>3, <2>4
<1>6. CASE Submit(p)
  <2>1. CandidatesTyped' /\ BrokerTyped' /\ HeldTyped' /\ WorldTyped'
    BY <1>6 DEF Submit
  <2>2. RecordsTyped'
    BY <1>6, TransitionTyped DEF Submit
  <2>3. Goto(p, "order") \/ Goto(p, "candFailed")
    BY <1>6 DEF Submit, Transition
  <2>4. StepTyped'
    BY <1>6, <2>3 DEF Submit
  <2> QED BY <2>1, <2>2, <2>3, <2>4
<1>7. CASE PlaceOrder(p)
  <2>1. RecordsTyped' /\ CandidatesTyped' /\ WorldTyped'
    BY <1>7 DEF PlaceOrder
  <2>2. BrokerTyped'
    BY <1>7, SMTT(30) DEF PlaceOrder
  <2>3. StepTyped'
    <3>1. CASE Goto(p, "execFailed")
      BY <1>7, <3>1 DEF PlaceOrder
    <3>2. CASE Goto(p, "await")
      BY <1>7, <3>2 DEF PlaceOrder
    <3> QED BY <1>7, <3>1, <3>2 DEF PlaceOrder
  <2>4. HeldTyped'
    BY <1>7 DEF PlaceOrder
  <2> QED BY <2>1, <2>2, <2>3, <2>4
<1>8. CASE AwaitPosition(p)
  <2>1. RecordsTyped' /\ CandidatesTyped' /\ BrokerTyped' /\ HeldTyped'
    BY <1>8 DEF AwaitPosition
  <2>2. StepTyped'
    BY <1>8 DEF AwaitPosition
  <2>3. WorldTyped'
    BY <1>8 DEF AwaitPosition
  <2> QED BY <2>1, <2>2, <2>3
<1>9. CASE RecordOpened(p)
  <2>1. CandidatesTyped' /\ BrokerTyped' /\ HeldTyped' /\ WorldTyped'
    BY <1>9 DEF RecordOpened
  <2>2. RecordsTyped'
    BY <1>9, TransitionTyped DEF RecordOpened
  <2>3. Goto(p, "candExecuted") \/ Goto(p, "candFailed")
    BY <1>9 DEF RecordOpened, Transition
  <2>4. StepTyped'
    BY <1>9, <2>3 DEF RecordOpened
  <2> QED BY <2>1, <2>2, <2>3, <2>4
<1>10. CASE RecordExecutionFailed(p)
  <2>1. CandidatesTyped' /\ BrokerTyped' /\ HeldTyped' /\ WorldTyped'
    BY <1>10 DEF RecordExecutionFailed
  <2>2. RecordsTyped'
    BY <1>10, TransitionTyped DEF RecordExecutionFailed
  <2>3. Goto(p, "candFailed")
    BY <1>10 DEF RecordExecutionFailed, Transition
  <2>4. StepTyped'
    BY <1>10, <2>3 DEF RecordExecutionFailed
  <2> QED BY <2>1, <2>2, <2>3, <2>4
<1>11. CASE SellStart(p)
  <2>1. RecordsTyped' /\ CandidatesTyped' /\ BrokerTyped' /\ WorldTyped'
    BY <1>11 DEF SellStart
  <2>2. StepTyped'
    BY <1>11 DEF SellStart
  <2>3. HeldTyped'
    BY <1>11 DEF SellStart
  <2> QED BY <2>1, <2>2, <2>3
<1>12. CASE SellRequestClose(p)
  <2>1. CandidatesTyped' /\ BrokerTyped' /\ HeldTyped' /\ WorldTyped'
    BY <1>12 DEF SellRequestClose
  <2>2. RecordsTyped'
    BY <1>12, <1>a, TransitionTyped DEF SellRequestClose
  <2>3. Goto(p, "sellClose") \/ Goto(p, "candFailed")
    BY <1>12 DEF SellRequestClose, Transition
  <2>4. StepTyped'
    BY <1>12, <2>3 DEF SellRequestClose
  <2> QED BY <2>1, <2>2, <2>3, <2>4
<1>13. CASE SellClosePosition(p)
  <2>1. RecordsTyped' /\ CandidatesTyped' /\ HeldTyped'
    BY <1>13 DEF SellClosePosition
  <2>2. BrokerTyped' /\ StepTyped' /\ WorldTyped'
    BY <1>13, SMTT(30) DEF SellClosePosition, ClosePosition
  <2> QED BY <2>1, <2>2
<1>14. CASE SellRecordClosed(p)
  <2>1. CandidatesTyped' /\ BrokerTyped' /\ HeldTyped' /\ WorldTyped'
    BY <1>14 DEF SellRecordClosed
  <2>2. RecordsTyped'
    BY <1>14, <1>a, TransitionTyped DEF SellRecordClosed
  <2>3. Goto(p, "candExecuted") \/ Goto(p, "candFailed")
    BY <1>14 DEF SellRecordClosed, Transition
  <2>4. StepTyped'
    BY <1>14, <2>3 DEF SellRecordClosed
  <2> QED BY <2>1, <2>2, <2>3, <2>4
<1>15. CASE SellRecordCloseFailed(p)
  <2>1. CandidatesTyped' /\ BrokerTyped' /\ HeldTyped' /\ WorldTyped'
    BY <1>15 DEF SellRecordCloseFailed
  <2>2. RecordsTyped'
    BY <1>15, <1>a, TransitionTyped DEF SellRecordCloseFailed
  <2>3. Goto(p, "candFailed")
    BY <1>15 DEF SellRecordCloseFailed, Transition
  <2>4. StepTyped'
    BY <1>15, <2>3 DEF SellRecordCloseFailed
  <2> QED BY <2>1, <2>2, <2>3, <2>4
<1>16. CASE MarkExecuted(p)
  <2>1. RecordsTyped' /\ BrokerTyped' /\ WorldTyped'
    BY <1>16 DEF MarkExecuted
  <2>2. CandidatesTyped'
    BY <1>16, CompareAndSetTyped, ZenonT(60) DEF MarkExecuted
  <2>3. StepTyped'
    <3>1. Goto(p, "approved") \/ Goto(p, "end") \/ Goto(p, "candFailed")
      BY <1>16 DEF MarkExecuted
    <3> QED BY <1>16, <3>1, SMTT(30) DEF MarkExecuted, Drop
  <2>4. HeldTyped'
    <3>1. Drop(p) \/ UNCHANGED <<cand, rec, pos>>
      BY <1>16 DEF MarkExecuted
    <3>2. open' \in [Process -> BOOLEAN]
      <4> DEFINE bought == IF cStatus[cand[p]] = "APPROVED" THEN cand[p] \in BuyCand ELSE open[p]
      <4>1. bought \in BOOLEAN
        <5>1. CASE cStatus[cand[p]] = "APPROVED"
          <6>1. CASE cand[p] \in BuyCand
            BY <5>1, <6>1, SMT
          <6>2. CASE cand[p] \notin BuyCand
            BY <5>1, <6>2, SMT
          <6> QED BY <6>1, <6>2, Zenon
        <5>2. CASE cStatus[cand[p]] # "APPROVED"
          <6>1. bought = open[p]
            BY <5>2, Zenon
          <6> QED BY <6>1
        <5> QED BY <5>1, <5>2, Zenon
      <4>2. UNCHANGED open \/ open' = [open EXCEPT ![p] = bought]
        BY <1>16 DEF MarkExecuted
      <4> HIDE DEF bought
      <4> QED BY <4>1, <4>2
    <3>3. UNCHANGED <<plan, seen, todo, exited>>
      BY <1>16 DEF MarkExecuted
    <3> QED BY <3>1, <3>2, <3>3 DEF Drop
  <2> QED BY <2>1, <2>2, <2>3, <2>4
<1>17. CASE MarkFailed(p)
  <2>1. RecordsTyped' /\ BrokerTyped' /\ WorldTyped'
    BY <1>17 DEF MarkFailed
  <2>2. CandidatesTyped'
    BY <1>17, CompareAndSetTyped, ZenonT(60) DEF MarkFailed
  <2>3. StepTyped'
    BY <1>17 DEF MarkFailed, Drop
  <2>4. HeldTyped'
    BY <1>17 DEF MarkFailed, Drop
  <2> QED BY <2>1, <2>2, <2>3, <2>4
<1>18. CASE FreshDecision(p)
  <2>1. RecordsTyped' /\ BrokerTyped' /\ WorldTyped'
    BY <1>18 DEF FreshDecision
  <2>2. CandidatesTyped'
    BY <1>18 DEF FreshDecision
  <2>3. StepTyped'
    BY <1>18 DEF FreshDecision
  <2>4. HeldTyped'
    BY <1>18 DEF FreshDecision
  <2> QED BY <2>1, <2>2, <2>3, <2>4
<1>19. CASE AutoApprove(p)
  <2>1. RecordsTyped' /\ BrokerTyped' /\ HeldTyped' /\ WorldTyped'
    BY <1>19 DEF AutoApprove
  <2>2. CandidatesTyped'
    BY <1>19, CompareAndSetTyped, ZenonT(60) DEF AutoApprove
  <2>3. StepTyped'
    BY <1>19, SMTT(30) DEF AutoApprove
  <2> QED BY <2>1, <2>2, <2>3
<1>20. CASE AutoRevert(p)
  <2>1. RecordsTyped' /\ BrokerTyped' /\ HeldTyped' /\ WorldTyped'
    BY <1>20 DEF AutoRevert
  <2>2. CandidatesTyped'
    BY <1>20, CompareAndSetTyped, ZenonT(60) DEF AutoRevert
  <2>3. StepTyped'
    BY <1>20 DEF AutoRevert
  <2> QED BY <2>1, <2>2, <2>3
<1> QED
  BY <1>1, <1>2, <1>3, <1>4, <1>5, <1>6, <1>7, <1>8, <1>9, <1>10, <1>11, <1>12, <1>13, <1>14, <1>15, <1>16, <1>17, <1>18, <1>19, <1>20 DEF PhaseB

-----------------------------------------------------------------------------
(* The steps of everybody else, and the theorem *)

\* Processes that start and crash, the operator, time and the broker keep the
\* type invariant.
LEMMA EnvironmentTyped ==
  ASSUME Typed,
         \/ \E p \in Process : Boot(p) \/ Crash(p)
         \/ \E c \in Candidate : Approve(c) \/ Reject(c) \/ Expire(c)
         \/ \E r \in Record : Age(r)
         \/ \E q \in Position : Settle(q) \/ ExternalOpen(q) \/ ExternalClose(q)
  PROVE  Typed'
<1> USE DEF Typed, RecordsTyped, CandidatesTyped, BrokerTyped, StepTyped, HeldTyped, WorldTyped,
            MaybeRecord, MaybePosition, MaybeStatus, PcValues, None, RecordStatus,
            CandidateStatus, recVars, candVars, brokerVars, heldVars, procVars, Goto
<1>1. ASSUME NEW p \in Process, Boot(p) PROVE Typed'
  BY <1>1 DEF Boot
<1>2. ASSUME NEW p \in Process, Crash(p) PROVE Typed'
  <2>1. RecordsTyped' /\ CandidatesTyped' /\ BrokerTyped'
    BY <1>2 DEF Crash
  <2>2. StepTyped'
    BY <1>2 DEF Crash
  <2>3. HeldTyped'
    BY <1>2 DEF Crash
  <2>4. WorldTyped'
    BY <1>2, BoundsAssumption DEF Crash
  <2> QED BY <2>1, <2>2, <2>3, <2>4
<1>3. ASSUME NEW c \in Candidate, Approve(c) \/ Reject(c) PROVE Typed'
  BY <1>3 DEF Approve, Reject
<1>4. ASSUME NEW c \in Candidate, Expire(c) PROVE Typed'
  BY <1>4 DEF Expire
<1>5. ASSUME NEW r \in Record, Age(r) PROVE Typed'
  BY <1>5 DEF Age
<1>6. ASSUME NEW q \in Position, Settle(q) \/ ExternalOpen(q) \/ ExternalClose(q)
      PROVE Typed'
  BY <1>6 DEF Settle, ExternalOpen, ExternalClose
<1> QED BY <1>1, <1>2, <1>3, <1>4, <1>5, <1>6

\* Every variable keeps its type, whatever fails and whoever takes part.
THEOREM TypeCorrect == Spec => []TypeOK
<1>1. Init => Typed
  BY DEF Init, Typed, RecordsTyped, CandidatesTyped, BrokerTyped, StepTyped, HeldTyped,
         WorldTyped, MaybeRecord, MaybePosition, MaybeStatus, PcValues
<1>2. Typed /\ [Next]_vars => Typed'
  <2> SUFFICES ASSUME Typed, [Next]_vars PROVE Typed'
    OBVIOUS
  <2>1. CASE \E p \in Process : Step(p)
    BY <2>1, PhaseATyped, PhaseBTyped DEF Step
  <2>2. CASE UNCHANGED vars
    BY <2>2 DEF vars, Typed, RecordsTyped, CandidatesTyped, BrokerTyped, StepTyped,
                HeldTyped, WorldTyped
  <2> QED BY <2>1, <2>2, EnvironmentTyped DEF Next
<1>3. Typed => TypeOK
  BY TypedImpliesTypeOK
<1> QED BY <1>1, <1>2, <1>3, PTL DEF Spec

-----------------------------------------------------------------------------
(* One active record *)

\* The only way a status is ever written: the record becomes active only while
\* no other record is.
GuardedWrite ==
  \/ UNCHANGED rStatus
  \/ \E r, status :
       /\ status \in SlotActive => \A s \in Record \ {r} : rStatus[s] \notin SlotActive
       /\ rStatus' = [rStatus EXCEPT ![r] = status]

\* A write that does not clash is guarded.
LEMMA UnclashedIsGuarded ==
  ASSUME NEW r, NEW status, NEW q, ~Clash(r, status, q),
         rStatus' = [rStatus EXCEPT ![r] = status]
  PROVE  GuardedWrite
BY DEF Clash, GuardedWrite

\* So is every lifecycle transition.
LEMMA TransitionGuarded ==
  ASSUME NEW p, NEW r, NEW status, NEW q, NEW ok, NEW failed,
         Transition(p, r, status, q, ok, failed)
  PROVE  GuardedWrite
<1>1. CASE ~Clash(r, status, q) /\ Save(r, status, q)
  BY <1>1, UnclashedIsGuarded DEF Save
<1>2. CASE UNCHANGED recVars
  BY <1>2 DEF recVars, GuardedWrite
<1> QED BY <1>1, <1>2 DEF Transition

\* Phase A writes records guardedly.
LEMMA PhaseAGuarded ==
  ASSUME NEW p \in Process, PhaseA(p)
  PROVE  GuardedWrite
<1>1. CASE \/ BeginCycle(p) \/ EndCycle(p) \/ RecoverScan(p)
           \/ ReconcileUnsafe(p) \/ ReconcileNothingHeld(p) \/ ReconcileVanished(p)
           \/ ReconcileMatched(p) \/ ReconcileOrphan(p) \/ AdoptRefused(p)
           \/ RepairCandidate(p) \/ Sweep(p) \/ ExitCheck(p) \/ Close(p)
  BY <1>1 DEF GuardedWrite, recVars, BeginCycle, EndCycle, RecoverScan, ReconcileUnsafe,
              ReconcileNothingHeld, ReconcileVanished, ReconcileMatched, ReconcileOrphan,
              AdoptRefused, RepairCandidate, Sweep, ExitCheck, Close
<1>2. CASE RecoverWrite(p)
  <2> DEFINE to == Resolution(plan[p])
  <2>1. CASE UNCHANGED recVars
    BY <2>1 DEF recVars, GuardedWrite
  <2>2. CASE ~Clash(rec[p], to, pos[p]) /\ Save(rec[p], to, pos[p])
    BY <2>2, UnclashedIsGuarded DEF Save
  <2> QED BY <1>2, <2>1, <2>2 DEF RecoverWrite
<1>3. CASE Adopt(p)
  BY <1>3, UnclashedIsGuarded DEF Adopt, Insert
<1>4. CASE Reopen(p) \/ CloseUnreconciled(p) \/ RecordCloseFailed(p)
  BY <1>4, TransitionGuarded DEF Reopen, CloseUnreconciled, RecordCloseFailed
<1>5. CASE CloseRequest(p)
  <2>1. CASE UNCHANGED recVars
    BY <2>1 DEF recVars, GuardedWrite
  <2>2. CASE Transition(p, rec[p], "CLOSE_REQUESTED", rPos[rec[p]], "close", "end")
    BY <2>2, TransitionGuarded
  <2> QED BY <1>5, <2>1, <2>2 DEF CloseRequest
<1>6. CASE RecordClosed(p)
  <2>1. CASE UNCHANGED recVars
    BY <2>1 DEF recVars, GuardedWrite
  <2>2. CASE Transition(p, rec[p], "CLOSED", rPos[rec[p]], AfterExit(p), "closeFailed")
    BY <2>2, TransitionGuarded
  <2>3. CASE Save(rec[p], "CLOSED", rPos[rec[p]])
    BY <2>3 DEF Save, GuardedWrite, SlotActive
  <2> QED BY <1>6, <2>1, <2>2, <2>3 DEF RecordClosed
<1> QED BY <1>1, <1>2, <1>3, <1>4, <1>5, <1>6 DEF PhaseA

\* So does Phase B.
LEMMA PhaseBGuarded ==
  ASSUME NEW p \in Process, PhaseB(p)
  PROVE  GuardedWrite
<1>1. CASE \/ Decide(p) \/ ListApproved(p) \/ NextApproved(p) \/ PlaceOrder(p)
           \/ AwaitPosition(p) \/ SellStart(p) \/ SellClosePosition(p) \/ MarkExecuted(p)
           \/ MarkFailed(p) \/ FreshDecision(p) \/ AutoApprove(p) \/ AutoRevert(p)
  BY <1>1 DEF GuardedWrite, recVars, Decide, ListApproved, NextApproved, PlaceOrder,
              AwaitPosition, SellStart, SellClosePosition, MarkExecuted, MarkFailed,
              FreshDecision, AutoApprove, AutoRevert
<1>2. CASE CreateRecord(p)
  <2>1. CASE UNCHANGED recVars
    BY <2>1 DEF recVars, GuardedWrite
  <2>2. CASE \E r \in Record : /\ ~Clash(r, "DECISION_CREATED", NoPosition)
                               /\ Insert(r, "DECISION_CREATED", cand[p], NoPosition)
    BY <2>2, UnclashedIsGuarded DEF Insert
  <2> QED BY <1>2, <2>1, <2>2 DEF CreateRecord
<1>3. CASE EvaluateRisk(p)
  BY <1>3, TransitionGuarded DEF EvaluateRisk
<1>4. CASE \/ Submit(p) \/ RecordOpened(p) \/ RecordExecutionFailed(p) \/ SellRequestClose(p)
           \/ SellRecordClosed(p) \/ SellRecordCloseFailed(p)
  BY <1>4, TransitionGuarded DEF Submit, RecordOpened, RecordExecutionFailed,
           SellRequestClose, SellRecordClosed, SellRecordCloseFailed
<1> QED BY <1>1, <1>2, <1>3, <1>4 DEF PhaseB

\* At most one record of the strategy and instrument is ever active: the slot
\* is never occupied twice, however many processes share the table and whatever
\* fails or crashes in between.
THEOREM OneActive == Spec => []OneActiveRecord
<1>1. Init => OneActiveRecord
  BY DEF Init, OneActiveRecord, SlotActive, None
<1>2. TypeOK /\ OneActiveRecord /\ [Next]_vars => OneActiveRecord'
  <2> SUFFICES ASSUME TypeOK, OneActiveRecord, [Next]_vars PROVE OneActiveRecord'
    OBVIOUS
  <2>1. GuardedWrite
    <3>1. CASE \E p \in Process : Step(p)
      BY <3>1, PhaseAGuarded, PhaseBGuarded DEF Step
    <3>2. CASE \E p \in Process : Boot(p) \/ Crash(p)
      BY <3>2 DEF Boot, Crash, recVars, GuardedWrite
    <3>3. CASE \E c \in Candidate : Approve(c) \/ Reject(c) \/ Expire(c)
      BY <3>3 DEF Approve, Reject, Expire, recVars, GuardedWrite
    <3>4. CASE \E r \in Record : Age(r)
      BY <3>4 DEF Age, GuardedWrite
    <3>5. CASE \E q \in Position : Settle(q) \/ ExternalOpen(q) \/ ExternalClose(q)
      BY <3>5 DEF Settle, ExternalOpen, ExternalClose, recVars, GuardedWrite
    <3>6. CASE UNCHANGED vars
      BY <3>6 DEF vars, GuardedWrite
    <3> QED BY <3>1, <3>2, <3>3, <3>4, <3>5, <3>6 DEF Next
  <2> QED BY <2>1 DEF GuardedWrite, OneActiveRecord, TypeOK
<1> QED BY <1>1, <1>2, TypeCorrect, PTL DEF Spec

-----------------------------------------------------------------------------
(* Candidates *)

\* One step moves every existing candidate legally, or not at all.
LegalMoves ==
  \A c \in Candidate :
    cStatus[c] # None /\ cStatus'[c] # cStatus[c]
      => <<cStatus[c], cStatus'[c]>> \in ValidCandidateTransitions

\* A compare-and-set along an edge of the graph moves candidates legally.
LEMMA CompareAndSetLegal ==
  ASSUME TypeOK, NEW c, NEW from, NEW to, NEW r,
         <<from, to>> \in ValidCandidateTransitions, CompareAndSet(c, from, to, r)
  PROVE  LegalMoves
<1>1. CASE cStatus[c] = from /\ cStatus' = [cStatus EXCEPT ![c] = to]
  BY <1>1 DEF LegalMoves, TypeOK
<1>2. CASE UNCHANGED candVars
  BY <1>2 DEF LegalMoves, candVars
<1> QED BY <1>1, <1>2 DEF CompareAndSet

\* Every candidate write of a cycle is a compare-and-set along such an edge, the
\* sweep's expiry, or the creation of a candidate.
LEMMA StepLegal ==
  ASSUME TypeOK, NEW p \in Process, Step(p)
  PROVE  LegalMoves
<1> USE DEF ValidCandidateTransitions
<1>1. CASE UNCHANGED cStatus
  BY <1>1 DEF LegalMoves
<1>2. CASE RepairCandidate(p)
  <2>1. UNCHANGED candVars \/ CompareAndSet(rCand[rec[p]], "APPROVED", "EXECUTED", rec[p])
    BY <1>2 DEF RepairCandidate
  <2> QED BY <1>1, <2>1, CompareAndSetLegal DEF candVars
<1>3. CASE Sweep(p)
  <2>1. PICK S \in SUBSET { c \in overdue : cStatus[c] \in {"PENDING", "APPROVED"} } :
          cStatus' = [c \in Candidate |-> IF c \in S THEN "EXPIRED" ELSE cStatus[c]]
    BY <1>3 DEF Sweep
  <2> QED BY <2>1 DEF LegalMoves
<1>4. CASE MarkExecuted(p)
  <2>1. UNCHANGED candVars \/ CompareAndSet(cand[p], "APPROVED", "EXECUTED", rec[p])
    BY <1>4 DEF MarkExecuted
  <2> QED BY <1>1, <2>1, CompareAndSetLegal DEF candVars
<1>5. CASE MarkFailed(p) \/ AutoRevert(p)
  <2>1. UNCHANGED candVars \/ CompareAndSet(cand[p], "APPROVED", "FAILED", cRecord[cand[p]])
    BY <1>5 DEF MarkFailed, AutoRevert
  <2> QED BY <1>1, <2>1, CompareAndSetLegal DEF candVars
<1>6. CASE AutoApprove(p)
  <2>1. UNCHANGED candVars \/ CompareAndSet(cand[p], "PENDING", "APPROVED", cRecord[cand[p]])
    BY <1>6 DEF AutoApprove
  <2> QED BY <1>1, <2>1, CompareAndSetLegal DEF candVars
<1>7. CASE FreshDecision(p)
  <2>1. UNCHANGED cStatus \/ \E c \in Candidate : /\ cStatus[c] = None
                                                  /\ cStatus' = [cStatus EXCEPT ![c] = "PENDING"]
    BY <1>7 DEF FreshDecision
  <2> QED BY <1>1, <2>1 DEF LegalMoves, TypeOK
<1>8. CASE PhaseA(p) /\ ~RepairCandidate(p) /\ ~Sweep(p)
  <2>1. UNCHANGED cStatus
    BY <1>8 DEF PhaseA, candVars, BeginCycle, EndCycle, RecoverScan, RecoverWrite,
                ReconcileUnsafe, ReconcileNothingHeld, ReconcileVanished, ReconcileMatched,
                ReconcileOrphan, Adopt, AdoptRefused, Reopen, CloseUnreconciled, ExitCheck,
                CloseRequest, Close, RecordClosed, RecordCloseFailed
  <2> QED BY <1>1, <2>1
<1>9. CASE \/ Decide(p) \/ ListApproved(p) \/ NextApproved(p) \/ CreateRecord(p)
           \/ EvaluateRisk(p) \/ Submit(p) \/ PlaceOrder(p) \/ AwaitPosition(p)
           \/ RecordOpened(p) \/ RecordExecutionFailed(p) \/ SellStart(p)
           \/ SellRequestClose(p) \/ SellClosePosition(p) \/ SellRecordClosed(p)
           \/ SellRecordCloseFailed(p)
  <2>1. UNCHANGED cStatus
    BY <1>9 DEF candVars, Decide, ListApproved, NextApproved, CreateRecord, EvaluateRisk,
                Submit, PlaceOrder, AwaitPosition, RecordOpened, RecordExecutionFailed,
                SellStart, SellRequestClose, SellClosePosition, SellRecordClosed,
                SellRecordCloseFailed
  <2> QED BY <1>1, <2>1
<1> QED BY <1>2, <1>3, <1>4, <1>5, <1>6, <1>7, <1>8, <1>9 DEF Step, PhaseB

\* So does every step of the system.
LEMMA NextLegal ==
  ASSUME TypeOK, Next
  PROVE  LegalMoves
<1>1. CASE \E p \in Process : Step(p)
  BY <1>1, StepLegal
<1>2. CASE \E p \in Process : Boot(p) \/ Crash(p)
  BY <1>2 DEF Boot, Crash, candVars, LegalMoves
<1>3. CASE \E c \in Candidate : Approve(c) \/ Reject(c) \/ Expire(c)
  BY <1>3 DEF Approve, Reject, Expire, candVars, LegalMoves, TypeOK, ValidCandidateTransitions
<1>4. CASE \E r \in Record : Age(r)
  BY <1>4 DEF Age, candVars, LegalMoves
<1>5. CASE \E q \in Position : Settle(q) \/ ExternalOpen(q) \/ ExternalClose(q)
  BY <1>5 DEF Settle, ExternalOpen, ExternalClose, candVars, LegalMoves
<1> QED BY <1>1, <1>2, <1>3, <1>4, <1>5 DEF Next

\* No candidate is ever moved off its status graph: an EXECUTED, FAILED,
\* REJECTED or EXPIRED candidate stays what it is, whoever races for it.
THEOREM CandidatesMoveLegally == Spec => CandidateMovesLegally
<1>1. TypeOK /\ [Next]_vars => [LegalMoves]_vars
  BY NextLegal
<1> QED BY <1>1, TypeCorrect, PTL DEF Spec, CandidateMovesLegally, LegalMoves
=============================================================================
