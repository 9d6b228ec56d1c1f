--------------------------- MODULE ProtectionPhase ---------------------------
(***************************************************************************)
(* Phase A of a runtime cycle (runInstrumentPhaseA): recover what a crash   *)
(* left before OPEN, reconcile the durable records with the broker's own    *)
(* portfolio, repair the originating candidate, expire overdue candidates,  *)
(* and close the position when a protection trigger fires.  Nothing here    *)
(* ever enters a position.  The automatic close is shared with Phase B.     *)
(***************************************************************************)
EXTENDS ExecutionState

\* attemptCycle(): isCycleRunning admits one cycle of a process at a time.
BeginCycle(p) ==
  /\ pc[p] = "idle"
  /\ Goto(p, "recover")
  /\ UNCHANGED <<candVars, recVars, brokerVars, heldVars, worldVars, tracked>>

\* The cycle returned or threw: its local values are gone.
EndCycle(p) ==
  /\ pc[p] = "end"
  /\ Goto(p, "idle")
  /\ plan' = [plan EXCEPT ![p] = None]
  /\ cand' = [cand EXCEPT ![p] = NoCand]
  /\ rec' = [rec EXCEPT ![p] = NoRecord]
  /\ seen' = [seen EXCEPT ![p] = None]
  /\ pos' = [pos EXCEPT ![p] = NoPosition]
  /\ open' = [open EXCEPT ![p] = FALSE]
  /\ todo' = [todo EXCEPT ![p] = {}]
  /\ exited' = [exited EXCEPT ![p] = None]
  /\ UNCHANGED <<candVars, recVars, brokerVars, worldVars, tracked>>

-----------------------------------------------------------------------------
(* recoverStaleLifecycleRecords *)

\* Mutant: the sweep looks only at what never reached the broker.
DueBeforeSubmission == { r \in stale : rStatus[r] \in {"DECISION_CREATED", "APPROVED"} }

DueForRecovery == { r \in stale : rStatus[r] \in PreOpenRecoverable }

ContradictsCandidate(r) == rCand[r] \in Candidate /\ cStatus[rCand[r]] = "EXECUTED"

\* Mutant: the adapter's own list decides for every status, as before submission.
VerdictsFromAdapter(p, r) ==
  { IF tracked[p] = {} THEN <<"abandon", NoPosition>> ELSE <<"ambiguous", NoPosition>> }

\* What the sweep may conclude about r, and the position it correlates r with.
\* Before EXECUTION_SUBMITTED only the adapter's own list is consulted; after
\* it only the broker's portfolio can tell, and a pending order is not in it.
Verdicts(p, r) ==
  LET ambiguous == <<"ambiguous", NoPosition>>
      abandon   == <<"abandon", NoPosition>>
      claimed(q) == \E s \in Record \ {r} : rPos[s] = q
  IN  IF ContradictsCandidate(r) THEN { ambiguous }
      ELSE IF rStatus[r] \in {"DECISION_CREATED", "APPROVED"}
      THEN { IF tracked[p] = {} THEN abandon ELSE ambiguous }
      ELSE { v \in {ambiguous} : May("broker") \/ Cardinality(Live) > 1 }
           \cup { v \in {abandon} : Live = {} }
           \cup { IF claimed(q) THEN abandon ELSE <<"correlate", q>> :
                    q \in { q \in Live : Live = {q} } }

RecoverScan(p) ==
  /\ pc[p] = "recover"
  /\ \/ /\ DueForRecovery = {}
        /\ Goto(p, "reconcile")
        /\ UNCHANGED <<plan, rec, seen, pos, tracked>>
     \/ \E r \in DueForRecovery : \E v \in Verdicts(p, r) :
        /\ plan' = [plan EXCEPT ![p] = v[1]]
        /\ rec' = [rec EXCEPT ![p] = r]
        /\ seen' = [seen EXCEPT ![p] = rStatus[r]]
        /\ pos' = [pos EXCEPT ![p] = v[2]]
        /\ tracked' = [tracked EXCEPT ![p] = @ \cup ({v[2]} \ {NoPosition})]
        /\ Goto(p, "recoverWrite")
  /\ UNCHANGED <<candVars, recVars, brokerVars, worldVars, cand, open, todo, exited>>

\* Mutant: a status of its own for what was given up, unknown to the table.
ResolutionRenamed(verdict) == IF verdict = "correlate" THEN "OPEN" ELSE "ABANDONED"

\* abandon(), markAmbiguous() and the correlation audit BEFORE they write, so a
\* failed audit leaves the row as it was and the next cycle tries again.
Resolution(verdict) ==
  CASE verdict = "abandon"   -> "EXECUTION_ABANDONED"
    [] verdict = "ambiguous" -> "EXECUTION_RECONCILIATION_REQUIRED"
    [] OTHER                 -> "OPEN"        \* correlated with its position

RecoverWrite(p) ==
  LET to   == Resolution(plan[p])
      kept == to = seen[p]        \* still ambiguous: nothing to persist
      bad  == ~kept /\ Clash(rec[p], to, pos[p])
  IN  /\ pc[p] = "recoverWrite"
      /\ \/ kept /\ Goto(p, "reconcile") /\ UNCHANGED recVars
         \/ ~kept /\ ~bad /\ Save(rec[p], to, pos[p]) /\ Goto(p, "reconcile")
         \/ /\ bad \/ May("audit") \/ May("store")
            /\ Goto(p, "end")
            /\ UNCHANGED recVars
      /\ plan' = [plan EXCEPT ![p] = None]
      /\ rec' = [rec EXCEPT ![p] = NoRecord]
      /\ seen' = [seen EXCEPT ![p] = None]
      /\ pos' = [pos EXCEPT ![p] = NoPosition]
      /\ UNCHANGED <<candVars, brokerVars, worldVars, tracked, cand, open, todo, exited>>

-----------------------------------------------------------------------------
(* reconcileBrokerPosition: the durable records against the live portfolio *)

LocalActive == { r \in Record : rStatus[r] \in PositionActive }
Unresolved  == \E r \in LocalActive : rStatus[r] = "EXECUTION_RECONCILIATION_REQUIRED"
Matching    == { r \in Record : rPos[r] \in Live }

\* Reconciliation fails closed rather than guess which record or position counts.
CannotReconcile ==
  \/ Cardinality(LocalActive) > 1
  \/ /\ ~Unresolved
     /\ \/ May("broker")
        \/ Cardinality(Live) > 1 \/ Cardinality(Matching) > 1
        \/ \E r \in Matching : rStatus[r] \notin OpenStatuses \cup {"CLOSE_FAILED"}

MayReconcile ==
  /\ Cardinality(LocalActive) <= 1 /\ ~Unresolved
  /\ Cardinality(Live) <= 1 /\ Cardinality(Matching) <= 1

\* Mutant: a cycle that cannot reconcile stops before the expiry sweep.
ReconcileUnsafeStops(p) ==
  /\ pc[p] = "reconcile"
  /\ CannotReconcile
  /\ Goto(p, "end")
  /\ UNCHANGED <<candVars, recVars, brokerVars, heldVars, worldVars, tracked>>

ReconcileUnsafe(p) ==
  /\ pc[p] = "reconcile"
  /\ CannotReconcile
  /\ Audited(p, "sweepUnsafe")
  /\ UNCHANGED <<candVars, recVars, brokerVars, heldVars, worldVars, tracked>>

\* An unresolved record counts as an open position nobody may act on; with no
\* record and no position there is nothing to protect.
ReconcileNothingHeld(p) ==
  /\ pc[p] = "reconcile"
  /\ \/ Cardinality(LocalActive) = 1 /\ Unresolved
     \/ MayReconcile /\ Live = {} /\ LocalActive = {}
  /\ open' = [open EXCEPT ![p] = Unresolved]
  /\ Goto(p, "sweep")
  /\ UNCHANGED <<candVars, recVars, brokerVars, worldVars, tracked, plan, cand, rec, seen, pos, todo, exited>>

\* reconcileLocalActiveButBrokerAbsent: the position of this record is gone.
ReconcileVanished(p) ==
  /\ pc[p] = "reconcile"
  /\ MayReconcile /\ Live = {}
  /\ \E r \in LocalActive :
       /\ rStatus[r] \in ReconcilableToClosed
       /\ rec' = [rec EXCEPT ![p] = r]
       /\ Goto(p, "repairVanished")
  /\ UNCHANGED <<candVars, recVars, brokerVars, worldVars, tracked, plan, cand, seen, pos, open, todo, exited>>

\* Mutants: the match leaves CLOSE_FAILED as it is; or the adapter untold.
ReconcileMatchedAs(p, registered, reopened) ==
  /\ pc[p] = "reconcile"
  /\ MayReconcile
  /\ \E r \in Matching :
       /\ rStatus[r] \in OpenStatuses \cup {"CLOSE_FAILED"}
       /\ tracked' = [tracked EXCEPT ![p] = @ \cup { rPos[s] : s \in {r} \cap registered }]
       /\ rec' = [rec EXCEPT ![p] = r]
       /\ seen' = [seen EXCEPT ![p] = rStatus[r]]
       /\ open' = [open EXCEPT ![p] = TRUE]
       /\ Goto(p, IF reopened /\ rStatus[r] = "CLOSE_FAILED" THEN "reopen" ELSE "repair")
  /\ UNCHANGED <<candVars, recVars, brokerVars, worldVars, plan, cand, pos, todo, exited>>

ReconcileMatchedNotReopened(p)  == ReconcileMatchedAs(p, Record, FALSE)
ReconcileMatchedUnregistered(p) == ReconcileMatchedAs(p, {}, TRUE)

\* The live position has its record: register it with this process's adapter,
\* which a restart has emptied, or nothing could ever close it.
ReconcileMatched(p) ==
  /\ pc[p] = "reconcile"
  /\ MayReconcile
  /\ \E r \in Matching :
       /\ rStatus[r] \in OpenStatuses \cup {"CLOSE_FAILED"}
       /\ tracked' = [tracked EXCEPT ![p] = @ \cup {rPos[r]}]
       /\ rec' = [rec EXCEPT ![p] = r]
       /\ seen' = [seen EXCEPT ![p] = rStatus[r]]
       /\ open' = [open EXCEPT ![p] = TRUE]
       /\ Audited(p, IF rStatus[r] = "CLOSE_FAILED" THEN "reopen" ELSE "repair")
  /\ UNCHANGED <<candVars, recVars, brokerVars, worldVars, plan, cand, pos, todo, exited>>

\* Nobody recorded this position: adopt it into the adapter, then durably.
ReconcileOrphan(p) ==
  /\ pc[p] = "reconcile"
  /\ MayReconcile /\ Matching = {}
  /\ \E q \in Live :
       /\ tracked' = [tracked EXCEPT ![p] = @ \cup {q}]
       /\ pos' = [pos EXCEPT ![p] = q]
       /\ Goto(p, "adopt")
  /\ UNCHANGED <<candVars, recVars, brokerVars, worldVars, plan, cand, rec, seen, open, todo, exited>>

Adopt(p) ==
  /\ pc[p] = "adopt"
  /\ \E r \in Record :
       /\ ~Clash(r, "OPEN", pos[p])
       /\ Insert(r, "OPEN", NoCand, pos[p])
       /\ rec' = [rec EXCEPT ![p] = r]
  /\ seen' = [seen EXCEPT ![p] = "OPEN"]
  /\ open' = [open EXCEPT ![p] = TRUE]
  /\ pos' = [pos EXCEPT ![p] = NoPosition]
  /\ Audited(p, "repair")
  /\ UNCHANGED <<candVars, brokerVars, worldVars, tracked, plan, cand, todo, exited>>

\* The uniqueness constraint refused the adoption: reconciliation failed.
AdoptRefused(p) ==
  /\ pc[p] = "adopt"
  /\ \/ /\ \E r \in Record : rStatus[r] = None /\ Clash(r, "OPEN", pos[p])
        /\ Audited(p, "sweepUnsafe")
     \/ /\ Full \/ May("store")
        /\ Goto(p, "end")
  /\ UNCHANGED <<candVars, recVars, brokerVars, heldVars, worldVars, tracked>>

Reopen(p) ==
  /\ pc[p] = "reopen"
  /\ Transition(p, rec[p], "OPEN", rPos[rec[p]], "repair", "end")
  /\ seen' = [seen EXCEPT ![p] = "OPEN"]
  /\ UNCHANGED <<candVars, brokerVars, worldVars, tracked, plan, cand, rec, pos, open, todo, exited>>

\* Mutant: an APPROVED candidate is only reported, as a FAILED one is.
RepairOnlyReports(p) ==
  /\ pc[p] \in {"repair", "repairVanished"}
  /\ Goto(p, IF pc[p] = "repair" THEN "sweep" ELSE "closeUnreconciled")
  /\ UNCHANGED <<candVars, recVars, brokerVars, heldVars, worldVars, tracked>>

\* repairCandidateForConfirmedLifecycle: the record proves its candidate ran.
\* A FAILED candidate is only reported.  Before CLOSED_UNRECONCILED frees the
\* slot the repair is what keeps an APPROVED candidate from running again.
RepairCandidate(p) ==
  LET c    == rCand[rec[p]]
      next == IF pc[p] = "repair" THEN "sweep" ELSE "closeUnreconciled"
      due  == c \in Candidate /\ cStatus[c] = "APPROVED"
  IN  /\ pc[p] \in {"repair", "repairVanished"}
      /\ \/ due /\ CompareAndSet(c, "APPROVED", "EXECUTED", rec[p]) /\ Goto(p, next)
         \/ ~due /\ UNCHANGED candVars /\ Goto(p, next)
         \/ /\ May("audit") /\ due
            /\ CompareAndSet(c, "APPROVED", "EXECUTED", rec[p]) /\ Goto(p, "end")
         \/ /\ May("store") /\ c \in Candidate
            /\ UNCHANGED candVars /\ Goto(p, "end")
      /\ UNCHANGED <<recVars, brokerVars, heldVars, worldVars, tracked>>

CloseUnreconciled(p) ==
  /\ pc[p] = "closeUnreconciled"
  /\ Transition(p, rec[p], "CLOSED_UNRECONCILED", rPos[rec[p]], "sweep", "end")
  /\ rec' = [rec EXCEPT ![p] = NoRecord]
  /\ UNCHANGED <<candVars, brokerVars, worldVars, tracked, plan, cand, seen, pos, open, todo, exited>>

-----------------------------------------------------------------------------
\* sweepExpiredCandidates, which runs also when reconciliation refused to.
Sweep(p) ==
  LET due  == { c \in overdue : cStatus[c] \in {"PENDING", "APPROVED"} }
      expire(S) == cStatus' = [c \in Candidate |-> IF c \in S THEN "EXPIRED" ELSE cStatus[c]]
  IN  /\ pc[p] \in {"sweep", "sweepUnsafe"}
      /\ \/ expire(due) /\ Goto(p, IF pc[p] = "sweep" THEN "exit" ELSE "end")
         \/ /\ May("audit") \/ May("store")
            /\ \E S \in SUBSET due : expire(S)
            /\ Goto(p, "end")
      /\ UNCHANGED <<cRecord, recVars, brokerVars, heldVars, worldVars, tracked>>

-----------------------------------------------------------------------------
(* The protection triggers, then executeAutomaticExit *)

\* evaluateExitTrigger: the kill switch always fires; stop-loss, take-profit,
\* a disabled strategy or the maximum holding time may.  Without any quote, or
\* without candles when nothing is held, the cycle goes no further.
ExitCheck(p) ==
  /\ pc[p] = "exit"
  /\ \/ HoldsPosition(p) /\ plan' = [plan EXCEPT ![p] = "phaseA"] /\ Goto(p, "closeRequest")
     \/ /\ ~HoldsPosition(p) \/ ~kill[p]
        /\ Goto(p, "decide") /\ UNCHANGED plan
     \/ May("market") /\ Goto(p, "end") /\ UNCHANGED plan
  /\ UNCHANGED <<candVars, recVars, brokerVars, worldVars, tracked, cand, rec, seen, pos, open, todo, exited>>

\* The caller's copy decides whether CLOSE_REQUESTED is written, and a failed
\* exit does not refresh that copy.
CloseRequest(p) ==
  /\ pc[p] = "closeRequest"
  /\ \/ /\ seen[p] = "OPEN"
        /\ Transition(p, rec[p], "CLOSE_REQUESTED", rPos[rec[p]], "close", "end")
     \/ seen[p] # "OPEN" /\ Goto(p, "close") /\ UNCHANGED recVars
     \/ May("audit") /\ Goto(p, "end") /\ UNCHANGED recVars
  /\ UNCHANGED <<candVars, brokerVars, heldVars, worldVars, tracked>>

\* Mutant: a close is believed without having been verified.
ClosePositionUnverified(p, q, ok, failed) ==
  /\ UNCHANGED pOrigin
  /\ tracked' = [tracked EXCEPT ![p] = @ \ {q}]
  /\ \/ pState[q] = "live" /\ pState' = [pState EXCEPT ![q] = "gone"]
     \/ (May("broker") \/ May("audit")) /\ UNCHANGED pState
  /\ Goto(p, ok)

\* EtoroDemoBroker.closePosition of one tracked position: close it, verify that
\* it left the portfolio, forget it, audit.  Only a verified close is forgotten.
ClosePosition(p, q, ok, failed) ==
  LET gone    == pState' = [pState EXCEPT ![q] = "gone"]
      forget  == tracked' = [tracked EXCEPT ![p] = @ \ {q}]
      refused == pState[q] # "live" \/ May("broker") \/ May("audit")
  IN  /\ UNCHANGED pOrigin
      /\ \/ pState[q] = "live" /\ gone /\ forget /\ Goto(p, ok)
         \/ May("audit") /\ pState[q] = "live" /\ gone /\ forget /\ Goto(p, failed)
         \/ May("broker") /\ pState[q] = "live" /\ gone /\ UNCHANGED tracked /\ Goto(p, failed)
         \/ refused /\ UNCHANGED <<pState, tracked>> /\ Goto(p, failed)

Close(p) ==
  LET q == rPos[rec[p]]
  IN  /\ pc[p] = "close"
      /\ \/ q \in tracked[p] /\ ClosePosition(p, q, "closed", "closeFailed")
         \/ q \notin tracked[p] /\ Goto(p, "closeFailed") /\ UNCHANGED <<brokerVars, tracked>>
      /\ UNCHANGED <<candVars, recVars, heldVars, worldVars>>

AfterExit(p) == IF plan[p] = "phaseA" THEN "decide" ELSE "list"

RecordClosed(p) ==
  /\ pc[p] = "closed"
  /\ \/ /\ Transition(p, rec[p], "CLOSED", rPos[rec[p]], AfterExit(p), "closeFailed")
        /\ \/ /\ pc'[p] = AfterExit(p)
              /\ exited' = [exited EXCEPT ![p] = "closed"]
              /\ open' = [open EXCEPT ![p] = FALSE]
              /\ rec' = [rec EXCEPT ![p] = NoRecord]
           \/ pc'[p] = "closeFailed" /\ UNCHANGED <<exited, open, rec>>
     \/ /\ May("audit")    \* the audit of the failure to persist fails as well
        /\ Goto(p, "end")
        /\ UNCHANGED <<exited, open, rec>>
        /\ \/ Save(rec[p], "CLOSED", rPos[rec[p]])
           \/ May("store") /\ UNCHANGED recVars
  /\ UNCHANGED <<candVars, brokerVars, worldVars, tracked, plan, cand, seen, pos, todo>>

RecordCloseFailed(p) ==
  /\ pc[p] = "closeFailed"
  /\ Transition(p, rec[p], "CLOSE_FAILED", rPos[rec[p]], AfterExit(p), "end")
  /\ exited' = [exited EXCEPT ![p] = "failed"]
  /\ UNCHANGED <<candVars, brokerVars, worldVars, tracked, plan, cand, rec, seen, pos, open, todo>>

PhaseA(p) ==
  \/ BeginCycle(p) \/ EndCycle(p)
  \/ RecoverScan(p) \/ RecoverWrite(p)
  \/ ReconcileUnsafe(p) \/ ReconcileNothingHeld(p) \/ ReconcileVanished(p)
  \/ ReconcileMatched(p) \/ ReconcileOrphan(p) \/ Adopt(p) \/ AdoptRefused(p) \/ Reopen(p)
  \/ RepairCandidate(p) \/ CloseUnreconciled(p) \/ Sweep(p)
  \/ ExitCheck(p) \/ CloseRequest(p) \/ Close(p) \/ RecordClosed(p) \/ RecordCloseFailed(p)
=============================================================================
