--------------------------- MODULE ExecutionPhase ---------------------------
(***************************************************************************)
(* Phase B of a runtime cycle (runInstrumentPhaseB): the opposing-signal    *)
(* exit, the execution of every APPROVED candidate, and the creation of a   *)
(* fresh candidate.  A BUY is executed from its frozen snapshot through the *)
(* lifecycle service, the portfolio risk engine and the broker; a SELL      *)
(* closes whatever the lifecycle store shows open.                          *)
(***************************************************************************)
EXTENDS ProtectionPhase

\* The one exit left for Phase B is OPPOSING_SIGNAL: the fixed triggers saw the
\* same inputs in Phase A.  They can differ only when the strategy registry
\* changed its answer in between, which is also the only way to exit again
\* after Phase A's own attempt failed.
Decide(p) ==
  /\ pc[p] = "decide"
  /\ \/ Goto(p, "list") /\ UNCHANGED plan
     \/ /\ HoldsPosition(p) /\ ~kill[p]
        /\ exited[p] = None \/ May("registry")
        /\ plan' = [plan EXCEPT ![p] = "phaseB"]
        /\ Goto(p, "closeRequest")
     \/ May("market") /\ Goto(p, "end") /\ UNCHANGED plan
  /\ UNCHANGED <<candVars, recVars, brokerVars, worldVars, tracked, cand, rec, seen, pos, open, todo, exited>>

\* From here on only currentPositionOpen is read of what the exits left behind
\* (exited is kept for the properties).
ListApproved(p) ==
  /\ pc[p] = "list"
  /\ todo' = [todo EXCEPT ![p] = { c \in Candidate : cStatus[c] = "APPROVED" }]
  /\ Goto(p, "approved")
  /\ plan' = [plan EXCEPT ![p] = None]
  /\ rec' = [rec EXCEPT ![p] = NoRecord]
  /\ seen' = [seen EXCEPT ![p] = None]
  /\ UNCHANGED <<candVars, recVars, brokerVars, worldVars, tracked, cand, pos, open, exited>>

\* One iteration of the approved-candidate loop: a BUY is deferred while the
\* kill switch is on or a position is open; a SELL always proceeds.  The sweep
\* has expired everything overdue at this cycle's own "now", so the expiry test
\* inside executeApprovedTradeCandidate cannot fire.
NextApproved(p) ==
  /\ pc[p] = "approved"
  /\ \/ todo[p] = {} /\ Goto(p, "fresh") /\ UNCHANGED <<cand, todo>>
     \/ \E c \in todo[p] :
        /\ todo' = [todo EXCEPT ![p] = @ \ {c}]
        /\ \/ c \in BuyCand /\ (kill[p] \/ open[p]) /\ UNCHANGED <<cand, pc>>
           \/ /\ c \in SellCand \/ ~(kill[p] \/ open[p])
              /\ cand' = [cand EXCEPT ![p] = c]
              /\ Goto(p, IF c \in BuyCand THEN "create" ELSE "sellStart")
  /\ UNCHANGED <<candVars, recVars, brokerVars, worldVars, tracked, plan, rec, seen, pos, open, exited>>

-----------------------------------------------------------------------------
(* executeApprovedBuyFromSnapshot *)

CreateRecord(p) ==
  /\ pc[p] = "create"
  /\ \/ \E r \in Record :
          /\ ~Clash(r, "DECISION_CREATED", NoPosition)
          /\ Insert(r, "DECISION_CREATED", cand[p], NoPosition)
          /\ rec' = [rec EXCEPT ![p] = r]
          /\ \/ Goto(p, "risk")
             \/ May("audit") /\ Goto(p, "candFailed")
     \/ /\ \/ \E r \in Record : rStatus[r] = None /\ Clash(r, "DECISION_CREATED", NoPosition)
           \/ Full \/ May("store")
        /\ Goto(p, "candFailed")
        /\ UNCHANGED <<recVars, rec>>
  /\ UNCHANGED <<candVars, brokerVars, worldVars, tracked, plan, cand, seen, pos, open, todo, exited>>

\* PortfolioRiskEngine.evaluate: the adapter's open positions are counted
\* against the limit; cash, exposure and the daily count may refuse any order.
RiskPermits(p) == Cardinality(tracked[p]) < MaxOpenPositions

EvaluateRisk(p) ==
  /\ pc[p] = "risk"
  /\ \/ Transition(p, rec[p], "RISK_REJECTED", NoPosition, "candFailed", "candFailed")
     \/ RiskPermits(p) /\ Transition(p, rec[p], "APPROVED", NoPosition, "submit", "candFailed")
  /\ UNCHANGED <<candVars, brokerVars, heldVars, worldVars, tracked>>

Submit(p) ==
  /\ pc[p] = "submit"
  /\ Transition(p, rec[p], "EXECUTION_SUBMITTED", NoPosition, "order", "candFailed")
  /\ UNCHANGED <<candVars, brokerVars, heldVars, worldVars, tracked>>

\* EtoroDemoBroker.placeMarketOrder up to its acknowledgement.  The order may
\* be accepted although the call fails.
PlaceOrder(p) ==
  LET accept(q) == /\ pState[q] = "unborn"
                   /\ pState' = [pState EXCEPT ![q] = "pending"]
                   /\ pOrigin' = [pOrigin EXCEPT ![q] = cand[p]]
                   /\ pos' = [pos EXCEPT ![p] = q]
      none      == \A q \in Position : pState[q] # "unborn"
  IN  /\ pc[p] = "order"
      /\ \/ \E q \in Position : accept(q) /\ Goto(p, "await")
         \/ /\ May("broker") \/ May("audit")
            /\ \E q \in Position : accept(q)
            /\ Goto(p, "execFailed")
         \/ /\ May("broker") \/ May("audit") \/ none
            /\ Goto(p, "execFailed")
            /\ UNCHANGED <<brokerVars, pos>>
      /\ UNCHANGED <<candVars, recVars, worldVars, tracked, plan, cand, rec, seen, open, todo, exited>>

\* reconcilePositionByOrderId: poll the portfolio until the order has become a
\* position, then track it.  Giving up leaves the order in force.
AwaitPosition(p) ==
  LET q     == pos[p]
      track == tracked' = [tracked EXCEPT ![p] = @ \cup {q}]
  IN  /\ pc[p] = "await"
      /\ \/ pState[q] = "live" /\ track /\ Goto(p, "opened")
         \/ May("audit") /\ pState[q] = "live" /\ track /\ Goto(p, "execFailed")
         \/ /\ May("broker") \/ May("audit") \/ pState[q] \in {"gone", "rejected"}
            /\ Goto(p, "execFailed")
            /\ UNCHANGED tracked
      /\ UNCHANGED <<candVars, recVars, brokerVars, heldVars, worldVars>>

\* Mutant: an OPEN that could not be written counts as written.
RecordOpenedUnchecked(p) ==
  /\ pc[p] = "opened"
  /\ Transition(p, rec[p], "OPEN", pos[p], "candExecuted", "candExecuted")
  /\ UNCHANGED <<candVars, brokerVars, heldVars, worldVars, tracked>>

RecordOpened(p) ==
  /\ pc[p] = "opened"
  /\ Transition(p, rec[p], "OPEN", pos[p], "candExecuted", "candFailed")
  /\ UNCHANGED <<candVars, brokerVars, heldVars, worldVars, tracked>>

RecordExecutionFailed(p) ==
  /\ pc[p] = "execFailed"
  /\ Transition(p, rec[p], "EXECUTION_FAILED", NoPosition, "candFailed", "candFailed")
  /\ UNCHANGED <<candVars, brokerVars, heldVars, worldVars, tracked>>

-----------------------------------------------------------------------------
(* A SELL candidate: runMarketDecisionCycleWithLifecycle *)

\* The re-evaluated decision may have drifted to HOLD; CLOSE_REQUESTED cannot
\* be requested again; no open record means an untracked close.
SellStart(p) ==
  /\ pc[p] = "sellStart"
  /\ \/ UNCHANGED rec /\ Goto(p, "candFailed")
     \/ /\ \A r \in Record : rStatus[r] \notin OpenStatuses
        /\ rec' = [rec EXCEPT ![p] = NoRecord]
        /\ Goto(p, "sellClose")
     \/ \E r \in Record :
        /\ rStatus[r] = "OPEN"
        /\ rec' = [rec EXCEPT ![p] = r]
        /\ Goto(p, "sellRequest")
  /\ UNCHANGED <<candVars, recVars, brokerVars, worldVars, tracked, plan, cand, seen, pos, open, todo, exited>>

SellRequestClose(p) ==
  /\ pc[p] = "sellRequest"
  /\ Transition(p, rec[p], "CLOSE_REQUESTED", rPos[rec[p]], "sellClose", "candFailed")
  /\ UNCHANGED <<candVars, brokerVars, heldVars, worldVars, tracked>>

\* The first tracked position of the instrument, whichever record it belongs to.
SellClosePosition(p) ==
  LET ok     == IF rec[p] = NoRecord THEN "candExecuted" ELSE "sellClosed"
      failed == IF rec[p] = NoRecord THEN "candFailed" ELSE "sellCloseFailed"
  IN  /\ pc[p] = "sellClose"
      /\ \/ \E q \in tracked[p] : ClosePosition(p, q, ok, failed)
         \/ tracked[p] = {} /\ Goto(p, failed) /\ UNCHANGED <<brokerVars, tracked>>
      /\ UNCHANGED <<candVars, recVars, heldVars, worldVars>>

SellRecordClosed(p) ==
  /\ pc[p] = "sellClosed"
  /\ Transition(p, rec[p], "CLOSED", rPos[rec[p]], "candExecuted", "candFailed")
  /\ UNCHANGED <<candVars, brokerVars, heldVars, worldVars, tracked>>

SellRecordCloseFailed(p) ==
  /\ pc[p] = "sellCloseFailed"
  /\ Transition(p, rec[p], "CLOSE_FAILED", rPos[rec[p]], "candFailed", "candFailed")
  /\ UNCHANGED <<candVars, brokerVars, heldVars, worldVars, tracked>>

-----------------------------------------------------------------------------
(* executeApprovedTradeCandidate after the execution itself *)

Drop(p) ==
  /\ cand' = [cand EXCEPT ![p] = NoCand]
  /\ rec' = [rec EXCEPT ![p] = NoRecord]
  /\ pos' = [pos EXCEPT ![p] = NoPosition]

\* An exception after the write is caught by a second compare-and-set from
\* APPROVED, which misses: the loop goes on without having noted the position.
MarkExecuted(p) ==
  LET c == cand[p]
      believe(b) == open' = [open EXCEPT ![p] = b]
  IN  /\ pc[p] = "candExecuted"
      /\ \/ /\ CompareAndSet(c, "APPROVED", "EXECUTED", rec[p])
            /\ believe(IF cStatus[c] = "APPROVED" THEN c \in BuyCand ELSE open[p])
            /\ Goto(p, "approved") /\ Drop(p)
         \/ /\ May("audit") /\ cStatus[c] = "APPROVED"
            /\ CompareAndSet(c, "APPROVED", "EXECUTED", rec[p])
            /\ Audited(p, "approved") /\ Drop(p) /\ UNCHANGED open
         \/ /\ May("store") /\ Goto(p, "candFailed")
            /\ UNCHANGED <<candVars, cand, rec, pos, open>>
      /\ UNCHANGED <<recVars, brokerVars, worldVars, tracked, plan, seen, todo, exited>>

MarkFailed(p) ==
  /\ pc[p] = "candFailed"
  /\ \/ /\ CompareAndSet(cand[p], "APPROVED", "FAILED", cRecord[cand[p]])
        /\ Audited(p, "approved")
     \/ May("store") /\ UNCHANGED candVars /\ Goto(p, "end")
  /\ Drop(p)
  /\ UNCHANGED <<recVars, brokerVars, worldVars, tracked, plan, seen, open, todo, exited>>

-----------------------------------------------------------------------------
(* The fresh decision *)

\* Mutant: a candidate that waits for its turn does not count as an entry.
DuplicateEntryByRecord == \E r \in Record : rStatus[r] \in SlotActive

\* checkForDuplicateEntry
DuplicateEntry ==
  \/ \E c \in BuyCand : cStatus[c] \in {"PENDING", "APPROVED"}
  \/ \E r \in Record : rStatus[r] \in SlotActive

FreshDecision(p) ==
  /\ pc[p] = "fresh"
  /\ \/ Goto(p, "end") /\ UNCHANGED <<cStatus, cand>>        \* HOLD, or blocked
     \/ \E c \in Candidate :
        /\ cStatus[c] = None
        /\ \/ c \in BuyCand /\ ~open[p] /\ ~kill[p] /\ ~DuplicateEntry
           \/ c \in SellCand /\ open[p]
        /\ cStatus' = [cStatus EXCEPT ![c] = "PENDING"]
        /\ \/ Goto(p, "end") /\ UNCHANGED cand
           \/ /\ c \in BuyCand       \* approvalMode AUTO_DEMO
              /\ cand' = [cand EXCEPT ![p] = c]
              /\ Goto(p, "auto")
  /\ UNCHANGED <<cRecord, recVars, brokerVars, worldVars, tracked, plan, rec, seen, pos, open, todo, exited>>

\* autoApproveTradeCandidate: approve, then audit the approval as automatic; if
\* that audit fails the approval is taken back.  When the audit of the approval
\* itself fails the candidate stays APPROVED.
AutoApprove(p) ==
  /\ pc[p] = "auto"
  /\ \/ /\ CompareAndSet(cand[p], "PENDING", "APPROVED", cRecord[cand[p]])
        /\ \/ Goto(p, "end")
           \/ May("audit") /\ cStatus[cand[p]] = "PENDING" /\ Goto(p, "autoRevert")
     \/ May("store") /\ UNCHANGED candVars /\ Goto(p, "end")
  /\ UNCHANGED <<recVars, brokerVars, heldVars, worldVars, tracked>>

AutoRevert(p) ==
  /\ pc[p] = "autoRevert"
  /\ \/ CompareAndSet(cand[p], "APPROVED", "FAILED", cRecord[cand[p]])
     \/ May("store") /\ UNCHANGED candVars
  /\ Goto(p, "end")
  /\ UNCHANGED <<recVars, brokerVars, heldVars, worldVars, tracked>>

PhaseB(p) ==
  \/ Decide(p) \/ ListApproved(p) \/ NextApproved(p)
  \/ CreateRecord(p) \/ EvaluateRisk(p) \/ Submit(p) \/ PlaceOrder(p)
  \/ AwaitPosition(p) \/ RecordOpened(p) \/ RecordExecutionFailed(p)
  \/ SellStart(p) \/ SellRequestClose(p) \/ SellClosePosition(p)
  \/ SellRecordClosed(p) \/ SellRecordCloseFailed(p)
  \/ MarkExecuted(p) \/ MarkFailed(p)
  \/ FreshDecision(p) \/ AutoApprove(p) \/ AutoRevert(p)
=============================================================================
