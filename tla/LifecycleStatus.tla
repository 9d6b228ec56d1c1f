--------------------------- MODULE LifecycleStatus ---------------------------
(***************************************************************************)
(* The two status graphs every durable row of the trading runtime moves     *)
(* along: a trade lifecycle record (trade-lifecycle/types.ts) and a trade   *)
(* candidate (trade-approval/types.ts), and the classes of lifecycle status *)
(* the rest of the runtime reads them through.                              *)
(***************************************************************************)

RecordStatus ==
  { "DECISION_CREATED", "RISK_REJECTED", "APPROVED", "EXECUTION_SUBMITTED",
    "OPEN", "CLOSE_REQUESTED", "CLOSED", "EXECUTION_FAILED", "CLOSE_FAILED",
    "CLOSED_UNRECONCILED", "EXECUTION_ABANDONED",
    "EXECUTION_RECONCILIATION_REQUIRED" }

CandidateStatus ==
  { "PENDING", "APPROVED", "REJECTED", "EXPIRED", "EXECUTED", "FAILED" }

\* "none" is an identifier no row has been created under yet.
None == "none"

\* VALID_TRANSITIONS of trade-lifecycle/types.ts, as a relation.
ValidTransitions ==
  LET from(a, bs) == { <<a, b>> : b \in bs }
      unresolved  == { "EXECUTION_ABANDONED", "EXECUTION_RECONCILIATION_REQUIRED" }
  IN  UNION { from("DECISION_CREATED", {"RISK_REJECTED", "APPROVED"} \cup unresolved),
              from("APPROVED", {"EXECUTION_SUBMITTED"} \cup unresolved),
              from("EXECUTION_SUBMITTED", {"OPEN", "EXECUTION_FAILED"} \cup unresolved),
              from("OPEN", {"CLOSE_REQUESTED", "CLOSED_UNRECONCILED"}),
              from("CLOSE_REQUESTED", {"CLOSED", "CLOSE_FAILED", "CLOSED_UNRECONCILED"}),
              from("CLOSE_FAILED", {"OPEN", "CLOSED_UNRECONCILED"}),
              from("EXECUTION_RECONCILIATION_REQUIRED", {"OPEN", "EXECUTION_ABANDONED"}) }

\* VALID_CANDIDATE_TRANSITIONS of trade-approval/types.ts.
ValidCandidateTransitions ==
  { <<"PENDING", s>>  : s \in {"APPROVED", "REJECTED", "EXPIRED"} } \cup
  { <<"APPROVED", s>> : s \in {"EXECUTED", "FAILED", "EXPIRED"} }

\* Statuses that occupy the one slot of a strategy and instrument.
SlotActive ==
  { "DECISION_CREATED", "APPROVED", "EXECUTION_SUBMITTED", "OPEN",
    "CLOSE_REQUESTED", "CLOSE_FAILED", "EXECUTION_RECONCILIATION_REQUIRED" }

\* Statuses that own their broker position, and that reconciliation reads as
\* "locally active" (the two source constants hold the same four statuses).
PositionActive ==
  { "OPEN", "CLOSE_REQUESTED", "CLOSE_FAILED", "EXECUTION_RECONCILIATION_REQUIRED" }

\* What the recovery sweep looks for once it is older than the threshold.
PreOpenRecoverable ==
  { "DECISION_CREATED", "APPROVED", "EXECUTION_SUBMITTED",
    "EXECUTION_RECONCILIATION_REQUIRED" }

\* What proves to the candidate repair that a broker position was opened.
ProvesOpened ==
  { "OPEN", "CLOSE_REQUESTED", "CLOSE_FAILED", "CLOSED", "CLOSED_UNRECONCILED" }

\* listOpen(): the position is live as far as this record knows.
OpenStatuses == { "OPEN", "CLOSE_REQUESTED" }

\* Reconciliation may close these without economics when the broker shows nothing.
ReconcilableToClosed == { "OPEN", "CLOSE_REQUESTED", "CLOSE_FAILED" }
=============================================================================
