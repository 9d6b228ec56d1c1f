--------------------------- MODULE TradeLifecycle ---------------------------
(***************************************************************************)
(* What the durable tables promise their readers, whatever the runtime does *)
(* in between: a candidate moves only along VALID_CANDIDATE_TRANSITIONS, a  *)
(* lifecycle record only along VALID_TRANSITIONS, one record at a time, and *)
(* a record becomes active only while no other record is.  TradeExecution   *)
(* implements it (Lifecycle!Spec there) for one process whose audit trail   *)
(* and strategy registry do not fail.                                       *)
(***************************************************************************)
EXTENDS LifecycleStatus

CONSTANTS Candidate, Record

VARIABLES cStatus, rStatus

Init ==
  /\ cStatus = [c \in Candidate |-> None]
  /\ rStatus = [r \in Record |-> None]

\* A sweep may expire several candidates at once; each of them moves legally.
CandidatesMove ==
  /\ \E S \in SUBSET Candidate :
       \E to \in CandidateStatus :
         /\ \A c \in S : \/ <<cStatus[c], to>> \in ValidCandidateTransitions
                         \/ cStatus[c] = None /\ to = "PENDING"
         /\ cStatus' = [c \in Candidate |-> IF c \in S THEN to ELSE cStatus[c]]
  /\ UNCHANGED rStatus

SlotFree(r) == \A s \in Record \ {r} : rStatus[s] \notin SlotActive

\* A record is born from a decision, or OPEN when a position is adopted.
RecordMoves(r) ==
  /\ \E to \in RecordStatus :
       /\ \/ <<rStatus[r], to>> \in ValidTransitions
          \/ rStatus[r] = None /\ to \in {"DECISION_CREATED", "OPEN"}
       /\ to \in SlotActive => SlotFree(r)
       /\ rStatus' = [rStatus EXCEPT ![r] = to]
  /\ UNCHANGED cStatus

Next == CandidatesMove \/ \E r \in Record : RecordMoves(r)

Spec == Init /\ [][Next]_<<cStatus, rStatus>>
=============================================================================
