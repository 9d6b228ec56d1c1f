--------------------------- MODULE TradeExecution ---------------------------
(***************************************************************************)
(* The whole system: runtime processes cycling through Phase A and Phase B, *)
(* starting and crashing; the operator who approves and rejects candidates; *)
(* the broker settling orders; time passing; and, under the "external"      *)
(* fault, a human trading on the same account.                              *)
(***************************************************************************)
EXTENDS ExecutionPhase, TLC

\* A process starts with an empty adapter and reads its kill switch once.
Boot(p) ==
  /\ pc[p] = "down"
  /\ Goto(p, "idle")
  /\ \E b \in BOOLEAN : kill' = [kill EXCEPT ![p] = b]
  /\ UNCHANGED <<candVars, recVars, brokerVars, heldVars, overdue, tracked, crashes>>

\* A restart loses every local value and the adapter's memory, nothing durable.
Crash(p) ==
  /\ pc[p] # "down" /\ crashes < MaxCrashes
  /\ crashes' = crashes + 1
  /\ Goto(p, "down")
  /\ plan' = [plan EXCEPT ![p] = None]
  /\ cand' = [cand EXCEPT ![p] = NoCand]
  /\ rec' = [rec EXCEPT ![p] = NoRecord]
  /\ seen' = [seen EXCEPT ![p] = None]
  /\ pos' = [pos EXCEPT ![p] = NoPosition]
  /\ open' = [open EXCEPT ![p] = FALSE]
  /\ todo' = [todo EXCEPT ![p] = {}]
  /\ exited' = [exited EXCEPT ![p] = None]
  /\ kill' = [kill EXCEPT ![p] = FALSE]
  /\ tracked' = [tracked EXCEPT ![p] = {}]
  /\ UNCHANGED <<candVars, recVars, brokerVars, overdue>>

-----------------------------------------------------------------------------
(* The operator, through approveTradeCandidate and rejectTradeCandidate *)

procVars == <<pc, heldVars, kill, tracked, crashes>>

Approve(c) ==
  /\ cStatus[c] = "PENDING"
  /\ cStatus' = [cStatus EXCEPT ![c] = IF c \in overdue THEN "EXPIRED" ELSE "APPROVED"]
  /\ UNCHANGED <<cRecord, overdue, recVars, brokerVars, procVars>>

Reject(c) ==
  /\ cStatus[c] = "PENDING"
  /\ cStatus' = [cStatus EXCEPT ![c] = "REJECTED"]
  /\ UNCHANGED <<cRecord, overdue, recVars, brokerVars, procVars>>

-----------------------------------------------------------------------------
(* Time *)

\* expiresAt passes.
Expire(c) ==
  /\ cStatus[c] \in {"PENDING", "APPROVED"} /\ c \notin overdue
  /\ overdue' = overdue \cup {c}
  /\ UNCHANGED <<candVars, recVars, brokerVars, procVars>>

\* recoveryThresholdMs passes since the record was last written.  Unless things
\* are "slow", neither the process that holds the record nor an order the broker
\* has accepted takes that long (5 minutes by default, against seconds).
InHand(r) == \/ \E p \in Process : rec[p] = r
             \/ \E q \in Position : pState[q] = "pending"

Age(r) ==
  /\ rStatus[r] \in PreOpenRecoverable /\ r \notin stale
  /\ May("slow") \/ ~InHand(r)
  /\ stale' = stale \cup {r}
  /\ UNCHANGED <<candVars, overdue, rStatus, rCand, rPos, brokerVars, procVars>>

-----------------------------------------------------------------------------
(* The broker and the account *)

Settle(q) ==
  /\ pState[q] = "pending"
  /\ \E s \in {"live", "rejected"} : pState' = [pState EXCEPT ![q] = s]
  /\ UNCHANGED <<candVars, overdue, recVars, pOrigin, procVars>>

ExternalOpen(q) ==
  /\ May("external") /\ pState[q] = "unborn"
  /\ pState' = [pState EXCEPT ![q] = "live"]
  /\ pOrigin' = [pOrigin EXCEPT ![q] = External]
  /\ UNCHANGED <<candVars, overdue, recVars, procVars>>

ExternalClose(q) ==
  /\ May("external") /\ pState[q] = "live"
  /\ pState' = [pState EXCEPT ![q] = "gone"]
  /\ UNCHANGED <<candVars, overdue, recVars, pOrigin, procVars>>

-----------------------------------------------------------------------------
Step(p) == PhaseA(p) \/ PhaseB(p)

Next ==
  \/ \E p \in Process : Boot(p) \/ Crash(p) \/ Step(p)
  \/ \E c \in Candidate : Approve(c) \/ Reject(c) \/ Expire(c)
  \/ \E r \in Record : Age(r)
  \/ \E q \in Position : Settle(q) \/ ExternalOpen(q) \/ ExternalClose(q)

Spec == Init /\ [][Next]_vars

\* A scheduled runtime keeps cycling and is restarted by its supervisor; time
\* passes; the broker settles what it accepted.  Nobody has to approve anything.
Fairness ==
  /\ \A p \in Process : WF_vars(Boot(p)) /\ WF_vars(Step(p))
  /\ \A c \in Candidate : WF_vars(Expire(c))
  /\ \A r \in Record : WF_vars(Age(r))
  /\ \A q \in Position : WF_vars(Settle(q))

FairSpec == Spec /\ Fairness

-----------------------------------------------------------------------------
(* Safety *)

\* At most one lifecycle record of the strategy and instrument is active, so
\* migration 0026's index and assertNoActiveClash hold whoever writes, however
\* many processes run and whatever fails (trade-lifecycle-store.ts).
OneActiveRecord ==
  \A r, s \in Record :
    rStatus[r] \in SlotActive /\ rStatus[s] \in SlotActive => r = s

\* An EXECUTED BUY always leads to the lifecycle record of its own execution,
\* and that record proves a broker position was opened.
ExecutedHasPosition ==
  \A c \in BuyCand : cStatus[c] = "EXECUTED" =>
    /\ cRecord[c] \in Record
    /\ rCand[cRecord[c]] = c
    /\ rStatus[cRecord[c]] \in ProvesOpened
    /\ rPos[cRecord[c]] \in Position

\* A record is reported closed only when its broker position really is gone:
\* no live position is ever hidden behind a terminal record.
ClosedMeansGone ==
  \A r \in Record : rStatus[r] \in {"CLOSED", "CLOSED_UNRECONCILED"} =>
    rPos[r] \in Position /\ pState[rPos[r]] = "gone"

\* Once the slot of an executed candidate is free again that candidate is no
\* longer APPROVED, so no later cycle executes it a second time.
SpentCandidateNotApproved ==
  \A r \in Record :
    rStatus[r] \in ProvesOpened \ SlotActive /\ rCand[r] \in Candidate
      => cStatus[rCand[r]] # "APPROVED"

Filled(q) == pState[q] \in {"pending", "live", "gone"}

\* One candidate produces at most one position, across crashes and retries.
OnePositionPerCandidate ==
  \A q1, q2 \in Position :
    Filled(q1) /\ Filled(q2) /\ pOrigin[q1] = pOrigin[q2] /\ pOrigin[q1] \in Candidate => q1 = q2

\* The runtime never holds two positions of the instrument at once, nor sends
\* an order while it holds one.
OneLivePosition ==
  \A q1, q2 \in Position :
    pState[q1] \in {"pending", "live"} /\ pState[q2] \in {"pending", "live"} => q1 = q2

\* "No code path can produce" a record before OPEN whose candidate is already
\* EXECUTED: the recovery sweep treats that as a contradiction it cannot resolve,
\* and the slot would be blocked for good (lifecycle-recovery.ts).
ExecutedNeverPreOpen ==
  \A r \in Record :
    rStatus[r] \in PreOpenRecoverable /\ rCand[r] \in Candidate
      => cStatus[rCand[r]] # "EXECUTED"

\* EXECUTED and OPEN go together, in both directions: ExecutedHasPosition and
\* ExecutedNeverPreOpen.
ExecutedIsOpen == ExecutedHasPosition /\ ExecutedNeverPreOpen

\* A cycle whose automatic exit closed the position sends no order of its own
\* accord: an entry waits for the next cycle's reconciliation (end of
\* runInstrumentPhaseB).  A position a human opened is the exception: behind it
\* a candidate may wait approved, and it runs in the cycle that closes it.
NoEntryAfterExit ==
  \A p \in Process : pc[p] = "order" => exited[p] # "closed"

\* RISK_REJECTED, CLOSED, EXECUTION_FAILED and CLOSED_UNRECONCILED never
\* transition again (trade-lifecycle/types.ts).
TerminalIsFinal ==
  [][ \A r \in Record :
        rStatus[r] \in {"RISK_REJECTED", "CLOSED", "EXECUTION_FAILED", "CLOSED_UNRECONCILED"}
          => rStatus'[r] = rStatus[r] ]_vars

\* However many processes execute, sweep, repair and decide on it at once, a
\* candidate moves only along VALID_CANDIDATE_TRANSITIONS: the compare-and-set
\* lets no process overwrite what another has already concluded.
CandidateMovesLegally ==
  [][ \A c \in Candidate :
        cStatus[c] # None /\ cStatus'[c] # cStatus[c]
          => <<cStatus[c], cStatus'[c]>> \in ValidCandidateTransitions ]_vars

-----------------------------------------------------------------------------
(* Refinement: what the two durable tables promise *)

Lifecycle == INSTANCE TradeLifecycle WITH cStatus <- cStatus, rStatus <- rStatus

\* Every step of the system moves the durable rows legally, or leaves them:
\* no stale in-memory copy ever drags a row along an edge its status graph
\* does not have.
ImplementsLifecycle == Lifecycle!Spec

-----------------------------------------------------------------------------
(* Liveness *)

\* A record left before OPEN is resolved: it never blocks the slot forever.
StaleRecordResolved ==
  \A r \in Record :
    rStatus[r] \in PreOpenRecoverable ~> rStatus[r] \notin PreOpenRecoverable

\* A candidate nobody decides on, or nobody can execute, leaves the queue, even
\* while reconciliation fails closed cycle after cycle.
CandidateLeavesQueue ==
  \A c \in Candidate :
    cStatus[c] \in {"PENDING", "APPROVED"} ~> cStatus[c] \notin {"PENDING", "APPROVED"}

\* Every live position ends up owned by an active record or gone: a restart
\* never leaves a position nobody watches.
PositionOwned ==
  \A q \in Position :
    pState[q] = "live" ~>
      \/ pState[q] = "gone"
      \/ \E r \in Record : rPos[r] = q /\ rStatus[r] \in PositionActive

\* A runtime that runs on with the kill switch on closes what it finds open, at
\* the broker and in the records: a restart with an empty adapter, a close cut
\* short by a crash or an order cut short by one are no exceptions.
KillSwitchFlattens ==
  \A p \in Process :
    <>[](kill[p]) => <>[](Live = {} /\ \A r \in Record : rStatus[r] \notin SlotActive)

\* For the runs that check no liveness: nothing tells one of these identifiers from
\* another of its kind.
Symmetry == Permutations(Record) \cup Permutations(Position) \cup Permutations(BuyCand)
=============================================================================
