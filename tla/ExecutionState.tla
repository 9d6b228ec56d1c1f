--------------------------- MODULE ExecutionState ---------------------------
(***************************************************************************)
(* The state the trading runtime keeps about ONE strategy on ONE instrument:*)
(* the durable rows (trade candidates and trade lifecycle records), the     *)
(* broker's own positions, and the memory of every runtime process (which   *)
(* step of its cycle it is in, the values it holds across awaits, and the   *)
(* broker adapter's trackedPositions).  Every await of the code that writes *)
(* a row or calls the broker is one step, so a process may crash, and every *)
(* other actor may act, between any two of them.                            *)
(***************************************************************************)
EXTENDS LifecycleStatus, Naturals, FiniteSets

CONSTANTS
  Process,     \* runtime processes sharing one database and one account
  BuyCand,     \* identifiers of BUY candidates
  SellCand,    \* identifiers of SELL candidates
  Record,      \* identifiers of lifecycle records
  Position,    \* identifiers of broker positions
  NoCand, NoRecord, NoPosition,   \* "undefined"
  External,    \* origin of a position a human opened at the account
  Faults,      \* which failures may happen, see FaultKind
  MaxOpenPositions,   \* portfolioRiskConfig.portfolioMaxOpenPositions
  MaxCrashes          \* bound on crashes

Candidate == BuyCand \cup SellCand

\* "store"    a durable write is refused by the database
\* "audit"    an audit write fails, which its caller sees as an exception
\* "broker"   a portfolio read, a confirmation or a close fails or times out
\* "external" positions appear and disappear without this runtime
\* "market"   candle history or quotes are unavailable for a cycle
\* "registry" the strategy registry changes its answer inside one cycle
\* "slow"     an order, or the step that holds a record, outlasts the threshold
FaultKind == { "store", "audit", "broker", "external", "market", "registry", "slow" }

ASSUME FaultsAssumption   == Faults \subseteq FaultKind
ASSUME SidesAssumption    == BuyCand \cap SellCand = {}
ASSUME SentinelAssumption == /\ NoCand \notin Candidate
                             /\ NoRecord \notin Record
                             /\ NoPosition \notin Position
                             /\ External \notin Candidate
ASSUME BoundsAssumption   == MaxOpenPositions \in Nat /\ MaxCrashes \in Nat
ASSUME AccountAssumption  == IsFiniteSet(Position)

VARIABLES
  \* trade_candidates
  cStatus,    \* status, or None
  cRecord,    \* lifecycleRecordId written with EXECUTED
  overdue,    \* candidates whose expiresAt has passed
  \* trade_lifecycle_records
  rStatus,    \* status, or None
  rCand,      \* candidateId
  rPos,       \* brokerPositionId
  stale,      \* records older than recoveryThresholdMs
  \* the broker
  pState,     \* "unborn", "pending" (order accepted), "live", "gone", "rejected"
  pOrigin,    \* the candidate whose order produced it, or External
  \* each runtime process
  pc,         \* next step of the cycle
  plan,       \* what the last read decided, carried to the write
  cand,       \* candidate being executed
  rec,        \* lifecycle record in hand
  seen,       \* status of the in-memory copy of that record
  pos,        \* broker position in hand
  open,       \* currentPositionOpen
  todo,       \* approvedCandidates not yet visited
  exited,     \* outcome of this cycle's automatic exit
  kill,       \* killSwitchEnabled of this process
  tracked,    \* the adapter's trackedPositions
  crashes

candVars   == <<cStatus, cRecord>>
recVars    == <<rStatus, rCand, rPos, stale>>
brokerVars == <<pState, pOrigin>>
heldVars   == <<plan, cand, rec, seen, pos, open, todo, exited>>
worldVars  == <<overdue, kill, crashes>>   \* what no step of a cycle writes
vars == <<cStatus, cRecord, overdue, rStatus, rCand, rPos, stale, pState, pOrigin,
          pc, plan, cand, rec, seen, pos, open, todo, exited, kill, tracked, crashes>>

PcValues ==
  { "down", "idle", "end", "recover", "recoverWrite", "reconcile", "repairVanished",
    "closeUnreconciled", "reopen", "adopt", "repair", "sweep", "sweepUnsafe",
    "exit", "closeRequest", "close", "closed", "closeFailed", "decide", "list",
    "approved", "create", "risk", "submit", "order", "await", "execFailed",
    "opened", "candExecuted", "candFailed", "sellStart", "sellRequest",
    "sellClose", "sellClosed", "sellCloseFailed", "fresh", "auto", "autoRevert" }

TypeOK ==
  /\ cStatus \in [Candidate -> CandidateStatus \cup {None}]
  /\ cRecord \in [Candidate -> Record \cup {NoRecord}]
  /\ overdue \subseteq Candidate
  /\ rStatus \in [Record -> RecordStatus \cup {None}]
  /\ rCand \in [Record -> Candidate \cup {NoCand}]
  /\ rPos \in [Record -> Position \cup {NoPosition}]
  /\ stale \subseteq Record
  /\ pState \in [Position -> {"unborn", "pending", "live", "gone", "rejected"}]
  /\ pOrigin \in [Position -> Candidate \cup {External, NoCand}]
  /\ pc \in [Process -> PcValues]
  /\ plan \in [Process -> {None, "abandon", "ambiguous", "correlate", "phaseA", "phaseB"}]
  /\ cand \in [Process -> Candidate \cup {NoCand}]
  /\ rec \in [Process -> Record \cup {NoRecord}]
  /\ seen \in [Process -> RecordStatus \cup {None}]
  /\ pos \in [Process -> Position \cup {NoPosition}]
  /\ open \in [Process -> BOOLEAN]
  /\ todo \in [Process -> SUBSET Candidate]
  /\ exited \in [Process -> {None, "failed", "closed"}]
  /\ kill \in [Process -> BOOLEAN]
  /\ tracked \in [Process -> SUBSET Position]
  /\ crashes \in Nat

Init ==
  /\ cStatus = [c \in Candidate |-> None]
  /\ cRecord = [c \in Candidate |-> NoRecord]
  /\ overdue = {}
  /\ rStatus = [r \in Record |-> None]
  /\ rCand = [r \in Record |-> NoCand]
  /\ rPos = [r \in Record |-> NoPosition]
  /\ stale = {}
  /\ pState = [q \in Position |-> "unborn"]
  /\ pOrigin = [q \in Position |-> NoCand]
  /\ pc = [p \in Process |-> "down"]
  /\ plan = [p \in Process |-> None]
  /\ cand = [p \in Process |-> NoCand]
  /\ rec = [p \in Process |-> NoRecord]
  /\ seen = [p \in Process |-> None]
  /\ pos = [p \in Process |-> NoPosition]
  /\ open = [p \in Process |-> FALSE]
  /\ todo = [p \in Process |-> {}]
  /\ exited = [p \in Process |-> None]
  /\ kill = [p \in Process |-> FALSE]
  /\ tracked = [p \in Process |-> {}]
  /\ crashes = 0

-----------------------------------------------------------------------------
Live == { q \in Position : pState[q] = "live" }

Goto(p, step) == pc' = [pc EXCEPT ![p] = step]

\* A failure of this kind may happen here.
May(fault) == fault \in Faults

\* Go on after an audit write that nothing catches: its failure ends the cycle.
Audited(p, step) == Goto(p, step) \/ (May("audit") /\ Goto(p, "end"))

\* Does the process hold the record of the position its cycle believes open?
HoldsPosition(p) == open[p] /\ rec[p] # NoRecord

\* Mutant: the clash check forgets the slot of the strategy and instrument.
ClashOnPositionOnly(r, status, q) ==
  /\ status \in PositionActive /\ q # NoPosition
  /\ \E s \in Record \ {r} : rStatus[s] \in PositionActive /\ rPos[s] = q

\* assertNoActiveClash: would saving r with this status and position collide
\* with another active record of the broker position or of the instrument?
Clash(r, status, q) ==
  \E s \in Record \ {r} :
    \/ /\ status \in PositionActive /\ rStatus[s] \in PositionActive
       /\ q # NoPosition /\ rPos[s] = q
    \/ status \in SlotActive /\ rStatus[s] \in SlotActive

\* store.update() of the whole record: the in-memory copy overwrites the row.
Save(r, status, q) ==
  /\ rStatus' = [rStatus EXCEPT ![r] = status]
  /\ rPos' = [rPos EXCEPT ![r] = q]
  /\ stale' = stale \ {r}
  /\ UNCHANGED rCand

\* store.create() of a record under a fresh identifier.  Record bounds how many
\* can ever exist: once Full, an insert is refused as the database would.
Full == \A r \in Record : rStatus[r] # None

Insert(r, status, c, q) ==
  /\ rStatus[r] = None
  /\ rStatus' = [rStatus EXCEPT ![r] = status]
  /\ rPos' = [rPos EXCEPT ![r] = q]
  /\ rCand' = [rCand EXCEPT ![r] = c]
  /\ UNCHANGED stale

\* transition() of the lifecycle service: write, then audit.  The audit write
\* comes after the row is durable, so its failure reaches the caller as an
\* exception although the status has changed.
Transition(p, r, status, q, ok, failed) ==
  \/ /\ ~Clash(r, status, q)
     /\ Save(r, status, q)
     /\ \/ Goto(p, ok)
        \/ May("audit") /\ Goto(p, failed)
  \/ /\ Clash(r, status, q) \/ May("store")
     /\ UNCHANGED recVars
     /\ Goto(p, failed)

\* Mutant: the update carries no condition on the status it replaces.
UpdateUnconditionally(c, from, to, r) ==
  /\ cStatus' = [cStatus EXCEPT ![c] = to]
  /\ cRecord' = [cRecord EXCEPT ![c] = r]

\* repository.transition(id, from, patch): compare-and-set on the status.
CompareAndSet(c, from, to, r) ==
  IF cStatus[c] = from
  THEN /\ cStatus' = [cStatus EXCEPT ![c] = to]
       /\ cRecord' = [cRecord EXCEPT ![c] = r]
  ELSE UNCHANGED candVars
=============================================================================
