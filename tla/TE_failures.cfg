\* One process while database, audit trail, broker and strategy registry fail
\* and time runs out at any step, with a crash.
CONSTANTS
  Process = {p1}
  BuyCand = {b1}
  SellCand = {s1}
  Record = {r1, r2}
  Position = {q1, q2}
  NoCand = NoCand
  NoRecord = NoRecord
  NoPosition = NoPosition
  External = External
  Faults = {"store", "audit", "broker", "registry", "slow"}
  MaxOpenPositions = 1
  MaxCrashes = 1
SPECIFICATION Spec
SYMMETRY Symmetry
INVARIANTS
  TypeOK
  ExecutedIsOpen
  ClosedMeansGone
  SpentCandidateNotApproved
