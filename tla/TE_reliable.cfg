\* Two BUY candidates, a crash and a database that refuses writes; the
\* broker and the audit trail work and nobody else trades.
CONSTANTS
  Process = {p1}
  BuyCand = {b1, b2}
  SellCand = {}
  Record = {r1, r2, r3}
  Position = {q1, q2}
  NoCand = NoCand
  NoRecord = NoRecord
  NoPosition = NoPosition
  External = External
  Faults = {"store"}
  MaxOpenPositions = 1
  MaxCrashes = 1
SPECIFICATION Spec
SYMMETRY Symmetry
INVARIANTS
  OnePositionPerCandidate
  OneLivePosition
  NoEntryAfterExit
