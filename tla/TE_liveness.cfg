\* A crashing process and an operator who may never answer; the broker, the
\* database and the audit trail work.
CONSTANTS
  Process = {p1}
  BuyCand = {b1}
  SellCand = {s1}
  Record = {r1, r2, r3}
  Position = {q1, q2}
  NoCand = NoCand
  NoRecord = NoRecord
  NoPosition = NoPosition
  External = External
  Faults = {}
  MaxOpenPositions = 1
  MaxCrashes = 1
SPECIFICATION FairSpec
PROPERTIES
  StaleRecordResolved
  PositionOwned
  KillSwitchFlattens
