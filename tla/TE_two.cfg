\* Two processes against one database and one account.
CONSTANTS
  Process = {p1, p2}
  BuyCand = {b1}
  SellCand = {}
  Record = {r1, r2}
  Position = {q1, q2}
  NoCand = NoCand
  NoRecord = NoRecord
  NoPosition = NoPosition
  External = External
  Faults = {"market"}
  MaxOpenPositions = 1
  MaxCrashes = 1
SPECIFICATION Spec
SYMMETRY Symmetry
INVARIANTS
  OneActiveRecord
PROPERTIES
  CandidateMovesLegally
