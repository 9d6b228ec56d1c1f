\* Candidates while the broker fails and a human trades on the account.
CONSTANTS
  Process = {p1}
  BuyCand = {b1}
  SellCand = {}
  Record = {r1, r2}
  Position = {q1, q2}
  NoCand = NoCand
  NoRecord = NoRecord
  NoPosition = NoPosition
  External = External
  Faults = {"broker", "external", "market"}
  MaxOpenPositions = 1
  MaxCrashes = 0
SPECIFICATION FairSpec
PROPERTIES
  CandidateLeavesQueue
