\* The refinement of TradeLifecycle: every failure but those of the audit
\* trail and of the strategy registry.
CONSTANTS
  Process = {p1}
  BuyCand = {b1}
  SellCand = {}
  Record = {r1, r2}
  Position = {q1, q2}
  NoCand = NoCand
  NoRecord = NoRecord
  NoPosition = NoPosition
  External = External
  Faults = {"store", "broker", "external", "market", "slow"}
  MaxOpenPositions = 1
  MaxCrashes = 1
SPECIFICATION Spec
SYMMETRY Symmetry
PROPERTIES
  ImplementsLifecycle
