\* Audit writes may fail after the row they describe is durable.
CONSTANTS
  Process = {p1}
  BuyCand = {b1}
  SellCand = {s1}
  Record = {r1, r2}
  Position = {q1, q2}
  NoCand = NoCand
  NoRecord = NoRecord
  NoPosition = NoPosition
  External = External
  Faults = {"audit"}
  MaxOpenPositions = 1
  MaxCrashes = 0
SPECIFICATION Spec
SYMMETRY Symmetry
PROPERTIES
  TerminalIsFinal
