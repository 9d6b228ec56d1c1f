\* The audit trail cannot be written after the summary was delivered.
CONSTANT MaxDay = 2
SPECIFICATION SummarySpec
INVARIANTS
  NeverDuplicated
