SPECIFICATION Spec
CONSTANT MaxUses = 4
INVARIANTS
  NothingMissing
  ScrapeAgrees
CHECK_DEADLOCK FALSE
