SPECIFICATION FairSpec
CONSTANTS
  Files = {f1, f2}
  None = none
  Missing = {}
  SlowStart = FALSE
  SlowReads = FALSE
  MaxOpens = 3
INVARIANTS LoadsInTurn
PROPERTIES Served
