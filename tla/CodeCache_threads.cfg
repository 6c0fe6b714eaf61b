SPECIFICATION FairSpec
CONSTANTS
  CodeSize = 9
  Span <- NopsAt3
  Amount = 4
  FirstBuf = 13
  StepBuf = 4
  Bufs = {b1, b2, b3, b4}
  Threads = {t1, t2}
  MaxDepth = 2
  Entries = {0, 3, 4}
  Branches = {2}
  Syscalls = {1, 6}
  Breakpoints = {2}
  Patches = FALSE
  NULL = NULL
INVARIANTS TableFaithful RecompileFaithful
PROPERTIES ImplementsCache RecompileEnds
