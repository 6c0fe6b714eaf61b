SPECIFICATION Spec
CONSTANTS
  CodeSize = 10
  Span <- Plain
  Amount = 3
  FirstBuf = 6
  StepBuf = 4
  Bufs = {b1, b2, b3, b4, b5, b6}
  Threads = {t1}
  MaxDepth = 0
  Entries = {0, 2, 3, 5}
  Branches = {1, 3, 4, 6, 8}
  Syscalls = {}
  Breakpoints = {}
  Patches = TRUE
  NULL = NULL
SYMMETRY BufSymmetry
INVARIANTS IInv WithinCapacity FlowFaithful
