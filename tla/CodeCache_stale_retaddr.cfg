SPECIFICATION Spec
CONSTANTS
  CodeSize = 8
  Span <- Plain
  Amount = 3
  FirstBuf = 6
  StepBuf = 4
  Bufs = {b1, b2, b3}
  Threads = {t1, t2}
  MaxDepth = 1
  Entries = {0, 2, 3}
  Branches = {1}
  Syscalls = {1}
  Breakpoints = {}
  Patches = FALSE
  NULL = NULL
INVARIANT RetaddrFaithful
