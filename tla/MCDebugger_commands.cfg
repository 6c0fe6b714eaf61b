CONSTANTS
  Code <- MCCode
  Entry <- MCEntry
  Ddbs = {1, 2}
  PointVas = {7, 9}
  MaxPoints = 2
  Careful = TRUE
  PatchAnytime = FALSE
  None = None
SPECIFICATION DebuggerSpec
INVARIANTS CodeIsRestored StopsInTime
PROPERTIES StopsWhereTold StopsAtLast
