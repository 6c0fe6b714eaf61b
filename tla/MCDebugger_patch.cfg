CONSTANTS
  Code <- MCCode
  Entry <- MCEntry
  Ddbs = {1, 2}
  PointVas = {2}
  MaxPoints = 0
  Careful = TRUE
  PatchAnytime = TRUE
  None = None
SPECIFICATION DebuggerSpec
INVARIANT NoStaleCode
