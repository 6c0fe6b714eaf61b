CONSTANTS
  BufSize = 20
  BlockSize = 4
  CodeSize = 2
  SrcBlocks = 3
  Escape = 2
  Area = 3
  Streams <- MCStreams
  Layout <- MCLayout
  MaxResets = 2
  RingNum = 2
  PageSize = 3
  Trim = 1
  Songs = {5, 7}
  BackgroundOK = {TRUE, FALSE}
  Racing = FALSE
  MaxSounds = 3
  Ports = {0}
  Names = {n1, n2}
  Fds = 2
  MaxEnt = 1
  MaxWrites = 2
  Disturbed = FALSE
  Refs = {r1, r2}
  Ids = {i1, i2}
  Depths = {0, 1}
  Palettes = {1, 2}
  Offsets <- MCOffsets
  TTL = 1
  Reused = FALSE
  MaxDraws = 2
  MaxLoads = 1
  Attached <- MCPads
  Sides = {0, 1}
  ButtonCount = 2
  KeyStates <- MCKeys
  PadStates <- MCPositions
  Senses = {30, 50}
  MaxTouches = 3
  MaxPrograms = 3
  MaxReads = 1
  Games = {"g1", "g2"}
  Fields = {"a", "b"}
  Shelves <- MCShelves
  WritesEnd = {TRUE}
  OpensOther = FALSE
  Together = FALSE
  MaxRuns = 4
SPECIFICATION Spec
INVARIANTS FilmIsWhole HeardAsStarted CardsAreKept FrameAsDrawn ChoicesServe
PROPERTIES ImplementsPlayer MovieEnds
CHECK_DEADLOCK FALSE
