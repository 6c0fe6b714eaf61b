CONSTANTS
  Bits = 1
  Doubles <- MCDoubles
  Mixed <- MCMixed
  Totals <- MCTotals
  LeftInXmm = {0}
  MemSize = 32
  TopBits <- MCTop
  MemPrograms <- MCMemPrograms
  LoopBits = 6
  HalfBits = 4
  Limits = {0, 1, 3, 7}
  Steps = {1, 2, 3}
  Strides <- MCStrides
  Starts = {0, 1, 5, 9}
  ExpBits = 4
  Fract = 2
  Slots = 8
  Operands <- MCOperands
  Integers32 <- MCIntegers
  FloatPrograms <- MCFloatPrograms
  ListVas <- MCListVas
  ListedWords <- MCListed
  EditedWords <- MCEdited
  TypedTexts <- MCTyped
  MaxTyped = 2
  Cells = 3
  PatchData <- MCPatchData
  PatchFiles <- MCPatchFiles
  MaxPatches = 2
  MaxDdbs = 2
  Liberties = {}
  CondBits = 8
  Variables <- MCVariables
  Stored <- MCStored
  Typed <- MCTypedConditions
  Retyped <- MCRetyped
  NoteVas = {0, 4}
  NoteTexts = {"t"}
  NoteShapes <- MCNoteShapes
  NotePlaces = 3
  DdbNames <- MCDdbNames
  PointsIn <- MCPointsIn
  NoteDisks <- MCNoteDisks
  Programs <- MCPrograms
  Entrypoint = 10
  JumpTable <- MCJumpTable
  Files <- MCFiles
  Disks <- MCSourceDisks
  SeenRows = 9
  ModuleAt <- SourceAt
  ModuleSize = 160
  ImageCells = {0, 1, 2, 3, 4, 5}
SPECIFICATION Spec
INVARIANTS IntegersAgree MemoryAgrees MacroFillsTheSame FloatsAgree ListingAgrees PatchesUndone ConditionsAgree NotesKept CodeIsMarked SourcesAgree
CHECK_DEADLOCK FALSE
