SPECIFICATION FairSpec
CONSTANTS
  MaxThreads = 3
  MaxSemas = 1
  Shapes <- Event
  MaxTicks = 2
  Interrupts = TRUE
  Deletes = {}
  NULL = NULL
INVARIANT IInv
PROPERTIES OneRunPerTick TickServed EveryThreadRuns
