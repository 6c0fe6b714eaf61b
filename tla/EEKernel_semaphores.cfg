SPECIFICATION Spec
CONSTANTS
  MaxThreads = 3
  MaxSemas = 2
  Shapes <- Pool
  MaxTicks = 0
  Interrupts = TRUE
  Deletes = {"thread", "intc", "sema"}
  NULL = NULL
INVARIANTS OwnCode OwnRegisters
PROPERTIES ImplementsSemaphores
CHECK_DEADLOCK FALSE
