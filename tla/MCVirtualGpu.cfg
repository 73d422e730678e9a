SPECIFICATION Spec
CHECK_DEADLOCK FALSE
CONSTANTS
  MaxGeneration = 2
  Quota = 1
  Slots = 2
  BufferSlots = 2
  WatchdogSlots = 2
  ControlSlots = 1
  MaxSequence = 4
  MaxTime = 2
  MaxFaults = 2
  Sizes = {1}
  Batches <- MCBatches
  None = None
  Zero = Zero
  Garbage = Garbage
  NoData = NoData
INVARIANTS
  CommandsInOrder
  CommandsKept
  WorkAccounted
  ResourcesReported
