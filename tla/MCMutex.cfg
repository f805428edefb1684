SPECIFICATION Spec
CONSTANTS
  high = high
  mid = mid
  low = low
  Idle = Idle
  Task <- MCTask
  MaxPriorities = 4
  BasePriority <- Distinct
  EventLists = {"m1", "m2"}
  Mutex = {"m1", "m2"}
  Recursive = {"m2"}
  NoTask = NoTask
  MaxNesting = 1
  Waits = {"zero", "ticks", "max"}
  WaitsWhileHolding = FALSE
  MaxRecursion = 2
INVARIANTS IInv PriorityReturns WaiterIsWoken
PROPERTIES HolderInherits BitmapStaysExact
