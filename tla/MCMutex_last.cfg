SPECIFICATION Spec
CONSTANTS
  high = high
  mid = mid
  low = low
  Idle = Idle
  Task <- MCTask
  MaxPriorities = 4
  BasePriority <- OneAbove
  EventLists = {"m1", "m2"}
  Mutex = {"m1", "m2"}
  Recursive = {}
  NoTask = NoTask
  MaxNesting = 1
  Waits = {"zero", "max"}
  WaitsWhileHolding = FALSE
  MaxRecursion = 1
INVARIANTS LastGiveYields
