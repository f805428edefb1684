SPECIFICATION Spec
CONSTANTS
  high = high
  low1 = low1
  low2 = low2
  Idle = Idle
  Task <- MCTask
  MaxPriorities = 3
  BasePriority <- MCBasePriority
  EventLists <- MCEventLists
  MaxNesting = 1
  uxLength = 2
  Calls <- MixedCalls
  Waits = {"ticks"}
  IsrCalls = {"send", "receive"}
  Priorities = {}
INVARIANTS ReceiversNotStranded SendersNotStranded HeadIsHighest IInv
