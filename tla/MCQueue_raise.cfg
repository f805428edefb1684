SPECIFICATION Spec
CONSTANTS
  high = high
  low1 = low1
  low2 = low2
  Idle = Idle
  Task <- MCTask
  MaxPriorities = 3
  BasePriority <- MCBasePriority
  EventLists <- MCEventLists
  MaxNesting = 1
  uxLength = 1
  Calls <- MixedCalls
  Waits = {"ticks"}
  IsrCalls = {"send", "receive"}
  Priorities = {1, 2}
INVARIANTS HeadIsHighest
