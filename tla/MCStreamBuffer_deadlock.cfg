SPECIFICATION Spec
CONSTANTS
  Writer = Writer
  Reader = Reader
  Idle = Idle
  Task <- MCTask
  MaxPriorities = 2
  BasePriority <- MCPriority
  EventLists = {}
  MaxNesting = 1
  NoTask = NoTask
  xLength = 4
  Header = 1
  Sizes = {1, 2}
  Triggers = {3}
  Waits <- MCEndlessWaits
  Takers = {}
  MaxValue = 0
INVARIANT NoMutualWait
