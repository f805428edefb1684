SPECIFICATION MCSpec
CONSTANTS
  Writer = Writer
  Reader = Reader
  Idle = Idle
  Task <- MCTask
  MaxPriorities = 2
  BasePriority <- MCPriority
  EventLists = {}
  MaxNesting = 1
  NoTask = NoTask
  xLength = 4
  Header = 1
  Sizes = {1, 2}
  Triggers = {1, 2}
  Waits <- MCWaits
  Takers = {Reader}
  MaxValue = 1
INVARIANTS IInv NoneSleepsNotified ReaderNotStranded WriterNotStranded RingIsExact NoMutualWait
