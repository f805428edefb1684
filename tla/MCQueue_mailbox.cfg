SPECIFICATION FairSpec
CONSTANTS
  high = high
  low1 = low1
  low2 = low2
  Idle = Idle
  Task <- Pair
  MaxPriorities = 3
  BasePriority <- PairPriority
  EventLists <- MCEventLists
  MaxNesting = 2
  uxLength = 1
  Calls <- PairMailbox
  Waits = {"zero", "ticks", "max"}
  IsrCalls = {"overwrite", "receive"}
  Priorities = {1, 2}
INVARIANTS BlockedIsWaiting SendersNotStranded LockHasOwner HighestPriorityRuns
PROPERTIES TimedCallReturns TopReceiverIsWoken
