SPECIFICATION Spec
CONSTANTS
  reader = reader
  worker = worker
  Idle = Idle
  Task <- MCTask
  MaxPriorities = 2
  BasePriority <- MCPriority
  EventLists <- MCLists
  MaxNesting = 1
  Member = {"q", "box"}
  uxLength <- Long
  Calls <- MCCalls
  Selects = {reader}
  Removes <- MCRemoves
  IsrCalls <- MCIsrCalls
  IsrSelects = TRUE
  Waits = {"zero", "ticks", "max"}
INVARIANTS EventsAreNotLost
