SPECIFICATION MCSpec
CONSTANTS
  reader = reader
  worker = worker
  Idle = Idle
  Task <- MCTask
  MaxPriorities = 2
  BasePriority <- MCPriority
  EventLists <- MCLists
  MaxNesting = 1
  Member = {"q", "box"}
  uxLength <- Short
  Calls <- MCCalls
  Selects = {reader}
  Removes <- MCRemoves
  IsrCalls <- MCIsrCalls
  IsrSelects = TRUE
  Waits = {"zero", "ticks", "max"}
  t1 = t1
  t2 = t2
  ta = ta
  tb = tb
  tc = tc
  bx = bx
  by = by
  User <- MCUser
  Bits <- MCBits
  RendezvousBit <- MCRendezvousBit
  WaitCalls <- MCWaitCalls
  BitsToSet <- MCBitsToSet
  Timer = {t1, t2}
  NoTimer = NoTimer
  portMAX_DELAY = 5
  Created <- MCCreated
  Periods = {2, 5}
  QueueLength = 1
  MaxLate = 3
  Loads <- MCLoads
INVARIANTS IInv EventsAreExact SelectorsNotStranded
INVARIANTS TimersInv DaemonWakesInTime NoWaiterOverlooked RendezvousCompletes
PROPERTIES SetIsDelivered TimersKeepTime
