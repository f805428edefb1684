SPECIFICATION MCSpec
CONSTANTS
  a = a
  b = b
  c = c
  Item <- MCItem
  Lengths = {1, 2, 3, 4}
  ucHeap = 4
  configTOTAL_HEAP_SIZE = 166
  portBYTE_ALIGNMENT = 8
  xHeapStructSize = 16
  xBlockAllocatedBit = 256
  WantedSizes = {0, 8, 9, 33, 255, 256}
  waiter = waiter
  periodic = periodic
  Task = {waiter, periodic}
  portMAX_DELAY = 3
  Period <- PeriodOf
  Delays = {1, 2, 3}
  BlockTimes = {1, 2}
  MaxPended = 2
  MaxTurns = 1
INVARIANTS StorageTypeOK WriteFollowsItems FreeListIsExact
INVARIANTS ListsSplitByWrap NextUnblockIsInTime IInv
PROPERTIES ImplementsDeque ImplementsPool SleepsInTime KeepsTime
