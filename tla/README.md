# A verification of the FreeRTOS kernel in this repository

The modules of this directory model the kernel of `FreeRTOS_Source`
(FreeRTOS V10.5.1), as it is built for the GCC/ARM Cortex-M3 examples:
one core, preemption and time slicing on, port-optimised task selection, 32-bit
ticks, mutexes, counting semaphores, queue sets and timers on, `configASSERT`
defined, no tick hook, no tickless idle, no `xTaskAbortDelay`. TLC checks the
modules on small instances; TLAPS proves theorems about them for every instance.

## 1. Inventory

| Component | State it keeps | Operations | Interacts with | What makes it correct |
|---|---|---|---|---|
| Scheduler core (`tasks.c`, `list.c`, `portable/GCC/ARM_CM3`) | running task, priorities, ready, delayed, suspended and pending-ready lists, event list items, `uxSchedulerSuspended`, `xYieldPending`, `xPendedTicks`, the PendSV bit | context switch, tick, place on an event list, remove from it, suspend and resume the scheduler, change a priority | called by every kernel object, by the tick and by interrupt handlers | the highest ready priority runs; a task that is not ready can be reached by what will wake it |
| Tick and time-outs (`tasks.c`) | `xTickCount`, `xNumOfOverflows`, two sorted delayed lists, `xNextTaskUnblockTime` | `vTaskDelay`, `xTaskDelayUntil`, `xTaskCheckForTimeOut`, the tick, `taskSWITCH_DELAYED_LISTS` | the scheduler core; every blocking call | a delay of n ticks ends after n ticks, also when the counter wraps |
| Task control (`tasks.c`) | the same lists | create, delete, suspend, resume | event lists | a task suspended or deleted leaves every list |
| Queues and semaphores (`queue.c`) | count of items, two event lists, two lock counts | send, receive, peek, overwrite, reset, from tasks and from interrupts | scheduler core, time-outs | no wake-up is lost, no sleeper is forgotten, the lock has an owner |
| Queue storage (`queue.c`) | the storage area, `pcWriteTo`, `pcReadFrom`, the count | copy in at either end, copy out, peek, reset | the queue | a bounded sequence of items |
| Mutexes (`queue.c`, `tasks.c`) | holder, mutexes held, base and inherited priority, the ready bitmap | take, give, inherit, disinherit, disinherit after a time-out | queue, scheduler core | bounded inversion; priorities return to the base |
| Queue sets (`queue.c`) | a queue of handles, its lock count | add, select, notify | member queues | one handle for each item in a member |
| Task notifications (`tasks.c`) | a value and a state per task | notify, take, wait | stream buffers, applications | no notification is lost |
| Stream and message buffers (`stream_buffer.c`) | ring of bytes, one waiting reader, one waiting writer | send, receive, reset, trigger level | task notifications | no byte lost or counted twice; no reader sleeps over enough bytes, no writer over enough room |
| Event groups (`event_groups.c`) | bits, an unordered list of waiters | set, clear, wait, sync | scheduler core, timers | a waiter whose condition is met is woken |
| Software timers (`timers.c`) | two active lists, the command queue, the daemon task | start, stop, reset, change period, expire | queue, tick | each expiry is processed once, in order |
| Heap (`heap_4.c`) | the list of free blocks, the bytes left now and at worst | allocate, free, coalesce | all | blocks are disjoint; a request that fits somewhere is granted |
| POSIX layer | counters over kernel objects | condition variables, barriers, mutexes, message queues | queue, event groups | signals wake waiters |
| CMSIS layer, co-routines, Windows port, examples, printing | none of their own, or not built | | | not modelled |

The hard behaviours: a call is interrupted between its critical sections by other
tasks and by interrupt handlers that use the same queue; wake-ups that arrive
while the scheduler or the queue is locked must be remembered; time-outs race
events; the context switch is requested in one place and happens in another, and
a handler may forget to request it; the tick counter wraps.

`PROJECT.json` lists these hazards one by one, with the line where each bites
and the properties that would catch it.

## 2. Modules

    Sched              the scheduler core: state, and one operator per kernel function
      SchedProofs      what its operators do to the lists: lemmas for all below
      Queue            a queue used by tasks and handlers (EXTENDS Sched)
        MCQueue        instances for TLC
        QueueProofs    the theorems
      Mutex            mutexes, priority inheritance and the ready bitmap
        MCMutex, MutexProofs
      QueueSet         member queues and the set they announce their items to
        MCQueueSet, MCSetDaemon, QueueSetProofs
      StreamBuffer     a stream or message buffer over task notifications
        MCStreamBuffer, StreamBufferProofs
    DequeSpec          what a queue promises of its items
      QueueStorage     the ring buffer, shown to implement DequeSpec
        MCMemoryTime, MemoryProofs
    DelaySpec          what the kernel promises of time: counting ticks
      TickDelay        the tick counter and its lists, shown to implement DelaySpec
        MCMemoryTime, TickDelayProofs
    EventGroup         an event group and its waiters
    TimerSpec          what software timers promise
      Timers           the daemon, its queue and its lists, shown to implement TimerSpec;
                       composed with EventGroup, for which it acts (EXTENDS EventGroup)
        MCSetDaemon, TimersProofs
    PoolSpec           what the heap promises
      Heap             heap_4, shown to implement PoolSpec
        MCMemoryTime, MemoryProofs

### Sched

Each variable is the kernel variable of its name. `xStateListItem[t]` is the list
that holds the task's state item ("delayed" is either delayed list);
`eventList[l]` is the sequence of tasks on an event list, kept sorted by
`ListInsert` as `vListInsert` keeps it. `pendSV` is the pending bit of the
interrupt controller: a task runs only while it is clear, and the step `PendSV`
is `vTaskSwitchContext`. The ready list of one priority is a set, so its round
robin is a choice. Time is abstract here: a wait with a finite block time has an
"armed" deadline and a tick may expire any of them, which allows every exact
timing and more. `xPendedTicks` is remembered as zero or not.

### Queue

A task's call is a walk through the labels of `pc`:

| Label | Step | Code |
|---|---|---|
| app | `Call`, `xQueueGenericReset`, suspend or resume the scheduler, `vTaskPrioritySet` | the application |
| enter | `SendItem`, `ReceiveItem`, `PeekItem`, `GiveUp`, `StartWaiting` | the first critical section |
| suspend, lock | `SuspendAll`, `prvLockQueue` | |
| check | `xTaskCheckForTimeOut` | |
| test | `TestAgain` | `prvIsQueueFull`, `prvIsQueueEmpty` |
| place | `PlaceOnEventList` | `vTaskPlaceOnEventList` |
| unlockTx, unlockRx | `UnlockTx`, `UnlockRx` | the two halves of `prvUnlockQueue` |
| resume | `ResumeAll` | `xTaskResumeAll` and what follows it |
| yield | `YieldWithinApi` | `portYIELD_WITHIN_API` |
| retest | `Retest` | the last test of a receive that timed out |

Each step is a critical section, or code that only the running task can disturb.
Between two steps any handler (`SendFromISR`, `ReceiveFromISR`), the tick and,
unless the scheduler is suspended, a context switch may come. Handlers may or
may not request the switch they are told to request. Items are counted, not
stored, so the module also covers semaphores given and taken with the queue calls.

A handler that requests a switch and a task that does so with the scheduler
suspended both set `pendSV`; the switch is then swallowed and `xYieldPending`
remembers it, as in `vTaskSwitchContext`.

### QueueStorage and DequeSpec

The pointers into the storage area are offsets in items. Each copy happens in a
critical section, so a call is one step. `DequeSpec` is the promise: a sequence
of at most `uxLength` items with sends at either end. The refinement mapping
reads the items off the ring from the slot after `pcReadFrom`.

### TickDelay and DelaySpec

`TickDelay` is the time of the kernel: `xTickCount` that wraps to zero after
`portMAX_DELAY`, the two delayed lists that `taskSWITCH_DELAYED_LISTS` exchanges
then, `xNextTaskUnblockTime`, the ticks pended while the scheduler is suspended,
and the three ways to sleep: `vTaskDelay`, `xTaskDelayUntil`, and a wait with a
block time as the calls of `queue.c` make it. A wait is the label "loop" of `pc`:
`StartWaiting` notes the time, then rounds of `vTaskSuspendAll`,
`xTaskCheckForTimeOut` (`TimesOut` or `Rearm`), `PlaceOnEventList` or
`EventFound`, until the call returns with the event ("app") or without it
("failed"). `scheduler` tells how far the suspended scheduler is: held by a task,
about to be resumed, or counting the pended ticks one by one in `xTaskResumeAll`,
where no interrupt comes between. `xTaskCatchUpTicks` adds to the pended ticks and
is `TickPended` by the holder.

A delayed list is a set here; that it is sorted matters only in that its head has
the least wake time. Which ready task runs is left open; priorities are the
subject of Sched. Unsigned arithmetic is `Plus` and `Minus` modulo
`portMAX_DELAY + 1`, with the code's comparisons kept as they are.

`DelaySpec` has no clock: each sleeper counts down the ticks it asked for, each
wait the ticks to its time-out, each periodic task the ticks since the last
multiple of its period. The refinement mapping reads these numbers off the
wrapping counter. That `TickDelay` implements it is what entitles Sched to
abstract deadlines.

### Mutex

`xMutexHolder`, `uxMutexesHeld`, `uxRecursiveCallCount` and the bitmap
`uxTopReadyPriority` (a set of priorities) are the kernel's. A take is the walk
"enter" (`Acquire`, `GiveUp`, `StartWaiting`), "suspend" (`TimedOut`, `TryAgain`,
`Wait`, with `xTaskPriorityInherit` in the critical section of `queue.c:1656`),
"retest" and "disinherit" (`DisinheritAfterTimeout`); a give is one critical
section. `RecordAndReset` and the other operators on the bitmap follow the order of
the port macros, because that order is what the bitmap depends on. Interrupt
handlers do not use mutexes, so the queue lock, the subject of Queue, is run
together with the step it protects.

The module keeps three oddities of the code. `xQueueGenericSend` yields for a woken
waiter or for its own disinheritance, not both tests (`queue.c:896-926`). The
`configASSERT` of `tasks.c:4275` holds only if no task waits for a mutex while it
holds the one it waits for. A waiter that timed out lowers the holder in a critical
section of its own. Base priorities do not change: `vTaskPrioritySet` of a holder or
a waiter is not modelled.

### QueueSet

`events` is the set: the handles in it, oldest first. `CountedTimes` is
`prvIncrementQueueTxLock` with its limit, `prvNotifyQueueSetContainer` is called by
sends to an unlocked member and, once for each count, when a member is unlocked
(`UnlockTx`); it may find the set itself locked. A reader selects a member
(`SelectItem`), is then "selected", and receives without waiting. Members are
removed and added while others send to them.

Two details the runs leave out because they make the count of events wrong by
themselves: a handler that overwrites a locked mailbox in a set
(`queue.c:1195`) counts a new item although there is none, and
`xQueueRemoveFromSet` tests that the member is empty before its critical section
(`queue.c:2980`). In MCQueueSet handlers do not overwrite, and the one task that
removes the mailbox is the one that writes to it.

### StreamBuffer

`xHead` and `xTail` are the indices, `contents` the lengths of what lies between
them, so that bytes that are lost or counted twice show in `RingIsExact`.
`Register` (inside the critical section), "wait" and "waited" (the two critical
sections of `xTaskGenericNotifyWait`), "clear" and "look" are a call that blocks;
"written", "complete", "notify" and "resume" are the trigger test and
`sbSEND_COMPLETED` or `sbRECEIVE_COMPLETED`, which suspend the scheduler around the
notification. Notifications are those of index 0, shared with the application:
a task that takes its own notification (`Take`) may be woken by the buffer, and
the buffer's waiter by the application. One side of the buffer may be a handler.
`xStreamBufferReset` is called only when no call is in progress: it tests only
that nobody waits (`stream_buffer.c:533`). Of what the application may do with a
buffer this is the only thing left out.

`xStreamBufferSetTriggerLevel` may be called at any time, of a message buffer too,
and as in the code wakes nobody (`stream_buffer.c:585`). The reader then goes by the
level at which somebody last looked for it: itself when it registered, or since then a
send that tested the level after writing. `testedLevel` remembers that level. It is a
history variable, read by no action, and `ReaderNotStranded` is about it; run
stream_level shows that the same of the level in force now does not hold (section 6).

The reader waits for the trigger level and the writer until all it sends fits
(`stream_buffer.c:711`), so the two may wait for each other: run stream_deadlock.
`NoMutualWait` excludes that and holds where whatever is sent fits beside the bytes
that stay below any level (`FitTogether`): run stream and theorem `NoDeadlock`.

After a wait that timed out, `Look` takes the room found before the wait unless it
was zero (`stream_buffer.c:738`): when the ring is emptied just before the time runs out,
a send of two bytes that found room for one writes one, although
`stream_buffer.h:311-313` says that it "will still write as many bytes as possible". The
module has this, and no property forbids it.

### EventGroup

Event bits are sets. The item of a waiter carries its bits and its control bits,
as `xItemValue` does in `vTaskPlaceOnUnorderedEventList`, and is overwritten with the
bits that woke it. `xEventGroupSetBits` is one step because the walk happens with the
scheduler suspended and handlers do not touch the group; `xEventGroupWaitBits` and
`xEventGroupSync` are two, up to the sleep and from `WaitReturns` on. Between a
time-out (`WaitTimesOut`) and `WaitReturns` any other task may set, clear or meet,
which is where the code looks at the bits once more. Priorities play no part. The
value a call returns is not modelled, nor is `vEventGroupDelete`.

### Timers and TimerSpec

`pxCurrentTimerList` and `pxOverflowTimerList` are functions from the timers on the
list to their item values: the order is that of the values. `active` and
`autoReload` are the two bits of `ucStatus`. `daemon` is where `prvTimerTask` is:
about to look at the lists ("loop"), receiving "commands", or "asleep" with
`xTicksToSleep` to go. One step of the daemon is one timer or one command, at the
tick it sampled; a callback can do at that moment only what other tasks can do, so
it needs no step of its own, and `called` counts the callbacks for the
specification. `Where` keeps the comparisons of `prvInsertTimerInActiveList`,
`Rounds` is the loop of `prvReloadTimer`, and `prvSwitchTimerLists` processes what
is left on the current list as of the last tick before the wrap. A start is two
steps, because `xTimerStart` reads the tick count before it sends (`Ask`). Handlers
have bits set and cleared through the same queue (`PendFunctionCall`), the other
half of EventGroup.

`TimerSpec` has no clock and no lists: each running timer has the number of ticks
`left`, negative when the daemon is late, and each start on its way has an age. The
mapping reads `left` off the two lists and the wrap (`Left`).

What the code does and the specification therefore allows: a stop or a change of
period cancels an expiry the daemon has not come to; and because the daemon empties
its queue before it looks at the lists again, commands that keep coming can put off
an expiry without end, so no liveness is claimed. `vTimerSetReloadMode` changes
`ucStatus` in a critical section, the daemon changes it outside one: a call that
comes between the daemon's read and its write (`timers.c:826`, `838`, `855`, `860`)
has no effect.

### Heap and PoolSpec

`link` holds the `BlockLink_t` at each address that has one, `xStart` and the end
marker included; the list is walked by its pointers as in the code (`Before`,
`FirstFit`), not assumed to be sorted. A header that was merged into another block is
dropped, so a step that would still read it is an error of the run. Addresses and
sizes are bytes, rounded as in the code; the ownership bit of `xBlockSize` is the
field `allocated`, and requests that reach it are among those made. `pvPortMalloc`,
which sets the heap up on the first call, is one step, since it works with the
scheduler suspended. `vPortFree` is two: it marks the block (`vPortFree`) before it
suspends the scheduler to put it back (`PutBack`), and other tasks may allocate and
free in between. Only blocks that are held are freed, each once.

`PoolSpec` has no list: it knows who holds which bytes. Blocks do not overlap, are
aligned, lie in the array, and are at most two headers larger than they had to be;
a request is refused only if no stretch of bytes that nobody holds is large enough,
which needs every pair of free neighbours to be merged; `xFreeBytesRemaining` and
`xMinimumEverFreeBytesRemaining` are exact. Before the first request both figures
are zero in the code although the whole heap is free; the mapping sets this aside.

## 3. Runs

| Run | Instance | What it shows |
|---|---|---|
| queue_buffer | three tasks (priorities 2, 1, 1) and idle; length 2; finite block times; handlers send and receive | no lost wake-up (`ReceiversNotStranded`, `SendersNotStranded`), `HeadIsHighest`, and the inductive invariant `IInv` of the proofs |
| queue_mailbox | two tasks and idle; length 1; send, overwrite, receive, peek, reset; all block times; scheduler suspended by the application; priorities changed; fairness | `BlockedIsWaiting`, `LockHasOwner`, `HighestPriorityRuns`, lost wake-ups of senders; timed calls of a task above all others return, and it does not sleep over a message (`TimedCallReturns`, `TopReceiverIsWoken`) |
| queue_raise | three tasks; priorities changed while they wait | violated: see section 6 |
| memory_time | queues of lengths 1 to 4, three items; a heap of 144 bytes in an array that is not aligned, with headers of 16 bytes; one task that delays and waits, one of period 2, `portMAX_DELAY` 3, up to two pended ticks | the queue's pointers stay inside and in step and the ring implements the sequence (`StorageTypeOK`, `WriteFollowsItems`, `ImplementsDeque`); `FreeListIsExact`, and that Heap implements PoolSpec (`ImplementsPool`); `ListsSplitByWrap`, `NextUnblockIsInTime`, `SleepsInTime`, the inductive invariant `IInv` of TickDelay, and that sleeps, time-outs and periods are exact (`KeepsTime`) (253 thousand states) |
| mutex | three tasks of priorities 1, 2, 3 and idle; two mutexes, one recursive; all block times; no task waits for a mutex while it holds another | `HolderInherits`, `PriorityReturns`, `BitmapStaysExact`, `WaiterIsWoken` and the inductive invariant `IInv` (369 thousand states) |
| mutex_bitmap | the same with a task that waits for a mutex while it holds another | violated: see section 6 |
| mutex_last | two mutexes; two tasks of one priority below a third | violated: see section 6 |
| sets_daemon | a reader and a worker of one priority and idle, a set with a queue of two and a mailbox, handlers that send and select; two timers, created with period 2 auto-reload and period 5 one-shot, ticks modulo 6; three tasks, a rendezvous bit each, two other bits | `EventsAreExact`, `SelectorsNotStranded` and the inductive invariant `IInv` of QueueSet; `DaemonWakesInTime`, the inductive invariant `TimersInv`, `NoWaiterOverlooked`, `RendezvousCompletes`, `SetIsDelivered`, and that Timers implements TimerSpec (`TimersKeepTime`) (985 thousand states) |
| queue_set_lost | the set of sets_daemon with a queue of four, more than there are tasks | violated: see section 6 |
| stream | a writer and a reader of one priority; a ring of four bytes; stream and message buffers whose level is set to 1 or 2 at any time; tasks on both sides or a handler on one | `NoneSleepsNotified`, `ReaderNotStranded`, `WriterNotStranded`, `RingIsExact`, `NoMutualWait` and the inductive invariant `IInv` (2.6 million states) |
| stream_level | a ring of four bytes, levels 1 and 3 | violated: see section 6 |
| stream_deadlock | a ring of four bytes, level 3, calls without limit | violated: see section 6 |

memory_time and sets_daemon each check parts of the kernel that share no state. Each part
moves while the others have not begun: interleaving their steps would add states and
no behaviour.

Why the bounds are enough. Two tasks of one priority and one of a higher one give
every relation between the task that runs, the task that is woken and the task
that waits; a queue of two items has states that are neither full nor empty, and
more than one lock count. `MaxNesting` bounds how often the application suspends
the scheduler; one level besides the queue's own reaches both branches of
`xTaskResumeAll`. A lock count reaches its limit, the number of tasks, in
queue_buffer. Four slots let the pointers be anywhere with the ring partly full.

In the tick instance of memory_time every sum of a count and a delay wraps or does not, a delay is
as long as a turn of the counter allows, and the two tasks are in either list in
either order; the theorems cover any number of tasks and any width. The ticks are
bounded by `Timely`: a periodic task that is ready may not fall behind by a whole
turn of the counter (`xTaskDelayUntil` could not tell), and a wait may not be
left unattended for more than `MaxTurns` wraps. With 32-bit ticks of a
millisecond a turn is 49 days. `MaxTurns` is 1; with 2 TLC finds `SleepsInTime`
violated (section 6). `MaxPended` bounds the ticks that come while the
scheduler is suspended; two let the counter wrap on the first or the second.

Three priorities, two mutexes and three tasks are the least for a holder that
inherits twice, from waiters of different mutexes, one of which times out. In
sets_daemon the queue is as long as there are tasks less one, so the lock count of
a member stays below its limit and queue_set_lost goes beyond it. The ring of
stream has room for three bytes: sends of two wait beside two, a message of two fills
it with its header, indices wrap after every call or not, and level 2 keeps one byte from
the reader, beside which everything sent still fits (`FitTogether`); stream_deadlock is
the same ring with level 3. The application takes notifications only where the buffer
is one of messages, since waiting for a notification is the same code for both kinds,
and the level of a buffer of messages, which every message reaches, is set only where
one side is a handler. Values of
notifications are bounded by `MaxValue`.

In sets_daemon a period is as long as the counter allows (5) or so short that a late
daemon owes several expiries (2). `MaxLate` bounds how long commands and due timers
wait for the daemon, in ticks; it may not be late by a whole turn of the counter,
which `prvSampleTimeNow` could not tell. The command queue has one place: with
more the same steps follow each other in the order of the queue. `Loads` splits the
instance into four uses, timers under start, stop and changes of period; under
deletion and changes of mode (of the first timer); event groups with waits; with rendezvous. Timers and
groups have no state in common besides the queue and the daemon, so their product
would add states and no behaviour.

The heap has room for six blocks of the smallest size, so a block may be freed with
no, one or two free neighbours and a free stretch may have any place; requests are
of 0 bytes, of sizes that are aligned or not, of some that leave too little to
split, and of the largest below the ownership bit and the smallest with it. The
alignment is 8 and a header has 16 bytes, as on a 64-bit target: a request for 8
bytes gets a block of 24, below `heapMINIMUM_BLOCK_SIZE`, which limits remainders and
not what is asked for.

`SendersNotStranded` is not claimed of a reset queue of more than one place:
`xQueueGenericReset` wakes one sender, as its comment says, and the others stay
asleep beside free places until the next receive. TLC finds that state when a queue
of two is reset by a task of lower priority than its two sleeping senders.

Each module has a type invariant; it is a part of `IInv` or `TimersInv` where a run
checks that, and of `FreeListIsExact` in the heap.

Deadlock is checked in every run.

### Fairness

`FairSpec` assumes that the processor executes the running task (`WF` of the steps
of a call), that a pended PendSV is taken, that the tick keeps coming, that an
armed deadline expires if ticks are processed again and again (`SF` of
`ExpireDeadline`: the counter reaches every value), and that an application that
suspended the scheduler resumes it. Nothing is assumed of calls, of handlers, or
of the choice between ready tasks of one priority: the liveness properties are
about a task while it is above all others (`IsTop`), which changes of priority may
end. No liveness is stated of mutexes (a holder may keep one), of stream buffers (the
other side may never come), or of the daemon (see Timers).

## 4. Proofs

`QueueProofs` proves of `Queue`, for any set of tasks, priorities, queue length,
block times and nesting, under the assumptions named in `Sched` and `Queue`:

- `Invariance`: `IInv` is an invariant;
- `TypeCorrect`, `SleepersAreReachable`, `LockIsOwned` and `NoReceiverIsStranded`:
  parts of it;
- `NoSenderIsStranded`, for a queue of one place or one that is never reset
  (`ResetWakesEnough`; section 3 says why this is needed);
- `HighestReadyRuns`: whatever wakes or raises a task, the highest ready priority runs
  or a switch is on its way, also while priorities change;
- `HeadOfListIsHighest`, where no task changes priorities (`Priorities = {}`); queue_raise
  shows that this is needed.

The inductive invariant has three parts. `CoreInv` is inductive by itself; the
other two rest on it. That no receiver is stranded follows from an accounting:
while a task sleeps on `xTasksWaitingToReceive`, each message is matched by a
receiver that was woken and has not run yet, or by a count in `cTxLock`, or the
count has reached the number of tasks. To keep this through a step one must know
that a receiver about to place itself found the queue empty and that everything
since is in the count (`PlaceInv`); that the lock is on whenever a task is about
to place itself, and off otherwise (`LockHasOwner`); that a woken task is not on
the list any more and has nothing but its next try before it (`BlockedIsWaiting`,
`BlockedInv`); and what a call in progress looks like (`CallInv`). There is one
lemma per action and one step per part of the invariant it can disturb. `SenderInv`
is the same accounting for `xTasksWaitingToSend`, free places and `cRxLock`.
`SchedulingInv` says of every moment in which the running task is not of the
highest ready priority what will make up for it: `pendSV`, `xYieldPending`, the
suspended scheduler or its own yield (`SwitchIsComing` of Sched); and that the event
lists are sorted (`ListsInOrder`).

`SchedProofs` holds what these proofs share with the next three: what `ListInsert`,
`xTaskRemoveFromEventList` and `xTaskResumeAll` do to the lists, and `SetInduction`,
induction over the naturals for a set, which the library has for operators only.

`MutexProofs` proves of `Mutex`, for any tasks, priorities and mutexes:

- `Invariance`, `PrioritiesReturn` and `WaitersAreWoken`, also for applications that
  wait for one mutex while they hold another;
- `InheritanceHolds` and `BitmapIsKept` for those that do not (`~WaitsWhileHolding`);
  mutex_bitmap shows that the bitmap needs this.

The first six parts of `IInv` hold of all applications: what is on the lists and in
the counts, and that a mutex given back has a woken task coming for it
(`WokenIsEntering`). The rest, `NoChains`, holds where no task waits while it holds:
then a waiter has its base priority, the lists are sorted, the task woken outranks
those that go on waiting (`WokenOutranksWaiters`), and a task that `xQueueGenericSend`
leaves running below a ready one has nothing inherited (`OutrankedRunsAtBase`).
Both action properties except a step, by name: they are what the code achieves
with the oddities listed in section 2, not what inheritance promises in general.

`QueueSetProofs` proves of `QueueSet`, for any tasks, members, lengths and calls:

- `Invariance` and `SelectorsAreWoken`;
- `EventsExact`, where no member is longer than there are tasks, handlers do not
  overwrite, and only the task that removes a member sends to it
  (`MembersWellUsed`); queue_set_lost shows the need of the first, section 2 that of
  the others.

Again an accounting: events in the set, held back by the lock of a member
(`LockCount`) or in the hands of a task that selected (`Selected`) are together the
items of the member. `NoneOutside` says that a member outside the set, or about to leave
it, has none.

`StreamBufferProofs` proves of `StreamBuffer`, for any length, trigger levels, sizes
and uses of the notifications by the application:

- `Invariance`, `NotificationsWake`, `RingExact`, `ReaderIsWoken`, `WriterIsWoken` and
  `NoDeadlock`, the last where whatever is sent fits beside the bytes that stay below
  any level (`FitTogether`); stream_deadlock shows that this is needed.

What one side found is still there when it uses it (`AmountInv`); whoever may come to
sleep is registered, and if what it waits for is there already, the other side is
between its write and its notification (`ReaderInv`, `WriterInv`). For the reader "what
it waits for" is `testedLevel`: a level set meanwhile binds neither it nor the writer until
the writer's next test, which makes it the level tested. `RingExact` is about amounts, not
about the order of bytes, which the model does not have. The library's
folds have no theorem on appending, so `BytesOf` is shown to be the last of its partial
sums.

`MemoryProofs` proves of `QueueStorage`, for every length and every set of
items: `PointersStayInside`, `PointersAgree` and `RefinesDeque`. The invariant is
the type invariant with "the write pointer is right behind the last item"; the
lemmas `WrapForwards`, `WrapBackwards` and `WrapInjective` say that walking round
the ring with the code's comparisons is counting modulo the length.

Then of `Heap`, for an array of any size at any address, any alignment and any requests:

- `FreeListStaysExact` and `RefinesPool`.

It assumes what the code sees to or the target guarantees (`HeapAssumption`: the array is
not at address 0 and ends below the ownership bit, a header is aligned), and that the
array holds at least the end marker and one block (`HeapHoldsABlock`), which `prvHeapInit`
does not ask. The invariant `HeapInv` says that the headers tile the heap and each is
aligned (`Tiled`), that the list is the chain of the free ones by address (`Chain`), that no
two of them touch (`Merged`), and that the count of free bytes is the number of bytes in
them (`FreeBytes`). The free bytes are a set, so that what is added and taken away are
cardinalities; `SumIsCount` says that summing the sizes one by one, as
`FreeListIsExact` does, gives the same.

The argument has three layers. The walks (`BeforeMeans`, `FirstFitMeans`): a recursive
function over the links that the model defines is shown to be what its recursion says,
because `Chain` orders the links, and its value to be the place before an address, the first
block that suits. The headers (`PutKeeps`, `JoinKeeps`, `CutKeeps`, `GiveKeeps`): the four
things that are done to the list keep the headers sound. The operations (`InsertIs`,
`SplitIs`, `TakeIs`): `prvInsertBlockIntoFreeList` is one `Put` and up to two `Join`s, with
nothing left to merge (`PutMergedKeeps`); a block is taken by giving it away, after a `Cut`
when enough is left, and the remainder goes back to where the block was, since it touches no
free block. `RoomIsFound` is why a refusal is right: bytes that nobody holds and that
follow each other all lie in one free block, because free neighbours were merged, and that
block is as large as the request rounded up (`RoundUpIsLeast`). `vPortFree`'s mark maps to
no step of `PoolSpec`, `PutBack` to `Free`, so that what other tasks do between the two does
not matter.

`TickDelayProofs` proves of `TickDelay`, for any tasks, delays, block times and
periods and any width of the counter:

- `Invariance`, `TypeCorrect`, `ListsAreSplit`, `NoSleeperIsMissed`;
- `WaitsSleepInTime` and `RefinesDelay`, for waits that are attended at least once
  a turn of the counter (`MaxTurns = 1`); section 6 shows that this is needed.

The invariant `IInv` adds to the type and the two properties of the lists who is
asleep and on which lists (`SleepInv`), what the scheduler lock excludes
(`SchedulerInv`), and how far the clock may be from what was noted, pended ticks
included (`ClockInv`). The heart is `TickWakesDue`: a tick wakes exactly the
sleepers whose wake time is the new count, in whichever list they are and whatever
`xNextTaskUnblockTime` is. `ShouldDelayMeansEarly` and `TimedOutMeansElapsed` say that
the comparisons of `xTaskDelayUntil` and `xTaskCheckForTimeOut` mean what they
should; from these each action is shown to map to an action of `DelaySpec` or to
none.

`TimersProofs` proves of `Timers`, first of an event group that tasks and the daemon
use, for any tasks, bits, waits, timers and queue length:

- `Invariance`, `NobodyIsOverlooked`, `RendezvousIsCompleted`, `BitsAreDelivered`.

It assumes that there is a task and that the bits of a rendezvous are used for
nothing else (`EventGroupAssumption`). The invariant adds that items hold what the
calls of their tasks wait for (`ItemsHoldCalls`), that who has come to the rendezvous
has its bit set (`ComersHaveTheirBit`), and what the messages to the daemon are
(`MessagesAreLegal`). The argument is `RendezvousWakesAll`: bits wake all who wait at
the rendezvous or none, so a bit that was brought is cleared only when nobody is
left; and if all were waiting, all bits would be set and all of them woken.

Then of the daemon, for any timers, periods and width of the tick count:

- `TimersInvariance`, `TypeCorrect`, `DaemonIsWoken` and `RefinesTimerSpec`.

It assumes that periods are not zero and fit the counter, as `configASSERT` and the type
see to, and a `MaxLate` of less than a turn (`TimersAssumption`); how late the daemon may
be is a guard of `Tick` (`Timely`, section 3). `TimersInv` adds to the type and to
`DaemonWakesInTime` that a running timer is on one list, with what it has left counted on
the side of the wrap that list stands for (`ListsAreExact`); that no command comes for a
timer after its deletion (`CommandsAreTimely`); and that the tick count does not wrap over
a daemon that sleeps (`SleepsWithinTurn`: it is woken at the wrap, not after it). The heart
is `WhereMeans`: the comparisons of `prvInsertTimerInActiveList`, although they compare
wrapped counts, tell exactly whether the ticks since the command are as many as the
period. From it `RoundsMeans` has the loop of `prvReloadTimer` end after one round for
every period that has passed, `ExpiredMeans` has a timer put back without drift, and
`SampleServesDue` has the switch of the lists serve all that were due at the wrap and
nothing else. Each step is then shown to be a step of `TimerSpec` or none (`TickMaps`,
`SwitchMaps`, `ServeMaps`, `CommandMaps`, `SendersMap`): a tick takes one from what each timer
has left, on both lists and over the wrap, and makes each start on its way one tick older.

Only model-checked: the two liveness properties of Queue, since liveness under fairness,
and anything that needs ENABLED, is out of the prover's reach. All other properties of
the passing runs are stated by a theorem, some under a condition named in it that the
theorem's comment explains: `ResetWakesEnough`, `Priorities = {}`, `~WaitsWhileHolding`,
`MembersWellUsed`, `MaxTurns = 1`, `FitTogether`.

## 5. Plan

Done, in this order: Sched and Queue with their theorems; QueueStorage, refining
DequeSpec; TickDelay, refining DelaySpec; Mutex; QueueSet; StreamBuffer with task
notifications; EventGroup and Timers, refining TimerSpec; Heap, refining PoolSpec; the
theorems on event groups, on the rest of Queue, on StreamBuffer, Mutex, QueueSet,
Timers and Heap.

Left: of the hazards without a property, suspending or deleting a task that was woken for
a message.

## 6. Findings

`vTaskPrioritySet` changes the sort key of an event list item without moving the
item. The comments of `queue.c:111-112` and `tasks.c:3177` say that event lists are
in priority order; after the priority of a waiting task was changed they are not,
and the wrong waiter is woken first. Run queue_raise shows it.

`xTaskCheckForTimeOut` misses a time-out when the counter wrapped more than once
since the time was noted and stands below the noted count: it compares overflow
counts only for being different. `task.h:2802-2809` makes no such exception. TLC
shows it when `MaxTurns` in `MCMemoryTime.cfg` is 2. A task has to be kept from running
for a whole turn of the counter, which is 65536 ticks where ticks have 16 bits.

`vTaskPriorityDisinheritAfterTimeout` resets the ready bit of the wrong priority:
it stores the new priority first (`tasks.c:4282`) and then clears the bit of
`uxPriority` (`tasks.c:4308`), where `xTaskPriorityInherit` and
`xTaskPriorityDisinherit` clear the bit first. The bit of the old priority stays set
while its list may be empty; the next selection then violates the `configASSERT` of
`tasks.c:178`. Run mutex_bitmap shows it, with tasks that wait for a mutex while they
hold another.

`xQueueGenericSend` may miss the switch that giving back the last mutex calls for: it
asks for one on account of the priority given back only when no task waits for the
mutex (`queue.c:914`); otherwise the comparison with the woken task alone decides
(`queue.c:900`). `tasks.c:4207-4211` promises the switch "whether a task is waiting on
it or not". Run mutex_last shows a task that holds nothing any more run on although a
task above it is ready, until the next context switch.

`prvIncrementQueueTxLock` counts no further than the number of tasks, which is right
for wake-ups and wrong for a member of a queue set, where each count stands for an
event. Handlers that send more items than that to a locked member leave an item
without an event, although the set is as long as `queue.h:1598-1600` asks for "to be
absolutely certain that events are not lost". Run queue_set_lost shows it.

`xStreamBufferSetTriggerLevel` stores the level and wakes nobody (`stream_buffer.c:585`).
`stream_buffer.h:770-772` calls it "the number of bytes that must be in the stream buffer
before a task that is blocked on the stream buffer to wait for data is moved out of the
blocked state" and says without condition that it "can be modified" (`784-785`). Run
stream_level lowers it to what the buffer holds while the reader sleeps; the reader stays
blocked until the next send or the end of its block time.

A reader that waits for its level and a writer that waits for room may wait for each
other without end: two bytes are in a ring with room for three, the level is three, and
the writer has two more. One would fit and reach the level, and `stream_buffer.c:686-688`
says that "it is acceptable to write only part of the message", but the send waits for
room for all of it (`stream_buffer.c:711`). `stream_buffer.h:503-505` lets the reader wait
"if the stream buffer is empty", which it is not; that the reader waits for the level
all the same is documented (`98-105`), that both may wait for ever is not. Run
stream_deadlock shows it. A block time avoids it, and so do sends that fit beside the
level (`FitTogether`).

## 7. Not modelled

- Task control: suspend, resume, delete, create and abort-delay would add a step to
  every protocol of Queue, Mutex, QueueSet and StreamBuffer and to their proofs. That
  a suspended task takes its wake-up with it is listed as a hazard without a property.
- `heap_1.c`, the allocator that frees nothing; a call of `vPortFree` for a block that
  is not held, which `configASSERT` excludes.
- The POSIX layer: a library over queues, event groups and timers, used by one example.
  Its condition variables, whose counter and semaphore are updated in separate steps,
  are listed as a hazard without a property.
- The CMSIS layer keeps no state of its own; co-routines are switched off; the Windows
  port imitates interrupts with threads of the host; examples and printing are clients
  and output.
- Queue creation and deletion, registry and tracing; critical-section nesting and
  interrupt priorities (a critical section is one step); stack and context-switch
  assembly; run-time statistics; the thread-safe allocation of objects; the other
  indices, actions and values of task notifications.
