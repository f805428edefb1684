------------------------------- MODULE Queue -------------------------------
(***************************************************************************)
(* One queue of FreeRTOS_Source/queue.c, used by tasks and by interrupt    *)
(* handlers, on top of the scheduler of Sched.  Items are counted, not     *)
(* stored (the ring buffer is QueueStorage's subject).  The queue is a     *)
(* plain queue or a semaphore given by xQueueGenericSend; it is in no      *)
(* queue set and is no mutex.                                              *)
(*                                                                         *)
(* A blocking call is split where the code can be interrupted: a critical  *)
(* section of a task and a FromISR call are one step each, and between two *)
(* steps of a task any interrupt handler, the tick and, unless the         *)
(* scheduler is suspended, other tasks may run.                            *)
(***************************************************************************)
EXTENDS Sched

CONSTANTS
    uxLength,   \* the queue holds uxLength items
    Calls,      \* Calls[t]: the operations task t calls
    Waits,      \* the block times used: "zero", "ticks" (finite) and "max"
    IsrCalls,   \* the operations interrupt handlers call
    Priorities  \* the priorities vTaskPrioritySet is called with

Operation == {"send", "overwrite", "receive", "peek", "reset"}

ASSUME QueueAssumption ==
    /\ uxLength \in Nat \ {0}
    /\ Calls \in [Task -> SUBSET Operation]
    /\ Calls[Idle] = {}
    /\ \A t \in Task : "overwrite" \in Calls[t] => uxLength = 1
    /\ Waits \subseteq {"zero", "ticks", "max"}
    /\ IsrCalls \subseteq {"send", "overwrite", "receive"}
    /\ "overwrite" \in IsrCalls => uxLength = 1
    /\ Priorities \subseteq 0..MaxPriorities - 1

Rx == "xTasksWaitingToReceive"
Tx == "xTasksWaitingToSend"

ASSUME EventListAssumption == EventLists = {Rx, Tx}

VARIABLES
    uxMessagesWaiting,
    cRxLock, cTxLock,
    pc,            \* where each task is, "app" outside the queue API
    op,            \* the operation in progress
    xTicksToWait,  \* what is left of its block time, a member of Waits
    after          \* what it does once the scheduler is resumed

queueVars == <<uxMessagesWaiting, cRxLock, cTxLock, pc, op, xTicksToWait, after>>
vars == <<schedVars, queueVars>>

queueUNLOCKED == -1
queueLOCKED_UNMODIFIED == 0

TypeOK ==
    /\ SchedTypeOK
    /\ uxMessagesWaiting \in 0..uxLength
    /\ cRxLock \in queueUNLOCKED..NumberOfTasks
    /\ cTxLock \in queueUNLOCKED..NumberOfTasks
    /\ pc \in [Task -> {"app", "enter", "suspend", "lock", "check", "test", "place",
                        "unlockTx", "unlockRx", "resume", "yield", "retest"}]
    /\ op \in [Task -> (Operation \ {"reset"}) \cup {"none"}]
    /\ xTicksToWait \in [Task -> {"zero", "ticks", "max"}]
    /\ after \in [Task -> {"none", "yield", "retry", "fail"}]

Init ==
    /\ SchedInit
    /\ uxMessagesWaiting = 0
    /\ cRxLock = queueUNLOCKED
    /\ cTxLock = queueUNLOCKED
    /\ pc = [t \in Task |-> "app"]
    /\ op = [t \in Task |-> "none"]
    /\ xTicksToWait = [t \in Task |-> "zero"]
    /\ after = [t \in Task |-> "none"]

-----------------------------------------------------------------------------
At(t, label) == Running(t) /\ pc[t] = label
GoTo(t, label) == pc' = [pc EXCEPT ![t] = label]

(* The call of t returns.  Constrains pc, op, xTicksToWait, after and      *)
(* deadline.                                                               *)
Return(t) ==
    /\ GoTo(t, "app")
    /\ op' = [op EXCEPT ![t] = "none"]
    /\ xTicksToWait' = [xTicksToWait EXCEPT ![t] = "zero"]
    /\ after' = [after EXCEPT ![t] = "none"]
    /\ deadline' = [deadline EXCEPT ![t] = "none"]

Sends(o) == o \in {"send", "overwrite"}
Receives(o) == o \in {"receive", "peek"}

(* prvIsQueueFull or prvIsQueueEmpty, whichever makes the operation wait.  *)
CannotProceed(o) ==
    \/ o = "send" /\ uxMessagesWaiting = uxLength
    \/ Receives(o) /\ uxMessagesWaiting = 0

(* The list a waiting task is placed on.                                   *)
EventListOf(o) == IF Sends(o) THEN Tx ELSE Rx

(* prvCopyDataToQueue: overwriting a full queue replaces its item.         *)
CountAfterSend(o) ==
    IF o = "overwrite" /\ uxMessagesWaiting # 0 THEN uxMessagesWaiting ELSE uxMessagesWaiting + 1

(* Wake the task at the head of the list, if there is one.                 *)
AtMostOne(l) == IF eventList[l] = <<>> THEN 0 ELSE 1
WakeOne(l) == xTaskRemoveFromEventList(l, AtMostOne(l))
WokenPreempts(l) == Preempts(FirstOf(l, AtMostOne(l)))

-----------------------------------------------------------------------------
(* The application.                                                        *)

Call(t) ==
    /\ At(t, "app")
    /\ \E o \in Calls[t] \ {"reset"}, w \in Waits :
           /\ uxSchedulerSuspended # 0 => w = "zero"
           /\ op' = [op EXCEPT ![t] = o]
           /\ xTicksToWait' = [xTicksToWait EXCEPT ![t] = w]
    /\ GoTo(t, "enter")
    /\ UNCHANGED <<schedVars, uxMessagesWaiting, cRxLock, cTxLock, after>>

AppSuspendAll(t) ==
    /\ At(t, "app")
    /\ t # Idle
    /\ uxSchedulerSuspended < MaxNesting - 1
    /\ vTaskSuspendAll
    /\ UNCHANGED <<queueVars, pxCurrentTCB, uxPriority, xStateListItem, eventList,
                   xPendingReadyList, xYieldPending, ticksPended, pendSV, deadline>>

AppResumeAll(t) ==
    /\ At(t, "app")
    /\ uxSchedulerSuspended > 0
    /\ \E X \in SUBSET Armed : xTaskResumeAll(X)
    /\ UNCHANGED <<queueVars, pxCurrentTCB, uxPriority>>

AppPrioritySet(t) ==
    /\ At(t, "app")
    /\ t # Idle
    /\ \E u \in Task \ {Idle}, p \in Priorities : vTaskPrioritySet(u, p)
    /\ UNCHANGED <<queueVars, pxCurrentTCB, xStateListItem, eventList, xPendingReadyList,
                   uxSchedulerSuspended, xYieldPending, ticksPended, deadline>>

(* Mutant of xQueueGenericReset: no waiting sender is woken.               *)
ResetWakesNobody(t) ==
    /\ At(t, "app")
    /\ "reset" \in Calls[t]
    /\ uxMessagesWaiting' = 0
    /\ cRxLock' = queueUNLOCKED
    /\ cTxLock' = queueUNLOCKED
    /\ UNCHANGED <<schedVars, pc, op, xTicksToWait, after>>

(* xQueueGenericReset of a queue in use.                                   *)
xQueueGenericReset(t) ==
    /\ At(t, "app")
    /\ "reset" \in Calls[t]
    /\ uxMessagesWaiting' = 0
    /\ cRxLock' = queueUNLOCKED
    /\ cTxLock' = queueUNLOCKED
    /\ WakeOne(Tx)
    /\ pendSV' = WokenPreempts(Tx)
    /\ UNCHANGED <<pc, op, xTicksToWait, after, pxCurrentTCB, uxPriority,
                   uxSchedulerSuspended, ticksPended, deadline>>

-----------------------------------------------------------------------------
(* The first critical section of xQueueGenericSend, xQueueReceive and      *)
(* xQueuePeek: proceed, give up or prepare to wait.                        *)

Proceed(t, count, l) ==
    /\ At(t, "enter")
    /\ ~CannotProceed(op[t])
    /\ uxMessagesWaiting' = count
    /\ WakeOne(l)
    /\ pendSV' = WokenPreempts(l)
    /\ Return(t)
    /\ UNCHANGED <<cRxLock, cTxLock, pxCurrentTCB, uxPriority, uxSchedulerSuspended,
                   ticksPended>>

SendItem(t) == Sends(op[t]) /\ Proceed(t, CountAfterSend(op[t]), Rx)
ReceiveItem(t) == op[t] = "receive" /\ Proceed(t, uxMessagesWaiting - 1, Tx)
PeekItem(t) == op[t] = "peek" /\ Proceed(t, uxMessagesWaiting, Rx)

GiveUp(t) ==
    /\ At(t, "enter")
    /\ CannotProceed(op[t])
    /\ xTicksToWait[t] = "zero"
    /\ Return(t)
    /\ UNCHANGED <<uxMessagesWaiting, cRxLock, cTxLock, pxCurrentTCB, uxPriority,
                   xStateListItem, eventList, xPendingReadyList, uxSchedulerSuspended,
                   xYieldPending, ticksPended, pendSV>>

(* vTaskInternalSetTimeOutState the first time round.                      *)
StartWaiting(t) ==
    /\ At(t, "enter")
    /\ CannotProceed(op[t])
    /\ xTicksToWait[t] # "zero"
    /\ deadline' = [deadline EXCEPT ![t] =
                        IF @ = "none" /\ xTicksToWait[t] = "ticks" THEN "armed" ELSE @]
    /\ GoTo(t, "suspend")
    /\ UNCHANGED <<uxMessagesWaiting, cRxLock, cTxLock, op, xTicksToWait, after,
                   pxCurrentTCB, uxPriority, xStateListItem, eventList, xPendingReadyList,
                   uxSchedulerSuspended, xYieldPending, ticksPended, pendSV>>

-----------------------------------------------------------------------------
(* The rest of the loop, with the scheduler suspended.                     *)

SuspendAll(t) ==
    /\ At(t, "suspend")
    /\ vTaskSuspendAll
    /\ GoTo(t, "lock")
    /\ UNCHANGED <<uxMessagesWaiting, cRxLock, cTxLock, op, xTicksToWait, after,
                   pxCurrentTCB, uxPriority, xStateListItem, eventList,
                   xPendingReadyList, xYieldPending, ticksPended, pendSV, deadline>>

Locked(c) == IF c = queueUNLOCKED THEN queueLOCKED_UNMODIFIED ELSE c

prvLockQueue(t) ==
    /\ At(t, "lock")
    /\ cRxLock' = Locked(cRxLock)
    /\ cTxLock' = Locked(cTxLock)
    /\ GoTo(t, "check")
    /\ UNCHANGED <<schedVars, uxMessagesWaiting, op, xTicksToWait, after>>

xTaskCheckForTimeOut(t) ==
    /\ At(t, "check")
    /\ IF deadline[t] = "expired"
       THEN /\ xTicksToWait' = [xTicksToWait EXCEPT ![t] = "zero"]
            /\ deadline' = [deadline EXCEPT ![t] = "none"]
            /\ after' = [after EXCEPT ![t] = "fail"]
            /\ GoTo(t, "unlockTx")
       ELSE /\ GoTo(t, "test")
            /\ UNCHANGED <<xTicksToWait, deadline, after>>
    /\ UNCHANGED <<uxMessagesWaiting, cRxLock, cTxLock, op, pxCurrentTCB, uxPriority,
                   xStateListItem, eventList, xPendingReadyList, uxSchedulerSuspended,
                   xYieldPending, ticksPended, pendSV>>

(* Mutant of TestAgain: the test of the first critical section is trusted. *)
TrustFirstTest(t) ==
    /\ At(t, "test")
    /\ GoTo(t, "place")
    /\ UNCHANGED <<schedVars, uxMessagesWaiting, cRxLock, cTxLock, op, xTicksToWait, after>>

(* prvIsQueueFull or prvIsQueueEmpty, in a critical section of its own.    *)
TestAgain(t) ==
    /\ At(t, "test")
    /\ IF CannotProceed(op[t])
       THEN GoTo(t, "place") /\ UNCHANGED after
       ELSE GoTo(t, "unlockTx") /\ after' = [after EXCEPT ![t] = "retry"]
    /\ UNCHANGED <<schedVars, uxMessagesWaiting, cRxLock, cTxLock, op, xTicksToWait>>

PlaceOnEventList(t) ==
    /\ At(t, "place")
    /\ vTaskPlaceOnEventList(EventListOf(op[t]), xTicksToWait[t] = "max")
    /\ after' = [after EXCEPT ![t] = "yield"]
    /\ GoTo(t, "unlockTx")
    /\ UNCHANGED <<uxMessagesWaiting, cRxLock, cTxLock, op, xTicksToWait, pxCurrentTCB,
                   uxPriority, xPendingReadyList, uxSchedulerSuspended, xYieldPending,
                   ticksPended, pendSV, deadline>>

(* Mutant of WakesOf: one task, however many events were counted.          *)
WakesOnce(lock, l) ==
    IF lock <= queueLOCKED_UNMODIFIED \/ eventList[l] = <<>> THEN 0 ELSE 1

(* How many tasks an unlock wakes: one for each counted event while the    *)
(* list is not empty.                                                      *)
WakesOf(lock, l) ==
    IF lock <= queueLOCKED_UNMODIFIED THEN 0
    ELSE IF lock <= Len(eventList[l]) THEN lock ELSE Len(eventList[l])

(* Mutants of UnlockTx: the lock stays; the count is dropped.              *)
UnlockTxLeavesLock(t) ==
    /\ At(t, "unlockTx")
    /\ xTaskRemoveFromEventList(Rx, WakesOf(cTxLock, Rx))
    /\ GoTo(t, "unlockRx")
    /\ UNCHANGED <<uxMessagesWaiting, cRxLock, cTxLock, op, xTicksToWait, after,
                   pxCurrentTCB, uxPriority, uxSchedulerSuspended, ticksPended, pendSV,
                   deadline>>

UnlockTxDropsCount(t) ==
    /\ At(t, "unlockTx")
    /\ cTxLock' = queueUNLOCKED
    /\ GoTo(t, "unlockRx")
    /\ UNCHANGED <<schedVars, uxMessagesWaiting, cRxLock, op, xTicksToWait, after>>

(* prvUnlockQueue: a critical section for each of the two locks.           *)
UnlockTx(t) ==
    /\ At(t, "unlockTx")
    /\ xTaskRemoveFromEventList(Rx, WakesOf(cTxLock, Rx))
    /\ cTxLock' = queueUNLOCKED
    /\ GoTo(t, "unlockRx")
    /\ UNCHANGED <<uxMessagesWaiting, cRxLock, op, xTicksToWait, after, pxCurrentTCB,
                   uxPriority, uxSchedulerSuspended, ticksPended, pendSV, deadline>>

(* Mutant of UnlockRx: the count is dropped.                               *)
UnlockRxDropsCount(t) ==
    /\ At(t, "unlockRx")
    /\ cRxLock' = queueUNLOCKED
    /\ GoTo(t, "resume")
    /\ UNCHANGED <<schedVars, uxMessagesWaiting, cTxLock, op, xTicksToWait, after>>

UnlockRx(t) ==
    /\ At(t, "unlockRx")
    /\ xTaskRemoveFromEventList(Tx, WakesOf(cRxLock, Tx))
    /\ cRxLock' = queueUNLOCKED
    /\ GoTo(t, "resume")
    /\ UNCHANGED <<uxMessagesWaiting, cTxLock, op, xTicksToWait, after, pxCurrentTCB,
                   uxPriority, uxSchedulerSuspended, ticksPended, pendSV, deadline>>

(* xTaskResumeAll.  A task that placed itself on a list then yields,       *)
(* unless xTaskResumeAll did; one whose wait timed out tests the queue     *)
(* once more if it receives or peeks, and fails at once if it sends.       *)
ResumeAll(t) ==
    /\ At(t, "resume")
    /\ \E X \in SUBSET Armed :
           /\ xTaskResumeAll(X)
           /\ CASE after[t] = "yield" -> GoTo(t, IF AlreadyYielded(X) THEN "enter" ELSE "yield")
                [] after[t] = "retry" -> GoTo(t, "enter")
                [] after[t] = "fail" -> GoTo(t, IF Sends(op[t]) THEN "app" ELSE "retest")
    /\ after' = [after EXCEPT ![t] = "none"]
    /\ op' = [op EXCEPT ![t] = IF after[t] = "fail" /\ Sends(@) THEN "none" ELSE @]
    /\ UNCHANGED <<uxMessagesWaiting, cRxLock, cTxLock, xTicksToWait, pxCurrentTCB,
                   uxPriority>>

(* portYIELD_WITHIN_API.                                                   *)
YieldWithinApi(t) ==
    /\ At(t, "yield")
    /\ pendSV' = TRUE
    /\ GoTo(t, "enter")
    /\ UNCHANGED <<uxMessagesWaiting, cRxLock, cTxLock, op, xTicksToWait, after,
                   pxCurrentTCB, uxPriority, xStateListItem, eventList, xPendingReadyList,
                   uxSchedulerSuspended, xYieldPending, ticksPended, deadline>>

(* After a timeout xQueueReceive and xQueuePeek fail only if the queue is  *)
(* empty now.                                                              *)
Retest(t) ==
    /\ At(t, "retest")
    /\ IF uxMessagesWaiting = 0
       THEN Return(t)
       ELSE GoTo(t, "enter") /\ UNCHANGED <<op, xTicksToWait, after, deadline>>
    /\ UNCHANGED <<uxMessagesWaiting, cRxLock, cTxLock, pxCurrentTCB, uxPriority,
                   xStateListItem, eventList, xPendingReadyList, uxSchedulerSuspended,
                   xYieldPending, ticksPended, pendSV>>

-----------------------------------------------------------------------------
(* Interrupts.  A handler that woke a task of higher priority may or may   *)
(* not request the switch.                                                 *)

(* prvIncrementQueueTxLock and prvIncrementQueueRxLock.                    *)
Counted(c) == IF c < NumberOfTasks THEN c + 1 ELSE c

SendFromISR(o) ==
    /\ o = "overwrite" \/ uxMessagesWaiting < uxLength
    /\ uxMessagesWaiting' = CountAfterSend(o)
    /\ IF cTxLock = queueUNLOCKED
       THEN /\ WakeOne(Rx)
            /\ pendSV' \in {pendSV, pendSV \/ WokenPreempts(Rx)}
            /\ UNCHANGED cTxLock
       ELSE /\ cTxLock' = Counted(cTxLock)
            /\ UNCHANGED <<eventList, xStateListItem, xPendingReadyList, xYieldPending, pendSV>>
    /\ UNCHANGED <<cRxLock, pc, op, xTicksToWait, after, pxCurrentTCB, uxPriority,
                   uxSchedulerSuspended, ticksPended, deadline>>

ReceiveFromISR ==
    /\ uxMessagesWaiting > 0
    /\ uxMessagesWaiting' = uxMessagesWaiting - 1
    /\ IF cRxLock = queueUNLOCKED
       THEN /\ WakeOne(Tx)
            /\ pendSV' \in {pendSV, pendSV \/ WokenPreempts(Tx)}
            /\ UNCHANGED cRxLock
       ELSE /\ cRxLock' = Counted(cRxLock)
            /\ UNCHANGED <<eventList, xStateListItem, xPendingReadyList, xYieldPending, pendSV>>
    /\ UNCHANGED <<cTxLock, pc, op, xTicksToWait, after, pxCurrentTCB, uxPriority,
                   uxSchedulerSuspended, ticksPended, deadline>>

Interrupt ==
    \/ \E o \in IsrCalls \ {"receive"} : SendFromISR(o)
    \/ "receive" \in IsrCalls /\ ReceiveFromISR

SysTick ==
    /\ \E X \in SUBSET Armed : xTaskIncrementTick(X)
    /\ UNCHANGED <<queueVars, pxCurrentTCB, uxPriority, xPendingReadyList,
                   uxSchedulerSuspended, xYieldPending>>

PendSV ==
    /\ vTaskSwitchContext
    /\ UNCHANGED <<queueVars, uxPriority, xStateListItem, eventList, xPendingReadyList,
                   uxSchedulerSuspended, ticksPended, deadline>>

-----------------------------------------------------------------------------
App(t) == Call(t) \/ AppSuspendAll(t) \/ AppResumeAll(t) \/ AppPrioritySet(t)
              \/ xQueueGenericReset(t)

CallStep(t) ==
    \/ SendItem(t) \/ ReceiveItem(t) \/ PeekItem(t) \/ GiveUp(t) \/ StartWaiting(t)
    \/ SuspendAll(t) \/ prvLockQueue(t) \/ xTaskCheckForTimeOut(t) \/ TestAgain(t)
    \/ PlaceOnEventList(t) \/ UnlockTx(t) \/ UnlockRx(t) \/ ResumeAll(t)
    \/ YieldWithinApi(t) \/ Retest(t)

Next == (\E t \in Task : App(t) \/ CallStep(t)) \/ Interrupt \/ SysTick \/ PendSV

Spec == Init /\ [][Next]_vars

(* The processor makes progress between interrupts, pended exceptions are  *)
(* taken, the tick keeps coming, so that an armed deadline is reached, and *)
(* an application that suspended the scheduler resumes it.  Nothing is     *)
(* assumed of the calls the application or the handlers make, nor of the   *)
(* choice among ready tasks of one priority.                               *)
ExpireDeadline(t) ==
    /\ SysTick \/ \E u \in Task : ResumeAll(u) \/ AppResumeAll(u)
    /\ deadline[t] = "armed"
    /\ deadline'[t] = "expired"

Fairness ==
    /\ WF_vars(\E t \in Task : CallStep(t))
    /\ SF_vars(\E t \in Task : AppResumeAll(t))
    /\ \A t \in Task \ {Idle} : SF_vars(ExpireDeadline(t))
    /\ WF_vars(PendSV)
    /\ WF_vars(SysTick)

FairSpec == Spec /\ Fairness
-----------------------------------------------------------------------------
(* Properties.                                                             *)

(* Nothing sleeps unreachable: a task that is not ready is on exactly one  *)
(* event list, the one its operation waits on, and there once, or pending  *)
(* ready; a ready task is on none; and tasks are pending ready only while  *)
(* the scheduler is suspended.  This relates the two list items of a TCB,  *)
(* which vTaskPlaceOnEventList, xTaskRemoveFromEventList,                  *)
(* xTaskIncrementTick and xTaskResumeAll move at different moments.        *)
BlockedIsWaiting ==
    /\ \A l \in EventLists : NoDuplicates(eventList[l])
    /\ \A t \in Task : \A l \in EventLists :
           t \in OnList(l) <=> /\ t \notin Ready \cup xPendingReadyList
                               /\ l = EventListOf(op[t])
    /\ \A t \in Task \ Ready : op[t] # "none"
    /\ \A t \in xPendingReadyList : t \notin Ready /\ uxSchedulerSuspended # 0

(* t is past the vTaskPlaceOnEventList of its current round of the loop.   *)
HasPlacedItself(t) ==
    \/ pc[t] \in {"enter", "yield"}
    \/ pc[t] \in {"unlockTx", "unlockRx", "resume"} /\ after[t] = "yield"

(* The tasks on their way to the first critical section of their call:     *)
(* none of them sleeps, and each will try to take (place) an item before   *)
(* it waits again.                                                         *)
OnItsWay(t) == HasPlacedItself(t) /\ t \notin OnList(EventListOf(op[t]))
RetryingReceivers == {t \in Task : Receives(op[t]) /\ OnItsWay(t)}
RetryingSenders == {t \in Task : Sends(op[t]) /\ OnItsWay(t)}

(* n events are matched by the tasks already woken for them and by a lock  *)
(* count that the unlocking task will honour.                              *)
Covered(n, retrying, lock) ==
    \/ n <= Cardinality(retrying) + (IF lock = queueUNLOCKED THEN 0 ELSE lock)
    \/ lock = NumberOfTasks

MessagesCovered == Covered(uxMessagesWaiting, RetryingReceivers, cTxLock)
SpacesCovered == Covered(uxLength - uxMessagesWaiting, RetryingSenders, cRxLock)

(* No lost wake-up of a receiver: while a task sleeps on                   *)
(* xTasksWaitingToReceive every message is covered.  Between               *)
(* prvIsQueueEmpty and vTaskPlaceOnEventList an interrupt may post without *)
(* waking anyone; only cTxLock stands between that and a receiver asleep   *)
(* on a queue that has a message.                                          *)
ReceiversNotStranded == eventList[Rx] # <<>> => MessagesCovered

(* No lost wake-up of a sender, for the free places of the queue and       *)
(* cRxLock.  xQueueGenericReset frees every place and wakes one sender: of *)
(* a longer queue the others stay asleep, so it is excluded there.         *)
SendersNotStranded == eventList[Tx] # <<>> => SpacesCovered

(* Preemptive priority scheduling: when the scheduler is not suspended and *)
(* no switch has been requested, the running task is one of the ready      *)
(* tasks of highest priority, except while it leaves the processor of its  *)
(* own accord (between xTaskResumeAll and portYIELD_WITHIN_API).           *)
HighestPriorityRuns ==
    uxSchedulerSuspended = 0 /\ ~pendSV /\ ~xYieldPending /\ pc[pxCurrentTCB] # "yield"
        => pxCurrentTCB \in HighestReady

(* The head of an event list is a waiter of the highest priority, which is *)
(* what xTaskRemoveFromEventList takes it for.                             *)
HeadIsHighest ==
    \A l \in EventLists : \A i \in DOMAIN eventList[l] :
        uxPriority[eventList[l][i]] <= uxPriority[eventList[l][1]]

-----------------------------------------------------------------------------
(* The inductive invariant.  CoreInv, about the list items and the         *)
(* receivers, is inductive by itself; the other two conjuncts are given    *)
(* it.                                                                     *)

HasScheduler == {"lock", "check", "test", "place", "unlockTx", "unlockRx", "resume"}
HasTxLock == {"check", "test", "place", "unlockTx"}
HasRxLock == HasTxLock \cup {"unlockRx"}

(* The queue is locked only by the running task and only while it keeps    *)
(* the scheduler suspended, so that the unconditional unlocking of         *)
(* prvUnlockQueue and xQueueGenericReset never undoes the lock of another  *)
(* task.                                                                   *)
LockHasOwner ==
    /\ \A t \in Task : pc[t] \in HasScheduler => t = pxCurrentTCB /\ uxSchedulerSuspended = 1
    /\ cTxLock # queueUNLOCKED <=> pc[pxCurrentTCB] \in HasTxLock
    /\ cRxLock # queueUNLOCKED <=> pc[pxCurrentTCB] \in HasRxLock

(* What the call in progress says of a task.                               *)
CallInv ==
    /\ \A t \in Task :
           /\ pc[t] = "app" <=> op[t] = "none"
           /\ pc[t] \in {"unlockTx", "unlockRx", "resume"} => after[t] # "none"
    /\ uxSchedulerSuspended # 0 =>
           \/ pc[pxCurrentTCB] \in HasScheduler \cup {"app"}
           \/ pc[pxCurrentTCB] = "enter" /\ xTicksToWait[pxCurrentTCB] = "zero"

(* Only a task that placed itself on a list is not ready; once it is back  *)
(* at the top of its loop it does not run before a context switch.         *)
BlockedInv ==
    \A t \in Task \ Ready :
        /\ HasPlacedItself(t)
        /\ t = pxCurrentTCB /\ pc[t] = "enter" => pendSV /\ uxSchedulerSuspended = 0

(* A receiver about to wait found the queue empty; every message since is  *)
(* in the lock count.                                                      *)
PlaceInv == pc[pxCurrentTCB] = "place" /\ Receives(op[pxCurrentTCB]) => MessagesCovered

(* A sender about to wait found the queue full; every place freed since is *)
(* in the lock count.                                                      *)
PlaceInvTx == pc[pxCurrentTCB] = "place" /\ Sends(op[pxCurrentTCB]) => SpacesCovered

CoreInv ==
    /\ TypeOK
    /\ LockHasOwner
    /\ CallInv
    /\ BlockedIsWaiting
    /\ BlockedInv
    /\ PlaceInv
    /\ ReceiversNotStranded

(* The switches the scheduler owes, and the lists as long as nobody        *)
(* changes a priority.                                                     *)
SchedulingInv ==
    /\ SwitchIsComing
    /\ Priorities = {} => ListsInOrder

(* Either one sender is all that a reset can leave asleep, or there is no  *)
(* reset.                                                                  *)
ResetWakesEnough == uxLength = 1 \/ \A t \in Task : "reset" \notin Calls[t]
SenderInv ==
    /\ \A t \in Task : op[t] = "overwrite" => uxLength = 1
    /\ ResetWakesEnough => PlaceInvTx /\ SendersNotStranded

IInv == CoreInv /\ SchedulingInv /\ SenderInv

-----------------------------------------------------------------------------
(* Liveness.                                                               *)

(* Nobody shares or exceeds the priority of t.                             *)
IsTop(t) == \A u \in Task \ {t} : uxPriority[u] < uxPriority[t]

(* A call of such a task with a finite block time comes to an end, unless  *)
(* priorities are changed under it, whatever the handlers and the other    *)
(* tasks do to the queue meanwhile and even if no handler ever requests    *)
(* the switch it ought to: xYieldPending makes the next tick do it.        *)
TimedCallReturns ==
    \A t \in Task \ {Idle} :
        (pc[t] # "app" /\ xTicksToWait[t] # "max") ~> (pc[t] = "app" \/ ~IsTop(t))

(* While such a task sleeps on an empty queue a message may be posted      *)
(* behind a lock; the unlocking hands it the wake-up.                      *)
TopReceiverIsWoken ==
    \A t \in Task \ {Idle} :
        (t \in OnList(Rx) /\ uxMessagesWaiting > 0) ~> (t \notin OnList(Rx) \/ ~IsTop(t))
=============================================================================
