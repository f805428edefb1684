------------------------------ MODULE QueueSet ------------------------------
(***************************************************************************)
(* Queue sets of FreeRTOS_Source/queue.c on top of the scheduler of Sched: *)
(* member queues whose items are counted, the set, a queue of the handles  *)
(* of members, and the locks of both.  A task selects a member from the    *)
(* set and then receives from it; tasks and interrupt handlers send to     *)
(* members.                                                                *)
(*                                                                         *)
(* The blocking protocol is that of Queue with the steps run together that *)
(* nothing here tells apart: vTaskSuspendAll and prvLockQueue; the tests   *)
(* made behind the lock and the placing on the event list; xTaskResumeAll  *)
(* and the yield.  Handlers run between the rest.  A member has waiting    *)
(* senders only, and the set has waiting receivers only, so that an event  *)
(* list is named by its queue and the cRxLock of the set has no effect.    *)
(***************************************************************************)
EXTENDS Sched

CONSTANTS
    Member,     \* the queues that are, or may be, in the set
    uxLength,   \* uxLength[m]; the set has the sum of them
    Calls,      \* Calls[t]: pairs of a member and "send" or "overwrite"
    Selects,    \* the tasks that read from the set
    Removes,    \* Removes[t]: the members t removes from the set and adds to it
    IsrCalls,   \* pairs of a member and "send" or "overwrite"
    IsrSelects, \* handlers read from the set
    Waits       \* the block times used: "zero", "ticks" (finite) and "max"

Set == "xQueueSet"

ASSUME QueueSetAssumption ==
    /\ IsFiniteSet(Member) /\ Set \notin Member
    /\ EventLists = Member \cup {Set}
    /\ uxLength \in [Member -> Nat \ {0}]
    /\ Calls \in [Task -> SUBSET (Member \X {"send", "overwrite"})]
    /\ Selects \subseteq Task \ {Idle}
    /\ Removes \in [Task -> SUBSET Member]
    /\ IsrCalls \subseteq Member \X {"send", "overwrite"}
    /\ \A c \in IsrCalls \cup UNION {Calls[t] : t \in Task} : c[2] = "overwrite" => uxLength[c[1]] = 1
    /\ IsrSelects \in BOOLEAN
    /\ Waits \subseteq {"zero", "ticks", "max"}

VARIABLES
    uxMessagesWaiting,    \* of each member
    pxQueueSetContainer,  \* the members that are in the set
    events,               \* the handles in the set, the oldest first
    cTxLock,              \* of each member and of the set
    cRxLock,              \* of each member
    pc, op, target,       \* where each task is, in which call, on which queue
    xTicksToWait, after

lockVars == <<cTxLock, cRxLock>>
dataVars == <<uxMessagesWaiting, pxQueueSetContainer, events>>
callVars == <<pc, op, target, xTicksToWait, after>>
vars == <<schedVars, dataVars, lockVars, callVars>>

queueUNLOCKED == -1
queueLOCKED_UNMODIFIED == 0

TypeOK ==
    /\ SchedTypeOK
    /\ uxMessagesWaiting \in [Member -> Nat]
    /\ \A m \in Member : uxMessagesWaiting[m] <= uxLength[m]
    /\ pxQueueSetContainer \subseteq Member
    /\ events \in Seq(Member)
    /\ cTxLock \in [Member \cup {Set} -> queueUNLOCKED..NumberOfTasks]
    /\ cRxLock \in [Member -> queueUNLOCKED..NumberOfTasks]
    /\ pc \in [Task -> {"app", "enter", "lock", "test", "unlockTx", "unlockRx", "resume",
                        "yield", "retest", "selected", "remove"}]
    /\ op \in [Task -> {"none", "send", "overwrite", "select", "remove"}]
    /\ target \in [Task -> Member \cup {Set, "none"}]
    /\ xTicksToWait \in [Task -> {"zero", "ticks", "max"}]
    /\ after \in [Task -> {"none", "yield", "retry", "fail"}]

Init ==
    /\ SchedInit
    /\ uxMessagesWaiting = [m \in Member |-> 0]
    /\ pxQueueSetContainer = Member
    /\ events = <<>>
    /\ cTxLock = [q \in Member \cup {Set} |-> queueUNLOCKED]
    /\ cRxLock = [m \in Member |-> queueUNLOCKED]
    /\ pc = [t \in Task |-> "app"]
    /\ op = [t \in Task |-> "none"]
    /\ target = [t \in Task |-> "none"]
    /\ xTicksToWait = [t \in Task |-> "zero"]
    /\ after = [t \in Task |-> "none"]

-----------------------------------------------------------------------------
At(t, label) == Running(t) /\ pc[t] = label
GoTo(t, label) == pc' = [pc EXCEPT ![t] = label]

(* Constrains callVars.                                                    *)
Begin(t, label, o, q) ==
    /\ GoTo(t, label)
    /\ op' = [op EXCEPT ![t] = o]
    /\ target' = [target EXCEPT ![t] = q]
    /\ UNCHANGED after

(* Constrains callVars and deadline.                                       *)
Return(t) ==
    /\ GoTo(t, "app")
    /\ op' = [op EXCEPT ![t] = "none"]
    /\ target' = [target EXCEPT ![t] = "none"]
    /\ xTicksToWait' = [xTicksToWait EXCEPT ![t] = "zero"]
    /\ after' = [after EXCEPT ![t] = "none"]
    /\ deadline' = [deadline EXCEPT ![t] = "none"]

(* The call of t has to wait: prvIsQueueEmpty of the set, prvIsQueueFull   *)
(* of the member.                                                          *)
CannotProceed(t) ==
    \/ op[t] = "select" /\ events = <<>>
    \/ op[t] = "send" /\ uxMessagesWaiting[target[t]] = uxLength[target[t]]

(* An overwritten item is replaced.                                        *)
Replaces(m, o) == o = "overwrite" /\ uxMessagesWaiting[m] # 0
CountAfterSend(m, o) ==
    [uxMessagesWaiting EXCEPT ![m] = IF Replaces(m, o) THEN @ ELSE @ + 1]

(* Mutant of CountedTimes: the count has no limit.                         *)
CountedWithoutLimit(n, c) == c + n

(* prvIncrementQueueTxLock and prvIncrementQueueRxLock, n times.           *)
CountedTimes(n, c) == IF c + n <= NumberOfTasks THEN c + n ELSE NumberOfTasks

(* Each event wakes a task while there is one.                             *)
Wakes(q, n) == IF n <= Len(eventList[q]) THEN n ELSE Len(eventList[q])
WokenPreempts(q, n) == Preempts(FirstOf(q, Wakes(q, n)))

(* Mutants of prvNotifyQueueSetContainer: one event however many items;    *)
(* a locked set counts nothing.                                            *)
NotifyOnce(m, n, lock) ==
    /\ events' = events \o [i \in 1..(IF n > 0 THEN 1 ELSE 0) |-> m]
    /\ xTaskRemoveFromEventList(Set, IF cTxLock[Set] = queueUNLOCKED THEN Wakes(Set, n) ELSE 0)
    /\ cTxLock' = IF cTxLock[Set] = queueUNLOCKED THEN lock ELSE [lock EXCEPT ![Set] = CountedTimes(n, @)]

NotifyUncounted(m, n, lock) ==
    /\ events' = events \o [i \in 1..n |-> m]
    /\ xTaskRemoveFromEventList(Set, IF cTxLock[Set] = queueUNLOCKED THEN Wakes(Set, n) ELSE 0)
    /\ cTxLock' = lock

(* prvNotifyQueueSetContainer called n times for member m, cTxLock being   *)
(* lock but for the set.  Constrains events, cTxLock, eventList,           *)
(* xStateListItem, xPendingReadyList and xYieldPending.  (That the set has *)
(* room, the configASSERT, is a consequence of EventsAreExact.)            *)
prvNotifyQueueSetContainer(m, n, lock) ==
    /\ events' = events \o [i \in 1..n |-> m]
    /\ IF cTxLock[Set] = queueUNLOCKED
       THEN /\ xTaskRemoveFromEventList(Set, Wakes(Set, n))
            /\ cTxLock' = lock
       ELSE /\ xTaskRemoveFromEventList(Set, 0)
            /\ cTxLock' = [lock EXCEPT ![Set] = CountedTimes(n, @)]

(* Its result: a task of higher priority was woken.                        *)
NotifyPreempts == cTxLock[Set] = queueUNLOCKED /\ WokenPreempts(Set, 1)

-----------------------------------------------------------------------------
(* The application.                                                        *)

Call(t) ==
    /\ At(t, "app")
    /\ \/ \E c \in Calls[t] : Begin(t, "enter", c[2], c[1])
       \/ t \in Selects /\ Begin(t, "enter", "select", Set)
    /\ \E w \in Waits : xTicksToWait' = [xTicksToWait EXCEPT ![t] = w]
    /\ UNCHANGED <<schedVars, dataVars, lockVars>>

(* xQueueRemoveFromSet tests the member outside its critical section.      *)
TestEmpty(t) ==
    /\ At(t, "app")
    /\ \E m \in Removes[t] \cap pxQueueSetContainer :
           /\ uxMessagesWaiting[m] = 0
           /\ Begin(t, "remove", "remove", m)
    /\ UNCHANGED <<schedVars, dataVars, lockVars, xTicksToWait>>

xQueueRemoveFromSet(t) ==
    /\ At(t, "remove")
    /\ pxQueueSetContainer' = pxQueueSetContainer \ {target[t]}
    /\ Return(t)
    /\ UNCHANGED <<pxCurrentTCB, uxPriority, xStateListItem, eventList, xPendingReadyList,
                   uxSchedulerSuspended, xYieldPending, ticksPended, pendSV,
                   uxMessagesWaiting, events, lockVars>>

xQueueAddToSet(t) ==
    /\ At(t, "app")
    /\ \E m \in Removes[t] \ pxQueueSetContainer :
           /\ uxMessagesWaiting[m] = 0
           /\ pxQueueSetContainer' = pxQueueSetContainer \cup {m}
    /\ UNCHANGED <<schedVars, uxMessagesWaiting, events, lockVars, callVars>>

(* A task wakes the sender at the head of the list of m, if there is one.  *)
WakeSender(m) == xTaskRemoveFromEventList(m, Wakes(m, 1)) /\ pendSV' = WokenPreempts(m, 1)

(* xQueueReceive of a queue that is in no set, without waiting.            *)
ReceiveOutside(t) ==
    /\ At(t, "app")
    /\ \E m \in Removes[t] \ pxQueueSetContainer :
           /\ uxMessagesWaiting[m] > 0
           /\ uxMessagesWaiting' = [uxMessagesWaiting EXCEPT ![m] = @ - 1]
           /\ WakeSender(m)
    /\ UNCHANGED <<pxCurrentTCB, uxPriority, uxSchedulerSuspended, ticksPended, deadline,
                   pxQueueSetContainer, events, lockVars, callVars>>

-----------------------------------------------------------------------------
(* The first critical section of xQueueGenericSend, and of xQueueReceive   *)
(* called by xQueueSelectFromSet.                                          *)

SendItem(t) ==
    LET m == target[t]
    IN  /\ At(t, "enter")
        /\ op[t] \in {"send", "overwrite"}
        /\ ~CannotProceed(t)
        /\ uxMessagesWaiting' = CountAfterSend(m, op[t])
        /\ IF m \in pxQueueSetContainer /\ ~Replaces(m, op[t])
           THEN prvNotifyQueueSetContainer(m, 1, cTxLock) /\ pendSV' = NotifyPreempts
           ELSE UNCHANGED <<events, cTxLock, eventList, xStateListItem, xPendingReadyList,
                            xYieldPending, pendSV>>
        /\ Return(t)
        /\ UNCHANGED <<pxCurrentTCB, uxPriority, uxSchedulerSuspended, ticksPended,
                       pxQueueSetContainer, cRxLock>>

SelectItem(t) ==
    /\ At(t, "enter")
    /\ op[t] = "select"
    /\ ~CannotProceed(t)
    /\ events' = Tail(events)
    /\ target' = [target EXCEPT ![t] = Head(events)]
    /\ GoTo(t, "selected")
    /\ UNCHANGED <<schedVars, uxMessagesWaiting, pxQueueSetContainer, lockVars, op,
                   xTicksToWait, after>>

(* xQueueReceive of the member selected, without waiting.                  *)
ReceiveSelected(t) ==
    LET m == target[t]
    IN  /\ At(t, "selected")
        /\ IF uxMessagesWaiting[m] > 0
           THEN /\ uxMessagesWaiting' = [uxMessagesWaiting EXCEPT ![m] = @ - 1]
                /\ WakeSender(m)
           ELSE UNCHANGED <<uxMessagesWaiting, eventList, xStateListItem, xPendingReadyList,
                            xYieldPending, pendSV>>
        /\ Return(t)
        /\ UNCHANGED <<pxCurrentTCB, uxPriority, uxSchedulerSuspended, ticksPended,
                       pxQueueSetContainer, events, lockVars>>

GiveUp(t) ==
    /\ At(t, "enter")
    /\ CannotProceed(t)
    /\ xTicksToWait[t] = "zero"
    /\ Return(t)
    /\ UNCHANGED <<pxCurrentTCB, uxPriority, xStateListItem, eventList, xPendingReadyList,
                   uxSchedulerSuspended, xYieldPending, ticksPended, pendSV,
                   dataVars, lockVars>>

StartWaiting(t) ==
    /\ At(t, "enter")
    /\ CannotProceed(t)
    /\ xTicksToWait[t] # "zero"
    /\ deadline' = [deadline EXCEPT ![t] =
                        IF @ = "none" /\ xTicksToWait[t] = "ticks" THEN "armed" ELSE @]
    /\ GoTo(t, "lock")
    /\ UNCHANGED <<pxCurrentTCB, uxPriority, xStateListItem, eventList, xPendingReadyList,
                   uxSchedulerSuspended, xYieldPending, ticksPended, pendSV,
                   dataVars, lockVars, op, target, xTicksToWait, after>>

-----------------------------------------------------------------------------
(* The rest of the loop, with the scheduler suspended.                     *)

LockOnce(c) == IF c = queueUNLOCKED THEN queueLOCKED_UNMODIFIED ELSE c

(* vTaskSuspendAll and prvLockQueue.                                       *)
Lock(t) ==
    /\ At(t, "lock")
    /\ vTaskSuspendAll
    /\ cTxLock' = [cTxLock EXCEPT ![target[t]] = LockOnce(@)]
    /\ cRxLock' = [m \in Member |-> IF m = target[t] THEN LockOnce(cRxLock[m]) ELSE cRxLock[m]]
    /\ GoTo(t, "test")
    /\ UNCHANGED <<pxCurrentTCB, uxPriority, xStateListItem, eventList, xPendingReadyList,
                   xYieldPending, ticksPended, pendSV, deadline, dataVars,
                   op, target, xTicksToWait, after>>

TimedOut(t) ==
    /\ At(t, "test")
    /\ deadline[t] = "expired"
    /\ xTicksToWait' = [xTicksToWait EXCEPT ![t] = "zero"]
    /\ deadline' = [deadline EXCEPT ![t] = "none"]
    /\ after' = [after EXCEPT ![t] = "fail"]
    /\ GoTo(t, "unlockTx")
    /\ UNCHANGED <<pxCurrentTCB, uxPriority, xStateListItem, eventList, xPendingReadyList,
                   uxSchedulerSuspended, xYieldPending, ticksPended, pendSV,
                   dataVars, lockVars, op, target>>

TryAgain(t) ==
    /\ At(t, "test")
    /\ deadline[t] # "expired"
    /\ ~CannotProceed(t)
    /\ after' = [after EXCEPT ![t] = "retry"]
    /\ GoTo(t, "unlockTx")
    /\ UNCHANGED <<schedVars, dataVars, lockVars, op, target, xTicksToWait>>

Place(t) ==
    /\ At(t, "test")
    /\ deadline[t] # "expired"
    /\ CannotProceed(t)
    /\ vTaskPlaceOnEventList(target[t], xTicksToWait[t] = "max")
    /\ after' = [after EXCEPT ![t] = "yield"]
    /\ GoTo(t, "unlockTx")
    /\ UNCHANGED <<pxCurrentTCB, uxPriority, xPendingReadyList, uxSchedulerSuspended,
                   xYieldPending, ticksPended, pendSV, deadline, dataVars, lockVars,
                   op, target, xTicksToWait>>

LockCount(c) == IF c > queueLOCKED_UNMODIFIED THEN c ELSE 0

(* The first half of prvUnlockQueue: of a member, an event for each item   *)
(* counted; of the set, a task woken for each event counted.               *)
UnlockTx(t) ==
    LET q == target[t]
        unlocked == [cTxLock EXCEPT ![q] = queueUNLOCKED]
    IN  /\ At(t, "unlockTx")
        /\ CASE q = Set ->
                  /\ xTaskRemoveFromEventList(Set, Wakes(Set, LockCount(cTxLock[Set])))
                  /\ cTxLock' = unlocked /\ UNCHANGED events
             [] q \in pxQueueSetContainer ->
                  prvNotifyQueueSetContainer(q, LockCount(cTxLock[q]), unlocked)
             [] OTHER ->
                  /\ cTxLock' = unlocked
                  /\ UNCHANGED <<events, eventList, xStateListItem, xPendingReadyList, xYieldPending>>
        /\ GoTo(t, "unlockRx")
        /\ UNCHANGED <<pxCurrentTCB, uxPriority, uxSchedulerSuspended, ticksPended, pendSV,
                       deadline, uxMessagesWaiting, pxQueueSetContainer, cRxLock,
                       op, target, xTicksToWait, after>>

(* The second half: a sender woken for each item received.                 *)
UnlockRx(t) ==
    LET q == target[t]
    IN  /\ At(t, "unlockRx")
        /\ IF q = Set
           THEN UNCHANGED <<cRxLock, eventList, xStateListItem, xPendingReadyList, xYieldPending>>
           ELSE /\ xTaskRemoveFromEventList(q, Wakes(q, LockCount(cRxLock[q])))
                /\ cRxLock' = [cRxLock EXCEPT ![q] = queueUNLOCKED]
        /\ GoTo(t, "resume")
        /\ UNCHANGED <<pxCurrentTCB, uxPriority, uxSchedulerSuspended, ticksPended, pendSV,
                       deadline, dataVars, cTxLock, op, target, xTicksToWait, after>>

(* xTaskResumeAll, and the end of the call or the next round.  A task that *)
(* placed itself on a list yields, unless xTaskResumeAll did.              *)
ResumeAll(t) ==
    LET fails == after[t] = "fail" /\ op[t] # "select"
    IN  /\ At(t, "resume")
        /\ \E X \in SUBSET Armed :
               /\ xTaskResumeAll(X)
               /\ GoTo(t, IF fails THEN "app"
                          ELSE IF after[t] = "fail" THEN "retest"
                          ELSE IF after[t] = "yield" /\ ~AlreadyYielded(X) THEN "yield"
                          ELSE "enter")
        /\ after' = [after EXCEPT ![t] = "none"]
        /\ op' = [op EXCEPT ![t] = IF fails THEN "none" ELSE @]
        /\ target' = [target EXCEPT ![t] = IF fails THEN "none" ELSE @]
        /\ UNCHANGED <<pxCurrentTCB, uxPriority, dataVars, lockVars, xTicksToWait>>

YieldWithinApi(t) ==
    /\ At(t, "yield")
    /\ pendSV' = TRUE
    /\ GoTo(t, "enter")
    /\ UNCHANGED <<pxCurrentTCB, uxPriority, xStateListItem, eventList, xPendingReadyList,
                   uxSchedulerSuspended, xYieldPending, ticksPended, deadline,
                   dataVars, lockVars, op, target, xTicksToWait, after>>

(* After a time-out xQueueReceive fails only if the set is empty now.      *)
Retest(t) ==
    /\ At(t, "retest")
    /\ IF CannotProceed(t)
       THEN Return(t)
       ELSE GoTo(t, "enter") /\ UNCHANGED <<op, target, xTicksToWait, after, deadline>>
    /\ UNCHANGED <<pxCurrentTCB, uxPriority, xStateListItem, eventList, xPendingReadyList,
                   uxSchedulerSuspended, xYieldPending, ticksPended, pendSV,
                   dataVars, lockVars>>

-----------------------------------------------------------------------------
(* Interrupts.  A handler that woke a task of higher priority may or may   *)
(* not request the switch.                                                 *)

(* xQueueGenericSendFromISR.  While the member is locked an overwritten    *)
(* item counts as a new one.                                               *)
SendFromISR(m, o) ==
    /\ o = "overwrite" \/ uxMessagesWaiting[m] < uxLength[m]
    /\ uxMessagesWaiting' = CountAfterSend(m, o)
    /\ IF cTxLock[m] # queueUNLOCKED
       THEN /\ cTxLock' = [cTxLock EXCEPT ![m] = CountedTimes(1, @)]
            /\ UNCHANGED <<events, eventList, xStateListItem, xPendingReadyList, xYieldPending,
                           pendSV>>
       ELSE IF m \in pxQueueSetContainer /\ ~Replaces(m, o)
       THEN /\ prvNotifyQueueSetContainer(m, 1, cTxLock)
            /\ pendSV' \in {pendSV, pendSV \/ NotifyPreempts}
       ELSE UNCHANGED <<events, cTxLock, eventList, xStateListItem, xPendingReadyList,
                        xYieldPending, pendSV>>
    /\ UNCHANGED <<pxCurrentTCB, uxPriority, uxSchedulerSuspended, ticksPended, deadline,
                   pxQueueSetContainer, cRxLock, callVars>>

(* xQueueSelectFromSetFromISR and then xQueueReceiveFromISR.               *)
SelectFromSetFromISR ==
    /\ IsrSelects
    /\ events # <<>>
    /\ events' = Tail(events)
    /\ LET m == Head(events)
           found == uxMessagesWaiting[m] > 0
       IN  /\ uxMessagesWaiting' = [uxMessagesWaiting EXCEPT ![m] = IF found THEN @ - 1 ELSE @]
           /\ cRxLock' = [cRxLock EXCEPT ![m] =
                  IF found /\ @ # queueUNLOCKED THEN CountedTimes(1, @) ELSE @]
           /\ IF found /\ cRxLock[m] = queueUNLOCKED
              THEN /\ xTaskRemoveFromEventList(m, Wakes(m, 1))
                   /\ pendSV' \in {pendSV, pendSV \/ WokenPreempts(m, 1)}
              ELSE UNCHANGED <<eventList, xStateListItem, xPendingReadyList, xYieldPending,
                               pendSV>>
    /\ UNCHANGED <<pxCurrentTCB, uxPriority, uxSchedulerSuspended, ticksPended, deadline,
                   pxQueueSetContainer, cTxLock, callVars>>

Interrupt == (\E c \in IsrCalls : SendFromISR(c[1], c[2])) \/ SelectFromSetFromISR

SysTick ==
    /\ \E X \in SUBSET Armed : xTaskIncrementTick(X)
    /\ UNCHANGED <<pxCurrentTCB, uxPriority, xPendingReadyList, uxSchedulerSuspended,
                   xYieldPending, dataVars, lockVars, callVars>>

PendSV ==
    /\ vTaskSwitchContext
    /\ UNCHANGED <<uxPriority, xStateListItem, eventList, xPendingReadyList,
                   uxSchedulerSuspended, ticksPended, deadline, dataVars, lockVars, callVars>>

-----------------------------------------------------------------------------
App(t) == Call(t) \/ TestEmpty(t) \/ xQueueAddToSet(t) \/ ReceiveOutside(t)

CallStep(t) ==
    \/ xQueueRemoveFromSet(t) \/ SendItem(t) \/ SelectItem(t) \/ ReceiveSelected(t)
    \/ GiveUp(t) \/ StartWaiting(t) \/ Lock(t) \/ TimedOut(t) \/ TryAgain(t) \/ Place(t)
    \/ UnlockTx(t) \/ UnlockRx(t) \/ ResumeAll(t) \/ YieldWithinApi(t) \/ Retest(t)

Next == (\E t \in Task : App(t) \/ CallStep(t)) \/ Interrupt \/ SysTick \/ PendSV

Spec == Init /\ [][Next]_vars

-----------------------------------------------------------------------------
(* Properties.                                                             *)

InSet(m) == Cardinality({i \in DOMAIN events : events[i] = m})
Selected(m) == Cardinality({t \in Task : pc[t] = "selected" /\ target[t] = m})

(* Every item of a member is announced by exactly one event: one in the    *)
(* set, one still in the lock count of the member, or one a task has       *)
(* selected and not yet used.  So nothing a member holds is overlooked, no *)
(* event leads to an empty member, and a set as long as its members        *)
(* together never overflows.                                               *)
EventsAreExact ==
    \A m \in pxQueueSetContainer :
        uxMessagesWaiting[m] = InSet(m) + LockCount(cTxLock[m]) + Selected(m)

(* "To be absolutely certain that events are not lost" a set need only be  *)
(* as long as its members together: the half of EventsAreExact that says   *)
(* an item has an event.                                                   *)
EventsAreNotLost ==
    \A m \in pxQueueSetContainer :
        uxMessagesWaiting[m] <= InSet(m) + LockCount(cTxLock[m]) + Selected(m)

(* t is past the vTaskPlaceOnEventList of its current round of the loop.   *)
HasPlacedItself(t) ==
    \/ pc[t] \in {"enter", "yield"}
    \/ pc[t] \in {"unlockTx", "unlockRx", "resume"} /\ after[t] = "yield"

(* The tasks that do not sleep and are on their way to the first critical  *)
(* section of their xQueueSelectFromSet.                                   *)
RetryingSelectors ==
    {t \in Task : op[t] = "select" /\ t \notin OnList(Set) /\ HasPlacedItself(t)}

(* No lost wake-up: while a task sleeps on the set, the events in it are   *)
(* matched by tasks already woken for them and by the lock count of the    *)
(* set, although events come from members that are unlocked, locked, or    *)
(* being unlocked.                                                         *)
SelectorsNotStranded ==
    eventList[Set] # <<>> =>
        \/ Len(events) <= Cardinality(RetryingSelectors) + LockCount(cTxLock[Set])
        \/ cTxLock[Set] = NumberOfTasks

-----------------------------------------------------------------------------
(* What makes these inductive.                                             *)

HasScheduler == {"test", "unlockTx", "unlockRx", "resume"}

(* The running task alone locks a queue, one at a time, and keeps the      *)
(* scheduler suspended meanwhile.                                          *)
LockHasOwner ==
    /\ \A t \in Task : pc[t] \in HasScheduler => t = pxCurrentTCB
    /\ uxSchedulerSuspended = IF pc[pxCurrentTCB] \in HasScheduler THEN 1 ELSE 0
    /\ \A q \in Member \cup {Set} :
           cTxLock[q] # queueUNLOCKED <=>
               pc[pxCurrentTCB] \in {"test", "unlockTx"} /\ target[pxCurrentTCB] = q
    /\ \A m \in Member :
           cRxLock[m] # queueUNLOCKED <=>
               pc[pxCurrentTCB] \in {"test", "unlockTx", "unlockRx"} /\ target[pxCurrentTCB] = m

(* What the call in progress says of a task.                               *)
CallInv ==
    \A t \in Task :
        /\ op[t] = "none" <=> pc[t] = "app"
        /\ op[t] = "remove" <=> pc[t] = "remove"
        /\ op[t] = "remove" => target[t] \in Removes[t]
        /\ op[t] \in {"send", "overwrite"} => <<target[t], op[t]>> \in Calls[t]
        /\ op[t] = "select" /\ pc[t] # "selected" => target[t] = Set
        /\ pc[t] = "selected" => op[t] = "select" /\ target[t] \in Member

(* The tasks on the event list of a queue are those that wait for it.      *)
BlockedIsWaiting ==
    /\ \A l \in EventLists : NoDuplicates(eventList[l])
    /\ \A t \in Task : \A l \in EventLists :
           t \in OnList(l) <=> t \notin Ready \cup xPendingReadyList /\ l = target[t]
    /\ \A t \in xPendingReadyList : t \notin Ready /\ uxSchedulerSuspended # 0

(* Only a task that placed itself on a list is not ready; once it is back  *)
(* at the top of its loop it does not run before a context switch.         *)
BlockedInv ==
    \A t \in Task \ Ready :
        /\ op[t] \in {"send", "select"} /\ HasPlacedItself(t)
        /\ t = pxCurrentTCB /\ pc[t] = "enter" => pendSV

(* How the application has to use the members for EventsAreExact: none is  *)
(* longer than its lock can count; a handler, which cannot tell whether it *)
(* replaces an item of a locked mailbox, does not overwrite; and only the  *)
(* task that removes a member sends to it.                                 *)
MembersWellUsed ==
    /\ \A m \in Member : uxLength[m] <= NumberOfTasks
    /\ \A c \in IsrCalls : c[2] = "send"
    /\ \A t \in Task : \A m \in Removes[t] :
           /\ \A c \in IsrCalls : c[1] # m
           /\ \A u \in Task \ {t} : m \notin Removes[u] /\ \A c \in Calls[u] : c[1] # m

(* A member outside the set has no event, and one about to be removed no   *)
(* item.                                                                   *)
NoneOutside ==
    /\ \A m \in Member \ pxQueueSetContainer :
           /\ InSet(m) = 0 /\ LockCount(cTxLock[m]) = 0 /\ Selected(m) = 0
           /\ \E t \in Task : m \in Removes[t]
    /\ \A t \in Task : pc[t] = "remove" => uxMessagesWaiting[target[t]] = 0

IInv ==
    /\ TypeOK
    /\ LockHasOwner
    /\ CallInv
    /\ BlockedIsWaiting
    /\ BlockedInv
    /\ SelectorsNotStranded
    /\ MembersWellUsed => EventsAreExact /\ NoneOutside
=============================================================================
