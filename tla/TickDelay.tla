----------------------------- MODULE TickDelay -----------------------------
(***************************************************************************)
(* Time in FreeRTOS_Source/tasks.c: the tick counter that wraps, the two   *)
(* delayed lists that are switched when it does, xNextTaskUnblockTime,     *)
(* ticks that are pended while the scheduler is suspended, and the calls   *)
(* that sleep: vTaskDelay, xTaskDelayUntil and a wait for an event with a  *)
(* block time, as the calls of queue.c make it.                            *)
(*                                                                         *)
(* Abstractions.  A delayed list is a set: it is sorted by xItemValue, so  *)
(* that its head is a member with the least value, and all that have       *)
(* expired are removed in one step.  Priorities are left out: any ready    *)
(* task may run.  TickType_t and BaseType_t count modulo portMAX_DELAY + 1.*)
(***************************************************************************)
EXTENDS Integers, FiniteSets

CONSTANTS
    Task,
    portMAX_DELAY,  \* the greatest TickType_t
    Period,         \* Period[t]: of a periodic task, 0 for any other
    Delays,         \* the delays vTaskDelay is called with
    BlockTimes,     \* the finite block times of waits
    MaxPended,      \* bound on xPendedTicks
    MaxTurns        \* bound: how often the counter wraps while a wait is unattended

ASSUME TickAssumption ==
    /\ portMAX_DELAY \in Nat \ {0}
    /\ Period \in [Task -> 0..portMAX_DELAY]
    /\ Delays \subseteq 1..portMAX_DELAY
    /\ BlockTimes \subseteq 1..portMAX_DELAY - 1
    /\ MaxPended \in 0..portMAX_DELAY
    /\ MaxTurns \in 1..portMAX_DELAY

VARIABLES
    xTickCount,
    xNumOfOverflows,
    xNextTaskUnblockTime,
    pxDelayedTaskList,
    pxOverflowDelayedTaskList,
    xSuspendedTaskList,
    xItemValue,          \* the value of each task's state list item
    onEventList,         \* the tasks whose event list item is on an event list
    xPendingReadyList,
    xPendedTicks,
    scheduler,           \* "running", "suspended", "resuming" or "unwinding" pended ticks
    owner,               \* the tasks that suspended the scheduler: one or none
    pc,                  \* "loop" in a wait, else "app", or "failed" after a time-out
    pxPreviousWakeTime,  \* the argument of xTaskDelayUntil
    xTimeOut,            \* the time-out state of the wait in progress
    xTicksToWait         \* what is left of its block time at that time

clockVars == <<xTickCount, xNumOfOverflows, xNextTaskUnblockTime, xPendedTicks>>
listVars == <<pxDelayedTaskList, pxOverflowDelayedTaskList, xSuspendedTaskList,
              xItemValue, onEventList, xPendingReadyList>>
lockVars == <<scheduler, owner>>
callVars == <<pc, pxPreviousWakeTime, xTimeOut, xTicksToWait>>
vars == <<clockVars, listVars, lockVars, callVars>>

TickType == 0..portMAX_DELAY
Modulus == portMAX_DELAY + 1

(* Unsigned arithmetic, x and y being of TickType_t.                       *)
Plus(x, y) == IF x + y < Modulus THEN x + y ELSE x + y - Modulus
Minus(x, y) == IF x >= y THEN x - y ELSE x - y + Modulus

TypeOK ==
    /\ xTickCount \in TickType
    /\ xNumOfOverflows \in TickType
    /\ xNextTaskUnblockTime \in TickType
    /\ pxDelayedTaskList \subseteq Task
    /\ pxOverflowDelayedTaskList \subseteq Task
    /\ xSuspendedTaskList \subseteq Task
    /\ xItemValue \in [Task -> TickType]
    /\ onEventList \subseteq Task
    /\ xPendingReadyList \subseteq Task
    /\ xPendedTicks \in 0..MaxPended
    /\ scheduler \in {"running", "suspended", "resuming", "unwinding"}
    /\ owner \subseteq Task
    /\ pc \in [Task -> {"app", "loop", "failed"}]
    /\ pxPreviousWakeTime \in [Task -> TickType]
    /\ xTimeOut \in [Task -> [xOverflowCount : TickType, xTimeOnEntering : TickType]]
    /\ xTicksToWait \in [Task -> TickType]

NoTimeOut == [xOverflowCount |-> 0, xTimeOnEntering |-> 0]

Init ==
    /\ xTickCount = 0
    /\ xNumOfOverflows = 0
    /\ xNextTaskUnblockTime = portMAX_DELAY
    /\ pxDelayedTaskList = {}
    /\ pxOverflowDelayedTaskList = {}
    /\ xSuspendedTaskList = {}
    /\ xItemValue = [t \in Task |-> 0]
    /\ onEventList = {}
    /\ xPendingReadyList = {}
    /\ xPendedTicks = 0
    /\ scheduler = "running"
    /\ owner = {}
    /\ pc = [t \in Task |-> "app"]
    /\ pxPreviousWakeTime = [t \in Task |-> 0]
    /\ xTimeOut = [t \in Task |-> NoTimeOut]
    /\ xTicksToWait = [t \in Task |-> 0]

-----------------------------------------------------------------------------
Timed == pxDelayedTaskList \cup pxOverflowDelayedTaskList
Ready(t) == t \notin Timed \cup xSuspendedTaskList

(* t runs, and keeps running until it resumes the scheduler.               *)
Holds(t) == scheduler = "suspended" /\ owner = {t}

(* prvResetNextTaskUnblockTime for the members of a delayed list.          *)
NextUnblockTime(list) ==
    IF list = {} THEN {portMAX_DELAY}
    ELSE {xItemValue[t] : t \in {t \in list : \A u \in list : xItemValue[t] <= xItemValue[u]}}

(* Elapsed(t): the ticks since the time-out state of t was set.            *)
Turns(t) == Minus(xNumOfOverflows, xTimeOut[t].xOverflowCount)
Elapsed(t) == Turns(t) * Modulus + xTickCount - xTimeOut[t].xTimeOnEntering

(* The bound on time: within n more ticks no periodic task falls behind by *)
(* a whole turn of the counter, and no wait with a block time goes         *)
(* unattended while the counter wraps more than MaxTurns times.            *)
Timely(n) ==
    \A t \in Task :
        /\ Period[t] > 0 /\ Ready(t) =>
               Minus(xTickCount, pxPreviousWakeTime[t]) + n <= portMAX_DELAY
        /\ pc[t] = "loop" /\ xTicksToWait[t] # portMAX_DELAY =>
               Turns(t) + (IF xTickCount + n > portMAX_DELAY THEN 1 ELSE 0) <= MaxTurns

-----------------------------------------------------------------------------
(* The tick.                                                               *)

(* The members of a delayed list that wake, the unblock time being n; a    *)
(* mutant that wakes them a tick late.                                     *)
ExpiredBefore(list, now, n) == IF now >= n THEN {t \in list : xItemValue[t] < now} ELSE {}
Expired(list, now, n) == IF now >= n THEN {t \in list : xItemValue[t] <= now} ELSE {}

(* xTaskIncrementTick while the scheduler is not suspended: now is the new *)
(* count, current and overflow are the delayed lists after                 *)
(* taskSWITCH_DELAYED_LISTS, next the unblock time then.                   *)
IncrementTick ==
    LET now      == Plus(xTickCount, 1)
        wrapped  == now = 0
        current  == IF wrapped THEN pxOverflowDelayedTaskList ELSE pxDelayedTaskList
        overflow == IF wrapped THEN pxDelayedTaskList ELSE pxOverflowDelayedTaskList
        next     == IF wrapped THEN NextUnblockTime(current) ELSE {xNextTaskUnblockTime}
    IN  /\ xTickCount' = now
        /\ xNumOfOverflows' = IF wrapped THEN Plus(xNumOfOverflows, 1) ELSE xNumOfOverflows
        /\ pxOverflowDelayedTaskList' = overflow
        /\ \E n \in next :
               LET expired == Expired(current, now, n)
               IN  /\ pxDelayedTaskList' = current \ expired
                   /\ onEventList' = onEventList \ expired
                   /\ IF now >= n
                      THEN xNextTaskUnblockTime' \in NextUnblockTime(current \ expired)
                      ELSE xNextTaskUnblockTime' = n
        /\ UNCHANGED <<xSuspendedTaskList, xItemValue, xPendingReadyList>>

(* The tick interrupt.  A tick that comes while the scheduler is suspended *)
(* is pended, and so are those of xTaskCatchUpTicks, by the task that      *)
(* holds the scheduler.                                                    *)
Tick ==
    /\ scheduler = "running"
    /\ Timely(1)
    /\ IncrementTick
    /\ UNCHANGED <<xPendedTicks, lockVars, callVars>>

TickPended ==
    /\ scheduler \in {"suspended", "resuming"}
    /\ xPendedTicks < MaxPended
    /\ Timely(xPendedTicks + 1)
    /\ xPendedTicks' = xPendedTicks + 1
    /\ UNCHANGED <<xTickCount, xNumOfOverflows, xNextTaskUnblockTime, listVars, lockVars,
                   callVars>>

-----------------------------------------------------------------------------
(* Suspending and resuming the scheduler.                                  *)

vTaskSuspendAll(t) ==
    /\ scheduler = "running"
    /\ Ready(t)
    /\ scheduler' = "suspended"
    /\ owner' = {t}
    /\ UNCHANGED <<clockVars, listVars, callVars>>

(* The task that holds the scheduler has nothing more to do with it.       *)
Done(t) ==
    /\ Holds(t)
    /\ pc[t] # "loop"
    /\ scheduler' = "resuming"
    /\ UNCHANGED <<clockVars, listVars, owner, callVars>>

(* The first half of xTaskResumeAll: tasks woken meanwhile become ready.   *)
(* The pended ticks follow in the same critical section, one by one.       *)
xTaskResumeAll ==
    /\ scheduler = "resuming"
    /\ pxDelayedTaskList' = pxDelayedTaskList \ xPendingReadyList
    /\ pxOverflowDelayedTaskList' = pxOverflowDelayedTaskList \ xPendingReadyList
    /\ xSuspendedTaskList' = xSuspendedTaskList \ xPendingReadyList
    /\ xPendingReadyList' = {}
    /\ IF xPendingReadyList = {} THEN UNCHANGED xNextTaskUnblockTime
       ELSE xNextTaskUnblockTime' \in NextUnblockTime(pxDelayedTaskList \ xPendingReadyList)
    /\ scheduler' = IF xPendedTicks > 0 THEN "unwinding" ELSE "running"
    /\ owner' = {}
    /\ UNCHANGED <<xTickCount, xNumOfOverflows, xPendedTicks, xItemValue, onEventList, callVars>>

UnwindTick ==
    /\ scheduler = "unwinding"
    /\ IncrementTick
    /\ xPendedTicks' = xPendedTicks - 1
    /\ scheduler' = IF xPendedTicks > 1 THEN "unwinding" ELSE "running"
    /\ UNCHANGED <<owner, callVars>>

-----------------------------------------------------------------------------
(* Sleeping, by the task that holds the scheduler.                         *)

(* Mutants of AddCurrentTaskToDelayedList: a wake time that wraps goes to  *)
(* the current list; the unblock time is left alone.                       *)
AddToCurrentList(t, ticks, indefinitely) ==
    /\ xItemValue' = [xItemValue EXCEPT ![t] = Plus(xTickCount, ticks)]
    /\ pxDelayedTaskList' = pxDelayedTaskList \cup {t}
    /\ xNextTaskUnblockTime' = IF xItemValue'[t] < xNextTaskUnblockTime
                               THEN xItemValue'[t] ELSE xNextTaskUnblockTime
    /\ UNCHANGED <<pxOverflowDelayedTaskList, xSuspendedTaskList>>

AddUnannounced(t, ticks, indefinitely) ==
    LET wraps == Plus(xTickCount, ticks) < xTickCount
    IN  /\ xItemValue' = [xItemValue EXCEPT ![t] = Plus(xTickCount, ticks)]
        /\ pxOverflowDelayedTaskList' = pxOverflowDelayedTaskList \cup (IF wraps THEN {t} ELSE {})
        /\ pxDelayedTaskList' = pxDelayedTaskList \cup (IF wraps THEN {} ELSE {t})
        /\ UNCHANGED <<xSuspendedTaskList, xNextTaskUnblockTime>>

(* prvAddCurrentTaskToDelayedList.                                         *)
AddCurrentTaskToDelayedList(t, ticks, indefinitely) ==
    LET xTimeToWake == Plus(xTickCount, ticks)
    IN  IF ticks = portMAX_DELAY /\ indefinitely
        THEN /\ xSuspendedTaskList' = xSuspendedTaskList \cup {t}
             /\ UNCHANGED <<xItemValue, pxDelayedTaskList, pxOverflowDelayedTaskList,
                            xNextTaskUnblockTime>>
        ELSE /\ xItemValue' = [xItemValue EXCEPT ![t] = xTimeToWake]
             /\ IF xTimeToWake < xTickCount
                THEN /\ pxOverflowDelayedTaskList' = pxOverflowDelayedTaskList \cup {t}
                     /\ UNCHANGED <<pxDelayedTaskList, xNextTaskUnblockTime>>
                ELSE /\ pxDelayedTaskList' = pxDelayedTaskList \cup {t}
                     /\ xNextTaskUnblockTime' = IF xTimeToWake < xNextTaskUnblockTime
                                                THEN xTimeToWake ELSE xNextTaskUnblockTime
                     /\ UNCHANGED pxOverflowDelayedTaskList
             /\ UNCHANGED xSuspendedTaskList

vTaskDelay(t) ==
    /\ Holds(t) /\ pc[t] # "loop" /\ Period[t] = 0
    /\ \E ticks \in Delays : AddCurrentTaskToDelayedList(t, ticks, FALSE)
    /\ scheduler' = "resuming"
    /\ UNCHANGED <<xTickCount, xNumOfOverflows, xPendedTicks, onEventList, xPendingReadyList,
                   owner, callVars>>

(* Whether xTaskDelayUntil delays a task whose previous wake time is       *)
(* previous and whose next is wake; a mutant that forgets the wrap.        *)
LaterThanNow(now, previous, wake) == wake > now

ShouldDelay(now, previous, wake) ==
    IF now < previous
    THEN wake < previous /\ wake > now
    ELSE wake < previous \/ wake > now

xTaskDelayUntil(t) ==
    LET previous == pxPreviousWakeTime[t]
        wake     == Plus(previous, Period[t])
    IN  /\ Holds(t) /\ pc[t] # "loop" /\ Period[t] > 0
        /\ pxPreviousWakeTime' = [pxPreviousWakeTime EXCEPT ![t] = wake]
        /\ IF ShouldDelay(xTickCount, previous, wake)
           THEN AddCurrentTaskToDelayedList(t, Minus(wake, xTickCount), FALSE)
           ELSE UNCHANGED <<xItemValue, pxDelayedTaskList, pxOverflowDelayedTaskList,
                            xSuspendedTaskList, xNextTaskUnblockTime>>
        /\ scheduler' = "resuming"
        /\ UNCHANGED <<xTickCount, xNumOfOverflows, xPendedTicks, onEventList,
                       xPendingReadyList, owner, pc, xTimeOut, xTicksToWait>>

-----------------------------------------------------------------------------
(* Waiting for an event with a block time.                                 *)

Now == [xOverflowCount |-> xNumOfOverflows, xTimeOnEntering |-> xTickCount]

(* The first round: vTaskInternalSetTimeOutState.                          *)
StartWaiting(t) ==
    /\ scheduler = "running" /\ Ready(t) /\ pc[t] # "loop" /\ Period[t] = 0
    /\ \E ticks \in BlockTimes \cup {portMAX_DELAY} :
           xTicksToWait' = [xTicksToWait EXCEPT ![t] = ticks]
    /\ xTimeOut' = [xTimeOut EXCEPT ![t] = Now]
    /\ pc' = [pc EXCEPT ![t] = "loop"]
    /\ UNCHANGED <<clockVars, listVars, lockVars, pxPreviousWakeTime>>

(* The call returns.                                                       *)
Return(t, result) ==
    /\ pc' = [pc EXCEPT ![t] = result]
    /\ xTimeOut' = [xTimeOut EXCEPT ![t] = NoTimeOut]
    /\ xTicksToWait' = [xTicksToWait EXCEPT ![t] = 0]
    /\ UNCHANGED pxPreviousWakeTime

(* In the first critical section of a round the event is there after all.  *)
Succeed(t) ==
    /\ scheduler = "running" /\ Ready(t) /\ pc[t] = "loop"
    /\ Return(t, "app")
    /\ UNCHANGED <<clockVars, listVars, lockVars>>

(* Mutant of TimedOut: the number of overflows is not compared.            *)
TimedOutThisTurn(t) ==
    /\ xTicksToWait[t] # portMAX_DELAY
    /\ Minus(xTickCount, xTimeOut[t].xTimeOnEntering) >= xTicksToWait[t]

(* The comparisons of xTaskCheckForTimeOut.                                *)
TimedOut(t) ==
    LET xElapsedTime == Minus(xTickCount, xTimeOut[t].xTimeOnEntering)
    IN  /\ xTicksToWait[t] # portMAX_DELAY
        /\ \/ /\ xNumOfOverflows # xTimeOut[t].xOverflowCount
              /\ xTickCount >= xTimeOut[t].xTimeOnEntering
           \/ xElapsedTime >= xTicksToWait[t]

(* xTaskCheckForTimeOut finds the time used up and the call returns (a     *)
(* receive tries once more, with no ticks left: it cannot sleep again).    *)
TimesOut(t) ==
    /\ Holds(t) /\ pc[t] = "loop"
    /\ TimedOut(t)
    /\ Return(t, "failed")
    /\ scheduler' = "resuming"
    /\ UNCHANGED <<clockVars, listVars, owner>>

(* It does not, and re-arms the time-out with what is left.                *)
Remaining(t) ==
    IF xTicksToWait[t] = portMAX_DELAY THEN portMAX_DELAY
    ELSE xTicksToWait[t] - Minus(xTickCount, xTimeOut[t].xTimeOnEntering)

Rearm(t) ==
    /\ ~TimedOut(t)
    /\ xTicksToWait' = [xTicksToWait EXCEPT ![t] = Remaining(t)]
    /\ xTimeOut' = [xTimeOut EXCEPT ![t] = IF xTicksToWait[t] = portMAX_DELAY THEN @ ELSE Now]

(* Then vTaskPlaceOnEventList.                                             *)
PlaceOnEventList(t) ==
    /\ Holds(t) /\ pc[t] = "loop"
    /\ Rearm(t)
    /\ AddCurrentTaskToDelayedList(t, Remaining(t), TRUE)
    /\ onEventList' = onEventList \cup {t}
    /\ scheduler' = "resuming"
    /\ UNCHANGED <<xTickCount, xNumOfOverflows, xPendedTicks, xPendingReadyList, owner, pc,
                   pxPreviousWakeTime>>

(* The event came meanwhile and the call tries again.                      *)
EventFound(t) ==
    /\ Holds(t) /\ pc[t] = "loop"
    /\ Rearm(t)
    /\ scheduler' = "resuming"
    /\ UNCHANGED <<clockVars, listVars, owner, pc, pxPreviousWakeTime>>

(* xTaskRemoveFromEventList, by an interrupt handler or another task.  It  *)
(* leaves xNextTaskUnblockTime alone.                                      *)
Event(t) ==
    /\ scheduler # "unwinding"
    /\ t \in onEventList
    /\ onEventList' = onEventList \ {t}
    /\ IF scheduler = "running"
       THEN /\ pxDelayedTaskList' = pxDelayedTaskList \ {t}
            /\ pxOverflowDelayedTaskList' = pxOverflowDelayedTaskList \ {t}
            /\ xSuspendedTaskList' = xSuspendedTaskList \ {t}
            /\ UNCHANGED xPendingReadyList
       ELSE /\ xPendingReadyList' = xPendingReadyList \cup {t}
            /\ UNCHANGED <<pxDelayedTaskList, pxOverflowDelayedTaskList, xSuspendedTaskList>>
    /\ UNCHANGED <<clockVars, lockVars, callVars, xItemValue>>

-----------------------------------------------------------------------------
Next ==
    \/ Tick \/ TickPended \/ xTaskResumeAll \/ UnwindTick
    \/ \E t \in Task :
           \/ vTaskSuspendAll(t) \/ Done(t) \/ vTaskDelay(t) \/ xTaskDelayUntil(t)
           \/ StartWaiting(t) \/ Succeed(t) \/ TimesOut(t) \/ PlaceOnEventList(t)
           \/ EventFound(t) \/ Event(t)

Spec == Init /\ [][Next]_vars

-----------------------------------------------------------------------------
(* Properties.                                                             *)

(* The current list holds wake times still to come before the counter      *)
(* wraps and the overflow list those after it: a wake time in the wrong    *)
(* list is missed by a whole turn of the counter, or taken a turn early.   *)
(* At the last count the current list is empty, as the configASSERT of     *)
(* taskSWITCH_DELAYED_LISTS demands.                                       *)
ListsSplitByWrap ==
    /\ \A t \in pxDelayedTaskList : xItemValue[t] > xTickCount
    /\ \A t \in pxOverflowDelayedTaskList : xItemValue[t] < xTickCount
    /\ pxDelayedTaskList \cap pxOverflowDelayedTaskList = {}

(* No sleeper is missed: the tick looks at the delayed list no later than  *)
(* the first of its wake times, though events remove tasks from the list   *)
(* without recomputing xNextTaskUnblockTime.                               *)
NextUnblockIsInTime ==
    \A t \in pxDelayedTaskList : xNextTaskUnblockTime <= xItemValue[t]

(* The inductive invariant of the proofs: the scheduler lock, who is asleep *)
(* and on which lists, and how far the clock has moved from what was noted. *)
SchedulerInv ==
    /\ scheduler = "running" => xPendedTicks = 0
    /\ scheduler = "unwinding" => xPendedTicks > 0
    /\ scheduler \in {"running", "unwinding"} => xPendingReadyList = {}
    /\ scheduler = "suspended" => \A t \in owner : Ready(t)

SleepInv ==
    /\ Timed \cap xSuspendedTaskList = {}
    /\ onEventList \cap xPendingReadyList = {}
    /\ onEventList \cup xPendingReadyList \subseteq Timed \cup xSuspendedTaskList
    /\ \A t \in onEventList \cup xPendingReadyList \cup xSuspendedTaskList : Period[t] = 0
    /\ \A t \in Task : Period[t] > 0 => pc[t] # "loop"
    /\ \A t \in Timed : Period[t] > 0 => xItemValue[t] = pxPreviousWakeTime[t]

ClockInv ==
    /\ Timely(xPendedTicks)
    /\ \A t \in Task : pc[t] = "loop" /\ xTicksToWait[t] # portMAX_DELAY /\ Turns(t) = 0
                           => xTimeOut[t].xTimeOnEntering <= xTickCount

IInv ==
    /\ TypeOK /\ ListsSplitByWrap /\ NextUnblockIsInTime
    /\ SchedulerInv /\ SleepInv /\ ClockInv

(* A wait that goes back to sleep has ticks left: xTaskCheckForTimeOut     *)
(* tells when the block time is used up, whether or not the tick counter   *)
(* wrapped.                                                                *)
SleepsInTime ==
    [][\A t \in Task : PlaceOnEventList(t) /\ xTicksToWait[t] # portMAX_DELAY
                           => Elapsed(t) < xTicksToWait[t]]_vars

(* Time is kept: sleeps last as long as asked, waits time out when their   *)
(* ticks are used up and not before, and periods do not drift, across      *)
(* wraps of the counter and pended ticks.                                  *)
Left ==
    [t \in Task |->
        IF t \in Timed THEN Minus(xItemValue[t], xTickCount)
        ELSE IF t \in xSuspendedTaskList THEN -1 ELSE 0]

Until ==
    [t \in Task |->
        IF pc[t] # "loop" THEN 0
        ELSE IF xTicksToWait[t] = portMAX_DELAY THEN -1
        ELSE IF Elapsed(t) < xTicksToWait[t] THEN xTicksToWait[t] - Elapsed(t) ELSE 0]

Behind ==
    [t \in Task |->
        IF Period[t] = 0 THEN 0
        ELSE IF t \in Timed THEN -Minus(xItemValue[t], xTickCount)
        ELSE Minus(xTickCount, pxPreviousWakeTime[t])]

Delayed ==
    INSTANCE DelaySpec WITH left <- Left, until <- Until, behind <- Behind,
                            waits <- onEventList \cup xPendingReadyList

KeepsTime == Delayed!Spec
=============================================================================
