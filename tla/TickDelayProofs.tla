-------------------------- MODULE TickDelayProofs --------------------------
(***************************************************************************)
(* The tick, the delayed lists and the time-outs of TickDelay, for every   *)
(* width of the tick counter and any tasks, delays and periods.            *)
(***************************************************************************)
EXTENDS TickDelay, TLAPS

USE TickAssumption

-----------------------------------------------------------------------------
(* Arithmetic of tick counts.                                              *)

LEMMA TickArithmetic ==
    ASSUME NEW x \in TickType, NEW y \in TickType
    PROVE  /\ Plus(x, y) \in TickType
           /\ Minus(x, y) \in TickType
           /\ Minus(Plus(x, y), x) = y
           /\ Plus(x, Minus(y, x)) = y
           /\ y > 0 => Plus(x, y) # x
           /\ x # y => Minus(x, y) > 0
BY DEF TickType, Modulus, Plus, Minus

(* The comparisons of xTaskDelayUntil delay the task when less than its    *)
(* period has passed since its previous wake time, wherever the counter    *)
(* wrapped.                                                                *)
LEMMA ShouldDelayMeansEarly ==
    ASSUME NEW now \in TickType, NEW previous \in TickType, NEW p \in 1..portMAX_DELAY
    PROVE  LET wake == Plus(previous, p)
               past == Minus(now, previous)
           IN  /\ ShouldDelay(now, previous, wake) <=> past < p
               /\ past < p => Minus(wake, now) = p - past
               /\ past >= p => Minus(now, wake) = past - p
BY DEF TickType, Modulus, Plus, Minus, ShouldDelay

LEMMA TickOrder ==
    ASSUME NEW x \in TickType, NEW y \in TickType, x # y
    PROVE  x < y \/ x > y
BY DEF TickType

(* One more tick.                                                          *)
LEMMA MinusTick ==
    ASSUME NEW x \in TickType, NEW y \in TickType
    PROVE  /\ Minus(x, y) # portMAX_DELAY => Minus(Plus(x, 1), y) = Minus(x, y) + 1
           /\ x # y => Minus(x, Plus(y, 1)) = Minus(x, y) - 1
           /\ Minus(x, y) = 1 <=> x = Plus(y, 1)
BY DEF TickType, Modulus, Plus, Minus

-----------------------------------------------------------------------------
(* The tick.                                                               *)

(* The sleepers whose time comes with the next tick.                       *)
Due == {t \in Timed : xItemValue[t] = Plus(xTickCount, 1)}

(* A tick wakes those that are due and no others, whether the counter      *)
(* wraps or not and whatever xNextTaskUnblockTime is.                      *)
LEMMA TickWakesDue ==
    ASSUME TypeOK, ListsSplitByWrap, NextUnblockIsInTime, IncrementTick
    PROVE  /\ xTickCount' = Plus(xTickCount, 1)
           /\ xNumOfOverflows' = IF xTickCount = portMAX_DELAY
                                 THEN Plus(xNumOfOverflows, 1) ELSE xNumOfOverflows
           /\ xTickCount' \in TickType /\ xNumOfOverflows' \in TickType
           /\ Timed' = Timed \ Due
           /\ onEventList' = onEventList \ Due
           /\ xNextTaskUnblockTime' \in TickType
           /\ pxDelayedTaskList' \subseteq Task
           /\ pxOverflowDelayedTaskList' \subseteq Task
           /\ UNCHANGED <<xItemValue, xSuspendedTaskList, xPendingReadyList>>
           /\ ListsSplitByWrap'
           /\ NextUnblockIsInTime'
<1> DEFINE now == Plus(xTickCount, 1)
           wrapped == now = 0
           current == IF wrapped THEN pxOverflowDelayedTaskList ELSE pxDelayedTaskList
           overflow == IF wrapped THEN pxDelayedTaskList ELSE pxOverflowDelayedTaskList
<1>1. PICK n : /\ n \in (IF wrapped THEN NextUnblockTime(current) ELSE {xNextTaskUnblockTime})
               /\ pxDelayedTaskList' = current \ Expired(current, now, n)
               /\ onEventList' = onEventList \ Expired(current, now, n)
               /\ IF now >= n
                  THEN xNextTaskUnblockTime' \in NextUnblockTime(current \ Expired(current, now, n))
                  ELSE xNextTaskUnblockTime' = n
  BY DEF IncrementTick
<1>2. /\ xTickCount' = now
      /\ xNumOfOverflows' = IF wrapped THEN Plus(xNumOfOverflows, 1) ELSE xNumOfOverflows
      /\ pxOverflowDelayedTaskList' = overflow
      /\ UNCHANGED <<xItemValue, xSuspendedTaskList, xPendingReadyList>>
  BY DEF IncrementTick
<1>3. /\ now \in TickType
      /\ wrapped <=> xTickCount = portMAX_DELAY
      /\ ~wrapped => now = xTickCount + 1
  BY DEF TypeOK, TickType, Plus, Modulus
<1>4. ASSUME NEW list \in SUBSET Task, NEW m \in NextUnblockTime(list)
      PROVE  m \in TickType /\ \A t \in list : m <= xItemValue[t]
  BY <1>4 DEF NextUnblockTime, TypeOK, TickType
<1>5. /\ current \subseteq Task /\ overflow \subseteq Task
      /\ current \cup overflow = Timed
      /\ current \cap overflow = {}
  BY DEF TypeOK, Timed, ListsSplitByWrap
<1>6. /\ \A t \in current : xItemValue[t] \in TickType /\ xItemValue[t] >= now
      /\ \A t \in overflow : xItemValue[t] \in TickType /\ xItemValue[t] < now
  BY <1>3, <1>5 DEF ListsSplitByWrap, TypeOK, TickType
<1>7. n \in TickType /\ \A t \in current : n <= xItemValue[t]
  BY <1>1, <1>4, <1>5 DEF NextUnblockIsInTime, TypeOK
<1>8. Expired(current, now, n) = Due
  BY <1>3, <1>5, <1>6, <1>7 DEF Expired, Due, TickType
<1>9. Timed' = Timed \ Due
  BY <1>1, <1>2, <1>5, <1>6, <1>8 DEF Timed, Due, TickType
<1>10. xNextTaskUnblockTime' \in TickType /\ NextUnblockIsInTime'
  <2>1. CASE now >= n
    BY <2>1, <1>1, <1>2, <1>4, <1>5 DEF NextUnblockIsInTime
  <2>2. CASE ~(now >= n)
    BY <2>2, <1>1, <1>2, <1>7 DEF NextUnblockIsInTime
  <2> QED
    BY <2>1, <2>2
<1>11. ListsSplitByWrap'
  <2>1. \A t \in current \ Due : xItemValue[t] > now
    BY <1>3, <1>5, <1>6 DEF Due, TickType
  <2> QED
    BY <2>1, <1>1, <1>2, <1>5, <1>6, <1>8 DEF ListsSplitByWrap
<1>12. xNumOfOverflows' \in TickType
  BY <1>2 DEF TypeOK, TickType, Plus, Modulus
<1> QED
  BY <1>1, <1>2, <1>3, <1>5, <1>8, <1>9, <1>10, <1>11, <1>12

(* A task that goes to sleep is in the list that its wake time belongs to. *)
LEMMA AddKeepsLists ==
    ASSUME TypeOK, ListsSplitByWrap, NextUnblockIsInTime,
           NEW t \in Task, Ready(t), NEW ticks \in 1..portMAX_DELAY, NEW i \in BOOLEAN,
           AddCurrentTaskToDelayedList(t, ticks, i), UNCHANGED xTickCount
    PROVE  /\ xItemValue' \in [Task -> TickType]
           /\ xNextTaskUnblockTime' \in TickType
           /\ pxDelayedTaskList' \subseteq Task
           /\ pxOverflowDelayedTaskList' \subseteq Task
           /\ xSuspendedTaskList' \subseteq Task
           /\ ListsSplitByWrap'
           /\ NextUnblockIsInTime'
           /\ IF ticks = portMAX_DELAY /\ i
              THEN /\ xSuspendedTaskList' = xSuspendedTaskList \cup {t}
                   /\ Timed' = Timed
                   /\ xItemValue' = xItemValue
              ELSE /\ Timed' = Timed \cup {t}
                   /\ xSuspendedTaskList' = xSuspendedTaskList
                   /\ xItemValue' = [xItemValue EXCEPT ![t] = Plus(xTickCount, ticks)]
<1>1. PICK wake \in TickType : wake = Plus(xTickCount, ticks) /\ wake # xTickCount
  <2>1. xTickCount \in TickType /\ ticks \in TickType /\ ticks > 0
    BY DEF TypeOK, TickType
  <2>2. Plus(xTickCount, ticks) \in TickType /\ Plus(xTickCount, ticks) # xTickCount
    BY <2>1, TickArithmetic
  <2> QED
    BY <2>2
<1>2. CASE ticks = portMAX_DELAY /\ i
  <2>1. /\ xSuspendedTaskList' = xSuspendedTaskList \cup {t}
        /\ UNCHANGED <<xItemValue, pxDelayedTaskList, pxOverflowDelayedTaskList,
                       xNextTaskUnblockTime>>
    BY <1>2 DEF AddCurrentTaskToDelayedList
  <2> QED
    BY <1>2, <2>1 DEF TypeOK, ListsSplitByWrap, NextUnblockIsInTime, Timed
<1>3. CASE ~(ticks = portMAX_DELAY /\ i)
  <2>1. /\ xItemValue' = [xItemValue EXCEPT ![t] = wake]
        /\ xSuspendedTaskList' = xSuspendedTaskList
    BY <1>1, <1>3 DEF AddCurrentTaskToDelayedList
  <2>2. CASE wake < xTickCount
    <3>1. /\ pxOverflowDelayedTaskList' = pxOverflowDelayedTaskList \cup {t}
          /\ UNCHANGED <<pxDelayedTaskList, xNextTaskUnblockTime>>
      BY <1>1, <1>3, <2>2 DEF AddCurrentTaskToDelayedList
    <3> QED
      BY <1>1, <1>3, <2>1, <2>2, <3>1
      DEF TypeOK, ListsSplitByWrap, NextUnblockIsInTime, Timed, Ready, TickType
  <2>3. CASE ~(wake < xTickCount)
    <3>1. /\ pxDelayedTaskList' = pxDelayedTaskList \cup {t}
          /\ xNextTaskUnblockTime' = IF wake < xNextTaskUnblockTime
                                     THEN wake ELSE xNextTaskUnblockTime
          /\ UNCHANGED pxOverflowDelayedTaskList
      BY <1>1, <1>3, <2>3 DEF AddCurrentTaskToDelayedList
    <3>2. wake > xTickCount
      BY <1>1, <2>3, TickOrder DEF TypeOK
    <3>3. ListsSplitByWrap'
      BY <1>1, <2>1, <3>1, <3>2 DEF TypeOK, ListsSplitByWrap, Timed, Ready, TickType
    <3>4. NextUnblockIsInTime'
      BY <1>1, <2>1, <3>1 DEF TypeOK, NextUnblockIsInTime, TickType
    <3> QED
      BY <1>1, <1>3, <2>1, <3>1, <3>3, <3>4 DEF TypeOK, Timed
  <2> QED
    BY <2>2, <2>3
<1> QED
  BY <1>2, <1>3

-----------------------------------------------------------------------------
(* The invariant.                                                          *)

(* A tick moves the clock on by one and leaves who is asleep in order.     *)
LEMMA TickKeepsTime ==
    ASSUME IInv, IncrementTick, xPendingReadyList = {}, UNCHANGED callVars,
           NEW n \in 1..portMAX_DELAY, Timely(n)
    PROVE  /\ SleepInv'
           /\ Timely(n - 1)'
           /\ \A t \in Task : pc'[t] = "loop" /\ xTicksToWait'[t] # portMAX_DELAY /\ Turns(t)' = 0
                                 => xTimeOut'[t].xTimeOnEntering <= xTickCount'
<1>1. /\ xTickCount' = Plus(xTickCount, 1)
      /\ xNumOfOverflows' = IF xTickCount = portMAX_DELAY
                            THEN Plus(xNumOfOverflows, 1) ELSE xNumOfOverflows
      /\ Timed' = Timed \ Due
      /\ onEventList' = onEventList \ Due
      /\ UNCHANGED <<xItemValue, xSuspendedTaskList, xPendingReadyList>>
  BY TickWakesDue DEF IInv
<1>2. UNCHANGED <<pc, pxPreviousWakeTime, xTimeOut, xTicksToWait>>
  BY DEF callVars
<1>3. /\ xTickCount \in TickType /\ xNumOfOverflows \in TickType
      /\ \A t \in Task : /\ xItemValue[t] \in TickType
                         /\ pxPreviousWakeTime[t] \in TickType
                         /\ xTimeOut[t].xOverflowCount \in TickType
                         /\ xTimeOut[t].xTimeOnEntering \in TickType
      /\ Timed \subseteq Task
  BY DEF IInv, TypeOK, Timed
<1>4. SleepInv'
  BY <1>1, <1>2 DEF IInv, SleepInv
<1>5. xTickCount # portMAX_DELAY => xTickCount' = xTickCount + 1
  BY <1>1, <1>3 DEF Plus, Modulus, TickType
<1>6. xTickCount = portMAX_DELAY => xTickCount' = 0
  BY <1>1, <1>3 DEF Plus, Modulus, TickType
<1>7. ASSUME NEW t \in Task, Period[t] > 0, Ready(t)'
      PROVE  Minus(xTickCount', pxPreviousWakeTime'[t]) + n - 1 <= portMAX_DELAY
  <2>1. t \notin Timed' /\ t \notin xSuspendedTaskList
    BY <1>1, <1>7 DEF Ready
  <2>2. CASE t \in Timed
    <3>1. pxPreviousWakeTime[t] = Plus(xTickCount, 1)
      BY <1>1, <1>7, <2>1, <2>2 DEF IInv, SleepInv, Due
    <3>2. Minus(xTickCount', pxPreviousWakeTime'[t]) = 0
      BY <1>1, <1>2, <1>3, <3>1 DEF Minus, TickType
    <3> QED
      BY <3>2
  <2>3. CASE t \notin Timed
    <3>1. Minus(xTickCount, pxPreviousWakeTime[t]) + n <= portMAX_DELAY
      BY <1>7, <2>1, <2>3 DEF Timely, Ready
    <3>2. Minus(xTickCount, pxPreviousWakeTime[t]) \in TickType
      BY <1>3, TickArithmetic
    <3>3. Minus(xTickCount', pxPreviousWakeTime'[t]) = Minus(xTickCount, pxPreviousWakeTime[t]) + 1
      BY <1>1, <1>2, <1>3, <3>1, <3>2, MinusTick DEF TickType
    <3> QED
      BY <3>1, <3>2, <3>3 DEF TickType
  <2> QED
    BY <2>2, <2>3
<1>8. ASSUME NEW t \in Task, pc[t] = "loop", xTicksToWait[t] # portMAX_DELAY
      PROVE  /\ Turns(t)' + (IF xTickCount' + (n - 1) > portMAX_DELAY THEN 1 ELSE 0) <= MaxTurns
             /\ Turns(t)' = 0 => xTimeOut[t].xTimeOnEntering <= xTickCount'
  <2> DEFINE o == xTimeOut[t].xOverflowCount
  <2>1. /\ Turns(t) = Minus(xNumOfOverflows, o) /\ Turns(t)' = Minus(xNumOfOverflows', o)
        /\ Turns(t) \in TickType
        /\ o \in TickType /\ xTimeOut[t].xTimeOnEntering \in TickType
    BY <1>2, <1>3, TickArithmetic DEF Turns
  <2>2. /\ Turns(t) + (IF xTickCount + n > portMAX_DELAY THEN 1 ELSE 0) <= MaxTurns
        /\ Turns(t) = 0 => xTimeOut[t].xTimeOnEntering <= xTickCount
    BY <1>8 DEF Timely, IInv, ClockInv
  <2>3. CASE xTickCount = portMAX_DELAY
    <3>1. Turns(t) + 1 <= MaxTurns
      BY <2>2, <2>3
    <3>2. Turns(t)' = Turns(t) + 1
      BY <1>1, <1>3, <2>1, <2>3, <3>1, MinusTick DEF TickType
    <3> QED
      BY <1>6, <2>1, <2>3, <3>1, <3>2 DEF TickType
  <2>4. CASE xTickCount # portMAX_DELAY
    <3>1. Turns(t)' = Turns(t)
      BY <1>1, <2>1, <2>4
    <3> QED
      BY <1>3, <1>5, <2>1, <2>2, <2>4, <3>1 DEF TickType
  <2> QED
    BY <2>3, <2>4
<1>9. Timely(n - 1)'
  BY <1>2, <1>7, <1>8 DEF Timely
<1> QED
  BY <1>2, <1>4, <1>8, <1>9

LEMMA InitInv == Init => IInv
<1> SUFFICES ASSUME Init PROVE IInv
  OBVIOUS
<1>1. 0 \in TickType /\ Minus(0, 0) = 0
  BY DEF TickType, Minus
<1>2. TypeOK
  BY <1>1 DEF Init, TypeOK, NoTimeOut, TickType
<1>3. ListsSplitByWrap /\ NextUnblockIsInTime /\ SchedulerInv /\ SleepInv
  BY DEF Init, ListsSplitByWrap, NextUnblockIsInTime, SchedulerInv, SleepInv, Timed
<1>4. ClockInv
  BY <1>1 DEF Init, ClockInv, Timely
<1> QED
  BY <1>2, <1>3, <1>4 DEF IInv

LEMMA TickInv == ASSUME IInv, Tick PROVE IInv'
<1>1. /\ IncrementTick /\ Timely(1)
      /\ UNCHANGED <<xPendedTicks, scheduler, owner, callVars>>
      /\ xPendedTicks = 0 /\ xPendingReadyList = {}
  BY DEF Tick, lockVars, IInv, SchedulerInv
<1>2. /\ SleepInv'
      /\ Timely(0)'
      /\ \A t \in Task : pc'[t] = "loop" /\ xTicksToWait'[t] # portMAX_DELAY /\ Turns(t)' = 0
                            => xTimeOut'[t].xTimeOnEntering <= xTickCount'
  BY <1>1, TickKeepsTime
<1>3. ClockInv'
  BY <1>1, <1>2 DEF ClockInv
<1>4. TypeOK' /\ ListsSplitByWrap' /\ NextUnblockIsInTime'
  BY <1>1, TickWakesDue DEF IInv, TypeOK, callVars
<1>5. SchedulerInv'
  BY <1>1, TickWakesDue DEF Tick, IInv, SchedulerInv
<1> QED
  BY <1>2, <1>3, <1>4, <1>5 DEF IInv

LEMMA UnwindTickInv == ASSUME IInv, UnwindTick PROVE IInv'
<1>1. /\ IncrementTick /\ Timely(xPendedTicks)
      /\ UNCHANGED <<owner, callVars>>
      /\ xPendingReadyList = {}
  BY DEF UnwindTick, IInv, SchedulerInv, ClockInv
<1>2. /\ xPendedTicks \in 1..portMAX_DELAY
      /\ xPendedTicks' = xPendedTicks - 1
      /\ xPendedTicks' \in 0..MaxPended
      /\ scheduler' = IF xPendedTicks > 1 THEN "unwinding" ELSE "running"
  BY DEF UnwindTick, IInv, SchedulerInv, TypeOK
<1>3. PICK n \in 1..portMAX_DELAY : n = xPendedTicks
  BY <1>2
<1>4. /\ SleepInv'
      /\ Timely(n - 1)'
      /\ \A t \in Task : pc'[t] = "loop" /\ xTicksToWait'[t] # portMAX_DELAY /\ Turns(t)' = 0
                            => xTimeOut'[t].xTimeOnEntering <= xTickCount'
  BY <1>1, <1>3, TickKeepsTime
<1>5. ClockInv'
  BY <1>2, <1>3, <1>4 DEF ClockInv
<1>6. TypeOK' /\ ListsSplitByWrap' /\ NextUnblockIsInTime'
  BY <1>1, <1>2, TickWakesDue DEF IInv, TypeOK, callVars
<1>7. SchedulerInv'
  BY <1>1, <1>2, TickWakesDue DEF IInv, SchedulerInv
<1> QED
  BY <1>4, <1>5, <1>6, <1>7 DEF IInv

LEMMA TickPendedInv == ASSUME IInv, TickPended PROVE IInv'
<1>1. /\ xPendedTicks' = xPendedTicks + 1 /\ xPendedTicks' \in 0..MaxPended
      /\ scheduler \in {"suspended", "resuming"} /\ Timely(xPendedTicks + 1)
      /\ UNCHANGED <<xTickCount, xNumOfOverflows, xNextTaskUnblockTime, listVars, lockVars,
                     callVars>>
  BY DEF TickPended, IInv, TypeOK
<1>2. TypeOK' /\ ListsSplitByWrap' /\ NextUnblockIsInTime'
  BY <1>1 DEF IInv, TypeOK, ListsSplitByWrap, NextUnblockIsInTime, listVars, lockVars, callVars
<1>3. SchedulerInv' /\ SleepInv'
  BY <1>1 DEF IInv, SchedulerInv, SleepInv, Timed, Ready, listVars, lockVars, callVars
<1>4. ClockInv'
  BY <1>1 DEF IInv, ClockInv, Timely, Timed, Ready, Turns, listVars, lockVars, callVars
<1> QED
  BY <1>2, <1>3, <1>4 DEF IInv

(* Whatever leaves the clock and the calls alone and makes no periodic     *)
(* task ready.                                                             *)
LEMMA ClockStands ==
    ASSUME IInv, UNCHANGED <<xTickCount, xNumOfOverflows, xPendedTicks, callVars>>,
           \A t \in Task : Period[t] > 0 /\ Ready(t)' => Ready(t)
    PROVE  ClockInv'
BY DEF IInv, ClockInv, Timely, Turns, callVars

LEMMA SuspendAllInv ==
    ASSUME IInv, NEW t \in Task, vTaskSuspendAll(t) \/ Done(t)
    PROVE  IInv'
<1>1. UNCHANGED <<clockVars, listVars, callVars>>
  BY DEF vTaskSuspendAll, Done
<1>2. TypeOK' /\ ListsSplitByWrap' /\ NextUnblockIsInTime'
  BY <1>1 DEF vTaskSuspendAll, Done, IInv, TypeOK, ListsSplitByWrap, NextUnblockIsInTime,
              clockVars, listVars, callVars
<1>3. SchedulerInv'
  BY <1>1 DEF vTaskSuspendAll, Done, Holds, IInv, SchedulerInv, Ready, Timed, clockVars, listVars
<1>4. SleepInv'
  BY <1>1 DEF IInv, SleepInv, Timed, listVars, callVars
<1>5. ClockInv'
  BY <1>1, ClockStands DEF Ready, Timed, clockVars, listVars
<1> QED
  BY <1>2, <1>3, <1>4, <1>5 DEF IInv

LEMMA ResumeAllInv == ASSUME IInv, xTaskResumeAll PROVE IInv'
<1>1. /\ pxDelayedTaskList' = pxDelayedTaskList \ xPendingReadyList
      /\ pxOverflowDelayedTaskList' = pxOverflowDelayedTaskList \ xPendingReadyList
      /\ xSuspendedTaskList' = xSuspendedTaskList \ xPendingReadyList
      /\ xPendingReadyList' = {} /\ owner' = {}
      /\ scheduler' = IF xPendedTicks > 0 THEN "unwinding" ELSE "running"
      /\ UNCHANGED <<xTickCount, xNumOfOverflows, xPendedTicks, xItemValue, onEventList, callVars>>
  BY DEF xTaskResumeAll
<1>2. \/ xNextTaskUnblockTime' = xNextTaskUnblockTime
      \/ xNextTaskUnblockTime' \in NextUnblockTime(pxDelayedTaskList')
  BY DEF xTaskResumeAll
<1>3. xNextTaskUnblockTime' \in TickType /\ NextUnblockIsInTime'
  BY <1>1, <1>2 DEF NextUnblockTime, IInv, TypeOK, NextUnblockIsInTime, TickType
<1>4. TypeOK' /\ ListsSplitByWrap'
  BY <1>1, <1>3 DEF IInv, TypeOK, ListsSplitByWrap, callVars
<1>5. SchedulerInv'
  BY <1>1 DEF IInv, SchedulerInv, TypeOK
<1>6. SleepInv'
  BY <1>1 DEF IInv, SleepInv, Timed, callVars
<1>7. \A t \in Task : Period[t] > 0 /\ Ready(t)' => Ready(t)
  BY <1>1 DEF IInv, SleepInv, Ready, Timed
<1>8. ClockInv'
  BY <1>1, <1>7, ClockStands
<1> QED
  BY <1>3, <1>4, <1>5, <1>6, <1>8 DEF IInv

LEMMA EventInv == ASSUME IInv, NEW t \in Task, Event(t) PROVE IInv'
<1>1. /\ t \in onEventList /\ onEventList' = onEventList \ {t} /\ scheduler # "unwinding"
      /\ Period[t] = 0
      /\ UNCHANGED <<clockVars, lockVars, callVars, xItemValue>>
  BY DEF Event, IInv, SleepInv
<1>2. CASE scheduler = "running"
  <2>1. /\ pxDelayedTaskList' = pxDelayedTaskList \ {t}
        /\ pxOverflowDelayedTaskList' = pxOverflowDelayedTaskList \ {t}
        /\ xSuspendedTaskList' = xSuspendedTaskList \ {t}
        /\ xPendingReadyList' = xPendingReadyList /\ xPendingReadyList = {}
    BY <1>2 DEF Event, IInv, SchedulerInv
  <2>2. TypeOK' /\ ListsSplitByWrap' /\ NextUnblockIsInTime'
    BY <1>1, <2>1 DEF IInv, TypeOK, ListsSplitByWrap, NextUnblockIsInTime,
                      clockVars, lockVars, callVars
  <2>3. SchedulerInv' /\ SleepInv'
    BY <1>1, <1>2, <2>1 DEF IInv, SchedulerInv, SleepInv, Timed, clockVars, lockVars, callVars
  <2>4. \A u \in Task : Period[u] > 0 /\ Ready(u)' => Ready(u)
    BY <1>1, <2>1 DEF Ready, Timed
  <2> QED
    BY <1>1, <2>2, <2>3, <2>4, ClockStands DEF IInv, clockVars
<1>3. CASE scheduler # "running"
  <2>1. /\ UNCHANGED <<pxDelayedTaskList, pxOverflowDelayedTaskList, xSuspendedTaskList>>
        /\ xPendingReadyList' = xPendingReadyList \cup {t}
    BY <1>3 DEF Event
  <2>2. TypeOK' /\ ListsSplitByWrap' /\ NextUnblockIsInTime'
    BY <1>1, <2>1 DEF IInv, TypeOK, ListsSplitByWrap, NextUnblockIsInTime,
                      clockVars, lockVars, callVars
  <2>3. SchedulerInv' /\ SleepInv'
    BY <1>1, <1>3, <2>1 DEF IInv, SchedulerInv, SleepInv, Timed, Ready,
                            clockVars, lockVars, callVars
  <2>4. \A u \in Task : Period[u] > 0 /\ Ready(u)' => Ready(u)
    BY <2>1 DEF Ready, Timed
  <2> QED
    BY <1>1, <2>2, <2>3, <2>4, ClockStands DEF IInv, clockVars
<1> QED
  BY <1>2, <1>3

(* The task that holds the scheduler is on no list of sleepers.            *)
LEMMA HolderIsReady ==
    ASSUME NEW t \in Task, Holds(t), IInv
    PROVE  Ready(t) /\ t \notin Timed /\ t \notin xSuspendedTaskList
BY DEF Holds, IInv, SchedulerInv, Ready

LEMMA DelayInv == ASSUME IInv, NEW t \in Task, vTaskDelay(t) PROVE IInv'
<1>1. PICK ticks \in 1..portMAX_DELAY : AddCurrentTaskToDelayedList(t, ticks, FALSE)
  BY DEF vTaskDelay
<1>2. /\ Holds(t) /\ Period[t] = 0 /\ scheduler' = "resuming"
      /\ UNCHANGED <<xTickCount, xNumOfOverflows, xPendedTicks, onEventList, xPendingReadyList,
                     owner, callVars>>
  BY DEF vTaskDelay
<1>3. Ready(t) /\ t \notin Timed /\ t \notin xSuspendedTaskList
  BY <1>2, HolderIsReady
<1>4. /\ xItemValue' \in [Task -> TickType]
      /\ xNextTaskUnblockTime' \in TickType
      /\ pxDelayedTaskList' \subseteq Task
      /\ pxOverflowDelayedTaskList' \subseteq Task
      /\ xSuspendedTaskList' \subseteq Task
      /\ ListsSplitByWrap'
      /\ NextUnblockIsInTime'
      /\ Timed' = Timed \cup {t}
      /\ xSuspendedTaskList' = xSuspendedTaskList
      /\ xItemValue' = [xItemValue EXCEPT ![t] = Plus(xTickCount, ticks)]
  BY <1>1, <1>2, <1>3, AddKeepsLists, FALSE \in BOOLEAN DEF IInv
<1>5. TypeOK'
  BY <1>2, <1>4 DEF IInv, TypeOK, callVars
<1>6. SchedulerInv'
  BY <1>2 DEF SchedulerInv
<1>7. SleepInv'
  BY <1>2, <1>3, <1>4 DEF IInv, TypeOK, SleepInv, Timed, callVars
<1>8. ClockInv'
  BY <1>2, <1>4, ClockStands DEF Ready
<1> QED
  BY <1>4, <1>5, <1>6, <1>7, <1>8 DEF IInv

(* A periodic task sleeps until its wake time or is already past it; in    *)
(* both cases it is less than a turn of the counter away.                  *)
LEMMA DelayUntilInv == ASSUME IInv, NEW t \in Task, xTaskDelayUntil(t) PROVE IInv'
<1> DEFINE wake == Plus(pxPreviousWakeTime[t], Period[t])
           past == Minus(xTickCount, pxPreviousWakeTime[t])
<1>1. /\ Holds(t) /\ Period[t] > 0 /\ pc[t] # "loop" /\ scheduler' = "resuming"
      /\ pxPreviousWakeTime' = [pxPreviousWakeTime EXCEPT ![t] = wake]
      /\ UNCHANGED <<xTickCount, xNumOfOverflows, xPendedTicks, onEventList,
                     xPendingReadyList, owner, pc, xTimeOut, xTicksToWait>>
  BY DEF xTaskDelayUntil
<1>2. /\ Ready(t) /\ t \notin Timed /\ t \notin xSuspendedTaskList
      /\ xTickCount \in TickType /\ pxPreviousWakeTime[t] \in TickType
      /\ Period[t] \in 1..portMAX_DELAY /\ Period[t] \in TickType
  BY <1>1, HolderIsReady DEF IInv, TypeOK, TickType
<1>3. wake \in TickType /\ past \in TickType
  BY <1>2, TickArithmetic
<1>4. /\ ShouldDelay(xTickCount, pxPreviousWakeTime[t], wake) <=> past < Period[t]
      /\ past < Period[t] => Minus(wake, xTickCount) = Period[t] - past
      /\ past >= Period[t] => Minus(xTickCount, wake) = past - Period[t]
  BY <1>2, ShouldDelayMeansEarly
<1>5. past + xPendedTicks <= portMAX_DELAY
  BY <1>1, <1>2 DEF IInv, ClockInv, Timely
<1>6. SchedulerInv'
  BY <1>1 DEF SchedulerInv
<1>7. ASSUME NEW u \in Task, u # t
      PROVE  pxPreviousWakeTime'[u] = pxPreviousWakeTime[u]
  BY <1>1, <1>7 DEF IInv, TypeOK
<1>8. pxPreviousWakeTime'[t] = wake /\ pxPreviousWakeTime' \in [Task -> TickType]
  BY <1>1, <1>3 DEF IInv, TypeOK
<1>9. CASE past < Period[t]
  <2> DEFINE ticks == Minus(wake, xTickCount)
  <2>1. /\ AddCurrentTaskToDelayedList(t, ticks, FALSE)
        /\ ticks \in 1..portMAX_DELAY
        /\ Plus(xTickCount, ticks) = wake
    <3>1. AddCurrentTaskToDelayedList(t, ticks, FALSE)
      BY <1>4, <1>9 DEF xTaskDelayUntil
    <3>2. ticks \in 1..portMAX_DELAY
      BY <1>2, <1>3, <1>4, <1>9 DEF TickType
    <3>3. Plus(xTickCount, ticks) = wake
      BY <1>2, <1>3, TickArithmetic
    <3> QED
      BY <3>1, <3>2, <3>3
  <2> HIDE DEF ticks
  <2>2. /\ xItemValue' \in [Task -> TickType]
        /\ xNextTaskUnblockTime' \in TickType
        /\ pxDelayedTaskList' \subseteq Task
        /\ pxOverflowDelayedTaskList' \subseteq Task
        /\ xSuspendedTaskList' \subseteq Task
        /\ ListsSplitByWrap'
        /\ NextUnblockIsInTime'
        /\ Timed' = Timed \cup {t}
        /\ xSuspendedTaskList' = xSuspendedTaskList
        /\ xItemValue' = [xItemValue EXCEPT ![t] = Plus(xTickCount, ticks)]
    BY <1>1, <1>2, <2>1, AddKeepsLists, FALSE \in BOOLEAN DEF IInv
  <2>3. TypeOK'
    BY <1>1, <1>8, <2>2 DEF IInv, TypeOK
  <2>4. xItemValue'[t] = wake /\ \A u \in Task \ {t} : xItemValue'[u] = xItemValue[u]
    BY <2>1, <2>2 DEF IInv, TypeOK
  <2>5. SleepInv'
    BY <1>1, <1>2, <1>7, <1>8, <2>2, <2>4 DEF IInv, TypeOK, SleepInv, Timed
  <2>6. ClockInv'
    BY <1>1, <1>7, <2>2 DEF IInv, ClockInv, Timely, Ready, Turns
  <2> QED
    BY <1>6, <2>2, <2>3, <2>5, <2>6 DEF IInv
<1>10. CASE ~(past < Period[t])
  <2>1. UNCHANGED <<xItemValue, pxDelayedTaskList, pxOverflowDelayedTaskList,
                    xSuspendedTaskList, xNextTaskUnblockTime>>
    BY <1>4, <1>10 DEF xTaskDelayUntil
  <2>2. TypeOK' /\ ListsSplitByWrap' /\ NextUnblockIsInTime'
    BY <1>1, <1>8, <2>1 DEF IInv, TypeOK, ListsSplitByWrap, NextUnblockIsInTime
  <2>3. SleepInv'
    BY <1>1, <1>2, <1>7, <2>1 DEF IInv, TypeOK, SleepInv, Timed
  <2>4. Minus(xTickCount', pxPreviousWakeTime'[t]) + xPendedTicks' <= portMAX_DELAY
    BY <1>1, <1>2, <1>3, <1>4, <1>5, <1>8, <1>10 DEF IInv, TypeOK, TickType
  <2>5. ClockInv'
    BY <1>1, <1>7, <2>1, <2>4 DEF IInv, ClockInv, Timely, Ready, Timed, Turns
  <2> QED
    BY <1>6, <2>2, <2>3, <2>5 DEF IInv
<1> QED
  BY <1>9, <1>10

-----------------------------------------------------------------------------
(* Waits.                                                                  *)

(* A task other than t is as it was.                                       *)
OthersKeep(t) ==
    \A u \in Task \ {t} : /\ pc'[u] = pc[u]
                          /\ xTimeOut'[u] = xTimeOut[u]
                          /\ xTicksToWait'[u] = xTicksToWait[u]

(* A wait that starts, ends or is re-armed counts from now.                *)
LEMMA ClockOfOne ==
    ASSUME IInv, NEW t \in Task, OthersKeep(t), Period[t] = 0,
           UNCHANGED <<xTickCount, xNumOfOverflows, xPendedTicks, pxPreviousWakeTime>>,
           \A u \in Task \ {t} : Ready(u)' => Ready(u),
           \/ pc'[t] # "loop"
           \/ xTicksToWait'[t] = portMAX_DELAY
           \/ xTimeOut'[t] = Now
    PROVE  ClockInv'
<1>1. /\ xTickCount \in TickType /\ xNumOfOverflows \in TickType
      /\ xPendedTicks \in 0..portMAX_DELAY
  BY DEF IInv, TypeOK
<1>2. Minus(xNumOfOverflows, xNumOfOverflows) = 0
  BY <1>1 DEF Minus, TickType
<1>3. pc'[t] = "loop" /\ xTicksToWait'[t] # portMAX_DELAY
      => /\ Turns(t)' = 0
         /\ xTimeOut'[t].xTimeOnEntering <= xTickCount'
  BY <1>1, <1>2 DEF Turns, Now, TickType
<1>4. ASSUME NEW u \in Task \ {t} PROVE Turns(u)' = Turns(u)
  BY DEF OthersKeep, Turns
<1>5. Timely(xPendedTicks)'
  BY <1>3, <1>4 DEF IInv, ClockInv, Timely, OthersKeep
<1> QED
  BY <1>3, <1>4, <1>5 DEF IInv, ClockInv, OthersKeep

LEMMA StartWaitingInv == ASSUME IInv, NEW t \in Task, StartWaiting(t) PROVE IInv'
<1>1. PICK ticks \in BlockTimes \cup {portMAX_DELAY} :
          xTicksToWait' = [xTicksToWait EXCEPT ![t] = ticks]
  BY DEF StartWaiting
<1>2. /\ Period[t] = 0
      /\ xTimeOut' = [xTimeOut EXCEPT ![t] = Now]
      /\ pc' = [pc EXCEPT ![t] = "loop"]
      /\ UNCHANGED <<clockVars, listVars, lockVars, pxPreviousWakeTime>>
  BY DEF StartWaiting
<1>3. TypeOK'
  BY <1>1, <1>2 DEF IInv, TypeOK, Now, TickType, clockVars, listVars, lockVars
<1>4. ListsSplitByWrap' /\ NextUnblockIsInTime' /\ SchedulerInv'
  BY <1>2 DEF IInv, ListsSplitByWrap, NextUnblockIsInTime, SchedulerInv, Ready, Timed,
              clockVars, listVars, lockVars
<1>5. SleepInv'
  BY <1>2 DEF IInv, TypeOK, SleepInv, Timed, listVars
<1>6. OthersKeep(t) /\ xTimeOut'[t] = Now
  BY <1>1, <1>2 DEF IInv, TypeOK, OthersKeep
<1>7. ClockInv'
  BY <1>2, <1>6, ClockOfOne DEF Ready, Timed, clockVars, listVars
<1> QED
  BY <1>3, <1>4, <1>5, <1>7 DEF IInv

LEMMA ReturnInv ==
    ASSUME IInv, NEW t \in Task, Succeed(t) \/ TimesOut(t)
    PROVE  IInv'
<1>1. /\ Return(t, "app") \/ Return(t, "failed")
      /\ pc[t] = "loop"
      /\ UNCHANGED <<clockVars, listVars, owner>>
      /\ UNCHANGED scheduler \/ scheduler' = "resuming"
  BY DEF Succeed, TimesOut, lockVars
<1>2. /\ \/ pc' = [pc EXCEPT ![t] = "app"]
         \/ pc' = [pc EXCEPT ![t] = "failed"]
      /\ xTimeOut' = [xTimeOut EXCEPT ![t] = NoTimeOut]
      /\ xTicksToWait' = [xTicksToWait EXCEPT ![t] = 0]
      /\ UNCHANGED pxPreviousWakeTime
  BY <1>1 DEF Return
<1>3. Period[t] = 0
  BY <1>1 DEF IInv, SleepInv, TypeOK
<1>4. TypeOK'
  BY <1>1, <1>2 DEF IInv, TypeOK, NoTimeOut, TickType, clockVars, listVars
<1>5. ListsSplitByWrap' /\ NextUnblockIsInTime' /\ SchedulerInv'
  BY <1>1, <1>2 DEF IInv, ListsSplitByWrap, NextUnblockIsInTime, SchedulerInv, Ready, Timed,
                    clockVars, listVars
<1>6. SleepInv'
  BY <1>1, <1>2 DEF IInv, TypeOK, SleepInv, Timed, listVars
<1>7. OthersKeep(t) /\ pc'[t] # "loop"
  BY <1>2 DEF IInv, TypeOK, OthersKeep
<1>8. ClockInv'
  BY <1>1, <1>2, <1>3, <1>7, ClockOfOne DEF Ready, Timed, clockVars, listVars
<1> QED
  BY <1>4, <1>5, <1>6, <1>8 DEF IInv

(* What is left of a block time that is not used up.                       *)
LEMMA RemainingInRange ==
    ASSUME IInv, NEW t \in Task, ~TimedOut(t)
    PROVE  /\ Remaining(t) \in 1..portMAX_DELAY
           /\ xTicksToWait[t] # portMAX_DELAY =>
                 /\ Remaining(t) <= xTicksToWait[t]
                 /\ Remaining(t) # portMAX_DELAY
<1>1. /\ xTicksToWait[t] \in TickType
      /\ xTickCount \in TickType /\ xTimeOut[t].xTimeOnEntering \in TickType
  BY DEF IInv, TypeOK
<1>2. Minus(xTickCount, xTimeOut[t].xTimeOnEntering) \in TickType
  BY <1>1, TickArithmetic
<1>3. CASE xTicksToWait[t] = portMAX_DELAY
  BY <1>3 DEF Remaining
<1>4. CASE xTicksToWait[t] # portMAX_DELAY
  <2>1. ~(Minus(xTickCount, xTimeOut[t].xTimeOnEntering) >= xTicksToWait[t])
    BY <1>4 DEF TimedOut
  <2> QED
    BY <1>1, <1>2, <1>4, <2>1 DEF Remaining, TickType
<1> QED
  BY <1>3, <1>4

LEMMA RearmKeeps ==
    ASSUME IInv, NEW t \in Task, Rearm(t), pc[t] = "loop", UNCHANGED <<pc, pxPreviousWakeTime>>
    PROVE  /\ Period[t] = 0
           /\ xTicksToWait' \in [Task -> TickType]
           /\ xTimeOut' \in [Task -> [xOverflowCount : TickType, xTimeOnEntering : TickType]]
           /\ OthersKeep(t)
           /\ xTicksToWait'[t] = Remaining(t)
           /\ xTicksToWait'[t] = portMAX_DELAY \/ xTimeOut'[t] = Now
<1>1. /\ ~TimedOut(t)
      /\ xTicksToWait' = [xTicksToWait EXCEPT ![t] = Remaining(t)]
      /\ xTimeOut' = [xTimeOut EXCEPT ![t] = IF xTicksToWait[t] = portMAX_DELAY THEN @ ELSE Now]
  BY DEF Rearm
<1>2. Remaining(t) \in TickType
  BY <1>1, RemainingInRange DEF TickType
<1>3. Now \in [xOverflowCount : TickType, xTimeOnEntering : TickType]
  BY DEF Now, IInv, TypeOK
<1>4. Period[t] = 0
  BY DEF IInv, SleepInv, TypeOK
<1>5. xTicksToWait[t] = portMAX_DELAY => Remaining(t) = portMAX_DELAY
  BY DEF Remaining
<1>6. xTicksToWait \in [Task -> TickType] /\ xTimeOut \in [Task -> [xOverflowCount : TickType, xTimeOnEntering : TickType]]
  BY DEF IInv, TypeOK
<1> QED
  BY <1>1, <1>2, <1>3, <1>4, <1>5, <1>6 DEF OthersKeep

LEMMA PlaceInv == ASSUME IInv, NEW t \in Task, PlaceOnEventList(t) PROVE IInv'
<1>1. /\ Holds(t) /\ pc[t] = "loop" /\ Rearm(t) /\ ~TimedOut(t)
      /\ AddCurrentTaskToDelayedList(t, Remaining(t), TRUE)
      /\ onEventList' = onEventList \cup {t}
      /\ scheduler' = "resuming"
      /\ UNCHANGED <<xTickCount, xNumOfOverflows, xPendedTicks, xPendingReadyList, owner, pc,
                     pxPreviousWakeTime>>
  BY DEF PlaceOnEventList, Rearm
<1>2. Ready(t) /\ t \notin Timed /\ t \notin xSuspendedTaskList
  BY <1>1, HolderIsReady
<1>3. Remaining(t) \in 1..portMAX_DELAY
  BY <1>1, RemainingInRange
<1>4. /\ xItemValue' \in [Task -> TickType]
      /\ xNextTaskUnblockTime' \in TickType
      /\ pxDelayedTaskList' \subseteq Task
      /\ pxOverflowDelayedTaskList' \subseteq Task
      /\ xSuspendedTaskList' \subseteq Task
      /\ ListsSplitByWrap'
      /\ NextUnblockIsInTime'
      /\ \/ /\ xSuspendedTaskList' = xSuspendedTaskList \cup {t}
            /\ Timed' = Timed
            /\ xItemValue' = xItemValue
         \/ /\ Timed' = Timed \cup {t}
            /\ xSuspendedTaskList' = xSuspendedTaskList
            /\ xItemValue' = [xItemValue EXCEPT ![t] = Plus(xTickCount, Remaining(t))]
  BY <1>1, <1>2, <1>3, AddKeepsLists, TRUE \in BOOLEAN DEF IInv
<1>5. /\ Period[t] = 0
      /\ xTicksToWait' \in [Task -> TickType]
      /\ xTimeOut' \in [Task -> [xOverflowCount : TickType, xTimeOnEntering : TickType]]
      /\ OthersKeep(t)
      /\ xTicksToWait'[t] = portMAX_DELAY \/ xTimeOut'[t] = Now
  BY <1>1, RearmKeeps
<1>6. TypeOK'
  BY <1>1, <1>4, <1>5 DEF IInv, TypeOK
<1>7. SchedulerInv'
  BY <1>1 DEF SchedulerInv
<1>8. SleepInv'
  <2>1. t \notin onEventList \cup xPendingReadyList
    BY <1>2 DEF IInv, SleepInv
  <2>2. ASSUME NEW u \in Timed', Period[u] > 0
        PROVE  u \in Timed /\ xItemValue'[u] = xItemValue[u]
    <3>1. u # t /\ u \in Timed /\ u \in Task
      BY <1>4, <1>5, <2>2 DEF IInv, TypeOK, Timed
    <3> QED
      BY <1>4, <3>1 DEF IInv, TypeOK
  <2>3. \A u \in Timed' : Period[u] > 0 => xItemValue'[u] = pxPreviousWakeTime'[u]
    BY <1>1, <2>2 DEF IInv, SleepInv
  <2>4. (Timed \cap xSuspendedTaskList)' = {}
    BY <1>2, <1>4 DEF IInv, SleepInv
  <2>5. /\ onEventList' \cap xPendingReadyList' = {}
        /\ onEventList' \cup xPendingReadyList' \subseteq Timed' \cup xSuspendedTaskList'
    BY <1>1, <1>4, <2>1 DEF IInv, SleepInv
  <2>6. /\ \A u \in onEventList' \cup xPendingReadyList' \cup xSuspendedTaskList' : Period[u] = 0
        /\ \A u \in Task : Period[u] > 0 => pc'[u] # "loop"
    BY <1>1, <1>4, <1>5 DEF IInv, SleepInv
  <2> QED
    BY <2>3, <2>4, <2>5, <2>6 DEF SleepInv
<1>9. \A u \in Task \ {t} : Ready(u)' => Ready(u)
  BY <1>4 DEF Ready
<1>10. ClockInv'
  BY <1>1, <1>5, <1>9, ClockOfOne
<1> QED
  BY <1>4, <1>6, <1>7, <1>8, <1>10 DEF IInv

LEMMA EventFoundInv == ASSUME IInv, NEW t \in Task, EventFound(t) PROVE IInv'
<1>1. /\ Holds(t) /\ pc[t] = "loop" /\ Rearm(t)
      /\ scheduler' = "resuming"
      /\ UNCHANGED <<clockVars, listVars, owner, pc, pxPreviousWakeTime>>
  BY DEF EventFound
<1>2. /\ Period[t] = 0
      /\ xTicksToWait' \in [Task -> TickType]
      /\ xTimeOut' \in [Task -> [xOverflowCount : TickType, xTimeOnEntering : TickType]]
      /\ OthersKeep(t)
      /\ xTicksToWait'[t] = portMAX_DELAY \/ xTimeOut'[t] = Now
  BY <1>1, RearmKeeps
<1>3. TypeOK' /\ ListsSplitByWrap' /\ NextUnblockIsInTime'
  BY <1>1, <1>2 DEF IInv, TypeOK, ListsSplitByWrap, NextUnblockIsInTime, clockVars, listVars
<1>4. SchedulerInv' /\ SleepInv'
  BY <1>1 DEF IInv, SchedulerInv, SleepInv, Timed, listVars
<1>5. ClockInv'
  BY <1>1, <1>2, ClockOfOne DEF Ready, Timed, clockVars, listVars
<1> QED
  BY <1>3, <1>4, <1>5 DEF IInv

-----------------------------------------------------------------------------
(* Every step keeps the invariant.                                         *)

LEMMA NextInv == IInv /\ [Next]_vars => IInv'
<1> SUFFICES ASSUME IInv, [Next]_vars PROVE IInv'
  OBVIOUS
<1>1. CASE Tick \/ TickPended \/ xTaskResumeAll \/ UnwindTick
  BY <1>1, TickInv, TickPendedInv, ResumeAllInv, UnwindTickInv
<1>2. ASSUME NEW t \in Task, \/ vTaskSuspendAll(t) \/ Done(t) \/ vTaskDelay(t) \/ xTaskDelayUntil(t)
      PROVE  IInv'
  BY <1>2, SuspendAllInv, DelayInv, DelayUntilInv
<1>3. ASSUME NEW t \in Task, \/ StartWaiting(t) \/ Succeed(t) \/ TimesOut(t)
                            \/ PlaceOnEventList(t) \/ EventFound(t) \/ Event(t)
      PROVE  IInv'
  BY <1>3, StartWaitingInv, ReturnInv, PlaceInv, EventFoundInv, EventInv
<1>4. CASE UNCHANGED vars
  BY <1>4 DEF vars, clockVars, listVars, lockVars, callVars, IInv, TypeOK, ListsSplitByWrap,
              NextUnblockIsInTime, SchedulerInv, SleepInv, ClockInv, Timely, Ready, Timed, Turns
<1> QED
  BY <1>1, <1>2, <1>3, <1>4 DEF Next

-----------------------------------------------------------------------------
(* The theorems about every number of turns.                               *)

(* The invariant of this module holds in every reachable state.            *)
THEOREM Invariance == Spec => []IInv
BY InitInv, NextInv, PTL DEF Spec

(* Every variable keeps its range: no tick value leaves TickType_t and no  *)
(* block time that is left over becomes negative.                          *)
THEOREM TypeCorrect == Spec => []TypeOK
<1>1. IInv => TypeOK
  BY DEF IInv
<1> QED
  BY <1>1, Invariance, PTL

(* Wake times are in the list of their turn of the counter, so that the    *)
(* current list is empty when taskSWITCH_DELAYED_LISTS asserts it.         *)
THEOREM ListsAreSplit == Spec => []ListsSplitByWrap
<1>1. IInv => ListsSplitByWrap
  BY DEF IInv
<1> QED
  BY <1>1, Invariance, PTL

(* xNextTaskUnblockTime is never later than the first wake time of the     *)
(* current list.                                                           *)
THEOREM NoSleeperIsMissed == Spec => []NextUnblockIsInTime
<1>1. IInv => NextUnblockIsInTime
  BY DEF IInv
<1> QED
  BY <1>1, Invariance, PTL

-----------------------------------------------------------------------------
(* Elapsed time, for waits that are attended once a turn.                  *)

LEMMA ElapsedValue ==
    ASSUME NEW k \in {0, 1}, NEW x \in TickType, NEW e \in TickType
    PROVE  k * Modulus + x - e = IF k = 0 THEN x - e ELSE portMAX_DELAY + 1 + x - e
<1>1. Modulus \in Int /\ 0 * Modulus = 0 /\ 1 * Modulus = portMAX_DELAY + 1
  BY DEF Modulus
<1> QED
  BY <1>1 DEF TickType

LEMMA ElapsedSinceNoted ==
    ASSUME IInv, MaxTurns = 1, NEW t \in Task, pc[t] = "loop", xTicksToWait[t] # portMAX_DELAY
    PROVE  /\ Turns(t) \in {0, 1}
           /\ Elapsed(t) = IF Turns(t) = 0 THEN xTickCount - xTimeOut[t].xTimeOnEntering
                           ELSE portMAX_DELAY + 1 + xTickCount - xTimeOut[t].xTimeOnEntering
           /\ Turns(t) = 0 => xTimeOut[t].xTimeOnEntering <= xTickCount
           /\ Turns(t) = 0 <=> xNumOfOverflows = xTimeOut[t].xOverflowCount
<1>1. /\ xTickCount \in TickType /\ xNumOfOverflows \in TickType
      /\ xTimeOut[t].xOverflowCount \in TickType /\ xTimeOut[t].xTimeOnEntering \in TickType
  BY DEF IInv, TypeOK
<1>2. Turns(t) \in TickType /\ (Turns(t) = 0 <=> xNumOfOverflows = xTimeOut[t].xOverflowCount)
  BY <1>1 DEF Turns, Minus, TickType, Modulus
<1>3. Turns(t) <= 1 /\ (Turns(t) = 0 => xTimeOut[t].xTimeOnEntering <= xTickCount)
  BY <1>1, <1>2 DEF IInv, ClockInv, Timely, TypeOK, TickType
<1>4. Turns(t) \in {0, 1}
  BY <1>2, <1>3 DEF TickType
<1> QED
  BY <1>1, <1>2, <1>3, <1>4, ElapsedValue DEF Elapsed

(* xTaskCheckForTimeOut says that the time is used up exactly when it is.  *)
LEMMA TimedOutMeansElapsed ==
    ASSUME IInv, MaxTurns = 1, NEW t \in Task, pc[t] = "loop", xTicksToWait[t] # portMAX_DELAY
    PROVE  /\ TimedOut(t) <=> Elapsed(t) >= xTicksToWait[t]
           /\ ~TimedOut(t) => Minus(xTickCount, xTimeOut[t].xTimeOnEntering) = Elapsed(t)
           /\ Elapsed(t) \in Nat
<1>1. /\ xTickCount \in TickType /\ xTimeOut[t].xTimeOnEntering \in TickType
      /\ xTicksToWait[t] \in TickType
  BY DEF IInv, TypeOK
<1>2. /\ Turns(t) \in {0, 1}
      /\ Elapsed(t) = IF Turns(t) = 0 THEN xTickCount - xTimeOut[t].xTimeOnEntering
                      ELSE portMAX_DELAY + 1 + xTickCount - xTimeOut[t].xTimeOnEntering
      /\ Turns(t) = 0 => xTimeOut[t].xTimeOnEntering <= xTickCount
      /\ Turns(t) = 0 <=> xNumOfOverflows = xTimeOut[t].xOverflowCount
  BY ElapsedSinceNoted
<1>3. CASE Turns(t) = 0
  BY <1>1, <1>2, <1>3 DEF TimedOut, Minus, TickType
<1>4. CASE Turns(t) = 1
  BY <1>1, <1>2, <1>4 DEF TimedOut, Minus, TickType, Modulus
<1> QED
  BY <1>2, <1>3, <1>4

(* A wait never goes back to sleep after its block time, whether or not    *)
(* the counter wrapped, if it is attended once a turn of the counter.      *)
THEOREM WaitsSleepInTime == ASSUME MaxTurns = 1 PROVE Spec => SleepsInTime
<1>1. IInv /\ [Next]_vars =>
        [\A t \in Task : PlaceOnEventList(t) /\ xTicksToWait[t] # portMAX_DELAY
                             => Elapsed(t) < xTicksToWait[t]]_vars
  <2> SUFFICES ASSUME IInv, NEW t \in Task, PlaceOnEventList(t), xTicksToWait[t] # portMAX_DELAY
               PROVE  Elapsed(t) < xTicksToWait[t]
    OBVIOUS
  <2>1. pc[t] = "loop" /\ ~TimedOut(t)
    BY DEF PlaceOnEventList, Rearm
  <2>2. xTicksToWait[t] \in TickType
    BY DEF IInv, TypeOK
  <2> QED
    BY <2>1, <2>2, TimedOutMeansElapsed DEF TickType
<1> QED
  BY <1>1, Invariance, PTL DEF Spec, SleepsInTime

-----------------------------------------------------------------------------
(* Time is kept: the steps of TickDelay are steps of DelaySpec.            *)

Waits == onEventList \cup xPendingReadyList
abstractVars == <<pc, Left, Until, Waits, Behind>>

(* What the mapping of a state depends on.                                 *)
LEMMA LeftDepends ==
    ASSUME UNCHANGED <<xTickCount, xItemValue, Timed, xSuspendedTaskList>>
    PROVE  Left' = Left
BY DEF Left

LEMMA BehindDepends ==
    ASSUME UNCHANGED <<xTickCount, xItemValue, Timed, pxPreviousWakeTime>>
    PROVE  Behind' = Behind
BY DEF Behind

LEMMA UntilDepends ==
    ASSUME UNCHANGED <<xTickCount, xNumOfOverflows, pc, xTimeOut, xTicksToWait>>
    PROVE  Until' = Until
BY DEF Until, Elapsed, Turns

LEMMA InitMaps == Init => Delayed!Init
<1> SUFFICES ASSUME Init PROVE Delayed!Init
  OBVIOUS
<1>1. Minus(0, 0) = 0
  BY DEF Minus
<1>2. Left = [t \in Task |-> 0] /\ Behind = [t \in Task |-> 0] /\ Until = [t \in Task |-> 0]
  BY <1>1 DEF Init, Left, Behind, Until, Timed
<1>3. Waits = {} /\ pc = [t \in Task |-> "app"]
  BY DEF Init, Waits
<1> QED
  BY <1>2, <1>3 DEF Delayed!Init, Waits

(* A tick brings every sleeper and every time-out one nearer.              *)
LEMMA TickMaps ==
    ASSUME IInv, MaxTurns = 1, IncrementTick, xPendingReadyList = {}, UNCHANGED callVars,
           NEW n \in 1..portMAX_DELAY, Timely(n), IInv'
    PROVE  Delayed!Tick
<1>1. /\ xTickCount' = Plus(xTickCount, 1)
      /\ xNumOfOverflows' = IF xTickCount = portMAX_DELAY
                            THEN Plus(xNumOfOverflows, 1) ELSE xNumOfOverflows
      /\ Timed' = Timed \ Due
      /\ onEventList' = onEventList \ Due
      /\ UNCHANGED <<xItemValue, xSuspendedTaskList, xPendingReadyList>>
      /\ UNCHANGED <<pc, pxPreviousWakeTime, xTimeOut, xTicksToWait>>
  BY TickWakesDue DEF IInv, callVars
<1>2. /\ xTickCount \in TickType /\ xNumOfOverflows \in TickType
      /\ Timed \subseteq Task
  BY DEF IInv, TypeOK, Timed
<1>3. ASSUME NEW t \in Timed
      PROVE  /\ Minus(xItemValue[t], xTickCount) \in TickType
             /\ Minus(xItemValue[t], xTickCount) > 0
             /\ t \in Due <=> Minus(xItemValue[t], xTickCount) = 1
             /\ Minus(xItemValue[t], xTickCount') = Minus(xItemValue[t], xTickCount) - 1
  <2>1. xItemValue[t] \in TickType /\ xItemValue[t] # xTickCount
    BY <1>2 DEF IInv, TypeOK, ListsSplitByWrap, Timed, TickType
  <2> QED
    BY <1>1, <1>2, <2>1, TickArithmetic, MinusTick DEF Due
<1>4. Left' = [t \in Task |-> Delayed!Less(Left[t])]
  <2>1. ASSUME NEW t \in Task PROVE Left'[t] = Delayed!Less(Left[t])
    <3>1. CASE t \in Timed
      <4>1. t \notin xSuspendedTaskList /\ Left[t] = Minus(xItemValue[t], xTickCount)
        BY <3>1 DEF IInv, SleepInv, Left
      <4>2. Left'[t] = IF t \in Due THEN 0 ELSE Minus(xItemValue[t], xTickCount')
        BY <1>1, <3>1, <4>1 DEF Left
      <4> QED
        BY <1>3, <3>1, <4>1, <4>2 DEF Delayed!Less, TickType
    <3>2. CASE t \notin Timed
      BY <1>1, <3>2 DEF Left, Delayed!Less
    <3> QED
      BY <3>1, <3>2
  <2> QED
    BY <2>1 DEF Left
<1>5. Until' = [t \in Task |-> Delayed!Less(Until[t])]
  <2>1. ASSUME NEW t \in Task PROVE Until'[t] = Delayed!Less(Until[t])
    <3>1. CASE pc[t] # "loop" \/ xTicksToWait[t] = portMAX_DELAY
      BY <1>1, <3>1 DEF Until, Delayed!Less
    <3>2. CASE ~(pc[t] # "loop" \/ xTicksToWait[t] = portMAX_DELAY)
      <4>1. pc[t] = "loop" /\ xTicksToWait[t] # portMAX_DELAY /\ xTicksToWait[t] \in TickType
        BY <3>2 DEF IInv, TypeOK
      <4>2. Elapsed(t)' = Elapsed(t) + 1 /\ Elapsed(t) \in Nat
        <5> DEFINE o == xTimeOut[t].xOverflowCount
                   e == xTimeOut[t].xTimeOnEntering
        <5>1. o \in TickType /\ e \in TickType
          BY DEF IInv, TypeOK
        <5>2. /\ Turns(t) \in {0, 1}
              /\ Elapsed(t) = IF Turns(t) = 0 THEN xTickCount - e
                              ELSE portMAX_DELAY + 1 + xTickCount - e
              /\ Elapsed(t) \in Nat
          BY <4>1, ElapsedSinceNoted, TimedOutMeansElapsed
        <5>3. /\ Turns(t) = Minus(xNumOfOverflows, o)
              /\ Elapsed(t)' = Minus(xNumOfOverflows', o) * Modulus + xTickCount' - e
          BY <1>1 DEF Turns, Elapsed
        <5>4. CASE xTickCount = portMAX_DELAY
          <6>1. Turns(t) = 0
            BY <4>1, <5>2, <5>4 DEF Timely
          <6>2. Minus(xNumOfOverflows', o) = 1
            <7>1. Minus(xNumOfOverflows, o) = 0 /\ portMAX_DELAY # 0
              BY <5>3, <6>1
            <7>2. Minus(Plus(xNumOfOverflows, 1), o) = Minus(xNumOfOverflows, o) + 1
              BY <1>2, <5>1, <7>1, MinusTick
            <7> QED
              BY <1>1, <5>4, <7>1, <7>2
          <6>3. xTickCount' = 0 /\ 0 \in TickType
            BY <1>1, <5>4 DEF Plus, Modulus, TickType
          <6>4. Elapsed(t)' = portMAX_DELAY + 1 - e
            <7>1. Elapsed(t)' = 1 * Modulus + 0 - e
              BY <5>3, <6>2, <6>3
            <7>2. 1 * Modulus + 0 - e = portMAX_DELAY + 1 + 0 - e
              BY <5>1, <6>3, 1 \in {0, 1}, ElapsedValue
            <7> QED
              BY <5>1, <7>1, <7>2 DEF TickType
          <6> QED
            BY <5>1, <5>2, <5>4, <6>1, <6>4 DEF TickType
        <5>5. CASE xTickCount # portMAX_DELAY
          <6>1. xTickCount' = xTickCount + 1 /\ xTickCount' \in TickType
            BY <1>1, <1>2, <5>5 DEF Plus, Modulus, TickType
          <6>2. Minus(xNumOfOverflows', o) = Turns(t)
            BY <1>1, <5>3, <5>5
          <6>3. Elapsed(t)' = IF Turns(t) = 0 THEN xTickCount' - e
                              ELSE portMAX_DELAY + 1 + xTickCount' - e
            BY <5>1, <5>2, <5>3, <6>1, <6>2, ElapsedValue
          <6> QED
            BY <1>2, <5>1, <5>2, <6>1, <6>3 DEF TickType
        <5> QED
          BY <5>2, <5>4, <5>5
      <4>3. /\ Until[t] = IF Elapsed(t) < xTicksToWait[t] THEN xTicksToWait[t] - Elapsed(t) ELSE 0
            /\ Until'[t] = IF Elapsed(t)' < xTicksToWait[t] THEN xTicksToWait[t] - Elapsed(t)' ELSE 0
        BY <1>1, <4>1 DEF Until
      <4> QED
        BY <4>1, <4>2, <4>3 DEF Delayed!Less, TickType
    <3> QED
      BY <3>1, <3>2
  <2> QED
    BY <2>1 DEF Until
<1>6. Waits' = {t \in Waits : Left[t] # 1}
  <2>1. Waits = onEventList /\ Waits' = onEventList \ Due
    BY <1>1 DEF Waits
  <2>2. ASSUME NEW t \in onEventList PROVE t \in Due <=> Left[t] = 1
    <3>1. t \in Task /\ (t \in Timed \/ t \in xSuspendedTaskList) /\ (t \in Due => t \in Timed)
      BY DEF IInv, TypeOK, SleepInv, Due
    <3> QED
      BY <1>3, <3>1 DEF Left
  <2> QED
    BY <2>1, <2>2
<1>7. Behind' = [t \in Task |-> IF Period[t] > 0 THEN Behind[t] + 1 ELSE 0]
  <2>1. ASSUME NEW t \in Task
        PROVE  Behind'[t] = IF Period[t] > 0 THEN Behind[t] + 1 ELSE 0
    <3>1. CASE Period[t] = 0
      BY <3>1 DEF Behind
    <3>2. CASE Period[t] # 0 /\ t \in Timed
      <4>1. Period[t] > 0 /\ pxPreviousWakeTime[t] = xItemValue[t] /\ xItemValue[t] \in TickType
        BY <3>2 DEF IInv, TypeOK, SleepInv
      <4>2. Behind[t] = -Minus(xItemValue[t], xTickCount)
        BY <3>2 DEF Behind
      <4>3. Behind'[t] = IF t \in Due THEN Minus(xTickCount', xItemValue[t])
                         ELSE -Minus(xItemValue[t], xTickCount')
        BY <1>1, <3>2, <4>1 DEF Behind
      <4>4. t \in Due => Minus(xTickCount', xItemValue[t]) = 0
        BY <1>1, <1>2, <4>1 DEF Due, Minus, TickType
      <4> QED
        BY <1>3, <3>2, <4>1, <4>2, <4>3, <4>4 DEF TickType
    <3>3. CASE Period[t] # 0 /\ t \notin Timed
      <4>1. Period[t] > 0 /\ pxPreviousWakeTime[t] \in TickType
        BY <3>3 DEF IInv, TypeOK
      <4>2. Ready(t)
        BY <3>3, <4>1 DEF IInv, SleepInv, Ready
      <4>3. Minus(xTickCount, pxPreviousWakeTime[t]) + n <= portMAX_DELAY
        BY <4>1, <4>2 DEF Timely
      <4>4. Minus(xTickCount, pxPreviousWakeTime[t]) \in TickType
        BY <1>2, <4>1, TickArithmetic
      <4>5. Minus(xTickCount', pxPreviousWakeTime[t]) = Minus(xTickCount, pxPreviousWakeTime[t]) + 1
        BY <1>1, <1>2, <4>1, <4>3, <4>4, MinusTick DEF TickType
      <4> QED
        BY <1>1, <3>3, <4>1, <4>5 DEF Behind
    <3> QED
      BY <3>1, <3>2, <3>3
  <2> QED
    BY <2>1 DEF Behind
<1> QED
  BY <1>1, <1>4, <1>5, <1>6, <1>7 DEF Delayed!Tick, Waits

(* A wake-up takes the woken tasks off the lists.                          *)
LEMMA WakeMaps ==
    ASSUME IInv, NEW S \in SUBSET Waits,
           Timed' = Timed \ S, xSuspendedTaskList' = xSuspendedTaskList \ S, Waits' = Waits \ S,
           UNCHANGED <<xTickCount, xNumOfOverflows, xItemValue, callVars>>
    PROVE  Delayed!Wake(S)
<1>1. Left' = [t \in Task |-> IF t \in S THEN 0 ELSE Left[t]]
  BY DEF Left
<1>2. Until' = Until
  BY UntilDepends DEF callVars
<1>3. Behind' = Behind
  <2>1. ASSUME NEW t \in Task PROVE Behind'[t] = Behind[t]
    <3>1. CASE t \in S
      <4>1. Period[t] = 0
        BY <3>1 DEF IInv, SleepInv, Waits
      <4> QED
        BY <4>1 DEF Behind
    <3>2. CASE t \notin S
      BY <3>2 DEF Behind, callVars
    <3> QED
      BY <3>1, <3>2
  <2> QED
    BY <2>1 DEF Behind
<1> QED
  BY <1>1, <1>2, <1>3 DEF Delayed!Wake, Waits, callVars

LEMMA ResumeAllMaps == ASSUME IInv, xTaskResumeAll PROVE Delayed!Wake(xPendingReadyList)
<1>1. /\ pxDelayedTaskList' = pxDelayedTaskList \ xPendingReadyList
      /\ pxOverflowDelayedTaskList' = pxOverflowDelayedTaskList \ xPendingReadyList
      /\ xSuspendedTaskList' = xSuspendedTaskList \ xPendingReadyList
      /\ xPendingReadyList' = {}
      /\ UNCHANGED <<xTickCount, xNumOfOverflows, xItemValue, onEventList, callVars>>
  BY DEF xTaskResumeAll
<1>2. Timed' = Timed \ xPendingReadyList
  BY <1>1 DEF Timed
<1>3. xPendingReadyList \subseteq Waits /\ Waits' = Waits \ xPendingReadyList
  BY <1>1 DEF IInv, SleepInv, Waits
<1> QED
  BY <1>1, <1>2, <1>3, WakeMaps

(* An event wakes one task now, or promises to when the scheduler is       *)
(* resumed.                                                                *)
LEMMA EventMaps ==
    ASSUME IInv, NEW t \in Task, Event(t)
    PROVE  Delayed!Wake({t}) \/ UNCHANGED abstractVars
<1>1. /\ t \in onEventList /\ onEventList' = onEventList \ {t}
      /\ UNCHANGED <<clockVars, callVars, xItemValue>>
  BY DEF Event
<1>2. CASE scheduler = "running"
  <2>1. /\ pxDelayedTaskList' = pxDelayedTaskList \ {t}
        /\ pxOverflowDelayedTaskList' = pxOverflowDelayedTaskList \ {t}
        /\ xSuspendedTaskList' = xSuspendedTaskList \ {t}
        /\ UNCHANGED xPendingReadyList
    BY <1>2 DEF Event
  <2>2. Timed' = Timed \ {t}
    BY <2>1 DEF Timed
  <2>3. {t} \subseteq Waits /\ Waits' = Waits \ {t}
    BY <1>1, <1>2, <2>1 DEF IInv, SchedulerInv, Waits
  <2> QED
    BY <1>1, <2>1, <2>2, <2>3, WakeMaps DEF clockVars
<1>3. CASE scheduler # "running"
  <2>1. /\ UNCHANGED <<pxDelayedTaskList, pxOverflowDelayedTaskList, xSuspendedTaskList>>
        /\ xPendingReadyList' = xPendingReadyList \cup {t}
    BY <1>3 DEF Event
  <2>2. Timed' = Timed /\ Waits' = Waits
    BY <1>1, <2>1 DEF Timed, Waits
  <2> QED
    BY <1>1, <2>1, <2>2, LeftDepends, UntilDepends, BehindDepends
    DEF abstractVars, clockVars, callVars
<1> QED
  BY <1>2, <1>3

(* The holder of the scheduler is awake.                                   *)
LEMMA HolderIsAwake ==
    ASSUME IInv, NEW t \in Task, Ready(t) \/ Holds(t)
    PROVE  Left[t] = 0
<1>1. t \notin Timed /\ t \notin xSuspendedTaskList
  BY HolderIsReady DEF Ready
<1> QED
  BY <1>1 DEF Left

LEMMA DelayMaps == ASSUME IInv, NEW t \in Task, vTaskDelay(t) PROVE Delayed!Delay(t)
<1>1. PICK ticks \in Delays : AddCurrentTaskToDelayedList(t, ticks, FALSE)
  BY DEF vTaskDelay
<1>2. ticks \in 1..portMAX_DELAY /\ ticks \in TickType
  BY DEF TickType
<1>3. /\ Holds(t) /\ Period[t] = 0 /\ pc[t] # "loop"
      /\ UNCHANGED <<xTickCount, xNumOfOverflows, xPendedTicks, onEventList, xPendingReadyList,
                     owner, callVars>>
  BY DEF vTaskDelay
<1>4. Ready(t) /\ t \notin Timed /\ t \notin xSuspendedTaskList /\ xTickCount \in TickType
  BY <1>3, HolderIsReady DEF IInv, TypeOK
<1>5. /\ Timed' = Timed \cup {t}
      /\ xSuspendedTaskList' = xSuspendedTaskList
      /\ xItemValue' = [xItemValue EXCEPT ![t] = Plus(xTickCount, ticks)]
  BY <1>1, <1>2, <1>3, <1>4, AddKeepsLists, FALSE \in BOOLEAN DEF IInv
<1>6. /\ xItemValue'[t] = Plus(xTickCount, ticks)
      /\ \A u \in Task \ {t} : xItemValue'[u] = xItemValue[u]
  BY <1>5 DEF IInv, TypeOK
<1>7. Minus(xItemValue'[t], xTickCount') = ticks
  BY <1>2, <1>3, <1>4, <1>6, TickArithmetic
<1>8. Left' = [Left EXCEPT ![t] = ticks]
  <2>1. ASSUME NEW u \in Task PROVE Left'[u] = IF u = t THEN ticks ELSE Left[u]
    BY <1>3, <1>5, <1>6, <1>7 DEF Left
  <2> QED
    BY <2>1 DEF Left
<1>9. Behind' = Behind
  BY <1>3, <1>5, <1>6 DEF Behind, callVars
<1>10. Until' = Until
  BY <1>3, UntilDepends DEF callVars
<1> QED
  BY <1>3, <1>8, <1>9, <1>10, HolderIsAwake DEF Delayed!Delay, Delayed!Idle, Delayed!Trying, callVars

(* A periodic task sleeps for what is left of its period.                  *)
LEMMA DelayUntilMaps == ASSUME IInv, NEW t \in Task, xTaskDelayUntil(t) PROVE Delayed!DelayUntil(t)
<1> DEFINE wake == Plus(pxPreviousWakeTime[t], Period[t])
           past == Minus(xTickCount, pxPreviousWakeTime[t])
<1>1. /\ Holds(t) /\ Period[t] > 0 /\ pc[t] # "loop"
      /\ pxPreviousWakeTime' = [pxPreviousWakeTime EXCEPT ![t] = wake]
      /\ UNCHANGED <<xTickCount, xNumOfOverflows, xPendedTicks, onEventList,
                     xPendingReadyList, owner, pc, xTimeOut, xTicksToWait>>
  BY DEF xTaskDelayUntil
<1>2. /\ Ready(t) /\ t \notin Timed /\ t \notin xSuspendedTaskList
      /\ xTickCount \in TickType /\ pxPreviousWakeTime[t] \in TickType
      /\ Period[t] \in 1..portMAX_DELAY /\ Period[t] \in TickType
  BY <1>1, HolderIsReady DEF IInv, TypeOK, TickType
<1>3. wake \in TickType /\ past \in TickType
  BY <1>2, TickArithmetic
<1>4. /\ ShouldDelay(xTickCount, pxPreviousWakeTime[t], wake) <=> past < Period[t]
      /\ past < Period[t] => Minus(wake, xTickCount) = Period[t] - past
      /\ past >= Period[t] => Minus(xTickCount, wake) = past - Period[t]
  BY <1>2, ShouldDelayMeansEarly
<1>5. Behind[t] = past
  BY <1>1, <1>2 DEF Behind
<1>6. /\ pxPreviousWakeTime'[t] = wake
      /\ \A u \in Task \ {t} : pxPreviousWakeTime'[u] = pxPreviousWakeTime[u]
  BY <1>1 DEF IInv, TypeOK
<1>7. /\ xSuspendedTaskList' = xSuspendedTaskList
      /\ Timed' = IF past < Period[t] THEN Timed \cup {t} ELSE Timed
      /\ past < Period[t] => xItemValue'[t] = wake
      /\ \A u \in Task \ {t} : xItemValue'[u] = xItemValue[u]
  <2>1. CASE past < Period[t]
    <3> DEFINE ticks == Minus(wake, xTickCount)
    <3>1. AddCurrentTaskToDelayedList(t, ticks, FALSE)
      BY <1>4, <2>1 DEF xTaskDelayUntil
    <3>2. ticks \in 1..portMAX_DELAY
      BY <1>2, <1>3, <1>4, <2>1 DEF TickType
    <3>3. Plus(xTickCount, ticks) = wake
      BY <1>2, <1>3, TickArithmetic
    <3> HIDE DEF ticks
    <3>4. /\ Timed' = Timed \cup {t}
          /\ xSuspendedTaskList' = xSuspendedTaskList
          /\ xItemValue' = [xItemValue EXCEPT ![t] = Plus(xTickCount, ticks)]
      BY <1>1, <1>2, <3>1, <3>2, AddKeepsLists, FALSE \in BOOLEAN DEF IInv
    <3> QED
      BY <2>1, <3>3, <3>4 DEF IInv, TypeOK
  <2>2. CASE ~(past < Period[t])
    BY <1>4, <2>2 DEF xTaskDelayUntil, Timed
  <2> QED
    BY <2>1, <2>2
<1>8. Left' = [Left EXCEPT ![t] = IF past < Period[t] THEN Period[t] - past ELSE 0]
  <2>1. ASSUME NEW u \in Task
        PROVE  Left'[u] = IF u = t THEN (IF past < Period[t] THEN Period[t] - past ELSE 0) ELSE Left[u]
    <3>1. CASE u = t
      BY <1>1, <1>2, <1>4, <1>7, <3>1 DEF Left
    <3>2. CASE u # t
      BY <1>1, <1>7, <3>2 DEF Left
    <3> QED
      BY <3>1, <3>2
  <2> QED
    BY <2>1 DEF Left
<1>9. Behind' = [Behind EXCEPT ![t] = past - Period[t]]
  <2>1. Behind'[t] = past - Period[t]
    <3>1. CASE past < Period[t]
      <4>1. Behind'[t] = -Minus(wake, xTickCount)
        BY <1>1, <1>7, <3>1 DEF Behind
      <4> QED
        BY <1>2, <1>3, <1>4, <3>1, <4>1 DEF TickType
    <3>2. CASE ~(past < Period[t])
      <4>1. Behind'[t] = Minus(xTickCount, wake)
        BY <1>1, <1>2, <1>6, <1>7, <3>2 DEF Behind
      <4>2. past >= Period[t]
        BY <1>2, <1>3, <3>2 DEF TickType
      <4> QED
        BY <1>4, <4>1, <4>2
    <3> QED
      BY <3>1, <3>2
  <2>2. ASSUME NEW u \in Task, u # t PROVE Behind'[u] = Behind[u]
    BY <1>1, <1>6, <1>7, <2>2 DEF Behind
  <2> QED
    BY <2>1, <2>2 DEF Behind
<1>10. Until' = Until
  BY <1>1, UntilDepends
<1> QED
  BY <1>1, <1>5, <1>8, <1>9, <1>10, HolderIsAwake DEF Delayed!DelayUntil, Delayed!Idle, Delayed!Trying

(* What a wait has left to wait for is counted from its last check.        *)
LEMMA UntilNow ==
    ASSUME IInv, NEW t \in Task, UNCHANGED <<xTickCount, xNumOfOverflows>>, xTimeOut'[t] = Now
    PROVE  Elapsed(t)' = 0
<1>1. xTickCount \in TickType /\ xNumOfOverflows \in TickType
  BY DEF IInv, TypeOK
<1>2. Elapsed(t)' = Minus(xNumOfOverflows, xNumOfOverflows) * Modulus + xTickCount - xTickCount
  BY DEF Elapsed, Turns, Now
<1>3. Minus(xNumOfOverflows, xNumOfOverflows) = 0
  BY <1>1 DEF Minus, TickType
<1> QED
  BY <1>1, <1>2, <1>3, ElapsedValue DEF TickType

(* The time-outs of other tasks are not touched.                           *)
LEMMA OthersWait ==
    ASSUME NEW t \in Task, OthersKeep(t), UNCHANGED <<xTickCount, xNumOfOverflows>>,
           NEW u \in Task \ {t}
    PROVE  Until'[u] = Until[u]
BY DEF OthersKeep, Until, Elapsed, Turns

LEMMA BeginMaps == ASSUME IInv, NEW t \in Task, StartWaiting(t) PROVE Delayed!Begin(t)
<1>1. PICK ticks \in BlockTimes \cup {portMAX_DELAY} :
          xTicksToWait' = [xTicksToWait EXCEPT ![t] = ticks]
  BY DEF StartWaiting
<1>2. /\ Ready(t) /\ pc[t] # "loop" /\ Period[t] = 0
      /\ xTimeOut' = [xTimeOut EXCEPT ![t] = Now]
      /\ pc' = [pc EXCEPT ![t] = "loop"]
      /\ UNCHANGED <<clockVars, listVars, lockVars, pxPreviousWakeTime>>
  BY DEF StartWaiting
<1>3. OthersKeep(t) /\ xTimeOut'[t] = Now /\ pc'[t] = "loop" /\ xTicksToWait'[t] = ticks
  BY <1>1, <1>2 DEF IInv, TypeOK, OthersKeep
<1> DEFINE n == IF ticks = portMAX_DELAY THEN Delayed!Forever ELSE ticks
<1>4. n \in BlockTimes \cup {Delayed!Forever} /\ ticks \in 1..portMAX_DELAY
  OBVIOUS
<1>5. Until'[t] = n
  BY <1>2, <1>3, <1>4, UntilNow DEF Until, Delayed!Forever, clockVars
<1>6. \A u \in Task \ {t} : Until'[u] = Until[u]
  BY <1>2, <1>3, OthersWait DEF clockVars
<1>7. Until' = [Until EXCEPT ![t] = n]
  BY <1>5, <1>6 DEF Until
<1>8. UNCHANGED <<Left, Behind, Waits>>
  BY <1>2, LeftDepends, BehindDepends DEF Timed, Waits, clockVars, listVars
<1> QED
  BY <1>2, <1>4, <1>7, <1>8, HolderIsAwake DEF Delayed!Begin, Delayed!Idle, Delayed!Trying, Waits

LEMMA ReturnMaps ==
    ASSUME IInv, NEW t \in Task, NEW result \in {"app", "failed"}, pc[t] = "loop",
           Return(t, result), UNCHANGED <<clockVars, listVars>>
    PROVE  /\ pc' = [pc EXCEPT ![t] = result]
           /\ Until' = [Until EXCEPT ![t] = 0]
           /\ UNCHANGED <<Left, Behind, Waits>>
<1>1. /\ pc' = [pc EXCEPT ![t] = result]
      /\ xTimeOut' = [xTimeOut EXCEPT ![t] = NoTimeOut]
      /\ xTicksToWait' = [xTicksToWait EXCEPT ![t] = 0]
      /\ UNCHANGED <<clockVars, listVars, pxPreviousWakeTime>>
  BY DEF Return
<1>2. OthersKeep(t) /\ pc'[t] # "loop"
  BY <1>1 DEF IInv, TypeOK, OthersKeep
<1>3. Until' = [Until EXCEPT ![t] = 0]
  <2>1. Until'[t] = 0
    BY <1>2 DEF Until
  <2>2. \A u \in Task \ {t} : Until'[u] = Until[u]
    BY <1>1, <1>2, OthersWait DEF clockVars
  <2> QED
    BY <2>1, <2>2 DEF Until
<1>4. UNCHANGED <<Left, Behind, Waits>>
  BY <1>1, LeftDepends, BehindDepends DEF Timed, Waits, clockVars, listVars
<1> QED
  BY <1>1, <1>3, <1>4

LEMMA SucceedMaps == ASSUME IInv, NEW t \in Task, Succeed(t) PROVE Delayed!Succeed(t)
<1>1. /\ Ready(t) /\ pc[t] = "loop" /\ Return(t, "app") /\ UNCHANGED <<clockVars, listVars>>
  BY DEF Succeed
<1>2. /\ pc' = [pc EXCEPT ![t] = "app"]
      /\ Until' = [Until EXCEPT ![t] = 0]
      /\ UNCHANGED <<Left, Behind, Waits>>
  BY <1>1, ReturnMaps
<1> QED
  BY <1>1, <1>2, HolderIsAwake DEF Delayed!Succeed, Delayed!Trying, Waits

(* No wait times out before its time.                                      *)
LEMMA TimeOutMaps ==
    ASSUME IInv, MaxTurns = 1, NEW t \in Task, TimesOut(t)
    PROVE  Delayed!TimeOut(t)
<1>1. /\ Holds(t) /\ pc[t] = "loop" /\ TimedOut(t)
      /\ Return(t, "failed") /\ UNCHANGED <<clockVars, listVars>>
  BY DEF TimesOut
<1>2. /\ pc' = [pc EXCEPT ![t] = "failed"]
      /\ Until' = [Until EXCEPT ![t] = 0]
      /\ UNCHANGED <<Left, Behind, Waits>>
  BY <1>1, ReturnMaps
<1>3. Until[t] = 0
  <2>1. xTicksToWait[t] # portMAX_DELAY /\ xTicksToWait[t] \in TickType
    BY <1>1 DEF TimedOut, IInv, TypeOK
  <2>2. Elapsed(t) \in Nat /\ Elapsed(t) >= xTicksToWait[t]
    BY <1>1, <2>1, TimedOutMeansElapsed
  <2> QED
    BY <1>1, <2>1, <2>2 DEF Until, TickType
<1>4. Until' = Until
  BY <1>2, <1>3 DEF Until
<1> QED
  BY <1>1, <1>2, <1>3, <1>4, HolderIsAwake DEF Delayed!TimeOut, Delayed!Trying, Waits

(* Re-arming a time-out does not move it.                                  *)
LEMMA RearmMaps ==
    ASSUME IInv, MaxTurns = 1, NEW t \in Task, Rearm(t), pc[t] = "loop",
           UNCHANGED <<pc, pxPreviousWakeTime, xTickCount, xNumOfOverflows>>
    PROVE  /\ Until' = Until
           /\ Until[t] = IF Remaining(t) = portMAX_DELAY THEN -1 ELSE Remaining(t)
<1>1. /\ OthersKeep(t)
      /\ xTicksToWait'[t] = Remaining(t)
      /\ xTicksToWait'[t] = portMAX_DELAY \/ xTimeOut'[t] = Now
      /\ ~TimedOut(t)
  BY RearmKeeps DEF Rearm
<1>2. /\ Remaining(t) \in 1..portMAX_DELAY
      /\ xTicksToWait[t] # portMAX_DELAY => Remaining(t) # portMAX_DELAY
      /\ xTicksToWait[t] \in TickType
  BY <1>1, RemainingInRange DEF IInv, TypeOK
<1>3. Until[t] = IF Remaining(t) = portMAX_DELAY THEN -1 ELSE Remaining(t)
  <2>1. CASE xTicksToWait[t] = portMAX_DELAY
    BY <2>1 DEF Until, Remaining
  <2>2. CASE xTicksToWait[t] # portMAX_DELAY
    <3>1. /\ Elapsed(t) \in Nat /\ ~(Elapsed(t) >= xTicksToWait[t])
          /\ Remaining(t) = xTicksToWait[t] - Elapsed(t)
      BY <1>1, <2>2, TimedOutMeansElapsed DEF Remaining
    <3> QED
      BY <1>2, <2>2, <3>1 DEF Until, TickType
  <2> QED
    BY <2>1, <2>2
<1>4. Until'[t] = IF Remaining(t) = portMAX_DELAY THEN -1 ELSE Remaining(t)
  BY <1>1, <1>2, UntilNow DEF Until
<1>5. \A u \in Task \ {t} : Until'[u] = Until[u]
  BY <1>1, OthersWait
<1>6. Until' = Until
  BY <1>3, <1>4, <1>5 DEF Until
<1> QED
  BY <1>3, <1>6

LEMMA PlaceMaps ==
    ASSUME IInv, MaxTurns = 1, NEW t \in Task, PlaceOnEventList(t)
    PROVE  Delayed!Block(t)
<1>1. /\ Holds(t) /\ pc[t] = "loop" /\ Rearm(t) /\ ~TimedOut(t)
      /\ AddCurrentTaskToDelayedList(t, Remaining(t), TRUE)
      /\ onEventList' = onEventList \cup {t}
      /\ UNCHANGED <<xTickCount, xNumOfOverflows, xPendedTicks, xPendingReadyList, owner, pc,
                     pxPreviousWakeTime>>
  BY DEF PlaceOnEventList, Rearm
<1>2. /\ Ready(t) /\ t \notin Timed /\ t \notin xSuspendedTaskList
      /\ xTickCount \in TickType
  BY <1>1, HolderIsReady DEF IInv, TypeOK
<1>3. Remaining(t) \in 1..portMAX_DELAY /\ Remaining(t) \in TickType
  BY <1>1, RemainingInRange DEF TickType
<1>4. /\ Until' = Until
      /\ Until[t] = IF Remaining(t) = portMAX_DELAY THEN -1 ELSE Remaining(t)
  BY <1>1, RearmMaps
<1>5. Period[t] = 0
  BY <1>1, RearmKeeps
<1>6. IF Remaining(t) = portMAX_DELAY
      THEN /\ xSuspendedTaskList' = xSuspendedTaskList \cup {t}
           /\ Timed' = Timed
           /\ xItemValue' = xItemValue
      ELSE /\ Timed' = Timed \cup {t}
           /\ xSuspendedTaskList' = xSuspendedTaskList
           /\ xItemValue' = [xItemValue EXCEPT ![t] = Plus(xTickCount, Remaining(t))]
  BY <1>1, <1>2, <1>3, AddKeepsLists, TRUE \in BOOLEAN DEF IInv
<1>7. \A u \in Task \ {t} : xItemValue'[u] = xItemValue[u]
  BY <1>6 DEF IInv, TypeOK
<1>8. Left'[t] = Until[t]
  <2>1. CASE Remaining(t) = portMAX_DELAY
    BY <1>2, <1>4, <1>6, <2>1 DEF Left
  <2>2. CASE Remaining(t) # portMAX_DELAY
    <3>1. xItemValue'[t] = Plus(xTickCount, Remaining(t)) /\ t \in Timed'
      BY <1>6, <2>2 DEF IInv, TypeOK
    <3>2. Minus(Plus(xTickCount, Remaining(t)), xTickCount) = Remaining(t)
      BY <1>2, <1>3, TickArithmetic
    <3> QED
      BY <1>1, <1>4, <2>2, <3>1, <3>2 DEF Left
  <2> QED
    BY <2>1, <2>2
<1>9. Left' = [Left EXCEPT ![t] = Until[t]]
  <2>1. ASSUME NEW u \in Task, u # t PROVE Left'[u] = Left[u]
    BY <1>1, <1>6, <1>7, <2>1 DEF Left
  <2> QED
    BY <1>8, <2>1 DEF Left
<1>10. Behind' = Behind
  <2>1. ASSUME NEW u \in Task PROVE Behind'[u] = Behind[u]
    BY <1>1, <1>5, <1>6, <1>7, <2>1 DEF Behind
  <2> QED
    BY <2>1 DEF Behind
<1>11. Waits' = Waits \cup {t}
  BY <1>1 DEF Waits
<1>12. Until[t] # 0
  BY <1>3, <1>4
<1> QED
  BY <1>1, <1>4, <1>9, <1>10, <1>11, <1>12, HolderIsAwake DEF Delayed!Block, Delayed!Idle, Delayed!Trying, Waits

(* What only locks, pends or re-arms is not seen.                          *)
LEMMA Stutters ==
    ASSUME IInv, MaxTurns = 1,
           \/ TickPended
           \/ \E t \in Task : vTaskSuspendAll(t) \/ Done(t) \/ EventFound(t)
           \/ UNCHANGED vars
    PROVE  UNCHANGED abstractVars
<1>1. UNCHANGED <<xTickCount, xNumOfOverflows, listVars, pc, pxPreviousWakeTime>>
  BY DEF TickPended, vTaskSuspendAll, Done, EventFound, vars, clockVars, callVars
<1>2. UNCHANGED <<Left, Behind, Waits>>
  BY <1>1, LeftDepends, BehindDepends DEF Timed, Waits, listVars
<1>3. Until' = Until
  <2>1. ASSUME NEW t \in Task, EventFound(t) PROVE Until' = Until
    BY <1>1, <2>1, RearmMaps DEF EventFound
  <2>2. CASE UNCHANGED callVars
    BY <1>1, <2>2, UntilDepends DEF callVars
  <2> QED
    BY <2>1, <2>2 DEF TickPended, vTaskSuspendAll, Done, vars
<1> QED
  BY <1>1, <1>2, <1>3 DEF abstractVars

LEMMA NextMaps ==
    ASSUME IInv, IInv', MaxTurns = 1, [Next]_vars
    PROVE  Delayed!Next \/ UNCHANGED abstractVars
<1>1. ASSUME Tick PROVE Delayed!Tick
  <2>1. /\ IncrementTick /\ Timely(1) /\ UNCHANGED callVars
        /\ xPendingReadyList = {} /\ 1 \in 1..portMAX_DELAY
    BY <1>1 DEF Tick, IInv, SchedulerInv
  <2> QED
    BY <2>1, TickMaps
<1>2. ASSUME UnwindTick PROVE Delayed!Tick
  <2>1. /\ IncrementTick /\ Timely(xPendedTicks) /\ UNCHANGED callVars
        /\ xPendingReadyList = {} /\ xPendedTicks \in 1..portMAX_DELAY
    BY <1>2 DEF UnwindTick, IInv, SchedulerInv, ClockInv, TypeOK
  <2>2. PICK n \in 1..portMAX_DELAY : n = xPendedTicks
    BY <2>1
  <2> QED
    BY <2>1, <2>2, TickMaps
<1>3. ASSUME xTaskResumeAll PROVE \E S \in SUBSET Waits : Delayed!Wake(S)
  BY <1>3, ResumeAllMaps DEF Waits
<1>4. ASSUME NEW t \in Task, Event(t)
      PROVE  (\E S \in SUBSET Waits : Delayed!Wake(S)) \/ UNCHANGED abstractVars
  <2>1. {t} \in SUBSET Waits
    BY <1>4 DEF Event, Waits
  <2> QED
    BY <1>4, <2>1, EventMaps
<1>5. ASSUME NEW t \in Task, \/ vTaskDelay(t) \/ xTaskDelayUntil(t) \/ StartWaiting(t)
                            \/ Succeed(t) \/ TimesOut(t) \/ PlaceOnEventList(t)
      PROVE  \/ Delayed!Delay(t) \/ Delayed!DelayUntil(t) \/ Delayed!Begin(t)
             \/ Delayed!Block(t) \/ Delayed!TimeOut(t) \/ Delayed!Succeed(t)
  BY <1>5, DelayMaps, DelayUntilMaps, BeginMaps, SucceedMaps, TimeOutMaps, PlaceMaps
<1>6. CASE \/ TickPended
           \/ \E t \in Task : vTaskSuspendAll(t) \/ Done(t) \/ EventFound(t)
           \/ UNCHANGED vars
  BY <1>6, Stutters
<1> QED
  BY <1>1, <1>2, <1>3, <1>4, <1>5, <1>6 DEF Next, Delayed!Next, Waits

(* The kernel keeps time as DelaySpec counts it: for every width of the    *)
(* counter, delays last as long as asked, waits time out exactly when      *)
(* their ticks are used up and periods do not drift.                       *)
THEOREM RefinesDelay == ASSUME MaxTurns = 1 PROVE Spec => KeepsTime
<1>1. IInv /\ IInv' /\ [Next]_vars => [Delayed!Next]_abstractVars
  BY NextMaps
<1>2. [Delayed!Next]_abstractVars <=> [Delayed!Next]_(Delayed!vars)
  BY DEF abstractVars, Delayed!vars, Waits
<1> QED
  BY <1>1, <1>2, InitMaps, Invariance, PTL DEF Spec, KeepsTime, Delayed!Spec
=============================================================================
