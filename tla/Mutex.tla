------------------------------- MODULE Mutex -------------------------------
(***************************************************************************)
(* Mutexes of FreeRTOS_Source/queue.c (xQueueSemaphoreTake, the give of    *)
(* xQueueGenericSend, the recursive forms) and the priority inheritance of *)
(* FreeRTOS_Source/tasks.c with its bitmap of ready priorities, on top of  *)
(* the scheduler of Sched.                                                 *)
(*                                                                         *)
(* Mutexes are not used by interrupt handlers, so while a task keeps the   *)
(* scheduler suspended nobody else touches the mutex or the queue lock:    *)
(* what a take does under vTaskSuspendAll is one step here, and a tick     *)
(* pended meanwhile is a tick right after it.  (The protocol of the queue  *)
(* lock is the subject of Queue.)  Base priorities do not change.          *)
(***************************************************************************)
EXTENDS Sched

CONSTANTS
    Mutex,              \* the mutexes, which are also the names of their event lists
    Recursive,          \* those created by xSemaphoreCreateRecursiveMutex
    NoTask,             \* NULL
    Waits,              \* the block times used: "zero", "ticks" (finite), "max"
    WaitsWhileHolding,  \* the application waits for a mutex while it holds another
    MaxRecursion        \* bound on uxRecursiveCallCount

ASSUME MutexAssumption ==
    /\ IsFiniteSet(Mutex)
    /\ EventLists = Mutex
    /\ Recursive \subseteq Mutex
    /\ NoTask \notin Task
    /\ Waits \subseteq {"zero", "ticks", "max"}
    /\ WaitsWhileHolding \in BOOLEAN
    /\ MaxRecursion \in Nat \ {0}

VARIABLES
    xMutexHolder,          \* NoTask when the mutex is available
    uxRecursiveCallCount,
    uxMutexesHeld,
    uxTopReadyPriority,    \* the priorities whose bit is set
    pc,                    \* where each task is, "app" outside the mutex API
    op,                    \* the mutex it is taking
    xTicksToWait,          \* what is left of its block time
    xInheritanceOccurred

mutexVars == <<xMutexHolder, uxRecursiveCallCount, uxMutexesHeld>>
callVars == <<pc, op, xTicksToWait, xInheritanceOccurred>>
vars == <<schedVars, uxTopReadyPriority, mutexVars, callVars>>

(* What no step of this module changes: the scheduler is suspended only    *)
(* within steps.                                                           *)
neverSuspended == <<xPendingReadyList, uxSchedulerSuspended, ticksPended>>

ReadyAt(p) == {t \in Ready : uxPriority[t] = p}
BitsOf == {uxPriority[t] : t \in Ready}

TypeOK ==
    /\ SchedTypeOK
    /\ xMutexHolder \in [Mutex -> Task \cup {NoTask}]
    /\ uxRecursiveCallCount \in [Mutex -> 0..MaxRecursion]
    /\ uxMutexesHeld \in [Task -> 0..Cardinality(Mutex)]
    /\ uxTopReadyPriority \in SUBSET (0..MaxPriorities - 1)
    /\ pc \in [Task -> {"app", "delay", "enter", "suspend", "retest", "disinherit"}]
    /\ op \in [Task -> Mutex \cup {"none"}]
    /\ xTicksToWait \in [Task -> {"zero", "ticks", "max"}]
    /\ xInheritanceOccurred \in [Task -> BOOLEAN]

Init ==
    /\ SchedInit
    /\ uxTopReadyPriority = BitsOf
    /\ xMutexHolder = [m \in Mutex |-> NoTask]
    /\ uxRecursiveCallCount = [m \in Mutex |-> 0]
    /\ uxMutexesHeld = [t \in Task |-> 0]
    /\ pc = [t \in Task |-> "app"]
    /\ op = [t \in Task |-> "none"]
    /\ xTicksToWait = [t \in Task |-> "zero"]
    /\ xInheritanceOccurred = [t \in Task |-> FALSE]

-----------------------------------------------------------------------------
(* The bitmap.                                                             *)

(* Mutant of RecordAndReset: a bit is never cleared.                       *)
RecordOnly == uxTopReadyPriority' = uxTopReadyPriority \cup BitsOf'

(* Tasks enter and leave ready lists: taskRECORD_READY_PRIORITY sets the   *)
(* bit of a list that gains a task, portRESET_READY_PRIORITY clears that   *)
(* of a list that has lost its last one.  Constrains uxTopReadyPriority,   *)
(* by the ready lists before and after the step.                           *)
RecordAndReset ==
    uxTopReadyPriority' =
        {p \in 0..MaxPriorities - 1 :
            \/ ReadyAt(p)' \ ReadyAt(p) # {}
            \/ p \in uxTopReadyPriority /\ (ReadyAt(p) # {} => ReadyAt(p) \cap ReadyAt(p)' # {})}

(* The highest bit that is set.                                            *)
TopReady == CHOOSE p \in uxTopReadyPriority : \A q \in uxTopReadyPriority : q <= p

(* taskSELECT_HIGHEST_PRIORITY_TASK: the configASSERT that the list is not *)
(* empty stops the system if it fails.                                     *)
PendSV ==
    /\ pendSV
    /\ pendSV' = FALSE
    /\ xYieldPending' = FALSE
    /\ pxCurrentTCB' \in ReadyAt(TopReady)
    /\ UNCHANGED <<neverSuspended, uxPriority, xStateListItem, eventList, deadline,
                   uxTopReadyPriority, mutexVars, callVars>>

SysTick ==
    /\ \E X \in SUBSET Armed : xTaskIncrementTick(X)
    /\ UNCHANGED <<pxCurrentTCB, uxPriority, xPendingReadyList, uxSchedulerSuspended,
                   xYieldPending, mutexVars, callVars>>
    /\ RecordAndReset

-----------------------------------------------------------------------------
(* Priority inheritance.  Each constrains uxPriority; the event list item  *)
(* takes the new value where it is, the state list item moves to the ready *)
(* list of the new priority.                                               *)

xTaskPriorityInherit(h) ==
    uxPriority' = [uxPriority EXCEPT ![h] =
        IF @ < uxPriority[pxCurrentTCB] THEN uxPriority[pxCurrentTCB] ELSE @]

(* Its result: the holder runs above its base priority, now or already.    *)
Inherits(h) ==
    \/ uxPriority[h] < uxPriority[pxCurrentTCB]
    \/ BasePriority[h] < uxPriority[pxCurrentTCB]

(* Mutant of Disinherits: the count is tested before it is decremented.    *)
DisinheritsTooLate(h) == uxPriority[h] # BasePriority[h] /\ uxMutexesHeld[h] = 0

(* h gives back a mutex: it falls to its base priority with the last one.  *)
Disinherits(h) == uxPriority[h] # BasePriority[h] /\ uxMutexesHeld[h] = 1

xTaskPriorityDisinherit(h) ==
    /\ uxMutexesHeld' = [uxMutexesHeld EXCEPT ![h] = @ - 1]
    /\ uxPriority' = [uxPriority EXCEPT ![h] = IF Disinherits(h) THEN BasePriority[h] ELSE @]

(* Mutants of DisinheritPriority: the other waiters are forgotten; the     *)
(* list is not tested for being empty, and its head has the value 0.       *)
IdlePriority(m) == 0
UncheckedHead(m) ==
    IF eventList[m] = <<>> THEN MaxPriorities ELSE uxPriority[Head(eventList[m])]

(* prvGetDisinheritPriorityAfterTimeout: that of the head of the list.     *)
DisinheritPriority(m) ==
    IF eventList[m] = <<>> THEN 0 ELSE uxPriority[Head(eventList[m])]

(* The greater of that and the holder's base priority.                     *)
PriorityToUse(m, h) ==
    IF BasePriority[h] < DisinheritPriority(m) THEN DisinheritPriority(m) ELSE BasePriority[h]

-----------------------------------------------------------------------------
(* The application.                                                        *)

At(t, label) == Running(t) /\ pc[t] = label
GoTo(t, label) == pc' = [pc EXCEPT ![t] = label]

(* Constrains callVars and deadline.                                       *)
Return(t) ==
    /\ GoTo(t, "app")
    /\ op' = [op EXCEPT ![t] = "none"]
    /\ xTicksToWait' = [xTicksToWait EXCEPT ![t] = "zero"]
    /\ xInheritanceOccurred' = [xInheritanceOccurred EXCEPT ![t] = FALSE]
    /\ deadline' = [deadline EXCEPT ![t] = "none"]

HoldsNone(t) == \A m \in Mutex : xMutexHolder[m] # t

(* The call of xQueueSemaphoreTake.                                        *)
TakeMutex(t, m) ==
    /\ At(t, "app")
    /\ t # Idle
    /\ m \in Recursive => xMutexHolder[m] # t
    /\ \E w \in Waits :
           /\ HoldsNone(t) \/ WaitsWhileHolding \/ w = "zero"
           /\ xTicksToWait' = [xTicksToWait EXCEPT ![t] = w]
    /\ op' = [op EXCEPT ![t] = m]
    /\ GoTo(t, "enter")
    /\ UNCHANGED <<schedVars, uxTopReadyPriority, mutexVars, xInheritanceOccurred>>

(* xQueueTakeMutexRecursive by the holder.                                 *)
TakeAgain(t, m) ==
    /\ At(t, "app")
    /\ m \in Recursive
    /\ xMutexHolder[m] = t
    /\ uxRecursiveCallCount[m] < MaxRecursion
    /\ uxRecursiveCallCount' = [uxRecursiveCallCount EXCEPT ![m] = @ + 1]
    /\ UNCHANGED <<schedVars, uxTopReadyPriority, xMutexHolder, uxMutexesHeld, callVars>>

(* xQueueGiveMutexRecursive, not yet the last.                             *)
GiveAgain(t, m) ==
    /\ At(t, "app")
    /\ m \in Recursive
    /\ xMutexHolder[m] = t
    /\ uxRecursiveCallCount[m] > 1
    /\ uxRecursiveCallCount' = [uxRecursiveCallCount EXCEPT ![m] = @ - 1]
    /\ UNCHANGED <<schedVars, uxTopReadyPriority, xMutexHolder, uxMutexesHeld, callVars>>

(* Mutant of WakeHead: the yield for the priority given back comes first.  *)
YieldFirst(t, m) ==
    IF Disinherits(t) \/ eventList[m] = <<>>
    THEN pendSV' = Disinherits(t) /\ UNCHANGED <<eventList, xStateListItem, xYieldPending>>
    ELSE /\ eventList' = [eventList EXCEPT ![m] = Tail(@)]
         /\ xStateListItem' = [xStateListItem EXCEPT ![Head(eventList[m])] = "ready"]
         /\ UNCHANGED <<pendSV, xYieldPending>>

(* The end of xQueueGenericSend, after t has disinherited: a list that is  *)
(* not empty decides alone whether to yield.  Constrains eventList,        *)
(* xStateListItem, pendSV and xYieldPending.                               *)
WakeHead(t, m) ==
    IF eventList[m] # <<>>
    THEN LET head == Head(eventList[m])
         IN  /\ eventList' = [eventList EXCEPT ![m] = Tail(@)]
             /\ xStateListItem' = [xStateListItem EXCEPT ![head] = "ready"]
             /\ pendSV' = (uxPriority[head] > uxPriority'[t])
             /\ xYieldPending' = (xYieldPending \/ uxPriority[head] > uxPriority'[t])
    ELSE /\ pendSV' = Disinherits(t)
         /\ UNCHANGED <<eventList, xStateListItem, xYieldPending>>

(* xQueueGenericSend by the holder: disinherit, then wake the head of the  *)
(* list.                                                                   *)
GiveMutex(t, m) ==
    /\ At(t, "app")
    /\ xMutexHolder[m] = t
    /\ uxRecursiveCallCount[m] <= 1
    /\ uxRecursiveCallCount' = [uxRecursiveCallCount EXCEPT ![m] = 0]
    /\ xMutexHolder' = [xMutexHolder EXCEPT ![m] = NoTask]
    /\ xTaskPriorityDisinherit(t)
    /\ WakeHead(t, m)
    /\ UNCHANGED <<neverSuspended, pxCurrentTCB, deadline, callVars>>
    /\ RecordAndReset

(* vTaskDelay, and its return.                                             *)
vTaskDelay(t) ==
    /\ At(t, "app")
    /\ t # Idle
    /\ GoTo(t, "delay")
    /\ deadline' = [deadline EXCEPT ![t] = "armed"]
    /\ xStateListItem' = [xStateListItem EXCEPT ![t] = "delayed"]
    /\ pendSV' = TRUE
    /\ UNCHANGED <<neverSuspended, pxCurrentTCB, uxPriority, eventList, xYieldPending,
                   mutexVars, op, xTicksToWait, xInheritanceOccurred>>
    /\ RecordAndReset

Delayed(t) ==
    /\ At(t, "delay")
    /\ Return(t)
    /\ UNCHANGED <<neverSuspended, pxCurrentTCB, uxPriority, xStateListItem, eventList,
                   xYieldPending, pendSV, uxTopReadyPriority, mutexVars>>

-----------------------------------------------------------------------------
(* xQueueSemaphoreTake.                                                    *)

Available(m) == xMutexHolder[m] = NoTask

(* The first critical section: take the mutex, give up, or prepare to      *)
(* wait.                                                                   *)
Acquire(t) ==
    /\ At(t, "enter")
    /\ Available(op[t])
    /\ xMutexHolder' = [xMutexHolder EXCEPT ![op[t]] = t]
    /\ uxMutexesHeld' = [uxMutexesHeld EXCEPT ![t] = @ + 1]
    /\ uxRecursiveCallCount' = [uxRecursiveCallCount EXCEPT ![op[t]] =
                                    IF op[t] \in Recursive THEN 1 ELSE 0]
    /\ Return(t)
    /\ UNCHANGED <<neverSuspended, pxCurrentTCB, uxPriority, xStateListItem, eventList,
                   xYieldPending, pendSV, uxTopReadyPriority>>

GiveUp(t) ==
    /\ At(t, "enter")
    /\ ~Available(op[t])
    /\ xTicksToWait[t] = "zero"
    /\ Return(t)
    /\ UNCHANGED <<neverSuspended, pxCurrentTCB, uxPriority, xStateListItem, eventList,
                   xYieldPending, pendSV, uxTopReadyPriority, mutexVars>>

StartWaiting(t) ==
    /\ At(t, "enter")
    /\ ~Available(op[t])
    /\ xTicksToWait[t] # "zero"
    /\ deadline' = [deadline EXCEPT ![t] =
           IF @ = "none" /\ xTicksToWait[t] = "ticks" THEN "armed" ELSE @]
    /\ GoTo(t, "suspend")
    /\ UNCHANGED <<neverSuspended, pxCurrentTCB, uxPriority, xStateListItem, eventList,
                   xYieldPending, pendSV, uxTopReadyPriority, mutexVars, op, xTicksToWait,
                   xInheritanceOccurred>>

(* With the scheduler suspended: the wait has timed out; or the mutex is   *)
(* available now; or its holder inherits and the task waits.               *)
TimedOut(t) ==
    /\ At(t, "suspend")
    /\ deadline[t] = "expired"
    /\ deadline' = [deadline EXCEPT ![t] = "none"]
    /\ xTicksToWait' = [xTicksToWait EXCEPT ![t] = "zero"]
    /\ GoTo(t, "retest")
    /\ UNCHANGED <<neverSuspended, pxCurrentTCB, uxPriority, xStateListItem, eventList,
                   xYieldPending, pendSV, uxTopReadyPriority, mutexVars, op,
                   xInheritanceOccurred>>

TryAgain(t) ==
    /\ At(t, "suspend")
    /\ deadline[t] # "expired"
    /\ Available(op[t])
    /\ GoTo(t, "enter")
    /\ UNCHANGED <<schedVars, uxTopReadyPriority, mutexVars, op, xTicksToWait,
                   xInheritanceOccurred>>

Wait(t) ==
    /\ At(t, "suspend")
    /\ deadline[t] # "expired"
    /\ ~Available(op[t])
    /\ xTaskPriorityInherit(xMutexHolder[op[t]])
    /\ xInheritanceOccurred' = [xInheritanceOccurred EXCEPT ![t] = Inherits(xMutexHolder[op[t]])]
    /\ vTaskPlaceOnEventList(op[t], xTicksToWait[t] = "max")
    /\ pendSV' = TRUE
    /\ GoTo(t, "enter")
    /\ UNCHANGED <<neverSuspended, pxCurrentTCB, xYieldPending, deadline, mutexVars, op,
                   xTicksToWait>>
    /\ RecordAndReset

(* After the time-out prvIsQueueEmpty, and then, in another critical       *)
(* section, the holder of that moment disinherits.                         *)
Retest(t) ==
    /\ At(t, "retest")
    /\ IF Available(op[t])
       THEN GoTo(t, "enter") /\ UNCHANGED <<op, xTicksToWait, xInheritanceOccurred, deadline>>
       ELSE IF xInheritanceOccurred[t]
       THEN GoTo(t, "disinherit") /\ UNCHANGED <<op, xTicksToWait, xInheritanceOccurred, deadline>>
       ELSE Return(t)
    /\ UNCHANGED <<neverSuspended, pxCurrentTCB, uxPriority, xStateListItem, eventList,
                   xYieldPending, pendSV, uxTopReadyPriority, mutexVars>>

(* vTaskPriorityDisinheritAfterTimeout.  The bit that is cleared when the  *)
(* list the holder leaves is empty is that of its new priority, which      *)
(* prvAddTaskToReadyList sets again at once.                               *)
DisinheritAfterTimeout(t) ==
    LET m == op[t]
        h == xMutexHolder[m]
        changes == h # NoTask /\ uxPriority[h] # PriorityToUse(m, h) /\ uxMutexesHeld[h] = 1
    IN  /\ At(t, "disinherit")
        /\ changes => h # t     \* configASSERT
        /\ IF changes
           THEN /\ uxPriority' = [uxPriority EXCEPT ![h] = PriorityToUse(m, h)]
                /\ uxTopReadyPriority' = uxTopReadyPriority \cup
                       {p \in {PriorityToUse(m, h)} : h \in Ready}
           ELSE UNCHANGED <<uxPriority, uxTopReadyPriority>>
        /\ Return(t)
        /\ UNCHANGED <<neverSuspended, pxCurrentTCB, xStateListItem, eventList,
                       xYieldPending, pendSV, mutexVars>>

-----------------------------------------------------------------------------
App(t) ==
    \/ \E m \in Mutex : TakeMutex(t, m) \/ TakeAgain(t, m) \/ GiveAgain(t, m) \/ GiveMutex(t, m)
    \/ vTaskDelay(t)

CallStep(t) ==
    \/ Acquire(t) \/ GiveUp(t) \/ StartWaiting(t) \/ TimedOut(t) \/ TryAgain(t) \/ Wait(t)
    \/ Retest(t) \/ DisinheritAfterTimeout(t) \/ Delayed(t)

Next == (\E t \in Task : App(t) \/ CallStep(t)) \/ SysTick \/ PendSV

Spec == Init /\ [][Next]_vars

-----------------------------------------------------------------------------
(* Properties.                                                             *)

Waiters(m) == ToSet(eventList[m])

(* A task waits for a mutex whose holder runs below it.                    *)
Outranked(m) ==
    ~Available(m) /\ \E w \in Waiters(m) : uxPriority[w] > uxPriority[xMutexHolder[m]]

(* Inheritance prevents priority inversion: whatever the order of takes,   *)
(* gives, time-outs and of the mutexes given back, the holder of a mutex   *)
(* never falls below a task on its list, nor does a task above it join the *)
(* list.  Time-outs of other waiters lower it, so this relates             *)
(* prvGetDisinheritPriorityAfterTimeout to the sorting of the list.  The   *)
(* one way left is a mutex that nobody holds, taken before the tasks that  *)
(* wait for it by one that should not be running: the end of               *)
(* xQueueGenericSend leaves it running when it has lowered it and woken a  *)
(* task of no higher priority.                                             *)
HolderInherits ==
    [][\A m \in Mutex : Outranked(m)' =>
           Outranked(m) \/ (Available(m) /\ pxCurrentTCB \notin HighestReady)]_vars

(* A priority is inherited only on account of a mutex: a task that holds   *)
(* none runs at its base priority, a task never runs below it, and         *)
(* uxMutexesHeld counts what xMutexHolder says.                            *)
PriorityReturns ==
    \A t \in Task :
        /\ uxMutexesHeld[t] = Cardinality({m \in Mutex : xMutexHolder[m] = t})
        /\ uxPriority[t] >= BasePriority[t]
        /\ uxMutexesHeld[t] = 0 => uxPriority[t] = BasePriority[t]

(* The bitmap the port selects from has a bit for each ready list that     *)
(* holds a task and no other.                                              *)
BitmapIsExact == uxTopReadyPriority = BitsOf

(* It stays so although inheritance moves tasks between lists behind the   *)
(* scheduler's back, also when vTaskPriorityDisinheritAfterTimeout clears  *)
(* the wrong bit: the task that timed out was waiting at the priority the  *)
(* holder gives up and is ready itself.  Not if the holder was running     *)
(* below it already; and only as long as no task waits for a mutex while   *)
(* it holds another.                                                       *)
BitmapStaysExact ==
    [][BitmapIsExact => BitmapIsExact' \/
           \E t \in Task : At(t, "disinherit") /\
               uxPriority[xMutexHolder[op[t]]] < uxPriority[t]]_vars

(* The configASSERT of taskSELECT_HIGHEST_PRIORITY_TASK when a context     *)
(* switch is due: the list of the highest bit is not empty.                *)
SelectionAsserts == pendSV => ReadyAt(TopReady) # {}

(* tasks.c:4207 of giving back several mutexes: "If a context switch did   *)
(* not occur when the first mutex was returned, even if a task was waiting *)
(* on it, then a context switch should occur when the last mutex is        *)
(* returned whether a task is waiting on it or not."  A task that holds    *)
(* none any more does not go on running below a ready one.                 *)
LastGiveYields ==
    ~pendSV /\ HoldsNone(pxCurrentTCB) => pxCurrentTCB \in HighestReady

(* No waiter is forgotten: while tasks wait on an available mutex, one     *)
(* that was woken for it is on its way to take it.                         *)
WaiterIsWoken ==
    \A m \in Mutex : Available(m) /\ eventList[m] # <<>> =>
        \E t \in Ready : op[t] = m /\ pc[t] \in {"enter", "suspend", "retest"}

-----------------------------------------------------------------------------
(* What makes these inductive.                                             *)

(* The scheduler is suspended only within steps, and the running task is   *)
(* ready until it asks for a switch.                                       *)
SchedulerRuns ==
    /\ uxSchedulerSuspended = 0
    /\ xPendingReadyList = {}
    /\ ~ticksPended
    /\ ~pendSV => pxCurrentTCB \in Ready

(* A task sleeps in vTaskDelay or on the list of the mutex it is taking.   *)
WaitersAreTaking ==
    /\ \A m \in Mutex : NoDuplicates(eventList[m])
    /\ \A m \in Mutex, t \in Task :
           t \in Waiters(m) <=> t \notin Ready /\ pc[t] = "enter" /\ op[t] = m
    /\ \A t \in Task : t \notin Ready => pc[t] \in {"delay", "enter"}
    /\ \A t \in Task :
           pc[t] \in {"enter", "suspend", "retest", "disinherit"} => op[t] \in Mutex

(* A give makes the head of the list ready to enter xQueueSemaphoreTake    *)
(* again.                                                                  *)
WokenIsEntering ==
    \A m \in Mutex : Available(m) /\ Waiters(m) # {} =>
        \E t \in Ready : op[t] = m /\ pc[t] = "enter"

(* PendSV finds every ready task.                                          *)
BitmapCovers == BitsOf \subseteq uxTopReadyPriority

(* A task that waits, or may come to, holds no mutex, and so keeps its     *)
(* base priority: unless it waits without a block time.                    *)
WaitsHoldingNone(t) ==
    /\ pc[t] = "suspend" \/ (pc[t] = "enter" /\ t \notin Ready) => xTicksToWait[t] # "zero"
    /\ pc[t] \in {"enter", "suspend"} /\ xTicksToWait[t] # "zero" => HoldsNone(t)
    /\ pc[t] = "retest" => xTicksToWait[t] = "zero"
    /\ pc[t] = "disinherit" => xInheritanceOccurred[t]
    /\ xInheritanceOccurred[t] =>
           HoldsNone(t) /\ pc[t] \in {"enter", "suspend", "retest", "disinherit"}

WaitersHoldNone == \A t \in Task : WaitsHoldingNone(t)

(* The task woken for a mutex is one of the highest that waited for it.    *)
WokenOutranksWaiters ==
    \A m \in Mutex : Available(m) /\ Waiters(m) # {} =>
        \E t \in Ready :
            /\ op[t] = m /\ pc[t] = "enter" /\ HoldsNone(t)
            /\ \A w \in Waiters(m) : uxPriority[w] <= uxPriority[t]

(* A task goes on running below a ready one only at its base priority.     *)
OutrankedRunsAtBase ==
    ~pendSV => \/ pxCurrentTCB \in HighestReady
               \/ /\ uxPriority[pxCurrentTCB] = BasePriority[pxCurrentTCB]
                  /\ ~xInheritanceOccurred[pxCurrentTCB]

(* While no task waits for one mutex holding another.                      *)
NoChains ==
    /\ WaitersHoldNone
    /\ \A m \in Mutex : InPriorityOrder(eventList[m])
    /\ WokenOutranksWaiters
    /\ OutrankedRunsAtBase

IInv ==
    /\ TypeOK
    /\ SchedulerRuns
    /\ WaitersAreTaking
    /\ PriorityReturns
    /\ WokenIsEntering
    /\ BitmapCovers
    /\ ~WaitsWhileHolding => NoChains
=============================================================================
