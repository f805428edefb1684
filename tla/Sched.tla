------------------------------- MODULE Sched -------------------------------
(***************************************************************************)
(* The scheduler core of FreeRTOS_Source/tasks.c on a single-core port     *)
(* (portable/GCC/ARM_CM3) with preemption and time slicing: the ready,     *)
(* delayed, suspended and pending-ready lists, the scheduler lock, the     *)
(* tick and PendSV.  Every operator ending in a step of the system is used *)
(* by the modules of the kernel objects; an operator constrains exactly    *)
(* the primed variables its comment names.                                 *)
(*                                                                         *)
(* Abstractions.  A state list is a set: the round robin of the ready list *)
(* of one priority becomes a choice among its members.  Time is abstract:  *)
(* a task that waits with a finite block time has an "armed" deadline, and *)
(* a tick expires any set of armed deadlines (the exact arithmetic is      *)
(* TickDelay's subject).  A pended tick count is remembered as zero or     *)
(* nonzero.                                                                *)
(***************************************************************************)
EXTENDS Integers, FiniteSets, Sequences, SequencesExt

CONSTANTS
    Task,           \* the tasks, the idle task among them
    Idle,           \* the idle task: always ready, never makes a call
    MaxPriorities,  \* configMAX_PRIORITIES
    BasePriority,   \* the priority each task is created with
    EventLists,     \* names of the event lists of the kernel objects
    MaxNesting      \* bound on uxSchedulerSuspended

ASSUME TaskAssumption ==
    /\ IsFiniteSet(Task)
    /\ Idle \in Task
    /\ MaxPriorities \in Nat \ {0}
    /\ BasePriority \in [Task -> 0..MaxPriorities - 1]
    /\ BasePriority[Idle] = 0
    /\ MaxNesting \in Nat \ {0}

VARIABLES
    pxCurrentTCB,          \* the running task
    uxPriority,            \* the priority of each task
    xStateListItem,        \* the list that holds the state list item
    eventList,             \* the tasks on each event list, head first
    xPendingReadyList,     \* woken while the scheduler was suspended
    uxSchedulerSuspended,  \* nesting depth of vTaskSuspendAll
    xYieldPending,
    ticksPended,           \* xPendedTicks > 0
    pendSV,                \* the PENDSVSET bit of the interrupt controller
    deadline               \* "none", "armed" or "expired", of the wait in progress

schedVars == <<pxCurrentTCB, uxPriority, xStateListItem, eventList,
               xPendingReadyList, uxSchedulerSuspended, xYieldPending,
               ticksPended, pendSV, deadline>>

SchedTypeOK ==
    /\ pxCurrentTCB \in Task
    /\ uxPriority \in [Task -> 0..MaxPriorities - 1]
    /\ xStateListItem \in [Task -> {"ready", "delayed", "suspended"}]
    /\ eventList \in [EventLists -> Seq(Task)]
    /\ xPendingReadyList \in SUBSET Task
    /\ uxSchedulerSuspended \in 0..MaxNesting
    /\ xYieldPending \in BOOLEAN
    /\ ticksPended \in BOOLEAN
    /\ pendSV \in BOOLEAN
    /\ deadline \in [Task -> {"none", "armed", "expired"}]

(* vTaskStartScheduler has created every task and selected one of those    *)
(* with the highest priority.                                              *)
SchedInit ==
    /\ uxPriority = BasePriority
    /\ pxCurrentTCB \in {t \in Task : \A u \in Task : BasePriority[u] <= BasePriority[t]}
    /\ xStateListItem = [t \in Task |-> "ready"]
    /\ eventList = [l \in EventLists |-> <<>>]
    /\ xPendingReadyList = {}
    /\ uxSchedulerSuspended = 0
    /\ xYieldPending = FALSE
    /\ ticksPended = FALSE
    /\ pendSV = FALSE
    /\ deadline = [t \in Task |-> "none"]

-----------------------------------------------------------------------------
(* Lists.                                                                  *)

Ready == {t \in Task : xStateListItem[t] = "ready"}

(* The members of Ready that vTaskSwitchContext may select.                *)
HighestReady == {t \in Ready : \A u \in Ready : uxPriority[u] <= uxPriority[t]}

(* t executes instructions: no pended interrupt is to be taken first.      *)
Running(t) == t = pxCurrentTCB /\ ~pendSV

(* uxTaskGetNumberOfTasks.                                                 *)
NumberOfTasks == Cardinality(Task)

(* The tasks on event list l, and a list that holds nobody twice.          *)
OnList(l) == ToSet(eventList[l])
NoDuplicates(s) == \A i, j \in DOMAIN s : s[i] = s[j] => i = j

(* What vListInsert keeps up and xTaskRemoveFromEventList relies on.       *)
InPriorityOrder(s) == \A i, j \in DOMAIN s : i < j => uxPriority[s[i]] >= uxPriority[s[j]]

(* One of S has a higher priority than the running task.                   *)
Preempts(S) == \E t \in S : uxPriority[t] > uxPriority[pxCurrentTCB]

(* A ready task of higher priority waits for no more than a switch that is *)
(* pended already, or that the next tick or xTaskResumeAll will make.      *)
SwitchIsComing == Preempts(Ready) => pendSV \/ xYieldPending

(* Every event list is in the order of the priorities its tasks have now.  *)
ListsInOrder == \A l \in EventLists : InPriorityOrder(eventList[l])

(* Mutant of ListInsert: vListInsertEnd.                                   *)
ListInsertEnd(list, t) == {Append(list, t)}

(* vListInsert with the item value configMAX_PRIORITIES - uxPriority: t    *)
(* goes before the first item of lower priority.  The value is a set with  *)
(* one sequence.                                                           *)
ListInsert(list, t) ==
    {InsertAt(list, i, t) : i \in
        {i \in 1..Len(list) + 1 :
            /\ \A j \in 1..i - 1 : uxPriority[list[j]] >= uxPriority[t]
            /\ i <= Len(list) => uxPriority[list[i]] < uxPriority[t]}}

(* uxListRemove of the items of S: the other members of the list in the    *)
(* order they had.  The value is a set with one sequence.                  *)
ListRemove(list, S) ==
    {r \in SetToSeqs(ToSet(list) \ S) :
        /\ ToSet(r) = ToSet(list) \ S
        /\ \A i, j \in DOMAIN r : i < j =>
               \E k, l \in DOMAIN list : k < l /\ list[k] = r[i] /\ list[l] = r[j]}

-----------------------------------------------------------------------------
(* Context switch.                                                         *)

(* PendSV: vTaskSwitchContext.  Constrains pxCurrentTCB, xYieldPending and *)
(* pendSV.                                                                 *)
vTaskSwitchContext ==
    /\ pendSV
    /\ pendSV' = FALSE
    /\ IF uxSchedulerSuspended # 0
       THEN xYieldPending' = TRUE /\ UNCHANGED pxCurrentTCB
       ELSE xYieldPending' = FALSE /\ pxCurrentTCB' \in HighestReady

-----------------------------------------------------------------------------
(* Waiting for an event and being woken.                                   *)

(* The running task waits on event list l, without limit when forever.     *)
(* Constrains eventList and xStateListItem.                                *)
vTaskPlaceOnEventList(l, forever) ==
    /\ \E s \in ListInsert(eventList[l], pxCurrentTCB) :
           eventList' = [eventList EXCEPT ![l] = s]
    /\ xStateListItem' = [xStateListItem EXCEPT ![pxCurrentTCB] =
                              IF forever THEN "suspended" ELSE "delayed"]

FirstOf(l, n) == {eventList[l][i] : i \in 1..n}

(* xTaskRemoveFromEventList called n times on event list l, n at most its  *)
(* length.  Constrains eventList, xStateListItem, xPendingReadyList and    *)
(* xYieldPending.                                                          *)
xTaskRemoveFromEventList(l, n) ==
    /\ eventList' = [eventList EXCEPT ![l] = SubSeq(@, n + 1, Len(@))]
    /\ IF uxSchedulerSuspended = 0
       THEN /\ xStateListItem' = [t \in Task |->
                    IF t \in FirstOf(l, n) THEN "ready" ELSE xStateListItem[t]]
            /\ UNCHANGED xPendingReadyList
       ELSE /\ xPendingReadyList' = xPendingReadyList \cup FirstOf(l, n)
            /\ UNCHANGED xStateListItem
    /\ xYieldPending' = (xYieldPending \/ Preempts(FirstOf(l, n)))

-----------------------------------------------------------------------------
(* Time.                                                                   *)

Armed == {t \in Task : deadline[t] = "armed"}

(* Mutant of Expire: a task that times out stays on its event list.        *)
ExpireOnlyState(X, item) ==
    /\ deadline' = [t \in Task |-> IF t \in X THEN "expired" ELSE deadline[t]]
    /\ xStateListItem' = [t \in Task |->
           IF t \in X /\ item[t] = "delayed" THEN "ready" ELSE item[t]]
    /\ UNCHANGED eventList

(* The tick that expires the deadlines of X, with the state list items     *)
(* where item puts them.  Constrains deadline, xStateListItem and          *)
(* eventList.                                                              *)
Expire(X, item) ==
    LET woken == {t \in X : item[t] = "delayed"}
    IN  /\ deadline' = [t \in Task |-> IF t \in X THEN "expired" ELSE deadline[t]]
        /\ xStateListItem' = [t \in Task |-> IF t \in woken THEN "ready" ELSE item[t]]
        /\ eventList' \in
               {f \in [EventLists -> UNION {ListRemove(eventList[l], woken) : l \in EventLists}] :
                   \A l \in EventLists : f[l] \in ListRemove(eventList[l], woken)}

(* What xTaskIncrementTick returns after such a tick: a woken task of      *)
(* higher priority, or a time slice for an equal one.  (The switch it also *)
(* asks for when xYieldPending is set is added by its callers.)            *)
SwitchRequired(X, item) ==
    LET woken == {t \in X : item[t] = "delayed"}
        now(t) == t \in woken \/ item[t] = "ready"
    IN  \/ Preempts(woken)
        \/ Cardinality({t \in Task : now(t) /\ uxPriority[t] = uxPriority[pxCurrentTCB]}) > 1

(* Mutant of xTaskIncrementTick: xYieldPending does not ask for a switch.  *)
IncrementTickIgnoresYield(X) ==
    IF uxSchedulerSuspended # 0
    THEN /\ X = {}
         /\ ticksPended' = TRUE
         /\ UNCHANGED <<deadline, xStateListItem, eventList, pendSV>>
    ELSE /\ X \subseteq Armed
         /\ Expire(X, xStateListItem)
         /\ pendSV' = (pendSV \/ SwitchRequired(X, xStateListItem))
         /\ UNCHANGED ticksPended

(* xPortSysTickHandler: xTaskIncrementTick, then PendSV when it asks for a *)
(* switch.  Constrains ticksPended, deadline, xStateListItem, eventList    *)
(* and pendSV.                                                             *)
xTaskIncrementTick(X) ==
    IF uxSchedulerSuspended # 0
    THEN /\ X = {}
         /\ ticksPended' = TRUE
         /\ UNCHANGED <<deadline, xStateListItem, eventList, pendSV>>
    ELSE /\ X \subseteq Armed
         /\ Expire(X, xStateListItem)
         /\ pendSV' = (pendSV \/ SwitchRequired(X, xStateListItem) \/ xYieldPending)
         /\ UNCHANGED ticksPended

-----------------------------------------------------------------------------
(* The scheduler lock.                                                     *)

(* Constrains uxSchedulerSuspended.                                        *)
vTaskSuspendAll ==
    /\ uxSchedulerSuspended < MaxNesting
    /\ uxSchedulerSuspended' = uxSchedulerSuspended + 1

(* Where the state list items are once xTaskResumeAll has emptied          *)
(* xPendingReadyList.                                                      *)
PendingMadeReady ==
    [t \in Task |-> IF t \in xPendingReadyList THEN "ready" ELSE xStateListItem[t]]

(* xTaskResumeAll finds a switch to make, X being expired by the pended    *)
(* ticks: its result xAlreadyYielded.                                      *)
AlreadyYielded(X) ==
    /\ uxSchedulerSuspended = 1
    /\ \/ xYieldPending
       \/ \E t \in xPendingReadyList : uxPriority[t] >= uxPriority[pxCurrentTCB]
       \/ ticksPended /\ SwitchRequired(X, PendingMadeReady)

(* Constrains uxSchedulerSuspended, xPendingReadyList, xStateListItem,     *)
(* deadline, eventList, ticksPended, xYieldPending and pendSV.             *)
xTaskResumeAll(X) ==
    /\ uxSchedulerSuspended' = uxSchedulerSuspended - 1
    /\ IF uxSchedulerSuspended = 1
       THEN /\ X \subseteq (IF ticksPended THEN Armed ELSE {})
            /\ xPendingReadyList' = {}
            /\ Expire(X, PendingMadeReady)
            /\ ticksPended' = FALSE
            /\ xYieldPending' = AlreadyYielded(X)
            /\ pendSV' = AlreadyYielded(X)
       ELSE /\ X = {}
            /\ UNCHANGED <<xPendingReadyList, xStateListItem, deadline, eventList,
                           ticksPended, xYieldPending, pendSV>>

-----------------------------------------------------------------------------
(* Mutant of vTaskPrioritySet: the new order of priorities takes effect at  *)
(* the next switch.                                                        *)
PrioritySetNeverYields(t, uxNewPriority) ==
    /\ uxNewPriority # uxPriority[t]
    /\ uxPriority' = [uxPriority EXCEPT ![t] = uxNewPriority]
    /\ UNCHANGED pendSV

(* vTaskPrioritySet by the running task, no mutex being held: uxPriority   *)
(* and uxBasePriority are one.  The event list item takes the new value    *)
(* where it is.  Constrains uxPriority and pendSV.                         *)
vTaskPrioritySet(t, uxNewPriority) ==
    /\ uxNewPriority # uxPriority[t]
    /\ uxPriority' = [uxPriority EXCEPT ![t] = uxNewPriority]
    /\ pendSV' = IF t = pxCurrentTCB
                 THEN uxNewPriority < uxPriority[t]
                 ELSE uxNewPriority > uxPriority[t] /\ uxNewPriority >= uxPriority[pxCurrentTCB]
=============================================================================
