---------------------------- MODULE MutexProofs ----------------------------
(***************************************************************************)
(* IInv is an inductive invariant of Mutex, for every finite set of tasks  *)
(* and mutexes and all priorities: in its first six parts also for         *)
(* applications that wait for one mutex holding another, with NoChains for *)
(* those that do not, for which inheritance is complete (HolderInherits).  *)
(* A lemma for each action that changes a list, a priority or a holder;    *)
(* the others are quiet.                                                   *)
(***************************************************************************)
EXTENDS Mutex, SchedProofs

USE DEF At, Running, GoTo

(* The mutexes a task holds.                                               *)
Held(t) == {m \in Mutex : xMutexHolder[m] = t}

-----------------------------------------------------------------------------
(* Facts about single states.                                              *)

(* The mutexes a task holds can be counted.                                *)
LEMMA HeldIsFinite ==
    ASSUME NEW t \in Task
    PROVE  /\ IsFiniteSet(Held(t)) /\ Cardinality(Held(t)) \in 0..Cardinality(Mutex)
           /\ IsFiniteSet(Held(t)') /\ Cardinality(Held(t)') \in 0..Cardinality(Mutex)
           /\ Cardinality(Held(t)) = 0 <=> HoldsNone(t)
<1>1. Held(t) \subseteq Mutex /\ Held(t)' \subseteq Mutex
  BY DEF Held
<1>2. IsFiniteSet(Mutex) /\ Cardinality(Mutex) \in Nat
  BY MutexAssumption, FS_CardinalityType
<1>3. /\ IsFiniteSet(Held(t)) /\ Cardinality(Held(t)) <= Cardinality(Mutex)
      /\ IsFiniteSet(Held(t)') /\ Cardinality(Held(t)') <= Cardinality(Mutex)
  BY <1>1, <1>2, FS_Subset
<1>4. Cardinality(Held(t)) \in Nat /\ Cardinality(Held(t)') \in Nat
  BY <1>3, FS_CardinalityType
<1>5. Cardinality(Held(t)) = 0 <=> Held(t) = {}
  BY <1>3, FS_EmptySet
<1>6. Held(t) = {} <=> HoldsNone(t)
  BY DEF Held, HoldsNone
<1> QED BY <1>2, <1>3, <1>4, <1>5, <1>6

(* A task that holds no mutex runs at its base priority, and a running     *)
(* task is on no list.                                                     *)
LEMMA StateFacts ==
    ASSUME IInv
    PROVE  /\ EventLists = Mutex
           /\ \A t \in Task : uxPriority[t] \in Nat /\ BasePriority[t] \in 0..MaxPriorities - 1
           /\ \A t \in Task : HoldsNone(t) <=> uxMutexesHeld[t] = 0
           /\ \A t \in Task : HoldsNone(t) => uxPriority[t] = BasePriority[t]
           /\ \A m \in Mutex : Waiters(m) \subseteq Task /\ Waiters(m) \cap Ready = {}
           /\ \A m \in Mutex : eventList[m] \in Seq(Task) /\ NoDuplicates(eventList[m])
           /\ \A m \in Mutex : ~Available(m) => xMutexHolder[m] \in Task
<1> USE DEF IInv
<1>1. EventLists = Mutex
  BY MutexAssumption
<1>2. ASSUME NEW t \in Task
      PROVE  /\ uxPriority[t] \in Nat /\ BasePriority[t] \in 0..MaxPriorities - 1
             /\ HoldsNone(t) <=> uxMutexesHeld[t] = 0
             /\ HoldsNone(t) => uxPriority[t] = BasePriority[t]
  <2>1. uxPriority[t] \in Nat /\ BasePriority[t] \in 0..MaxPriorities - 1
    BY TaskAssumption DEF TypeOK, SchedTypeOK
  <2>2. uxMutexesHeld[t] = Cardinality(Held(t))
    BY DEF PriorityReturns, Held
  <2> QED BY <2>1, <2>2, HeldIsFinite DEF PriorityReturns
<1>3. ASSUME NEW m \in Mutex
      PROVE  /\ eventList[m] \in Seq(Task) /\ NoDuplicates(eventList[m])
             /\ Waiters(m) \subseteq Task /\ Waiters(m) \cap Ready = {}
             /\ ~Available(m) => xMutexHolder[m] \in Task
  <2>1. eventList[m] \in Seq(Task) /\ NoDuplicates(eventList[m])
    BY <1>1 DEF TypeOK, SchedTypeOK, WaitersAreTaking
  <2>2. Waiters(m) \subseteq Task
    BY <2>1 DEF Waiters, ToSet
  <2>3. Waiters(m) \cap Ready = {}
    BY <2>2 DEF WaitersAreTaking
  <2>4. ~Available(m) => xMutexHolder[m] \in Task
    BY DEF TypeOK, Available
  <2> QED BY <2>1, <2>2, <2>3, <2>4
<1> QED BY <1>1, <1>2, <1>3

(* A list is empty when nobody is on it.                                   *)
LEMMA EmptyList ==
    ASSUME NEW s \in Seq(Task)
    PROVE  s = <<>> <=> ToSet(s) = {}
BY NonEmptyList DEF ToSet

-----------------------------------------------------------------------------
(* The quiet steps: the running task goes on in its call, or begins or     *)
(* ends one, and nothing else changes.                                     *)

(* What such a step of t leaves alone.                                     *)
Quiet(t) ==
    /\ t = pxCurrentTCB /\ ~pendSV
    /\ UNCHANGED <<neverSuspended, pxCurrentTCB, uxPriority, xStateListItem, eventList,
                   xYieldPending, pendSV, uxTopReadyPriority, xMutexHolder, uxMutexesHeld>>
    /\ \A u \in Task \ {t} :
           /\ pc'[u] = pc[u] /\ op'[u] = op[u]
           /\ xTicksToWait'[u] = xTicksToWait[u]
           /\ xInheritanceOccurred'[u] = xInheritanceOccurred[u]

(* What it must see to: it keeps to the mutex while in the call, a task    *)
(* that was woken for a mutex does not go away when it is available, and a *)
(* task that may come to wait holds none.                                  *)
Proceeds(t) ==
    /\ pc'[t] \in {"enter", "suspend", "retest", "disinherit"} => op'[t] \in Mutex
    /\ pc[t] = "enter" => ~Available(op[t])
    /\ xInheritanceOccurred'[t] => xInheritanceOccurred[t]
    /\ ~WaitsWhileHolding => WaitsHoldingNone(t)'

LEMMA QuietStep ==
    ASSUME IInv, TypeOK', NEW t \in Task, Quiet(t), Proceeds(t)
    PROVE  IInv'
<1> USE DEF IInv
<1>1. Ready' = Ready /\ BitsOf' = BitsOf /\ t \in Ready
  BY DEF Quiet, Ready, BitsOf, SchedulerRuns
<1>2. /\ \A m \in Mutex : Waiters(m)' = Waiters(m) /\ (Available(m)' <=> Available(m))
      /\ \A u \in Task : HoldsNone(u)' <=> HoldsNone(u)
  BY DEF Quiet, Waiters, Available, HoldsNone
<1>3. SchedulerRuns' /\ BitmapCovers' /\ PriorityReturns'
  BY <1>1 DEF Quiet, SchedulerRuns, BitmapCovers, PriorityReturns, neverSuspended
<1>4. WaitersAreTaking'
  <2>1. \A m \in Mutex : NoDuplicates(eventList'[m])
    BY DEF Quiet, WaitersAreTaking
  <2>2. ASSUME NEW m \in Mutex, NEW u \in Task
        PROVE  u \in Waiters(m)' <=> u \notin Ready' /\ pc'[u] = "enter" /\ op'[u] = m
    BY <1>1, <1>2 DEF Quiet, WaitersAreTaking
  <2>3. ASSUME NEW u \in Task
        PROVE  /\ u \notin Ready' => pc'[u] \in {"delay", "enter"}
               /\ pc'[u] \in {"enter", "suspend", "retest", "disinherit"} => op'[u] \in Mutex
    BY <1>1 DEF Quiet, Proceeds, WaitersAreTaking
  <2> QED BY <2>1, <2>2, <2>3 DEF WaitersAreTaking
<1>5. WokenIsEntering'
  <2> SUFFICES ASSUME NEW m \in Mutex, Available(m)', Waiters(m)' # {}
               PROVE  \E u \in Ready' : op'[u] = m /\ pc'[u] = "enter"
    BY DEF WokenIsEntering
  <2>1. PICK u \in Ready : op[u] = m /\ pc[u] = "enter"
    BY <1>2 DEF WokenIsEntering
  <2>2. u # t
    BY <2>1, <1>2 DEF Proceeds
  <2> QED BY <1>1, <2>1, <2>2 DEF Quiet, Ready
<1>6. ASSUME ~WaitsWhileHolding
      PROVE  NoChains'
  <2> USE <1>6 DEF NoChains
  <2>1. WaitersHoldNone'
    BY <1>1, <1>2 DEF Quiet, Proceeds, WaitersHoldNone, WaitsHoldingNone
  <2>2. \A m \in Mutex : InPriorityOrder(eventList[m])'
    BY DEF Quiet, InPriorityOrder
  <2>3. WokenOutranksWaiters'
    <3> SUFFICES ASSUME NEW m \in Mutex, Available(m)', Waiters(m)' # {}
                 PROVE  \E u \in Ready' :
                            /\ op'[u] = m /\ pc'[u] = "enter" /\ HoldsNone(u)'
                            /\ \A w \in Waiters(m)' : uxPriority'[w] <= uxPriority'[u]
      BY DEF WokenOutranksWaiters
    <3>1. PICK u \in Ready : /\ op[u] = m /\ pc[u] = "enter" /\ HoldsNone(u)
                             /\ \A w \in Waiters(m) : uxPriority[w] <= uxPriority[u]
      BY <1>2 DEF WokenOutranksWaiters
    <3>2. u # t
      BY <3>1, <1>2 DEF Proceeds
    <3>3. op'[u] = op[u] /\ pc'[u] = pc[u] /\ uxPriority' = uxPriority
      BY <3>2 DEF Quiet, Ready
    <3>4. HoldsNone(u)'
      BY <1>2, <3>1 DEF Ready
    <3> QED BY <1>1, <1>2, <3>1, <3>3, <3>4
  <2>4. OutrankedRunsAtBase'
    BY <1>1 DEF Quiet, Proceeds, OutrankedRunsAtBase, HighestReady
  <2> QED BY <2>1, <2>2, <2>3, <2>4
<1> QED BY <1>3, <1>4, <1>5, <1>6

(* The steps of the application and of xQueueSemaphoreTake that are quiet. *)
QuietActions(t) ==
    \/ \E m \in Mutex : TakeMutex(t, m) \/ TakeAgain(t, m) \/ GiveAgain(t, m)
    \/ GiveUp(t) \/ StartWaiting(t) \/ TimedOut(t) \/ TryAgain(t) \/ Retest(t) \/ Delayed(t)

(* What Return leaves of a call.                                           *)
LEMMA ReturnFacts ==
    ASSUME TypeOK, NEW t \in Task, Return(t)
    PROVE  /\ pc' \in [Task -> {"app", "delay", "enter", "suspend", "retest", "disinherit"}]
           /\ op' \in [Task -> Mutex \cup {"none"}]
           /\ xTicksToWait' \in [Task -> {"zero", "ticks", "max"}]
           /\ xInheritanceOccurred' \in [Task -> BOOLEAN]
           /\ deadline' \in [Task -> {"none", "armed", "expired"}]
           /\ pc'[t] = "app" /\ ~xInheritanceOccurred'[t]
           /\ \A u \in Task \ {t} :
                  /\ pc'[u] = pc[u] /\ op'[u] = op[u] /\ deadline'[u] = deadline[u]
                  /\ xTicksToWait'[u] = xTicksToWait[u]
                  /\ xInheritanceOccurred'[u] = xInheritanceOccurred[u]
BY DEF TypeOK, SchedTypeOK, Return

(* They are quiet, and proceed.                                            *)
LEMMA QuietActionsAreQuiet ==
    ASSUME IInv, NEW t \in Task, QuietActions(t)
    PROVE  TypeOK' /\ Quiet(t) /\ Proceeds(t)
<1> USE DEF IInv, Quiet, neverSuspended, schedVars
<1>a. TypeOK /\ SchedTypeOK
  BY DEF TypeOK
<1>b. /\ pc[t] \in {"enter", "suspend", "retest", "disinherit"} => op[t] \in Mutex
      /\ ~WaitsWhileHolding => WaitsHoldingNone(t)
  BY DEF WaitersAreTaking, NoChains, WaitersHoldNone
<1>c. Waits \subseteq {"zero", "ticks", "max"}
  BY MutexAssumption
<1>1. CASE \E m \in Mutex : TakeMutex(t, m)
  <2>1. PICK m \in Mutex : TakeMutex(t, m)
    BY <1>1
  <2>2. TypeOK'
    BY <1>a, <1>c, <2>1 DEF TypeOK, SchedTypeOK, TakeMutex, mutexVars
  <2>3. Quiet(t)
    BY <1>a, <2>1 DEF TakeMutex, mutexVars, TypeOK
  <2>4. t \in Ready' /\ HoldsNone(t)' = HoldsNone(t)
    BY <2>1 DEF TakeMutex, SchedulerRuns, Ready, HoldsNone, mutexVars
  <2>5. pc[t] = "app" /\ pc'[t] = "enter" /\ op'[t] = m
    BY <1>a, <2>1 DEF TakeMutex, TypeOK
  <2>6. ~WaitsWhileHolding => HoldsNone(t) \/ xTicksToWait'[t] = "zero"
    BY <1>a, <2>1 DEF TakeMutex, TypeOK
  <2>7. xInheritanceOccurred' = xInheritanceOccurred
    BY <2>1 DEF TakeMutex
  <2> QED BY <1>b, <2>2, <2>3, <2>4, <2>5, <2>6, <2>7 DEF Proceeds, WaitsHoldingNone
<1>2. CASE \E m \in Mutex : TakeAgain(t, m) \/ GiveAgain(t, m)
  <2>1. PICK m \in Mutex : TakeAgain(t, m) \/ GiveAgain(t, m)
    BY <1>2
  <2>2. uxRecursiveCallCount' \in [Mutex -> 0..MaxRecursion]
    <3>1. uxRecursiveCallCount \in [Mutex -> 0..MaxRecursion] /\ MaxRecursion \in Nat
      BY <1>a, MutexAssumption DEF TypeOK
    <3> QED BY <2>1, <3>1 DEF TakeAgain, GiveAgain
  <2>3. /\ UNCHANGED <<schedVars, uxTopReadyPriority, xMutexHolder, uxMutexesHeld, callVars>>
        /\ Running(t) /\ pc[t] = "app"
    BY <2>1 DEF TakeAgain, GiveAgain
  <2>4. TypeOK'
    BY <1>a, <2>2, <2>3 DEF TypeOK, SchedTypeOK, callVars
  <2>5. Quiet(t)
    BY <2>3 DEF callVars
  <2>6. WaitsHoldingNone(t)' = WaitsHoldingNone(t)
    BY <2>3 DEF WaitsHoldingNone, HoldsNone, Ready, callVars
  <2> QED BY <1>b, <2>3, <2>4, <2>5, <2>6 DEF Proceeds, callVars
<1>3. CASE GiveUp(t)
  <2>1. TypeOK'
    BY <1>a, <1>3, ReturnFacts DEF TypeOK, SchedTypeOK, GiveUp, mutexVars
  <2> QED BY <1>a, <1>3, <2>1, ReturnFacts DEF GiveUp, mutexVars, Proceeds, WaitsHoldingNone
<1>4. CASE StartWaiting(t)
  <2>1. TypeOK'
    BY <1>a, <1>4 DEF TypeOK, SchedTypeOK, StartWaiting, mutexVars
  <2>2. Quiet(t)
    BY <1>a, <1>4 DEF StartWaiting, mutexVars, TypeOK
  <2>3. pc[t] = "enter" /\ pc'[t] = "suspend" /\ ~Available(op[t]) /\ xTicksToWait[t] # "zero"
    BY <1>a, <1>4 DEF StartWaiting, TypeOK
  <2>4. HoldsNone(t)' = HoldsNone(t)
    BY <1>4 DEF StartWaiting, HoldsNone, mutexVars
  <2> QED BY <1>b, <1>4, <2>1, <2>2, <2>3, <2>4 DEF StartWaiting, Proceeds, WaitsHoldingNone
<1>5. CASE TimedOut(t)
  <2>1. TypeOK'
    BY <1>a, <1>5 DEF TypeOK, SchedTypeOK, TimedOut, mutexVars
  <2>2. Quiet(t)
    BY <1>a, <1>5 DEF TimedOut, mutexVars, TypeOK
  <2>3. pc[t] = "suspend" /\ pc'[t] = "retest" /\ xTicksToWait'[t] = "zero"
    BY <1>a, <1>5 DEF TimedOut, TypeOK
  <2>4. HoldsNone(t)' = HoldsNone(t)
    BY <1>5 DEF TimedOut, HoldsNone, mutexVars
  <2> QED BY <1>b, <1>5, <2>1, <2>2, <2>3, <2>4 DEF TimedOut, Proceeds, WaitsHoldingNone
<1>6. CASE TryAgain(t)
  <2>1. TypeOK'
    BY <1>a, <1>6 DEF TypeOK, SchedTypeOK, TryAgain, mutexVars
  <2>2. Quiet(t)
    BY <1>a, <1>6 DEF TryAgain, mutexVars, TypeOK
  <2>3. pc[t] = "suspend" /\ pc'[t] = "enter" /\ t \in Ready'
    BY <1>a, <1>6 DEF TryAgain, TypeOK, SchedulerRuns, Ready
  <2>4. HoldsNone(t)' = HoldsNone(t)
    BY <1>6 DEF TryAgain, HoldsNone, mutexVars
  <2> QED BY <1>b, <1>6, <2>1, <2>2, <2>3, <2>4 DEF TryAgain, Proceeds, WaitsHoldingNone
<1>7. CASE Retest(t)
  <2>0. /\ pc[t] = "retest" /\ t \in Ready' /\ HoldsNone(t)' = HoldsNone(t)
        /\ op[t] \in Mutex
    BY <1>b, <1>7 DEF Retest, SchedulerRuns, Ready, HoldsNone, mutexVars
  <2>1. CASE Return(t)
    <3>1. TypeOK'
      BY <1>a, <1>7, <2>1, ReturnFacts DEF TypeOK, SchedTypeOK, Retest, mutexVars
    <3> QED BY <1>a, <1>7, <2>0, <2>1, <3>1, ReturnFacts DEF Retest, mutexVars, Proceeds, WaitsHoldingNone
  <2>2. CASE ~Return(t)
    <3>1. /\ UNCHANGED <<op, xTicksToWait, xInheritanceOccurred, deadline>>
          /\ \/ Available(op[t]) /\ pc' = [pc EXCEPT ![t] = "enter"]
             \/ ~Available(op[t]) /\ xInheritanceOccurred[t] /\ pc' = [pc EXCEPT ![t] = "disinherit"]
      BY <1>7, <2>2 DEF Retest
    <3>2. TypeOK'
      BY <1>a, <1>7, <3>1 DEF TypeOK, SchedTypeOK, Retest, mutexVars
    <3>3. Quiet(t)
      BY <1>a, <1>7, <3>1 DEF Retest, mutexVars, TypeOK
    <3>4. pc'[t] \in {"enter", "disinherit"} /\ (pc'[t] = "disinherit" => xInheritanceOccurred[t])
      BY <1>a, <3>1 DEF TypeOK
    <3> QED BY <1>b, <2>0, <3>1, <3>2, <3>3, <3>4 DEF Proceeds, WaitsHoldingNone
  <2> QED BY <2>1, <2>2
<1>8. CASE Delayed(t)
  <2>1. TypeOK'
    BY <1>a, <1>8, ReturnFacts DEF TypeOK, SchedTypeOK, Delayed, mutexVars
  <2> QED BY <1>a, <1>8, <2>1, ReturnFacts DEF Delayed, mutexVars, Proceeds, WaitsHoldingNone
<1> QED BY <1>1, <1>2, <1>3, <1>4, <1>5, <1>6, <1>7, <1>8 DEF QuietActions

-----------------------------------------------------------------------------
(* The bitmap.                                                             *)

(* Sets of ready tasks at a priority, and the bits that are to be set.     *)
LEMMA BitsFacts ==
    ASSUME IInv
    PROVE  /\ BitsOf \subseteq 0..MaxPriorities - 1
           /\ \A p : p \in BitsOf <=> ReadyAt(p) # {}
           /\ \A p : p \in BitsOf' <=> ReadyAt(p)' # {}
BY DEF IInv, TypeOK, SchedTypeOK, BitsOf, ReadyAt, Ready

(* Recording and resetting bits as tasks enter and leave the ready lists   *)
(* keeps a bit for every list with a task, and no other if there was none. *)
LEMMA RecordFacts ==
    ASSUME IInv, RecordAndReset, uxPriority' \in [Task -> 0..MaxPriorities - 1]
    PROVE  /\ uxTopReadyPriority' \in SUBSET (0..MaxPriorities - 1)
           /\ BitmapCovers'
           /\ BitmapIsExact => BitmapIsExact'
<1>1. BitsOf' \subseteq 0..MaxPriorities - 1
  BY DEF BitsOf, Ready
<1>2. BitsOf \subseteq uxTopReadyPriority
  BY DEF IInv, BitmapCovers
<1>3. ASSUME NEW p \in BitsOf'
      PROVE  p \in uxTopReadyPriority'
  <2>1. PICK t : t \in ReadyAt(p)'
    BY <1>3, BitsFacts
  <2>2. CASE t \in ReadyAt(p)
    BY <1>1, <1>2, <1>3, <2>1, <2>2, BitsFacts DEF RecordAndReset
  <2>3. CASE t \notin ReadyAt(p)
    BY <1>1, <1>3, <2>1, <2>3 DEF RecordAndReset
  <2> QED BY <2>2, <2>3
<1>4. ASSUME BitmapIsExact, NEW p \in uxTopReadyPriority'
      PROVE  p \in BitsOf'
  <2>1. CASE ReadyAt(p)' \ ReadyAt(p) # {}
    BY <2>1, BitsFacts
  <2>2. CASE /\ p \in uxTopReadyPriority
             /\ ReadyAt(p) # {} => ReadyAt(p) \cap ReadyAt(p)' # {}
    BY <1>4, <2>2, BitsFacts DEF BitmapIsExact
  <2> QED BY <1>4, <2>1, <2>2 DEF RecordAndReset
<1> QED BY <1>3, <1>4 DEF BitmapCovers, BitmapIsExact, RecordAndReset

-----------------------------------------------------------------------------
(* Taking a mutex.                                                         *)

(* A task counts the mutex it has taken.                                   *)
LEMMA AcquireCounts ==
    ASSUME IInv, NEW t \in Task, Acquire(t)
    PROVE  /\ TypeOK'
           /\ \A u \in Task : uxMutexesHeld'[u] = Cardinality(Held(u)')
           /\ uxMutexesHeld'[t] # 0 /\ \A u \in Task \ {t} : uxMutexesHeld'[u] = uxMutexesHeld[u]
<1> USE DEF IInv
<1> DEFINE m == op[t]
<1>1. /\ m \in Mutex /\ xMutexHolder[m] = NoTask /\ NoTask \notin Task
      /\ xMutexHolder' = [xMutexHolder EXCEPT ![m] = t]
      /\ uxMutexesHeld' = [uxMutexesHeld EXCEPT ![t] = @ + 1]
      /\ xMutexHolder \in [Mutex -> Task \cup {NoTask}]
      /\ uxMutexesHeld \in [Task -> 0..Cardinality(Mutex)]
  BY MutexAssumption DEF Acquire, Available, WaitersAreTaking, TypeOK
<1>2. Held(t)' = Held(t) \cup {m} /\ m \notin Held(t)
  BY <1>1 DEF Held
<1>3. Cardinality(Held(t)') = Cardinality(Held(t)) + 1
  BY <1>2, HeldIsFinite, FS_AddElement
<1>4. ASSUME NEW u \in Task, u # t
      PROVE  Held(u)' = Held(u)
  BY <1>1, <1>4 DEF Held
<1>5. ASSUME NEW u \in Task
      PROVE  uxMutexesHeld'[u] = Cardinality(Held(u)')
  <2>1. uxMutexesHeld[u] = Cardinality(Held(u))
    BY DEF PriorityReturns, Held
  <2>2. CASE u = t
    BY <1>1, <1>3, <2>1, <2>2
  <2>3. CASE u # t
    BY <1>1, <1>4, <2>1, <2>3
  <2> QED BY <2>2, <2>3
<1>6. uxMutexesHeld' \in [Task -> 0..Cardinality(Mutex)]
  <2>1. \A u \in Task : uxMutexesHeld'[u] \in 0..Cardinality(Mutex)
    BY <1>5, HeldIsFinite
  <2> QED BY <1>1, <2>1
<1>7. TypeOK'
  <2>1. uxRecursiveCallCount' \in [Mutex -> 0..MaxRecursion]
    <3>1. uxRecursiveCallCount \in [Mutex -> 0..MaxRecursion] /\ {0, 1} \subseteq 0..MaxRecursion
      BY MutexAssumption DEF TypeOK
    <3> QED BY <3>1 DEF Acquire
  <2>2. xMutexHolder' \in [Mutex -> Task \cup {NoTask}]
    BY <1>1
  <2>3. Return(t) /\ UNCHANGED <<neverSuspended, pxCurrentTCB, uxPriority, xStateListItem,
                                 eventList, xYieldPending, pendSV, uxTopReadyPriority>>
    BY DEF Acquire
  <2> QED BY <1>6, <2>1, <2>2, <2>3, ReturnFacts DEF TypeOK, SchedTypeOK, neverSuspended
<1>8. uxMutexesHeld[t] \in Nat
  BY <1>1, MutexAssumption, FS_CardinalityType
<1> QED BY <1>1, <1>5, <1>7, <1>8

(* Taking a mutex keeps the invariant: whoever else was woken for it will  *)
(* find it taken.                                                          *)
LEMMA AcquireKeeps ==
    ASSUME IInv, NEW t \in Task, Acquire(t)
    PROVE  IInv'
<1> USE DEF IInv
<1>0. PICK m \in Mutex : m = op[t]
  BY DEF Acquire, WaitersAreTaking
<1>1. /\ op[t] = m /\ t = pxCurrentTCB /\ ~pendSV /\ pc[t] = "enter"
      /\ Available(m)
      /\ UNCHANGED <<neverSuspended, pxCurrentTCB, uxPriority, xStateListItem, eventList,
                     xYieldPending, pendSV, uxTopReadyPriority>>
      /\ \A k \in Mutex \ {m} : xMutexHolder'[k] = xMutexHolder[k]
      /\ xMutexHolder'[m] = t /\ xMutexHolder[m] = NoTask /\ NoTask \notin Task
  BY <1>0, MutexAssumption DEF Acquire, TypeOK, Available
<1>2. /\ pc'[t] = "app" /\ ~xInheritanceOccurred'[t]
      /\ \A u \in Task \ {t} :
             /\ pc'[u] = pc[u] /\ op'[u] = op[u]
             /\ xTicksToWait'[u] = xTicksToWait[u]
             /\ xInheritanceOccurred'[u] = xInheritanceOccurred[u]
  BY ReturnFacts DEF Acquire
<1>3. Ready' = Ready /\ BitsOf' = BitsOf /\ t \in Ready
  BY <1>1 DEF Ready, BitsOf, SchedulerRuns
<1>4. /\ \A k \in Mutex : Waiters(k)' = Waiters(k)
      /\ \A k \in Mutex \ {m} : Available(k)' <=> Available(k)
      /\ ~Available(m)'
      /\ \A u \in Task \ {t} : HoldsNone(u)' <=> HoldsNone(u)
  BY <1>1 DEF Waiters, Available, HoldsNone
<1>5. SchedulerRuns' /\ BitmapCovers'
  BY <1>1, <1>3 DEF SchedulerRuns, BitmapCovers, neverSuspended
<1>6. PriorityReturns'
  <2>1. ASSUME NEW u \in Task
        PROVE  /\ uxMutexesHeld'[u] = Cardinality({k \in Mutex : xMutexHolder'[k] = u})
               /\ uxPriority'[u] >= BasePriority[u]
               /\ uxMutexesHeld'[u] = 0 => uxPriority'[u] = BasePriority[u]
    BY <1>1, AcquireCounts DEF PriorityReturns, Held
  <2> QED BY <2>1 DEF PriorityReturns
<1>7. WaitersAreTaking'
  <2>1. \A k \in Mutex : NoDuplicates(eventList'[k])
    BY <1>1 DEF WaitersAreTaking
  <2>2. ASSUME NEW k \in Mutex, NEW u \in Task
        PROVE  u \in Waiters(k)' <=> u \notin Ready' /\ pc'[u] = "enter" /\ op'[u] = k
    BY <1>2, <1>3, <1>4 DEF WaitersAreTaking
  <2>3. ASSUME NEW u \in Task
        PROVE  /\ u \notin Ready' => pc'[u] \in {"delay", "enter"}
               /\ pc'[u] \in {"enter", "suspend", "retest", "disinherit"} => op'[u] \in Mutex
    BY <1>2, <1>3 DEF WaitersAreTaking
  <2> QED BY <2>1, <2>2, <2>3 DEF WaitersAreTaking
<1>8. WokenIsEntering'
  <2> SUFFICES ASSUME NEW k \in Mutex, Available(k)', Waiters(k)' # {}
               PROVE  \E u \in Ready' : op'[u] = k /\ pc'[u] = "enter"
    BY DEF WokenIsEntering
  <2>1. k # m
    BY <1>4
  <2>2. PICK u \in Ready : op[u] = k /\ pc[u] = "enter"
    BY <1>4, <2>1 DEF WokenIsEntering
  <2>3. u # t
    BY <1>1, <2>1, <2>2
  <2> QED BY <1>2, <1>3, <2>2, <2>3 DEF Ready
<1>9. ASSUME ~WaitsWhileHolding
      PROVE  NoChains'
  <2> USE <1>9 DEF NoChains
  <2>1. WaitersHoldNone'
    BY <1>2, <1>3, <1>4 DEF WaitersHoldNone, WaitsHoldingNone
  <2>2. \A k \in Mutex : InPriorityOrder(eventList[k])'
    BY <1>1 DEF InPriorityOrder
  <2>3. WokenOutranksWaiters'
    <3> SUFFICES ASSUME NEW k \in Mutex, Available(k)', Waiters(k)' # {}
                 PROVE  \E u \in Ready' :
                            /\ op'[u] = k /\ pc'[u] = "enter" /\ HoldsNone(u)'
                            /\ \A w \in Waiters(k)' : uxPriority'[w] <= uxPriority'[u]
      BY DEF WokenOutranksWaiters
    <3>1. k # m
      BY <1>4
    <3>2. PICK u \in Ready : /\ op[u] = k /\ pc[u] = "enter" /\ HoldsNone(u)
                             /\ \A w \in Waiters(k) : uxPriority[w] <= uxPriority[u]
      BY <1>4, <3>1 DEF WokenOutranksWaiters
    <3>3. u # t /\ u \in Task
      BY <1>1, <3>1, <3>2 DEF Ready
    <3> QED BY <1>1, <1>2, <1>3, <1>4, <3>2, <3>3
  <2>4. OutrankedRunsAtBase'
    BY <1>1, <1>2, <1>3 DEF OutrankedRunsAtBase, HighestReady
  <2> QED BY <2>1, <2>2, <2>3, <2>4
<1> QED BY <1>5, <1>6, <1>7, <1>8, <1>9, AcquireCounts

-----------------------------------------------------------------------------
(* Giving a mutex.                                                         *)

(* The order of a list is kept when none of its tasks changes priority.    *)
LEMMA OrderKept ==
    ASSUME NEW m \in Mutex, eventList'[m] \in Seq(Task), InPriorityOrder(eventList'[m]),
           \A w \in ToSet(eventList'[m]) : uxPriority'[w] = uxPriority[w]
    PROVE  InPriorityOrder(eventList[m])'
BY DEF InPriorityOrder, ToSet

(* The head of the list, if there is one, is made ready; the task asks for *)
(* a switch if that task outranks it, or if nobody waits and it has        *)
(* disinherited.                                                           *)
LEMMA WakeHeadFacts ==
    ASSUME IInv, NEW t \in Task, NEW m \in Mutex, WakeHead(t, m)
    PROVE  /\ eventList' \in [EventLists -> Seq(Task)]
           /\ xStateListItem' \in [Task -> {"ready", "delayed", "suspended"}]
           /\ pendSV' \in BOOLEAN /\ xYieldPending' \in BOOLEAN
           /\ \A k \in Mutex : NoDuplicates(eventList'[k])
           /\ \A k \in Mutex \ {m} : eventList'[k] = eventList[k]
           /\ InPriorityOrder(eventList[m]) => InPriorityOrder(eventList'[m])
           /\ \E W \in SUBSET Waiters(m) :
                  /\ Waiters(m)' = Waiters(m) \ W /\ Ready' = Ready \cup W
                  /\ W = {} => Waiters(m) = {} /\ pendSV' = Disinherits(t)
                  /\ ~pendSV' => \A w \in W : ~(uxPriority[w] > uxPriority'[t])
                  /\ \A h \in W : InPriorityOrder(eventList[m]) =>
                         \A w \in Waiters(m) : w = h \/ uxPriority[h] >= uxPriority[w]
<1> USE DEF IInv
<1>1. /\ EventLists = Mutex /\ eventList \in [Mutex -> Seq(Task)]
      /\ xStateListItem \in [Task -> {"ready", "delayed", "suspended"}]
      /\ xYieldPending \in BOOLEAN
      /\ eventList[m] \in Seq(Task) /\ NoDuplicates(eventList[m])
      /\ \A k \in Mutex : NoDuplicates(eventList[k])
      /\ Waiters(m) \subseteq Task
  BY StateFacts DEF TypeOK, SchedTypeOK
<1>2. CASE eventList[m] = <<>>
  <2>1. pendSV' = Disinherits(t) /\ UNCHANGED <<eventList, xStateListItem, xYieldPending>>
    BY <1>2 DEF WakeHead
  <2>2. Waiters(m) = {} /\ Waiters(m)' = {} /\ Ready' = Ready
    BY <1>2, <2>1 DEF Waiters, ToSet, Ready
  <2>3. Disinherits(t) \in BOOLEAN
    BY DEF Disinherits
  <2> QED BY <1>1, <2>1, <2>2, <2>3
<1>3. CASE eventList[m] # <<>>
  <2>1. PICK h : h = Head(eventList[m])
    OBVIOUS
  <2>2. /\ h \in Waiters(m) /\ h \in Task
        /\ Tail(eventList[m]) \in Seq(Task)
        /\ ToSet(Tail(eventList[m])) = Waiters(m) \ {h}
        /\ NoDuplicates(Tail(eventList[m]))
        /\ InPriorityOrder(eventList[m]) =>
              /\ InPriorityOrder(Tail(eventList[m]))
              /\ \A w \in Waiters(m) : w = h \/ uxPriority[h] >= uxPriority[w]
    BY <1>1, <1>3, <2>1, TailFacts DEF Waiters
  <2>3. /\ eventList' = [eventList EXCEPT ![m] = Tail(@)]
        /\ xStateListItem' = [xStateListItem EXCEPT ![h] = "ready"]
        /\ pendSV' = (uxPriority[h] > uxPriority'[t])
        /\ xYieldPending' = (xYieldPending \/ uxPriority[h] > uxPriority'[t])
    BY <1>3, <2>1 DEF WakeHead
  <2>4. Waiters(m)' = Waiters(m) \ {h}
    BY <1>1, <2>2, <2>3 DEF Waiters
  <2>5. Ready' = Ready \cup {h}
    BY <1>1, <2>2, <2>3 DEF Ready
  <2>6. /\ eventList' \in [EventLists -> Seq(Task)]
        /\ xStateListItem' \in [Task -> {"ready", "delayed", "suspended"}]
        /\ pendSV' \in BOOLEAN /\ xYieldPending' \in BOOLEAN
        /\ \A k \in Mutex \ {m} : eventList'[k] = eventList[k]
        /\ eventList'[m] = Tail(eventList[m])
    BY <1>1, <2>2, <2>3
  <2>7. \A k \in Mutex : NoDuplicates(eventList'[k])
    BY <1>1, <2>2, <2>6
  <2>8. /\ {h} \in SUBSET Waiters(m) /\ {h} # {}
        /\ ~pendSV' => \A w \in {h} : ~(uxPriority[w] > uxPriority'[t])
        /\ \A g \in {h} : InPriorityOrder(eventList[m]) =>
               \A w \in Waiters(m) : w = g \/ uxPriority[g] >= uxPriority[w]
    BY <2>2, <2>3
  <2> HIDE DEF WakeHead
  <2> QED BY <2>2, <2>4, <2>5, <2>6, <2>7, <2>8
<1> QED BY <1>2, <1>3

(* The holder counts one less, and falls to its base priority with the     *)
(* last.                                                                   *)
LEMMA GiveCounts ==
    ASSUME IInv, NEW t \in Task, NEW m \in Mutex, GiveMutex(t, m)
    PROVE  /\ \A u \in Task : uxMutexesHeld'[u] = Cardinality(Held(u)')
           /\ uxMutexesHeld' \in [Task -> 0..Cardinality(Mutex)]
           /\ uxPriority' \in [Task -> 0..MaxPriorities - 1]
           /\ \A u \in Task \ {t} : uxPriority'[u] = uxPriority[u]
                                    /\ uxMutexesHeld'[u] = uxMutexesHeld[u]
           /\ uxPriority'[t] = IF Disinherits(t) THEN BasePriority[t] ELSE uxPriority[t]
           /\ uxPriority'[t] >= BasePriority[t]
           /\ uxMutexesHeld'[t] = 0 => uxPriority'[t] = BasePriority[t]
           /\ xMutexHolder' = [xMutexHolder EXCEPT ![m] = NoTask]
<1> USE DEF IInv
<1>1. /\ xMutexHolder[m] = t /\ NoTask \notin Task
      /\ xMutexHolder' = [xMutexHolder EXCEPT ![m] = NoTask]
      /\ uxMutexesHeld' = [uxMutexesHeld EXCEPT ![t] = @ - 1]
      /\ xMutexHolder \in [Mutex -> Task \cup {NoTask}]
      /\ uxMutexesHeld \in [Task -> 0..Cardinality(Mutex)]
      /\ uxPriority' = [uxPriority EXCEPT ![t] = IF Disinherits(t) THEN BasePriority[t] ELSE @]
      /\ uxPriority \in [Task -> 0..MaxPriorities - 1]
      /\ BasePriority \in [Task -> 0..MaxPriorities - 1]
  BY MutexAssumption, TaskAssumption DEF GiveMutex, xTaskPriorityDisinherit, TypeOK, SchedTypeOK
<1>2. Held(t)' = Held(t) \ {m} /\ m \in Held(t)
  BY <1>1 DEF Held
<1>3. Cardinality(Held(t)') = Cardinality(Held(t)) - 1
  BY <1>2, HeldIsFinite, FS_RemoveElement
<1>4. ASSUME NEW u \in Task, u # t
      PROVE  Held(u)' = Held(u)
  BY <1>1, <1>4 DEF Held
<1>5. ASSUME NEW u \in Task
      PROVE  uxMutexesHeld'[u] = Cardinality(Held(u)')
  <2>1. uxMutexesHeld[u] = Cardinality(Held(u))
    BY DEF PriorityReturns, Held
  <2>2. CASE u = t
    BY <1>1, <1>3, <2>1, <2>2
  <2>3. CASE u # t
    BY <1>1, <1>4, <2>1, <2>3
  <2> QED BY <2>2, <2>3
<1>6. uxMutexesHeld' \in [Task -> 0..Cardinality(Mutex)]
  <2>1. \A u \in Task : uxMutexesHeld'[u] \in 0..Cardinality(Mutex)
    BY <1>5, HeldIsFinite
  <2> QED BY <1>1, <2>1
<1>7. /\ uxPriority'[t] = IF Disinherits(t) THEN BasePriority[t] ELSE uxPriority[t]
      /\ \A u \in Task \ {t} : uxPriority'[u] = uxPriority[u]
      /\ uxPriority' \in [Task -> 0..MaxPriorities - 1]
  BY <1>1
<1>8. uxPriority[t] >= BasePriority[t] /\ BasePriority[t] \in Nat
  <2>1. uxPriority[t] >= BasePriority[t]
    BY DEF PriorityReturns
  <2>2. BasePriority[t] \in Nat
    BY <1>1, TaskAssumption
  <2> QED BY <2>1, <2>2
<1>9. uxMutexesHeld'[t] = 0 => uxMutexesHeld[t] = 1
  BY <1>1, MutexAssumption, FS_CardinalityType
<1>10. uxMutexesHeld'[t] = 0 => uxPriority'[t] = BasePriority[t]
  BY <1>7, <1>9 DEF Disinherits
<1>11. uxPriority'[t] >= BasePriority[t]
  BY <1>7, <1>8
<1> QED BY <1>1, <1>5, <1>6, <1>7, <1>10, <1>11

(* Giving a mutex keeps the invariant: the task that is woken takes the    *)
(* mutex in its next step, unless another does so first.                   *)
LEMMA GiveMutexKeeps ==
    ASSUME IInv, NEW t \in Task, NEW m \in Mutex, GiveMutex(t, m)
    PROVE  IInv'
<1> USE DEF IInv
<1>1. /\ t = pxCurrentTCB /\ ~pendSV /\ pc[t] = "app" /\ t \in Ready
      /\ xMutexHolder[m] = t /\ Available(m)'
      /\ WakeHead(t, m)
      /\ UNCHANGED <<neverSuspended, pxCurrentTCB, deadline, callVars>>
      /\ RecordAndReset
  BY GiveCounts DEF GiveMutex, SchedulerRuns, TypeOK, Available
<1>2. /\ \A k \in Mutex \ {m} : (Available(k)' <=> Available(k)) /\ Waiters(k)' = Waiters(k)
      /\ \A u \in Task \ {t} : HoldsNone(u)' <=> HoldsNone(u)
      /\ xMutexHolder' \in [Mutex -> Task \cup {NoTask}]
  <2>1. xMutexHolder \in [Mutex -> Task \cup {NoTask}] /\ NoTask \notin Task
    BY MutexAssumption DEF TypeOK
  <2> QED BY <1>1, <2>1, GiveCounts, WakeHeadFacts DEF Available, Waiters, HoldsNone
<1>3. PICK W \in SUBSET Waiters(m) :
          /\ Waiters(m)' = Waiters(m) \ W /\ Ready' = Ready \cup W
          /\ W = {} => Waiters(m) = {} /\ pendSV' = Disinherits(t)
          /\ ~pendSV' => \A w \in W : ~(uxPriority[w] > uxPriority'[t])
          /\ \A h \in W : InPriorityOrder(eventList[m]) =>
                 \A w \in Waiters(m) : w = h \/ uxPriority[h] >= uxPriority[w]
  BY <1>1, WakeHeadFacts
<1>4. TypeOK'
  <2>1. uxRecursiveCallCount' \in [Mutex -> 0..MaxRecursion]
    <3>1. uxRecursiveCallCount \in [Mutex -> 0..MaxRecursion] /\ 0 \in 0..MaxRecursion
      BY MutexAssumption DEF TypeOK
    <3> QED BY <3>1 DEF GiveMutex
  <2>2. uxTopReadyPriority' \in SUBSET (0..MaxPriorities - 1)
    BY <1>1, GiveCounts, RecordFacts
  <2> QED BY <1>1, <1>2, <2>1, <2>2, GiveCounts, WakeHeadFacts
          DEF TypeOK, SchedTypeOK, neverSuspended, callVars
<1>5. SchedulerRuns' /\ BitmapCovers'
  BY <1>1, <1>3, GiveCounts, RecordFacts DEF SchedulerRuns, neverSuspended
<1>6. PriorityReturns'
  <2>1. ASSUME NEW u \in Task
        PROVE  /\ uxMutexesHeld'[u] = Cardinality({k \in Mutex : xMutexHolder'[k] = u})
               /\ uxPriority'[u] >= BasePriority[u]
               /\ uxMutexesHeld'[u] = 0 => uxPriority'[u] = BasePriority[u]
    <3>1. CASE u = t
      BY <3>1, GiveCounts DEF Held
    <3>2. CASE u # t
      BY <3>2, GiveCounts DEF Held, PriorityReturns
    <3> QED BY <3>1, <3>2
  <2> QED BY <2>1 DEF PriorityReturns
<1>7. WaitersAreTaking'
  <2>1. \A k \in Mutex : NoDuplicates(eventList'[k])
    BY <1>1, WakeHeadFacts
  <2>2. ASSUME NEW k \in Mutex, NEW u \in Task
        PROVE  u \in Waiters(k)' <=> u \notin Ready' /\ pc'[u] = "enter" /\ op'[u] = k
    BY <1>1, <1>2, <1>3 DEF WaitersAreTaking, callVars
  <2>3. ASSUME NEW u \in Task
        PROVE  /\ u \notin Ready' => pc'[u] \in {"delay", "enter"}
               /\ pc'[u] \in {"enter", "suspend", "retest", "disinherit"} => op'[u] \in Mutex
    BY <1>1, <1>3 DEF WaitersAreTaking, callVars
  <2> QED BY <2>1, <2>2, <2>3 DEF WaitersAreTaking
<1>8. \A w \in W : w \in Task /\ op[w] = m /\ pc[w] = "enter" /\ w \notin Ready /\ w # t
  BY <1>1, <1>3, StateFacts DEF WaitersAreTaking
<1>9. WokenIsEntering'
  <2> SUFFICES ASSUME NEW k \in Mutex, Available(k)', Waiters(k)' # {}
               PROVE  \E u \in Ready' : op'[u] = k /\ pc'[u] = "enter"
    BY DEF WokenIsEntering
  <2>1. CASE k = m
    <3>1. PICK w \in W : TRUE
      BY <1>3, <2>1
    <3> QED BY <1>1, <1>3, <1>8, <2>1 DEF callVars
  <2>2. CASE k # m
    BY <1>1, <1>2, <1>3, <2>2 DEF WokenIsEntering, callVars
  <2> QED BY <2>1, <2>2
<1>10. ASSUME ~WaitsWhileHolding
       PROVE  NoChains'
  <2> USE <1>10 DEF NoChains
  <2>1. ASSUME NEW u \in Task
        PROVE  WaitsHoldingNone(u)'
    <3>1. WaitsHoldingNone(u)
      BY DEF WaitersHoldNone
    <3>2. CASE u = t
      BY <1>1, <3>1, <3>2 DEF WaitsHoldingNone, callVars
    <3>3. CASE u # t
      BY <1>1, <1>2, <1>3, <3>1, <3>3 DEF WaitsHoldingNone, callVars
    <3> QED BY <3>2, <3>3
  <2>2. \A k \in Mutex : \A w \in Waiters(k) : w # t /\ uxPriority'[w] = uxPriority[w] /\ HoldsNone(w)
    <3>1. ASSUME NEW k \in Mutex, NEW w \in Waiters(k)
          PROVE  w # t /\ uxPriority'[w] = uxPriority[w] /\ HoldsNone(w)
      <4>1. w \in Task /\ w \notin Ready
        BY StateFacts
      <4>2. pc[w] = "enter"
        BY <4>1 DEF WaitersAreTaking
      <4>3. HoldsNone(w)
        BY <4>1, <4>2 DEF WaitersHoldNone, WaitsHoldingNone
      <4> QED BY <1>1, <4>1, <4>3, GiveCounts
    <3> QED BY <3>1
  <2>3. \A k \in Mutex : InPriorityOrder(eventList[k])'
    <3> SUFFICES ASSUME NEW k \in Mutex
                 PROVE  InPriorityOrder(eventList[k])'
      OBVIOUS
    <3>1. InPriorityOrder(eventList'[k]) /\ eventList'[k] \in Seq(Task)
      BY <1>1, WakeHeadFacts, StateFacts
    <3>2. ToSet(eventList'[k]) \subseteq Waiters(k)
      BY <1>2, <1>3 DEF Waiters
    <3> QED BY <2>2, <3>1, <3>2, OrderKept
  <2>4. WokenOutranksWaiters'
    <3> SUFFICES ASSUME NEW k \in Mutex, Available(k)', Waiters(k)' # {}
                 PROVE  \E u \in Ready' :
                            /\ op'[u] = k /\ pc'[u] = "enter" /\ HoldsNone(u)'
                            /\ \A w \in Waiters(k)' : uxPriority'[w] <= uxPriority'[u]
      BY DEF WokenOutranksWaiters
    <3>0. Waiters(k)' \subseteq Waiters(k)
      BY <1>2, <1>3
    <3>1. CASE k = m
      <4>1. PICK h \in W : \A w \in Waiters(m) : w = h \/ uxPriority[h] >= uxPriority[w]
        BY <1>3, <3>1
      <4>2. HoldsNone(h) /\ uxPriority'[h] = uxPriority[h] /\ h \in Task
        BY <1>8, <2>2
      <4>3. HoldsNone(h)' /\ op'[h] = m /\ pc'[h] = "enter"
        BY <1>1, <1>2, <1>8, <4>2 DEF callVars
      <4>4. \A w \in Waiters(m)' : uxPriority'[w] <= uxPriority'[h]
        BY <1>3, <2>2, <4>1, <4>2, StateFacts
      <4> QED BY <1>3, <3>1, <4>3, <4>4
    <3>2. CASE k # m
      <4>1. PICK u \in Ready : /\ op[u] = k /\ pc[u] = "enter" /\ HoldsNone(u)
                               /\ \A w \in Waiters(k) : uxPriority[w] <= uxPriority[u]
        BY <1>2, <3>2 DEF WokenOutranksWaiters
      <4>2. u \in Task /\ u # t
        BY <1>1, <4>1 DEF Ready
      <4>3. HoldsNone(u)' /\ op'[u] = k /\ pc'[u] = "enter" /\ uxPriority'[u] = uxPriority[u]
        BY <1>1, <1>2, <4>1, <4>2, GiveCounts DEF callVars
      <4> QED BY <1>3, <2>2, <3>0, <4>1, <4>3
    <3> QED BY <3>1, <3>2
  <2>5. OutrankedRunsAtBase'
    <3>1. ~xInheritanceOccurred'[t]
      BY <1>1 DEF WaitersHoldNone, WaitsHoldingNone, callVars
    <3>2. CASE Disinherits(t)
      BY <1>1, <3>1, <3>2, GiveCounts DEF OutrankedRunsAtBase
    <3>3. CASE ~Disinherits(t)
      <4>1. uxPriority' = uxPriority
        <5>1. \A u \in Task : uxPriority'[u] = uxPriority[u]
          BY <3>3, GiveCounts
        <5>2. uxPriority' \in [Task -> 0..MaxPriorities - 1] /\ uxPriority \in [Task -> 0..MaxPriorities - 1]
          BY GiveCounts DEF TypeOK, SchedTypeOK
        <5> QED BY <5>1, <5>2
      <4>2. ASSUME ~pendSV', t \in HighestReady
            PROVE  t \in HighestReady'
        <5>1. \A w \in W : uxPriority[w] <= uxPriority[t]
          BY <1>3, <1>8, <4>1, <4>2, StateFacts
        <5> QED BY <1>3, <4>1, <4>2, <5>1 DEF HighestReady
      <4> QED BY <1>1, <3>1, <4>1, <4>2 DEF OutrankedRunsAtBase
    <3> QED BY <3>2, <3>3
  <2> QED BY <2>1, <2>3, <2>4, <2>5 DEF WaitersHoldNone
<1> QED BY <1>4, <1>5, <1>6, <1>7, <1>9, <1>10

-----------------------------------------------------------------------------
(* Falling asleep.                                                         *)

(* vTaskDelay keeps the invariant.                                         *)
LEMMA DelayKeeps ==
    ASSUME IInv, NEW t \in Task, vTaskDelay(t)
    PROVE  IInv'
<1> USE DEF IInv
<1>1. /\ t = pxCurrentTCB /\ pc[t] = "app" /\ t \in Ready /\ pendSV'
      /\ UNCHANGED <<neverSuspended, pxCurrentTCB, uxPriority, eventList, xYieldPending,
                     mutexVars, op, xTicksToWait, xInheritanceOccurred>>
      /\ pc'[t] = "delay" /\ \A u \in Task \ {t} : pc'[u] = pc[u]
      /\ RecordAndReset
  BY DEF vTaskDelay, SchedulerRuns, TypeOK
<1>2. Ready' = Ready \ {t}
  BY <1>1 DEF vTaskDelay, Ready, TypeOK, SchedTypeOK
<1>3. /\ \A k \in Mutex : (Available(k)' <=> Available(k)) /\ Waiters(k)' = Waiters(k)
      /\ \A u \in Task : HoldsNone(u)' <=> HoldsNone(u)
  BY <1>1 DEF Available, Waiters, HoldsNone, mutexVars
<1>4. TypeOK'
  <2>1. uxTopReadyPriority' \in SUBSET (0..MaxPriorities - 1)
    BY <1>1, RecordFacts DEF TypeOK, SchedTypeOK
  <2> QED BY <1>1, <2>1 DEF TypeOK, SchedTypeOK, vTaskDelay, neverSuspended, mutexVars
<1>5. SchedulerRuns' /\ BitmapCovers' /\ PriorityReturns'
  BY <1>1, RecordFacts DEF TypeOK, SchedTypeOK, SchedulerRuns, PriorityReturns, neverSuspended, mutexVars
<1>6. WaitersAreTaking'
  <2>1. \A k \in Mutex : NoDuplicates(eventList'[k])
    BY <1>1 DEF WaitersAreTaking
  <2>2. ASSUME NEW k \in Mutex, NEW u \in Task
        PROVE  u \in Waiters(k)' <=> u \notin Ready' /\ pc'[u] = "enter" /\ op'[u] = k
    BY <1>1, <1>2, <1>3 DEF WaitersAreTaking
  <2>3. ASSUME NEW u \in Task
        PROVE  /\ u \notin Ready' => pc'[u] \in {"delay", "enter"}
               /\ pc'[u] \in {"enter", "suspend", "retest", "disinherit"} => op'[u] \in Mutex
    BY <1>1, <1>2 DEF WaitersAreTaking
  <2> QED BY <2>1, <2>2, <2>3 DEF WaitersAreTaking
<1>7. WokenIsEntering'
  <2> SUFFICES ASSUME NEW k \in Mutex, Available(k)', Waiters(k)' # {}
               PROVE  \E u \in Ready' : op'[u] = k /\ pc'[u] = "enter"
    BY DEF WokenIsEntering
  <2>1. PICK u \in Ready : op[u] = k /\ pc[u] = "enter"
    BY <1>3 DEF WokenIsEntering
  <2>2. u # t /\ u \in Task
    BY <1>1, <2>1 DEF Ready
  <2> QED BY <1>1, <1>2, <2>1, <2>2
<1>8. ASSUME ~WaitsWhileHolding
      PROVE  NoChains'
  <2> USE <1>8 DEF NoChains
  <2>1. ASSUME NEW u \in Task
        PROVE  WaitsHoldingNone(u)'
    <3>1. WaitsHoldingNone(u)
      BY DEF WaitersHoldNone
    <3>2. CASE u = t
      BY <1>1, <3>1, <3>2 DEF WaitsHoldingNone
    <3>3. CASE u # t
      BY <1>1, <1>2, <1>3, <3>1, <3>3 DEF WaitsHoldingNone
    <3> QED BY <3>2, <3>3
  <2>2. \A k \in Mutex : InPriorityOrder(eventList[k])'
    BY <1>1 DEF InPriorityOrder
  <2>3. WokenOutranksWaiters'
    <3> SUFFICES ASSUME NEW k \in Mutex, Available(k)', Waiters(k)' # {}
                 PROVE  \E u \in Ready' :
                            /\ op'[u] = k /\ pc'[u] = "enter" /\ HoldsNone(u)'
                            /\ \A w \in Waiters(k)' : uxPriority'[w] <= uxPriority'[u]
      BY DEF WokenOutranksWaiters
    <3>1. PICK u \in Ready : /\ op[u] = k /\ pc[u] = "enter" /\ HoldsNone(u)
                             /\ \A w \in Waiters(k) : uxPriority[w] <= uxPriority[u]
      BY <1>3 DEF WokenOutranksWaiters
    <3>2. u # t /\ u \in Task
      BY <1>1, <3>1 DEF Ready
    <3> QED BY <1>1, <1>2, <1>3, <3>1, <3>2
  <2>4. OutrankedRunsAtBase'
    BY <1>1 DEF OutrankedRunsAtBase
  <2> QED BY <2>1, <2>2, <2>3, <2>4 DEF WaitersHoldNone
<1> QED BY <1>4, <1>5, <1>6, <1>7, <1>8

(* What a wait does to the list and to the priority of the holder.         *)
LEMMA WaitFacts ==
    ASSUME IInv, NEW t \in Task, Wait(t)
    PROVE  /\ op[t] \in Mutex /\ ~Available(op[t]) /\ xMutexHolder[op[t]] \in Task
           /\ pc[t] = "suspend" /\ t = pxCurrentTCB /\ t \in Ready /\ ~pendSV /\ pendSV'
           /\ eventList' \in [EventLists -> Seq(Task)]
           /\ xStateListItem' \in [Task -> {"ready", "delayed", "suspended"}]
           /\ \A k \in Mutex : NoDuplicates(eventList'[k])
           /\ \A k \in Mutex \ {op[t]} : eventList'[k] = eventList[k]
           /\ Waiters(op[t])' = Waiters(op[t]) \cup {t}
           /\ InPriorityOrder(eventList[op[t]]) => InPriorityOrder(eventList'[op[t]])
           /\ Ready' = Ready \ {t}
           /\ uxPriority' \in [Task -> 0..MaxPriorities - 1]
           /\ \A u \in Task : uxPriority'[u] >= uxPriority[u]
           /\ \A u \in Task \ {xMutexHolder[op[t]]} : uxPriority'[u] = uxPriority[u]
           /\ uxPriority'[xMutexHolder[op[t]]] >= uxPriority[t]
<1> USE DEF IInv
<1>1. /\ op[t] \in Mutex /\ ~Available(op[t]) /\ xMutexHolder[op[t]] \in Task
      /\ pc[t] = "suspend" /\ t = pxCurrentTCB /\ t \in Ready /\ ~pendSV /\ pendSV'
      /\ xTaskPriorityInherit(xMutexHolder[op[t]])
      /\ vTaskPlaceOnEventList(op[t], xTicksToWait[t] = "max")
  BY StateFacts DEF Wait, WaitersAreTaking, SchedulerRuns
<1>2. PICK m \in Mutex : m = op[t]
  BY <1>1
<1>3. PICK h \in Task : h = xMutexHolder[op[t]]
  BY <1>1
<1>4. /\ eventList \in [Mutex -> Seq(Task)] /\ EventLists = Mutex
      /\ xStateListItem \in [Task -> {"ready", "delayed", "suspended"}]
      /\ uxPriority \in [Task -> 0..MaxPriorities - 1]
      /\ \A k \in Mutex : NoDuplicates(eventList[k])
      /\ t \notin Waiters(m)
  BY <1>1, StateFacts DEF TypeOK, SchedTypeOK
<1>5. PICK s \in ListInsert(eventList[m], t) : eventList' = [eventList EXCEPT ![m] = s]
  BY <1>1, <1>2 DEF vTaskPlaceOnEventList
<1>6. /\ s \in Seq(Task) /\ ToSet(s) = Waiters(m) \cup {t} /\ NoDuplicates(s)
      /\ InPriorityOrder(eventList[m]) => InPriorityOrder(s)
  BY <1>4, <1>5, ListInsertFacts, InsertKeepsOrder DEF Waiters
<1>7. /\ eventList' \in [EventLists -> Seq(Task)]
      /\ \A k \in Mutex : NoDuplicates(eventList'[k])
      /\ \A k \in Mutex \ {m} : eventList'[k] = eventList[k]
      /\ eventList'[m] = s
  BY <1>4, <1>5, <1>6
<1>8. ToSet(eventList'[m]) = Waiters(m) \cup {t}
  BY <1>6, <1>7
<1>9. xStateListItem' \in [Task -> {"ready", "delayed", "suspended"}] /\ Ready' = Ready \ {t}
  BY <1>1, <1>4 DEF vTaskPlaceOnEventList, Ready
<1>10. uxPriority' = [uxPriority EXCEPT ![h] = IF @ < uxPriority[t] THEN uxPriority[t] ELSE @]
  BY <1>1, <1>3 DEF xTaskPriorityInherit
<1>11. /\ uxPriority' \in [Task -> 0..MaxPriorities - 1]
       /\ \A u \in Task \ {h} : uxPriority'[u] = uxPriority[u]
       /\ uxPriority'[h] >= uxPriority[t]
       /\ \A u \in Task : uxPriority'[u] >= uxPriority[u]
  <2>1. \A u \in Task : uxPriority[u] \in Nat
    BY StateFacts
  <2>2. uxPriority'[h] = IF uxPriority[h] < uxPriority[t] THEN uxPriority[t] ELSE uxPriority[h]
    BY <1>4, <1>10
  <2>3. \A u \in Task \ {h} : uxPriority'[u] = uxPriority[u]
    BY <1>4, <1>10
  <2>4. uxPriority' \in [Task -> 0..MaxPriorities - 1]
    BY <1>4, <1>10
  <2>5. uxPriority'[h] >= uxPriority[t] /\ uxPriority'[h] >= uxPriority[h]
    BY <2>1, <2>2
  <2>6. \A u \in Task : uxPriority'[u] >= uxPriority[u]
    BY <2>1, <2>3, <2>5
  <2> QED BY <2>3, <2>4, <2>5, <2>6
<1>12. Waiters(op[t])' = Waiters(op[t]) \cup {t}
  <2>1. op' = op
    BY DEF Wait
  <2> QED BY <1>2, <1>8, <2>1 DEF Waiters
<1> QED BY <1>1, <1>2, <1>3, <1>6, <1>7, <1>9, <1>11, <1>12

(* Waiting for a mutex keeps the invariant: the holder inherits, which is  *)
(* itself on no list if it does not wait holding one.                      *)
LEMMA WaitKeeps ==
    ASSUME IInv, NEW t \in Task, Wait(t)
    PROVE  IInv'
<1> USE DEF IInv
<1>1. /\ UNCHANGED <<neverSuspended, pxCurrentTCB, xYieldPending, deadline, mutexVars, op,
                     xTicksToWait>>
      /\ pc'[t] = "enter" /\ \A u \in Task \ {t} :
             pc'[u] = pc[u] /\ xInheritanceOccurred'[u] = xInheritanceOccurred[u]
      /\ RecordAndReset
  BY DEF Wait, TypeOK
<1>2. PICK m \in Mutex : m = op[t] /\ op'[t] = m
  BY <1>1, WaitFacts
<1>3. PICK h \in Task : h = xMutexHolder[m]
  BY <1>2, WaitFacts
<1>4. /\ \A k \in Mutex : Available(k)' <=> Available(k)
      /\ ~Available(m)'
      /\ \A k \in Mutex \ {m} : Waiters(k)' = Waiters(k)
      /\ Waiters(m)' = Waiters(m) \cup {t}
      /\ \A u \in Task : HoldsNone(u)' <=> HoldsNone(u)
  <2>1. xMutexHolder' = xMutexHolder
    BY <1>1 DEF mutexVars
  <2>2. Waiters(m)' = Waiters(m) \cup {t}
    BY <1>1, <1>2, WaitFacts DEF Waiters
  <2> QED BY <1>2, <2>1, <2>2, WaitFacts DEF Available, Waiters, HoldsNone
<1>5. TypeOK'
  <2>1. uxTopReadyPriority' \in SUBSET (0..MaxPriorities - 1)
    BY <1>1, WaitFacts, RecordFacts
  <2>2. /\ pc' \in [Task -> {"app", "delay", "enter", "suspend", "retest", "disinherit"}]
        /\ pendSV' \in BOOLEAN
    BY DEF Wait, TypeOK
  <2>3. xInheritanceOccurred' \in [Task -> BOOLEAN]
    <3>1. xInheritanceOccurred \in [Task -> BOOLEAN]
      BY DEF TypeOK
    <3>2. Inherits(xMutexHolder[op[t]]) \in BOOLEAN
      BY DEF Inherits
    <3>3. xInheritanceOccurred' = [xInheritanceOccurred EXCEPT ![t] = Inherits(xMutexHolder[op[t]])]
      BY DEF Wait
    <3> QED BY <3>1, <3>2, <3>3
  <2> QED BY <1>1, <2>1, <2>2, <2>3, WaitFacts DEF TypeOK, SchedTypeOK, neverSuspended, mutexVars
<1>6. SchedulerRuns' /\ BitmapCovers'
  BY <1>1, WaitFacts, RecordFacts DEF SchedulerRuns, neverSuspended
<1>7. PriorityReturns'
  <2>1. xMutexHolder' = xMutexHolder /\ uxMutexesHeld' = uxMutexesHeld
    BY <1>1 DEF mutexVars
  <2>2. uxMutexesHeld[h] # 0
    <3>1. ~HoldsNone(h)
      BY <1>3 DEF HoldsNone
    <3> QED BY <3>1, StateFacts
  <2>3. ASSUME NEW u \in Task
        PROVE  /\ uxPriority'[u] >= BasePriority[u]
               /\ uxMutexesHeld'[u] = 0 => uxPriority'[u] = BasePriority[u]
    <3>1. /\ uxPriority[u] >= BasePriority[u] /\ uxPriority'[u] >= uxPriority[u]
          /\ uxMutexesHeld[u] = 0 => uxPriority[u] = BasePriority[u]
      BY WaitFacts DEF PriorityReturns
    <3>2. uxPriority[u] \in Nat /\ BasePriority[u] \in Nat /\ uxPriority'[u] \in Nat
      BY <1>5, StateFacts, TaskAssumption DEF TypeOK, SchedTypeOK
    <3>3. u # h => uxPriority'[u] = uxPriority[u]
      BY <1>2, <1>3, WaitFacts
    <3>4. uxMutexesHeld'[u] = 0 => u # h /\ uxMutexesHeld[u] = 0
      BY <2>1, <2>2
    <3>5. uxPriority'[u] >= BasePriority[u]
      BY <3>1, <3>2
    <3> QED BY <3>1, <3>3, <3>4, <3>5
  <2> QED BY <2>1, <2>3 DEF PriorityReturns
<1>8. WaitersAreTaking'
  <2>1. \A k \in Mutex : NoDuplicates(eventList'[k])
    BY WaitFacts
  <2>2. ASSUME NEW k \in Mutex, NEW u \in Task
        PROVE  u \in Waiters(k)' <=> u \notin Ready' /\ pc'[u] = "enter" /\ op'[u] = k
    <3>1. u \in Waiters(k) <=> u \notin Ready /\ pc[u] = "enter" /\ op[u] = k
      BY DEF WaitersAreTaking
    <3>2. u \in Waiters(k)' <=> u \in Waiters(k) \/ (u = t /\ k = m)
      BY <1>4
    <3>3. Ready' = Ready \ {t} /\ t \in Ready /\ op' = op
      BY <1>1, WaitFacts
    <3> QED BY <1>1, <1>2, <3>1, <3>2, <3>3
  <2>3. ASSUME NEW u \in Task
        PROVE  /\ u \notin Ready' => pc'[u] \in {"delay", "enter"}
               /\ pc'[u] \in {"enter", "suspend", "retest", "disinherit"} => op'[u] \in Mutex
    BY <1>1, <1>2, WaitFacts DEF WaitersAreTaking
  <2> QED BY <2>1, <2>2, <2>3 DEF WaitersAreTaking
<1>9. WokenIsEntering'
  <2> SUFFICES ASSUME NEW k \in Mutex, Available(k)', Waiters(k)' # {}
               PROVE  \E u \in Ready' : op'[u] = k /\ pc'[u] = "enter"
    BY DEF WokenIsEntering
  <2>1. k # m /\ Available(k) /\ Waiters(k) # {}
    BY <1>4
  <2>2. PICK u \in Ready : op[u] = k /\ pc[u] = "enter"
    BY <2>1 DEF WokenIsEntering
  <2>3. u # t /\ u \in Task
    BY <1>2, <2>1, <2>2 DEF Ready
  <2> QED BY <1>1, <2>2, <2>3, WaitFacts
<1>10. ASSUME ~WaitsWhileHolding
       PROVE  NoChains'
  <2> USE <1>10 DEF NoChains
  <2>1. HoldsNone(t) /\ xTicksToWait[t] # "zero"
    BY WaitFacts DEF WaitersHoldNone, WaitsHoldingNone
  <2>2. ASSUME NEW u \in Task
        PROVE  WaitsHoldingNone(u)'
    <3>1. WaitsHoldingNone(u)
      BY DEF WaitersHoldNone
    <3>2. CASE u = t
      BY <1>1, <1>4, <2>1, <3>2 DEF WaitsHoldingNone
    <3>3. CASE u # t
      BY <1>1, <1>4, <3>1, <3>3, WaitFacts DEF WaitsHoldingNone
    <3> QED BY <3>2, <3>3
  <2>3. \A u \in Task : HoldsNone(u) => uxPriority'[u] = uxPriority[u]
    BY <1>2, <1>3, WaitFacts DEF HoldsNone
  <2>4. ASSUME NEW k \in Mutex, NEW w \in Waiters(k)
        PROVE  uxPriority'[w] = uxPriority[w]
    <3>1. w \in Task /\ w \notin Ready
      BY StateFacts
    <3>2. pc[w] = "enter"
      BY <3>1 DEF WaitersAreTaking
    <3>3. HoldsNone(w)
      BY <3>1, <3>2 DEF WaitersHoldNone, WaitsHoldingNone
    <3> QED BY <2>3, <3>1, <3>3
  <2>5. \A k \in Mutex : InPriorityOrder(eventList[k])'
    <3> SUFFICES ASSUME NEW k \in Mutex
                 PROVE  InPriorityOrder(eventList[k])'
      OBVIOUS
    <3>1. eventList'[k] \in Seq(Task)
      BY WaitFacts, StateFacts
    <3>2. InPriorityOrder(eventList'[k])
      BY <1>2, WaitFacts
    <3>3. ASSUME NEW w \in ToSet(eventList'[k])
          PROVE  uxPriority'[w] = uxPriority[w]
      <4>1. w \in Waiters(k) \/ w = t
        BY <1>4 DEF Waiters
      <4> QED BY <2>1, <2>3, <2>4, <4>1
    <3> QED BY <3>1, <3>2, <3>3, OrderKept
  <2>6. WokenOutranksWaiters'
    <3> SUFFICES ASSUME NEW k \in Mutex, Available(k)', Waiters(k)' # {}
                 PROVE  \E u \in Ready' :
                            /\ op'[u] = k /\ pc'[u] = "enter" /\ HoldsNone(u)'
                            /\ \A w \in Waiters(k)' : uxPriority'[w] <= uxPriority'[u]
      BY DEF WokenOutranksWaiters
    <3>1. k # m /\ Available(k) /\ Waiters(k) # {} /\ Waiters(k)' = Waiters(k)
      BY <1>4
    <3>2. PICK u \in Ready : /\ op[u] = k /\ pc[u] = "enter" /\ HoldsNone(u)
                             /\ \A w \in Waiters(k) : uxPriority[w] <= uxPriority[u]
      BY <3>1 DEF WokenOutranksWaiters
    <3>3. u # t /\ u \in Task
      BY <1>2, <3>1, <3>2 DEF Ready
    <3>4. u \in Ready' /\ op'[u] = k /\ pc'[u] = "enter" /\ HoldsNone(u)' /\ uxPriority'[u] = uxPriority[u]
      BY <1>1, <1>4, <2>3, <3>2, <3>3, WaitFacts
    <3> QED BY <2>4, <3>1, <3>2, <3>4
  <2>7. OutrankedRunsAtBase'
    BY WaitFacts DEF OutrankedRunsAtBase
  <2> QED BY <2>2, <2>5, <2>6, <2>7 DEF WaitersHoldNone
<1> QED BY <1>5, <1>6, <1>7, <1>8, <1>9, <1>10

-----------------------------------------------------------------------------
(* Disinheriting after a time-out.                                         *)

(* The holder has the change of priority only, and only with one mutex     *)
(* left; its new priority is one of the bitmap, and is not below that of   *)
(* any waiter if the list is in order.                                     *)
LEMMA DisinheritFacts ==
    ASSUME IInv, NEW t \in Task, DisinheritAfterTimeout(t)
    PROVE  /\ op[t] \in Mutex /\ t = pxCurrentTCB /\ ~pendSV /\ t \in Ready
           /\ pc[t] = "disinherit"
           /\ UNCHANGED <<neverSuspended, pxCurrentTCB, xStateListItem, eventList,
                          xYieldPending, pendSV, mutexVars>>
           /\ uxPriority' \in [Task -> 0..MaxPriorities - 1]
           /\ uxTopReadyPriority' \in SUBSET (0..MaxPriorities - 1)
           /\ BitmapCovers'
           /\ \/ uxPriority' = uxPriority /\ uxTopReadyPriority' = uxTopReadyPriority
              \/ LET m == op[t]
                     h == xMutexHolder[m]
                     p == PriorityToUse(m, h)
                 IN  /\ h \in Task /\ h # t /\ uxMutexesHeld[h] = 1
                     /\ uxPriority' = [uxPriority EXCEPT ![h] = p]
                     /\ p \in 0..MaxPriorities - 1 /\ p >= BasePriority[h]
                     /\ uxTopReadyPriority' = uxTopReadyPriority \cup {q \in {p} : h \in Ready}
                     /\ InPriorityOrder(eventList[m]) => \A w \in Waiters(m) : uxPriority[w] <= p
<1> USE DEF IInv
<1>1. /\ op[t] \in Mutex /\ t = pxCurrentTCB /\ ~pendSV /\ t \in Ready
      /\ pc[t] = "disinherit"
      /\ UNCHANGED <<neverSuspended, pxCurrentTCB, xStateListItem, eventList,
                     xYieldPending, pendSV, mutexVars>>
  BY DEF DisinheritAfterTimeout, WaitersAreTaking, SchedulerRuns
<1>2. PICK m \in Mutex : m = op[t]
  BY <1>1
<1>3. PICK h : h = xMutexHolder[m]
  OBVIOUS
<1>4. PICK p : p = PriorityToUse(m, h)
  OBVIOUS
<1>5. /\ uxPriority \in [Task -> 0..MaxPriorities - 1]
      /\ uxTopReadyPriority \in SUBSET (0..MaxPriorities - 1)
      /\ BitsOf \subseteq uxTopReadyPriority
      /\ BasePriority \in [Task -> 0..MaxPriorities - 1] /\ MaxPriorities \in Nat \ {0}
  BY TaskAssumption DEF TypeOK, SchedTypeOK, BitmapCovers
<1>6. CASE uxPriority' = uxPriority /\ uxTopReadyPriority' = uxTopReadyPriority
  <2>1. BitsOf' = BitsOf
    BY <1>1, <1>6 DEF BitsOf, Ready
  <2> QED BY <1>1, <1>5, <1>6, <2>1 DEF BitmapCovers
<1>7. CASE ~(uxPriority' = uxPriority /\ uxTopReadyPriority' = uxTopReadyPriority)
  <2>1. /\ h # NoTask /\ uxMutexesHeld[h] = 1 /\ h # t
        /\ uxPriority' = [uxPriority EXCEPT ![h] = p]
        /\ uxTopReadyPriority' = uxTopReadyPriority \cup {q \in {p} : h \in Ready}
    BY <1>2, <1>3, <1>4, <1>7 DEF DisinheritAfterTimeout
  <2>2. h \in Task
    BY <1>3, <2>1, StateFacts DEF Available
  <2>3. DisinheritPriority(m) \in 0..MaxPriorities - 1
    <3>1. eventList[m] # <<>> => Head(eventList[m]) \in Task
      BY StateFacts, TailFacts
    <3> QED BY <1>5, <3>1 DEF DisinheritPriority
  <2>4. /\ p \in 0..MaxPriorities - 1 /\ p >= BasePriority[h] /\ p >= DisinheritPriority(m)
    BY <1>4, <1>5, <2>2, <2>3 DEF PriorityToUse
  <2>5. ASSUME InPriorityOrder(eventList[m]), NEW w \in Waiters(m)
        PROVE  uxPriority[w] <= p
    <3>1. eventList[m] # <<>>
      BY DEF Waiters, ToSet
    <3>2. w = Head(eventList[m]) \/ uxPriority[Head(eventList[m])] >= uxPriority[w]
      BY <2>5, <3>1, StateFacts, TailFacts DEF Waiters
    <3>3. /\ uxPriority[w] \in Nat /\ uxPriority[Head(eventList[m])] \in Nat
          /\ DisinheritPriority(m) = uxPriority[Head(eventList[m])]
      BY <3>1, StateFacts, TailFacts DEF DisinheritPriority
    <3> QED BY <2>4, <3>2, <3>3
  <2>6. uxPriority' \in [Task -> 0..MaxPriorities - 1]
    BY <1>5, <2>1, <2>4
  <2>7. ASSUME NEW u \in Ready
        PROVE  uxPriority'[u] \in uxTopReadyPriority'
    <3>1. u \in Task /\ uxPriority[u] \in BitsOf
      BY DEF BitsOf, Ready
    <3>2. CASE u = h
      BY <1>5, <2>1, <2>2, <3>2
    <3>3. CASE u # h
      BY <1>5, <2>1, <3>1, <3>3
    <3> QED BY <3>2, <3>3
  <2>8. BitmapCovers'
    <3>1. Ready' = Ready
      BY <1>1 DEF Ready
    <3> QED BY <2>7, <3>1 DEF BitmapCovers, BitsOf
  <2>9. uxTopReadyPriority' \in SUBSET (0..MaxPriorities - 1)
    BY <1>5, <2>1, <2>4
  <2> QED BY <1>1, <1>2, <1>3, <1>4, <2>1, <2>2, <2>4, <2>5, <2>6, <2>8, <2>9
<1> QED BY <1>6, <1>7

(* Disinheriting keeps the invariant: whom it lowers, or raises above the  *)
(* running task, is a holder, so on no list; the running task has waited   *)
(* and is at its base priority.                                            *)
LEMMA DisinheritKeeps ==
    ASSUME IInv, NEW t \in Task, DisinheritAfterTimeout(t)
    PROVE  IInv'
<1> USE DEF IInv
<1>1. /\ t = pxCurrentTCB /\ ~pendSV /\ t \in Ready /\ pc[t] = "disinherit"
      /\ UNCHANGED <<neverSuspended, pxCurrentTCB, xStateListItem, eventList,
                     xYieldPending, pendSV, mutexVars>>
      /\ uxPriority' \in [Task -> 0..MaxPriorities - 1]
      /\ BitmapCovers'
  BY DisinheritFacts
<1>2. /\ pc'[t] = "app" /\ ~xInheritanceOccurred'[t]
      /\ \A u \in Task \ {t} :
             /\ pc'[u] = pc[u] /\ op'[u] = op[u]
             /\ xTicksToWait'[u] = xTicksToWait[u]
             /\ xInheritanceOccurred'[u] = xInheritanceOccurred[u]
  BY ReturnFacts DEF DisinheritAfterTimeout
<1>3. Ready' = Ready /\ xMutexHolder' = xMutexHolder /\ uxMutexesHeld' = uxMutexesHeld
  BY <1>1 DEF Ready, mutexVars
<1>4. /\ \A k \in Mutex : Waiters(k)' = Waiters(k) /\ (Available(k)' <=> Available(k))
      /\ \A u \in Task : HoldsNone(u)' <=> HoldsNone(u)
  BY <1>1, <1>3 DEF Waiters, Available, HoldsNone
<1>5. \A u \in Task : /\ uxPriority'[u] >= BasePriority[u]
                      /\ uxMutexesHeld[u] = 0 => uxPriority'[u] = uxPriority[u]
  <2> SUFFICES ASSUME NEW u \in Task
               PROVE  /\ uxPriority'[u] >= BasePriority[u]
                      /\ uxMutexesHeld[u] = 0 => uxPriority'[u] = uxPriority[u]
    OBVIOUS
  <2>1. uxPriority[u] >= BasePriority[u] /\ uxPriority \in [Task -> 0..MaxPriorities - 1]
    BY DEF PriorityReturns, TypeOK, SchedTypeOK
  <2>2. CASE uxPriority' = uxPriority
    BY <2>1, <2>2
  <2>3. CASE uxPriority' # uxPriority
    <3>1. PICK h \in Task, p \in 0..MaxPriorities - 1 :
              /\ uxMutexesHeld[h] = 1 /\ p >= BasePriority[h]
              /\ uxPriority' = [uxPriority EXCEPT ![h] = p]
      BY <2>3, DisinheritFacts
    <3> QED BY <2>1, <3>1
  <2> QED BY <2>2, <2>3
<1>6. TypeOK'
  <2>1. Return(t)
    BY DEF DisinheritAfterTimeout
  <2> QED BY <1>1, <1>3, <2>1, DisinheritFacts, ReturnFacts
          DEF TypeOK, SchedTypeOK, neverSuspended, mutexVars
<1>7. SchedulerRuns'
  BY <1>1, <1>3 DEF SchedulerRuns, neverSuspended
<1>8. PriorityReturns'
  BY <1>3, <1>5 DEF PriorityReturns
<1>9. WaitersAreTaking'
  <2>1. \A k \in Mutex : NoDuplicates(eventList'[k])
    BY <1>1 DEF WaitersAreTaking
  <2>2. ASSUME NEW k \in Mutex, NEW u \in Task
        PROVE  u \in Waiters(k)' <=> u \notin Ready' /\ pc'[u] = "enter" /\ op'[u] = k
    BY <1>1, <1>2, <1>3, <1>4 DEF WaitersAreTaking
  <2>3. ASSUME NEW u \in Task
        PROVE  /\ u \notin Ready' => pc'[u] \in {"delay", "enter"}
               /\ pc'[u] \in {"enter", "suspend", "retest", "disinherit"} => op'[u] \in Mutex
    BY <1>1, <1>2, <1>3 DEF WaitersAreTaking
  <2> QED BY <2>1, <2>2, <2>3 DEF WaitersAreTaking
<1>10. WokenIsEntering'
  <2> SUFFICES ASSUME NEW k \in Mutex, Available(k)', Waiters(k)' # {}
               PROVE  \E u \in Ready' : op'[u] = k /\ pc'[u] = "enter"
    BY DEF WokenIsEntering
  <2>1. PICK u \in Ready : op[u] = k /\ pc[u] = "enter"
    BY <1>4 DEF WokenIsEntering
  <2>2. u # t /\ u \in Task
    BY <1>1, <2>1 DEF Ready
  <2> QED BY <1>2, <1>3, <2>1, <2>2
<1>11. ASSUME ~WaitsWhileHolding
       PROVE  NoChains'
  <2> USE <1>11 DEF NoChains
  <2>1. WaitersHoldNone'
    BY <1>2, <1>3, <1>4 DEF WaitersHoldNone, WaitsHoldingNone
  <2>2. \A u \in Task : HoldsNone(u) => uxPriority'[u] = uxPriority[u]
    BY <1>5, StateFacts
  <2>3. ASSUME NEW k \in Mutex, NEW w \in Waiters(k)
        PROVE  uxPriority'[w] = uxPriority[w]
    <3>1. w \in Task /\ w \notin Ready
      BY StateFacts
    <3>2. pc[w] = "enter"
      BY <3>1 DEF WaitersAreTaking
    <3>3. HoldsNone(w)
      BY <3>1, <3>2 DEF WaitersHoldNone, WaitsHoldingNone
    <3> QED BY <2>2, <3>1, <3>3
  <2>4. \A k \in Mutex : InPriorityOrder(eventList[k])'
    <3> SUFFICES ASSUME NEW k \in Mutex
                 PROVE  InPriorityOrder(eventList[k])'
      OBVIOUS
    <3>1. eventList'[k] = eventList[k] /\ eventList[k] \in Seq(Task)
      BY <1>1, StateFacts
    <3> QED BY <2>3, <3>1, OrderKept DEF Waiters
  <2>5. WokenOutranksWaiters'
    <3> SUFFICES ASSUME NEW k \in Mutex, Available(k)', Waiters(k)' # {}
                 PROVE  \E u \in Ready' :
                            /\ op'[u] = k /\ pc'[u] = "enter" /\ HoldsNone(u)'
                            /\ \A w \in Waiters(k)' : uxPriority'[w] <= uxPriority'[u]
      BY DEF WokenOutranksWaiters
    <3>1. PICK u \in Ready : /\ op[u] = k /\ pc[u] = "enter" /\ HoldsNone(u)
                             /\ \A w \in Waiters(k) : uxPriority[w] <= uxPriority[u]
      BY <1>4 DEF WokenOutranksWaiters
    <3>2. u # t /\ u \in Task
      BY <1>1, <3>1 DEF Ready
    <3>3. /\ u \in Ready' /\ op'[u] = k /\ pc'[u] = "enter" /\ HoldsNone(u)'
          /\ uxPriority'[u] = uxPriority[u]
      BY <1>2, <1>3, <1>4, <2>2, <3>1, <3>2
    <3> QED BY <1>4, <2>3, <3>1, <3>3
  <2>6. OutrankedRunsAtBase'
    <3>1. HoldsNone(t)
      BY <1>1 DEF WaitersHoldNone, WaitsHoldingNone
    <3>2. uxPriority'[t] = BasePriority[t]
      BY <2>2, <3>1, StateFacts
    <3> QED BY <1>1, <1>2, <3>2 DEF OutrankedRunsAtBase
  <2> QED BY <2>1, <2>4, <2>5, <2>6
<1> QED BY <1>1, <1>6, <1>7, <1>8, <1>9, <1>10, <1>11

-----------------------------------------------------------------------------
(* Interrupts.                                                             *)

(* What a tick does to the lists.                                          *)
LEMMA TickFacts ==
    ASSUME IInv, SysTick
    PROVE  /\ UNCHANGED <<pxCurrentTCB, uxPriority, xPendingReadyList, uxSchedulerSuspended,
                          xYieldPending, mutexVars, callVars, ticksPended>>
           /\ RecordAndReset
           /\ eventList' \in [EventLists -> Seq(Task)]
           /\ xStateListItem' \in [Task -> {"ready", "delayed", "suspended"}]
           /\ deadline' \in [Task -> {"none", "armed", "expired"}]
           /\ pendSV' \in BOOLEAN
           /\ \A k \in Mutex : NoDuplicates(eventList'[k])
           /\ \A k \in Mutex : InPriorityOrder(eventList[k]) => InPriorityOrder(eventList'[k])
           /\ \E W \in SUBSET Task :
                  /\ \A k \in Mutex : Waiters(k)' = Waiters(k) \ W
                  /\ Ready' = Ready \cup W
                  /\ ~pendSV' => ~pendSV /\ ~Preempts(W)
<1> USE DEF IInv
<1>1. /\ TypeOK /\ SchedTypeOK /\ uxSchedulerSuspended = 0 /\ EventLists = Mutex
  BY StateFacts DEF TypeOK, SchedulerRuns
<1>2. /\ UNCHANGED <<pxCurrentTCB, uxPriority, xPendingReadyList, uxSchedulerSuspended,
                     xYieldPending, mutexVars, callVars>>
      /\ RecordAndReset
  BY DEF SysTick
<1>3. PICK X \in SUBSET Armed : xTaskIncrementTick(X)
  BY DEF SysTick
<1>4. /\ Expire(X, xStateListItem) /\ UNCHANGED ticksPended
      /\ pendSV' = (pendSV \/ SwitchRequired(X, xStateListItem) \/ xYieldPending)
  BY <1>1, <1>3 DEF xTaskIncrementTick
<1>5. X \in SUBSET Task
  BY DEF Armed
<1> DEFINE W == {t \in X : xStateListItem[t] = "delayed"}
<1>6. /\ eventList' \in [EventLists -> Seq(Task)]
      /\ \A k \in Mutex : NoDuplicates(eventList'[k])
      /\ \A k \in Mutex : OnList(k)' = OnList(k) \ W
      /\ xStateListItem' \in [Task -> {"ready", "delayed", "suspended"}]
      /\ deadline' \in [Task -> {"none", "armed", "expired"}]
      /\ Ready' = {t \in Task : xStateListItem[t] = "ready"} \cup W
  BY <1>1, <1>4, <1>5, ExpireListsFacts DEF SchedTypeOK
<1>7. \A k \in Mutex : InPriorityOrder(eventList[k]) => InPriorityOrder(eventList'[k])
  <2> SUFFICES ASSUME NEW k \in Mutex, InPriorityOrder(eventList[k])
               PROVE  InPriorityOrder(eventList'[k])
    OBVIOUS
  <2>1. eventList'[k] \in ListRemove(eventList[k], W)
    BY <1>1, <1>4 DEF Expire
  <2> HIDE DEF W
  <2> QED BY <2>1, StateFacts, RemoveKeepsOrder
<1>8. pendSV' \in BOOLEAN /\ (~pendSV' => ~pendSV /\ ~Preempts(W))
  <2>1. Preempts(W) => SwitchRequired(X, xStateListItem)
    BY DEF SwitchRequired
  <2>2. SwitchRequired(X, xStateListItem) \in BOOLEAN
    BY DEF SwitchRequired
  <2> HIDE DEF W
  <2> QED BY <1>1, <1>4, <2>1, <2>2 DEF SchedTypeOK
<1>9. /\ W \in SUBSET Task /\ Ready' = Ready \cup W
      /\ \A k \in Mutex : Waiters(k)' = Waiters(k) \ W
  BY <1>5, <1>6 DEF Ready, Waiters, OnList
<1> QED BY <1>2, <1>4, <1>6, <1>7, <1>8, <1>9

(* A tick keeps the invariant.                                             *)
LEMMA SysTickKeeps ==
    ASSUME IInv, SysTick
    PROVE  IInv'
<1> USE DEF IInv
<1>1. /\ UNCHANGED <<pxCurrentTCB, uxPriority, xPendingReadyList, uxSchedulerSuspended,
                     xYieldPending, mutexVars, callVars, ticksPended>>
      /\ RecordAndReset
      /\ \A k \in Mutex : NoDuplicates(eventList'[k])
  BY TickFacts
<1>2. PICK W \in SUBSET Task :
          /\ \A k \in Mutex : Waiters(k)' = Waiters(k) \ W
          /\ Ready' = Ready \cup W
          /\ ~pendSV' => ~pendSV /\ ~Preempts(W)
  BY TickFacts
<1>3. /\ \A k \in Mutex : Available(k)' <=> Available(k)
      /\ \A u \in Task : HoldsNone(u)' <=> HoldsNone(u)
  BY <1>1 DEF Available, HoldsNone, mutexVars
<1>4. uxPriority' \in [Task -> 0..MaxPriorities - 1]
  BY <1>1 DEF TypeOK, SchedTypeOK
<1>5. TypeOK'
  BY <1>1, <1>4, RecordFacts, TickFacts DEF TypeOK, SchedTypeOK, mutexVars, callVars
<1>6. SchedulerRuns' /\ BitmapCovers' /\ PriorityReturns'
  BY <1>1, <1>2, <1>4, RecordFacts DEF SchedulerRuns, PriorityReturns, mutexVars
<1>7. WaitersAreTaking'
  <2>1. ASSUME NEW k \in Mutex, NEW u \in Task
        PROVE  u \in Waiters(k)' <=> u \notin Ready' /\ pc'[u] = "enter" /\ op'[u] = k
    BY <1>1, <1>2 DEF WaitersAreTaking, callVars
  <2>2. ASSUME NEW u \in Task
        PROVE  /\ u \notin Ready' => pc'[u] \in {"delay", "enter"}
               /\ pc'[u] \in {"enter", "suspend", "retest", "disinherit"} => op'[u] \in Mutex
    BY <1>1, <1>2 DEF WaitersAreTaking, callVars
  <2> QED BY <1>1, <2>1, <2>2 DEF WaitersAreTaking
<1>8. WokenIsEntering'
  BY <1>1, <1>2, <1>3 DEF WokenIsEntering, callVars
<1>9. ASSUME ~WaitsWhileHolding
      PROVE  NoChains'
  <2> USE <1>9 DEF NoChains
  <2>1. WaitersHoldNone'
    BY <1>1, <1>2, <1>3 DEF WaitersHoldNone, WaitsHoldingNone, callVars
  <2>2. \A k \in Mutex : InPriorityOrder(eventList[k])'
    <3> SUFFICES ASSUME NEW k \in Mutex
                 PROVE  InPriorityOrder(eventList[k])'
      OBVIOUS
    <3>1. eventList'[k] \in Seq(Task) /\ InPriorityOrder(eventList'[k])
      BY TickFacts, StateFacts
    <3> QED BY <1>1, <3>1, OrderKept
  <2>3. WokenOutranksWaiters'
    <3> SUFFICES ASSUME NEW k \in Mutex, Available(k)', Waiters(k)' # {}
                 PROVE  \E u \in Ready' :
                            /\ op'[u] = k /\ pc'[u] = "enter" /\ HoldsNone(u)'
                            /\ \A w \in Waiters(k)' : uxPriority'[w] <= uxPriority'[u]
      BY DEF WokenOutranksWaiters
    <3>1. Available(k) /\ Waiters(k) # {} /\ Waiters(k)' \subseteq Waiters(k)
      BY <1>2, <1>3
    <3>2. PICK u \in Ready : /\ op[u] = k /\ pc[u] = "enter" /\ HoldsNone(u)
                             /\ \A w \in Waiters(k) : uxPriority[w] <= uxPriority[u]
      BY <3>1 DEF WokenOutranksWaiters
    <3>3. u \in Task /\ HoldsNone(u)'
      BY <1>3, <3>2 DEF Ready
    <3> QED BY <1>1, <1>2, <3>1, <3>2, <3>3 DEF callVars
  <2>4. OutrankedRunsAtBase'
    <3>1. ASSUME ~pendSV', pxCurrentTCB \in HighestReady
          PROVE  pxCurrentTCB' \in HighestReady'
      <4>1. \A w \in W : uxPriority[w] <= uxPriority[pxCurrentTCB]
        BY <1>2, <3>1, StateFacts DEF Preempts, HighestReady, Ready
      <4> QED BY <1>1, <1>2, <3>1, <4>1 DEF HighestReady
    <3> QED BY <1>1, <1>2, <3>1 DEF OutrankedRunsAtBase, callVars
  <2> QED BY <2>1, <2>2, <2>3, <2>4
<1> QED BY <1>5, <1>6, <1>7, <1>8, <1>9

(* PendSV selects a task that no ready task outranks, even if the bitmap   *)
(* has bits too many: the configASSERT sees to it that it selects a task.  *)
LEMMA SelectsHighest ==
    ASSUME IInv, PendSV
    PROVE  pxCurrentTCB' \in Ready /\ pxCurrentTCB' \in HighestReady
<1>1. PICK t \in Ready : t = pxCurrentTCB' /\ uxPriority[t] = TopReady
  BY DEF PendSV, ReadyAt
<1>2. /\ uxTopReadyPriority \in SUBSET (0..MaxPriorities - 1) /\ MaxPriorities - 1 \in Nat
      /\ BitsOf \subseteq uxTopReadyPriority
  BY TaskAssumption DEF IInv, TypeOK, BitmapCovers
<1>3. uxPriority[t] \in uxTopReadyPriority
  BY <1>2 DEF BitsOf
<1>4. \A q \in uxTopReadyPriority : q <= TopReady
  BY <1>2, <1>3, GreatestExists DEF TopReady
<1>5. \A u \in Ready : uxPriority[u] <= uxPriority[t]
  BY <1>1, <1>2, <1>4 DEF BitsOf
<1> QED BY <1>1, <1>5 DEF HighestReady

(* A context switch keeps the invariant.                                   *)
LEMMA PendSVKeeps ==
    ASSUME IInv, PendSV
    PROVE  IInv'
<1> USE DEF IInv
<1>1. UNCHANGED <<neverSuspended, uxPriority, xStateListItem, eventList, deadline,
                  uxTopReadyPriority, mutexVars, callVars>>
  BY DEF PendSV
<1>2. /\ Ready' = Ready /\ BitsOf' = BitsOf /\ HighestReady' = HighestReady
      /\ \A k \in Mutex : Waiters(k)' = Waiters(k) /\ (Available(k)' <=> Available(k))
      /\ \A u \in Task : HoldsNone(u)' <=> HoldsNone(u)
  BY <1>1 DEF Ready, BitsOf, HighestReady, Waiters, Available, HoldsNone, mutexVars
<1>3. TypeOK'
  <2>1. pxCurrentTCB' \in Task /\ pendSV' \in BOOLEAN /\ xYieldPending' \in BOOLEAN
    BY SelectsHighest DEF PendSV, Ready
  <2> QED BY <1>1, <2>1 DEF TypeOK, SchedTypeOK, neverSuspended, mutexVars, callVars
<1>4. SchedulerRuns' /\ BitmapCovers' /\ PriorityReturns'
  BY <1>1, <1>2, SelectsHighest DEF SchedulerRuns, BitmapCovers, PriorityReturns, neverSuspended, mutexVars
<1>5. WaitersAreTaking' /\ WokenIsEntering'
  BY <1>1, <1>2 DEF WaitersAreTaking, WokenIsEntering, callVars
<1>6. ASSUME ~WaitsWhileHolding
      PROVE  NoChains'
  <2> USE <1>6 DEF NoChains
  <2>1. WaitersHoldNone'
    BY <1>1, <1>2 DEF WaitersHoldNone, WaitsHoldingNone, callVars
  <2>2. \A k \in Mutex : InPriorityOrder(eventList[k])'
    BY <1>1 DEF InPriorityOrder
  <2>3. WokenOutranksWaiters'
    <3> SUFFICES ASSUME NEW k \in Mutex, Available(k)', Waiters(k)' # {}
                 PROVE  \E u \in Ready' :
                            /\ op'[u] = k /\ pc'[u] = "enter" /\ HoldsNone(u)'
                            /\ \A w \in Waiters(k)' : uxPriority'[w] <= uxPriority'[u]
      BY DEF WokenOutranksWaiters
    <3>1. PICK u \in Ready : /\ op[u] = k /\ pc[u] = "enter" /\ HoldsNone(u)
                             /\ \A w \in Waiters(k) : uxPriority[w] <= uxPriority[u]
      BY <1>2 DEF WokenOutranksWaiters
    <3>2. u \in Task
      BY <3>1 DEF Ready
    <3> QED BY <1>1, <1>2, <3>1, <3>2 DEF callVars
  <2>4. OutrankedRunsAtBase'
    BY <1>2, SelectsHighest DEF OutrankedRunsAtBase
  <2> QED BY <2>1, <2>2, <2>3, <2>4
<1> QED BY <1>3, <1>4, <1>5, <1>6

-----------------------------------------------------------------------------
(* The invariant.                                                          *)

(* The application starts with no mutex taken and no call in progress.     *)
LEMMA InitIInv ==
    ASSUME Init
    PROVE  IInv
<1>1. /\ SchedInit /\ SchedTypeOK /\ Ready = Task
      /\ \A m \in Mutex : Waiters(m) = {} /\ NoDuplicates(eventList[m]) /\ eventList[m] = <<>>
  <2>1. EventLists = Mutex /\ SchedInit
    BY MutexAssumption DEF Init
  <2> QED BY <2>1, SchedInitFacts DEF Waiters, OnList, SchedInit
<1>2. TypeOK
  <2>1. 0 \in 0..Cardinality(Mutex) /\ 0 \in 0..MaxRecursion
    BY MutexAssumption, FS_CardinalityType
  <2>2. BitsOf \in SUBSET (0..MaxPriorities - 1)
    BY <1>1 DEF BitsOf, SchedTypeOK
  <2> QED BY <1>1, <2>1, <2>2 DEF Init, TypeOK
<1>3. SchedulerRuns /\ BitmapCovers
  BY <1>1 DEF Init, SchedInit, SchedulerRuns, BitmapCovers, SchedTypeOK
<1>4. PriorityReturns
  <2>1. ASSUME NEW t \in Task
        PROVE  /\ uxMutexesHeld[t] = Cardinality({m \in Mutex : xMutexHolder[m] = t})
               /\ uxPriority[t] >= BasePriority[t] /\ uxPriority[t] = BasePriority[t]
    <3>1. HoldsNone(t)
      BY MutexAssumption DEF Init, HoldsNone
    <3>2. uxMutexesHeld[t] = 0 /\ uxPriority[t] = BasePriority[t] /\ BasePriority[t] \in Nat
      BY <1>1, TaskAssumption DEF Init, SchedInit
    <3>3. Cardinality({m \in Mutex : xMutexHolder[m] = t}) = 0
      BY <3>1, HeldIsFinite DEF Held
    <3>4. uxPriority[t] >= BasePriority[t]
      BY <3>2
    <3> QED BY <3>2, <3>3, <3>4
  <2> QED BY <2>1 DEF PriorityReturns
<1>5. WaitersAreTaking /\ WokenIsEntering
  BY <1>1 DEF Init, WaitersAreTaking, WokenIsEntering
<1>6. NoChains
  <2>1. WaitersHoldNone
    BY DEF Init, WaitersHoldNone, WaitsHoldingNone
  <2>2. \A m \in Mutex : InPriorityOrder(eventList[m])
    BY <1>1 DEF InPriorityOrder
  <2>3. WokenOutranksWaiters
    BY <1>1 DEF WokenOutranksWaiters
  <2>4. OutrankedRunsAtBase
    BY <1>1, TaskAssumption DEF Init, SchedInit, OutrankedRunsAtBase
  <2> QED BY <2>1, <2>2, <2>3, <2>4 DEF NoChains
<1> QED BY <1>2, <1>3, <1>4, <1>5, <1>6 DEF IInv

(* A step that changes nothing keeps the invariant.                        *)
LEMMA StutterKeeps ==
    ASSUME IInv, UNCHANGED vars
    PROVE  IInv'
<1> USE DEF IInv, vars, schedVars, mutexVars, callVars
<1>1. /\ Ready' = Ready /\ BitsOf' = BitsOf /\ HighestReady' = HighestReady
      /\ \A k \in Mutex : Waiters(k)' = Waiters(k) /\ (Available(k)' <=> Available(k))
      /\ \A u \in Task : HoldsNone(u)' <=> HoldsNone(u)
  BY DEF Ready, BitsOf, HighestReady, Waiters, Available, HoldsNone
<1>2. TypeOK'
  BY DEF TypeOK, SchedTypeOK
<1>3. SchedulerRuns' /\ BitmapCovers' /\ PriorityReturns' /\ WaitersAreTaking' /\ WokenIsEntering'
  BY <1>1 DEF SchedulerRuns, BitmapCovers, PriorityReturns, WaitersAreTaking, WokenIsEntering
<1>4. NoChains => NoChains'
  <2>1. WaitersHoldNone => WaitersHoldNone'
    BY <1>1 DEF WaitersHoldNone, WaitsHoldingNone
  <2>2. \A k \in Mutex : InPriorityOrder(eventList[k]) => InPriorityOrder(eventList[k])'
    BY DEF InPriorityOrder
  <2>3. WokenOutranksWaiters => WokenOutranksWaiters'
    <3>1. \A u \in Ready : HoldsNone(u)' <=> HoldsNone(u)
      BY <1>1 DEF Ready
    <3> QED BY <1>1, <3>1 DEF WokenOutranksWaiters
  <2>4. OutrankedRunsAtBase => OutrankedRunsAtBase'
    BY <1>1 DEF OutrankedRunsAtBase
  <2> QED BY <2>1, <2>2, <2>3, <2>4 DEF NoChains
<1> QED BY <1>2, <1>3, <1>4

(* The actions, the quiet ones together.                                   *)
LEMMA ActionsSplit ==
    ASSUME Next
    PROVE  \/ SysTick \/ PendSV
           \/ \E t \in Task : \/ QuietActions(t) \/ Acquire(t) \/ vTaskDelay(t) \/ Wait(t)
                              \/ DisinheritAfterTimeout(t)
                              \/ \E m \in Mutex : GiveMutex(t, m)
BY DEF Next, App, CallStep, QuietActions

(* Every step keeps the invariant.                                         *)
LEMMA NextKeeps ==
    ASSUME IInv, [Next]_vars
    PROVE  IInv'
<1>1. CASE UNCHANGED vars
  BY <1>1, StutterKeeps
<1>2. CASE SysTick
  BY <1>2, SysTickKeeps
<1>3. CASE PendSV
  BY <1>3, PendSVKeeps
<1>4. ASSUME NEW t \in Task
      PROVE  /\ QuietActions(t) => IInv'
             /\ Acquire(t) => IInv'
             /\ vTaskDelay(t) => IInv'
             /\ Wait(t) => IInv'
             /\ DisinheritAfterTimeout(t) => IInv'
             /\ \A m \in Mutex : GiveMutex(t, m) => IInv'
  BY QuietActionsAreQuiet, QuietStep, AcquireKeeps, DelayKeeps, WaitKeeps, DisinheritKeeps, GiveMutexKeeps
<1> QED BY <1>1, <1>2, <1>3, <1>4, ActionsSplit

(* The inductive invariant holds: for every set of tasks and mutexes.      *)
THEOREM Invariance == Spec => []IInv
<1>1. Init => IInv
  BY InitIInv
<1>2. IInv /\ [Next]_vars => IInv'
  BY NextKeeps
<1> QED BY <1>1, <1>2, PTL DEF Spec

(* A task that holds no mutex runs at its base priority, and none below    *)
(* its own: whatever the application does.                                 *)
THEOREM PrioritiesReturn == Spec => []PriorityReturns
<1>1. IInv => PriorityReturns
  BY DEF IInv
<1> QED BY <1>1, Invariance, PTL

(* Nobody waits for an available mutex without another on its way to take  *)
(* it: whatever the application does.                                      *)
THEOREM WaitersAreWoken == Spec => []WaiterIsWoken
<1>1. IInv => WaiterIsWoken
  <2> SUFFICES ASSUME IInv, NEW m \in Mutex, Available(m), eventList[m] # <<>>
               PROVE  \E t \in Ready : op[t] = m /\ pc[t] \in {"enter", "suspend", "retest"}
    BY DEF WaiterIsWoken
  <2>1. Waiters(m) # {}
    BY StateFacts, EmptyList DEF Waiters
  <2> QED BY <2>1 DEF IInv, WokenIsEntering
<1> QED BY <1>1, Invariance, PTL

-----------------------------------------------------------------------------
(* What a step may not do.                                                 *)

(* The mutexes whose holder is outranked by a waiter stay the same when    *)
(* neither lists, priorities nor holders change.                           *)
LEMMA OutrankedUnchanged ==
    ASSUME UNCHANGED <<uxPriority, eventList, xMutexHolder>>, NEW m \in Mutex, Outranked(m)'
    PROVE  Outranked(m)
BY DEF Outranked, Available, Waiters

(* Taking a mutex, giving one, waiting for one and disinheriting do not    *)
(* put a task to wait for a holder below it, unless the one that takes the *)
(* mutex is outranked by a ready task.                                     *)
LEMMA AcquireInherits ==
    ASSUME IInv, ~WaitsWhileHolding, NEW t \in Task, Acquire(t), NEW m \in Mutex, Outranked(m)'
    PROVE  Outranked(m) \/ (Available(m) /\ pxCurrentTCB \notin HighestReady)
<1>1. /\ op[t] \in Mutex /\ Available(op[t]) /\ t = pxCurrentTCB /\ t \in Ready
      /\ UNCHANGED <<uxPriority, eventList>>
      /\ xMutexHolder' = [xMutexHolder EXCEPT ![op[t]] = t]
      /\ xMutexHolder \in [Mutex -> Task \cup {NoTask}]
  BY DEF Acquire, IInv, TypeOK, SchedulerRuns, WaitersAreTaking
<1>2. CASE m # op[t]
  BY <1>1, <1>2 DEF Outranked, Available, Waiters
<1>3. CASE m = op[t]
  <2>1. PICK w \in Waiters(m) : uxPriority[w] > uxPriority[t]
    BY <1>1, <1>3 DEF Outranked, Waiters
  <2>2. PICK u \in Ready : uxPriority[w] <= uxPriority[u]
    BY <1>1, <1>3, <2>1 DEF IInv, NoChains, WokenOutranksWaiters
  <2>3. /\ uxPriority[w] \in Nat /\ uxPriority[t] \in Nat /\ uxPriority[u] \in Nat
    BY StateFacts DEF Ready
  <2>4. ~(uxPriority[u] <= uxPriority[t])
    BY <2>1, <2>2, <2>3
  <2> QED BY <1>1, <1>3, <2>4 DEF HighestReady
<1> QED BY <1>2, <1>3

(* Giving one wakes a task that waited, and only the last one lowers.     *)
LEMMA GiveInherits ==
    ASSUME IInv, NEW t \in Task, NEW k \in Mutex, GiveMutex(t, k), NEW m \in Mutex, Outranked(m)'
    PROVE  Outranked(m)
<1>1. /\ xMutexHolder' = [xMutexHolder EXCEPT ![k] = NoTask] /\ xMutexHolder[k] = t
      /\ xMutexHolder \in [Mutex -> Task \cup {NoTask}]
      /\ t \in Ready /\ WakeHead(t, k)
  BY GiveCounts DEF IInv, TypeOK, GiveMutex, SchedulerRuns
<1>2. m # k
  BY <1>1 DEF Outranked, Available
<1>3. /\ Waiters(m)' = Waiters(m) /\ xMutexHolder'[m] = xMutexHolder[m] /\ ~Available(m)
      /\ xMutexHolder[m] \in Task
  <2>1. Waiters(m)' = Waiters(m) /\ xMutexHolder'[m] = xMutexHolder[m]
    BY <1>1, <1>2, WakeHeadFacts DEF Waiters
  <2> QED BY <2>1, StateFacts DEF Outranked, Available
<1>4. PICK w \in Waiters(m) : uxPriority'[w] > uxPriority'[xMutexHolder[m]]
  BY <1>3 DEF Outranked
<1>5. w \in Task /\ w # t
  BY <1>1, StateFacts
<1>6. CASE xMutexHolder[m] # t
  BY <1>3, <1>4, <1>5, <1>6, GiveCounts DEF Outranked
<1>7. CASE xMutexHolder[m] = t
  <2>1. Held(t) = {j \in Mutex : xMutexHolder[j] = t} /\ {k, m} \subseteq Held(t)
    BY <1>1, <1>7 DEF Held
  <2>2. uxMutexesHeld[t] # 1
    <3>1. uxMutexesHeld[t] = Cardinality(Held(t))
      BY DEF IInv, PriorityReturns, Held
    <3>2. Cardinality({k, m}) <= Cardinality(Held(t))
      BY <2>1, HeldIsFinite, FS_Subset
    <3>3. Cardinality({k, m}) = 2
      <4>1. IsFiniteSet({k}) /\ Cardinality({k}) = 1
        BY FS_Singleton
      <4>2. m \notin {k}
        BY <1>2
      <4>3. Cardinality({k} \cup {m}) = Cardinality({k}) + 1
        BY <4>1, <4>2, FS_AddElement
      <4>4. {k, m} = {k} \cup {m}
        OBVIOUS
      <4> QED BY <4>1, <4>3, <4>4
    <3> QED BY <3>1, <3>2, <3>3, HeldIsFinite
  <2>3. uxPriority'[t] = uxPriority[t]
    BY <2>2, GiveCounts DEF Disinherits
  <2> QED BY <1>3, <1>4, <1>5, <1>7, <2>3, GiveCounts DEF Outranked
<1> QED BY <1>6, <1>7

(* The holder inherits before the task joins the list.                     *)
LEMMA WaitInherits ==
    ASSUME IInv, ~WaitsWhileHolding, NEW t \in Task, Wait(t), NEW m \in Mutex, Outranked(m)'
    PROVE  Outranked(m)
<1>1. /\ op[t] \in Mutex /\ xMutexHolder' = xMutexHolder /\ op' = op
      /\ xMutexHolder[op[t]] \in Task
  BY WaitFacts DEF Wait, mutexVars
<1>2. PICK h \in Task : h = xMutexHolder[op[t]]
  BY <1>1
<1>3. ~Available(m) /\ xMutexHolder[m] \in Task
  BY <1>1, StateFacts DEF Outranked, Available
<1>4. PICK w \in Waiters(m)' : uxPriority'[w] > uxPriority'[xMutexHolder[m]]
  BY <1>1 DEF Outranked
<1>5. w \in Waiters(m) \/ (w = t /\ m = op[t])
  <2>1. CASE m = op[t]
    <3>1. Waiters(m)' = ToSet(eventList'[m])
      BY DEF Waiters
    <3>2. ToSet(eventList'[op[t]]) = Waiters(op[t]) \cup {t}
      BY <1>1, WaitFacts DEF Waiters
    <3> QED BY <2>1, <3>1, <3>2
  <2>2. CASE m # op[t]
    BY <1>1, <2>2, WaitFacts DEF Waiters
  <2> QED BY <2>1, <2>2
<1>6. HoldsNone(t) /\ \A u \in Waiters(m) : u \in Task /\ HoldsNone(u)
  <2>1. HoldsNone(t)
    BY WaitFacts DEF IInv, NoChains, WaitersHoldNone, WaitsHoldingNone
  <2>2. ASSUME NEW u \in Waiters(m)
        PROVE  u \in Task /\ HoldsNone(u)
    <3>1. u \in Task /\ u \notin Ready
      BY StateFacts
    <3> QED BY <3>1 DEF IInv, WaitersAreTaking, NoChains, WaitersHoldNone, WaitsHoldingNone
  <2> QED BY <2>1, <2>2
<1>7. w \in Task /\ uxPriority'[w] = uxPriority[w]
  <2>1. w \in Task /\ HoldsNone(w)
    BY <1>5, <1>6
  <2>2. w # h
    BY <1>1, <1>2, <2>1 DEF HoldsNone
  <2> QED BY <1>2, <2>1, <2>2, WaitFacts
<1>8. /\ uxPriority'[xMutexHolder[m]] >= uxPriority[xMutexHolder[m]]
      /\ m = op[t] => uxPriority'[xMutexHolder[m]] >= uxPriority[t]
  BY <1>3, WaitFacts
<1>9. /\ uxPriority[w] \in Nat /\ uxPriority[xMutexHolder[m]] \in Nat
      /\ uxPriority'[xMutexHolder[m]] \in Nat
  <2>1. uxPriority' \in [Task -> 0..MaxPriorities - 1]
    BY WaitFacts
  <2> QED BY <1>3, <1>7, <2>1, StateFacts, TaskAssumption
<1>10. w \in Waiters(m)
  BY <1>4, <1>5, <1>7, <1>8, <1>9
<1>11. uxPriority[w] > uxPriority[xMutexHolder[m]]
  BY <1>4, <1>7, <1>8, <1>9
<1> QED BY <1>3, <1>10, <1>11 DEF Outranked

(* After a time-out the holder keeps the priority of the head of the list. *)
LEMMA DisinheritInherits ==
    ASSUME IInv, ~WaitsWhileHolding, NEW t \in Task, DisinheritAfterTimeout(t),
           NEW m \in Mutex, Outranked(m)'
    PROVE  Outranked(m)
<1>1. xMutexHolder' = xMutexHolder /\ eventList' = eventList
  BY DisinheritFacts DEF mutexVars
<1>2. CASE uxPriority' = uxPriority
  BY <1>1, <1>2, OutrankedUnchanged
<1>3. CASE uxPriority' # uxPriority
  <2>1. PICK k \in Mutex, h \in Task, p \in 0..MaxPriorities - 1 :
            /\ h = xMutexHolder[k] /\ uxMutexesHeld[h] = 1
            /\ uxPriority' = [uxPriority EXCEPT ![h] = p]
            /\ InPriorityOrder(eventList[k]) => \A w \in Waiters(k) : uxPriority[w] <= p
    BY <1>3, DisinheritFacts
  <2>2. \A w \in Waiters(k) : uxPriority[w] <= p
    BY <2>1 DEF IInv, NoChains
  <2>3. /\ ~Available(m) /\ xMutexHolder[m] \in Task
        /\ \E w \in Waiters(m) : uxPriority'[w] > uxPriority'[xMutexHolder[m]]
    BY <1>1, StateFacts DEF Outranked, Available, Waiters
  <2>4. PICK w \in Waiters(m) : uxPriority'[w] > uxPriority'[xMutexHolder[m]]
    BY <2>3
  <2>5. w \in Task /\ HoldsNone(w)
    <3>1. w \in Task /\ w \notin Ready
      BY StateFacts
    <3> QED BY <3>1 DEF IInv, WaitersAreTaking, NoChains, WaitersHoldNone, WaitsHoldingNone
  <2>6. w # h
    BY <2>1, <2>5 DEF HoldsNone
  <2>7. uxPriority \in [Task -> 0..MaxPriorities - 1] /\ uxPriority'[w] = uxPriority[w]
    BY <2>1, <2>5, <2>6 DEF IInv, TypeOK, SchedTypeOK
  <2>8. CASE xMutexHolder[m] # h
    BY <2>1, <2>3, <2>4, <2>7, <2>8 DEF Outranked
  <2>9. CASE xMutexHolder[m] = h
    <3>1. m = k
      <4>1. Cardinality(Held(h)) = 1 /\ m \in Held(h) /\ k \in Held(h)
        BY <2>1, <2>9 DEF IInv, PriorityReturns, Held
      <4>2. \E x : Held(h) = {x}
        BY <4>1, HeldIsFinite, FS_Singleton
      <4> QED BY <4>1, <4>2
    <3>2. uxPriority'[h] = p /\ uxPriority[w] <= p
      BY <2>1, <2>2, <2>7, <3>1
    <3>3. uxPriority[w] > p
      BY <2>4, <2>7, <2>9, <3>2
    <3>4. uxPriority[w] \in Nat /\ p \in Nat
      BY <2>5, StateFacts, TaskAssumption
    <3> QED BY <3>2, <3>3, <3>4
  <2> QED BY <2>8, <2>9
<1> QED BY <1>2, <1>3

(* A tick only takes tasks from the lists.                                 *)
LEMMA TickInherits ==
    ASSUME IInv, SysTick, NEW m \in Mutex, Outranked(m)'
    PROVE  Outranked(m)
<1>1. uxPriority' = uxPriority /\ xMutexHolder' = xMutexHolder
  BY TickFacts DEF mutexVars
<1>2. Waiters(m)' \subseteq Waiters(m)
  BY TickFacts
<1> QED BY <1>1, <1>2 DEF Outranked, Available

(* Inheritance prevents priority inversion if tasks wait for a mutex only  *)
(* while they hold none: a task comes to wait for a holder below it only   *)
(* if that one takes the mutex while it is itself outranked by a ready     *)
(* task (see LastGiveYields).                                              *)
THEOREM InheritanceHolds ==
    ASSUME ~WaitsWhileHolding
    PROVE  Spec => HolderInherits
<1> DEFINE Step == \A m \in Mutex : Outranked(m)' =>
                       Outranked(m) \/ (Available(m) /\ pxCurrentTCB \notin HighestReady)
<1>1. ASSUME IInv, [Next]_vars
      PROVE  Step
  <2> SUFFICES ASSUME NEW m \in Mutex, Outranked(m)'
               PROVE  Outranked(m) \/ (Available(m) /\ pxCurrentTCB \notin HighestReady)
    OBVIOUS
  <2>1. CASE UNCHANGED vars
    BY <2>1, OutrankedUnchanged DEF vars, schedVars, mutexVars
  <2>2. CASE SysTick
    BY <1>1, <2>2, TickInherits
  <2>3. CASE PendSV
    BY <2>3, OutrankedUnchanged DEF PendSV, mutexVars
  <2>4. ASSUME NEW t \in Task
        PROVE  /\ QuietActions(t) => Outranked(m)
               /\ Acquire(t) => Outranked(m) \/ (Available(m) /\ pxCurrentTCB \notin HighestReady)
               /\ vTaskDelay(t) => Outranked(m)
               /\ Wait(t) => Outranked(m)
               /\ DisinheritAfterTimeout(t) => Outranked(m)
               /\ \A k \in Mutex : GiveMutex(t, k) => Outranked(m)
    <3>1. QuietActions(t) => Outranked(m)
      BY <1>1, QuietActionsAreQuiet, OutrankedUnchanged DEF Quiet
    <3>2. vTaskDelay(t) => Outranked(m)
      BY OutrankedUnchanged DEF vTaskDelay, mutexVars
    <3> QED BY <1>1, <3>1, <3>2, AcquireInherits, WaitInherits, DisinheritInherits, GiveInherits
  <2> QED BY <1>1, <2>1, <2>2, <2>3, <2>4, ActionsSplit
<1>2. Spec => [][Step]_vars
  <2> HIDE DEF Step
  <2> QED BY <1>1, Invariance, PTL DEF Spec
<1> QED BY <1>2 DEF HolderInherits

(* The ready bitmap stays exact if tasks wait for a mutex only while they  *)
(* hold none: a bit of the wrong list is cleared only after a time-out,    *)
(* and then the task that timed out is ready on the list that the holder   *)
(* leaves, unless the holder ran below it.                                 *)
THEOREM BitmapIsKept ==
    ASSUME ~WaitsWhileHolding
    PROVE  Spec => BitmapStaysExact
<1> DEFINE Exception == \E t \in Task : At(t, "disinherit") /\
                            uxPriority[xMutexHolder[op[t]]] < uxPriority[t]
           Step == BitmapIsExact => BitmapIsExact' \/ Exception
<1>1. ASSUME IInv, [Next]_vars, BitmapIsExact
      PROVE  BitmapIsExact' \/ Exception
  <2>1. ASSUME UNCHANGED <<uxPriority, xStateListItem, uxTopReadyPriority>>
        PROVE  BitmapIsExact'
    BY <1>1, <2>1 DEF BitmapIsExact, BitsOf, Ready
  <2>2. ASSUME RecordAndReset, IInv'
        PROVE  BitmapIsExact'
    BY <1>1, <2>2, RecordFacts DEF IInv, TypeOK, SchedTypeOK
  <2>3. CASE UNCHANGED vars
    BY <2>1, <2>3 DEF vars, schedVars
  <2>4. CASE SysTick
    BY <1>1, <2>2, <2>4, SysTickKeeps DEF SysTick
  <2>5. CASE PendSV
    BY <2>1, <2>5 DEF PendSV
  <2>6. ASSUME NEW t \in Task, DisinheritAfterTimeout(t)
        PROVE  BitmapIsExact' \/ Exception
    <3>1. /\ t = pxCurrentTCB /\ ~pendSV /\ t \in Ready /\ Ready' = Ready
          /\ At(t, "disinherit")
      BY <1>1, <2>6, DisinheritFacts DEF Ready
    <3>2. t \in HighestReady
      BY <1>1, <3>1 DEF IInv, NoChains, WaitersHoldNone, WaitsHoldingNone, OutrankedRunsAtBase
    <3>3. CASE uxPriority' = uxPriority /\ uxTopReadyPriority' = uxTopReadyPriority
      BY <1>1, <3>1, <3>3 DEF BitmapIsExact, BitsOf
    <3>4. CASE ~(uxPriority' = uxPriority /\ uxTopReadyPriority' = uxTopReadyPriority)
      <4>1. PICK h \in Task, p \in 0..MaxPriorities - 1 :
                /\ h = xMutexHolder[op[t]] /\ h # t
                /\ uxPriority' = [uxPriority EXCEPT ![h] = p]
                /\ uxTopReadyPriority' = uxTopReadyPriority \cup {q \in {p} : h \in Ready}
        BY <1>1, <2>6, <3>4, DisinheritFacts
      <4>2. /\ uxPriority \in [Task -> 0..MaxPriorities - 1]
            /\ uxPriority[h] \in Nat /\ uxPriority[t] \in Nat
        BY <1>1, StateFacts DEF IInv, TypeOK, SchedTypeOK
      <4>3. CASE uxPriority[h] < uxPriority[t]
        BY <3>1, <4>1, <4>3
      <4>4. CASE ~(uxPriority[h] < uxPriority[t])
        <5>1. h \in Ready => uxPriority[h] = uxPriority[t]
          BY <3>2, <4>2, <4>4 DEF HighestReady
        <5>2. \A u \in Ready : uxPriority'[u] = IF u = h THEN p ELSE uxPriority[u]
          BY <4>1, <4>2 DEF Ready
        <5>3. \A q \in BitsOf' : q \in uxTopReadyPriority'
          BY <1>1, <3>1, <4>1, <5>2 DEF BitmapIsExact, BitsOf
        <5>4. ASSUME NEW q \in uxTopReadyPriority'
              PROVE  q \in BitsOf'
          <6>1. CASE q = p /\ h \in Ready
            BY <3>1, <5>2, <6>1 DEF BitsOf
          <6>2. CASE q \in uxTopReadyPriority
            <7>1. PICK u \in Ready : uxPriority[u] = q
              BY <1>1, <6>2 DEF BitmapIsExact, BitsOf
            <7>2. CASE u # h
              BY <3>1, <5>2, <7>1, <7>2 DEF BitsOf
            <7>3. CASE u = h
              <8>1. uxPriority'[t] = q
                BY <3>1, <4>1, <5>1, <5>2, <7>1, <7>3
              <8> QED BY <3>1, <8>1 DEF BitsOf
            <7> QED BY <7>2, <7>3
          <6> QED BY <4>1, <5>4, <6>1, <6>2
        <5> QED BY <5>3, <5>4 DEF BitmapIsExact
      <4> QED BY <4>3, <4>4
    <3> QED BY <3>3, <3>4
  <2>7. ASSUME NEW t \in Task
        PROVE  /\ QuietActions(t) => BitmapIsExact'
               /\ Acquire(t) => BitmapIsExact'
               /\ vTaskDelay(t) => BitmapIsExact'
               /\ Wait(t) => BitmapIsExact'
               /\ \A k \in Mutex : GiveMutex(t, k) => BitmapIsExact'
    <3>1. QuietActions(t) => BitmapIsExact'
      BY <1>1, <2>1, QuietActionsAreQuiet DEF Quiet
    <3>2. Acquire(t) => BitmapIsExact'
      BY <2>1 DEF Acquire
    <3>3. vTaskDelay(t) => BitmapIsExact'
      BY <1>1, <2>2, DelayKeeps DEF vTaskDelay
    <3>4. Wait(t) => BitmapIsExact'
      BY <1>1, <2>2, WaitKeeps DEF Wait
    <3>5. \A k \in Mutex : GiveMutex(t, k) => BitmapIsExact'
      BY <1>1, <2>2, GiveMutexKeeps DEF GiveMutex
    <3> QED BY <3>1, <3>2, <3>3, <3>4, <3>5
  <2> HIDE DEF Exception
  <2> QED BY <1>1, <2>3, <2>4, <2>5, <2>6, <2>7, ActionsSplit
<1>2. Spec => [][Step]_vars
  <2>1. IInv /\ [Next]_vars => Step
    BY <1>1
  <2> HIDE DEF Step
  <2> QED BY <2>1, Invariance, PTL DEF Spec
<1> QED BY <1>2 DEF BitmapStaysExact
=============================================================================
