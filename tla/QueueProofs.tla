---------------------------- MODULE QueueProofs ----------------------------
(***************************************************************************)
(* IInv is an inductive invariant of Queue, for every finite set of tasks, *)
(* queue length, assignment of calls and priorities.  First what the       *)
(* scheduler does to the lists and to the count of receivers on their way  *)
(* to the queue and a lemma for each action, for CoreInv; then the same    *)
(* for the two parts that rest on it, SchedulingInv and SenderInv; last    *)
(* the theorems.                                                           *)
(***************************************************************************)
EXTENDS Queue, SchedProofs

-----------------------------------------------------------------------------
(* What the operators of Sched do to the lists of Queue.                   *)

(* No event list of Queue holds a task that does not wait.                 *)
LEMMA QueueListsOK ==
    ASSUME BlockedIsWaiting, TypeOK
    PROVE  ListsOK
  BY DEF BlockedIsWaiting, ListsOK, OnList, ToSet, TypeOK, SchedTypeOK

(* xTaskRemoveFromEventList takes tasks from one list only and makes each  *)
(* of them ready or pending ready.                                         *)
LEMMA WakeFacts ==
    ASSUME TypeOK, BlockedIsWaiting, uxSchedulerSuspended' = uxSchedulerSuspended,
           NEW l \in EventLists, NEW n \in 0..Len(eventList[l]),
           xTaskRemoveFromEventList(l, n)
    PROVE  /\ eventList' \in [EventLists -> Seq(Task)]
           /\ xStateListItem' \in [Task -> {"ready", "delayed", "suspended"}]
           /\ xPendingReadyList' \in SUBSET Task
           /\ xYieldPending' \in BOOLEAN
           /\ \A k \in EventLists : NoDuplicates(eventList'[k])
           /\ OnList(l)' = OnList(l) \ FirstOf(l, n)
           /\ \A k \in EventLists \ {l} : OnList(k)' = OnList(k)
           /\ \A k \in EventLists : eventList'[k] # <<>> => eventList[k] # <<>>
           /\ eventList'[l] # <<>> => n < Len(eventList[l])
           /\ FirstOf(l, n) \subseteq OnList(l)
           /\ IsFiniteSet(FirstOf(l, n)) /\ Cardinality(FirstOf(l, n)) = n
           /\ Ready' \cup xPendingReadyList' = Ready \cup xPendingReadyList \cup FirstOf(l, n)
           /\ Ready \subseteq Ready'
           /\ \A t \in xPendingReadyList' : t \notin Ready' /\ uxSchedulerSuspended' # 0
  BY QueueListsOK, RemoveFromEventListFacts DEF TypeOK

(* A tick, or the pended ticks, that wake delayed tasks take them from     *)
(* their event list too.                                                   *)
LEMMA ExpireFacts ==
    ASSUME TypeOK, NEW X \in SUBSET Task,
           NEW item \in [Task -> {"ready", "delayed", "suspended"}], Expire(X, item)
    PROVE  LET woken == {t \in X : item[t] = "delayed"}
           IN  /\ eventList' \in [EventLists -> Seq(Task)]
               /\ \A k \in EventLists : NoDuplicates(eventList'[k])
               /\ \A k \in EventLists : OnList(k)' = OnList(k) \ woken
               /\ \A k \in EventLists : eventList'[k] # <<>> => eventList[k] # <<>>
               /\ xStateListItem' \in [Task -> {"ready", "delayed", "suspended"}]
               /\ deadline' \in [Task -> {"none", "armed", "expired"}]
               /\ Ready' = {t \in Task : item[t] = "ready"} \cup woken
  BY ExpireListsFacts DEF TypeOK

-----------------------------------------------------------------------------
(* Counting.                                                               *)

(* The retrying receivers can be counted.                                  *)
LEMMA RetryingIsFinite ==
    /\ IsFiniteSet(RetryingReceivers)
    /\ IsFiniteSet(RetryingReceivers')
    /\ Cardinality(RetryingReceivers) \in Nat
    /\ Cardinality(RetryingReceivers') \in Nat
<1>1. RetryingReceivers \in SUBSET Task /\ RetryingReceivers' \in SUBSET Task
  BY DEF RetryingReceivers
<1> QED BY <1>1, FS_Subset, FS_CardinalityType, TaskAssumption

(* No more messages are added than tasks begin a retry (d may be           *)
(* negative), the lock count staying as it is.                             *)
LEMMA CoverageKept ==
    ASSUME TypeOK, TypeOK', NEW d \in Int,
           Cardinality(RetryingReceivers') >= Cardinality(RetryingReceivers) + d,
           uxMessagesWaiting' <= uxMessagesWaiting + d,
           cTxLock' = cTxLock
    PROVE  MessagesCovered => MessagesCovered'
BY RetryingIsFinite DEF MessagesCovered, Covered, TypeOK, queueUNLOCKED

(* Messages stay covered if none is added and no retrying task leaves.     *)
LEMMA CoverageGrows ==
    ASSUME TypeOK, TypeOK', RetryingReceivers \subseteq RetryingReceivers',
           uxMessagesWaiting' <= uxMessagesWaiting, cTxLock' = cTxLock
    PROVE  MessagesCovered => MessagesCovered'
<1>1. Cardinality(RetryingReceivers) <= Cardinality(RetryingReceivers')
  BY RetryingIsFinite, FS_Subset
<1> QED BY <1>1, RetryingIsFinite, CoverageKept, 0 \in Int DEF TypeOK

(* uxTaskGetNumberOfTasks counts the idle task at least.                   *)
LEMMA NumberOfTasksType == NumberOfTasks \in Nat \ {0}
<1>1. Cardinality(Task) \in Nat /\ (Cardinality(Task) = 0 <=> Task = {})
  BY FS_CardinalityType, FS_EmptySet, TaskAssumption
<1> QED BY <1>1, TaskAssumption DEF NumberOfTasks

-----------------------------------------------------------------------------
USE DEF At, Running, GoTo

(* A woken task is off its list in the step that readies it.               *)
LEMMA WakeKeepsBlockedIsWaiting ==
    ASSUME CoreInv, NEW l \in EventLists, NEW n \in 0..Len(eventList[l]),
           xTaskRemoveFromEventList(l, n),
           uxSchedulerSuspended' = uxSchedulerSuspended,
           \A u \in Task \ Ready : op'[u] = op[u]
    PROVE  BlockedIsWaiting'
<1> USE DEF CoreInv
<1>1. \A k \in EventLists : NoDuplicates(eventList'[k])
  BY WakeFacts
<1>2. \A t \in xPendingReadyList' : t \notin Ready' /\ uxSchedulerSuspended' # 0
  BY WakeFacts
<1>3. \A t \in Task \ Ready' : op'[t] # "none"
  BY WakeFacts DEF BlockedIsWaiting
<1>4. ASSUME NEW t \in Task, NEW k \in EventLists
      PROVE  t \in OnList(k)' <=> /\ t \notin Ready' \cup xPendingReadyList'
                                  /\ k = (EventListOf(op[t]))'
  <2>1. t \in OnList(k) <=> t \notin Ready \cup xPendingReadyList /\ k = EventListOf(op[t])
    BY DEF BlockedIsWaiting
  <2>2. t \notin Ready => EventListOf(op'[t]) = EventListOf(op[t])
    OBVIOUS
  <2>3. /\ OnList(l)' = OnList(l) \ FirstOf(l, n)
        /\ k # l => OnList(k)' = OnList(k)
        /\ FirstOf(l, n) \subseteq OnList(l)
        /\ Ready' \cup xPendingReadyList' = Ready \cup xPendingReadyList \cup FirstOf(l, n)
    BY WakeFacts
  <2>4. t \in FirstOf(l, n) => l = EventListOf(op[t])
    BY <2>3 DEF BlockedIsWaiting
  <2>5. EventListOf(op[t])' = EventListOf(op'[t])
    BY DEF EventListOf, Sends
  <2> QED BY <2>1, <2>2, <2>3, <2>4, <2>5
<1> QED BY <1>1, <1>2, <1>3, <1>4 DEF BlockedIsWaiting

(* The tasks woken from xTasksWaitingToReceive retry, and so do those      *)
(* retrying already that stay in their call.                               *)
LEMMA WokenReceiversRetry ==
    ASSUME CoreInv, NEW n \in 0..Len(eventList[Rx]), xTaskRemoveFromEventList(Rx, n),
           uxSchedulerSuspended' = uxSchedulerSuspended,
           NEW stay \in SUBSET RetryingReceivers,
           \A u \in Task : u \in stay \/ u \in FirstOf(Rx, n)
                => op'[u] = op[u] /\ (HasPlacedItself(u) => HasPlacedItself(u)')
    PROVE  Cardinality(RetryingReceivers') >= Cardinality(stay) + n
<1> USE DEF CoreInv
<1>1. Rx \in EventLists
  BY EventListAssumption
<1>2. /\ OnList(Rx)' = OnList(Rx) \ FirstOf(Rx, n)
      /\ \A k \in EventLists \ {Rx} : OnList(k)' = OnList(k)
      /\ FirstOf(Rx, n) \subseteq OnList(Rx)
      /\ IsFiniteSet(FirstOf(Rx, n)) /\ Cardinality(FirstOf(Rx, n)) = n
  BY <1>1, WakeFacts
<1>3. OnList(Rx) \subseteq Task
  BY <1>1 DEF OnList, ToSet, TypeOK, SchedTypeOK
<1>4. ASSUME NEW t \in FirstOf(Rx, n)
      PROVE  t \in Task /\ Receives(op[t]) /\ HasPlacedItself(t) /\ t \notin RetryingReceivers
  <2>1. t \in Task /\ t \in OnList(Rx)
    BY <1>2, <1>3
  <2>2. t \notin Ready /\ EventListOf(op[t]) = Rx /\ op[t] # "none"
    BY <1>1, <2>1 DEF BlockedIsWaiting
  <2>3. Receives(op[t])
    BY <2>1, <2>2 DEF EventListOf, Sends, Receives, Rx, Tx, TypeOK, Operation
  <2> QED BY <2>1, <2>2, <2>3 DEF BlockedInv, RetryingReceivers, OnItsWay
<1>5. ASSUME NEW t \in Task, t \in stay \/ t \in FirstOf(Rx, n)
      PROVE  t \in RetryingReceivers'
  <2>1. op'[t] = op[t] /\ HasPlacedItself(t)' /\ Receives(op[t])
    BY <1>4, <1>5 DEF RetryingReceivers, OnItsWay
  <2>2. EventListOf(op[t])' = Rx /\ Receives(op[t])'
    BY <2>1 DEF EventListOf, Sends, Receives
  <2>3. t \notin OnList(Rx)'
    BY <1>2, <1>5, <2>1 DEF RetryingReceivers, OnItsWay, EventListOf, Sends, Receives
  <2> QED BY <2>1, <2>2, <2>3 DEF RetryingReceivers, OnItsWay
<1>6. stay \cup FirstOf(Rx, n) \subseteq RetryingReceivers'
  BY <1>2, <1>3, <1>5 DEF RetryingReceivers
<1>7. stay \cap FirstOf(Rx, n) = {}
  BY <1>4
<1>8. IsFiniteSet(stay) /\ Cardinality(stay) \in Nat
  BY RetryingIsFinite, FS_Subset, FS_CardinalityType
<1>9. Cardinality(stay \cup FirstOf(Rx, n)) = Cardinality(stay) + n
  <2>1. Cardinality(stay \cup FirstOf(Rx, n))
            = Cardinality(stay) + n - Cardinality(stay \cap FirstOf(Rx, n))
    BY <1>2, <1>8, FS_Union
  <2>2. Cardinality(stay \cap FirstOf(Rx, n)) = 0
    BY <1>7, FS_EmptySet
  <2> QED BY <2>1, <2>2, <1>8
<1>10. Cardinality(stay \cup FirstOf(Rx, n)) <= Cardinality(RetryingReceivers')
  BY <1>6, RetryingIsFinite, FS_Subset
<1> QED BY <1>9, <1>10

(* No operation wakes more tasks than the list holds.                      *)
LEMMA NumberWoken ==
    ASSUME TypeOK, NEW l \in EventLists
    PROVE  /\ AtMostOne(l) \in 0..Len(eventList[l])
           /\ \A lock \in queueUNLOCKED..NumberOfTasks : WakesOf(lock, l) \in 0..Len(eventList[l])
           /\ AtMostOne(l) = 0 <=> eventList[l] = <<>>
<1>1. eventList[l] \in Seq(Task) /\ Len(eventList[l]) \in Nat
  BY LenProperties DEF TypeOK, SchedTypeOK
<1>2. eventList[l] # <<>> => Len(eventList[l]) \in Nat \ {0}
  BY <1>1, NonEmptyList
<1>3. AtMostOne(l) \in 0..Len(eventList[l])
  BY <1>1, <1>2 DEF AtMostOne
<1>4. ASSUME NEW lock \in queueUNLOCKED..NumberOfTasks
      PROVE  WakesOf(lock, l) \in 0..Len(eventList[l])
  BY <1>1, NumberOfTasksType DEF WakesOf, queueUNLOCKED, queueLOCKED_UNMODIFIED
<1> QED BY <1>3, <1>4 DEF AtMostOne

(* Waking senders leaves the receivers where they are.                     *)
LEMMA WokenSendersOnly ==
    ASSUME CoreInv, NEW n \in 0..Len(eventList[Tx]), xTaskRemoveFromEventList(Tx, n),
           uxSchedulerSuspended' = uxSchedulerSuspended,
           NEW stay \in SUBSET RetryingReceivers,
           \A u \in stay : op'[u] = op[u] /\ (HasPlacedItself(u) => HasPlacedItself(u)')
    PROVE  eventList'[Rx] = eventList[Rx] /\ stay \subseteq RetryingReceivers'
<1>1. Rx \in EventLists /\ Tx \in EventLists /\ Rx # Tx
  BY EventListAssumption DEF Rx, Tx
<1>2. eventList'[Rx] = eventList[Rx]
  BY <1>1 DEF xTaskRemoveFromEventList, CoreInv, TypeOK, SchedTypeOK
<1>3. ASSUME NEW u \in stay
      PROVE  u \in RetryingReceivers'
  <2>1. op'[u] = op[u] /\ HasPlacedItself(u)' /\ Receives(op[u]) /\ u \notin OnList(Rx)
    BY DEF RetryingReceivers, OnItsWay, EventListOf, Sends, Receives
  <2>2. EventListOf(op[u])' = Rx /\ Receives(op[u])'
    BY <2>1 DEF EventListOf, Sends, Receives
  <2> QED BY <1>2, <2>1, <2>2 DEF RetryingReceivers, OnItsWay, OnList
<1> QED BY <1>2, <1>3

(* A task that ends its call takes at most one from the count.             *)
LEMMA RetryingWithoutOne ==
    ASSUME NEW t
    PROVE  /\ Cardinality(RetryingReceivers \ {t}) \in Nat
           /\ Cardinality(RetryingReceivers \ {t}) >= Cardinality(RetryingReceivers) - 1
<1>1. CASE t \in RetryingReceivers
  <2>1. Cardinality(RetryingReceivers \ {t}) = Cardinality(RetryingReceivers) - 1
    BY <1>1, RetryingIsFinite, FS_RemoveElement
  <2>2. Cardinality(RetryingReceivers \ {t}) \in Nat
    BY RetryingIsFinite, FS_Subset, FS_CardinalityType
  <2> QED BY <2>1, <2>2, RetryingIsFinite
<1>2. CASE t \notin RetryingReceivers
  <2>1. Cardinality(RetryingReceivers \ {t}) = Cardinality(RetryingReceivers)
    <3>1. RetryingReceivers \ {t} = RetryingReceivers
      BY <1>2
    <3> QED BY <3>1, Zenon
  <2> QED BY <2>1, RetryingIsFinite
<1> QED BY <1>1, <1>2

(* A message more, and a receiver more on its way if any slept.            *)
LEMMA SendItemKeepsCoreInv ==
    ASSUME NEW t \in Task, CoreInv, SendItem(t) PROVE CoreInv'
<1> DEFINE n == AtMostOne(Rx)
<1> USE DEF CoreInv, SendItem, Proceed, WakeOne, Return
<1>a. Rx \in EventLists
  BY EventListAssumption
<1>b. n \in 0..Len(eventList[Rx]) /\ (n = 0 <=> eventList[Rx] = <<>>)
  BY <1>a, NumberWoken
<1>c. xTaskRemoveFromEventList(Rx, n) /\ uxSchedulerSuspended' = uxSchedulerSuspended
  OBVIOUS
<1>d. t \in Ready
  BY DEF BlockedInv
<1>e. WokenPreempts(Rx) \in BOOLEAN
  BY DEF WokenPreempts, Preempts
<1>f. CountAfterSend(op[t]) \in 0..uxLength /\ CountAfterSend(op[t]) <= uxMessagesWaiting + 1
  BY QueueAssumption DEF TypeOK, CountAfterSend, CannotProceed, Sends
<1> HIDE DEF n
<1>1. TypeOK'
  BY <1>a, <1>b, <1>c, <1>e, <1>f, WakeFacts DEF TypeOK, SchedTypeOK
<1>2. LockHasOwner'
  BY DEF TypeOK, SchedTypeOK, LockHasOwner, HasScheduler, HasTxLock, HasRxLock
<1>3. CallInv'
  BY DEF TypeOK, SchedTypeOK, CallInv, HasScheduler
<1>4. BlockedIsWaiting'
  BY <1>a, <1>b, <1>c, <1>d, WakeKeepsBlockedIsWaiting DEF TypeOK
<1>5. BlockedInv'
  <2>1. Ready \subseteq Ready'
    BY <1>a, <1>b, <1>c, WakeFacts
  <2> QED BY <2>1, <1>d DEF TypeOK, SchedTypeOK, BlockedInv, HasPlacedItself
<1>6. PlaceInv'
  BY DEF TypeOK, SchedTypeOK, PlaceInv
<1>7. ASSUME eventList'[Rx] # <<>>
      PROVE  MessagesCovered'
  <2>1. eventList[Rx] # <<>> /\ n = 1
    <3>1. eventList[Rx] # <<>>
      BY <1>7, <1>a, <1>b, <1>c, WakeFacts
    <3> QED BY <3>1, <1>b DEF n, AtMostOne
  <2>2. \A u \in Task : u \in RetryingReceivers \/ u \in FirstOf(Rx, n)
                            => op'[u] = op[u] /\ (HasPlacedItself(u) => HasPlacedItself(u)')
    <3>1. FirstOf(Rx, n) \subseteq OnList(Rx)
      BY <1>a, <1>b, <1>c, WakeFacts
    <3>2. \A u \in Task : u \in RetryingReceivers \/ u \in FirstOf(Rx, n) => u # t
      BY <3>1, <1>a, <1>d DEF RetryingReceivers, Receives, Sends, BlockedIsWaiting
    <3> QED BY <3>2 DEF HasPlacedItself, TypeOK
  <2>3. Cardinality(RetryingReceivers') >= Cardinality(RetryingReceivers) + 1
    BY <1>b, <1>c, <2>1, <2>2, WokenReceiversRetry
  <2> QED BY <1>1, <1>f, <2>1, <2>3, CoverageKept, 1 \in Int DEF ReceiversNotStranded
<1> QED BY <1>1, <1>2, <1>3, <1>4, <1>5, <1>6, <1>7 DEF ReceiversNotStranded

(* The peeking task leaves; the receiver it wakes takes its place.         *)
LEMMA PeekItemKeepsCoreInv ==
    ASSUME NEW t \in Task, CoreInv, PeekItem(t) PROVE CoreInv'
<1> DEFINE n == AtMostOne(Rx)
<1> USE DEF CoreInv, PeekItem, Proceed, WakeOne, Return
<1>a. Rx \in EventLists
  BY EventListAssumption
<1>b. n \in 0..Len(eventList[Rx]) /\ (n = 0 <=> eventList[Rx] = <<>>)
  BY <1>a, NumberWoken
<1>c. xTaskRemoveFromEventList(Rx, n) /\ uxSchedulerSuspended' = uxSchedulerSuspended
  OBVIOUS
<1>d. t \in Ready
  BY DEF BlockedInv
<1>e. WokenPreempts(Rx) \in BOOLEAN
  BY DEF WokenPreempts, Preempts
<1> HIDE DEF n
<1>1. TypeOK'
  BY <1>a, <1>b, <1>c, <1>e, WakeFacts DEF TypeOK, SchedTypeOK
<1>2. LockHasOwner'
  BY DEF TypeOK, SchedTypeOK, LockHasOwner, HasScheduler, HasTxLock, HasRxLock
<1>3. CallInv'
  BY DEF TypeOK, SchedTypeOK, CallInv, HasScheduler
<1>4. BlockedIsWaiting'
  BY <1>a, <1>b, <1>c, <1>d, WakeKeepsBlockedIsWaiting DEF TypeOK
<1>5. BlockedInv'
  <2>1. Ready \subseteq Ready'
    BY <1>a, <1>b, <1>c, WakeFacts
  <2> QED BY <2>1, <1>d DEF TypeOK, SchedTypeOK, BlockedInv, HasPlacedItself
<1>6. PlaceInv'
  BY DEF TypeOK, SchedTypeOK, PlaceInv
<1>7. ASSUME eventList'[Rx] # <<>>
      PROVE  MessagesCovered'
  <2> DEFINE stay == RetryingReceivers \ {t}
  <2>1. eventList[Rx] # <<>> /\ n = 1
    <3>1. eventList[Rx] # <<>>
      BY <1>7, <1>a, <1>b, <1>c, WakeFacts
    <3> QED BY <3>1, <1>b DEF n, AtMostOne
  <2>2. \A u \in Task : u \in stay \/ u \in FirstOf(Rx, n)
                            => op'[u] = op[u] /\ (HasPlacedItself(u) => HasPlacedItself(u)')
    <3>1. FirstOf(Rx, n) \subseteq OnList(Rx)
      BY <1>a, <1>b, <1>c, WakeFacts
    <3>2. \A u \in Task : u \in stay \/ u \in FirstOf(Rx, n) => u # t
      BY <3>1, <1>a, <1>d DEF BlockedIsWaiting
    <3> QED BY <3>2 DEF HasPlacedItself, TypeOK
  <2>3. Cardinality(RetryingReceivers') >= Cardinality(stay) + 1
    BY <1>b, <1>c, <2>1, <2>2, WokenReceiversRetry
  <2>4. Cardinality(stay) \in Nat /\ Cardinality(stay) >= Cardinality(RetryingReceivers) - 1
    BY RetryingWithoutOne
  <2>5. Cardinality(RetryingReceivers') >= Cardinality(RetryingReceivers) + 0
    BY <2>3, <2>4, RetryingIsFinite
  <2> QED BY <1>1, <2>1, <2>5, CoverageKept, 0 \in Int DEF ReceiversNotStranded, TypeOK
<1> QED BY <1>1, <1>2, <1>3, <1>4, <1>5, <1>6, <1>7 DEF ReceiversNotStranded

(* A message less, and a task less on its way.                             *)
LEMMA ReceiveItemKeepsCoreInv ==
    ASSUME NEW t \in Task, CoreInv, ReceiveItem(t) PROVE CoreInv'
<1> DEFINE n == AtMostOne(Tx)
<1> USE DEF CoreInv, ReceiveItem, Proceed, WakeOne, Return
<1>a. Tx \in EventLists
  BY EventListAssumption
<1>b. n \in 0..Len(eventList[Tx])
  BY <1>a, NumberWoken
<1>c. xTaskRemoveFromEventList(Tx, n) /\ uxSchedulerSuspended' = uxSchedulerSuspended
  OBVIOUS
<1>d. t \in Ready
  BY DEF BlockedInv
<1>e. WokenPreempts(Tx) \in BOOLEAN
  BY DEF WokenPreempts, Preempts
<1>f. uxMessagesWaiting - 1 \in 0..uxLength
  BY QueueAssumption DEF TypeOK, CannotProceed, Receives
<1> HIDE DEF n
<1>1. TypeOK'
  BY <1>a, <1>b, <1>c, <1>e, <1>f, WakeFacts DEF TypeOK, SchedTypeOK
<1>2. LockHasOwner'
  BY DEF TypeOK, SchedTypeOK, LockHasOwner, HasScheduler, HasTxLock, HasRxLock
<1>3. CallInv'
  BY DEF TypeOK, SchedTypeOK, CallInv, HasScheduler
<1>4. BlockedIsWaiting'
  BY <1>a, <1>b, <1>c, <1>d, WakeKeepsBlockedIsWaiting DEF TypeOK
<1>5. BlockedInv'
  <2>1. Ready \subseteq Ready'
    BY <1>a, <1>b, <1>c, WakeFacts
  <2> QED BY <2>1, <1>d DEF TypeOK, SchedTypeOK, BlockedInv, HasPlacedItself
<1>6. PlaceInv'
  BY DEF TypeOK, SchedTypeOK, PlaceInv
<1>7. ReceiversNotStranded'
  <2> DEFINE stay == RetryingReceivers \ {t}
  <2>1. eventList'[Rx] = eventList[Rx] /\ stay \subseteq RetryingReceivers'
    <3>1. \A u \in stay : op'[u] = op[u] /\ (HasPlacedItself(u) => HasPlacedItself(u)')
      BY DEF HasPlacedItself, TypeOK, RetryingReceivers
    <3> QED BY <3>1, <1>b, <1>c, WokenSendersOnly
  <2>2. Cardinality(stay) \in Nat /\ Cardinality(stay) >= Cardinality(RetryingReceivers) - 1
    BY RetryingWithoutOne
  <2>3. Cardinality(stay) <= Cardinality(RetryingReceivers')
    BY <2>1, RetryingIsFinite, FS_Subset
  <2>4. Cardinality(RetryingReceivers') >= Cardinality(RetryingReceivers) + (-1)
    BY <2>2, <2>3, RetryingIsFinite
  <2>5. uxMessagesWaiting' <= uxMessagesWaiting + (-1) /\ cTxLock' = cTxLock /\ -1 \in Int
    BY DEF TypeOK
  <2> QED BY <1>1, <2>1, <2>4, <2>5, CoverageKept DEF ReceiversNotStranded
<1> QED BY <1>1, <1>2, <1>3, <1>4, <1>5, <1>6, <1>7

(* Arming a timeout moves no task.                                         *)
LEMMA StartWaitingKeepsCoreInv ==
    ASSUME NEW t \in Task, CoreInv, StartWaiting(t) PROVE CoreInv'
<1> USE DEF CoreInv, StartWaiting
<1>1. TypeOK'
  BY DEF TypeOK, SchedTypeOK
<1>2. LockHasOwner'
  BY DEF TypeOK, SchedTypeOK, LockHasOwner, HasScheduler, HasTxLock, HasRxLock
<1>3. CallInv'
  BY DEF TypeOK, SchedTypeOK, CallInv, HasScheduler
<1>4. BlockedIsWaiting'
  BY DEF BlockedIsWaiting, OnList, NoDuplicates, Ready, EventListOf, Sends
<1>5. BlockedInv'
  BY DEF TypeOK, SchedTypeOK, BlockedInv, HasPlacedItself, Ready
<1>6. PlaceInv'
  BY DEF TypeOK, SchedTypeOK, PlaceInv
<1>7. ReceiversNotStranded'
  <2>1. CASE op[t] = "send"
    <3>1. RetryingReceivers \subseteq RetryingReceivers'
      BY <2>1
         DEF RetryingReceivers, OnItsWay, HasPlacedItself, OnList, EventListOf, Sends,
             Receives, TypeOK
    <3> QED BY <3>1, <1>1, CoverageGrows DEF ReceiversNotStranded, TypeOK
  <2>2. CASE uxMessagesWaiting = 0
    BY <2>2, RetryingIsFinite
       DEF ReceiversNotStranded, MessagesCovered, Covered, TypeOK, queueUNLOCKED
  <2> QED BY <2>1, <2>2 DEF CannotProceed, TypeOK, Receives
<1> QED BY <1>1, <1>2, <1>3, <1>4, <1>5, <1>6, <1>7

(* A call that suspends the scheduler finds it running.                    *)
LEMMA SuspendAllKeepsCoreInv ==
    ASSUME NEW t \in Task, CoreInv, SuspendAll(t) PROVE CoreInv'
<1> USE DEF CoreInv, SuspendAll, vTaskSuspendAll
<1>1. TypeOK'
  BY TaskAssumption DEF TypeOK, SchedTypeOK
<1>2. LockHasOwner'
  BY DEF TypeOK, SchedTypeOK, LockHasOwner, CallInv, HasScheduler, HasTxLock, HasRxLock
<1>3. CallInv'
  BY DEF TypeOK, SchedTypeOK, CallInv, HasScheduler
<1>4. BlockedIsWaiting'
  BY DEF BlockedIsWaiting, OnList, NoDuplicates, Ready, EventListOf, Sends, TypeOK,
         SchedTypeOK
<1>5. BlockedInv'
  BY DEF TypeOK, SchedTypeOK, BlockedInv, HasPlacedItself, Ready
<1>6. PlaceInv'
  BY DEF TypeOK, SchedTypeOK, PlaceInv
<1>7. RetryingReceivers \subseteq RetryingReceivers'
  BY DEF RetryingReceivers, OnItsWay, HasPlacedItself, OnList, EventListOf, Sends, TypeOK
<1>8. ReceiversNotStranded'
  BY <1>1, <1>7, CoverageGrows DEF ReceiversNotStranded, TypeOK
<1> QED BY <1>1, <1>2, <1>3, <1>4, <1>5, <1>6, <1>8

(* Nobody else holds the locks, so the counts start at nought.             *)
LEMMA prvLockQueueKeepsCoreInv ==
    ASSUME NEW t \in Task, CoreInv, prvLockQueue(t) PROVE CoreInv'
<1> USE DEF CoreInv, prvLockQueue, schedVars
<1>1. TypeOK'
  BY NumberOfTasksType
     DEF TypeOK, SchedTypeOK, Locked, queueUNLOCKED, queueLOCKED_UNMODIFIED
<1>2. LockHasOwner'
  BY DEF TypeOK, SchedTypeOK, LockHasOwner, HasScheduler, HasTxLock, HasRxLock, Locked,
         queueUNLOCKED, queueLOCKED_UNMODIFIED
<1>3. CallInv'
  BY DEF TypeOK, SchedTypeOK, CallInv, HasScheduler
<1>4. BlockedIsWaiting'
  BY DEF BlockedIsWaiting, OnList, NoDuplicates, Ready, EventListOf, Sends
<1>5. BlockedInv'
  BY DEF TypeOK, SchedTypeOK, BlockedInv, HasPlacedItself, Ready
<1>6. PlaceInv'
  BY DEF TypeOK, SchedTypeOK, PlaceInv
<1>7. RetryingReceivers' = RetryingReceivers
  BY DEF RetryingReceivers, OnItsWay, HasPlacedItself, OnList, EventListOf, Sends, TypeOK
<1>8. ReceiversNotStranded'
  BY <1>7, RetryingIsFinite, NumberOfTasksType
     DEF ReceiversNotStranded, MessagesCovered, Covered, TypeOK, Locked, queueUNLOCKED,
         queueLOCKED_UNMODIFIED, NumberOfTasks
<1> QED BY <1>1, <1>2, <1>3, <1>4, <1>5, <1>6, <1>8

(* A task whose wait timed out has not placed itself.                      *)
LEMMA xTaskCheckForTimeOutKeepsCoreInv ==
    ASSUME NEW t \in Task, CoreInv, xTaskCheckForTimeOut(t) PROVE CoreInv'
<1> USE DEF CoreInv, xTaskCheckForTimeOut
<1>1. TypeOK'
  <2>1. CASE deadline[t] = "expired"
    <3>1. SchedTypeOK'
      BY <2>1 DEF TypeOK, SchedTypeOK
    <3>2. pc' \in [Task -> {"app", "enter", "suspend", "lock", "check", "test", "place",
                            "unlockTx", "unlockRx", "resume", "yield", "retest"}]
      BY <2>1 DEF TypeOK
    <3> QED BY <2>1, <3>1, <3>2 DEF TypeOK
  <2>2. CASE deadline[t] # "expired"
    <3>1. SchedTypeOK'
      BY <2>2 DEF TypeOK, SchedTypeOK
    <3>2. pc' \in [Task -> {"app", "enter", "suspend", "lock", "check", "test", "place",
                            "unlockTx", "unlockRx", "resume", "yield", "retest"}]
      BY <2>2 DEF TypeOK
    <3> QED BY <2>2, <3>1, <3>2 DEF TypeOK
  <2> QED BY <2>1, <2>2
<1>2. LockHasOwner'
  BY DEF TypeOK, SchedTypeOK, LockHasOwner, HasScheduler, HasTxLock, HasRxLock
<1>3. CallInv'
  BY DEF TypeOK, SchedTypeOK, CallInv, HasScheduler
<1>4. BlockedIsWaiting'
  BY DEF BlockedIsWaiting, OnList, NoDuplicates, Ready, EventListOf, Sends
<1>5. BlockedInv'
  BY DEF TypeOK, SchedTypeOK, BlockedInv, HasPlacedItself, Ready
<1>6. PlaceInv'
  BY DEF TypeOK, SchedTypeOK, PlaceInv
<1>7. RetryingReceivers \subseteq RetryingReceivers'
  BY DEF RetryingReceivers, OnItsWay, HasPlacedItself, OnList, EventListOf, Sends, TypeOK
<1>8. ReceiversNotStranded'
  BY <1>1, <1>7, CoverageGrows DEF ReceiversNotStranded, TypeOK
<1> QED BY <1>1, <1>2, <1>3, <1>4, <1>5, <1>6, <1>8

(* A receiver goes on to wait only if the queue is empty.                  *)
LEMMA TestAgainKeepsCoreInv ==
    ASSUME NEW t \in Task, CoreInv, TestAgain(t) PROVE CoreInv'
<1> USE DEF CoreInv, TestAgain, schedVars
<1>1. TypeOK'
  <2>1. SchedTypeOK'
    BY DEF TypeOK, SchedTypeOK
  <2>2. pc' \in [Task -> {"app", "enter", "suspend", "lock", "check", "test", "place",
                          "unlockTx", "unlockRx", "resume", "yield", "retest"}]
    BY DEF TypeOK
  <2> QED BY <2>1, <2>2 DEF TypeOK
<1>2. LockHasOwner'
  BY DEF TypeOK, SchedTypeOK, LockHasOwner, HasScheduler, HasTxLock, HasRxLock
<1>3. CallInv'
  BY DEF TypeOK, SchedTypeOK, CallInv, HasScheduler
<1>4. BlockedIsWaiting'
  BY DEF BlockedIsWaiting, OnList, NoDuplicates, Ready, EventListOf, Sends
<1>5. BlockedInv'
  BY DEF TypeOK, SchedTypeOK, BlockedInv, HasPlacedItself, Ready
<1>7. RetryingReceivers \subseteq RetryingReceivers'
  BY DEF RetryingReceivers, OnItsWay, HasPlacedItself, OnList, EventListOf, Sends, TypeOK
<1>6. PlaceInv'
  BY <1>1, RetryingIsFinite
     DEF PlaceInv, MessagesCovered, Covered, CannotProceed, Receives, TypeOK, SchedTypeOK,
         queueUNLOCKED
<1>8. ReceiversNotStranded'
  BY <1>1, <1>7, CoverageGrows DEF ReceiversNotStranded, TypeOK
<1> QED BY <1>1, <1>2, <1>3, <1>4, <1>5, <1>6, <1>8

(* A task in the application is ready and becomes a retrying one.          *)
LEMMA CallKeepsCoreInv ==
    ASSUME NEW t \in Task, CoreInv, Call(t) PROVE CoreInv'
<1> USE DEF CoreInv
<1>a. PICK o \in Calls[t] \ {"reset"}, w \in Waits :
          /\ At(t, "app")
          /\ uxSchedulerSuspended # 0 => w = "zero"
          /\ op' = [op EXCEPT ![t] = o]
          /\ xTicksToWait' = [xTicksToWait EXCEPT ![t] = w]
          /\ GoTo(t, "enter")
          /\ UNCHANGED <<schedVars, uxMessagesWaiting, cRxLock, cTxLock, after>>
  BY DEF Call
<1>b. o \in {"send", "overwrite", "receive", "peek"} /\ w \in {"zero", "ticks", "max"}
  BY QueueAssumption DEF Operation
<1> USE <1>a, <1>b DEF schedVars
<1>1. TypeOK'
  BY DEF TypeOK, SchedTypeOK, Operation
<1>2. LockHasOwner'
  BY DEF TypeOK, SchedTypeOK, LockHasOwner, HasScheduler, HasTxLock, HasRxLock
<1>3. CallInv'
  BY DEF TypeOK, SchedTypeOK, CallInv, HasScheduler
<1>4. t \in Ready
  BY DEF BlockedInv, HasPlacedItself
<1>5. BlockedIsWaiting'
  BY <1>4 DEF BlockedIsWaiting, OnList, NoDuplicates, Ready, EventListOf, Sends, TypeOK
<1>6. BlockedInv'
  BY <1>4 DEF TypeOK, SchedTypeOK, BlockedInv, HasPlacedItself, Ready
<1>7. PlaceInv'
  BY DEF TypeOK, SchedTypeOK, PlaceInv
<1>8. RetryingReceivers \subseteq RetryingReceivers'
  BY <1>5
     DEF RetryingReceivers, OnItsWay, HasPlacedItself, OnList, EventListOf, Sends, TypeOK
<1>9. ReceiversNotStranded'
  BY <1>1, <1>8, CoverageGrows DEF ReceiversNotStranded, TypeOK
<1> QED BY <1>1, <1>2, <1>3, <1>5, <1>6, <1>7, <1>9

(* The application suspends the scheduler outside any call.                *)
LEMMA AppSuspendAllKeepsCoreInv ==
    ASSUME NEW t \in Task, CoreInv, AppSuspendAll(t) PROVE CoreInv'
<1> USE DEF CoreInv, AppSuspendAll, vTaskSuspendAll, queueVars
<1>1. TypeOK'
  BY TaskAssumption DEF TypeOK, SchedTypeOK
<1>2. LockHasOwner'
  BY DEF TypeOK, SchedTypeOK, LockHasOwner, CallInv, HasScheduler, HasTxLock, HasRxLock
<1>3. CallInv'
  BY DEF TypeOK, SchedTypeOK, CallInv, HasScheduler
<1>4. BlockedIsWaiting'
  BY DEF BlockedIsWaiting, OnList, NoDuplicates, Ready, EventListOf, Sends, TypeOK,
         SchedTypeOK
<1>5. BlockedInv'
  BY DEF TypeOK, SchedTypeOK, BlockedInv, HasPlacedItself, Ready
<1>6. PlaceInv' /\ ReceiversNotStranded'
  BY DEF TypeOK, SchedTypeOK, PlaceInv, ReceiversNotStranded, MessagesCovered, Covered,
         RetryingReceivers, OnItsWay, HasPlacedItself, OnList
<1> QED BY <1>1, <1>2, <1>3, <1>4, <1>5, <1>6

(* CoreInv does not depend on priorities.                                     *)
LEMMA AppPrioritySetKeepsCoreInv ==
    ASSUME NEW t \in Task, CoreInv, AppPrioritySet(t) PROVE CoreInv'
<1> USE DEF CoreInv
<1>a. PICK u \in Task, p \in 0..MaxPriorities - 1 : vTaskPrioritySet(u, p)
  BY QueueAssumption DEF AppPrioritySet
<1>b. pendSV' \in BOOLEAN
  <2>1. CASE u = pxCurrentTCB
    BY <1>a, <2>1 DEF vTaskPrioritySet
  <2>2. CASE u # pxCurrentTCB
    BY <1>a, <2>2 DEF vTaskPrioritySet
  <2> QED BY <2>1, <2>2
<1>1. TypeOK'
  BY <1>a, <1>b DEF TypeOK, SchedTypeOK, AppPrioritySet, vTaskPrioritySet, queueVars
<1> USE <1>a DEF AppPrioritySet, vTaskPrioritySet, queueVars
<1>2. LockHasOwner'
  BY DEF TypeOK, SchedTypeOK, LockHasOwner, CallInv, HasScheduler, HasTxLock, HasRxLock
<1>3. CallInv'
  BY DEF TypeOK, SchedTypeOK, CallInv, HasScheduler
<1>4. BlockedIsWaiting'
  BY DEF BlockedIsWaiting, OnList, NoDuplicates, Ready, EventListOf, Sends, TypeOK,
         SchedTypeOK
<1>5. BlockedInv'
  BY DEF TypeOK, SchedTypeOK, BlockedInv, HasPlacedItself, Ready
<1>6. PlaceInv' /\ ReceiversNotStranded'
  BY DEF TypeOK, SchedTypeOK, PlaceInv, ReceiversNotStranded, MessagesCovered, Covered,
         RetryingReceivers, OnItsWay, HasPlacedItself, OnList
<1> QED BY <1>1, <1>2, <1>3, <1>4, <1>5, <1>6

(* A receiver gives up only when there is no message.                      *)
LEMMA GiveUpKeepsCoreInv ==
    ASSUME NEW t \in Task, CoreInv, GiveUp(t) PROVE CoreInv'
<1> USE DEF CoreInv, GiveUp, Return
<1>1. TypeOK'
  BY DEF TypeOK, SchedTypeOK
<1>2. LockHasOwner'
  BY DEF TypeOK, SchedTypeOK, LockHasOwner, HasScheduler, HasTxLock, HasRxLock
<1>3. CallInv'
  BY DEF TypeOK, SchedTypeOK, CallInv, HasScheduler
<1>4. t \in Ready
  BY DEF BlockedInv
<1>5. BlockedIsWaiting'
  BY <1>4 DEF BlockedIsWaiting, OnList, NoDuplicates, Ready, EventListOf, Sends, TypeOK
<1>6. BlockedInv'
  BY <1>4 DEF TypeOK, SchedTypeOK, BlockedInv, HasPlacedItself, Ready
<1>7. PlaceInv'
  BY DEF TypeOK, SchedTypeOK, PlaceInv
<1>8. ReceiversNotStranded'
  <2>1. CASE op[t] = "send"
    <3>1. RetryingReceivers \subseteq RetryingReceivers'
      BY <2>1
         DEF RetryingReceivers, OnItsWay, HasPlacedItself, OnList, EventListOf, Sends,
             Receives, TypeOK
    <3> QED BY <3>1, <1>1, CoverageGrows DEF ReceiversNotStranded, TypeOK
  <2>2. CASE uxMessagesWaiting = 0
    BY <2>2, RetryingIsFinite
       DEF ReceiversNotStranded, MessagesCovered, Covered, TypeOK, queueUNLOCKED
  <2> QED BY <2>1, <2>2 DEF CannotProceed, TypeOK, Receives
<1> QED BY <1>1, <1>2, <1>3, <1>5, <1>6, <1>7, <1>8

(* A task that leaves the processor has pended the switch.                 *)
LEMMA YieldWithinApiKeepsCoreInv ==
    ASSUME NEW t \in Task, CoreInv, YieldWithinApi(t) PROVE CoreInv'
<1> USE DEF CoreInv, YieldWithinApi
<1>1. TypeOK'
  BY DEF TypeOK, SchedTypeOK
<1>2. LockHasOwner'
  BY DEF TypeOK, SchedTypeOK, LockHasOwner, HasScheduler, HasTxLock, HasRxLock
<1>3. CallInv'
  BY DEF TypeOK, SchedTypeOK, CallInv, HasScheduler
<1>5. BlockedIsWaiting'
  BY DEF BlockedIsWaiting, OnList, NoDuplicates, Ready, EventListOf, Sends, TypeOK
<1>6. BlockedInv'
  BY DEF TypeOK, SchedTypeOK, BlockedInv, HasPlacedItself, Ready, CallInv, HasScheduler
<1>7. PlaceInv'
  BY DEF TypeOK, SchedTypeOK, PlaceInv
<1>8. RetryingReceivers \subseteq RetryingReceivers'
  BY DEF RetryingReceivers, OnItsWay, HasPlacedItself, OnList, EventListOf, Sends, TypeOK
<1>9. ReceiversNotStranded'
  BY <1>1, <1>8, CoverageGrows DEF ReceiversNotStranded, TypeOK
<1> QED BY <1>1, <1>2, <1>3, <1>5, <1>6, <1>7, <1>9

(* A receiver that fails after its timeout saw the queue empty.            *)
LEMMA RetestKeepsCoreInv ==
    ASSUME NEW t \in Task, CoreInv, Retest(t) PROVE CoreInv'
<1> USE DEF CoreInv
<1>a. UNCHANGED <<uxMessagesWaiting, cRxLock, cTxLock, pxCurrentTCB, uxPriority,
                  xStateListItem, eventList, xPendingReadyList, uxSchedulerSuspended,
                  xYieldPending, ticksPended, pendSV>>
  BY DEF Retest
<1>1. TypeOK'
  <2>1. CASE uxMessagesWaiting = 0
    <3>1. Return(t)
      BY <2>1 DEF Retest
    <3> QED BY <1>a, <3>1 DEF TypeOK, SchedTypeOK, Return
  <2>2. CASE uxMessagesWaiting # 0
    <3>1. GoTo(t, "enter") /\ UNCHANGED <<op, xTicksToWait, after, deadline>>
      BY <2>2 DEF Retest
    <3> QED BY <1>a, <3>1 DEF TypeOK, SchedTypeOK
  <2> QED BY <2>1, <2>2
<1>3. CallInv'
  <2>1. uxSchedulerSuspended' = 0
    BY <1>a DEF Retest, CallInv, HasScheduler
  <2>2. CASE uxMessagesWaiting = 0
    <3>1. Return(t)
      BY <2>2 DEF Retest
    <3> QED BY <2>1, <3>1 DEF Return, CallInv, TypeOK
  <2>3. CASE uxMessagesWaiting # 0
    <3>1. At(t, "retest") /\ GoTo(t, "enter") /\ UNCHANGED <<op, after>>
      BY <2>3 DEF Retest
    <3> QED BY <2>1, <3>1 DEF CallInv, TypeOK
  <2> QED BY <2>2, <2>3
<1> USE DEF Retest, Return
<1>2. LockHasOwner'
  BY DEF TypeOK, SchedTypeOK, LockHasOwner, HasScheduler, HasTxLock, HasRxLock
<1>4. t \in Ready
  BY DEF BlockedInv, HasPlacedItself
<1>5. BlockedIsWaiting'
  BY <1>4 DEF BlockedIsWaiting, OnList, NoDuplicates, Ready, EventListOf, Sends, TypeOK
<1>6. BlockedInv'
  BY <1>4 DEF TypeOK, SchedTypeOK, BlockedInv, HasPlacedItself, Ready
<1>7. PlaceInv'
  BY DEF TypeOK, SchedTypeOK, PlaceInv
<1>8. RetryingReceivers \subseteq RetryingReceivers'
  BY DEF RetryingReceivers, OnItsWay, HasPlacedItself, OnList, EventListOf, Sends, TypeOK
<1>9. ReceiversNotStranded'
  BY <1>1, <1>8, CoverageGrows DEF ReceiversNotStranded, TypeOK
<1> QED BY <1>1, <1>2, <1>3, <1>5, <1>6, <1>7, <1>9

(* A switch takes the processor from a task that holds no lock.            *)
LEMMA PendSVKeepsCoreInv ==
    ASSUME CoreInv, PendSV PROVE CoreInv'
<1> USE DEF CoreInv, PendSV, vTaskSwitchContext, queueVars
<1>1. TypeOK'
  BY DEF TypeOK, SchedTypeOK, HighestReady, Ready
<1>2. LockHasOwner'
  BY DEF TypeOK, SchedTypeOK, LockHasOwner, HasScheduler, HasTxLock, HasRxLock,
         HighestReady, Ready
<1>3. CallInv'
  BY DEF TypeOK, SchedTypeOK, CallInv, HasScheduler
<1>5. BlockedIsWaiting'
  BY DEF BlockedIsWaiting, OnList, NoDuplicates, Ready, EventListOf, Sends, TypeOK
<1>6. BlockedInv'
  BY DEF TypeOK, SchedTypeOK, BlockedInv, HasPlacedItself, Ready, HighestReady
<1>7. RetryingReceivers' = RetryingReceivers
  BY DEF RetryingReceivers, OnItsWay, HasPlacedItself, OnList, EventListOf, Sends, TypeOK
<1>8. PlaceInv'
  <2>1. pxCurrentTCB' # pxCurrentTCB => pc[pxCurrentTCB'] # "place"
    BY <1>1 DEF TypeOK, SchedTypeOK, LockHasOwner, HasScheduler
  <2> QED BY <1>7, <2>1 DEF PlaceInv, MessagesCovered, Covered
<1>9. ReceiversNotStranded'
  BY <1>7 DEF ReceiversNotStranded, MessagesCovered, Covered
<1> QED BY <1>1, <1>2, <1>3, <1>5, <1>6, <1>8, <1>9

(* A reset leaves no message to cover.                                     *)
LEMMA xQueueGenericResetKeepsCoreInv ==
    ASSUME NEW t \in Task, CoreInv, xQueueGenericReset(t) PROVE CoreInv'
<1> DEFINE n == AtMostOne(Tx)
<1> USE DEF CoreInv, xQueueGenericReset, WakeOne
<1>a. Tx \in EventLists
  BY EventListAssumption
<1>b. n \in 0..Len(eventList[Tx])
  BY <1>a, NumberWoken
<1>c. xTaskRemoveFromEventList(Tx, n) /\ uxSchedulerSuspended' = uxSchedulerSuspended
  OBVIOUS
<1>d. WokenPreempts(Tx) \in BOOLEAN
  BY DEF WokenPreempts, Preempts
<1> HIDE DEF n
<1>1. TypeOK'
  BY <1>a, <1>b, <1>c, <1>d, WakeFacts, QueueAssumption, NumberOfTasksType
     DEF TypeOK, SchedTypeOK, queueUNLOCKED
<1>2. LockHasOwner'
  BY DEF TypeOK, SchedTypeOK, LockHasOwner, HasScheduler, HasTxLock, HasRxLock
<1>3. CallInv'
  BY DEF TypeOK, SchedTypeOK, CallInv, HasScheduler
<1>4. BlockedIsWaiting'
  BY <1>a, <1>b, <1>c, WakeKeepsBlockedIsWaiting
<1>5. BlockedInv'
  <2>1. Ready \subseteq Ready'
    BY <1>a, <1>b, <1>c, WakeFacts
  <2> QED BY <2>1 DEF TypeOK, SchedTypeOK, BlockedInv, HasPlacedItself
<1>6. PlaceInv'
  BY DEF TypeOK, SchedTypeOK, PlaceInv
<1>7. MessagesCovered'
  BY RetryingIsFinite DEF MessagesCovered, Covered, queueUNLOCKED
<1> QED BY <1>1, <1>2, <1>3, <1>4, <1>5, <1>6, <1>7 DEF ReceiversNotStranded

(* The unlock wakes a receiver for each counted message, or all.           *)
LEMMA UnlockTxKeepsCoreInv ==
    ASSUME NEW t \in Task, CoreInv, UnlockTx(t) PROVE CoreInv'
<1> DEFINE n == WakesOf(cTxLock, Rx)
<1> USE DEF CoreInv, UnlockTx
<1>a. Rx \in EventLists
  BY EventListAssumption
<1>b. n \in 0..Len(eventList[Rx])
  BY <1>a, NumberWoken DEF TypeOK
<1>c. xTaskRemoveFromEventList(Rx, n) /\ uxSchedulerSuspended' = uxSchedulerSuspended
  OBVIOUS
<1> HIDE DEF n
<1>1. TypeOK'
  BY <1>a, <1>b, <1>c, WakeFacts, NumberOfTasksType DEF TypeOK, SchedTypeOK, queueUNLOCKED
<1>2. LockHasOwner'
  BY DEF TypeOK, SchedTypeOK, LockHasOwner, HasScheduler, HasTxLock, HasRxLock
<1>3. CallInv'
  BY DEF TypeOK, SchedTypeOK, CallInv, HasScheduler
<1>4. BlockedIsWaiting'
  BY <1>a, <1>b, <1>c, WakeKeepsBlockedIsWaiting
<1>5. BlockedInv'
  <2>1. Ready \subseteq Ready'
    BY <1>a, <1>b, <1>c, WakeFacts
  <2> QED BY <2>1 DEF TypeOK, SchedTypeOK, BlockedInv, HasPlacedItself
<1>6. PlaceInv'
  BY DEF TypeOK, SchedTypeOK, PlaceInv
<1>7. ASSUME eventList'[Rx] # <<>>
      PROVE  MessagesCovered'
  <2>1. eventList[Rx] # <<>> /\ n < Len(eventList[Rx])
    BY <1>7, <1>a, <1>b, <1>c, WakeFacts
  <2>2. cTxLock \in 0..NumberOfTasks
    BY NumberOfTasksType DEF LockHasOwner, HasTxLock, TypeOK, queueUNLOCKED
  <2>3. n = cTxLock
    BY <2>1, <2>2, NumberOfTasksType DEF n, WakesOf, queueLOCKED_UNMODIFIED
  <2>4. \A u \in Task : u \in RetryingReceivers \/ u \in FirstOf(Rx, n)
                            => op'[u] = op[u] /\ (HasPlacedItself(u) => HasPlacedItself(u)')
    BY DEF HasPlacedItself, TypeOK
  <2>5. Cardinality(RetryingReceivers') >= Cardinality(RetryingReceivers) + cTxLock
    BY <1>b, <1>c, <2>3, <2>4, WokenReceiversRetry
  <2>6. MessagesCovered
    BY <2>1 DEF ReceiversNotStranded
  <2>7. cTxLock # NumberOfTasks
    <3>1. FirstOf(Rx, n) \subseteq Task /\ Cardinality(FirstOf(Rx, n)) = n
      BY <1>a, <1>b, <1>c, WakeFacts DEF OnList, ToSet, TypeOK, SchedTypeOK
    <3>2. FirstOf(Rx, n) # Task
      <4>1. 1 \in DOMAIN eventList'[Rx] /\ eventList'[Rx] \in Seq(Task)
        BY <1>1, <1>7, <1>a, NonEmptyList DEF TypeOK, SchedTypeOK
      <4>2. eventList'[Rx][1] \in Task /\ eventList'[Rx][1] \in OnList(Rx)'
        BY <4>1 DEF OnList, ToSet
      <4> QED BY <4>2, <1>a, <1>b, <1>c, WakeFacts
    <3> QED BY <3>1, <3>2, <2>3, FS_Subset, TaskAssumption DEF NumberOfTasks
  <2>8. uxMessagesWaiting <= Cardinality(RetryingReceivers) + cTxLock
    BY <2>2, <2>6, <2>7 DEF MessagesCovered, Covered, queueUNLOCKED
  <2> QED BY <2>2, <2>5, <2>8, RetryingIsFinite DEF MessagesCovered, Covered, queueUNLOCKED, TypeOK
<1> QED BY <1>1, <1>2, <1>3, <1>4, <1>5, <1>6, <1>7 DEF ReceiversNotStranded

(* Waking senders takes no receiver from its way.                          *)
LEMMA UnlockRxKeepsCoreInv ==
    ASSUME NEW t \in Task, CoreInv, UnlockRx(t) PROVE CoreInv'
<1> DEFINE n == WakesOf(cRxLock, Tx)
<1> USE DEF CoreInv, UnlockRx
<1>a. Tx \in EventLists
  BY EventListAssumption
<1>b. n \in 0..Len(eventList[Tx])
  BY <1>a, NumberWoken DEF TypeOK
<1>c. xTaskRemoveFromEventList(Tx, n) /\ uxSchedulerSuspended' = uxSchedulerSuspended
  OBVIOUS
<1> HIDE DEF n
<1>1. TypeOK'
  BY <1>a, <1>b, <1>c, WakeFacts, NumberOfTasksType DEF TypeOK, SchedTypeOK, queueUNLOCKED
<1>2. LockHasOwner'
  BY DEF TypeOK, SchedTypeOK, LockHasOwner, HasScheduler, HasTxLock, HasRxLock
<1>3. CallInv'
  BY DEF TypeOK, SchedTypeOK, CallInv, HasScheduler
<1>4. BlockedIsWaiting'
  BY <1>a, <1>b, <1>c, WakeKeepsBlockedIsWaiting
<1>5. BlockedInv'
  <2>1. Ready \subseteq Ready'
    BY <1>a, <1>b, <1>c, WakeFacts
  <2> QED BY <2>1 DEF TypeOK, SchedTypeOK, BlockedInv, HasPlacedItself
<1>6. PlaceInv'
  BY DEF TypeOK, SchedTypeOK, PlaceInv
<1>7. eventList'[Rx] = eventList[Rx] /\ RetryingReceivers \subseteq RetryingReceivers'
  <2>1. \A u \in RetryingReceivers : op'[u] = op[u] /\ (HasPlacedItself(u) => HasPlacedItself(u)')
    BY DEF HasPlacedItself, TypeOK
  <2> QED BY <2>1, <1>b, <1>c, WokenSendersOnly
<1>8. ReceiversNotStranded'
  BY <1>1, <1>7, CoverageGrows DEF ReceiversNotStranded, TypeOK
<1> QED BY <1>1, <1>2, <1>3, <1>4, <1>5, <1>6, <1>8

(* The list gets a receiver only under PlaceInv.                           *)
LEMMA PlaceOnEventListKeepsCoreInv ==
    ASSUME NEW t \in Task, CoreInv, PlaceOnEventList(t) PROVE CoreInv'
<1> USE DEF CoreInv
<1>a. /\ At(t, "place")
      /\ after' = [after EXCEPT ![t] = "yield"]
      /\ GoTo(t, "unlockTx")
      /\ UNCHANGED <<uxMessagesWaiting, cRxLock, cTxLock, op, xTicksToWait, pxCurrentTCB,
                     uxPriority, xPendingReadyList, uxSchedulerSuspended, xYieldPending,
                     ticksPended, pendSV, deadline>>
  BY DEF PlaceOnEventList
<1>b. PICK l \in EventLists : l = EventListOf(op[t]) /\ {Rx, Tx} \subseteq EventLists
  BY EventListAssumption DEF EventListOf
<1>c. t \in Ready /\ t \notin xPendingReadyList /\ op[t] # "none"
  BY <1>a DEF BlockedInv, HasPlacedItself, BlockedIsWaiting, CallInv
<1>d. PICK s \in ListInsert(eventList[l], t) : eventList' = [eventList EXCEPT ![l] = s]
  BY <1>b DEF PlaceOnEventList, vTaskPlaceOnEventList
<1>e. t \notin ToSet(eventList[l])
  BY <1>b, <1>c DEF BlockedIsWaiting, OnList
<1>f. /\ s \in Seq(Task)
      /\ ToSet(s) = OnList(l) \cup {t}
      /\ NoDuplicates(s)
  BY <1>b, <1>e, ListInsertFacts DEF OnList, TypeOK, SchedTypeOK, BlockedIsWaiting
<1>g. /\ eventList' \in [EventLists -> Seq(Task)]
      /\ eventList'[l] = s
      /\ OnList(l)' = OnList(l) \cup {t}
      /\ \A k \in EventLists \ {l} : eventList'[k] = eventList[k] /\ OnList(k)' = OnList(k)
  <2>1. eventList \in [EventLists -> Seq(Task)]
    BY DEF TypeOK, SchedTypeOK
  <2> QED BY <2>1, <1>b, <1>d, <1>f DEF OnList
<1>h. PICK item \in {"delayed", "suspended"} :
          xStateListItem' = [xStateListItem EXCEPT ![t] = item]
  BY <1>a DEF PlaceOnEventList, vTaskPlaceOnEventList
<1>i. xStateListItem' \in [Task -> {"ready", "delayed", "suspended"}] /\ Ready' = Ready \ {t}
  BY <1>h DEF TypeOK, SchedTypeOK, Ready
<1>1. TypeOK'
  BY <1>a, <1>g, <1>i DEF TypeOK, SchedTypeOK
<1>2. LockHasOwner'
  BY <1>a DEF TypeOK, SchedTypeOK, LockHasOwner, HasScheduler, HasTxLock, HasRxLock
<1>3. CallInv'
  BY <1>a DEF TypeOK, SchedTypeOK, CallInv, HasScheduler
<1>4. BlockedIsWaiting'
  <2>1. \A k \in EventLists : NoDuplicates(eventList'[k])
    BY <1>f, <1>g DEF BlockedIsWaiting
  <2>2. ASSUME NEW u \in Task, NEW k \in EventLists
        PROVE  u \in OnList(k)' <=> /\ u \notin Ready' \cup xPendingReadyList'
                                    /\ k = (EventListOf(op[u]))'
    <3>1. u \in OnList(k) <=> u \notin Ready \cup xPendingReadyList /\ k = EventListOf(op[u])
      BY DEF BlockedIsWaiting
    <3>2. EventListOf(op[u])' = EventListOf(op[u])
      BY <1>a DEF EventListOf, Sends
    <3> QED BY <3>1, <3>2, <1>a, <1>b, <1>c, <1>g, <1>i
  <2>3. \A u \in Task \ Ready' : op'[u] # "none"
    BY <1>a, <1>c, <1>i DEF BlockedIsWaiting
  <2>4. \A u \in xPendingReadyList' : u \notin Ready' /\ uxSchedulerSuspended' # 0
    BY <1>a, <1>i DEF BlockedIsWaiting
  <2> QED BY <2>1, <2>2, <2>3, <2>4 DEF BlockedIsWaiting
<1>5. BlockedInv'
  BY <1>a, <1>i DEF TypeOK, SchedTypeOK, BlockedInv, HasPlacedItself
<1>6. PlaceInv'
  BY <1>a DEF TypeOK, SchedTypeOK, PlaceInv
<1>7. ASSUME NEW u \in RetryingReceivers
      PROVE  u \in RetryingReceivers'
  <2>1. u # t /\ u \in Task
    BY <1>a DEF RetryingReceivers, OnItsWay, HasPlacedItself
  <2>2. EventListOf(op[u]) = Rx /\ EventListOf(op[u])' = Rx
    BY <1>a DEF RetryingReceivers, Receives, EventListOf, Sends
  <2>3. u \notin OnList(Rx)'
    BY <2>1, <2>2, <1>b, <1>g DEF RetryingReceivers, OnItsWay
  <2> QED BY <2>1, <2>2, <2>3, <1>a DEF RetryingReceivers, OnItsWay, HasPlacedItself, TypeOK, Receives
<1>8. ReceiversNotStranded'
  <2>1. MessagesCovered => MessagesCovered'
    <3>1. uxMessagesWaiting' <= uxMessagesWaiting /\ cTxLock' = cTxLock
      BY <1>a DEF TypeOK
    <3> QED BY <3>1, <1>1, <1>7, CoverageGrows
  <2>2. CASE Receives(op[t])
    BY <2>1, <2>2, <1>a DEF PlaceInv, ReceiversNotStranded
  <2>3. CASE ~Receives(op[t])
    <3>1. l = Tx /\ Tx # Rx
      BY <2>3, <1>b, <1>c DEF TypeOK, Operation, Receives, EventListOf, Sends, Rx, Tx
    <3> QED BY <3>1, <2>1, <1>b, <1>g DEF ReceiversNotStranded
  <2> QED BY <2>2, <2>3
<1> QED BY <1>1, <1>2, <1>3, <1>4, <1>5, <1>6, <1>8

(* Emptying xPendingReadyList and expiring deadlines.                      *)
LEMMA ExpireKeeps ==
    ASSUME CoreInv, NEW X \in SUBSET Task, Expire(X, PendingMadeReady), xPendingReadyList' = {},
           \A u \in Task \ Ready : op'[u] = op[u],
           \A u \in RetryingReceivers :
               op'[u] = op[u] /\ (HasPlacedItself(u) => HasPlacedItself(u)')
    PROVE  /\ eventList' \in [EventLists -> Seq(Task)]
           /\ xStateListItem' \in [Task -> {"ready", "delayed", "suspended"}]
           /\ deadline' \in [Task -> {"none", "armed", "expired"}]
           /\ BlockedIsWaiting'
           /\ Ready \subseteq Ready'
           /\ eventList'[Rx] # <<>> => eventList[Rx] # <<>>
           /\ RetryingReceivers \subseteq RetryingReceivers'
<1> DEFINE woken == {t \in X : PendingMadeReady[t] = "delayed"}
<1> USE DEF CoreInv
<1>1. PendingMadeReady \in [Task -> {"ready", "delayed", "suspended"}]
  BY DEF PendingMadeReady, TypeOK, SchedTypeOK
<1>2. /\ eventList' \in [EventLists -> Seq(Task)]
      /\ \A k \in EventLists : NoDuplicates(eventList'[k])
      /\ \A k \in EventLists : OnList(k)' = OnList(k) \ woken
      /\ \A k \in EventLists : eventList'[k] # <<>> => eventList[k] # <<>>
      /\ xStateListItem' \in [Task -> {"ready", "delayed", "suspended"}]
      /\ deadline' \in [Task -> {"none", "armed", "expired"}]
      /\ Ready' = {t \in Task : PendingMadeReady[t] = "ready"} \cup woken
  BY <1>1, ExpireFacts
<1>3. {t \in Task : PendingMadeReady[t] = "ready"} = Ready \cup xPendingReadyList
  BY DEF PendingMadeReady, Ready, TypeOK, SchedTypeOK
<1>4. Rx \in EventLists
  BY EventListAssumption
<1> HIDE DEF woken
<1>5. BlockedIsWaiting'
  <2>1. ASSUME NEW u \in Task, NEW k \in EventLists
        PROVE  u \in OnList(k)' <=> /\ u \notin Ready' \cup xPendingReadyList'
                                    /\ k = (EventListOf(op[u]))'
    <3>1. u \in OnList(k) <=> u \notin Ready \cup xPendingReadyList /\ k = EventListOf(op[u])
      BY DEF BlockedIsWaiting
    <3>2. u \notin Ready => EventListOf(op[u])' = EventListOf(op[u])
      BY DEF EventListOf, Sends
    <3> QED BY <3>1, <3>2, <1>2, <1>3
  <2>2. \A u \in Task \ Ready' : op'[u] # "none"
    BY <1>2, <1>3 DEF BlockedIsWaiting
  <2> QED BY <2>1, <2>2, <1>2 DEF BlockedIsWaiting
<1>6. ASSUME NEW u \in RetryingReceivers
      PROVE  u \in RetryingReceivers'
  <2>1. op'[u] = op[u] /\ HasPlacedItself(u)' /\ u \in Task
    BY DEF RetryingReceivers, OnItsWay
  <2>2. EventListOf(op[u]) = Rx /\ EventListOf(op[u])' = Rx /\ Receives(op[u])'
    BY <2>1 DEF RetryingReceivers, Receives, EventListOf, Sends
  <2>3. u \notin OnList(Rx)'
    BY <2>2, <1>2, <1>4 DEF RetryingReceivers, OnItsWay
  <2> QED BY <2>1, <2>2, <2>3 DEF RetryingReceivers, OnItsWay
<1> QED BY <1>2, <1>3, <1>4, <1>5, <1>6

(* xAlreadyYielded is a Boolean.                                           *)
LEMMA AlreadyYieldedType ==
    ASSUME TypeOK, NEW X
    PROVE  AlreadyYielded(X) \in BOOLEAN
BY DEF AlreadyYielded, TypeOK, SchedTypeOK

(* The resume readies the pending tasks and those timed out.               *)
LEMMA ResumeAllKeepsCoreInv ==
    ASSUME NEW t \in Task, CoreInv, ResumeAll(t) PROVE CoreInv'
<1> USE DEF CoreInv
<1>a. PICK X \in SUBSET Armed :
          /\ xTaskResumeAll(X)
          /\ CASE after[t] = "yield" -> GoTo(t, IF AlreadyYielded(X) THEN "enter" ELSE "yield")
               [] after[t] = "retry" -> GoTo(t, "enter")
               [] after[t] = "fail" -> GoTo(t, IF Sends(op[t]) THEN "app" ELSE "retest")
  BY DEF ResumeAll
<1>b. /\ At(t, "resume")
      /\ after' = [after EXCEPT ![t] = "none"]
      /\ op' = [op EXCEPT ![t] = IF after[t] = "fail" /\ Sends(op[t]) THEN "none" ELSE op[t]]
      /\ UNCHANGED <<uxMessagesWaiting, cRxLock, cTxLock, xTicksToWait, pxCurrentTCB, uxPriority>>
  BY DEF ResumeAll
<1>c. uxSchedulerSuspended = 1 /\ after[t] \in {"yield", "retry", "fail"} /\ op[t] # "none"
  BY <1>b DEF LockHasOwner, HasScheduler, CallInv, TypeOK
<1>d. /\ uxSchedulerSuspended' = 0
      /\ xPendingReadyList' = {}
      /\ Expire(X, PendingMadeReady)
      /\ ticksPended' = FALSE
      /\ xYieldPending' = AlreadyYielded(X)
      /\ pendSV' = AlreadyYielded(X)
  BY <1>a, <1>c DEF xTaskResumeAll
<1>e. AlreadyYielded(X) \in BOOLEAN
  BY AlreadyYieldedType
<1>f. X \in SUBSET Task
  BY DEF Armed
(* What the task does next. *)
<1>g. PICK label \in {"enter", "yield", "retest", "app"} :
          /\ pc' = [pc EXCEPT ![t] = label]
          /\ after[t] = "yield" => label = IF AlreadyYielded(X) THEN "enter" ELSE "yield"
          /\ label = "app" <=> after[t] = "fail" /\ Sends(op[t])
  <2>1. CASE after[t] = "yield"
    BY <1>a, <2>1
  <2>2. CASE after[t] = "retry"
    BY <1>a, <2>2
  <2>3. CASE after[t] = "fail"
    BY <1>a, <2>3
  <2> QED BY <1>c, <2>1, <2>2, <2>3
<1>h. t \notin Ready => after[t] = "yield"
  BY <1>b DEF BlockedInv, HasPlacedItself
<1>i. /\ eventList' \in [EventLists -> Seq(Task)]
      /\ xStateListItem' \in [Task -> {"ready", "delayed", "suspended"}]
      /\ deadline' \in [Task -> {"none", "armed", "expired"}]
      /\ BlockedIsWaiting'
      /\ Ready \subseteq Ready'
      /\ eventList'[Rx] # <<>> => eventList[Rx] # <<>>
      /\ RetryingReceivers \subseteq RetryingReceivers'
  <2>1. \A u \in Task \ Ready : op'[u] = op[u]
    BY <1>b, <1>h DEF TypeOK
  <2>2. ASSUME NEW u \in RetryingReceivers
        PROVE  op'[u] = op[u] /\ (HasPlacedItself(u) => HasPlacedItself(u)')
    <3>1. CASE u = t
      <4>1. after[t] = "yield"
        BY <3>1, <1>b DEF RetryingReceivers, OnItsWay, HasPlacedItself
      <4> QED BY <3>1, <4>1, <1>b, <1>g DEF HasPlacedItself, TypeOK
    <3>2. CASE u # t
      BY <3>2, <1>b, <1>g DEF HasPlacedItself, TypeOK, RetryingReceivers
    <3> QED BY <3>1, <3>2
  <2> QED BY <2>1, <2>2, <1>d, <1>f, ExpireKeeps
<1>1. TypeOK'
  <2>1. SchedTypeOK'
    <3>1. uxSchedulerSuspended' \in 0..MaxNesting /\ xPendingReadyList' \in SUBSET Task
      BY <1>d, TaskAssumption
    <3>2. xYieldPending' \in BOOLEAN /\ pendSV' \in BOOLEAN /\ ticksPended' \in BOOLEAN
      BY <1>d, <1>e
    <3> QED BY <3>1, <3>2, <1>b, <1>i DEF TypeOK, SchedTypeOK
  <2>2. op' \in [Task -> (Operation \ {"reset"}) \cup {"none"}]
    BY <1>b DEF TypeOK
  <2>3. /\ pc' \in [Task -> {"app", "enter", "suspend", "lock", "check", "test", "place",
                             "unlockTx", "unlockRx", "resume", "yield", "retest"}]
        /\ after' \in [Task -> {"none", "yield", "retry", "fail"}]
    BY <1>b, <1>g DEF TypeOK
  <2> QED BY <2>1, <2>2, <2>3, <1>b DEF TypeOK
<1>2. LockHasOwner'
  BY <1>b, <1>g DEF TypeOK, SchedTypeOK, LockHasOwner, HasScheduler, HasTxLock, HasRxLock
<1>3. CallInv'
  BY <1>b, <1>c, <1>d, <1>g DEF TypeOK, SchedTypeOK, CallInv
<1>4. BlockedInv'
  <2>1. SUFFICES ASSUME NEW u \in Task \ Ready'
                 PROVE  /\ HasPlacedItself(u)'
                        /\ u = pxCurrentTCB' /\ pc'[u] = "enter"
                               => pendSV' /\ uxSchedulerSuspended' = 0
    BY DEF BlockedInv
  <2>2. u \in Task \ Ready
    BY <1>i
  <2>3. CASE u = t
    BY <2>2, <2>3, <1>b, <1>d, <1>g, <1>h DEF HasPlacedItself, TypeOK
  <2>4. CASE u # t
    BY <2>2, <2>4, <1>b, <1>g DEF BlockedInv, HasPlacedItself, TypeOK
  <2> QED BY <2>3, <2>4
<1>5. PlaceInv'
  BY <1>b, <1>g DEF TypeOK, SchedTypeOK, PlaceInv
<1>6. ReceiversNotStranded'
  <2>1. uxMessagesWaiting' <= uxMessagesWaiting /\ cTxLock' = cTxLock
    BY <1>b DEF TypeOK
  <2> QED BY <2>1, <1>1, <1>i, CoverageGrows DEF ReceiversNotStranded
<1> QED BY <1>1, <1>2, <1>3, <1>i, <1>4, <1>5, <1>6

(* As ResumeAll, or an inner resume that only counts down.                 *)
LEMMA AppResumeAllKeepsCoreInv ==
    ASSUME NEW t \in Task, CoreInv, AppResumeAll(t) PROVE CoreInv'
<1> USE DEF CoreInv
<1>a. PICK X \in SUBSET Armed : xTaskResumeAll(X)
  BY DEF AppResumeAll
<1>b. /\ At(t, "app")
      /\ uxSchedulerSuspended > 0
      /\ uxSchedulerSuspended' = uxSchedulerSuspended - 1
      /\ UNCHANGED <<queueVars, pxCurrentTCB, uxPriority>>
  BY <1>a DEF AppResumeAll, xTaskResumeAll
<1>c. X \in SUBSET Task
  BY DEF Armed
<1>d. uxSchedulerSuspended' \in 0..MaxNesting
  BY <1>b, TaskAssumption DEF TypeOK, SchedTypeOK
<1>2. LockHasOwner'
  BY <1>b
     DEF TypeOK, SchedTypeOK, LockHasOwner, HasScheduler, HasTxLock, HasRxLock, queueVars
<1>3. CallInv'
  BY <1>b DEF TypeOK, SchedTypeOK, CallInv, queueVars
<1>4. PlaceInv'
  BY <1>b DEF TypeOK, SchedTypeOK, PlaceInv, queueVars
<1>5. CASE uxSchedulerSuspended = 1
  <2>1. /\ xPendingReadyList' = {}
        /\ Expire(X, PendingMadeReady)
        /\ ticksPended' = FALSE
        /\ xYieldPending' = AlreadyYielded(X)
        /\ pendSV' = AlreadyYielded(X)
    BY <1>a, <1>5 DEF xTaskResumeAll
  <2>2. AlreadyYielded(X) \in BOOLEAN
    BY AlreadyYieldedType
  <2>3. /\ eventList' \in [EventLists -> Seq(Task)]
        /\ xStateListItem' \in [Task -> {"ready", "delayed", "suspended"}]
        /\ deadline' \in [Task -> {"none", "armed", "expired"}]
        /\ BlockedIsWaiting'
        /\ Ready \subseteq Ready'
        /\ eventList'[Rx] # <<>> => eventList[Rx] # <<>>
        /\ RetryingReceivers \subseteq RetryingReceivers'
    <3>1. /\ \A u \in Task \ Ready : op'[u] = op[u]
          /\ \A u \in RetryingReceivers :
                 op'[u] = op[u] /\ (HasPlacedItself(u) => HasPlacedItself(u)')
      BY <1>b DEF queueVars, HasPlacedItself
    <3> QED BY <2>1, <3>1, <1>c, ExpireKeeps
  <2>4. TypeOK'
    BY <2>1, <2>2, <2>3, <1>b, <1>d DEF TypeOK, SchedTypeOK, queueVars
  <2>5. BlockedInv'
    BY <2>3, <1>b DEF TypeOK, SchedTypeOK, BlockedInv, HasPlacedItself, queueVars
  <2>6. ReceiversNotStranded'
    <3>1. uxMessagesWaiting' <= uxMessagesWaiting /\ cTxLock' = cTxLock
      BY <1>b DEF TypeOK, queueVars
    <3> QED BY <3>1, <2>3, <2>4, CoverageGrows DEF ReceiversNotStranded
  <2> QED BY <1>2, <1>3, <1>4, <2>3, <2>4, <2>5, <2>6
<1>6. CASE uxSchedulerSuspended # 1
  <2>1. UNCHANGED <<xPendingReadyList, xStateListItem, deadline, eventList,
                    ticksPended, xYieldPending, pendSV>>
    BY <1>a, <1>6 DEF xTaskResumeAll
  <2>2. TypeOK'
    BY <2>1, <1>b, <1>d DEF TypeOK, SchedTypeOK, queueVars
  <2>3. BlockedIsWaiting'
    BY <2>1, <1>b, <1>6
       DEF BlockedIsWaiting, OnList, NoDuplicates, Ready, EventListOf, Sends,
                            TypeOK, SchedTypeOK, queueVars
  <2>4. BlockedInv'
    BY <2>1, <1>b DEF TypeOK, SchedTypeOK, BlockedInv, HasPlacedItself, Ready, queueVars
  <2>5. ReceiversNotStranded'
    BY <2>1, <1>b
       DEF ReceiversNotStranded, MessagesCovered, Covered, RetryingReceivers, OnItsWay,
                      HasPlacedItself, OnList, queueVars
  <2> QED BY <1>2, <1>3, <1>4, <2>2, <2>3, <2>4, <2>5
<1> QED BY <1>5, <1>6

(* A tick takes timed-out tasks from their event lists.                    *)
LEMMA SysTickKeepsCoreInv ==
    ASSUME CoreInv, SysTick PROVE CoreInv'
<1> USE DEF CoreInv
<1>a. PICK X \in SUBSET Armed : xTaskIncrementTick(X)
  BY DEF SysTick
<1>b. UNCHANGED <<queueVars, pxCurrentTCB, uxPriority, xPendingReadyList,
                  uxSchedulerSuspended, xYieldPending>>
  BY DEF SysTick
<1>c. X \in SUBSET Task
  BY DEF Armed
<1>2. LockHasOwner'
  BY <1>b DEF LockHasOwner, queueVars
<1>3. CallInv'
  BY <1>b DEF CallInv, queueVars
<1>5. CASE uxSchedulerSuspended = 0
  <2>1. /\ Expire(X, xStateListItem)
        /\ pendSV' = (pendSV \/ SwitchRequired(X, xStateListItem) \/ xYieldPending)
        /\ UNCHANGED ticksPended
    BY <1>a, <1>5 DEF xTaskIncrementTick
  <2>2. xPendingReadyList = {} /\ PendingMadeReady = xStateListItem
    BY <1>5 DEF BlockedIsWaiting, PendingMadeReady, TypeOK, SchedTypeOK
  <2>3. /\ eventList' \in [EventLists -> Seq(Task)]
        /\ xStateListItem' \in [Task -> {"ready", "delayed", "suspended"}]
        /\ deadline' \in [Task -> {"none", "armed", "expired"}]
        /\ BlockedIsWaiting'
        /\ Ready \subseteq Ready'
        /\ eventList'[Rx] # <<>> => eventList[Rx] # <<>>
        /\ RetryingReceivers \subseteq RetryingReceivers'
    <3>1. /\ \A u \in Task \ Ready : op'[u] = op[u]
          /\ \A u \in RetryingReceivers :
                 op'[u] = op[u] /\ (HasPlacedItself(u) => HasPlacedItself(u)')
      BY <1>b DEF queueVars, HasPlacedItself
    <3>2. Expire(X, PendingMadeReady) /\ xPendingReadyList' = {}
      BY <2>1, <2>2, <1>b
    <3> QED BY <3>1, <3>2, <1>c, ExpireKeeps
  <2>a. pendSV' \in BOOLEAN
    BY <2>1 DEF TypeOK, SchedTypeOK, SwitchRequired, Preempts
  <2>4. TypeOK'
    BY <2>1, <2>3, <2>a, <1>b DEF TypeOK, SchedTypeOK, queueVars
  <2>5. BlockedInv'
    BY <2>1, <2>3, <1>b DEF TypeOK, SchedTypeOK, BlockedInv, HasPlacedItself, queueVars
  <2>6. MessagesCovered => MessagesCovered'
    <3>1. uxMessagesWaiting' <= uxMessagesWaiting /\ cTxLock' = cTxLock
      BY <1>b DEF TypeOK, queueVars
    <3> QED BY <3>1, <2>3, <2>4, CoverageGrows
  <2>7. ReceiversNotStranded' /\ PlaceInv'
    BY <2>3, <2>6, <1>b DEF ReceiversNotStranded, PlaceInv, queueVars
  <2> QED BY <1>2, <1>3, <2>3, <2>4, <2>5, <2>7
<1>6. CASE uxSchedulerSuspended # 0
  <2>1. ticksPended' = TRUE /\ UNCHANGED <<deadline, xStateListItem, eventList, pendSV>>
    BY <1>a, <1>6 DEF xTaskIncrementTick
  <2>2. TypeOK'
    BY <2>1, <1>b DEF TypeOK, SchedTypeOK, queueVars
  <2>3. BlockedIsWaiting'
    BY <2>1, <1>b
       DEF BlockedIsWaiting, OnList, NoDuplicates, Ready, EventListOf, Sends, queueVars
  <2>4. BlockedInv'
    BY <2>1, <1>b DEF BlockedInv, HasPlacedItself, Ready, queueVars
  <2>5. ReceiversNotStranded' /\ PlaceInv'
    BY <2>1, <1>b
       DEF ReceiversNotStranded, PlaceInv, MessagesCovered, Covered, RetryingReceivers,
                      OnItsWay, HasPlacedItself, OnList, queueVars
  <2> QED BY <1>2, <1>3, <2>2, <2>3, <2>4, <2>5
<1> QED BY <1>5, <1>6

(* A posted message wakes a receiver or is counted in cTxLock.             *)
LEMMA SendFromISRKeepsCoreInv ==
    ASSUME NEW o \in IsrCalls \ {"receive"}, CoreInv, SendFromISR(o) PROVE CoreInv'
<1> USE DEF CoreInv
<1>a. /\ uxMessagesWaiting' = CountAfterSend(o)
      /\ UNCHANGED <<cRxLock, pc, op, xTicksToWait, after, pxCurrentTCB, uxPriority,
                     uxSchedulerSuspended, ticksPended, deadline>>
  BY DEF SendFromISR
<1>b. uxMessagesWaiting' \in 0..uxLength /\ uxMessagesWaiting' <= uxMessagesWaiting + 1
  BY QueueAssumption DEF SendFromISR, CountAfterSend, TypeOK
<1>c. Rx \in EventLists
  BY EventListAssumption
<1>1. CallInv'
  BY <1>a DEF CallInv
<1>2. CASE cTxLock = queueUNLOCKED
  <2> DEFINE n == AtMostOne(Rx)
  <2>1. n \in 0..Len(eventList[Rx]) /\ (n = 0 <=> eventList[Rx] = <<>>)
    BY <1>c, NumberWoken
  <2>2. xTaskRemoveFromEventList(Rx, n) /\ cTxLock' = cTxLock
    BY <1>2 DEF SendFromISR, WakeOne
  <2>3. pendSV' \in BOOLEAN /\ (pendSV => pendSV')
    BY <1>2 DEF SendFromISR, WokenPreempts, Preempts, TypeOK, SchedTypeOK
  <2> HIDE DEF n
  <2>4. TypeOK'
    BY <1>a, <1>b, <1>c, <2>1, <2>2, <2>3, WakeFacts DEF TypeOK, SchedTypeOK
  <2>5. LockHasOwner'
    BY <1>a, <2>2 DEF LockHasOwner
  <2>6. BlockedIsWaiting'
    BY <1>a, <1>c, <2>1, <2>2, WakeKeepsBlockedIsWaiting
  <2>7. BlockedInv'
    <3>1. Ready \subseteq Ready'
      BY <1>a, <1>c, <2>1, <2>2, WakeFacts
    <3> QED BY <3>1, <1>a, <2>3 DEF BlockedInv, HasPlacedItself
  <2>8. PlaceInv'
    BY <1>2, <1>a DEF PlaceInv, LockHasOwner, HasTxLock
  <2>9. ASSUME eventList'[Rx] # <<>>
        PROVE  MessagesCovered'
    <3>1. eventList[Rx] # <<>> /\ n = 1
      <4>1. eventList[Rx] # <<>>
        BY <1>a, <1>c, <2>1, <2>2, <2>9, WakeFacts
      <4> QED BY <4>1, <2>1 DEF n, AtMostOne
    <3>2. \A u \in Task : u \in RetryingReceivers \/ u \in FirstOf(Rx, n)
                            => op'[u] = op[u] /\ (HasPlacedItself(u) => HasPlacedItself(u)')
      BY <1>a DEF HasPlacedItself
    <3>3. Cardinality(RetryingReceivers') >= Cardinality(RetryingReceivers) + 1
      BY <1>a, <2>1, <2>2, <3>1, <3>2, WokenReceiversRetry
    <3> QED BY <1>b, <2>2, <2>4, <3>1, <3>3, CoverageKept, 1 \in Int DEF ReceiversNotStranded
  <2> QED BY <1>1, <2>4, <2>5, <2>6, <2>7, <2>8, <2>9 DEF ReceiversNotStranded
<1>3. CASE cTxLock # queueUNLOCKED
  <2>1. /\ cTxLock' = Counted(cTxLock)
        /\ UNCHANGED <<eventList, xStateListItem, xPendingReadyList, xYieldPending, pendSV>>
    BY <1>3 DEF SendFromISR
  <2>2. cTxLock \in 0..NumberOfTasks /\ cTxLock' \in 0..NumberOfTasks
        /\ (cTxLock' = cTxLock + 1 \/ cTxLock' = NumberOfTasks)
    BY <1>3, <2>1, NumberOfTasksType DEF Counted, TypeOK, queueUNLOCKED
  <2>3. TypeOK'
    BY <1>a, <1>b, <2>1, <2>2, NumberOfTasksType DEF TypeOK, SchedTypeOK, queueUNLOCKED
  <2>4. LockHasOwner'
    BY <1>3, <1>a, <2>2 DEF LockHasOwner, queueUNLOCKED
  <2>5. BlockedIsWaiting'
    BY <1>a, <2>1 DEF BlockedIsWaiting, OnList, NoDuplicates, Ready, EventListOf, Sends
  <2>6. BlockedInv'
    BY <1>a, <2>1 DEF BlockedInv, HasPlacedItself, Ready
  <2>7. RetryingReceivers' = RetryingReceivers
    BY <1>a, <2>1 DEF RetryingReceivers, OnItsWay, HasPlacedItself, OnList
  <2>8. MessagesCovered => MessagesCovered'
    <3>1. NumberOfTasks' = NumberOfTasks
      BY DEF NumberOfTasks
    <3> QED BY <3>1, <1>b, <2>2, <2>7, RetryingIsFinite, NumberOfTasksType
            DEF MessagesCovered, Covered, TypeOK, queueUNLOCKED
  <2>9. PlaceInv' /\ ReceiversNotStranded'
    BY <1>a, <2>1, <2>8 DEF PlaceInv, ReceiversNotStranded
  <2> QED BY <1>1, <2>3, <2>4, <2>5, <2>6, <2>9
<1> QED BY <1>2, <1>3

(* A message taken by a handler leaves the others covered.                 *)
LEMMA ReceiveFromISRKeepsCoreInv ==
    ASSUME CoreInv, ReceiveFromISR PROVE CoreInv'
<1> USE DEF CoreInv
<1>a. /\ uxMessagesWaiting' = uxMessagesWaiting - 1
      /\ UNCHANGED <<cTxLock, pc, op, xTicksToWait, after, pxCurrentTCB, uxPriority,
                     uxSchedulerSuspended, ticksPended, deadline>>
  BY DEF ReceiveFromISR
<1>b. uxMessagesWaiting' \in 0..uxLength /\ uxMessagesWaiting' <= uxMessagesWaiting
  BY QueueAssumption DEF ReceiveFromISR, TypeOK
<1>c. Tx \in EventLists
  BY EventListAssumption
<1>1. CallInv'
  BY <1>a DEF CallInv
<1>2. CASE cRxLock = queueUNLOCKED
  <2> DEFINE n == AtMostOne(Tx)
  <2>1. n \in 0..Len(eventList[Tx])
    BY <1>c, NumberWoken
  <2>2. xTaskRemoveFromEventList(Tx, n) /\ cRxLock' = cRxLock
    BY <1>2 DEF ReceiveFromISR, WakeOne
  <2>3. pendSV' \in BOOLEAN /\ (pendSV => pendSV')
    BY <1>2 DEF ReceiveFromISR, WokenPreempts, Preempts, TypeOK, SchedTypeOK
  <2> HIDE DEF n
  <2>4. TypeOK'
    BY <1>a, <1>b, <1>c, <2>1, <2>2, <2>3, WakeFacts DEF TypeOK, SchedTypeOK
  <2>5. LockHasOwner'
    BY <1>a, <2>2 DEF LockHasOwner
  <2>6. BlockedIsWaiting'
    BY <1>a, <1>c, <2>1, <2>2, WakeKeepsBlockedIsWaiting
  <2>7. BlockedInv'
    <3>1. Ready \subseteq Ready'
      BY <1>a, <1>c, <2>1, <2>2, WakeFacts
    <3> QED BY <3>1, <1>a, <2>3 DEF BlockedInv, HasPlacedItself
  <2>8. eventList'[Rx] = eventList[Rx] /\ RetryingReceivers \subseteq RetryingReceivers'
    <3>1. \A u \in RetryingReceivers : op'[u] = op[u] /\ (HasPlacedItself(u) => HasPlacedItself(u)')
      BY <1>a DEF HasPlacedItself
    <3> QED BY <3>1, <1>a, <2>1, <2>2, WokenSendersOnly
  <2>9. MessagesCovered => MessagesCovered'
    BY <1>a, <1>b, <2>4, <2>8, CoverageGrows
  <2>10. PlaceInv' /\ ReceiversNotStranded'
    BY <1>a, <2>8, <2>9 DEF PlaceInv, ReceiversNotStranded
  <2> QED BY <1>1, <2>4, <2>5, <2>6, <2>7, <2>10
<1>3. CASE cRxLock # queueUNLOCKED
  <2>1. /\ cRxLock' = Counted(cRxLock)
        /\ UNCHANGED <<eventList, xStateListItem, xPendingReadyList, xYieldPending, pendSV>>
    BY <1>3 DEF ReceiveFromISR
  <2>2. cRxLock' \in 0..NumberOfTasks
    BY <1>3, <2>1, NumberOfTasksType DEF Counted, TypeOK, queueUNLOCKED
  <2>3. TypeOK'
    BY <1>a, <1>b, <2>1, <2>2, NumberOfTasksType DEF TypeOK, SchedTypeOK, queueUNLOCKED
  <2>4. LockHasOwner'
    BY <1>3, <1>a, <2>2 DEF LockHasOwner, queueUNLOCKED
  <2>5. BlockedIsWaiting'
    BY <1>a, <2>1 DEF BlockedIsWaiting, OnList, NoDuplicates, Ready, EventListOf, Sends
  <2>6. BlockedInv'
    BY <1>a, <2>1 DEF BlockedInv, HasPlacedItself, Ready
  <2>7. RetryingReceivers \subseteq RetryingReceivers'
    BY <1>a, <2>1 DEF RetryingReceivers, OnItsWay, HasPlacedItself, OnList
  <2>8. MessagesCovered => MessagesCovered'
    BY <1>a, <1>b, <2>3, <2>7, CoverageGrows
  <2>9. PlaceInv' /\ ReceiversNotStranded'
    BY <1>a, <2>1, <2>8 DEF PlaceInv, ReceiversNotStranded
  <2> QED BY <1>1, <2>3, <2>4, <2>5, <2>6, <2>9
<1> QED BY <1>2, <1>3

(* The scheduler starts with CoreInv.                                         *)
LEMMA InitCoreInv == Init => CoreInv
<1> SUFFICES ASSUME Init PROVE CoreInv
  OBVIOUS
<1> USE DEF Init, SchedInit
<1>1. TypeOK
  <2>1. /\ uxMessagesWaiting \in 0..uxLength
        /\ cRxLock \in queueUNLOCKED..NumberOfTasks
        /\ cTxLock \in queueUNLOCKED..NumberOfTasks
    BY QueueAssumption, NumberOfTasksType DEF queueUNLOCKED
  <2> QED BY <2>1, SchedInitFacts DEF TypeOK
<1>2. Ready = Task /\ \A l \in EventLists : OnList(l) = {} /\ NoDuplicates(eventList[l])
  BY SchedInitFacts
<1>3. LockHasOwner
  BY DEF LockHasOwner, HasScheduler, HasTxLock, HasRxLock
<1>4. CallInv
  BY DEF CallInv
<1>5. BlockedIsWaiting
  BY <1>2 DEF BlockedIsWaiting
<1>6. BlockedInv
  BY <1>2 DEF BlockedInv
<1>7. PlaceInv
  BY DEF PlaceInv
<1>8. ReceiversNotStranded
  BY EventListAssumption DEF ReceiversNotStranded
<1> QED BY <1>1, <1>3, <1>4, <1>5, <1>6, <1>7, <1>8 DEF CoreInv

(* Every step keeps CoreInv.                                                  *)
LEMMA NextKeepsCoreInv == CoreInv /\ [Next]_vars => CoreInv'
<1> SUFFICES ASSUME CoreInv, [Next]_vars PROVE CoreInv'
  OBVIOUS
<1>1. ASSUME NEW t \in Task, App(t) PROVE CoreInv'
  BY <1>1, CallKeepsCoreInv, AppSuspendAllKeepsCoreInv, AppResumeAllKeepsCoreInv,
     AppPrioritySetKeepsCoreInv, xQueueGenericResetKeepsCoreInv DEF App
<1>2. ASSUME NEW t \in Task, CallStep(t) PROVE CoreInv'
  BY <1>2, SendItemKeepsCoreInv, ReceiveItemKeepsCoreInv, PeekItemKeepsCoreInv, GiveUpKeepsCoreInv,
     StartWaitingKeepsCoreInv, SuspendAllKeepsCoreInv, prvLockQueueKeepsCoreInv,
     xTaskCheckForTimeOutKeepsCoreInv, TestAgainKeepsCoreInv, PlaceOnEventListKeepsCoreInv,
     UnlockTxKeepsCoreInv, UnlockRxKeepsCoreInv, ResumeAllKeepsCoreInv, YieldWithinApiKeepsCoreInv,
     RetestKeepsCoreInv DEF CallStep
<1>3. CASE Interrupt
  BY <1>3, SendFromISRKeepsCoreInv, ReceiveFromISRKeepsCoreInv DEF Interrupt
<1>4. CASE SysTick
  BY <1>4, SysTickKeepsCoreInv
<1>5. CASE PendSV
  BY <1>5, PendSVKeepsCoreInv
<1>6. CASE UNCHANGED vars
  <2>1. TypeOK'
    BY <1>6 DEF CoreInv, TypeOK, SchedTypeOK, vars, schedVars, queueVars
  <2> QED BY <2>1, <1>6 DEF CoreInv, vars, schedVars, queueVars, LockHasOwner, CallInv,
        BlockedIsWaiting, BlockedInv, PlaceInv, ReceiversNotStranded, MessagesCovered, Covered,
        RetryingReceivers, OnItsWay, HasPlacedItself, OnList, NoDuplicates, Ready, EventListOf,
        Sends
<1> QED BY <1>1, <1>2, <1>3, <1>4, <1>5, <1>6 DEF Next

-----------------------------------------------------------------------------
(* SchedulingInv.                                                          *)

(* A step that leaves the scheduler's variables alone, or pends a switch.  *)
LEMMA SchedulingUntouched ==
    ASSUME SchedulingInv,
           UNCHANGED <<pxCurrentTCB, uxPriority, xStateListItem, eventList, xYieldPending>>,
           pendSV => pendSV'
    PROVE  SchedulingInv'
BY DEF SchedulingInv, SwitchIsComing, Preempts, Ready, ListsInOrder, InPriorityOrder

(* The critical sections that wake tasks of one event list.                *)
LEMMA WakingKeepsSchedulingInv ==
    ASSUME CoreInv, SchedulingInv, NEW l \in EventLists, NEW n \in 0..Len(eventList[l]),
           xTaskRemoveFromEventList(l, n), UNCHANGED <<pxCurrentTCB, uxPriority>>,
           pendSV => pendSV'
    PROVE  SchedulingInv'
<1>1. SchedTypeOK /\ n \in Nat
  BY DEF CoreInv, TypeOK
<1>2. SwitchIsComing'
  BY <1>1, WakingOwesSwitch DEF SchedulingInv
<1>3. Priorities = {} => ListsInOrder'
  BY <1>1, WakingKeepsListsInOrder DEF SchedulingInv
<1> QED BY <1>2, <1>3 DEF SchedulingInv

(* The end of the scheduler lock.                                          *)
LEMMA ResumingKeepsSchedulingInv ==
    ASSUME CoreInv, SchedulingInv, ~pendSV, NEW X, xTaskResumeAll(X),
           UNCHANGED <<pxCurrentTCB, uxPriority>>
    PROVE  SchedulingInv'
<1>1. SchedTypeOK
  BY DEF CoreInv, TypeOK
<1>2. SwitchIsComing'
  BY <1>1, ResumingOwesSwitch DEF SchedulingInv
<1>3. ASSUME Priorities = {}
      PROVE  ListsInOrder'
  <2>1. ListsInOrder
    BY <1>3 DEF SchedulingInv
  <2>2. CASE uxSchedulerSuspended = 1
    BY <1>1, <2>1, <2>2, ExpiringKeepsListsInOrder DEF xTaskResumeAll
  <2>3. CASE uxSchedulerSuspended # 1
    BY <2>1, <2>3 DEF xTaskResumeAll, ListsInOrder, InPriorityOrder
  <2> QED BY <2>2, <2>3
<1> QED BY <1>2, <1>3 DEF SchedulingInv

(* Every step keeps what the scheduler owes.                               *)
LEMMA NextKeepsSchedulingInv ==
    ASSUME CoreInv, SchedulingInv, [Next]_vars
    PROVE  SchedulingInv'
<1>a. Rx \in EventLists /\ Tx \in EventLists
  BY EventListAssumption
<1>b. SchedTypeOK /\ TypeOK
  BY DEF CoreInv, TypeOK
<1>c. \A l \in EventLists : AtMostOne(l) \in 0..Len(eventList[l])
  BY <1>b, NumberWoken
<1>1. ASSUME NEW t \in Task, App(t)
      PROVE  SchedulingInv'
  <2>1. CASE Call(t)
    BY <2>1, SchedulingUntouched DEF Call, schedVars
  <2>2. CASE AppSuspendAll(t)
    BY <2>2, SchedulingUntouched DEF AppSuspendAll
  <2>3. CASE AppResumeAll(t)
    BY <2>3, ResumingKeepsSchedulingInv DEF AppResumeAll
  <2>4. CASE AppPrioritySet(t)
    <3>1. PICK u \in Task, p \in Priorities : vTaskPrioritySet(u, p)
      BY <2>4 DEF AppPrioritySet
    <3>2. p \in 0..MaxPriorities - 1 /\ Priorities # {}
      BY QueueAssumption
    <3>3. SwitchIsComing'
      BY <1>b, <2>4, <3>1, <3>2, PrioritySetOwesSwitch DEF AppPrioritySet, SchedulingInv
    <3> QED BY <3>2, <3>3 DEF SchedulingInv
  <2>5. CASE xQueueGenericReset(t)
    BY <1>a, <1>c, <2>5, WakingKeepsSchedulingInv DEF xQueueGenericReset, WakeOne
  <2> QED BY <1>1, <2>1, <2>2, <2>3, <2>4, <2>5 DEF App
<1>2. ASSUME NEW t \in Task, CallStep(t)
      PROVE  SchedulingInv'
  <2>1. CASE SendItem(t) \/ ReceiveItem(t) \/ PeekItem(t)
    <3>1. PICK l \in EventLists : WakeOne(l)
      BY <1>a, <2>1 DEF SendItem, ReceiveItem, PeekItem, Proceed
    <3>2. ~pendSV /\ UNCHANGED <<pxCurrentTCB, uxPriority>>
      BY <2>1 DEF SendItem, ReceiveItem, PeekItem, Proceed
    <3> QED BY <1>c, <3>1, <3>2, WakingKeepsSchedulingInv DEF WakeOne
  <2>2. CASE GiveUp(t) \/ StartWaiting(t) \/ xTaskCheckForTimeOut(t)
    BY <2>2, SchedulingUntouched DEF GiveUp, StartWaiting, xTaskCheckForTimeOut
  <2>3. CASE SuspendAll(t) \/ prvLockQueue(t) \/ TestAgain(t)
    BY <2>3, SchedulingUntouched DEF SuspendAll, prvLockQueue, TestAgain, schedVars
  <2>4. CASE YieldWithinApi(t) \/ Retest(t)
    BY <2>4, SchedulingUntouched DEF YieldWithinApi, Retest
  <2>5. CASE PlaceOnEventList(t)
    <3> DEFINE l == EventListOf(op[t])
    <3>1. l \in EventLists
      BY <1>a DEF EventListOf
    <3>2. /\ vTaskPlaceOnEventList(l, xTicksToWait[t] = "max")
          /\ UNCHANGED <<pxCurrentTCB, uxPriority, xYieldPending, pendSV>>
      BY <2>5 DEF PlaceOnEventList
    <3> HIDE DEF l
    <3>3. ListsInOrder => ListsInOrder'
      BY <1>b, <3>1, <3>2, PlacingKeepsListsInOrder
    <3>4. Ready' \subseteq Ready
      BY <1>b, <3>2 DEF vTaskPlaceOnEventList, Ready, SchedTypeOK
    <3>5. SwitchIsComing'
      BY <3>2, <3>4 DEF SchedulingInv, SwitchIsComing, Preempts
    <3> QED BY <3>3, <3>5 DEF SchedulingInv
  <2>6. CASE UnlockTx(t)
    BY <1>a, <1>b, <2>6, NumberWoken, WakingKeepsSchedulingInv DEF UnlockTx, TypeOK
  <2>7. CASE UnlockRx(t)
    BY <1>a, <1>b, <2>7, NumberWoken, WakingKeepsSchedulingInv DEF UnlockRx, TypeOK
  <2>8. CASE ResumeAll(t)
    BY <2>8, ResumingKeepsSchedulingInv DEF ResumeAll
  <2> QED BY <1>2, <2>1, <2>2, <2>3, <2>4, <2>5, <2>6, <2>7, <2>8 DEF CallStep
<1>3. ASSUME NEW o, SendFromISR(o)
      PROVE  SchedulingInv'
  <2>1. CASE cTxLock = queueUNLOCKED
    <3>1. WakeOne(Rx) /\ (pendSV => pendSV') /\ UNCHANGED <<pxCurrentTCB, uxPriority>>
      BY <1>3, <2>1 DEF SendFromISR
    <3> QED BY <1>a, <1>c, <3>1, WakingKeepsSchedulingInv DEF WakeOne
  <2>2. CASE cTxLock # queueUNLOCKED
    BY <1>3, <2>2, SchedulingUntouched DEF SendFromISR
  <2> QED BY <2>1, <2>2
<1>4. ASSUME ReceiveFromISR
      PROVE  SchedulingInv'
  <2>1. CASE cRxLock = queueUNLOCKED
    <3>1. WakeOne(Tx) /\ (pendSV => pendSV') /\ UNCHANGED <<pxCurrentTCB, uxPriority>>
      BY <1>4, <2>1 DEF ReceiveFromISR
    <3> QED BY <1>a, <1>c, <3>1, WakingKeepsSchedulingInv DEF WakeOne
  <2>2. CASE cRxLock # queueUNLOCKED
    BY <1>4, <2>2, SchedulingUntouched DEF ReceiveFromISR
  <2> QED BY <2>1, <2>2
<1>5. ASSUME SysTick
      PROVE  SchedulingInv'
  <2>1. PICK X : xTaskIncrementTick(X)
    BY <1>5 DEF SysTick
  <2>2. SwitchIsComing'
    BY <1>5, <2>1, TickOwesSwitch DEF SysTick, SchedulingInv
  <2>3. ListsInOrder => ListsInOrder'
    <3>1. CASE uxSchedulerSuspended = 0
      BY <1>b, <1>5, <2>1, <3>1, ExpiringKeepsListsInOrder DEF SysTick, xTaskIncrementTick
    <3>2. CASE uxSchedulerSuspended # 0
      BY <1>5, <2>1, <3>2 DEF SysTick, xTaskIncrementTick, ListsInOrder, InPriorityOrder
    <3> QED BY <3>1, <3>2
  <2> QED BY <2>2, <2>3 DEF SchedulingInv
<1>6. ASSUME PendSV
      PROVE  SchedulingInv'
  <2>1. SwitchIsComing'
    BY <1>b, <1>6, SwitchPaid DEF PendSV
  <2>2. ListsInOrder => ListsInOrder'
    BY <1>6 DEF PendSV, ListsInOrder, InPriorityOrder
  <2> QED BY <2>1, <2>2 DEF SchedulingInv
<1>7. CASE UNCHANGED vars
  BY <1>7, SchedulingUntouched DEF vars, schedVars
<1> QED BY <1>1, <1>2, <1>3, <1>4, <1>5, <1>6, <1>7 DEF Next, Interrupt

(* The scheduler starts with every list empty.                             *)
LEMMA InitSchedulingInv == Init => SchedulingInv
<1> SUFFICES ASSUME Init PROVE SchedulingInv
  OBVIOUS
<1>1. SwitchIsComing
  BY NoSwitchOwedAtStart DEF Init
<1>2. \A l \in EventLists : eventList[l] = <<>>
  BY DEF Init, SchedInit
<1>3. InPriorityOrder(<<>>)
  BY DEF InPriorityOrder
<1> QED BY <1>1, <1>2, <1>3 DEF SchedulingInv, ListsInOrder

(* What HighestPriorityRuns needs beside SwitchIsComing is that the        *)
(* running task is ready, which BlockedInv says outside the scheduler lock.*)
LEMMA NoSwitchIsOwed == CoreInv /\ SchedulingInv => HighestPriorityRuns
<1> SUFFICES ASSUME CoreInv, SchedulingInv, uxSchedulerSuspended = 0, ~pendSV, ~xYieldPending,
                    pc[pxCurrentTCB] # "yield"
             PROVE  pxCurrentTCB \in HighestReady
  BY DEF HighestPriorityRuns
<1>1. /\ pxCurrentTCB \in Task
      /\ \A t \in Task : uxPriority[t] \in Int
  BY TaskAssumption DEF CoreInv, TypeOK, SchedTypeOK
<1>2. pxCurrentTCB \in Ready
  BY <1>1 DEF CoreInv, BlockedInv, HasPlacedItself, LockHasOwner, HasScheduler
<1>3. \A t \in Ready : ~(uxPriority[t] > uxPriority[pxCurrentTCB])
  BY DEF SchedulingInv, SwitchIsComing, Preempts
<1> QED BY <1>1, <1>2, <1>3 DEF HighestReady, Ready

(* The head of a list in order is its highest.                             *)
LEMMA OrderedHeadIsHighest == CoreInv /\ ListsInOrder => HeadIsHighest
<1> SUFFICES ASSUME CoreInv, ListsInOrder, NEW l \in EventLists, NEW i \in DOMAIN eventList[l]
             PROVE  uxPriority[eventList[l][i]] <= uxPriority[eventList[l][1]]
  BY DEF HeadIsHighest
<1>1. /\ eventList[l] \in Seq(Task)
      /\ \A t \in Task : uxPriority[t] \in Int
  BY TaskAssumption DEF CoreInv, TypeOK, SchedTypeOK
<1>2. /\ DOMAIN eventList[l] = 1..Len(eventList[l])
      /\ Len(eventList[l]) \in Nat
  BY <1>1, LenProperties
<1>3. \A j \in DOMAIN eventList[l] : uxPriority[eventList[l][j]] \in Int
  BY <1>1, ElementOfSeq, <1>2
<1>4. 1 \in DOMAIN eventList[l]
  BY <1>2
<1>5. CASE i = 1
  BY <1>3, <1>4, <1>5
<1>6. CASE i # 1
  <2>1. 1 < i
    BY <1>2, <1>6
  <2>2. uxPriority[eventList[l][1]] >= uxPriority[eventList[l][i]]
    BY <1>4, <2>1 DEF ListsInOrder, InPriorityOrder
  <2> QED BY <1>3, <1>4, <2>2
<1> QED BY <1>5, <1>6

-----------------------------------------------------------------------------
(* SenderInv: the free places and the senders, as the messages and the     *)
(* receivers above.                                                        *)

(* The retrying senders can be counted.                                    *)
LEMMA SendersAreFinite ==
    /\ IsFiniteSet(RetryingSenders)
    /\ IsFiniteSet(RetryingSenders')
    /\ Cardinality(RetryingSenders) \in Nat
    /\ Cardinality(RetryingSenders') \in Nat
<1>1. RetryingSenders \in SUBSET Task /\ RetryingSenders' \in SUBSET Task
  BY DEF RetryingSenders
<1> QED BY <1>1, FS_Subset, FS_CardinalityType, TaskAssumption

(* A task that ends its call takes at most one from the count.             *)
LEMMA SendersWithoutOne ==
    ASSUME NEW t
    PROVE  /\ IsFiniteSet(RetryingSenders \ {t})
           /\ Cardinality(RetryingSenders \ {t}) \in Nat
           /\ Cardinality(RetryingSenders \ {t}) >= Cardinality(RetryingSenders) - 1
<1>1. IsFiniteSet(RetryingSenders \ {t}) /\ Cardinality(RetryingSenders \ {t}) \in Nat
  BY SendersAreFinite, FS_Subset, FS_CardinalityType
<1>2. CASE t \in RetryingSenders
  BY <1>1, <1>2, SendersAreFinite, FS_RemoveElement
<1>3. CASE t \notin RetryingSenders
  <2>1. RetryingSenders \ {t} = RetryingSenders
    BY <1>3
  <2>2. Cardinality(RetryingSenders \ {t}) = Cardinality(RetryingSenders)
    BY <2>1, Zenon
  <2> QED BY <1>1, <2>2, SendersAreFinite
<1> QED BY <1>2, <1>3

(* No more places are freed than senders begin a retry.                    *)
LEMMA SpacesKept ==
    ASSUME TypeOK, TypeOK', NEW d \in Int,
           Cardinality(RetryingSenders') >= Cardinality(RetryingSenders) + d,
           uxMessagesWaiting <= uxMessagesWaiting' + d,
           cRxLock' = cRxLock
    PROVE  SpacesCovered => SpacesCovered'
<1>1. uxLength \in Nat /\ NumberOfTasks \in Nat
  BY QueueAssumption, NumberOfTasksType
<1>2. /\ uxMessagesWaiting \in Int /\ uxMessagesWaiting' \in Int /\ cRxLock \in Int
      /\ NumberOfTasks' = NumberOfTasks
  BY <1>1 DEF TypeOK, queueUNLOCKED, NumberOfTasks
<1> DEFINE lock == IF cRxLock = queueUNLOCKED THEN 0 ELSE cRxLock
<1>3. lock \in Int
  BY <1>2
<1>4. /\ SpacesCovered <=> \/ uxLength - uxMessagesWaiting <= Cardinality(RetryingSenders) + lock
                         \/ cRxLock = NumberOfTasks
      /\ SpacesCovered' <=> \/ uxLength - uxMessagesWaiting' <= Cardinality(RetryingSenders') + lock
                          \/ cRxLock = NumberOfTasks
  BY <1>2 DEF SpacesCovered, Covered
<1> HIDE DEF lock
<1>5. ASSUME uxLength - uxMessagesWaiting <= Cardinality(RetryingSenders) + lock
      PROVE  uxLength - uxMessagesWaiting' <= Cardinality(RetryingSenders') + lock
  <2>1. \A l, m, n, c, e, k \in Int :
            l - m <= c + k /\ e >= c + d /\ m <= n + d => l - n <= e + k
    OBVIOUS
  <2>2. Cardinality(RetryingSenders) \in Int /\ Cardinality(RetryingSenders') \in Int
    BY SendersAreFinite
  <2>3. uxLength \in Int
    BY <1>1
  <2> QED BY <1>2, <1>3, <1>5, <2>1, <2>2, <2>3
<1> QED BY <1>4, <1>5

(* A full queue has no place to cover.                                     *)
LEMMA FullIsCovered ==
    ASSUME TypeOK, uxMessagesWaiting = uxLength
    PROVE  SpacesCovered
BY QueueAssumption, SendersAreFinite DEF SpacesCovered, Covered, TypeOK, queueUNLOCKED

(* A retrying sender that stays in its call retries as long as it is not   *)
(* put on the list.                                                        *)
LEMMA SendersStay ==
    ASSUME NEW stay \in SUBSET RetryingSenders,
           \A u \in stay : op'[u] = op[u] /\ (HasPlacedItself(u) => HasPlacedItself(u)'),
           OnList(Tx)' \cap stay \subseteq OnList(Tx)
    PROVE  stay \subseteq RetryingSenders'
<1> SUFFICES ASSUME NEW u \in stay PROVE u \in RetryingSenders'
  OBVIOUS
<1>1. u \in Task /\ op'[u] = op[u] /\ HasPlacedItself(u)' /\ Sends(op[u]) /\ u \notin OnList(Tx)
  BY DEF RetryingSenders, OnItsWay, EventListOf
<1>2. EventListOf(op[u])' = Tx /\ Sends(op[u])'
  BY <1>1 DEF EventListOf, Sends
<1> QED BY <1>1, <1>2 DEF RetryingSenders, OnItsWay

(* A list that only loses members was not empty before.                    *)
LEMMA ListOnlyShrinks ==
    ASSUME TypeOK, TypeOK', OnList(Tx)' \subseteq OnList(Tx)
    PROVE  eventList'[Tx] # <<>> => eventList[Tx] # <<>>
<1>1. Tx \in EventLists
  BY EventListAssumption
<1>2. eventList[Tx] \in Seq(Task) /\ eventList'[Tx] \in Seq(Task)
  BY <1>1 DEF TypeOK, SchedTypeOK
<1> SUFFICES ASSUME eventList'[Tx] # <<>> PROVE eventList[Tx] # <<>>
  OBVIOUS
<1>3. 1 \in DOMAIN eventList'[Tx]
  BY <1>2, NonEmptyList
<1>4. eventList'[Tx][1] \in OnList(Tx)
  BY <1>3 DEF OnList, ToSet
<1> QED BY <1>4 DEF OnList, ToSet

(* A step that frees no place, takes no sender from its way and puts none  *)
(* on the list.                                                            *)
LEMMA SendersUndisturbed ==
    ASSUME CoreInv, CoreInv', PlaceInvTx, SendersNotStranded,
           \A u \in RetryingSenders :
               op'[u] = op[u] /\ (HasPlacedItself(u) => HasPlacedItself(u)'),
           OnList(Tx)' \subseteq OnList(Tx),
           uxMessagesWaiting <= uxMessagesWaiting', cRxLock' = cRxLock,
           pc'[pxCurrentTCB'] = "place" =>
               pc[pxCurrentTCB] = "place" /\ op'[pxCurrentTCB'] = op[pxCurrentTCB]
    PROVE  PlaceInvTx' /\ SendersNotStranded'
<1>1. TypeOK /\ TypeOK'
  BY DEF CoreInv
<1>2. RetryingSenders \subseteq RetryingSenders'
  BY SendersStay
<1>3. Cardinality(RetryingSenders') >= Cardinality(RetryingSenders) + 0
  <2>1. Cardinality(RetryingSenders) <= Cardinality(RetryingSenders')
    BY <1>2, SendersAreFinite, FS_Subset
  <2> QED BY <2>1, SendersAreFinite
<1>4. SpacesCovered => SpacesCovered'
  <2>a. uxMessagesWaiting \in Int /\ uxMessagesWaiting' \in Int
    BY <1>1 DEF TypeOK
  <2>b. \A m, n \in Int : m <= n => m <= n + 0
    OBVIOUS
  <2>1. uxMessagesWaiting <= uxMessagesWaiting' + 0
    BY <2>a, <2>b
  <2> QED BY <1>1, <1>3, <2>1, SpacesKept, 0 \in Int
<1>5. PlaceInvTx'
  BY <1>4 DEF PlaceInvTx, Sends
<1>6. SendersNotStranded'
  BY <1>1, <1>4, ListOnlyShrinks DEF SendersNotStranded
<1> QED BY <1>5, <1>6

(* The tasks woken from xTasksWaitingToSend retry, and so do those         *)
(* retrying already that stay in their call.                               *)
LEMMA WokenSendersRetry ==
    ASSUME CoreInv, NEW n \in 0..Len(eventList[Tx]), xTaskRemoveFromEventList(Tx, n),
           uxSchedulerSuspended' = uxSchedulerSuspended,
           NEW stay \in SUBSET RetryingSenders, IsFiniteSet(stay),
           \A u \in Task : u \in stay \/ u \in FirstOf(Tx, n)
                => op'[u] = op[u] /\ (HasPlacedItself(u) => HasPlacedItself(u)')
    PROVE  Cardinality(RetryingSenders') >= Cardinality(stay) + n
<1> USE DEF CoreInv
<1>1. Tx \in EventLists
  BY EventListAssumption
<1>2. /\ OnList(Tx)' = OnList(Tx) \ FirstOf(Tx, n)
      /\ FirstOf(Tx, n) \subseteq OnList(Tx)
      /\ IsFiniteSet(FirstOf(Tx, n)) /\ Cardinality(FirstOf(Tx, n)) = n
  BY <1>1, WakeFacts
<1>3. OnList(Tx) \subseteq Task
  BY <1>1 DEF OnList, ToSet, TypeOK, SchedTypeOK
<1>4. ASSUME NEW t \in FirstOf(Tx, n)
      PROVE  t \in Task /\ Sends(op[t]) /\ HasPlacedItself(t) /\ t \notin RetryingSenders
  <2>1. t \in Task /\ t \in OnList(Tx)
    BY <1>2, <1>3
  <2>2. t \notin Ready /\ EventListOf(op[t]) = Tx
    BY <1>1, <2>1 DEF BlockedIsWaiting
  <2>3. Sends(op[t])
    BY <2>2 DEF EventListOf, Rx, Tx
  <2> QED BY <2>1, <2>2, <2>3 DEF BlockedInv, RetryingSenders, OnItsWay
<1>5. ASSUME NEW t \in FirstOf(Tx, n)
      PROVE  t \in RetryingSenders'
  <2>1. op'[t] = op[t] /\ HasPlacedItself(t)' /\ Sends(op[t]) /\ t \in Task
    BY <1>4
  <2>2. EventListOf(op[t])' = Tx /\ Sends(op[t])'
    BY <2>1 DEF EventListOf, Sends
  <2> QED BY <1>2, <2>1, <2>2 DEF RetryingSenders, OnItsWay
<1>6. stay \subseteq RetryingSenders'
  <2>1. stay \subseteq Task
    BY DEF RetryingSenders
  <2> QED BY <1>2, <2>1, SendersStay
<1>7. stay \cup FirstOf(Tx, n) \subseteq RetryingSenders' /\ stay \cap FirstOf(Tx, n) = {}
  BY <1>4, <1>5, <1>6
<1>8. Cardinality(stay) \in Nat
  BY FS_CardinalityType
<1>9. Cardinality(stay \cup FirstOf(Tx, n)) = Cardinality(stay) + n
  <2>1. Cardinality(stay \cup FirstOf(Tx, n))
            = Cardinality(stay) + n - Cardinality(stay \cap FirstOf(Tx, n))
    BY <1>2, FS_Union
  <2>2. Cardinality(stay \cap FirstOf(Tx, n)) = 0
    BY <1>7, FS_EmptySet
  <2> QED BY <2>1, <2>2, <1>8
<1>10. Cardinality(stay \cup FirstOf(Tx, n)) <= Cardinality(RetryingSenders')
  BY <1>7, SendersAreFinite, FS_Subset
<1> QED BY <1>9, <1>10

(* A sender to wake takes a place freed with it.                           *)
LEMMA FreedPlaceIsCovered ==
    ASSUME CoreInv, CoreInv', SendersNotStranded, WakeOne(Tx),
           uxSchedulerSuspended' = uxSchedulerSuspended,
           \A u \in Task : u \in RetryingSenders \/ u \in OnList(Tx)
                => op'[u] = op[u] /\ (HasPlacedItself(u) => HasPlacedItself(u)'),
           uxMessagesWaiting' = uxMessagesWaiting - 1, cRxLock' = cRxLock
    PROVE  SendersNotStranded'
<1> DEFINE n == AtMostOne(Tx)
<1>a. Tx \in EventLists
  BY EventListAssumption
<1>b. TypeOK /\ TypeOK' /\ BlockedIsWaiting
  BY DEF CoreInv
<1>c. n \in 0..Len(eventList[Tx]) /\ (n = 0 <=> eventList[Tx] = <<>>)
  BY <1>a, <1>b, NumberWoken
<1>d. xTaskRemoveFromEventList(Tx, n)
  BY DEF WakeOne
<1>e. n \in {0, 1}
  BY DEF AtMostOne
<1> HIDE DEF n
<1> SUFFICES ASSUME eventList'[Tx] # <<>>
             PROVE  SpacesCovered'
  BY DEF SendersNotStranded
<1>1. FirstOf(Tx, n) \subseteq OnList(Tx) /\ (eventList'[Tx] # <<>> => eventList[Tx] # <<>>)
  BY <1>a, <1>b, <1>c, <1>d, WakeFacts
<1>2. eventList[Tx] # <<>> /\ n = 1
  BY <1>1, <1>c, <1>e
<1>3. Cardinality(RetryingSenders') >= Cardinality(RetryingSenders) + 1
  BY <1>1, <1>2, <1>c, <1>d, SendersAreFinite, WokenSendersRetry
<1>4. uxMessagesWaiting <= uxMessagesWaiting' + 1
  BY <1>b DEF TypeOK
<1> QED BY <1>2, <1>3, <1>4, <1>b, SpacesKept, 1 \in Int DEF SendersNotStranded

(* Waking receivers, or timing tasks out, puts nobody on the senders' list.*)
LEMMA NobodyJoins ==
    ASSUME CoreInv, uxSchedulerSuspended' = uxSchedulerSuspended,
           NEW n \in 0..Len(eventList[Rx]), xTaskRemoveFromEventList(Rx, n)
    PROVE  eventList'[Tx] = eventList[Tx] /\ OnList(Tx)' = OnList(Tx)
<1>1. Rx \in EventLists /\ Tx \in EventLists /\ Rx # Tx
  BY EventListAssumption DEF Rx, Tx
<1>2. eventList'[Tx] = eventList[Tx]
  BY <1>1 DEF xTaskRemoveFromEventList, CoreInv, TypeOK, SchedTypeOK
<1> QED BY <1>2 DEF OnList

(* The end of the scheduler lock: tasks leave the lists, none joins.       *)
LEMMA ResumeShrinksLists ==
    ASSUME CoreInv, NEW X \in SUBSET Task, xTaskResumeAll(X)
    PROVE  OnList(Tx)' \subseteq OnList(Tx)
<1>1. Tx \in EventLists /\ TypeOK
  BY EventListAssumption DEF CoreInv
<1>2. PendingMadeReady \in [Task -> {"ready", "delayed", "suspended"}]
  BY <1>1 DEF PendingMadeReady, TypeOK, SchedTypeOK
<1>3. CASE uxSchedulerSuspended = 1
  <2>1. Expire(X, PendingMadeReady)
    BY <1>3 DEF xTaskResumeAll
  <2>2. \A k \in EventLists :
            OnList(k)' = OnList(k) \ {t \in X : PendingMadeReady[t] = "delayed"}
    BY <1>1, <1>2, <2>1, ExpireFacts
  <2> QED BY <1>1, <2>2
<1>4. CASE uxSchedulerSuspended # 1
  BY <1>4 DEF xTaskResumeAll, OnList
<1> QED BY <1>3, <1>4

(* Every step keeps the senders' places covered.                           *)
LEMMA NextKeepsSenderInv ==
    ASSUME CoreInv, CoreInv', SenderInv, [Next]_vars
    PROVE  SenderInv'
<1>a. Rx \in EventLists /\ Tx \in EventLists /\ Rx # Tx
  BY EventListAssumption DEF Rx, Tx
<1>b. /\ TypeOK /\ TypeOK' /\ BlockedIsWaiting /\ BlockedInv
      /\ uxLength \in Nat \ {0}
      /\ uxMessagesWaiting \in 0..uxLength /\ uxMessagesWaiting' \in 0..uxLength
      /\ uxMessagesWaiting \in Int /\ uxMessagesWaiting' \in Int
  BY QueueAssumption DEF CoreInv, TypeOK
<1>c. \A l \in EventLists : AtMostOne(l) \in 0..Len(eventList[l])
  BY <1>b, NumberWoken
<1>d. \A X \in SUBSET Armed : X \in SUBSET Task
  BY DEF Armed
<1>1. \A t \in Task : op'[t] = "overwrite" => uxLength = 1
  <2>1. ASSUME NEW t \in Task, NEW u \in Task, App(u) \/ CallStep(u), op'[t] = "overwrite"
        PROVE  uxLength = 1
    <3>1. CASE op'[t] = op[t]
      BY <2>1, <3>1 DEF SenderInv
    <3>2. CASE Call(u) /\ op'[t] # op[t]
      <4>1. "overwrite" \in Calls[u]
        BY <2>1, <3>2, <1>b DEF Call, TypeOK
      <4> QED BY <4>1, QueueAssumption
    <3>3. CASE ~Call(u) /\ op'[t] # op[t]
      <4>1. CASE \/ AppSuspendAll(u) \/ AppResumeAll(u) \/ AppPrioritySet(u)
                 \/ xQueueGenericReset(u) \/ StartWaiting(u) \/ SuspendAll(u)
                 \/ prvLockQueue(u) \/ xTaskCheckForTimeOut(u) \/ TestAgain(u)
                 \/ PlaceOnEventList(u) \/ UnlockTx(u) \/ UnlockRx(u) \/ YieldWithinApi(u)
        BY <3>3, <4>1
           DEF AppSuspendAll, AppResumeAll, AppPrioritySet, xQueueGenericReset, StartWaiting,
               SuspendAll, prvLockQueue, xTaskCheckForTimeOut, TestAgain, PlaceOnEventList,
               UnlockTx, UnlockRx, YieldWithinApi, queueVars
      <4>2. CASE SendItem(u) \/ ReceiveItem(u) \/ PeekItem(u) \/ GiveUp(u) \/ Retest(u)
        <5>1. op' = [op EXCEPT ![u] = "none"] \/ op' = op
          BY <4>2 DEF SendItem, ReceiveItem, PeekItem, Proceed, GiveUp, Retest, Return
        <5> QED BY <2>1, <3>3, <5>1, <1>b DEF TypeOK
      <4>3. CASE ResumeAll(u)
        BY <2>1, <3>3, <4>3, <1>b DEF ResumeAll, TypeOK
      <4> QED BY <2>1, <3>3, <4>1, <4>2, <4>3 DEF App, CallStep
    <3> QED BY <3>1, <3>2, <3>3
  <2>2. Interrupt \/ SysTick \/ PendSV \/ UNCHANGED vars => op' = op
    BY DEF Interrupt, SendFromISR, ReceiveFromISR, SysTick, PendSV, queueVars, vars
  <2> QED BY <2>1, <2>2 DEF Next, SenderInv
<1> SUFFICES ASSUME ResetWakesEnough
             PROVE  PlaceInvTx' /\ SendersNotStranded'
  BY <1>1 DEF SenderInv, ResetWakesEnough
<1>e. PlaceInvTx /\ SendersNotStranded
  BY DEF SenderInv
<1>2. ASSUME NEW t \in Task, App(t)
      PROVE  PlaceInvTx' /\ SendersNotStranded'
  <2>a. At(t, "app") /\ op[t] = "none" /\ t = pxCurrentTCB
    BY <1>2 DEF App, Call, AppSuspendAll, AppResumeAll, AppPrioritySet, xQueueGenericReset,
                CoreInv, CallInv
  <2>1. CASE Call(t)
    <3>1. \A u \in RetryingSenders : u # t /\ u \in Task
      BY <2>a DEF RetryingSenders, Sends
    <3>2. \A u \in RetryingSenders :
              op'[u] = op[u] /\ (HasPlacedItself(u) => HasPlacedItself(u)')
      BY <2>1, <3>1, <1>b DEF Call, HasPlacedItself, TypeOK
    <3>3. /\ OnList(Tx)' = OnList(Tx) /\ uxMessagesWaiting' = uxMessagesWaiting
          /\ cRxLock' = cRxLock /\ pc'[pxCurrentTCB'] # "place"
      BY <2>1, <2>a, <1>b DEF Call, schedVars, OnList, TypeOK
    <3> QED BY <3>2, <3>3, <1>b, <1>e, SendersUndisturbed
  <2>2. CASE AppSuspendAll(t) \/ AppPrioritySet(t)
    <3>1. UNCHANGED <<queueVars, eventList, pxCurrentTCB>>
      BY <2>2 DEF AppSuspendAll, AppPrioritySet
    <3>2. /\ \A u \in RetryingSenders :
                 op'[u] = op[u] /\ (HasPlacedItself(u) => HasPlacedItself(u)')
          /\ OnList(Tx)' = OnList(Tx)
      BY <3>1 DEF queueVars, HasPlacedItself, OnList
    <3> QED BY <3>1, <3>2, <1>b, <1>e, SendersUndisturbed DEF queueVars
  <2>3. CASE AppResumeAll(t)
    <3>1. UNCHANGED <<queueVars, pxCurrentTCB>> /\ OnList(Tx)' \subseteq OnList(Tx)
      BY <2>3, <1>d, ResumeShrinksLists DEF AppResumeAll
    <3>2. \A u \in RetryingSenders :
              op'[u] = op[u] /\ (HasPlacedItself(u) => HasPlacedItself(u)')
      BY <3>1 DEF queueVars, HasPlacedItself
    <3> QED BY <3>1, <3>2, <1>b, <1>e, SendersUndisturbed DEF queueVars
  <2>4. CASE xQueueGenericReset(t)
    <3> DEFINE n == AtMostOne(Tx)
    <3>1. n \in 0..Len(eventList[Tx]) /\ (n = 0 <=> eventList[Tx] = <<>>) /\ n \in {0, 1}
      BY <1>a, <1>b, NumberWoken DEF AtMostOne
    <3>2. /\ xTaskRemoveFromEventList(Tx, n) /\ uxSchedulerSuspended' = uxSchedulerSuspended
          /\ UNCHANGED <<pc, op, after, pxCurrentTCB>>
          /\ cRxLock' = queueUNLOCKED /\ uxMessagesWaiting' = 0
          /\ uxLength = 1
      BY <2>4 DEF xQueueGenericReset, WakeOne, ResetWakesEnough
    <3> HIDE DEF n
    <3>3. PlaceInvTx'
      BY <2>a, <3>2 DEF PlaceInvTx
    <3>4. ASSUME eventList'[Tx] # <<>>
          PROVE  SpacesCovered'
      <4>1. n = 1
        <5>1. eventList[Tx] # <<>>
          BY <1>a, <1>b, <3>1, <3>2, <3>4, WakeFacts
        <5> QED BY <5>1, <3>1
      <4>2. Cardinality(RetryingSenders') >= Cardinality(RetryingSenders) + 1
        <5>1. \A u \in Task : op'[u] = op[u] /\ (HasPlacedItself(u) => HasPlacedItself(u)')
          BY <3>2 DEF HasPlacedItself
        <5> QED BY <5>1, <3>1, <3>2, <4>1, SendersAreFinite, WokenSendersRetry
      <4>3. 1 - 0 <= Cardinality(RetryingSenders') + 0
        BY <4>2, SendersAreFinite
      <4> QED BY <3>2, <4>3 DEF SpacesCovered, Covered
    <3> QED BY <3>3, <3>4 DEF SendersNotStranded
  <2> QED BY <1>2, <2>1, <2>2, <2>3, <2>4 DEF App
<1>3. ASSUME NEW t \in Task, SendItem(t) \/ ReceiveItem(t) \/ PeekItem(t)
      PROVE  PlaceInvTx' /\ SendersNotStranded'
  <2>a. /\ At(t, "enter") /\ t = pxCurrentTCB /\ ~CannotProceed(op[t]) /\ Return(t)
        /\ UNCHANGED <<cRxLock, cTxLock, pxCurrentTCB, uxPriority, uxSchedulerSuspended,
                       ticksPended>>
    BY <1>3 DEF SendItem, ReceiveItem, PeekItem, Proceed
  <2>b. PlaceInvTx' /\ pc'[pxCurrentTCB'] # "place"
    BY <2>a, <1>b DEF PlaceInvTx, Return, TypeOK
  <2>c. \A u \in Task : u # t => op'[u] = op[u] /\ (HasPlacedItself(u) => HasPlacedItself(u)')
    BY <2>a, <1>b DEF Return, HasPlacedItself, TypeOK
  <2>d. t \in Ready
    BY <2>a, <1>b DEF BlockedInv
  <2>1. CASE SendItem(t)
    <3> DEFINE stay == RetryingSenders \ {t}
    <3>1. /\ Sends(op[t]) /\ xTaskRemoveFromEventList(Rx, AtMostOne(Rx))
          /\ uxMessagesWaiting' = CountAfterSend(op[t])
      BY <2>1 DEF SendItem, Proceed, WakeOne
    <3>2. eventList'[Tx] = eventList[Tx] /\ OnList(Tx)' = OnList(Tx)
      BY <1>a, <1>c, <2>a, <3>1, NobodyJoins
    <3>3. uxMessagesWaiting' = uxLength \/ uxMessagesWaiting' = uxMessagesWaiting + 1
      BY <1>b, <3>1 DEF CountAfterSend, SenderInv
    <3>4. stay \subseteq RetryingSenders'
      <4>1. \A u \in stay : op'[u] = op[u] /\ (HasPlacedItself(u) => HasPlacedItself(u)')
        BY <2>c DEF RetryingSenders
      <4> QED BY <3>2, <4>1, SendersStay
    <3>5. SpacesCovered => SpacesCovered'
      <4>1. CASE uxMessagesWaiting' = uxLength
        BY <4>1, <1>b, SendersAreFinite DEF SpacesCovered, Covered, TypeOK, queueUNLOCKED
      <4>2. CASE uxMessagesWaiting' = uxMessagesWaiting + 1
        <5>1. Cardinality(stay) <= Cardinality(RetryingSenders')
          BY <3>4, SendersAreFinite, FS_Subset
        <5> HIDE DEF stay
        <5>a. Cardinality(stay) \in Nat /\ Cardinality(stay) >= Cardinality(RetryingSenders) - 1
          BY SendersWithoutOne DEF stay
        <5>2. Cardinality(RetryingSenders') >= Cardinality(RetryingSenders) + (-1)
          BY <5>1, <5>a, SendersAreFinite
        <5>3. uxMessagesWaiting <= uxMessagesWaiting' + (-1) /\ -1 \in Int
          BY <4>2, <1>b
        <5> QED BY <1>b, <2>a, <5>2, <5>3, SpacesKept
      <4> QED BY <3>3, <4>1, <4>2
    <3> QED BY <1>e, <2>b, <3>2, <3>5 DEF SendersNotStranded
  <2>2. CASE ReceiveItem(t)
    <3>1. op[t] = "receive" /\ WakeOne(Tx) /\ uxMessagesWaiting' = uxMessagesWaiting - 1
      BY <2>2 DEF ReceiveItem, Proceed
    <3>2. t \notin RetryingSenders /\ t \notin OnList(Tx)
      BY <1>a, <1>b, <2>d, <3>1 DEF RetryingSenders, Sends, BlockedIsWaiting
    <3> QED BY <1>e, <2>a, <2>b, <2>c, <3>1, <3>2, FreedPlaceIsCovered
  <2>3. CASE PeekItem(t)
    <3>1. /\ op[t] = "peek" /\ xTaskRemoveFromEventList(Rx, AtMostOne(Rx))
          /\ uxMessagesWaiting' = uxMessagesWaiting
      BY <2>3 DEF PeekItem, Proceed, WakeOne
    <3>2. OnList(Tx)' = OnList(Tx)
      BY <1>a, <1>c, <2>a, <3>1, NobodyJoins
    <3>3. \A u \in RetryingSenders :
              op'[u] = op[u] /\ (HasPlacedItself(u) => HasPlacedItself(u)')
      BY <2>c, <3>1 DEF RetryingSenders, Sends
    <3> QED BY <1>b, <1>e, <2>a, <2>b, <3>1, <3>2, <3>3, SendersUndisturbed
  <2> QED BY <1>3, <2>1, <2>2, <2>3
<1>4. ASSUME NEW t \in Task, GiveUp(t) \/ StartWaiting(t)
      PROVE  PlaceInvTx' /\ SendersNotStranded'
  <2>a. /\ At(t, "enter") /\ t = pxCurrentTCB /\ CannotProceed(op[t])
        /\ UNCHANGED <<uxMessagesWaiting, cRxLock, eventList, pxCurrentTCB>>
    BY <1>4 DEF GiveUp, StartWaiting
  <2>b. /\ pc'[pxCurrentTCB'] # "place"
        /\ \A u \in Task : u # t => op'[u] = op[u] /\ (HasPlacedItself(u) => HasPlacedItself(u)')
    BY <1>4, <1>b DEF GiveUp, StartWaiting, Return, HasPlacedItself, TypeOK
  <2>1. CASE uxMessagesWaiting = uxLength
    <3>1. SpacesCovered'
      BY <2>1, <2>a, <1>b, SendersAreFinite DEF SpacesCovered, Covered, TypeOK, queueUNLOCKED
    <3> QED BY <2>b, <3>1 DEF PlaceInvTx, SendersNotStranded
  <2>2. CASE uxMessagesWaiting # uxLength
    <3>1. Receives(op[t])
      BY <2>2, <2>a DEF CannotProceed
    <3>2. \A u \in RetryingSenders : u \in Task /\ u # t
      BY <3>1 DEF RetryingSenders, Sends, Receives
    <3> QED BY <3>2, <2>a, <2>b, <1>b, <1>e, SendersUndisturbed DEF OnList
  <2> QED BY <2>1, <2>2
<1>5. ASSUME NEW t \in Task, SuspendAll(t) \/ xTaskCheckForTimeOut(t) \/ YieldWithinApi(t) \/ Retest(t)
      PROVE  PlaceInvTx' /\ SendersNotStranded'
  <2>a. /\ t = pxCurrentTCB
        /\ UNCHANGED <<uxMessagesWaiting, cRxLock, eventList, pxCurrentTCB>>
    BY <1>5 DEF SuspendAll, xTaskCheckForTimeOut, YieldWithinApi, Retest
  <2>b. pc'[pxCurrentTCB'] # "place"
    BY <1>5, <1>b DEF SuspendAll, xTaskCheckForTimeOut, YieldWithinApi, Retest, Return, TypeOK
  <2>c. \A u \in RetryingSenders :
            op'[u] = op[u] /\ (HasPlacedItself(u) => HasPlacedItself(u)')
    <3>1. \A u \in Task : u # t => op'[u] = op[u] /\ (HasPlacedItself(u) => HasPlacedItself(u)')
      BY <1>5, <1>b DEF SuspendAll, xTaskCheckForTimeOut, YieldWithinApi, Retest, Return,
                        HasPlacedItself, TypeOK
    <3>2. t \in RetryingSenders => YieldWithinApi(t)
      BY <1>5 DEF RetryingSenders, OnItsWay, HasPlacedItself, SuspendAll,
                  xTaskCheckForTimeOut, Retest
    <3>3. YieldWithinApi(t) => op'[t] = op[t] /\ HasPlacedItself(t)'
      BY <1>b DEF YieldWithinApi, HasPlacedItself, TypeOK
    <3> QED BY <3>1, <3>2, <3>3 DEF RetryingSenders
  <2> QED BY <2>a, <2>b, <2>c, <1>b, <1>e, SendersUndisturbed DEF OnList
<1>6. ASSUME NEW t \in Task, prvLockQueue(t)
      PROVE  PlaceInvTx' /\ SendersNotStranded'
  <2>1. RetryingSenders' = RetryingSenders
    BY <1>6, <1>b DEF prvLockQueue, schedVars, RetryingSenders, OnItsWay, HasPlacedItself,
                      OnList, EventListOf, Sends, TypeOK
  <2>2. SpacesCovered => SpacesCovered'
    BY <1>6, <1>b, <2>1, NumberOfTasksType
       DEF prvLockQueue, SpacesCovered, Covered, Locked, queueUNLOCKED, queueLOCKED_UNMODIFIED,
           NumberOfTasks
  <2>3. pc'[pxCurrentTCB'] # "place" /\ eventList' = eventList
    BY <1>6, <1>b DEF prvLockQueue, schedVars, TypeOK
  <2> QED BY <2>2, <2>3, <1>e DEF PlaceInvTx, SendersNotStranded
<1>7. ASSUME NEW t \in Task, TestAgain(t)
      PROVE  PlaceInvTx' /\ SendersNotStranded'
  <2>a. /\ At(t, "test") /\ t = pxCurrentTCB
        /\ UNCHANGED <<uxMessagesWaiting, cRxLock, eventList, pxCurrentTCB, op>>
    BY <1>7 DEF TestAgain, schedVars
  <2>b. \A u \in RetryingSenders :
            op'[u] = op[u] /\ (HasPlacedItself(u) => HasPlacedItself(u)')
    BY <1>7, <2>a, <1>b DEF TestAgain, RetryingSenders, OnItsWay, HasPlacedItself, TypeOK
  <2>1. CASE CannotProceed(op[t])
    <3>1. CASE Sends(op[t])
      <4>1. uxMessagesWaiting = uxLength
        BY <2>1, <3>1 DEF CannotProceed, Sends, Receives
      <4>2. SpacesCovered'
        BY <4>1, <2>a, <1>b, SendersAreFinite DEF SpacesCovered, Covered, TypeOK, queueUNLOCKED
      <4> QED BY <4>2 DEF PlaceInvTx, SendersNotStranded
    <3>2. CASE ~Sends(op[t])
      <4>1. PlaceInvTx'
        BY <3>2, <2>a DEF PlaceInvTx, Sends
      <4>2. RetryingSenders \subseteq RetryingSenders'
        BY <2>a, <2>b, SendersStay DEF OnList
      <4>3. Cardinality(RetryingSenders) <= Cardinality(RetryingSenders')
        BY <4>2, SendersAreFinite, FS_Subset
      <4>4. /\ Cardinality(RetryingSenders') >= Cardinality(RetryingSenders) + 0
            /\ uxMessagesWaiting <= uxMessagesWaiting' + 0 /\ 0 \in Int
        BY <4>3, <2>a, <1>b, SendersAreFinite
      <4>5. SpacesCovered => SpacesCovered'
        BY <1>b, <2>a, <4>4, SpacesKept
      <4> QED BY <4>1, <4>5, <2>a, <1>e DEF SendersNotStranded
    <3> QED BY <3>1, <3>2
  <2>2. CASE ~CannotProceed(op[t])
    <3>1. pc'[pxCurrentTCB'] # "place"
      BY <1>7, <2>2, <2>a, <1>b DEF TestAgain, TypeOK
    <3> QED BY <3>1, <2>a, <2>b, <1>b, <1>e, SendersUndisturbed DEF OnList
  <2> QED BY <2>1, <2>2
<1>8. ASSUME NEW t \in Task, PlaceOnEventList(t)
      PROVE  PlaceInvTx' /\ SendersNotStranded'
  <2>a. /\ At(t, "place") /\ t = pxCurrentTCB
        /\ UNCHANGED <<uxMessagesWaiting, cRxLock, pxCurrentTCB, op>>
        /\ pc'[pxCurrentTCB'] # "place"
    BY <1>8, <1>b DEF PlaceOnEventList, TypeOK
  <2> DEFINE l == EventListOf(op[t])
  <2>b. l \in EventLists
    BY <1>a DEF EventListOf
  <2>c. PICK s \in ListInsert(eventList[l], t) : eventList' = [eventList EXCEPT ![l] = s]
    BY <1>8, <2>a DEF PlaceOnEventList, vTaskPlaceOnEventList
  <2>d. ToSet(s) = ToSet(eventList[l]) \cup {t}
    BY <2>b, <1>b, ListInsertFacts DEF TypeOK, SchedTypeOK
  <2>e. eventList \in [EventLists -> Seq(Task)]
    BY <1>b DEF TypeOK, SchedTypeOK
  <2>1. t \notin RetryingSenders
    BY <2>a DEF RetryingSenders, OnItsWay, HasPlacedItself
  <2>2. OnList(Tx)' \subseteq OnList(Tx) \cup {t}
    BY <1>a, <2>b, <2>c, <2>d, <2>e DEF OnList
  <2>3. \A u \in RetryingSenders :
            op'[u] = op[u] /\ (HasPlacedItself(u) => HasPlacedItself(u)')
    BY <1>8, <2>1, <1>b DEF PlaceOnEventList, HasPlacedItself, TypeOK, RetryingSenders
  <2>4. RetryingSenders \subseteq RetryingSenders'
    BY <2>1, <2>2, <2>3, SendersStay
  <2>5. Cardinality(RetryingSenders) <= Cardinality(RetryingSenders')
    BY <2>4, SendersAreFinite, FS_Subset
  <2>6. /\ Cardinality(RetryingSenders') >= Cardinality(RetryingSenders) + 0
        /\ uxMessagesWaiting <= uxMessagesWaiting' + 0 /\ 0 \in Int
    BY <2>5, <2>a, <1>b, SendersAreFinite
  <2>7. SpacesCovered => SpacesCovered'
    BY <1>b, <2>a, <2>6, SpacesKept
  <2>8. CASE Sends(op[t])
    BY <2>7, <2>8, <2>a, <1>e DEF PlaceInvTx, SendersNotStranded
  <2>9. CASE ~Sends(op[t])
    <3>1. l = Rx
      BY <2>9 DEF EventListOf
    <3>2. eventList'[Tx] = eventList[Tx]
      BY <3>1, <1>a, <2>c, <2>e
    <3> QED BY <3>2, <2>7, <2>a, <1>e DEF PlaceInvTx, SendersNotStranded
  <2> QED BY <2>8, <2>9
<1>9. ASSUME NEW t \in Task, UnlockTx(t)
      PROVE  PlaceInvTx' /\ SendersNotStranded'
  <2>1. /\ t = pxCurrentTCB
        /\ UNCHANGED <<uxMessagesWaiting, cRxLock, op, after, pxCurrentTCB, uxSchedulerSuspended>>
        /\ pc'[pxCurrentTCB'] # "place"
    BY <1>9, <1>b DEF UnlockTx, TypeOK
  <2>2. OnList(Tx)' = OnList(Tx)
    <3>1. WakesOf(cTxLock, Rx) \in 0..Len(eventList[Rx])
      BY <1>a, <1>b, NumberWoken DEF TypeOK
    <3> QED BY <1>9, <3>1, NobodyJoins DEF UnlockTx
  <2>3. \A u \in RetryingSenders :
            op'[u] = op[u] /\ (HasPlacedItself(u) => HasPlacedItself(u)')
    BY <1>9, <1>b DEF UnlockTx, HasPlacedItself, TypeOK
  <2> QED BY <2>1, <2>2, <2>3, <1>b, <1>e, SendersUndisturbed
<1>10. ASSUME NEW t \in Task, UnlockRx(t)
       PROVE  PlaceInvTx' /\ SendersNotStranded'
  <2> DEFINE n == WakesOf(cRxLock, Tx)
  <2>a. /\ At(t, "unlockRx") /\ t = pxCurrentTCB
        /\ UNCHANGED <<uxMessagesWaiting, op, after, pxCurrentTCB, uxSchedulerSuspended>>
        /\ xTaskRemoveFromEventList(Tx, n)
        /\ cRxLock' = queueUNLOCKED
        /\ pc'[pxCurrentTCB'] # "place"
    BY <1>10, <1>b DEF UnlockRx, TypeOK
  <2>b. n \in 0..Len(eventList[Tx])
    BY <1>a, <1>b, NumberWoken DEF TypeOK
  <2> HIDE DEF n
  <2>1. ASSUME eventList'[Tx] # <<>>
        PROVE  SpacesCovered'
    <3>1. eventList[Tx] # <<>> /\ n < Len(eventList[Tx]) /\ FirstOf(Tx, n) \subseteq OnList(Tx)
      BY <1>a, <1>b, <2>1, <2>a, <2>b, WakeFacts
    <3>2. cRxLock \in 0..NumberOfTasks
      BY <1>b, <2>a, NumberOfTasksType
         DEF CoreInv, LockHasOwner, HasRxLock, HasTxLock, TypeOK, queueUNLOCKED
    <3>3. n = cRxLock
      BY <3>1, <3>2, NumberOfTasksType DEF n, WakesOf, queueLOCKED_UNMODIFIED
    <3>4. \A u \in Task : op'[u] = op[u] /\ (HasPlacedItself(u) => HasPlacedItself(u)')
      BY <1>10, <1>b DEF UnlockRx, HasPlacedItself, TypeOK
    <3>5. Cardinality(RetryingSenders') >= Cardinality(RetryingSenders) + cRxLock
      BY <2>a, <2>b, <3>3, <3>4, SendersAreFinite, WokenSendersRetry
    <3>6. cRxLock # NumberOfTasks
      <4>1. FirstOf(Tx, n) \subseteq Task /\ Cardinality(FirstOf(Tx, n)) = n
        BY <1>a, <1>b, <2>a, <2>b, WakeFacts DEF OnList, ToSet, TypeOK, SchedTypeOK
      <4>2. FirstOf(Tx, n) # Task
        <5>1. 1 \in DOMAIN eventList'[Tx] /\ eventList'[Tx] \in Seq(Task)
          BY <1>a, <1>b, <2>1, NonEmptyList DEF TypeOK, SchedTypeOK
        <5>2. eventList'[Tx][1] \in Task /\ eventList'[Tx][1] \in OnList(Tx)'
          BY <5>1 DEF OnList, ToSet
        <5> QED BY <5>2, <1>a, <1>b, <2>a, <2>b, WakeFacts
      <4> QED BY <3>3, <4>1, <4>2, FS_Subset, TaskAssumption DEF NumberOfTasks
    <3>7. uxLength - uxMessagesWaiting <= Cardinality(RetryingSenders) + cRxLock
      BY <1>e, <3>1, <3>2, <3>6 DEF SendersNotStranded, SpacesCovered, Covered, queueUNLOCKED
    <3>8. uxLength - uxMessagesWaiting' <= Cardinality(RetryingSenders') + 0
      BY <1>b, <2>a, <3>2, <3>5, <3>7, SendersAreFinite
    <3> QED BY <2>a, <3>8 DEF SpacesCovered, Covered
  <2> QED BY <2>a, <2>1 DEF PlaceInvTx, SendersNotStranded
<1>11. ASSUME NEW t \in Task, ResumeAll(t)
       PROVE  PlaceInvTx' /\ SendersNotStranded'
  <2>1. /\ At(t, "resume") /\ t = pxCurrentTCB
        /\ UNCHANGED <<uxMessagesWaiting, cRxLock, pxCurrentTCB>>
        /\ after[t] \in {"yield", "retry", "fail"}
    BY <1>11, <1>b DEF ResumeAll, CoreInv, CallInv, TypeOK
  <2>2. OnList(Tx)' \subseteq OnList(Tx)
    BY <1>11, <1>d, ResumeShrinksLists DEF ResumeAll
  <2>3. PICK label \in {"enter", "yield", "retest", "app"} :
            /\ pc' = [pc EXCEPT ![t] = label]
            /\ after[t] = "yield" => label \in {"enter", "yield"}
    <3>1. CASE after[t] = "yield"
      BY <1>11, <3>1 DEF ResumeAll
    <3>2. CASE after[t] = "retry"
      BY <1>11, <3>2 DEF ResumeAll
    <3>3. CASE after[t] = "fail"
      BY <1>11, <3>3 DEF ResumeAll
    <3> QED BY <2>1, <3>1, <3>2, <3>3
  <2>4. ASSUME NEW u \in RetryingSenders
        PROVE  op'[u] = op[u] /\ (HasPlacedItself(u) => HasPlacedItself(u)')
    <3>1. CASE u = t
      <4>1. after[t] = "yield"
        BY <2>1, <3>1 DEF RetryingSenders, OnItsWay, HasPlacedItself
      <4> QED BY <1>11, <2>3, <3>1, <4>1, <1>b DEF ResumeAll, HasPlacedItself, TypeOK
    <3>2. CASE u # t
      BY <1>11, <2>3, <3>2, <1>b DEF ResumeAll, HasPlacedItself, TypeOK, RetryingSenders
    <3> QED BY <3>1, <3>2
  <2>5. pc'[pxCurrentTCB'] # "place"
    BY <2>1, <2>3, <1>b DEF TypeOK
  <2> QED BY <2>1, <2>2, <2>4, <2>5, <1>b, <1>e, SendersUndisturbed
<1>12. ASSUME NEW o, SendFromISR(o)
       PROVE  PlaceInvTx' /\ SendersNotStranded'
  <2>1. /\ UNCHANGED <<cRxLock, pc, op, after, pxCurrentTCB, uxSchedulerSuspended>>
        /\ uxMessagesWaiting <= uxMessagesWaiting'
    BY <1>12, <1>b DEF SendFromISR, CountAfterSend
  <2>2. OnList(Tx)' = OnList(Tx)
    <3>1. CASE cTxLock = queueUNLOCKED
      BY <1>12, <1>a, <1>c, <3>1, NobodyJoins DEF SendFromISR, WakeOne
    <3>2. CASE cTxLock # queueUNLOCKED
      BY <1>12, <3>2 DEF SendFromISR, OnList
    <3> QED BY <3>1, <3>2
  <2>3. \A u \in RetryingSenders :
            op'[u] = op[u] /\ (HasPlacedItself(u) => HasPlacedItself(u)')
    BY <2>1 DEF HasPlacedItself
  <2> QED BY <2>1, <2>2, <2>3, <1>b, <1>e, SendersUndisturbed
<1>13. ASSUME ReceiveFromISR
       PROVE  PlaceInvTx' /\ SendersNotStranded'
  <2>a. /\ UNCHANGED <<pc, op, after, pxCurrentTCB, uxSchedulerSuspended>>
        /\ uxMessagesWaiting' = uxMessagesWaiting - 1
    BY <1>13 DEF ReceiveFromISR
  <2>1. CASE cRxLock = queueUNLOCKED
    <3>1. WakeOne(Tx) /\ cRxLock' = cRxLock
      BY <1>13, <2>1 DEF ReceiveFromISR
    <3>2. PlaceInvTx'
      BY <2>1, <2>a DEF PlaceInvTx, CoreInv, LockHasOwner, HasRxLock, HasTxLock
    <3>3. \A u \in Task : op'[u] = op[u] /\ (HasPlacedItself(u) => HasPlacedItself(u)')
      BY <2>a DEF HasPlacedItself
    <3> QED BY <2>a, <3>1, <3>2, <3>3, <1>e, FreedPlaceIsCovered
  <2>2. CASE cRxLock # queueUNLOCKED
    <3>1. cRxLock' = Counted(cRxLock) /\ eventList' = eventList
      BY <1>13, <2>2 DEF ReceiveFromISR
    <3>2. cRxLock \in 0..NumberOfTasks /\ cRxLock' \in 0..NumberOfTasks
          /\ (cRxLock' = cRxLock + 1 \/ cRxLock' = NumberOfTasks)
      BY <1>b, <2>2, <3>1, NumberOfTasksType DEF Counted, TypeOK, queueUNLOCKED
    <3>3. RetryingSenders' = RetryingSenders
      BY <2>a, <3>1 DEF RetryingSenders, OnItsWay, HasPlacedItself, OnList
    <3>4. NumberOfTasks' = NumberOfTasks /\ NumberOfTasks \in Nat
      BY NumberOfTasksType DEF NumberOfTasks
    <3>5. SpacesCovered => SpacesCovered'
      <4>1. cRxLock' # queueUNLOCKED
        BY <3>2, <3>4 DEF queueUNLOCKED
      <4> QED BY <1>b, <2>2, <2>a, <3>2, <3>3, <3>4, <4>1, SendersAreFinite
              DEF SpacesCovered, Covered
    <3> QED BY <2>a, <3>1, <3>5, <1>e DEF PlaceInvTx, SendersNotStranded
  <2> QED BY <2>1, <2>2
<1>14. ASSUME SysTick
       PROVE  PlaceInvTx' /\ SendersNotStranded'
  <2>1. UNCHANGED <<queueVars, pxCurrentTCB>>
    BY <1>14 DEF SysTick
  <2>2. PICK X \in SUBSET Task : xTaskIncrementTick(X)
    BY <1>14, <1>d DEF SysTick
  <2>3. OnList(Tx)' \subseteq OnList(Tx)
    <3>1. CASE uxSchedulerSuspended = 0
      <4>1. Expire(X, xStateListItem)
            /\ xStateListItem \in [Task -> {"ready", "delayed", "suspended"}]
        BY <1>b, <2>2, <3>1 DEF xTaskIncrementTick, TypeOK, SchedTypeOK
      <4>2. \A k \in EventLists :
                OnList(k)' = OnList(k) \ {t \in X : xStateListItem[t] = "delayed"}
        BY <1>b, <4>1, ExpireFacts
      <4> QED BY <1>a, <4>2
    <3>2. CASE uxSchedulerSuspended # 0
      BY <2>2, <3>2 DEF xTaskIncrementTick, OnList
    <3> QED BY <3>1, <3>2
  <2>4. \A u \in RetryingSenders :
            op'[u] = op[u] /\ (HasPlacedItself(u) => HasPlacedItself(u)')
    BY <2>1 DEF queueVars, HasPlacedItself
  <2> QED BY <2>1, <2>3, <2>4, <1>b, <1>e, SendersUndisturbed DEF queueVars
<1>15. ASSUME PendSV
       PROVE  PlaceInvTx' /\ SendersNotStranded'
  <2>1. UNCHANGED <<queueVars, eventList, uxSchedulerSuspended>>
    BY <1>15 DEF PendSV
  <2>2. pc'[pxCurrentTCB'] = "place" => pxCurrentTCB' = pxCurrentTCB
    BY <1>15, <1>b DEF PendSV, vTaskSwitchContext, CoreInv, LockHasOwner, HasScheduler, TypeOK,
                       SchedTypeOK
  <2>3. /\ \A u \in RetryingSenders :
               op'[u] = op[u] /\ (HasPlacedItself(u) => HasPlacedItself(u)')
        /\ OnList(Tx)' = OnList(Tx)
    BY <2>1 DEF queueVars, HasPlacedItself, OnList
  <2> QED BY <2>1, <2>2, <2>3, <1>b, <1>e, SendersUndisturbed DEF queueVars
<1>16. CASE UNCHANGED vars
  BY <1>16, <1>e DEF vars, schedVars, queueVars, PlaceInvTx, SendersNotStranded, SpacesCovered,
                     Covered, RetryingSenders, OnItsWay, HasPlacedItself, OnList, EventListOf,
                     Sends
<1>17. ASSUME NEW t \in Task, CallStep(t)
       PROVE  PlaceInvTx' /\ SendersNotStranded'
  BY <1>17, <1>3, <1>4, <1>5, <1>6, <1>7, <1>8, <1>9, <1>10, <1>11 DEF CallStep
<1> QED BY <1>2, <1>12, <1>13, <1>14, <1>15, <1>16, <1>17 DEF Next, Interrupt

(* There is no sender yet.                                                 *)
LEMMA InitSenderInv == Init => SenderInv
<1> SUFFICES ASSUME Init PROVE SenderInv
  OBVIOUS
<1>1. \A t \in Task : op[t] = "none" /\ pc[t] = "app"
  BY DEF Init
<1>2. pxCurrentTCB \in Task /\ eventList[Tx] = <<>>
  BY EventListAssumption DEF Init, SchedInit
<1> QED BY <1>1, <1>2 DEF SenderInv, PlaceInvTx, SendersNotStranded

-----------------------------------------------------------------------------
(* The results.                                                            *)

(* The part of it that needs no other holds in every state.                *)
THEOREM CoreInvariance == Spec => []CoreInv
<1>1. Init => CoreInv
  BY InitCoreInv
<1>2. CoreInv /\ [Next]_vars => CoreInv'
  BY NextKeepsCoreInv
<1> QED BY <1>1, <1>2, PTL DEF Spec

(* The whole inductive invariant holds in every state.                     *)
THEOREM Invariance == Spec => []IInv
<1>1. Init => SchedulingInv /\ SenderInv
  BY InitSchedulingInv, InitSenderInv
<1>2. CoreInv /\ CoreInv' /\ SchedulingInv /\ SenderInv /\ [Next]_vars => SchedulingInv' /\ SenderInv'
  BY NextKeepsSchedulingInv, NextKeepsSenderInv
<1>3. CoreInv /\ SchedulingInv /\ SenderInv => IInv
  BY DEF IInv
<1> QED BY <1>1, <1>2, <1>3, CoreInvariance, PTL DEF Spec

(* Preemptive priority scheduling, for any set of tasks, priorities and    *)
(* interrupts, priorities being changed as the code does: whatever wakes a *)
(* task of higher priority, a switch is pended or will be, and a task that *)
(* runs with no switch pended is ready and has the highest priority.       *)
THEOREM HighestReadyRuns == Spec => []HighestPriorityRuns
<1>1. IInv => HighestPriorityRuns
  BY NoSwitchIsOwed DEF IInv
<1> QED BY <1>1, Invariance, PTL

(* While priorities stay as they are the head of an event list is a waiter *)
(* of the highest priority, which xTaskRemoveFromEventList takes it for.   *)
(* (With vTaskPrioritySet it is not: the item of a waiting task is given   *)
(* its new value where it is.)                                             *)
THEOREM HeadOfListIsHighest ==
    ASSUME Priorities = {}
    PROVE  Spec => []HeadIsHighest
<1>1. IInv => HeadIsHighest
  BY OrderedHeadIsHighest DEF IInv, SchedulingInv
<1> QED BY <1>1, Invariance, PTL

(* The counters of the queue, of its locks and of the scheduler lock stay  *)
(* in their ranges.                                                        *)
THEOREM TypeCorrect == Spec => []TypeOK
<1>1. CoreInv => TypeOK
  BY DEF CoreInv
<1> QED BY <1>1, CoreInvariance, PTL

(* xQueueGenericSend, xQueueReceive and xQueuePeek never leave a task      *)
(* asleep where nothing can wake it: for any number of tasks, queue length *)
(* and interrupt handlers, a task that is not ready is on the event list   *)
(* of its operation or pending ready.                                      *)
THEOREM SleepersAreReachable == Spec => []BlockedIsWaiting
<1>1. CoreInv => BlockedIsWaiting
  BY DEF CoreInv
<1> QED BY <1>1, CoreInvariance, PTL

(* Only one task at a time holds the locks of the queue, and it has the    *)
(* scheduler suspended: the unconditional unlock of prvUnlockQueue and of  *)
(* xQueueGenericReset is sound.                                            *)
THEOREM LockIsOwned == Spec => []LockHasOwner
<1>1. CoreInv => LockHasOwner
  BY DEF CoreInv
<1> QED BY <1>1, CoreInvariance, PTL

(* No message wakes nobody: while a receiver sleeps every message of the   *)
(* queue has a woken task coming for it or is in the lock count, whatever  *)
(* interrupt posted it and when.                                           *)
THEOREM NoReceiverIsStranded == Spec => []ReceiversNotStranded
<1>1. CoreInv => ReceiversNotStranded
  BY DEF CoreInv
<1> QED BY <1>1, CoreInvariance, PTL

(* No free place wakes nobody, unless xQueueGenericReset frees several at  *)
(* once: of a queue of any length that is never reset, or of a queue of    *)
(* one item, every free place has a sender coming for it or is in cRxLock  *)
(* while a sender sleeps.                                                  *)
THEOREM NoSenderIsStranded ==
    ASSUME ResetWakesEnough
    PROVE  Spec => []SendersNotStranded
<1>1. IInv => SendersNotStranded
  BY DEF IInv, SenderInv
<1> QED BY <1>1, Invariance, PTL
=============================================================================
