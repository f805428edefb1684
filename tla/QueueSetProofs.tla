--------------------------- MODULE QueueSetProofs ---------------------------
(***************************************************************************)
(* IInv is an inductive invariant of QueueSet, for every finite set of     *)
(* tasks and members, lengths, assignment of calls and priorities.  First  *)
(* counting, of events and of the tasks on their way to the set; then what *)
(* waking tasks does; then a lemma for each action and the theorems.       *)
(***************************************************************************)
EXTENDS QueueSet, SchedProofs

-----------------------------------------------------------------------------
(* The set and its members are different event lists.                      *)
LEMMA SetFacts ==
    /\ Set \in EventLists /\ Member \subseteq EventLists /\ Set \notin Member
    /\ NumberOfTasks \in Nat \ {0}
    /\ \A m \in Member : uxLength[m] \in Nat \ {0}
<1>1. Cardinality(Task) \in Nat /\ (Cardinality(Task) = 0 <=> Task = {})
  BY FS_CardinalityType, FS_EmptySet, TaskAssumption
<1> QED BY <1>1, TaskAssumption, QueueSetAssumption DEF NumberOfTasks

(* A lock count is a number that saturates.                                *)
LEMMA LockCountFacts ==
    ASSUME NEW c \in queueUNLOCKED..NumberOfTasks
    PROVE  /\ LockCount(c) \in 0..NumberOfTasks
           /\ LockOnce(c) \in queueUNLOCKED..NumberOfTasks /\ LockCount(LockOnce(c)) = LockCount(c)
           /\ \A n \in Nat :
                  /\ CountedTimes(n, c) \in queueUNLOCKED..NumberOfTasks
                  /\ c # queueUNLOCKED =>
                         /\ CountedTimes(n, c) # queueUNLOCKED
                         /\ \/ LockCount(CountedTimes(n, c)) = LockCount(c) + n
                            \/ CountedTimes(n, c) = NumberOfTasks
BY SetFacts DEF LockCount, LockOnce, CountedTimes, queueUNLOCKED, queueLOCKED_UNMODIFIED

(* So is each lock count in a state of the right type.                     *)
LEMMA LockTypes ==
    ASSUME TypeOK, NEW q \in Member \cup {Set}
    PROVE  /\ cTxLock[q] \in queueUNLOCKED..NumberOfTasks
           /\ LockCount(cTxLock[q]) \in Nat /\ LockCount(cTxLock[q]) <= NumberOfTasks
<1>1. cTxLock[q] \in queueUNLOCKED..NumberOfTasks
  BY DEF TypeOK
<1>2. LockCount(cTxLock[q]) \in 0..NumberOfTasks
  BY <1>1, LockCountFacts
<1> QED BY <1>1, <1>2, SetFacts

(* Every task has an entry in what is kept of the calls.                   *)
LEMMA CallDomains ==
    ASSUME TypeOK
    PROVE  DOMAIN pc = Task /\ DOMAIN op = Task /\ DOMAIN target = Task
BY DEF TypeOK

-----------------------------------------------------------------------------
(* Counting events.                                                        *)

(* The places of an event in the set.                                      *)
Places(s, m) == {i \in DOMAIN s : s[i] = m}

(* The places are finitely many.                                           *)
LEMMA PlacesAreFinite ==
    ASSUME NEW s \in Seq(Member), NEW m
    PROVE  IsFiniteSet(Places(s, m)) /\ Cardinality(Places(s, m)) \in Nat
<1>1. Places(s, m) \in SUBSET (1..Len(s)) /\ Len(s) \in Nat
  BY LenProperties DEF Places
<1>2. IsFiniteSet(1..Len(s))
  BY <1>1, FS_Interval, 1 \in Int
<1> QED BY <1>1, <1>2, FS_Subset, FS_CardinalityType

(* r is s with n events of k more.                                         *)
IsAppended(r, s, n, k) ==
    /\ r \in Seq(Member) /\ Len(r) = Len(s) + n
    /\ \A m \in Member :
           Cardinality(Places(r, m)) = Cardinality(Places(s, m)) + (IF m = k THEN n ELSE 0)

(* Events more at the end of the set.                                      *)
LEMMA PlacesOfAppended ==
    ASSUME NEW s \in Seq(Member), NEW n \in Nat, NEW k \in Member
    PROVE  IsAppended(s \o [i \in 1..n |-> k], s, n, k)
<1> DEFINE r == s \o [i \in 1..n |-> k]
           new == Len(s) + 1..Len(s) + n
<1>1. Len(s) \in Nat /\ DOMAIN s = 1..Len(s)
  BY LenProperties
<1>2. [i \in 1..n |-> k] \in Seq(Member) /\ Len([i \in 1..n |-> k]) = n
  <2>1. [i \in 1..n |-> k] \in [1..n -> Member]
    OBVIOUS
  <2> QED BY <2>1, SeqDef, LenProperties
<1>3. /\ r \in Seq(Member) /\ Len(r) = Len(s) + n /\ DOMAIN r = 1..Len(s) + n
      /\ \A i \in 1..Len(s) : r[i] = s[i]
      /\ \A i \in new : r[i] = k
  <2>1. r \in Seq(Member) /\ Len(r) = Len(s) + n
    BY <1>1, <1>2, ConcatProperties
  <2>2. \A i \in 1..Len(r) : r[i] = IF i <= Len(s) THEN s[i] ELSE [j \in 1..n |-> k][i - Len(s)]
    BY <1>1, <1>2, ConcatProperties
  <2>3. \A i \in new : i \in 1..Len(s) + n /\ ~(i <= Len(s)) /\ i - Len(s) \in 1..n
    BY <1>1
  <2> QED BY <1>1, <2>1, <2>2, <2>3, LenProperties
<1> HIDE DEF r
<1>4. ASSUME NEW m \in Member, m # k
      PROVE  Cardinality(Places(r, m)) = Cardinality(Places(s, m))
  <2>1. Places(r, m) = Places(s, m)
    BY <1>1, <1>3, <1>4 DEF Places
  <2> QED BY <2>1
<1>5. ASSUME NEW m \in Member, m = k
      PROVE  Cardinality(Places(r, m)) = Cardinality(Places(s, m)) + n
  <2>1. Places(r, m) = Places(s, m) \cup new /\ Places(s, m) \cap new = {}
    BY <1>1, <1>3, <1>5 DEF Places
  <2>2. IsFiniteSet(new) /\ Cardinality(new) = n
    <3>1. Len(s) + 1 \in Int /\ Len(s) + n \in Int
      BY <1>1
    <3>2. /\ IsFiniteSet(new)
          /\ Cardinality(new) = IF Len(s) + 1 > Len(s) + n THEN 0 ELSE (Len(s) + n) - (Len(s) + 1) + 1
      BY <3>1, FS_Interval
    <3> HIDE DEF new
    <3> QED BY <3>2, <1>1
  <2>3. Cardinality(Places(s, m) \cup new)
            = Cardinality(Places(s, m)) + n - Cardinality(Places(s, m) \cap new)
    BY <2>2, PlacesAreFinite, FS_Union
  <2>4. Cardinality(Places(s, m) \cap new) = 0
    BY <2>1, FS_EmptySet
  <2> HIDE DEF new
  <2> QED BY <2>1, <2>3, <2>4, PlacesAreFinite
<1>6. ASSUME NEW m \in Member
      PROVE  Cardinality(Places(r, m)) = Cardinality(Places(s, m)) + (IF m = k THEN n ELSE 0)
  BY <1>4, <1>5, PlacesAreFinite
<1>7. IsAppended(r, s, n, k)
  BY <1>3, <1>6 DEF IsAppended
<1> QED BY <1>7 DEF r

(* The oldest event removed.                                               *)
LEMMA PlacesOfTail ==
    ASSUME NEW s \in Seq(Member), s # <<>>, NEW m \in Member
    PROVE  /\ Head(s) \in Member /\ Tail(s) \in Seq(Member) /\ Len(Tail(s)) = Len(s) - 1
           /\ Len(s) \in Nat \ {0}
           /\ Cardinality(Places(s, m)) =
                  Cardinality(Places(Tail(s), m)) + (IF m = Head(s) THEN 1 ELSE 0)
<1>1. /\ Len(s) \in Nat \ {0} /\ DOMAIN s = 1..Len(s)
      /\ Head(s) = s[1] /\ Head(s) \in Member
      /\ Tail(s) \in Seq(Member) /\ Len(Tail(s)) = Len(s) - 1
      /\ DOMAIN Tail(s) = 1..Len(s) - 1
      /\ \A i \in 1..Len(s) - 1 : Tail(s)[i] = s[i + 1]
  <2>1. Len(s) \in Nat \ {0} /\ DOMAIN s = 1..Len(s)
    BY EmptySeq, LenProperties
  <2>2. /\ Head(s) = s[1] /\ Head(s) \in Member
        /\ Tail(s) \in Seq(Member) /\ Len(Tail(s)) = Len(s) - 1
        /\ \A i \in 1..Len(Tail(s)) : Tail(s)[i] = s[i + 1]
    BY <2>1, HeadTailProperties
  <2> QED BY <2>1, <2>2, LenProperties
<1> DEFINE later == Places(s, m) \ {1}
           back == [i \in Places(Tail(s), m) |-> i + 1]
<1>2. Cardinality(later) = Cardinality(Places(Tail(s), m))
  <2>1. back \in Bijection(Places(Tail(s), m), later)
    <3>1. \A i \in Places(Tail(s), m) : i + 1 \in later /\ i \in Nat
      BY <1>1 DEF Places
    <3>2. \A j \in later : j - 1 \in Places(Tail(s), m) /\ j = (j - 1) + 1
      BY <1>1 DEF Places
    <3>3. back \in [Places(Tail(s), m) -> later]
      BY <3>1
    <3>4. \A i, j \in Places(Tail(s), m) : back[i] = back[j] => i = j
      BY <3>1
    <3>5. \A j \in later : \E i \in Places(Tail(s), m) : back[i] = j
      BY <3>2
    <3> QED BY <3>3, <3>4, <3>5 DEF Bijection, Injection, Surjection, IsInjective
  <2>2. IsFiniteSet(later)
    BY PlacesAreFinite, FS_Subset
  <2>3. IsFiniteSet(Places(Tail(s), m)) /\ ExistsBijection(Places(Tail(s), m), later)
    BY <2>1, <1>1, PlacesAreFinite DEF ExistsBijection
  <2> QED BY <2>3, FS_Bijection
<1> HIDE DEF back
<1>3. CASE m = Head(s)
  <2>1. 1 \in Places(s, m)
    BY <1>1, <1>3 DEF Places
  <2>2. Cardinality(later) = Cardinality(Places(s, m)) - 1
    BY <2>1, PlacesAreFinite, FS_RemoveElement
  <2> QED BY <1>1, <1>2, <1>3, <2>2, PlacesAreFinite
<1>4. CASE m # Head(s)
  <2>1. later = Places(s, m)
    BY <1>1, <1>4 DEF Places
  <2> HIDE DEF later
  <2>2. Cardinality(Places(s, m)) = Cardinality(Places(Tail(s), m))
    BY <1>2, <2>1
  <2> QED BY <1>1, <1>4, <2>2, PlacesAreFinite
<1> QED BY <1>3, <1>4

-----------------------------------------------------------------------------
(* Waking tasks.                                                           *)

(* xTaskRemoveFromEventList takes tasks from one list only and makes each  *)
(* of them ready or pending ready.                                         *)
LEMMA WakeFacts ==
    ASSUME TypeOK, BlockedIsWaiting, uxSchedulerSuspended' = uxSchedulerSuspended,
           NEW l \in EventLists, NEW n \in 0..Len(eventList[l]),
           xTaskRemoveFromEventList(l, n)
    PROVE  /\ eventList' \in [EventLists -> Seq(Task)]
           /\ xStateListItem' \in [Task -> {"ready", "delayed", "suspended"}]
           /\ xPendingReadyList' \in SUBSET Task
           /\ xYieldPending' \in BOOLEAN
           /\ \A k \in EventLists : NoDuplicates(eventList'[k])
           /\ OnList(l)' = OnList(l) \ FirstOf(l, n)
           /\ \A k \in EventLists \ {l} : OnList(k)' = OnList(k)
           /\ \A k \in EventLists : eventList'[k] # <<>> => eventList[k] # <<>>
           /\ eventList'[l] # <<>> => n < Len(eventList[l])
           /\ FirstOf(l, n) \subseteq OnList(l)
           /\ IsFiniteSet(FirstOf(l, n)) /\ Cardinality(FirstOf(l, n)) = n
           /\ Ready' \cup xPendingReadyList' = Ready \cup xPendingReadyList \cup FirstOf(l, n)
           /\ Ready \subseteq Ready'
           /\ \A t \in xPendingReadyList' : t \notin Ready' /\ uxSchedulerSuspended' # 0
<1>1. ListsOK
  BY DEF BlockedIsWaiting, ListsOK, OnList, ToSet, TypeOK, SchedTypeOK
<1> QED BY <1>1, RemoveFromEventListFacts DEF TypeOK

(* No more tasks are woken than the list holds.                            *)
LEMMA NumberWoken ==
    ASSUME TypeOK, NEW l \in EventLists, NEW n \in Nat
    PROVE  Wakes(l, n) \in 0..Len(eventList[l]) /\ Len(eventList[l]) \in Nat
<1>1. Len(eventList[l]) \in Nat
  BY LenProperties DEF TypeOK, SchedTypeOK
<1> QED BY <1>1 DEF Wakes

-----------------------------------------------------------------------------
(* Counting the tasks on their way to the set.                             *)

(* The tasks on their way are finitely many.                               *)
LEMMA RetryingIsFinite ==
    /\ RetryingSelectors \subseteq Task /\ RetryingSelectors' \subseteq Task
    /\ IsFiniteSet(RetryingSelectors) /\ IsFiniteSet(RetryingSelectors')
    /\ Cardinality(RetryingSelectors) \in Nat /\ Cardinality(RetryingSelectors') \in Nat
<1>1. RetryingSelectors \in SUBSET Task /\ RetryingSelectors' \in SUBSET Task
  BY DEF RetryingSelectors
<1> QED BY <1>1, FS_Subset, FS_CardinalityType, TaskAssumption

(* Events stay covered if none is added and no task leaves.                *)
LEMMA CoverageGrows ==
    ASSUME TypeOK, TypeOK', RetryingSelectors \subseteq RetryingSelectors',
           events' = events, LockCount(cTxLock'[Set]) = LockCount(cTxLock[Set]),
           eventList'[Set] # <<>> => eventList[Set] # <<>>, SelectorsNotStranded,
           cTxLock[Set] = NumberOfTasks => cTxLock'[Set] = NumberOfTasks
    PROVE  SelectorsNotStranded'
<1>1. Cardinality(RetryingSelectors) <= Cardinality(RetryingSelectors')
  BY RetryingIsFinite, FS_Subset
<1>2. /\ cTxLock[Set] \in queueUNLOCKED..NumberOfTasks
      /\ Len(events) \in Nat /\ LockCount(cTxLock[Set]) \in Int
  BY LockCountFacts, LenProperties DEF TypeOK
<1> QED BY <1>1, <1>2, RetryingIsFinite DEF SelectorsNotStranded

(* No action takes more than one task off its way.                         *)
LEMMA RetryingWithoutOne ==
    ASSUME NEW t
    PROVE  /\ Cardinality(RetryingSelectors \ {t}) \in Nat
           /\ Cardinality(RetryingSelectors \ {t}) >= Cardinality(RetryingSelectors) - 1
<1>1. CASE t \in RetryingSelectors
  <2>1. Cardinality(RetryingSelectors \ {t}) = Cardinality(RetryingSelectors) - 1
    BY <1>1, RetryingIsFinite, FS_RemoveElement
  <2>2. Cardinality(RetryingSelectors \ {t}) \in Nat
    BY RetryingIsFinite, FS_Subset, FS_CardinalityType
  <2> QED BY <2>1, <2>2, RetryingIsFinite
<1>2. CASE t \notin RetryingSelectors
  <2>1. RetryingSelectors \ {t} = RetryingSelectors
    BY <1>2
  <2> QED BY <2>1, RetryingIsFinite
<1> QED BY <1>1, <1>2

-----------------------------------------------------------------------------
USE DEF At, Running, GoTo

(* A task sends to members, and removes them.                              *)
LEMMA CallTargets ==
    ASSUME CallInv, NEW t \in Task
    PROVE  /\ op[t] \in {"send", "overwrite"} => target[t] \in Member
           /\ op[t] = "overwrite" => uxLength[target[t]] = 1
           /\ op[t] = "remove" => target[t] \in Member
<1>1. Calls[t] \subseteq Member \X {"send", "overwrite"} /\ Removes[t] \subseteq Member
  BY QueueSetAssumption
<1>2. ASSUME NEW c \in Calls[t]
      PROVE  c[1] \in Member /\ (c[2] = "overwrite" => uxLength[c[1]] = 1)
  <2>1. c \in IsrCalls \cup UNION {Calls[u] : u \in Task}
    OBVIOUS
  <2> QED BY <1>1, <2>1, QueueSetAssumption
<1>3. op[t] \in {"send", "overwrite"} => <<target[t], op[t]>> \in Calls[t]
  BY DEF CallInv
<1> QED BY <1>1, <1>2, <1>3 DEF CallInv

(* A woken task is off its list in the step that readies it.               *)
LEMMA WakeKeepsBlockedIsWaiting ==
    ASSUME TypeOK, BlockedIsWaiting, NEW l \in EventLists, NEW n \in 0..Len(eventList[l]),
           xTaskRemoveFromEventList(l, n),
           uxSchedulerSuspended' = uxSchedulerSuspended,
           \A u \in Task \ Ready : target'[u] = target[u]
    PROVE  BlockedIsWaiting'
<1>1. /\ \A k \in EventLists : NoDuplicates(eventList'[k])
      /\ \A t \in xPendingReadyList' : t \notin Ready' /\ uxSchedulerSuspended' # 0
  BY WakeFacts
<1>2. ASSUME NEW t \in Task, NEW k \in EventLists
      PROVE  t \in OnList(k)' <=> t \notin Ready' \cup xPendingReadyList' /\ k = target'[t]
  <2>1. t \in OnList(k) <=> t \notin Ready \cup xPendingReadyList /\ k = target[t]
    BY DEF BlockedIsWaiting
  <2>2. /\ OnList(l)' = OnList(l) \ FirstOf(l, n)
        /\ k # l => OnList(k)' = OnList(k)
        /\ FirstOf(l, n) \subseteq OnList(l)
        /\ Ready' \cup xPendingReadyList' = Ready \cup xPendingReadyList \cup FirstOf(l, n)
    BY WakeFacts
  <2>3. t \in FirstOf(l, n) => l = target[t]
    BY <2>2 DEF BlockedIsWaiting
  <2> QED BY <2>1, <2>2, <2>3
<1> QED BY <1>1, <1>2 DEF BlockedIsWaiting

(* The tasks woken from the set are on their way to it, and so are those   *)
(* that were and stay in their call.                                       *)
LEMMA WokenSelectorsRetry ==
    ASSUME IInv, NEW n \in 0..Len(eventList[Set]), xTaskRemoveFromEventList(Set, n),
           uxSchedulerSuspended' = uxSchedulerSuspended,
           NEW stay \in SUBSET RetryingSelectors,
           \A u \in Task : u \in stay \/ u \notin Ready
                => op'[u] = op[u] /\ (HasPlacedItself(u) => HasPlacedItself(u)')
    PROVE  Cardinality(RetryingSelectors') >= Cardinality(stay) + n
<1>1. Set \in EventLists /\ Set \notin Member
  BY SetFacts
<1>2. /\ OnList(Set)' = OnList(Set) \ FirstOf(Set, n)
      /\ FirstOf(Set, n) \subseteq OnList(Set)
      /\ IsFiniteSet(FirstOf(Set, n)) /\ Cardinality(FirstOf(Set, n)) = n
  BY <1>1, WakeFacts DEF IInv
<1>3. OnList(Set) \subseteq Task
  BY <1>1 DEF OnList, ToSet, IInv, TypeOK, SchedTypeOK
<1>4. ASSUME NEW t \in FirstOf(Set, n)
      PROVE  t \in Task \ Ready /\ op[t] = "select" /\ HasPlacedItself(t) /\ t \notin RetryingSelectors
  <2>1. t \in Task /\ t \in OnList(Set)
    BY <1>2, <1>3
  <2>2. t \notin Ready /\ target[t] = Set
    BY <1>1, <2>1 DEF IInv, BlockedIsWaiting
  <2>3. op[t] \in {"send", "select"} /\ HasPlacedItself(t)
    BY <2>1, <2>2 DEF IInv, BlockedInv
  <2>4. op[t] # "send"
    BY <1>1, <2>1, <2>2, CallTargets DEF IInv
  <2> QED BY <2>1, <2>2, <2>3, <2>4 DEF RetryingSelectors
<1>5. stay \cup FirstOf(Set, n) \subseteq RetryingSelectors'
  <2>1. ASSUME NEW t \in stay
        PROVE  t \in RetryingSelectors'
    BY <1>2 DEF RetryingSelectors
  <2>2. ASSUME NEW t \in FirstOf(Set, n)
        PROVE  t \in RetryingSelectors'
    BY <1>2, <1>4 DEF RetryingSelectors
  <2> QED BY <2>1, <2>2
<1>6. stay \cap FirstOf(Set, n) = {}
  BY <1>4
<1>7. IsFiniteSet(stay) /\ Cardinality(stay) \in Nat
  BY RetryingIsFinite, FS_Subset, FS_CardinalityType
<1>8. Cardinality(stay \cup FirstOf(Set, n)) = Cardinality(stay) + n
  <2>1. Cardinality(stay \cup FirstOf(Set, n))
            = Cardinality(stay) + n - Cardinality(stay \cap FirstOf(Set, n))
    BY <1>2, <1>7, FS_Union
  <2>2. Cardinality(stay \cap FirstOf(Set, n)) = 0
    BY <1>6, FS_EmptySet
  <2> QED BY <2>1, <2>2, <1>7
<1>9. Cardinality(stay \cup FirstOf(Set, n)) <= Cardinality(RetryingSelectors')
  BY <1>5, RetryingIsFinite, FS_Subset
<1> QED BY <1>8, <1>9

(* A step that leaves the lists alone and in which only the running task,  *)
(* being ready, goes on in its call.                                       *)
LEMMA QuietStep ==
    ASSUME IInv, NEW t \in Ready, t = pxCurrentTCB,
           UNCHANGED <<pxCurrentTCB, eventList, xStateListItem, xPendingReadyList>>,
           xPendingReadyList # {} => uxSchedulerSuspended' # 0,
           \A u \in Task \ {t} : /\ pc'[u] = pc[u] /\ op'[u] = op[u]
                                 /\ target'[u] = target[u] /\ after'[u] = after[u]
    PROVE  /\ BlockedIsWaiting' /\ BlockedInv'
           /\ RetryingSelectors \ {t} \subseteq RetryingSelectors'
           /\ t \in RetryingSelectors' <=> op'[t] = "select" /\ HasPlacedItself(t)'
           /\ t \in RetryingSelectors <=> op[t] = "select" /\ HasPlacedItself(t)
<1>1. Ready' = Ready /\ Set \in EventLists /\ t \in Task
  BY SetFacts DEF Ready
<1>2. t \notin OnList(Set) /\ OnList(Set)' = OnList(Set)
  BY <1>1 DEF IInv, BlockedIsWaiting, OnList
<1>3. BlockedIsWaiting'
  BY <1>1 DEF IInv, BlockedIsWaiting, OnList, NoDuplicates
<1>4. ASSUME NEW u \in Task \ {t}
      PROVE  HasPlacedItself(u)' <=> HasPlacedItself(u)
  BY DEF HasPlacedItself
<1> QED BY <1>1, <1>2, <1>3, <1>4 DEF IInv, BlockedInv, RetryingSelectors

-----------------------------------------------------------------------------
(* The items and their events.                                             *)

Accounted == MembersWellUsed => EventsAreExact /\ NoneOutside

(* Events and selections are numbers.                                      *)
LEMMA AccountTypes ==
    ASSUME TypeOK, NEW m \in Member
    PROVE  /\ InSet(m) \in Nat /\ InSet(m) = Cardinality(Places(events, m))
           /\ Selected(m) \in Nat
           /\ LockCount(cTxLock[m]) \in Nat
           /\ uxMessagesWaiting[m] \in Nat /\ uxMessagesWaiting[m] <= uxLength[m]
<1>1. InSet(m) \in Nat /\ InSet(m) = Cardinality(Places(events, m))
  <2>1. events \in Seq(Member)
    BY DEF TypeOK
  <2>2. InSet(m) = Cardinality(Places(events, m))
    BY DEF InSet, Places
  <2> QED BY <2>1, <2>2, PlacesAreFinite
<1>2. Selected(m) \in Nat
  <2>1. {t \in Task : pc[t] = "selected" /\ target[t] = m} \in SUBSET Task
    OBVIOUS
  <2> QED BY <2>1, TaskAssumption, FS_Subset, FS_CardinalityType DEF Selected
<1>3. LockCount(cTxLock[m]) \in Nat
  <2>1. cTxLock[m] \in queueUNLOCKED..NumberOfTasks
    BY DEF TypeOK
  <2> QED BY <2>1, LockCountFacts, SetFacts
<1> QED BY <1>1, <1>2, <1>3 DEF TypeOK

(* Nobody selects or uses a selection.                                     *)
LEMMA SelectedUnchanged ==
    ASSUME \A t \in Task : /\ pc'[t] = "selected" <=> pc[t] = "selected"
                           /\ pc[t] = "selected" => target'[t] = target[t],
           NEW m
    PROVE  Selected(m)' = Selected(m)
<1>1. {t \in Task : pc[t] = "selected" /\ target[t] = m}'
          = {t \in Task : pc[t] = "selected" /\ target[t] = m}
  OBVIOUS
<1> QED BY <1>1 DEF Selected

(* A step that moves no item and no event.                                 *)
LEMMA AccountsKept ==
    ASSUME UNCHANGED <<pxQueueSetContainer, events, uxMessagesWaiting>>,
           \A m \in Member : LockCount(cTxLock'[m]) = LockCount(cTxLock[m]),
           TypeOK,
           \A t \in Task : /\ pc'[t] = "selected" <=> pc[t] = "selected"
                           /\ pc[t] = "selected" => target'[t] = target[t]
                           /\ pc'[t] = "remove" => pc[t] = "remove" /\ target'[t] = target[t]
    PROVE  Accounted => Accounted'
<1>1. \A m \in Member : Selected(m)' = Selected(m) /\ InSet(m)' = InSet(m)
  BY SelectedUnchanged DEF InSet
<1>2. MembersWellUsed' => MembersWellUsed
  BY DEF MembersWellUsed, NumberOfTasks
<1>3. Member \ pxQueueSetContainer' = Member \ pxQueueSetContainer
  OBVIOUS
<1>4. EventsAreExact => EventsAreExact'
  BY <1>1 DEF EventsAreExact, TypeOK
<1>5. NoneOutside => NoneOutside'
  BY <1>1, <1>3 DEF NoneOutside
<1> QED BY <1>2, <1>4, <1>5 DEF Accounted

-----------------------------------------------------------------------------
(* The actions.                                                            *)

USE DEF schedVars, dataVars, lockVars, callVars

(* A running task is ready except between placing itself and yielding.     *)
LEMMA RunsReady ==
    ASSUME IInv, NEW t \in Task, Running(t),
           pc[t] \notin {"unlockTx", "unlockRx", "resume", "yield"}
    PROVE  t \in Ready /\ t = pxCurrentTCB /\ ~pendSV
BY DEF IInv, BlockedInv, HasPlacedItself

(* Outside the scheduler lock no queue is locked.                          *)
LEMMA OutsideLock ==
    ASSUME LockHasOwner, NEW t \in Task, t = pxCurrentTCB, pc[t] \notin HasScheduler,
           pc'[t] \notin HasScheduler, \A u \in Task \ {t} : pc'[u] = pc[u],
           UNCHANGED <<cTxLock, cRxLock, uxSchedulerSuspended, pxCurrentTCB>>
    PROVE  LockHasOwner'
BY DEF LockHasOwner, HasScheduler

(* Nobody is stranded by a set without events.                             *)
LEMMA EmptySetIsCovered ==
    ASSUME TypeOK', events' = <<>>
    PROVE  SelectorsNotStranded'
<1>1. LockCount(cTxLock'[Set]) >= 0 /\ LockCount(cTxLock'[Set]) \in Int
  BY LockCountFacts, SetFacts DEF TypeOK
<1>2. Len(events') = 0
  OBVIOUS
<1>3. LockCount(cTxLock[Set])' = LockCount(cTxLock'[Set])
  BY DEF LockCount, queueLOCKED_UNMODIFIED
<1> QED BY <1>1, <1>2, <1>3, RetryingIsFinite DEF SelectorsNotStranded

(* A call without a block time ends: a selector that leaves found the set  *)
(* empty.                                                                  *)
LEMMA GiveUpKeeps ==
    ASSUME NEW t \in Task, IInv, GiveUp(t) PROVE IInv'
<1> USE DEF IInv, GiveUp, Return
<1>a. t \in Ready /\ t = pxCurrentTCB /\ ~pendSV
  BY RunsReady
<1>1. TypeOK'
  BY DEF TypeOK, SchedTypeOK
<1>2. LockHasOwner'
  BY <1>a, OutsideLock DEF TypeOK, HasScheduler
<1>3. CallInv'
  BY CallDomains DEF CallInv
<1>4. /\ BlockedIsWaiting' /\ BlockedInv'
      /\ RetryingSelectors \ {t} \subseteq RetryingSelectors'
      /\ t \in RetryingSelectors' <=> op'[t] = "select" /\ HasPlacedItself(t)'
      /\ t \in RetryingSelectors <=> op[t] = "select" /\ HasPlacedItself(t)
  <2>1. xPendingReadyList # {} => uxSchedulerSuspended' # 0
    BY DEF BlockedIsWaiting, TypeOK, SchedTypeOK
  <2> QED BY <1>a, <2>1, QuietStep DEF TypeOK
<1>5. SelectorsNotStranded'
  <2>1. CASE op[t] = "select"
    <3>1. events' = <<>>
      BY <2>1 DEF CannotProceed
    <3> QED BY <3>1, <1>1, EmptySetIsCovered
  <2>2. CASE op[t] # "select"
    <3>1. RetryingSelectors \subseteq RetryingSelectors'
      BY <1>4, <2>2
    <3> QED BY <3>1, <1>1, CoverageGrows
  <2> QED BY <2>1, <2>2
<1>6. Accounted'
  <2>1. Accounted
    BY DEF Accounted
  <2> QED BY <2>1, AccountsKept DEF TypeOK
<1> QED BY <1>1, <1>2, <1>3, <1>4, <1>5, <1>6 DEF Accounted

(* So did one that prepares to wait.                                       *)
LEMMA StartWaitingKeeps ==
    ASSUME NEW t \in Task, IInv, StartWaiting(t) PROVE IInv'
<1> USE DEF IInv, StartWaiting
<1>a. t \in Ready /\ t = pxCurrentTCB /\ ~pendSV
  BY RunsReady
<1>1. TypeOK'
  BY DEF TypeOK, SchedTypeOK
<1>2. LockHasOwner'
  BY <1>a, OutsideLock DEF TypeOK, HasScheduler
<1>3. CallInv'
  BY DEF TypeOK, CallInv
<1>4. /\ BlockedIsWaiting' /\ BlockedInv'
      /\ RetryingSelectors \ {t} \subseteq RetryingSelectors'
      /\ t \in RetryingSelectors' <=> op'[t] = "select" /\ HasPlacedItself(t)'
      /\ t \in RetryingSelectors <=> op[t] = "select" /\ HasPlacedItself(t)
  <2>1. xPendingReadyList # {} => uxSchedulerSuspended' # 0
    BY DEF BlockedIsWaiting, TypeOK, SchedTypeOK
  <2> QED BY <1>a, <2>1, QuietStep DEF TypeOK
<1>5. SelectorsNotStranded'
  <2>1. CASE op[t] = "select"
    <3>1. events' = <<>>
      BY <2>1 DEF CannotProceed
    <3> QED BY <3>1, <1>1, EmptySetIsCovered
  <2>2. CASE op[t] # "select"
    <3>1. RetryingSelectors \subseteq RetryingSelectors'
      BY <1>4, <2>2
    <3> QED BY <3>1, <1>1, CoverageGrows
  <2> QED BY <2>1, <2>2
<1>6. Accounted'
  <2>1. Accounted
    BY DEF Accounted
  <2> QED BY <2>1, AccountsKept DEF TypeOK
<1> QED BY <1>1, <1>2, <1>3, <1>4, <1>5, <1>6 DEF Accounted

(* The time-out is noticed with the scheduler suspended.                   *)
LEMMA TimedOutKeeps ==
    ASSUME NEW t \in Task, IInv, TimedOut(t) PROVE IInv'
<1> USE DEF IInv, TimedOut
<1>a. t \in Ready /\ t = pxCurrentTCB /\ ~pendSV
  BY RunsReady
<1>1. TypeOK'
  BY DEF TypeOK, SchedTypeOK
<1>2. LockHasOwner'
  BY <1>a DEF TypeOK, LockHasOwner, HasScheduler
<1>3. CallInv'
  BY DEF TypeOK, CallInv
<1>4. /\ BlockedIsWaiting' /\ BlockedInv'
      /\ RetryingSelectors \ {t} \subseteq RetryingSelectors'
      /\ t \in RetryingSelectors' <=> op'[t] = "select" /\ HasPlacedItself(t)'
      /\ t \in RetryingSelectors <=> op[t] = "select" /\ HasPlacedItself(t)
  <2>1. xPendingReadyList # {} => uxSchedulerSuspended' # 0
    BY DEF BlockedIsWaiting, TypeOK, SchedTypeOK
  <2> QED BY <1>a, <2>1, QuietStep DEF TypeOK
<1>5. SelectorsNotStranded'
  <2>1. RetryingSelectors \subseteq RetryingSelectors'
    BY <1>4 DEF HasPlacedItself, TypeOK
  <2> QED BY <2>1, <1>1, CoverageGrows
<1>6. Accounted'
  <2>1. Accounted
    BY DEF Accounted
  <2> QED BY <2>1, AccountsKept DEF TypeOK
<1> QED BY <1>1, <1>2, <1>3, <1>4, <1>5, <1>6 DEF Accounted

(* The set or the member has changed since the first critical section.     *)
LEMMA TryAgainKeeps ==
    ASSUME NEW t \in Task, IInv, TryAgain(t) PROVE IInv'
<1> USE DEF IInv, TryAgain
<1>a. t \in Ready /\ t = pxCurrentTCB /\ ~pendSV
  BY RunsReady
<1>1. TypeOK'
  BY DEF TypeOK, SchedTypeOK
<1>2. LockHasOwner'
  BY <1>a DEF TypeOK, LockHasOwner, HasScheduler
<1>3. CallInv'
  BY DEF TypeOK, CallInv
<1>4. /\ BlockedIsWaiting' /\ BlockedInv'
      /\ RetryingSelectors \ {t} \subseteq RetryingSelectors'
      /\ t \in RetryingSelectors' <=> op'[t] = "select" /\ HasPlacedItself(t)'
      /\ t \in RetryingSelectors <=> op[t] = "select" /\ HasPlacedItself(t)
  <2>1. xPendingReadyList # {} => uxSchedulerSuspended' # 0
    BY DEF BlockedIsWaiting, TypeOK, SchedTypeOK
  <2> QED BY <1>a, <2>1, QuietStep DEF TypeOK
<1>5. SelectorsNotStranded'
  <2>1. RetryingSelectors \subseteq RetryingSelectors'
    BY <1>4 DEF HasPlacedItself, TypeOK
  <2> QED BY <2>1, <1>1, CoverageGrows
<1>6. Accounted'
  <2>1. Accounted
    BY DEF Accounted
  <2> QED BY <2>1, AccountsKept DEF TypeOK
<1> QED BY <1>1, <1>2, <1>3, <1>4, <1>5, <1>6 DEF Accounted

(* After a time-out a selector leaves only an empty set.                   *)
LEMMA RetestKeeps ==
    ASSUME NEW t \in Task, IInv, Retest(t) PROVE IInv'
<1> USE DEF IInv, Retest
<1>a. t \in Ready /\ t = pxCurrentTCB /\ ~pendSV
  BY RunsReady
<1>b. \/ Return(t)
      \/ GoTo(t, "enter") /\ UNCHANGED <<op, target, xTicksToWait, after, deadline>>
  OBVIOUS
<1>1. TypeOK'
  <2>1. CASE Return(t)
    BY <2>1 DEF Return, TypeOK, SchedTypeOK
  <2>2. CASE GoTo(t, "enter") /\ UNCHANGED <<op, target, xTicksToWait, after, deadline>>
    BY <2>2 DEF TypeOK, SchedTypeOK
  <2> QED BY <1>b, <2>1, <2>2
<1>2. LockHasOwner'
  BY <1>a, OutsideLock DEF Return, TypeOK, HasScheduler
<1>3. CallInv'
  <2>1. CASE Return(t)
    BY <2>1, CallDomains DEF Return, CallInv
  <2>2. CASE GoTo(t, "enter") /\ UNCHANGED <<op, target, xTicksToWait, after, deadline>>
    BY <2>2 DEF TypeOK, CallInv
  <2> QED BY <1>b, <2>1, <2>2
<1>4. /\ BlockedIsWaiting' /\ BlockedInv'
      /\ RetryingSelectors \ {t} \subseteq RetryingSelectors'
      /\ t \in RetryingSelectors' <=> op'[t] = "select" /\ HasPlacedItself(t)'
      /\ t \in RetryingSelectors <=> op[t] = "select" /\ HasPlacedItself(t)
  <2>1. xPendingReadyList # {} => uxSchedulerSuspended' # 0
    BY DEF BlockedIsWaiting, TypeOK, SchedTypeOK
  <2> QED BY <1>a, <2>1, QuietStep DEF Return, TypeOK
<1>5. SelectorsNotStranded'
  <2>1. RetryingSelectors \subseteq RetryingSelectors'
    BY <1>4 DEF Return, HasPlacedItself, TypeOK
  <2> QED BY <2>1, <1>1, CoverageGrows
<1>6. Accounted'
  <2>1. Accounted
    BY DEF Accounted
  <2> QED BY <2>1, AccountsKept DEF Return, TypeOK
<1> QED BY <1>1, <1>2, <1>3, <1>4, <1>5, <1>6 DEF Accounted

(* Locking an unlocked queue counts nothing yet.                           *)
LEMMA LockKeeps ==
    ASSUME NEW t \in Task, IInv, Lock(t) PROVE IInv'
<1> USE DEF IInv, Lock
<1>a. t \in Ready /\ t = pxCurrentTCB /\ ~pendSV
  BY RunsReady
<1>b. /\ cTxLock' \in [Member \cup {Set} -> queueUNLOCKED..NumberOfTasks]
      /\ cRxLock' \in [Member -> queueUNLOCKED..NumberOfTasks]
      /\ \A q \in Member \cup {Set} : LockCount(cTxLock'[q]) = LockCount(cTxLock[q])
      /\ cTxLock[Set] = NumberOfTasks => cTxLock'[Set] = NumberOfTasks
  <2>1. ASSUME NEW q \in Member \cup {Set}
        PROVE  /\ cTxLock'[q] \in queueUNLOCKED..NumberOfTasks
               /\ LockCount(cTxLock'[q]) = LockCount(cTxLock[q])
               /\ cTxLock[q] = NumberOfTasks => cTxLock'[q] = NumberOfTasks
    <3>1. cTxLock[q] \in queueUNLOCKED..NumberOfTasks
      BY DEF TypeOK
    <3>2. cTxLock'[q] = cTxLock[q] \/ cTxLock'[q] = LockOnce(cTxLock[q])
      BY DEF TypeOK
    <3>3. cTxLock[q] = NumberOfTasks => LockOnce(cTxLock[q]) = cTxLock[q]
      BY SetFacts DEF LockOnce, queueUNLOCKED
    <3> QED BY <3>1, <3>2, <3>3, LockCountFacts
  <2>2. \A m \in Member : LockOnce(cRxLock[m]) \in queueUNLOCKED..NumberOfTasks
    BY LockCountFacts DEF TypeOK
  <2>3. cTxLock' \in [Member \cup {Set} -> queueUNLOCKED..NumberOfTasks]
    BY <2>1 DEF TypeOK
  <2> QED BY <2>1, <2>2, <2>3 DEF TypeOK
<1>c. uxSchedulerSuspended' = 1 /\ uxSchedulerSuspended' \in 0..MaxNesting
  BY <1>a, TaskAssumption DEF LockHasOwner, HasScheduler, vTaskSuspendAll, TypeOK, SchedTypeOK
<1>1. TypeOK'
  BY <1>b, <1>c DEF TypeOK, SchedTypeOK
<1>2. LockHasOwner'
  BY <1>a, <1>b, <1>c, SetFacts, QueueSetAssumption DEF TypeOK, LockHasOwner, HasScheduler, vTaskSuspendAll, LockOnce, queueUNLOCKED, queueLOCKED_UNMODIFIED
<1>3. CallInv'
  BY DEF TypeOK, CallInv
<1>4. /\ BlockedIsWaiting' /\ BlockedInv'
      /\ RetryingSelectors \ {t} \subseteq RetryingSelectors'
      /\ t \in RetryingSelectors' <=> op'[t] = "select" /\ HasPlacedItself(t)'
      /\ t \in RetryingSelectors <=> op[t] = "select" /\ HasPlacedItself(t)
  <2>1. xPendingReadyList # {} => uxSchedulerSuspended' # 0
    BY <1>c
  <2> QED BY <1>a, <2>1, QuietStep DEF TypeOK
<1>5. SelectorsNotStranded'
  <2>1. RetryingSelectors \subseteq RetryingSelectors'
    BY <1>4 DEF HasPlacedItself, TypeOK
  <2> QED BY <1>b, <2>1, <1>1, CoverageGrows, SetFacts
<1>6. Accounted'
  <2>1. Accounted
    BY DEF Accounted
  <2> QED BY <1>b, <2>1, AccountsKept DEF TypeOK
<1> QED BY <1>1, <1>2, <1>3, <1>4, <1>5, <1>6 DEF Accounted

(* The task asks for the switch that takes the processor from it.          *)
LEMMA YieldWithinApiKeeps ==
    ASSUME NEW t \in Task, IInv, YieldWithinApi(t) PROVE IInv'
<1> USE DEF IInv, YieldWithinApi
<1>1. TypeOK'
  BY DEF TypeOK, SchedTypeOK
<1>2. LockHasOwner'
  BY OutsideLock DEF TypeOK, HasScheduler
<1>3. CallInv'
  BY DEF TypeOK, CallInv
<1>4. BlockedIsWaiting' /\ Ready' = Ready
  BY DEF BlockedIsWaiting, OnList, NoDuplicates, Ready
<1>5. BlockedInv'
  BY <1>4 DEF TypeOK, BlockedInv, HasPlacedItself
<1>6. SelectorsNotStranded'
  <2>1. RetryingSelectors \subseteq RetryingSelectors'
    BY DEF RetryingSelectors, HasPlacedItself, OnList, TypeOK
  <2> QED BY <2>1, <1>1, CoverageGrows
<1>7. Accounted'
  <2>1. Accounted
    BY DEF Accounted
  <2> QED BY <2>1, AccountsKept DEF TypeOK
<1> QED BY <1>1, <1>2, <1>3, <1>4, <1>5, <1>6, <1>7 DEF Accounted

(* A call begins.                                                          *)
LEMMA CallKeeps ==
    ASSUME NEW t \in Task, IInv, Call(t) PROVE IInv'
<1> USE DEF IInv
<1>a. t \in Ready /\ t = pxCurrentTCB /\ ~pendSV
  BY RunsReady DEF Call
<1>b. PICK o \in {"send", "overwrite", "select"}, q \in Member \cup {Set} :
          /\ Begin(t, "enter", o, q)
          /\ o # "select" => <<q, o>> \in Calls[t]
          /\ o = "select" => q = Set
  <2>1. ASSUME NEW c \in Calls[t]
        PROVE  c[1] \in Member /\ c[2] \in {"send", "overwrite"} /\ c = <<c[1], c[2]>>
    BY QueueSetAssumption
  <2> QED BY <2>1 DEF Call
<1>c. PICK w \in Waits : xTicksToWait' = [xTicksToWait EXCEPT ![t] = w]
  BY DEF Call
<1>d. /\ pc[t] = "app" /\ pc' = [pc EXCEPT ![t] = "enter"] /\ op' = [op EXCEPT ![t] = o]
      /\ target' = [target EXCEPT ![t] = q] /\ after' = after
      /\ UNCHANGED <<schedVars, dataVars, lockVars>>
  BY <1>b DEF Begin, Call
<1>1. TypeOK'
  <2>1. xTicksToWait' \in [Task -> {"zero", "ticks", "max"}]
    BY <1>c, QueueSetAssumption DEF TypeOK
  <2>2. SchedTypeOK'
    BY <1>d DEF TypeOK, SchedTypeOK
  <2> QED BY <1>d, <2>1, <2>2 DEF TypeOK
<1>2. LockHasOwner'
  BY <1>a, <1>d, OutsideLock DEF TypeOK, HasScheduler
<1>3. CallInv'
  BY <1>b, <1>d DEF TypeOK, CallInv
<1>4. /\ BlockedIsWaiting' /\ BlockedInv'
      /\ RetryingSelectors \ {t} \subseteq RetryingSelectors'
      /\ t \in RetryingSelectors' <=> op'[t] = "select" /\ HasPlacedItself(t)'
      /\ t \in RetryingSelectors <=> op[t] = "select" /\ HasPlacedItself(t)
  <2>1. xPendingReadyList # {} => uxSchedulerSuspended' # 0
    BY <1>d DEF BlockedIsWaiting, TypeOK, SchedTypeOK
  <2> QED BY <1>a, <1>d, <2>1, QuietStep DEF TypeOK
<1>5. SelectorsNotStranded'
  <2>1. RetryingSelectors \subseteq RetryingSelectors'
    BY <1>d, <1>4 DEF HasPlacedItself, TypeOK
  <2> QED BY <1>d, <2>1, <1>1, CoverageGrows
<1>6. Accounted'
  <2>1. Accounted
    BY DEF Accounted
  <2> QED BY <1>d, <2>1, AccountsKept DEF TypeOK
<1> QED BY <1>1, <1>2, <1>3, <1>4, <1>5, <1>6 DEF Accounted

(* Removing a member begins with the test that it is empty.                *)
LEMMA TestEmptyKeeps ==
    ASSUME NEW t \in Task, IInv, TestEmpty(t) PROVE IInv'
<1> USE DEF IInv
<1>a. t \in Ready /\ t = pxCurrentTCB /\ ~pendSV
  BY RunsReady DEF TestEmpty
<1>b. PICK m \in Removes[t] \cap pxQueueSetContainer :
          uxMessagesWaiting[m] = 0 /\ Begin(t, "remove", "remove", m)
  BY DEF TestEmpty
<1>c. /\ pc[t] = "app" /\ pc' = [pc EXCEPT ![t] = "remove"] /\ op' = [op EXCEPT ![t] = "remove"]
      /\ target' = [target EXCEPT ![t] = m] /\ after' = after
      /\ UNCHANGED <<schedVars, dataVars, lockVars, xTicksToWait>>
  BY <1>b DEF Begin, TestEmpty
<1>1. TypeOK'
  <2>1. m \in Member
    BY QueueSetAssumption
  <2>2. SchedTypeOK'
    BY <1>c DEF TypeOK, SchedTypeOK
  <2> QED BY <1>c, <2>1, <2>2 DEF TypeOK
<1>2. LockHasOwner'
  BY <1>a, <1>c, OutsideLock DEF TypeOK, HasScheduler
<1>3. CallInv'
  BY <1>c DEF TypeOK, CallInv
<1>4. /\ BlockedIsWaiting' /\ BlockedInv'
      /\ RetryingSelectors \ {t} \subseteq RetryingSelectors'
      /\ t \in RetryingSelectors' <=> op'[t] = "select" /\ HasPlacedItself(t)'
      /\ t \in RetryingSelectors <=> op[t] = "select" /\ HasPlacedItself(t)
  <2>1. xPendingReadyList # {} => uxSchedulerSuspended' # 0
    BY <1>c DEF BlockedIsWaiting, TypeOK, SchedTypeOK
  <2> QED BY <1>a, <1>c, <2>1, QuietStep DEF TypeOK
<1>5. SelectorsNotStranded'
  <2>1. RetryingSelectors \subseteq RetryingSelectors'
    BY <1>c, <1>4 DEF HasPlacedItself, TypeOK
  <2> QED BY <1>c, <2>1, <1>1, CoverageGrows
<1>6. ASSUME MembersWellUsed
      PROVE  EventsAreExact' /\ NoneOutside'
  <2>1. \A k \in Member : Selected(k)' = Selected(k) /\ InSet(k)' = InSet(k)
    BY <1>c, SelectedUnchanged DEF InSet, TypeOK
  <2>2. EventsAreExact'
    BY <1>6, <1>c, <2>1 DEF EventsAreExact, TypeOK
  <2>3. NoneOutside'
    BY <1>6, <1>b, <1>c, <2>1 DEF NoneOutside, TypeOK
  <2> QED BY <2>2, <2>3
<1> QED BY <1>1, <1>2, <1>3, <1>4, <1>5, <1>6 DEF MembersWellUsed

(* An empty member that is removed has no event left.                      *)
LEMMA xQueueRemoveFromSetKeeps ==
    ASSUME NEW t \in Task, IInv, xQueueRemoveFromSet(t) PROVE IInv'
<1> USE DEF IInv, xQueueRemoveFromSet, Return
<1>a. t \in Ready /\ t = pxCurrentTCB /\ ~pendSV
  BY RunsReady
<1>b. target[t] \in Removes[t] /\ target[t] \in Member
  BY QueueSetAssumption DEF CallInv
<1>1. TypeOK'
  BY DEF TypeOK, SchedTypeOK
<1>2. LockHasOwner'
  BY <1>a, OutsideLock DEF TypeOK, HasScheduler
<1>3. CallInv'
  BY <1>b, CallDomains DEF CallInv
<1>4. /\ BlockedIsWaiting' /\ BlockedInv'
      /\ RetryingSelectors \ {t} \subseteq RetryingSelectors'
      /\ t \in RetryingSelectors' <=> op'[t] = "select" /\ HasPlacedItself(t)'
      /\ t \in RetryingSelectors <=> op[t] = "select" /\ HasPlacedItself(t)
  <2>1. xPendingReadyList # {} => uxSchedulerSuspended' # 0
    BY DEF BlockedIsWaiting, TypeOK, SchedTypeOK
  <2> QED BY <1>a, <2>1, QuietStep DEF TypeOK
<1>5. SelectorsNotStranded'
  <2>1. RetryingSelectors \subseteq RetryingSelectors'
    BY <1>4 DEF HasPlacedItself, TypeOK
  <2> QED BY <2>1, <1>1, CoverageGrows
<1>6. ASSUME MembersWellUsed
      PROVE  EventsAreExact' /\ NoneOutside'
  <2>1. \A k \in Member : Selected(k)' = Selected(k) /\ InSet(k)' = InSet(k)
    BY SelectedUnchanged DEF InSet, TypeOK
  <2>2. EventsAreExact'
    BY <1>6, <2>1 DEF EventsAreExact, TypeOK
  <2>3. InSet(target[t]) = 0 /\ LockCount(cTxLock[target[t]]) = 0 /\ Selected(target[t]) = 0
    <3>1. uxMessagesWaiting[target[t]] = 0
      BY <1>6 DEF NoneOutside
    <3>2. CASE target[t] \in pxQueueSetContainer
      BY <1>6, <1>b, <3>1, <3>2, AccountTypes DEF EventsAreExact
    <3>3. CASE target[t] \notin pxQueueSetContainer
      BY <1>6, <1>b, <3>3 DEF NoneOutside
    <3> QED BY <3>2, <3>3
  <2>4. NoneOutside'
    BY <1>6, <1>b, <2>1, <2>3 DEF NoneOutside, TypeOK
  <2> QED BY <2>2, <2>4
<1> QED BY <1>1, <1>2, <1>3, <1>4, <1>5, <1>6 DEF MembersWellUsed

(* Nor has one that is added.                                              *)
LEMMA xQueueAddToSetKeeps ==
    ASSUME NEW t \in Task, IInv, xQueueAddToSet(t) PROVE IInv'
<1> USE DEF IInv
<1>b. PICK m \in Removes[t] \ pxQueueSetContainer :
          uxMessagesWaiting[m] = 0 /\ pxQueueSetContainer' = pxQueueSetContainer \cup {m}
  BY DEF xQueueAddToSet
<1>c. UNCHANGED <<schedVars, uxMessagesWaiting, events, lockVars, callVars>> /\ m \in Member
  BY QueueSetAssumption DEF xQueueAddToSet
<1>1. TypeOK'
  BY <1>b, <1>c DEF TypeOK, SchedTypeOK
<1>2. LockHasOwner' /\ CallInv' /\ BlockedIsWaiting' /\ BlockedInv'
  BY <1>c
     DEF LockHasOwner, CallInv, BlockedIsWaiting, BlockedInv, HasPlacedItself, OnList,
         NoDuplicates, Ready
<1>5. SelectorsNotStranded'
  <2>1. RetryingSelectors \subseteq RetryingSelectors'
    BY <1>c DEF RetryingSelectors, HasPlacedItself, OnList
  <2> QED BY <1>c, <2>1, <1>1, CoverageGrows
<1>6. ASSUME MembersWellUsed
      PROVE  EventsAreExact' /\ NoneOutside'
  <2>1. \A k \in Member : Selected(k)' = Selected(k) /\ InSet(k)' = InSet(k)
    BY <1>c, SelectedUnchanged DEF InSet
  <2>2. InSet(m) = 0 /\ LockCount(cTxLock[m]) = 0 /\ Selected(m) = 0
    BY <1>6, <1>c DEF NoneOutside
  <2>3. EventsAreExact'
    BY <1>6, <1>b, <1>c, <2>1, <2>2 DEF EventsAreExact, TypeOK
  <2>4. NoneOutside'
    BY <1>6, <1>b, <1>c, <2>1 DEF NoneOutside
  <2> QED BY <2>3, <2>4
<1> QED BY <1>1, <1>2, <1>5, <1>6 DEF MembersWellUsed

(* An event less in the set, a selected member more.                       *)
LEMMA SelectItemKeeps ==
    ASSUME NEW t \in Task, IInv, SelectItem(t) PROVE IInv'
<1> USE DEF IInv, SelectItem
<1>a. t \in Ready /\ t = pxCurrentTCB /\ ~pendSV
  BY RunsReady
<1>b. /\ events \in Seq(Member) /\ events # <<>>
      /\ Head(events) \in Member /\ events' \in Seq(Member)
      /\ Len(events) \in Nat /\ Len(events') = Len(events) - 1
  BY PlacesOfTail DEF CannotProceed, TypeOK
<1>1. TypeOK'
  BY <1>b DEF TypeOK, SchedTypeOK
<1>2. LockHasOwner'
  BY <1>a, OutsideLock DEF TypeOK, HasScheduler
<1>3. CallInv'
  BY <1>b, CallDomains DEF CallInv
<1>4. /\ BlockedIsWaiting' /\ BlockedInv'
      /\ RetryingSelectors \ {t} \subseteq RetryingSelectors'
  <2>1. xPendingReadyList # {} => uxSchedulerSuspended' # 0
    BY DEF BlockedIsWaiting, TypeOK, SchedTypeOK
  <2> QED BY <1>a, <2>1, QuietStep DEF TypeOK
<1>5. SelectorsNotStranded'
  <2>1. Cardinality(RetryingSelectors') >= Cardinality(RetryingSelectors) - 1
    <3>1. Cardinality(RetryingSelectors \ {t}) <= Cardinality(RetryingSelectors')
      BY <1>4, RetryingIsFinite, FS_Subset
    <3>2. /\ Cardinality(RetryingSelectors \ {t}) \in Nat
          /\ Cardinality(RetryingSelectors \ {t}) >= Cardinality(RetryingSelectors) - 1
      BY RetryingWithoutOne
    <3> QED BY <3>1, <3>2, RetryingIsFinite
  <2>2. cTxLock[Set] \in queueUNLOCKED..NumberOfTasks /\ LockCount(cTxLock[Set]) \in Int
    BY LockTypes, SetFacts
  <2> QED BY <1>b, <2>1, <2>2, RetryingIsFinite DEF SelectorsNotStranded
<1>6. ASSUME MembersWellUsed
      PROVE  EventsAreExact' /\ NoneOutside'
  <2>1. ASSUME NEW m \in Member
        PROVE  /\ InSet(m) = InSet(m)' + (IF m = Head(events) THEN 1 ELSE 0)
               /\ Selected(m)' = Selected(m) + (IF m = Head(events) THEN 1 ELSE 0)
               /\ InSet(m)' \in Nat
    <3>1. InSet(m) = InSet(m)' + (IF m = Head(events) THEN 1 ELSE 0) /\ InSet(m)' \in Nat
      <4>1. InSet(m) = Cardinality(Places(events, m)) /\ InSet(m)' = Cardinality(Places(events', m))
        BY DEF InSet, Places
      <4>2. events' = Tail(events)
        OBVIOUS
      <4>3. Cardinality(Places(events, m)) =
                Cardinality(Places(Tail(events), m)) + (IF m = Head(events) THEN 1 ELSE 0)
        BY <1>b, PlacesOfTail
      <4>4. Cardinality(Places(events', m)) \in Nat
        BY <1>b, PlacesAreFinite
      <4> QED BY <4>1, <4>2, <4>3, <4>4
    <3>2. CASE m # Head(events)
      <4>1. {u \in Task : pc[u] = "selected" /\ target[u] = m}'
                = {u \in Task : pc[u] = "selected" /\ target[u] = m}
        BY <3>2 DEF TypeOK
      <4>2. Selected(m)' = Selected(m) /\ Selected(m) \in Nat
        BY <4>1, AccountTypes DEF Selected
      <4> QED BY <3>1, <3>2, <4>2
    <3>3. CASE m = Head(events)
      <4> DEFINE S == {u \in Task : pc[u] = "selected" /\ target[u] = m}
      <4>1. {u \in Task : pc[u] = "selected" /\ target[u] = m}' = S \cup {t} /\ t \notin S
        BY <3>3 DEF TypeOK
      <4>2. IsFiniteSet(S)
        BY TaskAssumption, FS_Subset
      <4>3. Cardinality(S \cup {t}) = Cardinality(S) + 1
        BY <4>1, <4>2, FS_AddElement
      <4>4. Selected(m)' = Cardinality(S \cup {t}) /\ Selected(m) = Cardinality(S)
        BY <4>1 DEF Selected
      <4> QED BY <3>1, <3>3, <4>3, <4>4
    <3> QED BY <3>2, <3>3, <3>1
  <2>2. EventsAreExact'
    <3>1. ASSUME NEW m \in pxQueueSetContainer
          PROVE  uxMessagesWaiting[m] = InSet(m)' + LockCount(cTxLock[m])' + Selected(m)'
      <4>1. m \in Member
        BY DEF TypeOK
      <4>2. uxMessagesWaiting[m] = InSet(m) + LockCount(cTxLock[m]) + Selected(m)
        BY <1>6 DEF EventsAreExact
      <4>3. LockCount(cTxLock[m])' = LockCount(cTxLock[m])
        BY DEF LockCount
      <4> QED BY <2>1, <4>1, <4>2, <4>3, AccountTypes
    <3> QED BY <3>1 DEF EventsAreExact
  <2>3. NoneOutside'
    <3>1. ASSUME NEW m \in Member \ pxQueueSetContainer
          PROVE  InSet(m)' = 0 /\ Selected(m)' = 0
      <4>1. InSet(m) = 0 /\ Selected(m) = 0
        BY <1>6 DEF NoneOutside
      <4> QED BY <2>1, <4>1
    <3> QED BY <1>6, <3>1 DEF NoneOutside, TypeOK
  <2> QED BY <2>2, <2>3
<1> QED BY <1>1, <1>2, <1>3, <1>4, <1>5, <1>6 DEF MembersWellUsed

-----------------------------------------------------------------------------
(* The actions that wake tasks.                                            *)

(* The tasks that sleep, and those on their way to the set, stay in their  *)
(* calls.                                                                  *)
OthersStay ==
    /\ UNCHANGED <<pxCurrentTCB, uxSchedulerSuspended>>
    /\ \A u \in Task : u \notin Ready \/ u \in RetryingSelectors =>
           op'[u] = op[u] /\ target'[u] = target[u] /\ (HasPlacedItself(u) => HasPlacedItself(u)')
    /\ \A u \in Task \ Ready : u = pxCurrentTCB /\ pc'[u] = "enter" => pendSV'

(* Waking a sender of a member.                                            *)
LEMMA MemberWake ==
    ASSUME IInv, OthersStay, NEW m \in Member, NEW k \in Nat,
           xTaskRemoveFromEventList(m, Wakes(m, k))
    PROVE  /\ eventList' \in [EventLists -> Seq(Task)]
           /\ xStateListItem' \in [Task -> {"ready", "delayed", "suspended"}]
           /\ xPendingReadyList' \in SUBSET Task /\ xYieldPending' \in BOOLEAN
           /\ BlockedIsWaiting' /\ BlockedInv'
           /\ eventList'[Set] = eventList[Set]
           /\ RetryingSelectors \subseteq RetryingSelectors'
<1> DEFINE n == Wakes(m, k)
<1> USE DEF IInv, OthersStay
<1>1. m \in EventLists /\ Set \in EventLists /\ m # Set
  BY SetFacts
<1>2. n \in 0..Len(eventList[m])
  BY <1>1, NumberWoken
<1> HIDE DEF n
<1>3. xTaskRemoveFromEventList(m, n)
  BY DEF n
<1>4. /\ eventList' \in [EventLists -> Seq(Task)]
      /\ xStateListItem' \in [Task -> {"ready", "delayed", "suspended"}]
      /\ xPendingReadyList' \in SUBSET Task /\ xYieldPending' \in BOOLEAN
      /\ Ready \subseteq Ready'
  BY <1>1, <1>2, <1>3, WakeFacts
<1>5. BlockedIsWaiting'
  BY <1>1, <1>2, <1>3, WakeKeepsBlockedIsWaiting
<1>6. BlockedInv'
  BY <1>4 DEF BlockedInv
<1>7. eventList'[Set] = eventList[Set]
  BY <1>1, <1>3 DEF xTaskRemoveFromEventList, TypeOK, SchedTypeOK
<1>8. RetryingSelectors \subseteq RetryingSelectors'
  BY <1>7 DEF RetryingSelectors, OnList
<1> QED BY <1>4, <1>5, <1>6, <1>7, <1>8

(* Putting n events into the set: each wakes a selector, or there is none  *)
(* left, or the lock of the set counts it.                                 *)
LEMMA NotifyFacts ==
    ASSUME IInv, OthersStay, NEW m \in Member, NEW n \in Nat,
           NEW lock \in [Member \cup {Set} -> queueUNLOCKED..NumberOfTasks],
           lock[Set] = cTxLock[Set],
           prvNotifyQueueSetContainer(m, n, lock)
    PROVE  /\ eventList' \in [EventLists -> Seq(Task)]
           /\ xStateListItem' \in [Task -> {"ready", "delayed", "suspended"}]
           /\ xPendingReadyList' \in SUBSET Task /\ xYieldPending' \in BOOLEAN
           /\ BlockedIsWaiting' /\ BlockedInv'
           /\ events' \in Seq(Member)
           /\ cTxLock' \in [Member \cup {Set} -> queueUNLOCKED..NumberOfTasks]
           /\ \A k \in Member : cTxLock'[k] = lock[k]
           /\ cTxLock'[Set] = queueUNLOCKED <=> cTxLock[Set] = queueUNLOCKED
           /\ cTxLock[Set] = queueUNLOCKED => cTxLock' = lock
           /\ SelectorsNotStranded'
           /\ \A k \in Member : InSet(k)' = InSet(k) + (IF k = m THEN n ELSE 0)
<1> DEFINE w == IF cTxLock[Set] = queueUNLOCKED THEN Wakes(Set, n) ELSE 0
<1> USE DEF IInv, OthersStay
<1>1. /\ Set \in EventLists /\ Set \notin Member /\ NumberOfTasks \in Nat \ {0}
      /\ queueUNLOCKED = -1
  BY SetFacts DEF queueUNLOCKED
<1>2. w \in 0..Len(eventList[Set]) /\ Len(eventList[Set]) \in Nat
  <2>1. Wakes(Set, n) \in 0..Len(eventList[Set]) /\ Len(eventList[Set]) \in Nat
    BY <1>1, NumberWoken
  <2> QED BY <2>1
<1>3. xTaskRemoveFromEventList(Set, w)
  BY DEF prvNotifyQueueSetContainer
<1>4. cTxLock[Set] = queueUNLOCKED /\ w # n => w = Len(eventList[Set])
  BY <1>1 DEF Wakes
<1>5. cTxLock[Set] # queueUNLOCKED => w = 0
  OBVIOUS
<1> HIDE DEF w
<1>6. /\ eventList' \in [EventLists -> Seq(Task)]
      /\ xStateListItem' \in [Task -> {"ready", "delayed", "suspended"}]
      /\ xPendingReadyList' \in SUBSET Task /\ xYieldPending' \in BOOLEAN
      /\ Ready \subseteq Ready'
      /\ eventList'[Set] # <<>> => eventList[Set] # <<>> /\ w < Len(eventList[Set])
  BY <1>1, <1>2, <1>3, WakeFacts
<1>7. BlockedIsWaiting'
  BY <1>1, <1>2, <1>3, WakeKeepsBlockedIsWaiting
<1>8. BlockedInv'
  BY <1>6 DEF BlockedInv
<1>9. /\ events \in Seq(Member) /\ events' = events \o [i \in 1..n |-> m]
      /\ Len(events) \in Nat
  BY LenProperties DEF prvNotifyQueueSetContainer, TypeOK
<1>10. /\ events' \in Seq(Member) /\ Len(events') = Len(events) + n
       /\ \A k \in Member : InSet(k)' = InSet(k) + (IF k = m THEN n ELSE 0)
  <2>1. ASSUME NEW k \in Member
        PROVE  /\ events' \in Seq(Member) /\ Len(events') = Len(events) + n
               /\ Cardinality(Places(events', k)) =
                      Cardinality(Places(events, k)) + (IF k = m THEN n ELSE 0)
    <3>1. IsAppended(events \o [i \in 1..n |-> m], events, n, m)
      BY <1>9, PlacesOfAppended
    <3>2. IsAppended(events', events, n, m)
      BY <1>9, <3>1, Zenon
    <3> QED BY <3>2 DEF IsAppended
  <2> QED BY <2>1 DEF InSet, Places
<1>11. CASE cTxLock[Set] = queueUNLOCKED
  <2>1. cTxLock' = lock
    BY <1>11 DEF prvNotifyQueueSetContainer
  <2>2. ASSUME eventList'[Set] # <<>>
        PROVE  Len(events') <= Cardinality(RetryingSelectors') + LockCount(cTxLock'[Set])
    <3>1. w = n
      BY <1>2, <1>4, <1>6, <1>11, <2>2
    <3>2. Cardinality(RetryingSelectors') >= Cardinality(RetryingSelectors) + n
      BY <1>2, <1>3, <3>1, WokenSelectorsRetry
    <3>3. LockCount(cTxLock[Set]) = 0 /\ cTxLock[Set] # NumberOfTasks
      BY <1>1, <1>11 DEF LockCount, queueLOCKED_UNMODIFIED
    <3>4. Len(events) <= Cardinality(RetryingSelectors)
      BY <1>6, <2>2, <1>9, <3>3, RetryingIsFinite DEF SelectorsNotStranded
    <3>5. LockCount(cTxLock'[Set]) = 0
      BY <2>1, <3>3
    <3> QED BY <1>9, <1>10, <3>2, <3>4, <3>5, RetryingIsFinite
  <2>3. SelectorsNotStranded'
    BY <2>2 DEF SelectorsNotStranded, LockCount
  <2> QED BY <1>6, <1>7, <1>8, <1>10, <1>11, <2>1, <2>3
<1>12. CASE cTxLock[Set] # queueUNLOCKED
  <2>1. cTxLock' = [lock EXCEPT ![Set] = CountedTimes(n, @)]
    BY <1>12 DEF prvNotifyQueueSetContainer
  <2>2. cTxLock[Set] \in queueUNLOCKED..NumberOfTasks
    BY DEF TypeOK
  <2>3. /\ CountedTimes(n, cTxLock[Set]) \in queueUNLOCKED..NumberOfTasks
        /\ CountedTimes(n, cTxLock[Set]) # queueUNLOCKED
        /\ \/ LockCount(CountedTimes(n, cTxLock[Set])) = LockCount(cTxLock[Set]) + n
           \/ CountedTimes(n, cTxLock[Set]) = NumberOfTasks
    BY <1>12, <2>2, LockCountFacts
  <2>4. /\ cTxLock' \in [Member \cup {Set} -> queueUNLOCKED..NumberOfTasks]
        /\ cTxLock'[Set] = CountedTimes(n, cTxLock[Set])
        /\ \A k \in Member : cTxLock'[k] = lock[k]
    BY <1>1, <2>1, <2>3
  <2>5. ASSUME eventList'[Set] # <<>>
        PROVE  \/ Len(events') <= Cardinality(RetryingSelectors') + LockCount(cTxLock'[Set])
               \/ cTxLock'[Set] = NumberOfTasks
    <3>1. Cardinality(RetryingSelectors') >= Cardinality(RetryingSelectors) + 0
      BY <1>2, <1>3, <1>5, <1>12, WokenSelectorsRetry
    <3>2. \/ Len(events) <= Cardinality(RetryingSelectors) + LockCount(cTxLock[Set])
          \/ cTxLock[Set] = NumberOfTasks
      BY <1>6, <2>5 DEF SelectorsNotStranded
    <3>3. cTxLock[Set] = NumberOfTasks => cTxLock'[Set] = NumberOfTasks
      BY <1>1, <2>4 DEF CountedTimes
    <3>4. LockCount(cTxLock[Set]) \in Nat
      BY LockTypes
    <3> QED BY <1>9, <1>10, <2>3, <2>4, <3>1, <3>2, <3>3, <3>4, RetryingIsFinite
  <2>6. SelectorsNotStranded'
    BY <2>5 DEF SelectorsNotStranded, LockCount
  <2> QED BY <1>6, <1>7, <1>8, <1>10, <1>12, <2>3, <2>4, <2>6
<1> QED BY <1>11, <1>12

(* A task sends: an item more and an event more, or an item replaced.      *)
LEMMA SendItemKeeps ==
    ASSUME NEW t \in Task, IInv, SendItem(t) PROVE IInv'
<1> DEFINE m == target[t]
           notifies == m \in pxQueueSetContainer /\ ~Replaces(m, op[t])
<1> USE DEF IInv
<1>a. t \in Ready /\ t = pxCurrentTCB /\ ~pendSV
  BY RunsReady DEF SendItem
<1>b. /\ pc[t] = "enter" /\ op[t] \in {"send", "overwrite"} /\ m \in Member
      /\ <<m, op[t]>> \in Calls[t]
  BY CallTargets DEF SendItem, CallInv
<1>c. /\ pc' = [pc EXCEPT ![t] = "app"] /\ op' = [op EXCEPT ![t] = "none"]
      /\ target' = [target EXCEPT ![t] = "none"]
      /\ xTicksToWait' = [xTicksToWait EXCEPT ![t] = "zero"]
      /\ after' = [after EXCEPT ![t] = "none"]
      /\ deadline' = [deadline EXCEPT ![t] = "none"]
      /\ UNCHANGED <<pxCurrentTCB, uxPriority, uxSchedulerSuspended, ticksPended,
                     pxQueueSetContainer, cRxLock>>
  BY DEF SendItem, Return
<1>d. uxMessagesWaiting' = [uxMessagesWaiting EXCEPT ![m] =
                                IF Replaces(m, op[t]) THEN @ ELSE @ + 1]
  BY DEF SendItem, CountAfterSend
<1>e. ~Replaces(m, op[t]) => uxMessagesWaiting[m] < uxLength[m]
  <2>1. uxMessagesWaiting[m] \in Nat /\ uxMessagesWaiting[m] <= uxLength[m] /\ uxLength[m] \in Nat \ {0}
    BY <1>b, SetFacts DEF TypeOK
  <2>2. CASE op[t] = "send"
    BY <2>1, <2>2 DEF SendItem, CannotProceed
  <2>3. CASE op[t] = "overwrite"
    BY <2>1, <2>3 DEF Replaces
  <2> QED BY <1>b, <2>2, <2>3
<1>f. cTxLock[Set] = queueUNLOCKED /\ cTxLock \in [Member \cup {Set} -> queueUNLOCKED..NumberOfTasks]
  BY <1>a, <1>b DEF LockHasOwner, TypeOK
<1>g. OthersStay
  BY <1>a, <1>b, <1>c DEF OthersStay, RetryingSelectors, HasPlacedItself, TypeOK
<1>h. /\ eventList' \in [EventLists -> Seq(Task)]
      /\ xStateListItem' \in [Task -> {"ready", "delayed", "suspended"}]
      /\ xPendingReadyList' \in SUBSET Task /\ xYieldPending' \in BOOLEAN /\ pendSV' \in BOOLEAN
      /\ BlockedIsWaiting' /\ BlockedInv'
      /\ events' \in Seq(Member)
      /\ cTxLock' = cTxLock
      /\ \A k \in Member : InSet(k)' = InSet(k) + (IF k = m /\ notifies THEN 1 ELSE 0)
  <2>1. CASE notifies
    <3>1. prvNotifyQueueSetContainer(m, 1, cTxLock) /\ pendSV' = NotifyPreempts
      BY <2>1 DEF SendItem
    <3>2. pendSV' \in BOOLEAN
      BY <3>1 DEF NotifyPreempts, WokenPreempts, Preempts
    <3> QED BY <2>1, <3>1, <3>2, <1>b, <1>f, <1>g, NotifyFacts
  <2>2. CASE ~notifies
    <3>1. UNCHANGED <<events, cTxLock, eventList, xStateListItem, xPendingReadyList,
                      xYieldPending, pendSV>>
      BY <2>2 DEF SendItem
    <3>2. BlockedIsWaiting'
      BY <3>1, <1>a, <1>c DEF BlockedIsWaiting, OnList, NoDuplicates, Ready, TypeOK
    <3>3. BlockedInv'
      BY <3>1, <1>g DEF BlockedInv, OthersStay, Ready
    <3>4. \A k \in Member : InSet(k)' = InSet(k) /\ InSet(k) \in Nat
      BY <3>1, AccountTypes DEF InSet
    <3> QED BY <2>2, <3>1, <3>2, <3>3, <3>4 DEF TypeOK, SchedTypeOK
  <2> QED BY <2>1, <2>2
<1>i. SelectorsNotStranded' \/ UNCHANGED <<events, cTxLock, eventList>>
  BY <1>b, <1>f, <1>g, NotifyFacts DEF SendItem
<1> HIDE DEF m, notifies
<1>1. TypeOK'
  <2>1. /\ uxMessagesWaiting' \in [Member -> Nat]
        /\ \A k \in Member : uxMessagesWaiting'[k] <= uxLength[k]
    BY <1>b, <1>d, <1>e, SetFacts DEF TypeOK
  <2>2. SchedTypeOK'
    BY <1>c, <1>h DEF TypeOK, SchedTypeOK
  <2>3. /\ pc' \in [Task -> {"app", "enter", "lock", "test", "unlockTx", "unlockRx", "resume",
                             "yield", "retest", "selected", "remove"}]
        /\ op' \in [Task -> {"none", "send", "overwrite", "select", "remove"}]
        /\ target' \in [Task -> Member \cup {Set, "none"}]
        /\ xTicksToWait' \in [Task -> {"zero", "ticks", "max"}]
        /\ after' \in [Task -> {"none", "yield", "retry", "fail"}]
    BY <1>c DEF TypeOK
  <2> QED BY <1>c, <1>h, <2>1, <2>2, <2>3 DEF TypeOK
<1>2. LockHasOwner'
  BY <1>a, <1>b, <1>c, <1>h, OutsideLock DEF TypeOK, HasScheduler
<1>3. CallInv'
  BY <1>b, <1>c, CallDomains DEF CallInv
<1>5. SelectorsNotStranded'
  <2>1. CASE UNCHANGED <<events, cTxLock, eventList>>
    <3>1. RetryingSelectors \subseteq RetryingSelectors'
      BY <1>g, <2>1 DEF OthersStay, RetryingSelectors, OnList
    <3> QED BY <1>1, <2>1, <3>1, CoverageGrows
  <2> QED BY <1>i, <2>1
<1>6. ASSUME MembersWellUsed
      PROVE  EventsAreExact' /\ NoneOutside'
  <2>1. \A k \in Member : Selected(k)' = Selected(k)
    BY <1>b, <1>c, SelectedUnchanged DEF TypeOK
  <2>2. EventsAreExact'
    <3>1. ASSUME NEW k \in pxQueueSetContainer
          PROVE  uxMessagesWaiting'[k] = InSet(k)' + LockCount(cTxLock'[k]) + Selected(k)'
      <4>1. k \in Member
        BY DEF TypeOK
      <4>2. uxMessagesWaiting[k] = InSet(k) + LockCount(cTxLock[k]) + Selected(k)
        BY <1>6 DEF EventsAreExact
      <4>3. /\ InSet(k) \in Nat /\ Selected(k) \in Nat /\ LockCount(cTxLock[k]) \in Nat
        BY <4>1, AccountTypes
      <4>4. uxMessagesWaiting'[k] = uxMessagesWaiting[k] + (IF k = m /\ notifies THEN 1 ELSE 0)
        BY <1>b, <1>d, <4>1 DEF notifies, TypeOK
      <4> QED BY <1>h, <2>1, <4>1, <4>2, <4>3, <4>4
    <3> QED BY <3>1, <1>c DEF EventsAreExact, LockCount
  <2>3. NoneOutside'
    <3>1. ASSUME NEW k \in Member \ pxQueueSetContainer
          PROVE  InSet(k)' = 0 /\ LockCount(cTxLock'[k]) = 0 /\ Selected(k)' = 0
      <4>1. InSet(k) = 0 /\ LockCount(cTxLock[k]) = 0 /\ Selected(k) = 0
        BY <1>6 DEF NoneOutside
      <4>2. ~(k = m /\ notifies)
        BY DEF notifies
      <4> QED BY <1>h, <2>1, <4>1, <4>2
    <3>2. ASSUME NEW u \in Task, pc'[u] = "remove"
          PROVE  uxMessagesWaiting'[target'[u]] = 0
      <4>1. u # t /\ pc[u] = "remove" /\ target'[u] = target[u]
        BY <1>b, <1>c, <3>2 DEF TypeOK
      <4>2. target[u] # m
        <5>1. target[u] \in Removes[u]
          BY <4>1 DEF CallInv
        <5>2. \A c \in Calls[t] : c[1] # target[u]
          BY <1>6, <4>1, <5>1 DEF MembersWellUsed
        <5>3. <<m, op[t]>>[1] = m
          OBVIOUS
        <5> QED BY <1>b, <5>2, <5>3
      <4> QED BY <1>6, <1>d, <4>1, <4>2 DEF NoneOutside, TypeOK
    <3> QED BY <1>6, <1>c, <3>1, <3>2 DEF NoneOutside, LockCount
  <2> QED BY <2>2, <2>3
<1> QED BY <1>1, <1>2, <1>3, <1>h, <1>5, <1>6 DEF MembersWellUsed

(* A task receives from the member it selected, which is not empty, and    *)
(* wakes a sender.                                                         *)
LEMMA ReceiveSelectedKeeps ==
    ASSUME NEW t \in Task, IInv, ReceiveSelected(t) PROVE IInv'
<1> DEFINE m == target[t]
           found == uxMessagesWaiting[m] > 0
<1> USE DEF IInv
<1>a. t \in Ready /\ t = pxCurrentTCB /\ ~pendSV
  BY RunsReady DEF ReceiveSelected
<1>b. pc[t] = "selected" /\ op[t] = "select" /\ m \in Member
  BY DEF ReceiveSelected, CallInv
<1>c. /\ pc' = [pc EXCEPT ![t] = "app"] /\ op' = [op EXCEPT ![t] = "none"]
      /\ target' = [target EXCEPT ![t] = "none"]
      /\ xTicksToWait' = [xTicksToWait EXCEPT ![t] = "zero"]
      /\ after' = [after EXCEPT ![t] = "none"]
      /\ deadline' = [deadline EXCEPT ![t] = "none"]
      /\ UNCHANGED <<pxCurrentTCB, uxPriority, uxSchedulerSuspended, ticksPended,
                     pxQueueSetContainer, events, lockVars>>
  BY DEF ReceiveSelected, Return
<1>d. /\ uxMessagesWaiting' = [uxMessagesWaiting EXCEPT ![m] = IF found THEN @ - 1 ELSE @]
      /\ uxMessagesWaiting[m] \in Nat
  BY <1>b DEF ReceiveSelected, TypeOK
<1>g. OthersStay
  BY <1>a, <1>b, <1>c DEF OthersStay, RetryingSelectors, HasPlacedItself, TypeOK
<1>h. /\ eventList' \in [EventLists -> Seq(Task)]
      /\ xStateListItem' \in [Task -> {"ready", "delayed", "suspended"}]
      /\ xPendingReadyList' \in SUBSET Task /\ xYieldPending' \in BOOLEAN /\ pendSV' \in BOOLEAN
      /\ BlockedIsWaiting' /\ BlockedInv'
      /\ eventList'[Set] = eventList[Set]
      /\ RetryingSelectors \subseteq RetryingSelectors'
  <2>1. CASE found
    <3>1. xTaskRemoveFromEventList(m, Wakes(m, 1)) /\ pendSV' = WokenPreempts(m, 1)
      BY <2>1 DEF ReceiveSelected, WakeSender
    <3>2. pendSV' \in BOOLEAN
      BY <3>1 DEF WokenPreempts, Preempts
    <3> QED BY <3>1, <3>2, <1>b, <1>g, MemberWake
  <2>2. CASE ~found
    <3>1. UNCHANGED <<eventList, xStateListItem, xPendingReadyList, xYieldPending, pendSV>>
      BY <2>2 DEF ReceiveSelected
    <3>2. BlockedIsWaiting'
      BY <3>1, <1>a, <1>c DEF BlockedIsWaiting, OnList, NoDuplicates, Ready, TypeOK
    <3>3. BlockedInv'
      BY <3>1, <1>g DEF BlockedInv, OthersStay, Ready
    <3>4. RetryingSelectors \subseteq RetryingSelectors'
      BY <1>g, <3>1 DEF OthersStay, RetryingSelectors, OnList
    <3> QED BY <3>1, <3>2, <3>3, <3>4 DEF TypeOK, SchedTypeOK
  <2> QED BY <2>1, <2>2
<1> HIDE DEF m, found
<1>1. TypeOK'
  <2>1. /\ uxMessagesWaiting' \in [Member -> Nat]
        /\ \A k \in Member : uxMessagesWaiting'[k] <= uxLength[k]
    BY <1>b, <1>d, SetFacts DEF TypeOK, found
  <2>2. SchedTypeOK'
    BY <1>c, <1>h DEF TypeOK, SchedTypeOK
  <2>3. /\ pc' \in [Task -> {"app", "enter", "lock", "test", "unlockTx", "unlockRx", "resume",
                             "yield", "retest", "selected", "remove"}]
        /\ op' \in [Task -> {"none", "send", "overwrite", "select", "remove"}]
        /\ target' \in [Task -> Member \cup {Set, "none"}]
        /\ xTicksToWait' \in [Task -> {"zero", "ticks", "max"}]
        /\ after' \in [Task -> {"none", "yield", "retry", "fail"}]
    BY <1>c DEF TypeOK
  <2> QED BY <1>c, <2>1, <2>2, <2>3 DEF TypeOK
<1>2. LockHasOwner'
  BY <1>a, <1>b, <1>c, OutsideLock DEF TypeOK, HasScheduler
<1>3. CallInv'
  BY <1>b, <1>c, CallDomains DEF CallInv
<1>5. SelectorsNotStranded'
  BY <1>1, <1>c, <1>h, CoverageGrows
<1>6. ASSUME MembersWellUsed
      PROVE  EventsAreExact' /\ NoneOutside'
  <2>1. ASSUME NEW k \in Member
        PROVE  /\ Selected(k) = Selected(k)' + (IF k = m THEN 1 ELSE 0)
               /\ Selected(k) \in Nat /\ Selected(k)' \in Nat /\ InSet(k)' = InSet(k)
    <3> DEFINE S == {u \in Task : pc[u] = "selected" /\ target[u] = k}
    <3>1. IsFiniteSet(S) /\ Selected(k) = Cardinality(S) /\ Selected(k) \in Nat /\ InSet(k)' = InSet(k)
      BY <1>c, TaskAssumption, FS_Subset, AccountTypes DEF Selected, InSet
    <3>2. {u \in Task : pc[u] = "selected" /\ target[u] = k}' = S \ {t}
      BY <1>b, <1>c DEF TypeOK
    <3>3. Selected(k)' = Cardinality(S \ {t})
      BY <3>2 DEF Selected
    <3>4. t \in S <=> k = m
      BY <1>b DEF m
    <3> HIDE DEF S
    <3>5. CASE k = m
      BY <3>1, <3>3, <3>4, <3>5, FS_RemoveElement, FS_Subset, FS_CardinalityType
    <3>6. CASE k # m
      <4>1. S \ {t} = S
        BY <3>4, <3>6
      <4> QED BY <3>1, <3>3, <3>6, <4>1
    <3> QED BY <3>5, <3>6
  <2>2. m \in pxQueueSetContainer
    BY <1>6, <1>b, <2>1 DEF NoneOutside
  <2>3. found
    <3>1. uxMessagesWaiting[m] = InSet(m) + LockCount(cTxLock[m]) + Selected(m)
      BY <1>6, <2>2 DEF EventsAreExact
    <3> QED BY <1>b, <2>1, <3>1, AccountTypes DEF found
  <2>4. EventsAreExact'
    <3>1. ASSUME NEW k \in pxQueueSetContainer
          PROVE  uxMessagesWaiting'[k] = InSet(k)' + LockCount(cTxLock'[k]) + Selected(k)'
      <4>1. k \in Member
        BY DEF TypeOK
      <4>2. uxMessagesWaiting[k] = InSet(k) + LockCount(cTxLock[k]) + Selected(k)
        BY <1>6 DEF EventsAreExact
      <4>3. InSet(k) \in Nat /\ LockCount(cTxLock[k]) \in Nat
        BY <4>1, AccountTypes
      <4>4. uxMessagesWaiting'[k] = uxMessagesWaiting[k] - (IF k = m THEN 1 ELSE 0)
        BY <1>b, <1>d, <2>3, <4>1 DEF TypeOK
      <4> QED BY <1>c, <2>1, <4>1, <4>2, <4>3, <4>4
    <3> QED BY <3>1, <1>c DEF EventsAreExact, LockCount
  <2>5. NoneOutside'
    <3>1. \A k \in Member \ pxQueueSetContainer : Selected(k)' = 0 /\ InSet(k)' = 0
      BY <1>6, <2>1, <2>2 DEF NoneOutside
    <3>2. ASSUME NEW u \in Task, pc'[u] = "remove"
          PROVE  uxMessagesWaiting'[target'[u]] = 0
      <4>1. u # t /\ pc[u] = "remove" /\ target'[u] = target[u]
        BY <1>b, <1>c, <3>2 DEF TypeOK
      <4>2. target[u] # m
        BY <1>6, <2>3, <4>1 DEF NoneOutside, found
      <4> QED BY <1>6, <1>d, <4>1, <4>2 DEF NoneOutside, TypeOK
    <3> QED BY <1>6, <1>c, <3>1, <3>2 DEF NoneOutside, LockCount
  <2> QED BY <2>4, <2>5
<1> QED BY <1>1, <1>2, <1>3, <1>h, <1>5, <1>6 DEF MembersWellUsed

(* A member outside the set is received from as any queue.                 *)
LEMMA ReceiveOutsideKeeps ==
    ASSUME NEW t \in Task, IInv, ReceiveOutside(t) PROVE IInv'
<1> USE DEF IInv
<1>b. PICK m \in Removes[t] \ pxQueueSetContainer :
          /\ uxMessagesWaiting[m] > 0
          /\ uxMessagesWaiting' = [uxMessagesWaiting EXCEPT ![m] = @ - 1]
          /\ WakeSender(m)
  BY DEF ReceiveOutside
<1>c. /\ m \in Member /\ t = pxCurrentTCB /\ t \in Ready
      /\ UNCHANGED <<pxCurrentTCB, uxPriority, uxSchedulerSuspended, ticksPended, deadline,
                     pxQueueSetContainer, events, lockVars, callVars>>
  BY QueueSetAssumption, RunsReady DEF ReceiveOutside
<1>g. OthersStay
  BY <1>c DEF OthersStay, HasPlacedItself
<1>h. /\ eventList' \in [EventLists -> Seq(Task)]
      /\ xStateListItem' \in [Task -> {"ready", "delayed", "suspended"}]
      /\ xPendingReadyList' \in SUBSET Task /\ xYieldPending' \in BOOLEAN /\ pendSV' \in BOOLEAN
      /\ BlockedIsWaiting' /\ BlockedInv'
      /\ eventList'[Set] = eventList[Set]
      /\ RetryingSelectors \subseteq RetryingSelectors'
  <2>1. pendSV' \in BOOLEAN
    BY <1>b DEF WakeSender, WokenPreempts, Preempts
  <2> QED BY <1>b, <1>c, <1>g, <2>1, MemberWake DEF WakeSender
<1>1. TypeOK'
  <2>1. /\ uxMessagesWaiting' \in [Member -> Nat]
        /\ \A k \in Member : uxMessagesWaiting'[k] <= uxLength[k]
    BY <1>b, <1>c, SetFacts DEF TypeOK
  <2> QED BY <1>c, <1>h, <2>1 DEF TypeOK, SchedTypeOK
<1>2. LockHasOwner' /\ CallInv'
  BY <1>c DEF LockHasOwner, CallInv
<1>5. SelectorsNotStranded'
  BY <1>1, <1>c, <1>h, CoverageGrows
<1>6. ASSUME MembersWellUsed
      PROVE  EventsAreExact' /\ NoneOutside'
  <2>1. \A k \in Member : Selected(k)' = Selected(k) /\ InSet(k)' = InSet(k)
    BY <1>c, SelectedUnchanged DEF InSet
  <2>2. EventsAreExact'
    BY <1>6, <1>b, <1>c, <2>1 DEF EventsAreExact, TypeOK
  <2>3. NoneOutside'
    BY <1>6, <1>b, <1>c, <2>1 DEF NoneOutside, TypeOK
  <2> QED BY <2>2, <2>3
<1> QED BY <1>1, <1>2, <1>h, <1>5, <1>6 DEF MembersWellUsed

(* Unlocking a queue pays what its lock counted: a task woken for each     *)
(* event of the set, an event for each item of a member.                   *)
LEMMA UnlockTxKeeps ==
    ASSUME NEW t \in Task, IInv, UnlockTx(t) PROVE IInv'
<1> DEFINE q == target[t]
           unlocked == [cTxLock EXCEPT ![q] = queueUNLOCKED]
           n == Wakes(Set, LockCount(cTxLock[Set]))
           notified == IF q \in pxQueueSetContainer THEN LockCount(cTxLock[q]) ELSE 0
<1> USE DEF IInv
<1>a. /\ t = pxCurrentTCB /\ pc[t] = "unlockTx" /\ q \in Member \cup {Set}
      /\ Set \in EventLists /\ Set \notin Member
  <2>1. t = pxCurrentTCB /\ pc[t] = "unlockTx"
    BY DEF UnlockTx
  <2>2. op[t] \in {"send", "overwrite", "select"}
    BY <2>1 DEF CallInv, TypeOK
  <2> QED BY <2>1, <2>2, CallTargets, SetFacts DEF CallInv
<1>b. /\ pc' = [pc EXCEPT ![t] = "unlockRx"]
      /\ UNCHANGED <<pxCurrentTCB, uxPriority, uxSchedulerSuspended, ticksPended, pendSV,
                     deadline, uxMessagesWaiting, pxQueueSetContainer, cRxLock,
                     op, target, xTicksToWait, after>>
  BY DEF UnlockTx
<1>c. /\ q = Set => /\ xTaskRemoveFromEventList(Set, n)
                    /\ cTxLock' = unlocked /\ UNCHANGED events
      /\ q # Set /\ q \in pxQueueSetContainer =>
             prvNotifyQueueSetContainer(q, LockCount(cTxLock[q]), unlocked)
      /\ q # Set /\ q \notin pxQueueSetContainer =>
             /\ cTxLock' = unlocked
             /\ UNCHANGED <<events, eventList, xStateListItem, xPendingReadyList, xYieldPending>>
  <2>1. CASE q = Set
    <3>1. q \notin pxQueueSetContainer
      BY <1>a, <2>1 DEF TypeOK
    <3> QED BY <2>1, <3>1 DEF UnlockTx
  <2>2. CASE q # Set /\ q \in pxQueueSetContainer
    BY <2>2 DEF UnlockTx
  <2>3. CASE q # Set /\ q \notin pxQueueSetContainer
    BY <2>3 DEF UnlockTx
  <2> QED BY <2>1, <2>2, <2>3
<1>d. /\ cTxLock \in [Member \cup {Set} -> queueUNLOCKED..NumberOfTasks]
      /\ unlocked \in [Member \cup {Set} -> queueUNLOCKED..NumberOfTasks]
      /\ q # Set => cTxLock[Set] = queueUNLOCKED
      /\ unlocked[Set] = queueUNLOCKED
      /\ LockCount(cTxLock[q]) \in Nat
  <2>1. queueUNLOCKED \in queueUNLOCKED..NumberOfTasks
    BY SetFacts DEF queueUNLOCKED
  <2> QED BY <1>a, <2>1, LockTypes DEF LockHasOwner, TypeOK
<1>g. OthersStay
  BY <1>a, <1>b DEF OthersStay, HasPlacedItself, TypeOK
<1> HIDE DEF q, unlocked, n, notified
<1>h. /\ eventList' \in [EventLists -> Seq(Task)]
      /\ xStateListItem' \in [Task -> {"ready", "delayed", "suspended"}]
      /\ xPendingReadyList' \in SUBSET Task /\ xYieldPending' \in BOOLEAN
      /\ BlockedIsWaiting' /\ BlockedInv'
      /\ events' \in Seq(Member) /\ cTxLock' = unlocked
      /\ \A k \in Member : InSet(k)' = InSet(k) + (IF k = q THEN notified ELSE 0)
      /\ SelectorsNotStranded' \/ (UNCHANGED <<events, eventList>> /\ q # Set)
  <2>1. CASE q = Set
    <3>1. n \in 0..Len(eventList[Set]) /\ Len(eventList[Set]) \in Nat
      BY <1>a, <1>d, <2>1, NumberWoken DEF n
    <3>2. xTaskRemoveFromEventList(Set, n) /\ cTxLock' = unlocked /\ events' = events
      BY <1>c, <2>1
    <3>3. uxSchedulerSuspended' = uxSchedulerSuspended /\ \A u \in Task \ Ready : target'[u] = target[u]
      BY <1>b
    <3>4. /\ eventList' \in [EventLists -> Seq(Task)]
          /\ xStateListItem' \in [Task -> {"ready", "delayed", "suspended"}]
          /\ xPendingReadyList' \in SUBSET Task /\ xYieldPending' \in BOOLEAN
          /\ Ready \subseteq Ready'
          /\ eventList'[Set] # <<>> => eventList[Set] # <<>> /\ n < Len(eventList[Set])
          /\ OnList(Set)' = OnList(Set) \ FirstOf(Set, n) /\ FirstOf(Set, n) \subseteq OnList(Set)
          /\ Cardinality(FirstOf(Set, n)) = n
      BY <1>a, <3>1, <3>2, <3>3, WakeFacts
    <3>5. BlockedIsWaiting'
      BY <1>a, <3>1, <3>2, <3>3, WakeKeepsBlockedIsWaiting
    <3>6. BlockedInv'
      BY <1>g, <3>4 DEF BlockedInv, OthersStay
    <3>7. ASSUME eventList'[Set] # <<>>
          PROVE  Len(events') <= Cardinality(RetryingSelectors') + LockCount(cTxLock'[Set])
      <4>1. cTxLock[Set] \in 0..NumberOfTasks /\ NumberOfTasks \in Nat \ {0}
        BY <1>a, <2>1, SetFacts DEF LockHasOwner, TypeOK, q, queueUNLOCKED
      <4>2. n = LockCount(cTxLock[Set]) /\ n = cTxLock[Set]
        BY <3>1, <3>4, <3>7, <4>1 DEF n, Wakes, LockCount, queueLOCKED_UNMODIFIED
      <4>3. cTxLock[Set] # NumberOfTasks
        <5>1. FirstOf(Set, n) \subseteq Task
          BY <1>a, <3>4 DEF OnList, ToSet, TypeOK, SchedTypeOK
        <5>2. FirstOf(Set, n) # Task
          <6>1. 1 \in DOMAIN eventList'[Set] /\ eventList'[Set] \in Seq(Task)
            BY <1>a, <3>4, <3>7, NonEmptyList
          <6>2. eventList'[Set][1] \in Task /\ eventList'[Set][1] \in OnList(Set)'
            BY <6>1 DEF OnList, ToSet
          <6> QED BY <6>2, <3>4
        <5> QED BY <3>4, <4>2, <5>1, <5>2, FS_Subset, TaskAssumption DEF NumberOfTasks
      <4>4. Len(events) <= Cardinality(RetryingSelectors) + n
        BY <3>4, <3>7, <4>2, <4>3 DEF SelectorsNotStranded
      <4>5. Cardinality(RetryingSelectors') >= Cardinality(RetryingSelectors) + n
        <5>1. \A u \in Task : u \in RetryingSelectors \/ u \notin Ready
                => op'[u] = op[u] /\ (HasPlacedItself(u) => HasPlacedItself(u)')
          BY <1>g DEF OthersStay
        <5> QED BY <3>1, <3>2, <3>3, <5>1, WokenSelectorsRetry
      <4>6. LockCount(cTxLock'[Set]) = 0
        BY <1>d, <3>2 DEF LockCount, queueUNLOCKED, queueLOCKED_UNMODIFIED
      <4>7. Len(events') = Len(events) /\ Len(events) \in Nat
        BY <3>2, LenProperties DEF TypeOK
      <4> QED BY <4>1, <4>2, <4>4, <4>5, <4>6, <4>7, RetryingIsFinite
    <3>8. SelectorsNotStranded'
      BY <3>7 DEF SelectorsNotStranded, LockCount
    <3>9. \A k \in Member : InSet(k)' = InSet(k) + (IF k = q THEN notified ELSE 0)
      <4>1. ASSUME NEW k \in Member
            PROVE  InSet(k)' = InSet(k) /\ InSet(k) \in Nat /\ k # q
        BY <1>a, <2>1, <3>2, AccountTypes DEF InSet
      <4> QED BY <4>1
    <3> QED BY <3>2, <3>4, <3>5, <3>6, <3>8, <3>9 DEF TypeOK
  <2>2. CASE q # Set /\ q \in pxQueueSetContainer
    <3>1. /\ q \in Member /\ notified = LockCount(cTxLock[q]) /\ notified \in Nat
          /\ unlocked[Set] = cTxLock[Set] /\ cTxLock[Set] = queueUNLOCKED
          /\ prvNotifyQueueSetContainer(q, notified, unlocked)
      BY <1>a, <1>c, <1>d, <2>2 DEF notified
    <3> QED BY <1>d, <1>g, <2>2, <3>1, NotifyFacts
  <2>3. CASE q # Set /\ q \notin pxQueueSetContainer
    <3>1. UNCHANGED <<events, eventList, xStateListItem, xPendingReadyList, xYieldPending>>
      BY <1>c, <2>3
    <3>2. BlockedIsWaiting'
      BY <3>1, <1>b DEF BlockedIsWaiting, OnList, NoDuplicates, Ready
    <3>3. BlockedInv'
      BY <3>1, <1>g DEF BlockedInv, OthersStay, Ready
    <3>4. \A k \in Member : InSet(k)' = InSet(k) + (IF k = q THEN notified ELSE 0)
      BY <2>3, <3>1, AccountTypes DEF InSet, notified
    <3> QED BY <1>c, <2>3, <3>1, <3>2, <3>3, <3>4 DEF TypeOK, SchedTypeOK
  <2> QED BY <2>1, <2>2, <2>3
<1>1. TypeOK'
  <2>1. SchedTypeOK'
    BY <1>b, <1>h DEF TypeOK, SchedTypeOK
  <2>2. cTxLock' \in [Member \cup {Set} -> queueUNLOCKED..NumberOfTasks]
    BY <1>d, <1>h
  <2> QED BY <1>b, <1>h, <2>1, <2>2 DEF TypeOK
<1>2. LockHasOwner'
  BY <1>a, <1>b, <1>d, <1>h DEF TypeOK, LockHasOwner, HasScheduler, q, unlocked
<1>3. CallInv'
  BY <1>a, <1>b DEF TypeOK, CallInv
<1>5. SelectorsNotStranded'
  <2>1. CASE UNCHANGED <<events, eventList>> /\ q # Set
    <3>1. RetryingSelectors \subseteq RetryingSelectors'
      BY <1>g, <2>1 DEF OthersStay, RetryingSelectors, OnList
    <3>2. cTxLock'[Set] = cTxLock[Set]
      BY <1>d, <1>h, <2>1
    <3> QED BY <1>1, <2>1, <3>1, <3>2, CoverageGrows
  <2> QED BY <1>h, <2>1
<1>6. ASSUME MembersWellUsed
      PROVE  EventsAreExact' /\ NoneOutside'
  <2>1. \A k \in Member : Selected(k)' = Selected(k)
    BY <1>a, <1>b, SelectedUnchanged DEF TypeOK
  <2>2. ASSUME NEW k \in Member
        PROVE  LockCount(cTxLock'[k]) = IF k = q THEN 0 ELSE LockCount(cTxLock[k])
    <3>1. cTxLock'[k] = IF k = q THEN queueUNLOCKED ELSE cTxLock[k]
      BY <1>a, <1>d, <1>h DEF unlocked
    <3> QED BY <3>1 DEF LockCount, queueUNLOCKED, queueLOCKED_UNMODIFIED
  <2>3. EventsAreExact'
    <3>1. ASSUME NEW k \in pxQueueSetContainer
          PROVE  uxMessagesWaiting[k] = InSet(k)' + LockCount(cTxLock'[k]) + Selected(k)'
      <4>1. k \in Member
        BY DEF TypeOK
      <4>2. uxMessagesWaiting[k] = InSet(k) + LockCount(cTxLock[k]) + Selected(k)
        BY <1>6 DEF EventsAreExact
      <4> QED BY <1>h, <2>1, <2>2, <4>1, <4>2, AccountTypes DEF notified
    <3> QED BY <3>1, <1>b DEF EventsAreExact, LockCount
  <2>4. NoneOutside'
    <3>1. ASSUME NEW k \in Member \ pxQueueSetContainer
          PROVE  InSet(k)' = 0 /\ LockCount(cTxLock'[k]) = 0 /\ Selected(k)' = 0
      <4>1. InSet(k) = 0 /\ LockCount(cTxLock[k]) = 0 /\ Selected(k) = 0
        BY <1>6 DEF NoneOutside
      <4> QED BY <1>h, <2>1, <2>2, <4>1 DEF notified
    <3>2. \A u \in Task : pc'[u] = "remove" => pc[u] = "remove"
      BY <1>b DEF TypeOK
    <3> QED BY <1>6, <1>b, <3>1, <3>2 DEF NoneOutside, LockCount
  <2> QED BY <2>3, <2>4
<1> QED BY <1>1, <1>2, <1>3, <1>h, <1>5, <1>6 DEF MembersWellUsed

(* Unlocking the other side wakes senders of a member.                     *)
LEMMA UnlockRxKeeps ==
    ASSUME NEW t \in Task, IInv, UnlockRx(t) PROVE IInv'
<1> DEFINE q == target[t]
<1> USE DEF IInv
<1>a. /\ t = pxCurrentTCB /\ pc[t] = "unlockRx" /\ q \in Member \cup {Set}
      /\ Set \notin Member
  <2>1. t = pxCurrentTCB /\ pc[t] = "unlockRx"
    BY DEF UnlockRx
  <2>2. op[t] \in {"send", "overwrite", "select"}
    BY <2>1 DEF CallInv, TypeOK
  <2> QED BY <2>1, <2>2, CallTargets, SetFacts DEF CallInv
<1>b. /\ pc' = [pc EXCEPT ![t] = "resume"]
      /\ UNCHANGED <<pxCurrentTCB, uxPriority, uxSchedulerSuspended, ticksPended, pendSV,
                     deadline, dataVars, cTxLock, op, target, xTicksToWait, after>>
  BY DEF UnlockRx
<1>g. OthersStay
  BY <1>a, <1>b DEF OthersStay, HasPlacedItself, TypeOK
<1>h. /\ eventList' \in [EventLists -> Seq(Task)]
      /\ xStateListItem' \in [Task -> {"ready", "delayed", "suspended"}]
      /\ xPendingReadyList' \in SUBSET Task /\ xYieldPending' \in BOOLEAN
      /\ BlockedIsWaiting' /\ BlockedInv'
      /\ eventList'[Set] = eventList[Set]
      /\ RetryingSelectors \subseteq RetryingSelectors'
      /\ cRxLock' = [m \in Member |-> IF m = q THEN queueUNLOCKED ELSE cRxLock[m]]
  <2>1. CASE q = Set
    <3>1. UNCHANGED <<cRxLock, eventList, xStateListItem, xPendingReadyList, xYieldPending>>
      BY <2>1 DEF UnlockRx
    <3>2. BlockedIsWaiting'
      BY <3>1, <1>b DEF BlockedIsWaiting, OnList, NoDuplicates, Ready
    <3>3. BlockedInv'
      BY <3>1, <1>g DEF BlockedInv, OthersStay, Ready
    <3>4. RetryingSelectors \subseteq RetryingSelectors'
      BY <1>g, <3>1 DEF OthersStay, RetryingSelectors, OnList
    <3>5. cRxLock' = [m \in Member |-> IF m = q THEN queueUNLOCKED ELSE cRxLock[m]]
      BY <1>a, <2>1, <3>1 DEF TypeOK
    <3> QED BY <3>1, <3>2, <3>3, <3>4, <3>5 DEF TypeOK, SchedTypeOK
  <2>2. CASE q # Set
    <3>1. /\ q \in Member /\ xTaskRemoveFromEventList(q, Wakes(q, LockCount(cRxLock[q])))
          /\ cRxLock' = [m \in Member |-> IF m = q THEN queueUNLOCKED ELSE cRxLock[m]]
      BY <1>a, <2>2 DEF UnlockRx, TypeOK
    <3>2. LockCount(cRxLock[q]) \in Nat
      <4>1. cRxLock[q] \in queueUNLOCKED..NumberOfTasks
        BY <3>1 DEF TypeOK
      <4> QED BY <4>1, LockCountFacts, SetFacts
    <3> QED BY <1>g, <3>1, <3>2, MemberWake
  <2> QED BY <2>1, <2>2
<1> HIDE DEF q
<1>1. TypeOK'
  <2>1. cRxLock' \in [Member -> queueUNLOCKED..NumberOfTasks]
    BY <1>h, SetFacts DEF TypeOK, queueUNLOCKED
  <2> QED BY <1>b, <1>h, <2>1 DEF TypeOK, SchedTypeOK
<1>2. LockHasOwner'
  BY <1>a, <1>b, <1>h DEF TypeOK, LockHasOwner, HasScheduler, q
<1>3. CallInv'
  BY <1>a, <1>b DEF TypeOK, CallInv
<1>5. SelectorsNotStranded'
  BY <1>1, <1>b, <1>h, CoverageGrows
<1>6. Accounted'
  <2>1. Accounted
    BY DEF Accounted
  <2> QED BY <1>a, <1>b, <2>1, AccountsKept DEF TypeOK
<1> QED BY <1>1, <1>2, <1>3, <1>h, <1>5, <1>6 DEF Accounted

(* A selector places itself on the list of an empty set only.              *)
LEMMA PlaceKeeps ==
    ASSUME NEW t \in Task, IInv, Place(t) PROVE IInv'
<1> USE DEF IInv
<1>a. /\ t = pxCurrentTCB /\ pc[t] = "test" /\ t \in Ready /\ t \notin xPendingReadyList
      /\ after' = [after EXCEPT ![t] = "yield"] /\ pc' = [pc EXCEPT ![t] = "unlockTx"]
      /\ UNCHANGED <<pxCurrentTCB, uxPriority, xPendingReadyList, uxSchedulerSuspended,
                     xYieldPending, ticksPended, pendSV, deadline, dataVars, lockVars,
                     op, target, xTicksToWait>>
  BY RunsReady DEF Place, BlockedIsWaiting
<1>b. \/ op[t] = "select" /\ target[t] = Set /\ events = <<>>
      \/ op[t] = "send" /\ target[t] \in Member
  BY <1>a, CallTargets DEF Place, CannotProceed, CallInv
<1>c. PICK l \in EventLists : l = target[t]
  BY <1>b, SetFacts
<1>d. PICK s \in ListInsert(eventList[l], t) : eventList' = [eventList EXCEPT ![l] = s]
  BY <1>a, <1>c DEF Place, vTaskPlaceOnEventList
<1>e. t \notin ToSet(eventList[l])
  BY <1>a DEF BlockedIsWaiting, OnList
<1>f. /\ s \in Seq(Task)
      /\ ToSet(s) = OnList(l) \cup {t}
      /\ NoDuplicates(s)
  BY <1>e, ListInsertFacts DEF OnList, TypeOK, SchedTypeOK, BlockedIsWaiting
<1>g. /\ eventList' \in [EventLists -> Seq(Task)]
      /\ eventList'[l] = s
      /\ OnList(l)' = OnList(l) \cup {t}
      /\ \A k \in EventLists \ {l} : eventList'[k] = eventList[k] /\ OnList(k)' = OnList(k)
  <2>1. eventList \in [EventLists -> Seq(Task)]
    BY DEF TypeOK, SchedTypeOK
  <2> QED BY <2>1, <1>d, <1>f DEF OnList
<1>h. PICK item \in {"delayed", "suspended"} :
          xStateListItem' = [xStateListItem EXCEPT ![t] = item]
  BY <1>a DEF Place, vTaskPlaceOnEventList
<1>i. xStateListItem' \in [Task -> {"ready", "delayed", "suspended"}] /\ Ready' = Ready \ {t}
  BY <1>h DEF TypeOK, SchedTypeOK, Ready
<1>1. TypeOK'
  BY <1>a, <1>g, <1>i DEF TypeOK, SchedTypeOK
<1>2. LockHasOwner'
  BY <1>a DEF TypeOK, LockHasOwner, HasScheduler
<1>3. CallInv'
  BY <1>a DEF TypeOK, CallInv
<1>4. BlockedIsWaiting'
  <2>1. \A k \in EventLists : NoDuplicates(eventList'[k])
    BY <1>f, <1>g DEF BlockedIsWaiting
  <2>2. ASSUME NEW u \in Task, NEW k \in EventLists
        PROVE  u \in OnList(k)' <=> u \notin Ready' \cup xPendingReadyList' /\ k = target'[u]
    <3>1. u \in OnList(k) <=> u \notin Ready \cup xPendingReadyList /\ k = target[u]
      BY DEF BlockedIsWaiting
    <3> QED BY <3>1, <1>a, <1>c, <1>g, <1>i
  <2>3. \A u \in xPendingReadyList' : u \notin Ready' /\ uxSchedulerSuspended' # 0
    BY <1>a, <1>i DEF BlockedIsWaiting
  <2> QED BY <2>1, <2>2, <2>3 DEF BlockedIsWaiting
<1>5. BlockedInv'
  BY <1>a, <1>b, <1>i DEF TypeOK, BlockedInv, HasPlacedItself
<1>6. SelectorsNotStranded'
  <2>1. CASE op[t] = "select"
    BY <1>1, <1>a, <1>b, <2>1, EmptySetIsCovered
  <2>2. CASE op[t] # "select"
    <3>1. eventList'[Set] = eventList[Set] /\ OnList(Set)' = OnList(Set)
      BY <1>b, <1>c, <1>g, <2>2, SetFacts
    <3>2. RetryingSelectors \subseteq RetryingSelectors'
      BY <1>a, <2>2, <3>1 DEF RetryingSelectors, HasPlacedItself, TypeOK
    <3> QED BY <1>1, <1>a, <3>1, <3>2, CoverageGrows
  <2> QED BY <2>1, <2>2
<1>7. Accounted'
  <2>1. Accounted
    BY DEF Accounted
  <2> QED BY <1>a, <2>1, AccountsKept DEF TypeOK
<1> QED BY <1>1, <1>2, <1>3, <1>4, <1>5, <1>6, <1>7 DEF Accounted

(* Emptying xPendingReadyList and expiring deadlines.                      *)
LEMMA ExpireKeeps ==
    ASSUME IInv, NEW X \in SUBSET Task, Expire(X, PendingMadeReady), xPendingReadyList' = {},
           \A u \in Task \ Ready : target'[u] = target[u],
           \A u \in RetryingSelectors :
               op'[u] = op[u] /\ (HasPlacedItself(u) => HasPlacedItself(u)')
    PROVE  /\ eventList' \in [EventLists -> Seq(Task)]
           /\ xStateListItem' \in [Task -> {"ready", "delayed", "suspended"}]
           /\ deadline' \in [Task -> {"none", "armed", "expired"}]
           /\ BlockedIsWaiting'
           /\ Ready \subseteq Ready'
           /\ eventList'[Set] # <<>> => eventList[Set] # <<>>
           /\ RetryingSelectors \subseteq RetryingSelectors'
<1> DEFINE woken == {t \in X : PendingMadeReady[t] = "delayed"}
<1> USE DEF IInv
<1>1. PendingMadeReady \in [Task -> {"ready", "delayed", "suspended"}]
  BY DEF PendingMadeReady, TypeOK, SchedTypeOK
<1>2. /\ eventList' \in [EventLists -> Seq(Task)]
      /\ \A k \in EventLists : NoDuplicates(eventList'[k])
      /\ \A k \in EventLists : OnList(k)' = OnList(k) \ woken
      /\ \A k \in EventLists : eventList'[k] # <<>> => eventList[k] # <<>>
      /\ xStateListItem' \in [Task -> {"ready", "delayed", "suspended"}]
      /\ deadline' \in [Task -> {"none", "armed", "expired"}]
      /\ Ready' = {t \in Task : PendingMadeReady[t] = "ready"} \cup woken
  BY <1>1, ExpireListsFacts DEF TypeOK
<1>3. {t \in Task : PendingMadeReady[t] = "ready"} = Ready \cup xPendingReadyList
  BY DEF PendingMadeReady, Ready, TypeOK, SchedTypeOK
<1>4. Set \in EventLists
  BY SetFacts
<1> HIDE DEF woken
<1>5. BlockedIsWaiting'
  <2>1. ASSUME NEW u \in Task, NEW k \in EventLists
        PROVE  u \in OnList(k)' <=> u \notin Ready' \cup xPendingReadyList' /\ k = target'[u]
    <3>1. u \in OnList(k) <=> u \notin Ready \cup xPendingReadyList /\ k = target[u]
      BY DEF BlockedIsWaiting
    <3> QED BY <3>1, <1>2, <1>3
  <2> QED BY <2>1, <1>2 DEF BlockedIsWaiting
<1>6. ASSUME NEW u \in RetryingSelectors
      PROVE  u \in RetryingSelectors'
  BY <1>2, <1>4 DEF RetryingSelectors
<1> QED BY <1>2, <1>3, <1>4, <1>5, <1>6

(* The resume readies the pending tasks and those timed out.               *)
LEMMA ResumeAllKeeps ==
    ASSUME NEW t \in Task, IInv, ResumeAll(t) PROVE IInv'
<1> DEFINE fails == after[t] = "fail" /\ op[t] # "select"
<1> USE DEF IInv
<1>a. PICK X \in SUBSET Armed :
          /\ xTaskResumeAll(X)
          /\ GoTo(t, IF fails THEN "app"
                     ELSE IF after[t] = "fail" THEN "retest"
                     ELSE IF after[t] = "yield" /\ ~AlreadyYielded(X) THEN "yield"
                     ELSE "enter")
  BY DEF ResumeAll
<1>b. /\ t = pxCurrentTCB /\ pc[t] = "resume"
      /\ after' = [after EXCEPT ![t] = "none"]
      /\ op' = [op EXCEPT ![t] = IF fails THEN "none" ELSE @]
      /\ target' = [target EXCEPT ![t] = IF fails THEN "none" ELSE @]
      /\ UNCHANGED <<pxCurrentTCB, uxPriority, dataVars, lockVars, xTicksToWait>>
  BY DEF ResumeAll
<1>c. uxSchedulerSuspended = 1 /\ op[t] \in {"send", "overwrite", "select"}
  BY <1>b DEF LockHasOwner, HasScheduler, CallInv, TypeOK
<1>d. /\ uxSchedulerSuspended' = 0
      /\ xPendingReadyList' = {}
      /\ Expire(X, PendingMadeReady)
      /\ ticksPended' = FALSE
      /\ xYieldPending' = AlreadyYielded(X)
      /\ pendSV' = AlreadyYielded(X)
  BY <1>a, <1>c DEF xTaskResumeAll
<1>e. AlreadyYielded(X) \in BOOLEAN
  BY DEF AlreadyYielded, TypeOK, SchedTypeOK
<1>f. X \in SUBSET Task
  BY DEF Armed
(* What the task does next. *)
<1>g. PICK label \in {"enter", "yield", "retest", "app"} :
          /\ pc' = [pc EXCEPT ![t] = label]
          /\ after[t] = "yield" => label = IF AlreadyYielded(X) THEN "enter" ELSE "yield"
          /\ label = "app" <=> fails
  BY <1>a
<1>h. t \notin Ready => after[t] = "yield"
  BY <1>b DEF BlockedInv, HasPlacedItself
<1> HIDE DEF fails
<1>i. /\ eventList' \in [EventLists -> Seq(Task)]
      /\ xStateListItem' \in [Task -> {"ready", "delayed", "suspended"}]
      /\ deadline' \in [Task -> {"none", "armed", "expired"}]
      /\ BlockedIsWaiting'
      /\ Ready \subseteq Ready'
      /\ eventList'[Set] # <<>> => eventList[Set] # <<>>
      /\ RetryingSelectors \subseteq RetryingSelectors'
  <2>1. \A u \in Task \ Ready : target'[u] = target[u]
    BY <1>b, <1>h DEF TypeOK, fails
  <2>2. ASSUME NEW u \in RetryingSelectors
        PROVE  op'[u] = op[u] /\ (HasPlacedItself(u) => HasPlacedItself(u)')
    <3>1. CASE u = t
      <4>1. after[t] = "yield"
        BY <3>1, <1>b DEF RetryingSelectors, HasPlacedItself
      <4> QED BY <3>1, <4>1, <1>b, <1>g DEF HasPlacedItself, TypeOK, fails
    <3>2. CASE u # t
      BY <3>2, <1>b, <1>g DEF HasPlacedItself, TypeOK, RetryingSelectors
    <3> QED BY <3>1, <3>2
  <2> QED BY <2>1, <2>2, <1>d, <1>f, ExpireKeeps
<1>1. TypeOK'
  <2>1. SchedTypeOK'
    <3>1. uxSchedulerSuspended' \in 0..MaxNesting /\ xPendingReadyList' \in SUBSET Task
      BY <1>d, TaskAssumption
    <3>2. xYieldPending' \in BOOLEAN /\ pendSV' \in BOOLEAN /\ ticksPended' \in BOOLEAN
      BY <1>d, <1>e
    <3> QED BY <3>1, <3>2, <1>b, <1>i DEF TypeOK, SchedTypeOK
  <2>2. /\ pc' \in [Task -> {"app", "enter", "lock", "test", "unlockTx", "unlockRx", "resume",
                             "yield", "retest", "selected", "remove"}]
        /\ op' \in [Task -> {"none", "send", "overwrite", "select", "remove"}]
        /\ target' \in [Task -> Member \cup {Set, "none"}]
        /\ after' \in [Task -> {"none", "yield", "retry", "fail"}]
    BY <1>b, <1>g DEF TypeOK
  <2> QED BY <2>1, <2>2, <1>b DEF TypeOK
<1>2. LockHasOwner'
  BY <1>b, <1>d, <1>g DEF TypeOK, LockHasOwner, HasScheduler
<1>3. CallInv'
  BY <1>b, <1>c, <1>g, CallDomains DEF CallInv, fails
<1>4. BlockedInv'
  <2>1. SUFFICES ASSUME NEW u \in Task \ Ready'
                 PROVE  /\ op'[u] \in {"send", "select"} /\ HasPlacedItself(u)'
                        /\ u = pxCurrentTCB' /\ pc'[u] = "enter" => pendSV'
    BY DEF BlockedInv
  <2>2. u \in Task \ Ready
    BY <1>i
  <2>3. CASE u = t
    BY <2>2, <2>3, <1>b, <1>d, <1>g, <1>h DEF HasPlacedItself, TypeOK, BlockedInv, fails
  <2>4. CASE u # t
    BY <2>2, <2>4, <1>b, <1>g DEF BlockedInv, HasPlacedItself, TypeOK
  <2> QED BY <2>3, <2>4
<1>5. SelectorsNotStranded'
  BY <1>1, <1>b, <1>i, CoverageGrows
<1>6. Accounted'
  <2>1. Accounted
    BY DEF Accounted
  <2> QED BY <1>b, <1>g, <2>1, AccountsKept DEF TypeOK
<1> QED BY <1>1, <1>2, <1>3, <1>i, <1>4, <1>5, <1>6 DEF Accounted

(* A tick takes timed-out tasks from their event lists.                    *)
LEMMA SysTickKeeps ==
    ASSUME IInv, SysTick PROVE IInv'
<1> USE DEF IInv
<1>a. PICK X \in SUBSET Armed : xTaskIncrementTick(X)
  BY DEF SysTick
<1>b. UNCHANGED <<pxCurrentTCB, uxPriority, xPendingReadyList, uxSchedulerSuspended,
                  xYieldPending, dataVars, lockVars, callVars>>
  BY DEF SysTick
<1>c. X \in SUBSET Task
  BY DEF Armed
<1>2. LockHasOwner' /\ CallInv'
  BY <1>b DEF LockHasOwner, CallInv
<1>3. Accounted'
  <2>1. Accounted
    BY DEF Accounted
  <2> QED BY <1>b, <2>1, AccountsKept DEF TypeOK
<1>4. \A u \in Task : HasPlacedItself(u)' <=> HasPlacedItself(u)
  BY <1>b DEF HasPlacedItself
<1>5. CASE uxSchedulerSuspended = 0
  <2>1. /\ Expire(X, xStateListItem)
        /\ pendSV' = (pendSV \/ SwitchRequired(X, xStateListItem) \/ xYieldPending)
        /\ UNCHANGED ticksPended
    BY <1>a, <1>5 DEF xTaskIncrementTick
  <2>2. xPendingReadyList = {} /\ PendingMadeReady = xStateListItem
    BY <1>5 DEF BlockedIsWaiting, PendingMadeReady, TypeOK, SchedTypeOK
  <2>3. /\ eventList' \in [EventLists -> Seq(Task)]
        /\ xStateListItem' \in [Task -> {"ready", "delayed", "suspended"}]
        /\ deadline' \in [Task -> {"none", "armed", "expired"}]
        /\ BlockedIsWaiting'
        /\ Ready \subseteq Ready'
        /\ eventList'[Set] # <<>> => eventList[Set] # <<>>
        /\ RetryingSelectors \subseteq RetryingSelectors'
    <3>1. Expire(X, PendingMadeReady) /\ xPendingReadyList' = {}
      BY <2>1, <2>2, <1>b
    <3>2. /\ \A u \in Task \ Ready : target'[u] = target[u]
          /\ \A u \in RetryingSelectors :
                 op'[u] = op[u] /\ (HasPlacedItself(u) => HasPlacedItself(u)')
      BY <1>b, <1>4 DEF RetryingSelectors
    <3> QED BY <3>1, <3>2, <1>c, ExpireKeeps
  <2>4. pendSV' \in BOOLEAN
    BY <2>1 DEF TypeOK, SchedTypeOK, SwitchRequired, Preempts
  <2>5. TypeOK'
    BY <2>1, <2>3, <2>4, <1>b DEF TypeOK, SchedTypeOK
  <2>6. BlockedInv'
    BY <2>1, <2>3, <1>b, <1>4 DEF BlockedInv
  <2>7. SelectorsNotStranded'
    BY <2>3, <2>5, <1>b, CoverageGrows
  <2> QED BY <1>2, <1>3, <2>3, <2>5, <2>6, <2>7 DEF Accounted
<1>6. CASE uxSchedulerSuspended # 0
  <2>1. ticksPended' = TRUE /\ UNCHANGED <<deadline, xStateListItem, eventList, pendSV>>
    BY <1>a, <1>6 DEF xTaskIncrementTick
  <2>2. TypeOK'
    BY <2>1, <1>b DEF TypeOK, SchedTypeOK
  <2>3. BlockedIsWaiting'
    BY <2>1, <1>b DEF BlockedIsWaiting, OnList, NoDuplicates, Ready
  <2>4. BlockedInv'
    BY <2>1, <1>b, <1>4 DEF BlockedInv, Ready
  <2>5. SelectorsNotStranded'
    <3>1. RetryingSelectors \subseteq RetryingSelectors'
      BY <2>1, <1>b, <1>4 DEF RetryingSelectors, OnList
    <3> QED BY <2>1, <2>2, <3>1, <1>b, CoverageGrows
  <2> QED BY <1>2, <1>3, <2>2, <2>3, <2>4, <2>5 DEF Accounted
<1> QED BY <1>5, <1>6

(* A switch takes the processor from a task that holds no lock.            *)
LEMMA PendSVKeeps ==
    ASSUME IInv, PendSV PROVE IInv'
<1> USE DEF IInv
<1>a. /\ pendSV' = FALSE /\ xYieldPending' \in BOOLEAN
      /\ IF uxSchedulerSuspended # 0 THEN UNCHANGED pxCurrentTCB ELSE pxCurrentTCB' \in HighestReady
      /\ UNCHANGED <<uxPriority, xStateListItem, eventList, xPendingReadyList,
                     uxSchedulerSuspended, ticksPended, deadline, dataVars, lockVars, callVars>>
  BY DEF PendSV, vTaskSwitchContext
<1>1. TypeOK'
  BY <1>a DEF TypeOK, SchedTypeOK, HighestReady, Ready
<1>2. LockHasOwner'
  BY <1>a, <1>1 DEF TypeOK, SchedTypeOK, LockHasOwner, HasScheduler
<1>3. CallInv' /\ BlockedIsWaiting'
  BY <1>a DEF CallInv, BlockedIsWaiting, OnList, NoDuplicates, Ready
<1>4. BlockedInv'
  BY <1>a DEF BlockedInv, HasPlacedItself, Ready, HighestReady, LockHasOwner, HasScheduler
<1>5. SelectorsNotStranded'
  <2>1. RetryingSelectors \subseteq RetryingSelectors'
    BY <1>a DEF RetryingSelectors, OnList, HasPlacedItself
  <2> QED BY <1>1, <1>a, <2>1, CoverageGrows
<1>6. Accounted'
  <2>1. Accounted
    BY DEF Accounted
  <2> QED BY <1>a, <2>1, AccountsKept DEF TypeOK
<1> QED BY <1>1, <1>2, <1>3, <1>4, <1>5, <1>6 DEF Accounted

(* A handler sends to a member: an event for the set or, while the member  *)
(* is locked, one more for its lock to count.                              *)
LEMMA SendFromISRKeeps ==
    ASSUME NEW c \in IsrCalls, IInv, SendFromISR(c[1], c[2]) PROVE IInv'
<1> DEFINE m == c[1]
           o == c[2]
           notifies == cTxLock[m] = queueUNLOCKED /\ m \in pxQueueSetContainer /\ ~Replaces(m, o)
<1> USE DEF IInv
<1>a. /\ m \in Member /\ o \in {"send", "overwrite"} /\ (o = "overwrite" => uxLength[m] = 1)
      /\ Set \notin Member /\ m # Set
  BY QueueSetAssumption, SetFacts
<1>b. /\ UNCHANGED <<pxCurrentTCB, uxPriority, uxSchedulerSuspended, ticksPended, deadline,
                     pxQueueSetContainer, cRxLock, callVars>>
      /\ uxMessagesWaiting' = [uxMessagesWaiting EXCEPT ![m] = IF Replaces(m, o) THEN @ ELSE @ + 1]
      /\ o = "overwrite" \/ uxMessagesWaiting[m] < uxLength[m]
  BY DEF SendFromISR, CountAfterSend
<1>c. /\ cTxLock[m] # queueUNLOCKED =>
             /\ cTxLock' = [cTxLock EXCEPT ![m] = CountedTimes(1, @)]
             /\ UNCHANGED <<events, eventList, xStateListItem, xPendingReadyList, xYieldPending,
                            pendSV>>
      /\ notifies => /\ prvNotifyQueueSetContainer(m, 1, cTxLock)
                     /\ pendSV' \in {pendSV, pendSV \/ NotifyPreempts}
      /\ cTxLock[m] = queueUNLOCKED /\ ~notifies =>
             UNCHANGED <<events, cTxLock, eventList, xStateListItem, xPendingReadyList,
                         xYieldPending, pendSV>>
  BY DEF SendFromISR
<1>d. /\ cTxLock \in [Member \cup {Set} -> queueUNLOCKED..NumberOfTasks]
      /\ cTxLock[m] \in queueUNLOCKED..NumberOfTasks
      /\ CountedTimes(1, cTxLock[m]) \in queueUNLOCKED..NumberOfTasks
      /\ cTxLock[m] # queueUNLOCKED => CountedTimes(1, cTxLock[m]) # queueUNLOCKED
  <2>1. cTxLock[m] \in queueUNLOCKED..NumberOfTasks
    BY <1>a DEF TypeOK
  <2> QED BY <2>1, LockCountFacts, 1 \in Nat DEF TypeOK
<1>e. pendSV' \in BOOLEAN /\ (pendSV => pendSV')
  <2>1. pendSV \in BOOLEAN /\ NotifyPreempts \in BOOLEAN
    BY DEF NotifyPreempts, WokenPreempts, Preempts, TypeOK, SchedTypeOK
  <2>2. pendSV' = pendSV \/ pendSV' = (pendSV \/ NotifyPreempts)
    BY <1>c
  <2> QED BY <2>1, <2>2
<1>g. OthersStay
  BY <1>b, <1>e DEF OthersStay, HasPlacedItself, BlockedInv
<1> HIDE DEF m, o, notifies
<1>h. /\ eventList' \in [EventLists -> Seq(Task)]
      /\ xStateListItem' \in [Task -> {"ready", "delayed", "suspended"}]
      /\ xPendingReadyList' \in SUBSET Task /\ xYieldPending' \in BOOLEAN
      /\ BlockedIsWaiting' /\ BlockedInv'
      /\ events' \in Seq(Member)
      /\ cTxLock' \in [Member \cup {Set} -> queueUNLOCKED..NumberOfTasks]
      /\ \A q \in Member \cup {Set} : cTxLock'[q] = queueUNLOCKED <=> cTxLock[q] = queueUNLOCKED
      /\ \A k \in Member : cTxLock'[k] = IF k = m /\ cTxLock[m] # queueUNLOCKED
                                         THEN CountedTimes(1, cTxLock[m]) ELSE cTxLock[k]
      /\ \A k \in Member : InSet(k)' = InSet(k) + (IF k = m /\ notifies THEN 1 ELSE 0)
      /\ SelectorsNotStranded' \/ (UNCHANGED <<events, eventList>> /\ cTxLock'[Set] = cTxLock[Set])
  <2>1. CASE notifies
    <3>1. /\ prvNotifyQueueSetContainer(m, 1, cTxLock) /\ cTxLock[m] = queueUNLOCKED
      BY <1>c, <2>1 DEF notifies
    <3>2. /\ eventList' \in [EventLists -> Seq(Task)]
          /\ xStateListItem' \in [Task -> {"ready", "delayed", "suspended"}]
          /\ xPendingReadyList' \in SUBSET Task /\ xYieldPending' \in BOOLEAN
          /\ BlockedIsWaiting' /\ BlockedInv'
          /\ events' \in Seq(Member)
          /\ cTxLock' \in [Member \cup {Set} -> queueUNLOCKED..NumberOfTasks]
          /\ \A k \in Member : cTxLock'[k] = cTxLock[k]
          /\ cTxLock'[Set] = queueUNLOCKED <=> cTxLock[Set] = queueUNLOCKED
          /\ SelectorsNotStranded'
          /\ \A k \in Member : InSet(k)' = InSet(k) + (IF k = m THEN 1 ELSE 0)
      BY <1>a, <1>d, <1>g, <3>1, NotifyFacts
    <3> QED BY <2>1, <3>1, <3>2
  <2>2. CASE ~notifies
    <3>1. /\ UNCHANGED <<events, eventList, xStateListItem, xPendingReadyList, xYieldPending, pendSV>>
          /\ cTxLock' = IF cTxLock[m] # queueUNLOCKED
                        THEN [cTxLock EXCEPT ![m] = CountedTimes(1, @)] ELSE cTxLock
      BY <1>c, <2>2
    <3>2. BlockedIsWaiting'
      BY <3>1, <1>b DEF BlockedIsWaiting, OnList, NoDuplicates, Ready
    <3>3. BlockedInv'
      BY <3>1, <1>g DEF BlockedInv, OthersStay, Ready
    <3>4. \A k \in Member : InSet(k)' = InSet(k) + (IF k = m /\ notifies THEN 1 ELSE 0)
      <4>1. ASSUME NEW k \in Member
            PROVE  InSet(k)' = InSet(k) /\ InSet(k) \in Nat
        BY <3>1, AccountTypes DEF InSet
      <4> QED BY <2>2, <4>1
    <3>5. /\ cTxLock' \in [Member \cup {Set} -> queueUNLOCKED..NumberOfTasks]
          /\ \A q \in Member \cup {Set} : cTxLock'[q] = queueUNLOCKED <=> cTxLock[q] = queueUNLOCKED
          /\ \A k \in Member : cTxLock'[k] = IF k = m /\ cTxLock[m] # queueUNLOCKED
                                             THEN CountedTimes(1, cTxLock[m]) ELSE cTxLock[k]
          /\ cTxLock'[Set] = cTxLock[Set]
      BY <1>a, <1>d, <3>1
    <3> QED BY <3>1, <3>2, <3>3, <3>4, <3>5 DEF TypeOK, SchedTypeOK
  <2> QED BY <2>1, <2>2
<1>1. TypeOK'
  <2>1. /\ uxMessagesWaiting' \in [Member -> Nat]
        /\ \A k \in Member : uxMessagesWaiting'[k] <= uxLength[k]
    <3>1. uxMessagesWaiting[m] \in Nat /\ uxMessagesWaiting[m] <= uxLength[m] /\ uxLength[m] \in Nat \ {0}
      BY <1>a, SetFacts DEF TypeOK
    <3>2. ~Replaces(m, o) => uxMessagesWaiting[m] + 1 <= uxLength[m]
      BY <1>a, <1>b, <3>1 DEF Replaces
    <3> QED BY <1>a, <1>b, <3>1, <3>2 DEF TypeOK
  <2> QED BY <1>b, <1>e, <1>h, <2>1 DEF TypeOK, SchedTypeOK
<1>2. LockHasOwner' /\ CallInv'
  BY <1>b, <1>h DEF LockHasOwner, CallInv
<1>5. SelectorsNotStranded'
  <2>1. CASE UNCHANGED <<events, eventList>> /\ cTxLock'[Set] = cTxLock[Set]
    <3>1. RetryingSelectors \subseteq RetryingSelectors'
      BY <1>g, <2>1 DEF OthersStay, RetryingSelectors, OnList
    <3> QED BY <1>1, <2>1, <3>1, CoverageGrows
  <2> QED BY <1>h, <2>1
<1>6. ASSUME MembersWellUsed
      PROVE  EventsAreExact' /\ NoneOutside'
  <2>1. \A k \in Member : Selected(k)' = Selected(k)
    BY <1>b, SelectedUnchanged
  <2>2. o = "send" /\ ~Replaces(m, o) /\ uxLength[m] <= NumberOfTasks
    BY <1>6, <1>a DEF MembersWellUsed, Replaces, o
  <2>3. \A t \in Task : m \notin Removes[t]
    BY <1>6 DEF MembersWellUsed, m
  <2>4. m \in pxQueueSetContainer
    BY <1>6, <1>a, <2>3 DEF NoneOutside
  <2>5. LockCount(cTxLock[m]) < NumberOfTasks /\ LockCount(cTxLock[m]) \in Nat
    <3>1. uxMessagesWaiting[m] = InSet(m) + LockCount(cTxLock[m]) + Selected(m)
      BY <1>6, <2>4 DEF EventsAreExact
    <3>2. uxMessagesWaiting[m] < uxLength[m]
      BY <1>b, <2>2
    <3> QED BY <1>a, <2>2, <3>1, <3>2, AccountTypes, SetFacts
  <2>6. ASSUME NEW k \in Member
        PROVE  InSet(k)' + LockCount(cTxLock'[k])
                   = InSet(k) + LockCount(cTxLock[k]) + (IF k = m THEN 1 ELSE 0)
    <3>1. /\ InSet(k) \in Nat /\ LockCount(cTxLock[k]) \in Nat
          /\ InSet(k)' = InSet(k) + (IF k = m /\ notifies THEN 1 ELSE 0)
      BY <1>h, AccountTypes
    <3>2. CASE k = m /\ cTxLock[m] # queueUNLOCKED
      <4>1. cTxLock[m] \in 0..NumberOfTasks - 1 /\ NumberOfTasks \in Nat
        BY <1>d, <2>5, <3>2, SetFacts DEF LockCount, queueUNLOCKED, queueLOCKED_UNMODIFIED
      <4>2. cTxLock'[k] = cTxLock[m] + 1
        BY <1>h, <3>2, <4>1 DEF CountedTimes
      <4>3. LockCount(cTxLock'[k]) = LockCount(cTxLock[k]) + 1
        BY <3>2, <4>1, <4>2 DEF LockCount, queueLOCKED_UNMODIFIED
      <4> QED BY <3>1, <3>2, <4>3 DEF notifies
    <3>3. CASE k = m /\ cTxLock[m] = queueUNLOCKED
      <4>1. notifies /\ cTxLock'[k] = cTxLock[k]
        BY <1>h, <2>2, <2>4, <3>3 DEF notifies
      <4> QED BY <3>1, <3>3, <4>1
    <3>4. CASE k # m
      <4>1. cTxLock'[k] = cTxLock[k]
        BY <1>h, <3>4
      <4> QED BY <3>1, <3>4, <4>1
    <3> QED BY <3>2, <3>3, <3>4
  <2>7. EventsAreExact'
    <3>1. ASSUME NEW k \in pxQueueSetContainer
          PROVE  uxMessagesWaiting'[k] = InSet(k)' + LockCount(cTxLock'[k]) + Selected(k)'
      <4>1. k \in Member
        BY DEF TypeOK
      <4>2. uxMessagesWaiting[k] = InSet(k) + LockCount(cTxLock[k]) + Selected(k)
        BY <1>6 DEF EventsAreExact
      <4>3. uxMessagesWaiting'[k] = uxMessagesWaiting[k] + (IF k = m THEN 1 ELSE 0)
        BY <1>b, <2>2, <4>1 DEF TypeOK
      <4>4. Selected(k) \in Nat /\ InSet(k) \in Nat /\ LockCount(cTxLock[k]) \in Nat
        BY <4>1, AccountTypes
      <4> QED BY <2>1, <2>6, <4>1, <4>2, <4>3, <4>4
    <3> QED BY <3>1, <1>b DEF EventsAreExact, LockCount
  <2>8. NoneOutside'
    <3>1. ASSUME NEW k \in Member \ pxQueueSetContainer
          PROVE  InSet(k)' = 0 /\ LockCount(cTxLock'[k]) = 0 /\ Selected(k)' = 0
      <4>1. InSet(k) = 0 /\ LockCount(cTxLock[k]) = 0 /\ Selected(k) = 0 /\ k # m
        BY <1>6, <2>4 DEF NoneOutside
      <4> QED BY <1>h, <2>1, <4>1
    <3>2. ASSUME NEW u \in Task, pc'[u] = "remove"
          PROVE  uxMessagesWaiting'[target'[u]] = 0
      <4>1. pc[u] = "remove" /\ target'[u] = target[u] /\ target[u] \in Removes[u]
        BY <1>b, <3>2 DEF CallInv
      <4>2. target[u] # m /\ uxMessagesWaiting[target[u]] = 0
        BY <1>6, <2>3, <4>1 DEF NoneOutside
      <4> QED BY <1>b, <4>1, <4>2 DEF TypeOK
    <3> QED BY <1>6, <1>b, <3>1, <3>2 DEF NoneOutside, LockCount
  <2> QED BY <2>7, <2>8
<1> QED BY <1>1, <1>2, <1>h, <1>5, <1>6 DEF MembersWellUsed

(* A handler reads the oldest event and then its member.                   *)
LEMMA SelectFromSetFromISRKeeps ==
    ASSUME IInv, SelectFromSetFromISR PROVE IInv'
<1> DEFINE h == Head(events)
           found == uxMessagesWaiting[h] > 0
<1> USE DEF IInv
<1>a. /\ events \in Seq(Member) /\ events # <<>> /\ h \in Member
      /\ events' = Tail(events) /\ events' \in Seq(Member)
      /\ Len(events) \in Nat /\ Len(events') = Len(events) - 1
  BY PlacesOfTail DEF SelectFromSetFromISR, TypeOK
<1>b. /\ UNCHANGED <<pxCurrentTCB, uxPriority, uxSchedulerSuspended, ticksPended, deadline,
                     pxQueueSetContainer, cTxLock, callVars>>
      /\ uxMessagesWaiting' = [uxMessagesWaiting EXCEPT ![h] = IF found THEN @ - 1 ELSE @]
      /\ cRxLock' = [cRxLock EXCEPT ![h] =
             IF found /\ @ # queueUNLOCKED THEN CountedTimes(1, @) ELSE @]
      /\ found /\ cRxLock[h] = queueUNLOCKED =>
             /\ xTaskRemoveFromEventList(h, Wakes(h, 1))
             /\ pendSV' \in {pendSV, pendSV \/ WokenPreempts(h, 1)}
      /\ ~(found /\ cRxLock[h] = queueUNLOCKED) =>
             UNCHANGED <<eventList, xStateListItem, xPendingReadyList, xYieldPending, pendSV>>
  BY DEF SelectFromSetFromISR
<1>e. pendSV' \in BOOLEAN /\ (pendSV => pendSV')
  <2>1. pendSV \in BOOLEAN /\ WokenPreempts(h, 1) \in BOOLEAN
    BY DEF WokenPreempts, Preempts, TypeOK, SchedTypeOK
  <2>2. pendSV' = pendSV \/ pendSV' = (pendSV \/ WokenPreempts(h, 1))
    BY <1>b
  <2> QED BY <2>1, <2>2
<1>g. OthersStay
  BY <1>b, <1>e DEF OthersStay, HasPlacedItself, BlockedInv
<1> HIDE DEF h, found
<1>h. /\ eventList' \in [EventLists -> Seq(Task)]
      /\ xStateListItem' \in [Task -> {"ready", "delayed", "suspended"}]
      /\ xPendingReadyList' \in SUBSET Task /\ xYieldPending' \in BOOLEAN
      /\ BlockedIsWaiting' /\ BlockedInv'
      /\ eventList'[Set] = eventList[Set]
      /\ RetryingSelectors \subseteq RetryingSelectors'
  <2>1. CASE found /\ cRxLock[h] = queueUNLOCKED
    BY <1>a, <1>b, <1>g, <2>1, MemberWake
  <2>2. CASE ~(found /\ cRxLock[h] = queueUNLOCKED)
    <3>1. UNCHANGED <<eventList, xStateListItem, xPendingReadyList, xYieldPending, pendSV>>
      BY <1>b, <2>2
    <3>2. BlockedIsWaiting'
      BY <3>1, <1>b DEF BlockedIsWaiting, OnList, NoDuplicates, Ready
    <3>3. BlockedInv'
      BY <3>1, <1>g DEF BlockedInv, OthersStay, Ready
    <3>4. RetryingSelectors \subseteq RetryingSelectors'
      BY <1>g, <3>1 DEF OthersStay, RetryingSelectors, OnList
    <3> QED BY <3>1, <3>2, <3>3, <3>4 DEF TypeOK, SchedTypeOK
  <2> QED BY <2>1, <2>2
<1>i. /\ cRxLock' \in [Member -> queueUNLOCKED..NumberOfTasks]
      /\ \A k \in Member : cRxLock'[k] = queueUNLOCKED <=> cRxLock[k] = queueUNLOCKED
  <2>1. cRxLock[h] \in queueUNLOCKED..NumberOfTasks
    BY <1>a DEF TypeOK
  <2>2. /\ CountedTimes(1, cRxLock[h]) \in queueUNLOCKED..NumberOfTasks
        /\ cRxLock[h] # queueUNLOCKED => CountedTimes(1, cRxLock[h]) # queueUNLOCKED
    BY <2>1, LockCountFacts, 1 \in Nat
  <2> QED BY <1>a, <1>b, <2>1, <2>2 DEF TypeOK
<1>1. TypeOK'
  <2>1. /\ uxMessagesWaiting' \in [Member -> Nat]
        /\ \A k \in Member : uxMessagesWaiting'[k] <= uxLength[k]
    <3>1. ASSUME NEW k \in Member
          PROVE  uxMessagesWaiting'[k] \in Nat /\ uxMessagesWaiting'[k] <= uxMessagesWaiting[k]
      <4>1. uxMessagesWaiting[k] \in Nat /\ DOMAIN uxMessagesWaiting = Member
        BY DEF TypeOK
      <4>2. uxMessagesWaiting'[k] =
                IF k = h /\ found THEN uxMessagesWaiting[k] - 1 ELSE uxMessagesWaiting[k]
        BY <1>b, <4>1
      <4> QED BY <4>1, <4>2 DEF found
    <3>2. DOMAIN uxMessagesWaiting' = Member /\ uxMessagesWaiting' = [k \in Member |-> uxMessagesWaiting'[k]]
      BY <1>b DEF TypeOK
    <3>3. \A k \in Member : uxMessagesWaiting[k] \in Nat /\ uxMessagesWaiting[k] <= uxLength[k]
      BY DEF TypeOK
    <3>4. \A k \in Member : uxLength[k] \in Nat
      BY SetFacts
    <3> QED BY <3>1, <3>2, <3>3, <3>4
  <2> QED BY <1>a, <1>b, <1>e, <1>h, <1>i, <2>1 DEF TypeOK, SchedTypeOK
<1>2. LockHasOwner' /\ CallInv'
  BY <1>b, <1>i DEF LockHasOwner, CallInv
<1>5. SelectorsNotStranded'
  <2>1. Cardinality(RetryingSelectors') >= Cardinality(RetryingSelectors)
    BY <1>h, RetryingIsFinite, FS_Subset
  <2>2. LockCount(cTxLock[Set]) \in Nat
    BY LockTypes
  <2> QED BY <1>a, <1>b, <1>h, <2>1, <2>2, RetryingIsFinite DEF SelectorsNotStranded, LockCount
<1>6. ASSUME MembersWellUsed
      PROVE  EventsAreExact' /\ NoneOutside'
  <2>1. ASSUME NEW k \in Member
        PROVE  /\ Selected(k)' = Selected(k)
               /\ InSet(k) = InSet(k)' + (IF k = h THEN 1 ELSE 0) /\ InSet(k)' \in Nat
    <3>1. Selected(k)' = Selected(k)
      BY <1>b, SelectedUnchanged
    <3>2. InSet(k) = Cardinality(Places(events, k)) /\ InSet(k)' = Cardinality(Places(events', k))
      BY DEF InSet, Places
    <3>3. Cardinality(Places(events, k)) =
              Cardinality(Places(Tail(events), k)) + (IF k = h THEN 1 ELSE 0)
      BY <1>a, PlacesOfTail DEF h
    <3>4. Cardinality(Places(events', k)) \in Nat
      BY <1>a, PlacesAreFinite
    <3> QED BY <1>a, <3>1, <3>2, <3>3, <3>4
  <2>2. h \in pxQueueSetContainer
    BY <1>6, <1>a, <2>1 DEF NoneOutside
  <2>3. found
    <3>1. uxMessagesWaiting[h] = InSet(h) + LockCount(cTxLock[h]) + Selected(h)
      BY <1>6, <2>2 DEF EventsAreExact
    <3> QED BY <1>a, <2>1, <3>1, AccountTypes, SMTT(30) DEF found
  <2>4. EventsAreExact'
    <3>1. ASSUME NEW k \in pxQueueSetContainer
          PROVE  uxMessagesWaiting'[k] = InSet(k)' + LockCount(cTxLock'[k]) + Selected(k)'
      <4>1. k \in Member
        BY DEF TypeOK
      <4>2. uxMessagesWaiting[k] = InSet(k) + LockCount(cTxLock[k]) + Selected(k)
        BY <1>6 DEF EventsAreExact
      <4>3. Selected(k) \in Nat /\ LockCount(cTxLock[k]) \in Nat
        BY <4>1, AccountTypes
      <4>4. uxMessagesWaiting'[k] = uxMessagesWaiting[k] - (IF k = h THEN 1 ELSE 0)
        BY <1>a, <1>b, <2>3, <4>1 DEF TypeOK
      <4> QED BY <1>b, <2>1, <4>1, <4>2, <4>3, <4>4
    <3> QED BY <3>1, <1>b DEF EventsAreExact, LockCount
  <2>5. NoneOutside'
    <3>1. \A k \in Member \ pxQueueSetContainer : Selected(k)' = 0 /\ InSet(k)' = 0
      BY <1>6, <2>1, <2>2 DEF NoneOutside
    <3>2. ASSUME NEW u \in Task, pc'[u] = "remove"
          PROVE  uxMessagesWaiting'[target'[u]] = 0
      <4>1. pc[u] = "remove" /\ target'[u] = target[u]
        BY <1>b, <3>2
      <4>2. target[u] # h /\ uxMessagesWaiting[target[u]] = 0
        BY <1>6, <2>3, <4>1 DEF NoneOutside, found
      <4> QED BY <1>b, <4>1, <4>2 DEF TypeOK
    <3> QED BY <1>6, <1>b, <3>1, <3>2 DEF NoneOutside, LockCount
  <2> QED BY <2>4, <2>5
<1> QED BY <1>1, <1>2, <1>h, <1>5, <1>6 DEF MembersWellUsed

-----------------------------------------------------------------------------
(* The results.                                                            *)

(* The set starts empty and with every member in it.                       *)
LEMMA InitIInv == Init => IInv
<1> SUFFICES ASSUME Init PROVE IInv
  OBVIOUS
<1> USE DEF Init
<1>1. TypeOK
  <2>1. /\ cTxLock \in [Member \cup {Set} -> queueUNLOCKED..NumberOfTasks]
        /\ cRxLock \in [Member -> queueUNLOCKED..NumberOfTasks]
    BY SetFacts DEF queueUNLOCKED
  <2>2. /\ uxMessagesWaiting \in [Member -> Nat]
        /\ \A m \in Member : uxMessagesWaiting[m] <= uxLength[m]
    BY SetFacts
  <2>3. events \in Seq(Member)
    BY EmptySeq
  <2> QED BY <2>1, <2>2, <2>3, SchedInitFacts DEF TypeOK
<1>2. Ready = Task /\ \A l \in EventLists : OnList(l) = {} /\ NoDuplicates(eventList[l])
  BY SchedInitFacts
<1>3. LockHasOwner
  BY DEF LockHasOwner, HasScheduler, SchedInit
<1>4. CallInv
  BY DEF CallInv
<1>5. BlockedIsWaiting
  BY <1>2 DEF BlockedIsWaiting, SchedInit
<1>6. BlockedInv
  BY <1>2 DEF BlockedInv
<1>7. SelectorsNotStranded
  BY SetFacts DEF SelectorsNotStranded, SchedInit
<1>8. \A m \in Member : InSet(m) = 0 /\ LockCount(cTxLock[m]) = 0 /\ Selected(m) = 0
  <2>1. ASSUME NEW m \in Member
        PROVE  /\ {i \in DOMAIN events : events[i] = m} = {}
               /\ {t \in Task : pc[t] = "selected" /\ target[t] = m} = {}
               /\ cTxLock[m] = -1
    <3>1. DOMAIN events = 1..0
      BY EmptySeq, LenProperties
    <3> QED BY <3>1 DEF queueUNLOCKED
  <2>2. Cardinality({}) = 0
    BY FS_EmptySet
  <2>3. ASSUME NEW m \in Member
        PROVE  InSet(m) = 0 /\ Selected(m) = 0
    BY <2>1, <2>2 DEF InSet, Selected
  <2>4. LockCount(-1) = 0
    BY DEF LockCount, queueLOCKED_UNMODIFIED
  <2> QED BY <2>1, <2>3, <2>4
<1>9. EventsAreExact /\ NoneOutside
  BY <1>8 DEF EventsAreExact, NoneOutside
<1> QED BY <1>1, <1>3, <1>4, <1>5, <1>6, <1>7, <1>9 DEF IInv

(* Every step keeps IInv.                                                  *)
LEMMA NextKeepsIInv == IInv /\ [Next]_vars => IInv'
<1> SUFFICES ASSUME IInv, [Next]_vars PROVE IInv'
  OBVIOUS
<1>1. ASSUME NEW t \in Task, App(t) PROVE IInv'
  BY <1>1, CallKeeps, TestEmptyKeeps, xQueueAddToSetKeeps, ReceiveOutsideKeeps DEF App
<1>2. ASSUME NEW t \in Task, CallStep(t) PROVE IInv'
  BY <1>2, xQueueRemoveFromSetKeeps, SendItemKeeps, SelectItemKeeps, ReceiveSelectedKeeps,
     GiveUpKeeps, StartWaitingKeeps, LockKeeps, TimedOutKeeps, TryAgainKeeps, PlaceKeeps,
     UnlockTxKeeps, UnlockRxKeeps, ResumeAllKeeps, YieldWithinApiKeeps, RetestKeeps DEF CallStep
<1>3. CASE Interrupt
  BY <1>3, SendFromISRKeeps, SelectFromSetFromISRKeeps DEF Interrupt
<1>4. CASE SysTick
  BY <1>4, SysTickKeeps
<1>5. CASE PendSV
  BY <1>5, PendSVKeeps
<1>6. CASE UNCHANGED vars
  <2> USE DEF IInv
  <2>1. UNCHANGED <<schedVars, dataVars, lockVars, callVars>>
    BY <1>6 DEF vars
  <2>2. TypeOK'
    BY <2>1 DEF TypeOK, SchedTypeOK
  <2>3. LockHasOwner' /\ CallInv' /\ BlockedIsWaiting' /\ BlockedInv'
    BY <2>1 DEF LockHasOwner, CallInv, BlockedIsWaiting, BlockedInv, HasPlacedItself, OnList,
                NoDuplicates, Ready
  <2>4. SelectorsNotStranded'
    <3>1. RetryingSelectors \subseteq RetryingSelectors'
      BY <2>1 DEF RetryingSelectors, HasPlacedItself, OnList
    <3> QED BY <2>1, <2>2, <3>1, CoverageGrows
  <2>5. Accounted'
    <3>1. Accounted
      BY DEF Accounted
    <3> QED BY <2>1, <3>1, AccountsKept
  <2> QED BY <2>2, <2>3, <2>4, <2>5 DEF Accounted
<1> QED BY <1>1, <1>2, <1>3, <1>4, <1>5, <1>6 DEF Next

(* The inductive invariant holds in every state of every behaviour.        *)
THEOREM Invariance == Spec => []IInv
<1>1. Init => IInv
  BY InitIInv
<1>2. IInv /\ [Next]_vars => IInv'
  BY NextKeepsIInv
<1> QED BY <1>1, <1>2, PTL DEF Spec

(* No event of a set wakes nobody, for any number of selectors and         *)
(* members: while a task sleeps in xQueueSelectFromSet every event has a   *)
(* woken task coming for it or is in the lock count of the set, whether it *)
(* came from a task, a handler or the unlocking of a member.               *)
THEOREM SelectorsAreWoken == Spec => []SelectorsNotStranded
<1>1. IInv => SelectorsNotStranded
  BY DEF IInv
<1> QED BY <1>1, Invariance, PTL

(* If the application uses the members as MembersWellUsed says, every item *)
(* of a member has exactly one event, whatever is locked, selected or      *)
(* removed meanwhile: no item is overlooked, no selected member is empty,  *)
(* and the set never overflows.                                            *)
THEOREM EventsExact ==
    ASSUME MembersWellUsed
    PROVE  Spec => []EventsAreExact
<1>1. IInv => EventsAreExact
  BY DEF IInv
<1> QED BY <1>1, Invariance, PTL
=============================================================================
