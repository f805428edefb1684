---------------------------- MODULE SchedProofs ----------------------------
(***************************************************************************)
(* What the operators of Sched do to the event lists and the state lists,  *)
(* for every set of tasks: the lemmas that the proofs about the kernel     *)
(* objects share.                                                          *)
(***************************************************************************)
EXTENDS Sched, TLAPS, FiniteSetTheorems, SequenceTheorems

-----------------------------------------------------------------------------
(* Induction over the natural numbers for a set: the theorems of the       *)
(* library take an operator.                                               *)

(* A set with 0 and with the successor of each natural number in it has    *)
(* them all: otherwise adding one would map the members up to some number  *)
(* injectively, and so surjectively, to themselves, and nothing to 0.      *)
LEMMA SetInduction ==
    ASSUME NEW T, 0 \in T, \A n \in Nat : n \in T => n + 1 \in T
    PROVE  Nat \subseteq T
<1> SUFFICES ASSUME NEW n \in Nat, n \notin T
             PROVE  FALSE
  OBVIOUS
<1> DEFINE A == T \cap 0..n
           f == [k \in A |-> k + 1]
<1>1. IsFiniteSet(A)
  <2>1. IsFiniteSet(0..n)
    BY FS_Interval
  <2> QED BY <2>1, FS_Intersection
<1>2. \A k \in A : k \in Nat /\ k < n /\ k + 1 \in A
  OBVIOUS
<1>3. f \in Injection(A, A)
  BY <1>2 DEF Injection, IsInjective
<1>4. f \in Surjection(A, A)
  <2> HIDE DEF A, f
  <2> QED BY <1>1, <1>3, FS_Injection
<1>5. 0 \in A
  OBVIOUS
<1>6. PICK k \in A : f[k] = 0
  BY <1>4, <1>5 DEF Surjection
<1> QED BY <1>2, <1>6

(* A set of natural numbers with a bound has a greatest member.            *)
LEMMA GreatestExists ==
    ASSUME NEW n \in Nat, NEW S \in SUBSET (0..n), S # {}
    PROVE  \E q \in S : \A r \in S : r <= q
<1> DEFINE T == {k \in Nat : (\E p \in S : p + k > n) => \E q \in S : \A r \in S : r <= q}
<1>1. 0 \in T
  OBVIOUS
<1>2. ASSUME NEW k \in Nat, k \in T
      PROVE  k + 1 \in T
  <2> SUFFICES ASSUME NEW p \in S, p + (k + 1) > n
               PROVE  \E q \in S : \A r \in S : r <= q
    OBVIOUS
  <2>1. CASE \E r \in S : r > p
    <3>1. PICK r \in S : r > p
      BY <2>1
    <3>2. r + k > n
      BY <3>1
    <3> QED BY <1>2, <3>2
  <2>2. CASE ~\E r \in S : r > p
    BY <2>2
  <2> QED BY <2>1, <2>2
<1> HIDE DEF T
<1>3. n + 1 \in T
  BY <1>1, <1>2, SetInduction
<1>4. PICK p \in S : TRUE
  OBVIOUS
<1>5. p + (n + 1) > n
  OBVIOUS
<1> QED BY <1>3, <1>4, <1>5 DEF T

-----------------------------------------------------------------------------
(* Event lists.                                                            *)

(* A list that is not empty has a head.                                    *)
LEMMA NonEmptyList ==
    ASSUME NEW s \in Seq(Task), s # <<>>
    PROVE  1 \in DOMAIN s /\ Len(s) \in Nat \ {0}
<1>1. Len(s) \in Nat \ {0}
  BY EmptySeq
<1> QED BY <1>1, LenProperties

(* vListInsert puts the task between the items before and behind its       *)
(* place, those of at least its priority and the first of a lower one.     *)
LEMMA ListInsertPlaces ==
    ASSUME NEW list \in Seq(Task), NEW t \in Task, NEW s \in ListInsert(list, t)
    PROVE  \E i \in 1..Len(list) + 1 :
               /\ s \in Seq(Task)
               /\ Len(s) = Len(list) + 1
               /\ \A k \in 1..i - 1 : s[k] = list[k] /\ uxPriority[list[k]] >= uxPriority[t]
               /\ s[i] = t
               /\ \A k \in i + 1..Len(list) + 1 : s[k] = list[k - 1]
               /\ i <= Len(list) => uxPriority[list[i]] < uxPriority[t]
<1>1. PICK i \in 1..Len(list) + 1 :
          /\ s = SubSeq(list, 1, i - 1) \o <<t>> \o SubSeq(list, i, Len(list))
          /\ \A j \in 1..i - 1 : uxPriority[list[j]] >= uxPriority[t]
          /\ i <= Len(list) => uxPriority[list[i]] < uxPriority[t]
  BY DEF ListInsert, InsertAt
<1> DEFINE front == SubSeq(list, 1, i - 1)
           back == SubSeq(list, i, Len(list))
<1>a. /\ front \in Seq(Task)
      /\ Len(front) = i - 1
      /\ \A k \in 1..i - 1 : front[k] = list[k]
  BY SubSeqProperties, ElementOfSeq, LenProperties
<1>b. /\ back \in Seq(Task)
      /\ Len(back) = Len(list) - i + 1
      /\ \A k \in 1..Len(list) - i + 1 : back[k] = list[i + k - 1]
  BY SubSeqProperties, ElementOfSeq, LenProperties
<1> DEFINE upto == front \o <<t>>
<1>c. /\ upto \in Seq(Task)
      /\ Len(upto) = i
      /\ \A k \in 1..i : upto[k] = IF k < i THEN list[k] ELSE t
  <2> HIDE DEF front
  <2> QED BY <1>a
<1>2. /\ s \in Seq(Task)
      /\ Len(s) = Len(list) + 1
      /\ \A k \in 1..i - 1 : s[k] = list[k]
      /\ s[i] = t
      /\ \A k \in i + 1..Len(list) + 1 : s[k] = list[k - 1]
  <2>1. s = upto \o back /\ Len(list) \in Nat
    BY <1>1
  <2> HIDE DEF upto, back
  <2>2. /\ s \in Seq(Task)
        /\ Len(s) = Len(upto) + Len(back)
        /\ \A k \in 1..Len(upto) + Len(back) :
               s[k] = IF k <= Len(upto) THEN upto[k] ELSE back[k - Len(upto)]
    BY <2>1, <1>b, <1>c, ConcatProperties
  <2>3. ASSUME NEW k \in i + 1..Len(list) + 1
        PROVE  s[k] = list[k - 1]
    <3>1. k - i \in 1..Len(list) - i + 1 /\ i + (k - i) - 1 = k - 1 /\ ~(k <= i)
      BY <2>1
    <3>2. k \in 1..Len(upto) + Len(back)
      BY <1>b, <1>c, <2>1
    <3> QED BY <3>1, <3>2, <2>2, <1>b, <1>c
  <2>4. \A k \in 1..i : k \in 1..Len(upto) + Len(back) /\ k <= Len(upto)
    BY <1>b, <1>c, <2>1
  <2> QED BY <2>1, <2>2, <2>3, <2>4, <1>b, <1>c
<1> QED BY <1>1, <1>2

(* vListInsert adds one task and makes no duplicate of a new one.          *)
LEMMA ListInsertFacts ==
    ASSUME NEW list \in Seq(Task), NEW t \in Task, NEW s \in ListInsert(list, t)
    PROVE  /\ s \in Seq(Task)
           /\ ToSet(s) = ToSet(list) \cup {t}
           /\ NoDuplicates(list) /\ t \notin ToSet(list) => NoDuplicates(s)
<1>1. Len(list) \in Nat
  OBVIOUS
<1>2. PICK i \in 1..Len(list) + 1 :
          /\ s \in Seq(Task)
          /\ Len(s) = Len(list) + 1
          /\ \A k \in 1..i - 1 : s[k] = list[k]
          /\ s[i] = t
          /\ \A k \in i + 1..Len(list) + 1 : s[k] = list[k - 1]
  BY ListInsertPlaces
<1>3. DOMAIN s = 1..Len(list) + 1 /\ DOMAIN list = 1..Len(list)
  BY <1>2
<1>4. ToSet(s) \subseteq ToSet(list) \cup {t}
  BY <1>2, <1>3 DEF ToSet
<1>5. ASSUME NEW k \in 1..Len(list)
      PROVE  list[k] \in ToSet(s)
  <2>1. CASE k < i
    BY <1>2, <1>3, <2>1 DEF ToSet
  <2>2. CASE k >= i
    <3>1. s[k + 1] = list[k] /\ k + 1 \in DOMAIN s
      BY <1>2, <1>3, <2>2
    <3> QED BY <3>1 DEF ToSet
  <2> QED BY <2>1, <2>2
<1>6. t \in ToSet(s)
  BY <1>2, <1>3 DEF ToSet
<1>7. ASSUME NoDuplicates(list), t \notin ToSet(list)
      PROVE  NoDuplicates(s)
  <2> DEFINE from(k) == IF k < i THEN k ELSE k - 1
  <2>1. ASSUME NEW k \in 1..Len(list) + 1, k # i
        PROVE  from(k) \in 1..Len(list) /\ s[k] = list[from(k)] /\ s[k] # t
    <3>1. \A j \in 1..Len(list) : list[j] # t
      BY <1>3, <1>7 DEF ToSet
    <3>2. CASE k < i
      <4>1. k \in 1..i - 1 /\ k \in 1..Len(list)
        BY <2>1, <3>2
      <4>2. s[k] = list[k]
        BY <1>2, <4>1
      <4> QED BY <3>1, <3>2, <4>1, <4>2
    <3>3. CASE ~(k < i)
      <4>1. k \in i + 1..Len(list) + 1 /\ k - 1 \in 1..Len(list)
        BY <2>1, <3>3
      <4>2. s[k] = list[k - 1]
        BY <1>2, <4>1
      <4> QED BY <3>1, <3>3, <4>1, <4>2
    <3> QED BY <3>2, <3>3
  <2>2. SUFFICES ASSUME NEW j \in 1..Len(list) + 1, NEW k \in 1..Len(list) + 1, s[j] = s[k]
                 PROVE  j = k
    BY <1>3 DEF NoDuplicates
  <2>3. CASE j = i \/ k = i
    BY <2>1, <2>2, <2>3, <1>2
  <2>4. CASE j # i /\ k # i
    <3>1. from(j) = from(k)
      BY <2>1, <2>2, <2>4, <1>3, <1>7 DEF NoDuplicates
    <3> QED BY <3>1, <2>4
  <2> QED BY <2>3, <2>4
<1>8. ToSet(list) \subseteq ToSet(s)
  BY <1>3, <1>5 DEF ToSet
<1> QED BY <1>2, <1>4, <1>6, <1>7, <1>8

(* It keeps a list in the order of the priorities.                         *)
LEMMA InsertKeepsOrder ==
    ASSUME uxPriority \in [Task -> 0..MaxPriorities - 1],
           NEW list \in Seq(Task), NEW t \in Task, NEW s \in ListInsert(list, t),
           InPriorityOrder(list)
    PROVE  InPriorityOrder(s)
<1>1. PICK i \in 1..Len(list) + 1 :
          /\ s \in Seq(Task)
          /\ Len(s) = Len(list) + 1
          /\ \A k \in 1..i - 1 : s[k] = list[k] /\ uxPriority[list[k]] >= uxPriority[t]
          /\ s[i] = t
          /\ \A k \in i + 1..Len(list) + 1 : s[k] = list[k - 1]
          /\ i <= Len(list) => uxPriority[list[i]] < uxPriority[t]
  BY ListInsertPlaces
<1>2. DOMAIN s = 1..Len(list) + 1 /\ DOMAIN list = 1..Len(list) /\ Len(list) \in Nat
  BY <1>1
<1>3. \A k \in 1..Len(list) : uxPriority[list[k]] \in Nat
  BY <1>2, ElementOfSeq, TaskAssumption
<1>4. uxPriority[t] \in Nat
  BY TaskAssumption
<1>5. ASSUME NEW k \in i..Len(list)
      PROVE  uxPriority[list[k]] < uxPriority[t]
  <2>1. uxPriority[list[i]] >= uxPriority[list[k]]
    BY <1>2, <1>3 DEF InPriorityOrder
  <2>2. i \in 1..Len(list) /\ k \in 1..Len(list) /\ i <= Len(list)
    BY <1>2
  <2>3. uxPriority[list[i]] < uxPriority[t]
    BY <1>1, <2>2
  <2>4. uxPriority[list[k]] \in Nat /\ uxPriority[list[i]] \in Nat
    BY <1>3, <2>2
  <2> QED BY <1>4, <2>1, <2>3, <2>4
<1> DEFINE from(k) == IF k < i THEN k ELSE k - 1
<1>6. ASSUME NEW k \in 1..Len(list) + 1, k # i
      PROVE  /\ from(k) \in 1..Len(list) /\ s[k] = list[from(k)]
             /\ k < i => uxPriority[s[k]] >= uxPriority[t]
             /\ k > i => uxPriority[s[k]] < uxPriority[t]
  <2>1. CASE k < i
    <3>1. k \in 1..i - 1 /\ k \in 1..Len(list)
      BY <1>2, <2>1
    <3> QED BY <1>1, <2>1, <3>1
  <2>2. CASE k > i
    <3>1. k \in i + 1..Len(list) + 1 /\ k - 1 \in i..Len(list) /\ k - 1 \in 1..Len(list)
      BY <1>2, <2>2
    <3>2. s[k] = list[k - 1] /\ uxPriority[list[k - 1]] < uxPriority[t]
      BY <1>1, <1>5, <3>1
    <3> QED BY <2>2, <3>1, <3>2
  <2> QED BY <1>6, <2>1, <2>2, <1>2
<1>7. ASSUME NEW j \in 1..Len(list) + 1, NEW k \in 1..Len(list) + 1, j < k
      PROVE  uxPriority[s[j]] >= uxPriority[s[k]]
  <2>1. CASE j = i
    <3>1. k > i /\ k # i
      BY <1>7, <2>1
    <3>2. uxPriority[s[k]] < uxPriority[t] /\ uxPriority[s[k]] \in Nat
      BY <1>3, <1>6, <3>1
    <3> QED BY <1>1, <1>4, <2>1, <3>2
  <2>2. CASE k = i
    BY <1>1, <1>6, <1>7, <2>2
  <2>3. CASE j # i /\ k # i
    <3>1. from(j) \in 1..Len(list) /\ from(k) \in 1..Len(list)
      BY <1>6, <2>3
    <3>2. from(j) < from(k)
      BY <1>7, <2>3
    <3>3. s[j] = list[from(j)] /\ s[k] = list[from(k)]
      BY <1>6, <2>3
    <3> HIDE DEF from
    <3> QED BY <1>2, <3>1, <3>2, <3>3 DEF InPriorityOrder
  <2> QED BY <2>1, <2>2, <2>3
<1> QED BY <1>2, <1>7 DEF InPriorityOrder

(* uxListRemove keeps the other members.                                   *)
LEMMA ListRemoveFacts ==
    ASSUME NEW list \in Seq(Task), NEW S, NEW r \in ListRemove(list, S)
    PROVE  /\ r \in Seq(Task)
           /\ ToSet(r) = ToSet(list) \ S
           /\ NoDuplicates(r)
<1>1. ToSet(list) \subseteq Task
  BY DEF ToSet
<1>2. PICK n \in Nat : /\ r \in [1..n -> ToSet(list) \ S]
                       /\ \A i, j \in 1..n : i # j => r[i] # r[j]
  <2>1. IsFiniteSet(ToSet(list) \ S)
    BY <1>1, FS_Subset, TaskAssumption
  <2> QED BY <2>1, FS_CardinalityType DEF ListRemove, SetToSeqs
<1>3. r \in Seq(Task) /\ DOMAIN r = 1..n
  BY <1>1, <1>2, SeqDef
<1> QED BY <1>2, <1>3 DEF ListRemove, NoDuplicates

(* It keeps their order.                                                   *)
LEMMA RemoveKeepsOrder ==
    ASSUME NEW list \in Seq(Task), NEW S, NEW r \in ListRemove(list, S),
           InPriorityOrder(list)
    PROVE  InPriorityOrder(r)
  BY DEF ListRemove, InPriorityOrder

(* The head of a list, which xTaskRemoveFromEventList takes, is the task   *)
(* of highest priority, and the rest of the list is the others in order.   *)
LEMMA TailFacts ==
    ASSUME NEW list \in Seq(Task), list # <<>>, NoDuplicates(list)
    PROVE  /\ Head(list) \in ToSet(list) /\ Head(list) \in Task
           /\ Tail(list) \in Seq(Task)
           /\ ToSet(Tail(list)) = ToSet(list) \ {Head(list)}
           /\ NoDuplicates(Tail(list))
           /\ InPriorityOrder(list) =>
                  /\ InPriorityOrder(Tail(list))
                  /\ \A t \in ToSet(list) : t = Head(list) \/ uxPriority[Head(list)] >= uxPriority[t]
<1>1. /\ DOMAIN list = 1..Len(list) /\ Len(list) \in Nat \ {0}
      /\ Head(list) = list[1] /\ 1 \in DOMAIN list
  BY NonEmptyList
<1>2. /\ Tail(list) \in Seq(Task)
      /\ DOMAIN Tail(list) = 1..Len(list) - 1
      /\ \A i \in 1..Len(list) - 1 : Tail(list)[i] = list[i + 1]
  <2>1. /\ Tail(list) \in Seq(Task)
        /\ Len(Tail(list)) = Len(list) - 1
        /\ \A i \in 1..Len(Tail(list)) : Tail(list)[i] = list[i + 1]
    BY HeadTailProperties
  <2> QED BY <2>1, LenProperties
<1>3. \A i \in 1..Len(list) - 1 : i + 1 \in 1..Len(list) /\ i + 1 # 1
  BY <1>1
<1>4. \A j \in 1..Len(list) : j # 1 => j - 1 \in 1..Len(list) - 1 /\ (j - 1) + 1 = j
  BY <1>1
<1>5. ToSet(Tail(list)) = ToSet(list) \ {Head(list)}
  <2>1. ASSUME NEW i \in 1..Len(list) - 1
        PROVE  Tail(list)[i] \in ToSet(list) \ {Head(list)}
    BY <1>1, <1>2, <1>3 DEF ToSet, NoDuplicates
  <2>2. ASSUME NEW j \in 1..Len(list), list[j] # Head(list)
        PROVE  list[j] \in ToSet(Tail(list))
    <3>1. j # 1
      BY <1>1, <2>2
    <3>2. j - 1 \in 1..Len(list) - 1 /\ (j - 1) + 1 = j
      BY <1>4, <3>1
    <3> QED BY <1>2, <3>2 DEF ToSet
  <2> QED BY <1>1, <1>2, <2>1, <2>2 DEF ToSet
<1>6. NoDuplicates(Tail(list))
  <2>1. ASSUME NEW i \in 1..Len(list) - 1, NEW j \in 1..Len(list) - 1, Tail(list)[i] = Tail(list)[j]
        PROVE  i = j
    <3>1. i + 1 = j + 1
      BY <1>1, <1>2, <1>3, <2>1 DEF NoDuplicates
    <3> QED BY <3>1
  <2> QED BY <1>2, <2>1 DEF NoDuplicates
<1>7. ASSUME InPriorityOrder(list)
      PROVE  InPriorityOrder(Tail(list))
  <2>1. ASSUME NEW i \in 1..Len(list) - 1, NEW j \in 1..Len(list) - 1, i < j
        PROVE  uxPriority[Tail(list)[i]] >= uxPriority[Tail(list)[j]]
    <3>1. i + 1 < j + 1
      BY <2>1
    <3> QED BY <1>1, <1>2, <1>3, <1>7, <3>1 DEF InPriorityOrder
  <2> QED BY <1>2, <2>1 DEF InPriorityOrder
<1>8. ASSUME InPriorityOrder(list), NEW t \in ToSet(list), t # Head(list)
      PROVE  uxPriority[Head(list)] >= uxPriority[t]
  <2>1. PICK j \in 1..Len(list) : t = list[j]
    BY <1>1 DEF ToSet
  <2>2. 1 < j
    BY <1>1, <1>8, <2>1
  <2> QED BY <1>1, <1>8, <2>1, <2>2 DEF InPriorityOrder
<1>9. Head(list) \in ToSet(list) /\ Head(list) \in Task
  <2>1. Head(list) \in ToSet(list)
    BY <1>1 DEF ToSet
  <2> QED BY <2>1, <1>1, ElementOfSeq
<1> QED BY <1>2, <1>5, <1>6, <1>7, <1>8, <1>9

(* The first n tasks of a list without duplicates are n tasks, and the     *)
(* rest of the list is the others.                                         *)
LEMMA SubSeqFacts ==
    ASSUME NEW list \in Seq(Task), NEW n \in 0..Len(list), NoDuplicates(list)
    PROVE  LET rest == SubSeq(list, n + 1, Len(list))
               first == {list[i] : i \in 1..n}
           IN  /\ rest \in Seq(Task)
               /\ ToSet(rest) = ToSet(list) \ first
               /\ NoDuplicates(rest)
               /\ rest # <<>> => n < Len(list)
               /\ first \subseteq ToSet(list)
               /\ IsFiniteSet(first)
               /\ Cardinality(first) = n
<1> DEFINE rest == SubSeq(list, n + 1, Len(list))
           first == {list[i] : i \in 1..n}
<1>1. DOMAIN list = 1..Len(list) /\ Len(list) \in Nat
  BY LenProperties
<1>2. /\ rest \in Seq(Task)
      /\ Len(rest) = Len(list) - n
      /\ DOMAIN rest = 1..Len(list) - n
      /\ \A i \in 1..Len(list) - n : rest[i] = list[n + i]
  <2>1. \A i \in n + 1..Len(list) : list[i] \in Task
    BY <1>1, ElementOfSeq
  <2>2. /\ rest \in Seq(Task)
        /\ Len(rest) = IF n + 1 <= Len(list) THEN Len(list) - (n + 1) + 1 ELSE 0
        /\ \A i \in 1..Len(list) - (n + 1) + 1 : rest[i] = list[(n + 1) + i - 1]
    BY <1>1, <2>1, SubSeqProperties
  <2> HIDE DEF rest
  <2>3. Len(rest) = Len(list) - n
    <3>1. Len(list) \in Nat /\ n \in Nat /\ n <= Len(list)
      BY LenProperties
    <3>2. CASE n < Len(list)
      <4>1. n + 1 <= Len(list) /\ Len(list) - (n + 1) + 1 = Len(list) - n
        BY <3>1, <3>2
      <4> QED BY <4>1, <2>2
    <3>3. CASE ~(n < Len(list))
      <4>1. ~(n + 1 <= Len(list)) /\ Len(list) - n = 0
        BY <3>1, <3>3
      <4> QED BY <4>1, <2>2
    <3> QED BY <3>2, <3>3
  <2>4. ASSUME NEW i \in 1..Len(list) - n
        PROVE  rest[i] = list[n + i]
    <3>1. i \in 1..Len(list) - (n + 1) + 1 /\ (n + 1) + i - 1 = n + i
      BY <1>1
    <3> QED BY <3>1, <2>2
  <2> QED BY <2>2, <2>3, <2>4, LenProperties
<1>3. first \subseteq ToSet(list)
  BY <1>1 DEF ToSet
<1>4. /\ IsFiniteSet(first)
      /\ Cardinality(first) = n
  <2> DEFINE f == [i \in 1..n |-> list[i]]
  <2>1. f \in Bijection(1..n, first)
    BY <1>1 DEF Bijection, Injection, Surjection, IsInjective, NoDuplicates
  <2>2. ExistsBijection(1..n, first)
    BY <2>1 DEF ExistsBijection
  <2> QED BY <2>2, FS_Bijection, FS_Interval
<1> HIDE DEF rest
<1>5. ASSUME NEW i \in 1..Len(list) - n
      PROVE  rest[i] \in ToSet(list) \ first
  <2>1. n + i \in 1..Len(list) /\ n + i > n /\ rest[i] = list[n + i]
    BY <1>1, <1>2
  <2>2. \A k \in 1..n : k \in 1..Len(list) /\ k # n + i
    BY <1>1
  <2> QED BY <1>1, <2>1, <2>2 DEF ToSet, NoDuplicates
<1>6. ASSUME NEW t \in ToSet(list), t \notin first
      PROVE  t \in ToSet(rest)
  <2>1. PICK k \in 1..Len(list) : t = list[k]
    BY <1>1 DEF ToSet
  <2>2. k > n /\ k - n \in 1..Len(list) - n /\ n + (k - n) = k
    BY <2>1, <1>6, <1>1
  <2> QED BY <2>1, <2>2, <1>2 DEF ToSet
<1>7. ToSet(rest) = ToSet(list) \ first
  BY <1>2, <1>5, <1>6 DEF ToSet
<1>8. NoDuplicates(rest)
  <2>1. \A i \in 1..Len(list) - n : n + i \in 1..Len(list)
    BY <1>1
  <2>2. ASSUME NEW i \in 1..Len(list) - n, NEW j \in 1..Len(list) - n, rest[i] = rest[j]
        PROVE  i = j
    <3>1. n + i = n + j
      BY <1>1, <1>2, <2>1, <2>2 DEF NoDuplicates
    <3> QED BY <3>1
  <2> QED BY <1>2, <2>2 DEF NoDuplicates
<1>9. rest # <<>> => n < Len(list)
  BY <1>1, <1>2, EmptySeq
<1> QED BY <1>2, <1>3, <1>4, <1>7, <1>8, <1>9 DEF rest

-----------------------------------------------------------------------------
(* What the operators of Sched do to the lists.                            *)

(* No event list holds a task twice, or one that is ready or pending       *)
(* ready, and tasks are pending ready only while the scheduler is          *)
(* suspended.                                                              *)
ListsOK ==
    /\ \A l \in EventLists : NoDuplicates(eventList[l])
    /\ \A l \in EventLists : \A t \in OnList(l) : t \notin Ready /\ t \notin xPendingReadyList
    /\ \A t \in xPendingReadyList : t \notin Ready /\ uxSchedulerSuspended # 0

(* xTaskRemoveFromEventList takes tasks from one list only and makes each  *)
(* of them ready or pending ready.                                         *)
LEMMA RemoveFromEventListFacts ==
    ASSUME SchedTypeOK, ListsOK, uxSchedulerSuspended' = uxSchedulerSuspended,
           NEW l \in EventLists, NEW n \in 0..Len(eventList[l]),
           xTaskRemoveFromEventList(l, n)
    PROVE  /\ eventList' \in [EventLists -> Seq(Task)]
           /\ xStateListItem' \in [Task -> {"ready", "delayed", "suspended"}]
           /\ xPendingReadyList' \in SUBSET Task
           /\ xYieldPending' \in BOOLEAN
           /\ \A k \in EventLists : NoDuplicates(eventList'[k])
           /\ OnList(l)' = OnList(l) \ FirstOf(l, n)
           /\ \A k \in EventLists \ {l} : OnList(k)' = OnList(k)
           /\ \A k \in EventLists : eventList'[k] # <<>> => eventList[k] # <<>>
           /\ eventList'[l] # <<>> => n < Len(eventList[l])
           /\ FirstOf(l, n) \subseteq OnList(l)
           /\ IsFiniteSet(FirstOf(l, n)) /\ Cardinality(FirstOf(l, n)) = n
           /\ Ready' \cup xPendingReadyList' = Ready \cup xPendingReadyList \cup FirstOf(l, n)
           /\ Ready \subseteq Ready'
           /\ \A t \in xPendingReadyList' : t \notin Ready' /\ uxSchedulerSuspended' # 0
<1> DEFINE list == eventList[l]
           rest == SubSeq(list, n + 1, Len(list))
<1>1. list \in Seq(Task) /\ NoDuplicates(list) /\ FirstOf(l, n) = {list[i] : i \in 1..n}
  BY DEF SchedTypeOK, ListsOK, FirstOf
<1>2. /\ rest \in Seq(Task)
      /\ ToSet(rest) = ToSet(list) \ FirstOf(l, n)
      /\ NoDuplicates(rest)
      /\ rest # <<>> => n < Len(list)
      /\ FirstOf(l, n) \subseteq ToSet(list)
      /\ IsFiniteSet(FirstOf(l, n))
      /\ Cardinality(FirstOf(l, n)) = n
  BY <1>1, SubSeqFacts
<1>3. eventList' = [eventList EXCEPT ![l] = rest] /\ eventList \in [EventLists -> Seq(Task)]
  BY DEF xTaskRemoveFromEventList, SchedTypeOK
<1>4. OnList(l) \subseteq Task
  BY <1>1 DEF OnList, ToSet
<1> HIDE DEF rest
<1>5. /\ eventList' \in [EventLists -> Seq(Task)]
      /\ \A k \in EventLists : NoDuplicates(eventList'[k])
      /\ OnList(l)' = OnList(l) \ FirstOf(l, n)
      /\ \A k \in EventLists \ {l} : OnList(k)' = OnList(k)
      /\ eventList'[l] # <<>> => n < Len(eventList[l])
      /\ FirstOf(l, n) \subseteq OnList(l)
  BY <1>2, <1>3 DEF OnList, ListsOK
<1>6. \A k \in EventLists : eventList'[k] # <<>> => eventList[k] # <<>>
  <2>1. list = <<>> => Len(list) = 0
    BY <1>1
  <2> QED BY <1>2, <1>3, <2>1
<1>7. FirstOf(l, n) \subseteq Task /\ \A t \in FirstOf(l, n) : t \notin Ready /\ t \notin xPendingReadyList
  BY <1>4, <1>5 DEF ListsOK
<1>8. /\ xStateListItem' \in [Task -> {"ready", "delayed", "suspended"}]
      /\ xPendingReadyList' \in SUBSET Task
      /\ xYieldPending' \in BOOLEAN
  BY <1>7 DEF xTaskRemoveFromEventList, SchedTypeOK
<1>9. /\ Ready' \cup xPendingReadyList' = Ready \cup xPendingReadyList \cup FirstOf(l, n)
      /\ Ready \subseteq Ready'
      /\ \A t \in xPendingReadyList' : t \notin Ready' /\ uxSchedulerSuspended' # 0
  <2>1. CASE uxSchedulerSuspended = 0
    BY <2>1, <1>7 DEF xTaskRemoveFromEventList, Ready, ListsOK, SchedTypeOK
  <2>2. CASE uxSchedulerSuspended # 0
    BY <2>2, <1>7 DEF xTaskRemoveFromEventList, Ready, ListsOK, SchedTypeOK
  <2> QED BY <2>1, <2>2
<1> QED BY <1>2, <1>5, <1>6, <1>8, <1>9

(* A tick, or the pended ticks, that wake delayed tasks take them from     *)
(* their event list too.                                                   *)
LEMMA ExpireListsFacts ==
    ASSUME SchedTypeOK, NEW X \in SUBSET Task,
           NEW item \in [Task -> {"ready", "delayed", "suspended"}], Expire(X, item)
    PROVE  LET woken == {t \in X : item[t] = "delayed"}
           IN  /\ eventList' \in [EventLists -> Seq(Task)]
               /\ \A k \in EventLists : NoDuplicates(eventList'[k])
               /\ \A k \in EventLists : OnList(k)' = OnList(k) \ woken
               /\ \A k \in EventLists : eventList'[k] # <<>> => eventList[k] # <<>>
               /\ xStateListItem' \in [Task -> {"ready", "delayed", "suspended"}]
               /\ deadline' \in [Task -> {"none", "armed", "expired"}]
               /\ Ready' = {t \in Task : item[t] = "ready"} \cup woken
<1> DEFINE woken == {t \in X : item[t] = "delayed"}
<1>1. /\ eventList \in [EventLists -> Seq(Task)]
      /\ deadline \in [Task -> {"none", "armed", "expired"}]
  BY DEF SchedTypeOK
<1>2. \A k \in EventLists : eventList'[k] \in ListRemove(eventList[k], woken)
  BY DEF Expire
<1>3. \A k \in EventLists : /\ eventList'[k] \in Seq(Task)
                            /\ ToSet(eventList'[k]) = ToSet(eventList[k]) \ woken
                            /\ NoDuplicates(eventList'[k])
  BY <1>1, <1>2, ListRemoveFacts
<1>4. eventList' \in [EventLists -> Seq(Task)]
  BY <1>3 DEF Expire
<1>5. ASSUME NEW k \in EventLists, eventList'[k] # <<>>
      PROVE  eventList[k] # <<>>
  <2>1. 1 \in DOMAIN eventList'[k]
    BY <1>3, <1>5, NonEmptyList
  <2>2. eventList'[k][1] \in ToSet(eventList[k])
    BY <1>3, <2>1 DEF ToSet
  <2> QED BY <2>2 DEF ToSet
<1>6. /\ xStateListItem' \in [Task -> {"ready", "delayed", "suspended"}]
      /\ deadline' \in [Task -> {"none", "armed", "expired"}]
      /\ Ready' = {t \in Task : item[t] = "ready"} \cup woken
  BY <1>1 DEF Expire, Ready
<1> QED BY <1>3, <1>4, <1>5, <1>6 DEF OnList

(* The scheduler starts with variables of their types.                     *)
LEMMA SchedInitFacts ==
    ASSUME SchedInit
    PROVE  /\ SchedTypeOK
           /\ Ready = Task /\ Armed = {}
           /\ \A l \in EventLists : OnList(l) = {} /\ NoDuplicates(eventList[l])
<1>1. /\ pxCurrentTCB \in Task
      /\ uxPriority \in [Task -> 0..MaxPriorities - 1]
      /\ uxSchedulerSuspended \in 0..MaxNesting
  BY TaskAssumption DEF SchedInit
<1>2. SchedTypeOK
  <2>1. <<>> \in Seq(Task)
    OBVIOUS
  <2>2. eventList \in [EventLists -> Seq(Task)]
    BY <2>1 DEF SchedInit
  <2>3. /\ xStateListItem \in [Task -> {"ready", "delayed", "suspended"}]
        /\ deadline \in [Task -> {"none", "armed", "expired"}]
    BY DEF SchedInit
  <2> QED BY <1>1, <2>2, <2>3 DEF SchedInit, SchedTypeOK
<1>3. \A l \in EventLists : OnList(l) = {} /\ NoDuplicates(eventList[l])
  BY DEF SchedInit, OnList, ToSet, NoDuplicates
<1> QED BY <1>2, <1>3 DEF SchedInit, Ready, Armed

-----------------------------------------------------------------------------
(* Priorities: the switch a ready task of higher priority waits for.  As   *)
(* long as nobody changes a priority, Preempts says the same of a set      *)
(* before and after a step of the running task.                            *)

(* One more woken task that preempts sets xYieldPending.                   *)
LEMMA WakingOwesSwitch ==
    ASSUME SchedTypeOK, SwitchIsComing, NEW l \in EventLists, NEW n \in Nat,
           xTaskRemoveFromEventList(l, n),
           UNCHANGED <<uxPriority, pxCurrentTCB>>,
           pendSV => pendSV'
    PROVE  SwitchIsComing'
<1> SUFFICES ASSUME Preempts(Ready)', ~pendSV'
             PROVE  xYieldPending'
  BY DEF SwitchIsComing
<1>1. PICK t \in Ready' : uxPriority[t] > uxPriority[pxCurrentTCB]
  BY DEF Preempts
<1>2. t \in Ready \/ t \in FirstOf(l, n)
  BY <1>1 DEF xTaskRemoveFromEventList, Ready
<1>3. CASE t \in Ready
  <2>1. xYieldPending
    BY <1>1, <1>3 DEF Preempts, SwitchIsComing
  <2> QED BY <2>1 DEF xTaskRemoveFromEventList
<1>4. CASE t \in FirstOf(l, n)
  <2>1. Preempts(FirstOf(l, n))
    BY <1>1, <1>4 DEF Preempts
  <2> QED BY <2>1 DEF xTaskRemoveFromEventList
<1> QED BY <1>2, <1>3, <1>4

(* xTaskResumeAll yields for what it makes ready.                          *)
LEMMA ResumingOwesSwitch ==
    ASSUME SchedTypeOK, SwitchIsComing, NEW X, ~pendSV, xTaskResumeAll(X),
           UNCHANGED <<uxPriority, pxCurrentTCB>>
    PROVE  SwitchIsComing'
<1>1. CASE uxSchedulerSuspended = 1
  <2> DEFINE woken == {t \in X : PendingMadeReady[t] = "delayed"}
  <2>1. /\ X \subseteq (IF ticksPended THEN Armed ELSE {})
        /\ Expire(X, PendingMadeReady)
        /\ xYieldPending' = AlreadyYielded(X)
    BY <1>1 DEF xTaskResumeAll
  <2> SUFFICES ASSUME Preempts(Ready)'
               PROVE  AlreadyYielded(X)
    BY <2>1 DEF SwitchIsComing
  <2>2. PICK t \in Ready' : uxPriority[t] > uxPriority[pxCurrentTCB]
    BY DEF Preempts
  <2>3. t \in Ready \/ t \in xPendingReadyList \/ (ticksPended /\ t \in woken)
    <3>1. t \in Task /\ (t \in woken \/ PendingMadeReady[t] = "ready")
      BY <2>1, <2>2 DEF Expire, Ready
    <3>2. t \in woken => ticksPended
      BY <2>1
    <3> QED BY <3>1, <3>2 DEF PendingMadeReady, Ready
  <2>4. CASE t \in Ready
    BY <1>1, <2>2, <2>4 DEF AlreadyYielded, SwitchIsComing, Preempts
  <2>5. CASE t \in xPendingReadyList
    <3>1. uxPriority[t] \in Int /\ uxPriority[pxCurrentTCB] \in Int
      BY <2>5, TaskAssumption DEF SchedTypeOK
    <3>2. uxPriority[t] >= uxPriority[pxCurrentTCB]
      BY <2>2, <3>1
    <3> QED BY <1>1, <2>5, <3>2 DEF AlreadyYielded
  <2>6. CASE ticksPended /\ t \in woken
    BY <1>1, <2>2, <2>6 DEF AlreadyYielded, SwitchRequired, Preempts
  <2> QED BY <2>3, <2>4, <2>5, <2>6
<1>2. CASE uxSchedulerSuspended # 1
  BY <1>2 DEF xTaskResumeAll, SwitchIsComing, Preempts, Ready
<1> QED BY <1>1, <1>2

(* The tick pends the switch for what it wakes and for what was owed.      *)
LEMMA TickOwesSwitch ==
    ASSUME SwitchIsComing, NEW X, xTaskIncrementTick(X),
           UNCHANGED <<uxPriority, pxCurrentTCB, xYieldPending>>
    PROVE  SwitchIsComing'
<1>1. CASE uxSchedulerSuspended = 0
  <2>1. /\ Expire(X, xStateListItem)
        /\ pendSV' = (pendSV \/ SwitchRequired(X, xStateListItem) \/ xYieldPending)
    BY <1>1 DEF xTaskIncrementTick
  <2> SUFFICES ASSUME Preempts(Ready)'
               PROVE  pendSV'
    BY DEF SwitchIsComing
  <2>2. PICK t \in Ready' : uxPriority[t] > uxPriority[pxCurrentTCB]
    BY DEF Preempts
  <2>3. t \in Ready \/ t \in {u \in X : xStateListItem[u] = "delayed"}
    BY <2>1, <2>2 DEF Expire, Ready
  <2>4. CASE t \in Ready
    BY <2>1, <2>2, <2>4 DEF SwitchIsComing, Preempts
  <2>5. CASE t \in {u \in X : xStateListItem[u] = "delayed"}
    BY <2>1, <2>2, <2>5 DEF SwitchRequired, Preempts
  <2> QED BY <2>3, <2>4, <2>5
<1>2. CASE uxSchedulerSuspended # 0
  BY <1>2 DEF xTaskIncrementTick, SwitchIsComing, Preempts, Ready
<1> QED BY <1>1, <1>2

(* vTaskPrioritySet yields when the running task is no longer the highest. *)
LEMMA PrioritySetOwesSwitch ==
    ASSUME SchedTypeOK, SwitchIsComing, ~pendSV, NEW u \in Task, NEW p \in 0..MaxPriorities - 1,
           vTaskPrioritySet(u, p),
           UNCHANGED <<pxCurrentTCB, xStateListItem, xYieldPending>>
    PROVE  SwitchIsComing'
<1>1. /\ uxPriority \in [Task -> 0..MaxPriorities - 1]
      /\ pxCurrentTCB \in Task
      /\ \A t \in Task : uxPriority[t] \in Int
      /\ p \in Int
  BY TaskAssumption DEF SchedTypeOK
<1>2. \A t \in Task : uxPriority'[t] = IF t = u THEN p ELSE uxPriority[t]
  BY <1>1 DEF vTaskPrioritySet
<1> SUFFICES ASSUME Preempts(Ready)', ~xYieldPending
             PROVE  pendSV'
  BY DEF SwitchIsComing
<1>3. PICK t \in Ready : uxPriority'[t] > uxPriority'[pxCurrentTCB]
  BY DEF Preempts, Ready
<1>4. t \in Task /\ ~(uxPriority[t] > uxPriority[pxCurrentTCB])
  BY DEF SwitchIsComing, Preempts, Ready
<1>5. CASE u = pxCurrentTCB
  <2>1. t # u
    BY <1>1, <1>2, <1>3, <1>5
  <2>2. p < uxPriority[u]
    BY <1>1, <1>2, <1>3, <1>4, <1>5, <2>1
  <2> QED BY <1>5, <2>2 DEF vTaskPrioritySet
<1>6. CASE u # pxCurrentTCB
  <2>1. t = u
    BY <1>1, <1>2, <1>3, <1>4, <1>6
  <2>2. p > uxPriority[u] /\ p >= uxPriority[pxCurrentTCB]
    BY <1>1, <1>2, <1>3, <1>4, <1>6, <2>1
  <2> QED BY <1>6, <2>2 DEF vTaskPrioritySet
<1> QED BY <1>5, <1>6

(* The switch selects one of the highest ready tasks, or stays owed.       *)
LEMMA SwitchPaid ==
    ASSUME SchedTypeOK, vTaskSwitchContext, UNCHANGED <<uxPriority, xStateListItem>>
    PROVE  SwitchIsComing'
<1>1. CASE uxSchedulerSuspended # 0
  BY <1>1 DEF vTaskSwitchContext, SwitchIsComing
<1>2. CASE uxSchedulerSuspended = 0
  <2>1. pxCurrentTCB' \in HighestReady
    BY <1>2 DEF vTaskSwitchContext
  <2>2. \A t \in Ready : uxPriority[t] <= uxPriority[pxCurrentTCB']
    BY <2>1 DEF HighestReady
  <2>3. \A t \in Ready : uxPriority[t] \in Int /\ uxPriority[pxCurrentTCB'] \in Int
    BY <2>1, TaskAssumption DEF SchedTypeOK, Ready, HighestReady
  <2> QED BY <2>2, <2>3 DEF SwitchIsComing, Preempts, Ready
<1> QED BY <1>1, <1>2

(* A task of the highest priority starts.                                  *)
LEMMA NoSwitchOwedAtStart ==
    ASSUME SchedInit
    PROVE  SwitchIsComing
<1>1. \A t \in Task : BasePriority[t] <= BasePriority[pxCurrentTCB]
  BY DEF SchedInit
<1>2. \A t \in Task : BasePriority[t] \in Int /\ BasePriority[pxCurrentTCB] \in Int
  BY TaskAssumption DEF SchedInit
<1> QED BY <1>1, <1>2 DEF SwitchIsComing, Preempts, SchedInit, Ready

-----------------------------------------------------------------------------
(* The order of the event lists.                                           *)

(* What xTaskRemoveFromEventList leaves is still in order.                 *)
LEMMA WakingKeepsListsInOrder ==
    ASSUME SchedTypeOK, ListsInOrder, UNCHANGED uxPriority,
           NEW l \in EventLists, NEW n \in 0..Len(eventList[l]),
           xTaskRemoveFromEventList(l, n)
    PROVE  ListsInOrder'
<1> DEFINE list == eventList[l]
           rest == SubSeq(list, n + 1, Len(list))
<1>1. list \in Seq(Task) /\ InPriorityOrder(list)
  BY DEF SchedTypeOK, ListsInOrder
<1>2. DOMAIN list = 1..Len(list) /\ Len(list) \in Nat /\ n \in Nat /\ n <= Len(list)
  BY <1>1, LenProperties
<1>3. Len(rest) = Len(list) - n /\ \A i \in 1..Len(rest) : rest[i] = list[n + i]
  <2>1. \A i \in n + 1..Len(list) : list[i] \in Task
    BY <1>1, <1>2, ElementOfSeq
  <2>2. /\ rest \in Seq(Task)
        /\ Len(rest) = IF n + 1 <= Len(list) THEN Len(list) - (n + 1) + 1 ELSE 0
        /\ \A i \in 1..Len(list) - (n + 1) + 1 : rest[i] = list[(n + 1) + i - 1]
    BY <1>2, <2>1, SubSeqProperties
  <2> HIDE DEF rest, list
  <2>b. n + 1 <= Len(list) => Len(list) - (n + 1) + 1 = Len(list) - n
    BY <1>2
  <2>c. \A k \in Nat : n <= k /\ ~(n + 1 <= k) => k - n = 0
    BY <1>2
  <2>3. Len(rest) = Len(list) - n
    BY <1>2, <2>2, <2>b, <2>c
  <2>4. \A i \in 1..Len(list) - n :
            i \in 1..Len(list) - (n + 1) + 1 /\ (n + 1) + i - 1 = n + i
    BY <1>2
  <2> QED BY <2>2, <2>3, <2>4
<1>4. DOMAIN rest = 1..Len(list) - n
  BY <1>3
<1>5. ASSUME NEW i \in 1..Len(list) - n, NEW j \in 1..Len(list) - n, i < j
      PROVE  uxPriority[rest[i]] >= uxPriority[rest[j]]
  <2>1. n + i \in 1..Len(list) /\ n + j \in 1..Len(list) /\ n + i < n + j
    BY <1>2, <1>5
  <2> HIDE DEF rest, list
  <2>2. rest[i] = list[n + i] /\ rest[j] = list[n + j]
    BY <1>3
  <2> QED BY <1>1, <1>2, <2>1, <2>2 DEF InPriorityOrder
<1>6. InPriorityOrder(rest)
  BY <1>4, <1>5 DEF InPriorityOrder
<1>7. eventList' = [eventList EXCEPT ![l] = rest] /\ eventList \in [EventLists -> Seq(Task)]
  BY DEF xTaskRemoveFromEventList, SchedTypeOK
<1> QED BY <1>6, <1>7 DEF ListsInOrder, InPriorityOrder

(* So is what the tick leaves.                                             *)
LEMMA ExpiringKeepsListsInOrder ==
    ASSUME SchedTypeOK, ListsInOrder, UNCHANGED uxPriority, NEW X, NEW item, Expire(X, item)
    PROVE  ListsInOrder'
<1> DEFINE woken == {t \in X : item[t] = "delayed"}
<1>1. \A l \in EventLists : eventList'[l] \in ListRemove(eventList[l], woken)
  BY DEF Expire
<1>2. \A l \in EventLists : eventList[l] \in Seq(Task) /\ InPriorityOrder(eventList[l])
  BY DEF SchedTypeOK, ListsInOrder
<1>3. \A l \in EventLists : InPriorityOrder(eventList'[l])
  BY <1>1, <1>2, RemoveKeepsOrder
<1> QED BY <1>3 DEF ListsInOrder, InPriorityOrder

(* A task goes in where its priority puts it.                              *)
LEMMA PlacingKeepsListsInOrder ==
    ASSUME SchedTypeOK, ListsInOrder, UNCHANGED uxPriority, NEW l \in EventLists, NEW forever,
           vTaskPlaceOnEventList(l, forever)
    PROVE  ListsInOrder'
<1>1. PICK s \in ListInsert(eventList[l], pxCurrentTCB) :
          eventList' = [eventList EXCEPT ![l] = s]
  BY DEF vTaskPlaceOnEventList
<1>2. InPriorityOrder(s)
  BY InsertKeepsOrder DEF SchedTypeOK, ListsInOrder
<1>3. eventList \in [EventLists -> Seq(Task)]
  BY DEF SchedTypeOK
<1> QED BY <1>1, <1>2, <1>3 DEF ListsInOrder, InPriorityOrder
=============================================================================
