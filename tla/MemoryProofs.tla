---------------------------- MODULE MemoryProofs ----------------------------
(***************************************************************************)
(* The storage area of a queue and the heap, for every size of theirs.     *)
(* The ring buffer of QueueStorage implements the bounded sequence of      *)
(* DequeSpec, for queues of every length and items of every kind; the free *)
(* list of Heap is exact, and Heap implements PoolSpec, for arrays of      *)
(* every size that holds a block, at every address, every alignment and    *)
(* every request.                                                          *)
(*                                                                         *)
(* Of the heap: first numbers (alignment, least members, bytes counted),   *)
(* then what a walk over the list finds (Chain), what makes the headers    *)
(* sound (Sound) and that the four things that are done to the list keep   *)
(* it, then the operations of heap_4 as compositions of these (PutMerged,  *)
(* Take), and last the actions and the two theorems.                       *)
(***************************************************************************)
EXTENDS QueueStorage, Heap, SequenceTheorems, FiniteSetTheorems, WellFoundedInduction, TLAPS

-----------------------------------------------------------------------------
(* Walking round the ring, as the code does it, is counting round it.      *)

(* From a slot, i items further is a slot, when i is at most one turn and  *)
(* one: this is as far as any operation reaches.                           *)
LEMMA WrapInRange ==
    ASSUME uxLength \in Nat \ {0}, NEW p \in 0..uxLength - 1, NEW i \in 0..uxLength + 1
    PROVE  Wrap(p + i) \in 0..uxLength - 1
BY DEF Wrap

(* Advancing the read pointer makes the second item the first.             *)
LEMMA WrapForwards ==
    ASSUME uxLength \in Nat \ {0}, NEW p \in 0..uxLength - 1, NEW i \in 0..uxLength
    PROVE  /\ Forwards(p) \in 0..uxLength - 1
           /\ Wrap(Forwards(p) + i) = Wrap(p + i + 1)
           /\ Forwards(Wrap(p + i)) = Wrap(p + i + 1)
BY DEF Wrap, Forwards, pcHead, pcTail

(* Stepping back the read pointer makes the first item the second.         *)
LEMMA WrapBackwards ==
    ASSUME uxLength \in Nat \ {0}, NEW p \in 0..uxLength - 1, NEW i \in 1..uxLength + 1
    PROVE  /\ Backwards(p) \in 0..uxLength - 1
           /\ Wrap(Backwards(p) + i) = Wrap(p + i - 1)
BY DEF Wrap, Backwards, pcHead, pcTail

(* Different items of the queue are in different slots, and the slot last  *)
(* read holds none of them unless the queue is full.                       *)
LEMMA WrapInjective ==
    ASSUME uxLength \in Nat \ {0}, NEW p \in 0..uxLength - 1,
           NEW i \in 0..uxLength - 1, NEW j \in 0..uxLength - 1, i # j
    PROVE  Wrap(p + i) # Wrap(p + j) /\ Wrap(p + i + 1) # Wrap(p + j + 1)
BY DEF Wrap

-----------------------------------------------------------------------------
(* Sequences given by a function.                                          *)

(* A function on 1..n is a sequence of length n.                           *)
LEMMA FunctionIsSeq ==
    ASSUME NEW S, NEW n \in Nat, NEW f \in [1..n -> S]
    PROVE  f \in Seq(S) /\ Len(f) = n /\ DOMAIN f = 1..n
OBVIOUS

(* The items of the storage area are a sequence of their count.            *)
LEMMA ItemsIsSeq ==
    ASSUME StorageTypeOK, uxLength \in Nat \ {0}
    PROVE  /\ Items \in Seq(Item)
           /\ Len(Items) = uxMessagesWaiting
           /\ \A i \in 1..uxMessagesWaiting : Items[i] = storage[Slot(i)]
<1>1. \A i \in 1..uxMessagesWaiting : Slot(i) \in 0..uxLength - 1
  BY WrapInRange DEF StorageTypeOK, Slot, pcHead, pcTail
<1>2. Items \in [1..uxMessagesWaiting -> Item]
  BY <1>1 DEF StorageTypeOK, Items, pcHead, pcTail
<1> QED
  BY <1>2, FunctionIsSeq DEF StorageTypeOK, Items
(* The sequence operators of DequeSpec, as functions.                      *)
LEMMA AppendIsFunction ==
    ASSUME NEW S, NEW s \in Seq(S), NEW e \in S
    PROVE  Append(s, e) = [i \in 1..Len(s) + 1 |-> IF i = Len(s) + 1 THEN e ELSE s[i]]
<1> DEFINE f == [i \in 1..Len(s) + 1 |-> IF i = Len(s) + 1 THEN e ELSE s[i]]
<1>1. Len(s) \in Nat /\ \A i \in 1..Len(s) : s[i] \in S
  BY LenProperties
<1>2. f \in [1..Len(s) + 1 -> S]
  BY <1>1
<1>3. f \in Seq(S) /\ Len(f) = Len(s) + 1
  BY <1>1, <1>2, FunctionIsSeq
<1>4. /\ Append(s, e) \in Seq(S)
      /\ Len(Append(s, e)) = Len(s) + 1
      /\ \A i \in 1..Len(s) : Append(s, e)[i] = s[i]
      /\ Append(s, e)[Len(s) + 1] = e
  BY AppendProperties
<1>5. \A i \in 1..Len(f) : Append(s, e)[i] = f[i]
  BY <1>1, <1>3, <1>4
<1> QED
  BY <1>3, <1>4, <1>5, SeqEqual

(* What a sequence with one item more in front is, index by index.         *)
LEMMA PrependIsFunction ==
    ASSUME NEW S, NEW s \in Seq(S), NEW e \in S
    PROVE  <<e>> \o s = [i \in 1..Len(s) + 1 |-> IF i = 1 THEN e ELSE s[i - 1]]
<1> DEFINE f == [i \in 1..Len(s) + 1 |-> IF i = 1 THEN e ELSE s[i - 1]]
<1>1. <<e>> \in Seq(S) /\ Len(<<e>>) = 1 /\ <<e>>[1] = e
  OBVIOUS
<1>2. Len(s) \in Nat /\ \A i \in 1..Len(s) : s[i] \in S
  BY LenProperties
<1>3. f \in [1..Len(s) + 1 -> S]
  <2> SUFFICES ASSUME NEW i \in 1..Len(s) + 1, i # 1 PROVE s[i - 1] \in S
    OBVIOUS
  <2> QED BY <1>2
<1>4. f \in Seq(S) /\ Len(f) = Len(s) + 1
  BY <1>2, <1>3, FunctionIsSeq
<1>5. /\ <<e>> \o s \in Seq(S)
      /\ Len(<<e>> \o s) = 1 + Len(s)
      /\ \A i \in 1..1 + Len(s) : (<<e>> \o s)[i] = IF i <= 1 THEN <<e>>[i] ELSE s[i - 1]
  BY <1>1, ConcatProperties
<1>6. \A i \in 1..Len(f) : (<<e>> \o s)[i] = f[i]
  BY <1>1, <1>2, <1>4, <1>5
<1> QED
  BY <1>2, <1>4, <1>5, <1>6, SeqEqual

(* What is left of a sequence without its first item, index by index.      *)
LEMMA TailIsFunction ==
    ASSUME NEW S, NEW s \in Seq(S), s # <<>>
    PROVE  Head(s) = s[1] /\ Tail(s) = [i \in 1..Len(s) - 1 |-> s[i + 1]]
<1> DEFINE f == [i \in 1..Len(s) - 1 |-> s[i + 1]]
<1>1. Len(s) \in Nat \ {0} /\ \A i \in 1..Len(s) : s[i] \in S
  BY LenProperties, EmptySeq
<1>2. f \in [1..Len(s) - 1 -> S]
  <2> SUFFICES ASSUME NEW i \in 1..Len(s) - 1 PROVE s[i + 1] \in S
    OBVIOUS
  <2> QED BY <1>1, i + 1 \in 1..Len(s)
<1>3. f \in Seq(S) /\ Len(f) = Len(s) - 1
  BY <1>1, <1>2, FunctionIsSeq, Len(s) - 1 \in Nat
<1>4. \A i \in 1..Len(Tail(s)) : Tail(s)[i] = f[i]
  BY <1>1, HeadTailProperties
<1>5. Tail(s) = f
  BY <1>3, <1>4, HeadTailProperties, SeqEqual
<1> QED
  BY <1>5

-----------------------------------------------------------------------------
(* The inductive invariant.  StorageTypeOK alone is not enough for the     *)
(* refinement: that a slot written behind the items holds none of them is  *)
(* what WriteFollowsItems says.                                            *)
StorageInv == StorageTypeOK /\ WriteFollowsItems

(* A queue has room for at least one item.                                 *)
LEMMA LengthIsPositive == ASSUME StorageTypeOK PROVE uxLength \in Nat \ {0}
BY StorageAssumption DEF StorageTypeOK

(* A new queue satisfies the invariant and is an empty sequence.           *)
LEMMA InitStep == StorageInit => StorageInv /\ Deque!Init
<1> SUFFICES ASSUME StorageInit PROVE StorageInv /\ Deque!Init
  OBVIOUS
<1>1. uxLength \in Nat \ {0}
  BY StorageAssumption DEF StorageInit
<1>2. StorageInv
  BY <1>1 DEF StorageInit, StorageInv, StorageTypeOK, WriteFollowsItems, Slot, Wrap, pcHead, pcTail
<1>3. Items = <<>>
  BY DEF StorageInit, Items
<1> QED
  BY <1>2, <1>3 DEF StorageInit, Deque!Init

(* Sending to the back.                                                    *)
LEMMA SendToBackStep ==
    ASSUME StorageInv, NEW x \in Item, SendToBack(x)
    PROVE  StorageInv' /\ Deque!SendToBack(x)
<1> DEFINE n == uxMessagesWaiting
           p == pcReadFrom
<1>1. /\ uxLength \in Nat \ {0}
      /\ n \in 0..uxLength - 1
      /\ p \in 0..uxLength - 1
      /\ pcWriteTo = Wrap(p + (n + 1))
      /\ pcWriteTo \in 0..uxLength - 1
      /\ storage \in [0..uxLength - 1 -> Item]
  BY LengthIsPositive DEF StorageInv, StorageTypeOK, SendToBack, WriteFollowsItems, Slot, pcHead, pcTail
<1>2. /\ uxLength' = uxLength /\ pcReadFrom' = p /\ uxMessagesWaiting' = n + 1
      /\ pcWriteTo' = Forwards(pcWriteTo)
      /\ storage' = [storage EXCEPT ![pcWriteTo] = x]
      /\ pvBuffer' = pvBuffer
  BY DEF SendToBack, CopyToBack
<1>3. pcWriteTo' \in 0..uxLength - 1 /\ pcWriteTo' = Wrap(p + (n + 2))
  BY <1>1, <1>2, WrapForwards, n + 1 \in 0..uxLength, p + (n + 1) + 1 = p + (n + 2)
<1>4. StorageInv'
  BY <1>1, <1>2, <1>3 DEF StorageInv, StorageTypeOK, WriteFollowsItems, Slot, Wrap, pcHead, pcTail
<1>5. \A i \in 1..n : Slot(i) \in 0..uxLength - 1 /\ Slot(i) # pcWriteTo
  <2> SUFFICES ASSUME NEW i \in 1..n PROVE Slot(i) \in 0..uxLength - 1 /\ Slot(i) # pcWriteTo
    OBVIOUS
  <2>1. Wrap(p + (i - 1) + 1) # Wrap(p + n + 1)
    BY <1>1, WrapInjective, i - 1 \in 0..uxLength - 1, i - 1 # n
  <2> QED
    BY <2>1, <1>1, WrapInRange, i \in 0..uxLength + 1, p + (i - 1) + 1 = p + i,
       p + n + 1 = p + (n + 1) DEF Slot
<1>6. /\ Items \in Seq(Item) /\ Len(Items) = n
      /\ \A i \in 1..n : Items[i] = storage[Slot(i)]
  BY <1>1, ItemsIsSeq DEF StorageInv
<1>7. Items' = [i \in 1..n + 1 |-> storage'[Slot(i)]]
  BY <1>2 DEF Items, Slot, Wrap
<1>8. \A i \in 1..n + 1 : storage'[Slot(i)] = IF i = n + 1 THEN x ELSE Items[i]
  <2>1. Slot(n + 1) = pcWriteTo
    BY <1>1 DEF Slot
  <2>2. storage'[Slot(n + 1)] = x
    BY <1>1, <1>2, <2>1
  <2>3. \A i \in 1..n : storage'[Slot(i)] = Items[i]
    BY <1>1, <1>2, <1>5, <1>6
  <2> QED
    BY <1>1, <2>2, <2>3
<1>9. Items' = Append(Items, x)
  BY <1>6, <1>7, <1>8, AppendIsFunction
<1> QED
  BY <1>1, <1>2, <1>4, <1>6, <1>9 DEF Deque!SendToBack
(* Sending to the front.                                                   *)
LEMMA SendToFrontStep ==
    ASSUME StorageInv, NEW x \in Item, SendToFront(x)
    PROVE  StorageInv' /\ Deque!SendToFront(x)
<1> DEFINE n == uxMessagesWaiting
           p == pcReadFrom
           q == Backwards(p)
<1>1. /\ uxLength \in Nat \ {0}
      /\ n \in 0..uxLength - 1
      /\ p \in 0..uxLength - 1
      /\ pcWriteTo = Wrap(p + (n + 1))
      /\ pcWriteTo \in 0..uxLength - 1
      /\ storage \in [0..uxLength - 1 -> Item]
  BY LengthIsPositive
     DEF StorageInv, StorageTypeOK, SendToFront, WriteFollowsItems, Slot, pcHead, pcTail
<1>2. /\ uxLength' = uxLength /\ pcReadFrom' = q /\ uxMessagesWaiting' = n + 1
      /\ pcWriteTo' = pcWriteTo
      /\ storage' = [storage EXCEPT ![p] = x]
      /\ pvBuffer' = pvBuffer
  BY DEF SendToFront, CopyToFront
<1>3. q \in 0..uxLength - 1 /\ \A i \in 1..n + 2 : Wrap(q + i) = Wrap(p + i - 1)
  BY <1>1, WrapBackwards
<1>4. pcWriteTo = Wrap(q + (n + 2))
  BY <1>1, <1>3, n + 2 \in 1..n + 2, p + (n + 2) - 1 = p + (n + 1)
<1>5. StorageInv'
  BY <1>1, <1>2, <1>3, <1>4 DEF StorageInv, StorageTypeOK, WriteFollowsItems, Slot, Wrap, pcHead, pcTail
<1>6. Wrap(q + 1) = p
  BY <1>1, <1>3, 1 \in 1..n + 2 DEF Wrap
<1>7. \A i \in 2..n + 1 :
          /\ Wrap(q + i) = Slot(i - 1)
          /\ Slot(i - 1) \in 0..uxLength - 1
          /\ Slot(i - 1) # p
  <2> SUFFICES ASSUME NEW i \in 2..n + 1
               PROVE  /\ Wrap(q + i) = Slot(i - 1)
                      /\ Slot(i - 1) \in 0..uxLength - 1
                      /\ Slot(i - 1) # p
    OBVIOUS
  <2>1. Wrap(q + i) = Slot(i - 1)
    BY <1>1, <1>3, i \in 1..n + 2, p + i - 1 = p + (i - 1) DEF Slot
  <2>2. Wrap(p + (i - 1)) # Wrap(p + 0) /\ Wrap(p + 0) = p
    <3>1. i - 1 \in 0..uxLength - 1 /\ 0 \in 0..uxLength - 1 /\ i - 1 # 0
      BY <1>1
    <3>2. Wrap(p + 0) = p
      BY <1>1 DEF Wrap
    <3> QED
      BY <1>1, <3>1, <3>2, WrapInjective
  <2> QED
    BY <2>1, <2>2, <1>1, WrapInRange, i - 1 \in 0..uxLength + 1 DEF Slot
<1>8. /\ Items \in Seq(Item) /\ Len(Items) = n
      /\ \A i \in 1..n : Items[i] = storage[Slot(i)]
  BY <1>1, ItemsIsSeq DEF StorageInv
<1>9. Items' = [i \in 1..n + 1 |-> storage'[Wrap(q + i)]]
  BY <1>2 DEF Items, Slot, Wrap
<1>10. \A i \in 1..n + 1 : storage'[Wrap(q + i)] = IF i = 1 THEN x ELSE Items[i - 1]
  <2>1. storage'[Wrap(q + 1)] = x
    BY <1>1, <1>2, <1>6
  <2>2. \A i \in 2..n + 1 : storage'[Wrap(q + i)] = Items[i - 1]
    <3> SUFFICES ASSUME NEW i \in 2..n + 1 PROVE storage'[Wrap(q + i)] = Items[i - 1]
      OBVIOUS
    <3>1. Items[i - 1] = storage[Slot(i - 1)]
      BY <1>1, <1>8, i - 1 \in 1..n
    <3> QED
      BY <1>1, <1>2, <1>7, <3>1
  <2> QED
    BY <1>1, <2>1, <2>2
<1>11. Items' = <<x>> \o Items
  BY <1>8, <1>9, <1>10, PrependIsFunction
<1> QED
  BY <1>1, <1>2, <1>5, <1>8, <1>11 DEF Deque!SendToFront

(* Overwriting the item of a queue of length one, which has one slot.      *)
LEMMA OverwriteStep ==
    ASSUME StorageInv, NEW x \in Item, Overwrite(x)
    PROVE  StorageInv' /\ Deque!Overwrite(x)
<1>1. /\ uxLength = 1 /\ pcReadFrom = 0 /\ pcWriteTo = 0
      /\ uxMessagesWaiting \in 0..1
      /\ storage \in [0..0 -> Item]
  BY DEF StorageInv, StorageTypeOK, Overwrite, pcHead, pcTail
<1>2. /\ uxLength' = 1 /\ pcReadFrom' = 0 /\ pcWriteTo' = 0 /\ uxMessagesWaiting' = 1
      /\ storage' = [storage EXCEPT ![0] = x]
      /\ pvBuffer' = pvBuffer
  BY <1>1 DEF Overwrite, CopyToFront, Backwards, pcHead, pcTail
<1>3. StorageInv'
  BY <1>1, <1>2 DEF StorageInv, StorageTypeOK, WriteFollowsItems, Slot, Wrap, pcHead, pcTail
<1>4. Slot(1)' = 0
  BY <1>2 DEF Slot, Wrap
<1>5. Items' = [i \in 1..1 |-> x]
  <2>1. Items' = [i \in 1..1 |-> storage'[Slot(i)']]
    BY <1>2 DEF Items
  <2>2. \A i \in 1..1 : storage'[Slot(i)'] = x
    BY <1>1, <1>2, <1>4 DEF Slot
  <2> QED
    BY <2>1, <2>2
<1>6. [i \in 1..1 |-> x] = <<x>>
  OBVIOUS
<1> QED
  BY <1>1, <1>2, <1>3, <1>5, <1>6 DEF Deque!Overwrite
(* The item that receive and peek deliver is the first of the sequence.    *)
LEMMA DeliversFirst ==
    ASSUME StorageInv, uxMessagesWaiting > 0
    PROVE  /\ Items # <<>>
           /\ storage[Forwards(pcReadFrom)] = Head(Items)
           /\ storage[Forwards(pcReadFrom)] \in Item
<1>1. /\ uxLength \in Nat \ {0}
      /\ uxMessagesWaiting \in 1..uxLength
      /\ pcReadFrom \in 0..uxLength - 1
      /\ storage \in [0..uxLength - 1 -> Item]
  BY LengthIsPositive DEF StorageInv, StorageTypeOK, pcHead, pcTail
<1>2. Slot(1) = Forwards(pcReadFrom) /\ Forwards(pcReadFrom) \in 0..uxLength - 1
  BY <1>1 DEF Slot, Wrap, Forwards, pcHead, pcTail
<1>3. /\ Items \in Seq(Item) /\ Len(Items) = uxMessagesWaiting
      /\ Items[1] = storage[Slot(1)]
  BY <1>1, ItemsIsSeq, 1 \in 1..uxMessagesWaiting DEF StorageInv
<1>4. Items # <<>>
  BY <1>1, <1>3, EmptySeq
<1> QED
  BY <1>1, <1>2, <1>3, <1>4, TailIsFunction

(* Receiving.                                                              *)
LEMMA ReceiveStep == ASSUME StorageInv, Receive PROVE StorageInv' /\ Deque!Receive
<1> DEFINE n == uxMessagesWaiting
           p == pcReadFrom
           q == Forwards(p)
<1>1. /\ uxLength \in Nat \ {0}
      /\ n \in 1..uxLength
      /\ p \in 0..uxLength - 1
      /\ pcWriteTo = Wrap(p + (n + 1))
  BY LengthIsPositive DEF StorageInv, StorageTypeOK, Receive, WriteFollowsItems, Slot, pcHead, pcTail
<1>2. /\ uxLength' = uxLength /\ pcReadFrom' = q /\ uxMessagesWaiting' = n - 1
      /\ pcWriteTo' = pcWriteTo
      /\ storage' = storage
      /\ pvBuffer' = storage[q]
  BY DEF Receive, CopyFromQueue
<1>3. q \in 0..uxLength - 1 /\ \A i \in 1..n : Wrap(q + i) = Wrap(p + i + 1)
  BY <1>1, WrapForwards
<1>4. pcWriteTo = Wrap(q + n)
  BY <1>1, <1>3, n \in 1..n, p + n + 1 = p + (n + 1)
<1>5. Items # <<>> /\ storage[q] = Head(Items) /\ storage[q] \in Item
  BY <1>1, DeliversFirst
<1>6. StorageInv'
  BY <1>1, <1>2, <1>3, <1>4, <1>5
     DEF StorageInv, StorageTypeOK, WriteFollowsItems, Slot, Wrap, pcHead, pcTail
<1>7. /\ Items \in Seq(Item) /\ Len(Items) = n
      /\ \A i \in 1..n : Items[i] = storage[Slot(i)]
  BY <1>1, ItemsIsSeq DEF StorageInv
<1>8. Items' = [i \in 1..n - 1 |-> storage[Wrap(q + i)]]
  BY <1>2 DEF Items, Slot, Wrap
<1>9. \A i \in 1..n - 1 : storage[Wrap(q + i)] = Items[i + 1]
  <2> SUFFICES ASSUME NEW i \in 1..n - 1 PROVE storage[Wrap(q + i)] = Items[i + 1]
    OBVIOUS
  <2>1. Wrap(q + i) = Slot(i + 1)
    BY <1>1, <1>3, i \in 1..n, p + i + 1 = p + (i + 1) DEF Slot
  <2> QED
    BY <1>1, <1>7, <2>1, i + 1 \in 1..n
<1>10. Items' = Tail(Items)
  BY <1>5, <1>7, <1>8, <1>9, TailIsFunction
<1> QED
  BY <1>2, <1>5, <1>6, <1>10 DEF Deque!Receive

(* Peeking.                                                                *)
LEMMA PeekStep == ASSUME StorageInv, Peek PROVE StorageInv' /\ Deque!Peek
<1>1. uxMessagesWaiting \in Nat /\ uxMessagesWaiting > 0
  BY DEF StorageInv, StorageTypeOK, Peek
<1>2. /\ Items # <<>>
      /\ pvBuffer' = Head(Items)
      /\ pvBuffer' \in Item
  BY <1>1, DeliversFirst DEF Peek, CopyFromQueue
<1>3. Items' = Items
  BY DEF Peek, Items, Slot, Wrap
<1>4. StorageInv'
  BY <1>2 DEF Peek, StorageInv, StorageTypeOK, WriteFollowsItems, Slot, Wrap, pcHead, pcTail
<1> QED
  BY <1>2, <1>3, <1>4 DEF Deque!Peek

(* Resetting.                                                              *)
LEMMA ResetStep == ASSUME StorageInv, Reset PROVE StorageInv' /\ Deque!Reset
<1>1. uxLength \in Nat \ {0}
  BY LengthIsPositive DEF StorageInv
<1>2. StorageInv'
  BY <1>1 DEF Reset, StorageInv, StorageTypeOK, WriteFollowsItems, Slot, Wrap, pcHead, pcTail
<1>3. Items' = <<>>
  BY DEF Reset, Items
<1> QED
  BY <1>2, <1>3 DEF Reset, Deque!Reset

(* Every step keeps the invariant and is a step of DequeSpec or none.      *)
LEMMA NextStep ==
    StorageInv /\ [StorageNext]_storageVars => StorageInv' /\ [Deque!Next]_<<Items, uxLength, pvBuffer>>
<1> SUFFICES ASSUME StorageInv, [StorageNext]_storageVars
             PROVE  StorageInv' /\ [Deque!Next]_<<Items, uxLength, pvBuffer>>
  OBVIOUS
<1>1. ASSUME NEW x \in Item, SendToBack(x) PROVE StorageInv' /\ Deque!Next
  BY <1>1, SendToBackStep DEF Deque!Next, SendToBack
<1>2. ASSUME NEW x \in Item, SendToFront(x) PROVE StorageInv' /\ Deque!Next
  BY <1>2, SendToFrontStep DEF Deque!Next, SendToFront
<1>3. ASSUME NEW x \in Item, Overwrite(x) PROVE StorageInv' /\ Deque!Next
  BY <1>3, OverwriteStep DEF Deque!Next, Overwrite
<1>4. CASE Receive
  BY <1>4, ReceiveStep DEF Deque!Next, Receive
<1>5. CASE Peek
  BY <1>5, PeekStep DEF Deque!Next, Peek
<1>6. CASE Reset
  BY <1>6, ResetStep DEF Deque!Next, Reset
<1>7. CASE UNCHANGED storageVars
  <2>1. StorageInv'
    BY <1>7 DEF storageVars, StorageInv, StorageTypeOK, WriteFollowsItems, Slot, Wrap, pcHead, pcTail
  <2>2. UNCHANGED <<Items, uxLength, pvBuffer>>
    BY <1>7 DEF storageVars, Items, Slot, Wrap
  <2> QED
    BY <2>1, <2>2
<1> QED
  BY <1>1, <1>2, <1>3, <1>4, <1>5, <1>6, <1>7 DEF StorageNext

-----------------------------------------------------------------------------
(* The pointers stay inside the storage area, the count within the length  *)
(* and every slot holds an item: queue.c never copies from or to memory    *)
(* outside the area, for a queue of any length.                            *)
THEOREM PointersStayInside == StorageSpec => []StorageTypeOK
<1>1. StorageInv => StorageTypeOK
  BY DEF StorageInv
<1> QED
  BY <1>1, InitStep, NextStep, PTL DEF StorageSpec

(* The write pointer is behind the last item in every reachable state,     *)
(* after any mixture of sends to either end, overwrites, receives, peeks   *)
(* and resets.                                                             *)
THEOREM PointersAgree == StorageSpec => []WriteFollowsItems
<1>1. StorageInv => WriteFollowsItems
  BY DEF StorageInv
<1> QED
  BY <1>1, InitStep, NextStep, PTL DEF StorageSpec

(* The ring buffer implements the bounded sequence.                        *)
THEOREM RefinesDeque == StorageSpec => ImplementsDeque
BY InitStep, NextStep, PTL DEF StorageSpec, ImplementsDeque, Deque!Spec

-----------------------------------------------------------------------------
(* Alignment.                                                              *)

(* n is a times something.                                                 *)
Multiple(n, a) == \E q \in Int : n = a * q

(* Products and sums.                                                      *)
LEMMA Distributes ==
    ASSUME NEW a \in Int, NEW p \in Int, NEW q \in Int
    PROVE  /\ a * p \in Int /\ a * q \in Int
           /\ a * (p + q) = a * p + a * q /\ a * (p - q) = a * p - a * q
OBVIOUS

(* What % and \div are.                                                    *)
LEMMA Division ==
    ASSUME NEW a \in Nat \ {0}, NEW n \in Int
    PROVE  n % a \in 0..a - 1 /\ n \div a \in Int /\ n = a * (n \div a) + (n % a)
OBVIOUS

(* A remainder of zero says just that.                                     *)
LEMMA MultipleMeans ==
    ASSUME NEW a \in Nat \ {0}, NEW n \in Int
    PROVE  n % a = 0 <=> Multiple(n, a)
<1>1. PICK p \in Int, r \in 0..a - 1 : n = a * p + r /\ r = n % a
  BY Division
<1>2. ASSUME r = 0
      PROVE  Multiple(n, a)
  <2>1. n = a * p
    BY <1>1, <1>2, Distributes
  <2> QED BY <2>1 DEF Multiple
<1>3. ASSUME NEW q \in Int, n = a * q
      PROVE  r = 0
  <2>1. PICK d \in Int : d = q - p
    OBVIOUS
  <2>2. a * d = r
    <3>1. a * p \in Int /\ a * q \in Int /\ a * (q - p) = a * q - a * p
      BY Distributes
    <3>2. a * q = a * p + r
      BY <1>1, <1>3
    <3>3. r \in Int
      OBVIOUS
    <3> QED BY <2>1, <3>1, <3>2, <3>3
  <2>3. CASE d > 0
    <3>1. a * d >= a
      BY <2>3
    <3> QED BY <2>2, <3>1
  <2>4. CASE d < 0
    <3>1. a * d < 0
      BY <2>4
    <3> QED BY <2>2, <3>1
  <2> QED BY <2>1, <2>2, <2>3, <2>4
<1> QED BY <1>1, <1>2, <1>3 DEF Multiple

(* Sums and differences of aligned numbers are aligned.                    *)
LEMMA AlignedSum ==
    ASSUME NEW a \in Nat \ {0}, NEW m \in Int, NEW n \in Int, m % a = 0, n % a = 0
    PROVE  (m + n) % a = 0 /\ (m - n) % a = 0
<1>1. PICK p \in Int, q \in Int : m = a * p /\ n = a * q
  BY MultipleMeans DEF Multiple
<1>2. /\ m + n = a * (p + q) /\ p + q \in Int
      /\ m - n = a * (p - q) /\ p - q \in Int
  BY <1>1, Distributes
<1>3. Multiple(m + n, a) /\ Multiple(m - n, a)
  <2>1. PICK u \in Int, v \in Int : m + n = a * u /\ m - n = a * v
    BY <1>2
  <2> QED BY <2>1 DEF Multiple
<1> QED BY <1>3, MultipleMeans

(* An aligned number that is positive is at least the alignment.           *)
LEMMA AlignedStep ==
    ASSUME NEW a \in Nat \ {0}, NEW n \in Int, n % a = 0, n > 0
    PROVE  n >= a
<1>1. PICK q \in Int : n = a * q
  BY MultipleMeans DEF Multiple
<1>2. q >= 1
  BY <1>1
<1>3. a * q >= a
  BY <1>2
<1> QED BY <1>1, <1>3

(* Rounding down gives the multiple at or below, rounding up the one at or *)
(* above; there is none in between.                                        *)
LEMMA Rounding ==
    ASSUME NEW n \in Int
    PROVE  /\ RoundDown(n) \in Int /\ RoundDown(n) % portBYTE_ALIGNMENT = 0
           /\ RoundDown(n) <= n /\ n < RoundDown(n) + portBYTE_ALIGNMENT
           /\ RoundUp(n) \in Int /\ RoundUp(n) % portBYTE_ALIGNMENT = 0
           /\ n <= RoundUp(n) /\ RoundUp(n) < n + portBYTE_ALIGNMENT
<1>1. PICK a \in Nat \ {0} : a = portBYTE_ALIGNMENT
  BY HeapAssumption
<1>2. ASSUME NEW k \in Int
      PROVE  /\ RoundDown(k) \in Int /\ RoundDown(k) % a = 0
             /\ RoundDown(k) <= k /\ k < RoundDown(k) + a
  <2>1. PICK p \in Int, r \in 0..a - 1 : k = a * p + r /\ r = k % a
    BY Division
  <2>2. RoundDown(k) = a * p
    BY <1>1, <2>1 DEF RoundDown
  <2>3. Multiple(RoundDown(k), a)
    BY <2>2 DEF Multiple
  <2>4. PICK m \in Int : m = a * p
    BY Distributes
  <2>5. RoundDown(k) = m /\ m % a = 0
    BY <2>2, <2>3, <2>4, MultipleMeans
  <2>6. k = m + r
    BY <2>1, <2>4
  <2> QED BY <2>5, <2>6
<1>3. n + a - 1 \in Int /\ RoundUp(n) = RoundDown(n + a - 1)
  BY <1>1 DEF RoundUp
<1> QED BY <1>1, <1>2, <1>3

(* A block with room for the bytes asked for is as large as what their     *)
(* number is rounded up to.                                                *)
LEMMA RoundUpIsLeast ==
    ASSUME NEW n \in Int, NEW s \in Int, s % portBYTE_ALIGNMENT = 0, n <= s
    PROVE  RoundUp(n) <= s
<1>1. PICK a \in Nat \ {0} : a = portBYTE_ALIGNMENT
  BY HeapAssumption
<1>2. PICK u \in Int : u = RoundUp(n) /\ u % a = 0 /\ u < n + a
  BY <1>1, Rounding
<1>3. (u - s) % a = 0
  BY <1>1, <1>2, AlignedSum
<1>4. u - s < a
  BY <1>2
<1> QED BY <1>2, <1>3, <1>4, AlignedStep

-----------------------------------------------------------------------------
(* Least and greatest members, and the members of a finite set in turn.    *)

(* A set of integers that is bounded below has a least member.             *)
LEMMA LeastMember ==
    ASSUME NEW S \in SUBSET Int, S # {}, NEW m \in Int, \A x \in S : m <= x
    PROVE  \E x \in S : \A y \in S : x <= y
<1> DEFINE R == OpToRel(<, Nat)
           T == {n \in Nat : n + m \in S}
<1>1. IsWellFoundedOn(R, Nat)
  BY NatLessThanWellFounded
<1>2. T \subseteq Nat /\ \A x \in S : x - m \in T
  OBVIOUS
<1>3. \A x, y \in Nat : <<x, y>> \in R <=> x < y
  BY DEF OpToRel
<1> HIDE DEF R, T
<1>4. PICK t \in T : \A u \in T : ~(<<u, t>> \in R)
  <2>1. T # {}
    BY <1>2
  <2> QED BY <1>1, <1>2, <2>1, WFMin
<1>5. PICK x \in S : t = x - m /\ t \in Nat
  BY DEF T
<1>6. ASSUME NEW y \in S
      PROVE  x <= y
  <2>1. y - m \in T /\ y - m \in Nat
    BY <1>2
  <2>2. ~(y - m < x - m)
    BY <1>3, <1>4, <1>5, <2>1
  <2> QED BY <2>2
<1> QED BY <1>6

(* A set of integers that is bounded above has a greatest member.          *)
LEMMA GreatestMember ==
    ASSUME NEW S \in SUBSET Int, S # {}, NEW m \in Int, \A x \in S : x <= m
    PROVE  \E x \in S : \A y \in S : y <= x
<1> DEFINE T == {n \in Int : -n \in S}
<1>1. T \in SUBSET Int /\ T # {} /\ \A x \in T : -m <= x
  <2>1. \A x \in S : -x \in T
    OBVIOUS
  <2>2. T # {}
    BY <2>1
  <2>3. ASSUME NEW x \in T
        PROVE  -m <= x
    <3>1. x \in Int /\ -x <= m
      OBVIOUS
    <3> QED BY <3>1
  <2> QED BY <2>2, <2>3
<1>2. -m \in Int
  OBVIOUS
<1>3. PICK t \in T : \A u \in T : t <= u
  <2> HIDE DEF T
  <2> QED BY <1>1, <1>2, LeastMember
<1>4. PICK x \in S : t = -x
  <2>1. t \in Int /\ -t \in S /\ t = -(-t)
    OBVIOUS
  <2> QED BY <2>1
<1>5. ASSUME NEW y \in S
      PROVE  y <= x
  <2>1. -y \in T
    OBVIOUS
  <2> QED BY <1>3, <1>4, <2>1
<1> QED BY <1>5

(* Of the sets of members of a finite set one is least.                    *)
LEMMA LeastSubset ==
    ASSUME NEW S, IsFiniteSet(S), NEW C \in SUBSET (SUBSET S), C # {}
    PROVE  \E T \in C : \A U \in C : U \subseteq T => U = T
<1> DEFINE R == StrictSubsetOrdering(S)
<1>1. IsWellFoundedOn(R, SUBSET S)
  BY FS_StrictSubsetOrderingWellFounded, FS_FiniteSubsetsOfFinite
<1>2. \A U, T \in SUBSET S : <<U, T>> \in R <=> U \subseteq T /\ U # T
  BY DEF StrictSubsetOrdering
<1> HIDE DEF R
<1>3. PICK T \in C : \A U \in C : ~(<<U, T>> \in R)
  BY <1>1, WFMin
<1>4. ASSUME NEW U \in C, U \subseteq T
      PROVE  U = T
  BY <1>2, <1>3, <1>4
<1> QED BY <1>4

-----------------------------------------------------------------------------
(* The bytes of a set of blocks.                                           *)

(* The bytes of a block, and of the blocks of a set.                       *)
Extent(link, b) == b..b + link[b].xBlockSize - 1
Extents(link, S) == UNION {Extent(link, b) : b \in S}

(* Blocks from m to n, none of which overlaps another.                     *)
Apart(link, S, m, n) ==
    /\ S \in SUBSET (m..n)
    /\ \A b \in S : link[b].xBlockSize \in Nat /\ b + link[b].xBlockSize <= n
    /\ \A b, c \in S : b < c => b + link[b].xBlockSize <= c

(* A block more has its bytes more.                                        *)
LEMMA CountOneMore ==
    ASSUME NEW link, NEW S, NEW m \in Int, NEW n \in Int, Apart(link, S, m, n), NEW b \in S
    PROVE  /\ IsFiniteSet(Extents(link, S)) /\ Cardinality(Extents(link, S)) \in Nat
           /\ Cardinality(Extents(link, S)) =
                  link[b].xBlockSize + Cardinality(Extents(link, S \ {b}))
<1> DEFINE all == Extents(link, S)
           one == Extent(link, b)
           rest == Extents(link, S \ {b})
<1> PICK size \in Nat : size = link[b].xBlockSize
  BY DEF Apart
<1>1. b \in Int /\ \A c \in S : c \in Int /\ link[c].xBlockSize \in Nat
  BY DEF Apart
<1>2. all = one \cup rest
  BY DEF Extents
<1>3. IsFiniteSet(all) /\ IsFiniteSet(rest)
  <2>1. all \subseteq m..n /\ rest \subseteq m..n
    BY DEF Apart, Extents, Extent
  <2>2. IsFiniteSet(m..n)
    BY FS_Interval
  <2> QED BY <2>1, <2>2, FS_Subset
<1>4. one \cap rest = {}
  <2>1. ASSUME NEW c \in S \ {b}, NEW i \in one, i \in Extent(link, c)
        PROVE  FALSE
    <3> PICK sizeC \in Nat : sizeC = link[c].xBlockSize
      BY <1>1
    <3>1. b < c \/ c < b
      BY <1>1
    <3>2. (b < c => b + size <= c) /\ (c < b => c + sizeC <= b)
      BY DEF Apart
    <3>3. i \in b..b + size - 1 /\ i \in c..c + sizeC - 1 /\ c \in Int
      BY <1>1, <2>1 DEF Extent
    <3> QED BY ONLY <1>1, <3>1, <3>2, <3>3
  <2> QED BY <2>1 DEF Extents
<1>5. IsFiniteSet(one) /\ Cardinality(one) = size
  <2>1. PICK last \in Int : last = b + size - 1
    BY <1>1
  <2>2. one = b..last
    BY <2>1 DEF Extent
  <2> HIDE DEF one
  <2>3. IsFiniteSet(one) /\ Cardinality(one) = IF b > last THEN 0 ELSE last - b + 1
    BY <1>1, <2>2, FS_Interval
  <2> QED BY <1>1, <2>1, <2>3
<1> HIDE DEF all, one, rest
<1>6. Cardinality(one \cup rest) = Cardinality(one) + Cardinality(rest) - Cardinality(one \cap rest)
  BY <1>3, <1>5, FS_Union
<1>7. Cardinality(one \cap rest) = 0 /\ Cardinality(rest) \in Nat /\ Cardinality(all) \in Nat
  BY <1>3, <1>4, FS_EmptySet, FS_CardinalityType
<1>8. Cardinality(all) = size + Cardinality(rest)
  BY <1>2, <1>5, <1>6, <1>7
<1> QED BY <1>3, <1>7, <1>8 DEF all, rest

(* No block has no bytes.                                                  *)
LEMMA CountNone == ASSUME NEW link PROVE Cardinality(Extents(link, {})) = 0
<1>1. Extents(link, {}) = {}
  BY DEF Extents
<1> QED BY <1>1, FS_EmptySet

(* What MapThenSumSet adds up is the number of the bytes.                  *)
LEMMA SumIsCount ==
    ASSUME NEW link, NEW S, NEW m \in Int, NEW n \in Int, Apart(link, S, m, n)
    PROVE  MapThenSumSet(LAMBDA b : link[b].xBlockSize, S) = Cardinality(Extents(link, S))
<1> DEFINE first(T) == CHOOSE b \in T : TRUE
           Is(f) == f = [T \in SUBSET S |->
                            IF T = {} THEN 0
                            ELSE link[first(T)].xBlockSize + f[T \ {first(T)}]]
           f == CHOOSE f : Is(f)
           count == [T \in SUBSET S |-> Cardinality(Extents(link, T))]
<1>1. MapThenSumSet(LAMBDA b : link[b].xBlockSize, S) = f[S]
  BY DEF MapThenSumSet, MapThenFoldSet
<1>2. ASSUME NEW T \in SUBSET S, T # {}
      PROVE  /\ first(T) \in T
             /\ Cardinality(Extents(link, T)) =
                    link[first(T)].xBlockSize + Cardinality(Extents(link, T \ {first(T)}))
  <2>1. first(T) \in T
    BY <1>2
  <2>2. Apart(link, T, m, n)
    BY DEF Apart
  <2> HIDE DEF first
  <2> QED BY <2>1, <2>2, CountOneMore
<1>3. Is(count)
  <2> HIDE DEF first
  <2>1. ASSUME NEW T \in SUBSET S
        PROVE  count[T] = IF T = {} THEN 0
                          ELSE link[first(T)].xBlockSize + count[T \ {first(T)}]
    BY <1>2, CountNone
  <2> QED BY <2>1
<1>4. Is(f)
  <2> HIDE DEF Is, count
  <2> QED BY <1>3
<1>5. ASSUME NEW T \in SUBSET S
      PROVE  f[T] = IF T = {} THEN 0 ELSE link[first(T)].xBlockSize + f[T \ {first(T)}]
  <2> HIDE DEF f, first
  <2> QED BY <1>4
<1> HIDE DEF f
<1> DEFINE C == {T \in SUBSET S : f[T] # Cardinality(Extents(link, T))}
<1>6. IsFiniteSet(S)
  <2>1. S \in SUBSET (m..n)
    BY DEF Apart
  <2> QED BY <2>1, FS_Interval, FS_Subset
<1>7. C = {}
  <2>1. SUFFICES ASSUME C # {}
                 PROVE  FALSE
    OBVIOUS
  <2>2. PICK T \in C : \A U \in C : U \subseteq T => U = T
    <3> HIDE DEF C
    <3>1. C \in SUBSET (SUBSET S)
      BY DEF C
    <3> QED BY <1>6, <2>1, <3>1, LeastSubset
  <2>3. T # {}
    BY <1>5, CountNone
  <2>4. T \in SUBSET S /\ first(T) \in T
    BY <1>2, <2>3
  <2> HIDE DEF first
  <2>5. f[T \ {first(T)}] = Cardinality(Extents(link, T \ {first(T)}))
    BY <2>2, <2>4
  <2> QED BY <1>2, <1>5, <2>3, <2>4, <2>5
<1>8. f[S] = Cardinality(Extents(link, S))
  BY <1>7
<1> QED BY <1>1, <1>8

-----------------------------------------------------------------------------
(* Where the blocks are.                                                   *)
LEMMA HeapLayout ==
    /\ portBYTE_ALIGNMENT \in Nat \ {0}
    /\ xHeapStructSize \in Nat \ {0} /\ xHeapStructSize % portBYTE_ALIGNMENT = 0
    /\ pucAlignedHeap \in Nat \ {0} /\ pucAlignedHeap % portBYTE_ALIGNMENT = 0
    /\ EndMarker \in Nat /\ EndMarker % portBYTE_ALIGNMENT = 0
    /\ pucAlignedHeap + xHeapStructSize < EndMarker
    /\ EndMarker + xHeapStructSize <= ucHeap + configTOTAL_HEAP_SIZE
    /\ EndMarker < xBlockAllocatedBit /\ xBlockAllocatedBit \in Int
<1>1. /\ portBYTE_ALIGNMENT \in Nat \ {0} /\ ucHeap \in Nat \ {0}
      /\ xHeapStructSize \in Nat \ {0} /\ xHeapStructSize % portBYTE_ALIGNMENT = 0
      /\ configTOTAL_HEAP_SIZE \in Nat
  BY HeapAssumption
<1>2. /\ pucAlignedHeap \in Int /\ pucAlignedHeap % portBYTE_ALIGNMENT = 0
      /\ ucHeap <= pucAlignedHeap
  BY <1>1, Rounding DEF pucAlignedHeap
<1> DEFINE n == pucAlignedHeap + (configTOTAL_HEAP_SIZE - (pucAlignedHeap - ucHeap)) - xHeapStructSize
<1>3. n \in Int /\ n + xHeapStructSize = ucHeap + configTOTAL_HEAP_SIZE
  BY <1>1, <1>2
<1>4. EndMarker = RoundDown(n)
  BY DEF EndMarker
<1> HIDE DEF n
<1>5. EndMarker \in Int /\ EndMarker % portBYTE_ALIGNMENT = 0 /\ EndMarker <= n
  BY <1>3, <1>4, Rounding
<1>6. ucHeap + configTOTAL_HEAP_SIZE < xBlockAllocatedBit /\ xBlockAllocatedBit \in Int
  BY HeapAssumption
<1> QED BY <1>1, <1>2, <1>3, <1>5, <1>6, HeapHoldsABlock

-----------------------------------------------------------------------------
(* Walks over the list.                                                    *)

(* The header that follows.                                                *)
Successor(link, p) == link[p].pxNextFreeBlock

(* Those that lead on.                                                     *)
Leads(link) == {p \in DOMAIN link : link[p].pxNextFreeBlock # NULL}

(* The list: xStart and the blocks of L, in the order of their addresses,  *)
(* up to the end marker.  A header that has left the list may still lead   *)
(* to where it led.                                                        *)
Chain(link, L) ==
    /\ xStart \in L /\ L \subseteq Leads(link)
    /\ \A p \in Leads(link) :
           /\ p \in Int /\ p < Successor(link, p)
           /\ Successor(link, p) \in (L \ {xStart}) \cup {EndMarker}
    /\ \A p \in L :
           /\ xStart <= p /\ p < EndMarker
           /\ \A q \in L \cup {EndMarker} : p < q => Successor(link, p) <= q

(* The list has one place for a block.                                     *)
LEMMA PlaceExists ==
    ASSUME NEW h, NEW L, h.pxEnd = EndMarker, Chain(h.link, L),
           NEW block \in Int, xStart < block, block <= EndMarker
    PROVE  \E b \in L : b < block /\ block <= Successor(h.link, b)
<1> DEFINE S == {p \in L : p < block}
<1>1. S \in SUBSET Int /\ S # {} /\ \A p \in S : p <= block
  BY DEF Chain
<1>2. PICK b \in S : \A p \in S : p <= b
  <2> HIDE DEF S
  <2> QED BY <1>1, GreatestMember
<1>3. b \in L /\ b < block /\ b \in Int
  BY <1>1
<1>4. Successor(h.link, b) \in L \cup {EndMarker} /\ Successor(h.link, b) \in Int /\ b < Successor(h.link, b)
  <2>1. b \in Leads(h.link) /\ \A p \in L : p \in Int
    BY <1>3 DEF Chain
  <2> QED BY <2>1, HeapLayout DEF Chain
<1>5. ASSUME Successor(h.link, b) < block
      PROVE  FALSE
  <2>1. Successor(h.link, b) \in S
    BY <1>4, <1>5 DEF Chain
  <2> QED BY <1>2, <1>3, <1>4, <2>1
<1> QED BY <1>3, <1>4, <1>5

(* The walk ends there.                                                    *)
LEMMA BeforeMeans ==
    ASSUME NEW h, NEW L, h.pxEnd = EndMarker, Chain(h.link, L),
           NEW block \in Int, xStart < block, block <= EndMarker
    PROVE  /\ Before(h, block) \in L /\ Before(h, block) < block
           /\ block <= Successor(h.link, Before(h, block))
<1>1. PICK b \in L : b < block /\ block <= Successor(h.link, b)
  BY PlaceExists
<1> DEFINE Is(f) == f = [p \in Linked(h) |->
                            IF h.link[p].pxNextFreeBlock < block
                            THEN f[h.link[p].pxNextFreeBlock] ELSE p]
           f == CHOOSE f : Is(f)
           ends == [p \in Linked(h) |-> IF Successor(h.link, p) < block THEN b ELSE p]
<1>2. Before(h, block) = f[xStart]
  BY DEF Before
<1>a. Linked(h) = Leads(h.link)
  BY DEF Linked, Leads
<1>3. /\ \A p \in Linked(h) : p \in Int /\ Successor(h.link, p) \in Int /\ p < Successor(h.link, p)
      /\ xStart \in L /\ L \subseteq Linked(h) /\ b \in Int /\ EndMarker \in Int
  BY <1>a, HeapLayout DEF Chain
<1>4. ASSUME NEW p \in Linked(h), Successor(h.link, p) < block
      PROVE  Successor(h.link, p) \in L
  BY <1>3, <1>4, <1>a DEF Chain
<1>5. ASSUME NEW p \in L, p < block, block <= Successor(h.link, p)
      PROVE  p = b
  <2>1. p < b => Successor(h.link, p) <= b
    BY DEF Chain
  <2>2. b < p => Successor(h.link, b) <= p
    BY DEF Chain
  <2> QED BY <1>1, <1>3, <1>5, <2>1, <2>2
<1>6. Is(ends)
  <2>1. ASSUME NEW p \in Linked(h), Successor(h.link, p) < block
        PROVE  ends[Successor(h.link, p)] = b
    <3>1. Successor(h.link, p) \in L /\ Successor(h.link, p) \in Linked(h)
      BY <1>3, <1>4, <2>1
    <3>2. CASE Successor(h.link, Successor(h.link, p)) < block
      BY <3>1, <3>2
    <3>3. CASE ~(Successor(h.link, Successor(h.link, p)) < block)
      <4>1. Successor(h.link, p) = b
        BY <1>3, <1>5, <2>1, <3>1, <3>3
      <4> QED BY <3>1, <3>3, <4>1
    <3> QED BY <3>2, <3>3
  <2> QED BY <2>1 DEF Successor
<1>7. Is(f)
  <2> HIDE DEF Is, ends
  <2> QED BY <1>6
<1>8. ASSUME NEW p \in Linked(h)
      PROVE  f[p] = IF Successor(h.link, p) < block THEN f[Successor(h.link, p)] ELSE p
  <2> HIDE DEF f
  <2> QED BY <1>7 DEF Successor
<1> HIDE DEF f
<1> DEFINE C == {p \in L : p < block /\ f[p] # b}
<1>9. C = {}
  <2>1. SUFFICES ASSUME C # {}
                 PROVE  FALSE
    OBVIOUS
  <2>2. C \in SUBSET Int /\ \A p \in C : p <= block
    <3>1. \A p \in L : p \in Int
      BY <1>3
    <3>2. \A p \in C : p \in Int /\ p < block
      BY <3>1
    <3> HIDE DEF C
    <3> QED BY <3>2
  <2>3. PICK p \in C : \A q \in C : q <= p
    <3> HIDE DEF C
    <3> QED BY <2>1, <2>2, GreatestMember
  <2>4. CASE Successor(h.link, p) < block
    <3>1. f[p] = f[Successor(h.link, p)] /\ Successor(h.link, p) \in L
      BY <1>3, <1>4, <1>8, <2>4
    <3>2. Successor(h.link, p) \notin C
      BY <1>3, <2>3
    <3> QED BY <2>4, <3>1, <3>2
  <2>5. CASE ~(Successor(h.link, p) < block)
    <3>1. p = b
      BY <1>3, <1>5, <2>5
    <3> QED BY <1>3, <1>8, <2>5, <3>1
  <2> QED BY <2>4, <2>5
<1>10. f[xStart] = b
  BY <1>3, <1>9
<1> QED BY <1>1, <1>2, <1>10

(* What a request for size bytes finds: the first that is large enough, or *)
(* the end marker.                                                         *)
Suits(h, size, p) == h.link[p].xBlockSize >= size \/ p = EndMarker

(* b suits, and no block of the list in front of it does.                  *)
IsFirstFit(h, L, size, b) ==
    /\ b \in (L \ {xStart}) \cup {EndMarker} /\ Suits(h, size, b)
    /\ \A p \in L \ {xStart} : p < b => ~Suits(h, size, p)

(* FirstFit finds it: the walk stops at the first block that suits.        *)
LEMMA FirstFitMeans ==
    ASSUME NEW h, NEW L, h.pxEnd = EndMarker, Chain(h.link, L), L = Leads(h.link),
           EndMarker \in DOMAIN h.link,
           Successor(h.link, EndMarker) = NULL, NEW size \in Int,
           \A p \in L \cup {EndMarker} : h.link[p].xBlockSize \in Int
    PROVE  IsFirstFit(h, L, size, FirstFit(h, size))
<1> DEFINE E == EndMarker
           D == L \cup {E}
           Is(f) == f = [p \in Linked(h) \cup {h.pxEnd} |->
                            IF /\ h.link[p].xBlockSize < size
                               /\ h.link[p].pxNextFreeBlock # NULL
                            THEN f[h.link[p].pxNextFreeBlock]
                            ELSE p]
           f == CHOOSE f : Is(f)
           Least(p, q) == /\ q \in D /\ p <= q /\ Suits(h, size, q)
                          /\ \A r \in D : p <= r /\ r < q => ~Suits(h, size, r)
           least(p) == CHOOSE q : Least(p, q)
           ends == [p \in D |-> least(p)]
<1>1. FirstFit(h, size) = f[Successor(h.link, xStart)]
  BY DEF FirstFit, Successor
<1>2. /\ E \in Int /\ xStart \in L
      /\ \A p \in L : /\ p \in Int /\ p < E /\ xStart <= p /\ Successor(h.link, p) # NULL
                      /\ Successor(h.link, p) \in Int /\ p < Successor(h.link, p)
                      /\ Successor(h.link, p) \in (L \ {xStart}) \cup {E}
                      /\ \A q \in D : p < q => Successor(h.link, p) <= q
  BY HeapLayout DEF Chain, Leads, Successor
<1>a. Linked(h) = L
  BY DEF Linked, Leads
<1>3. \A p \in D : p \in Int /\ p <= E
  BY <1>2
<1>4. \A p \in D : (/\ h.link[p].xBlockSize < size /\ h.link[p].pxNextFreeBlock # NULL)
                       <=> ~Suits(h, size, p)
  <2>1. ASSUME NEW p \in D
        PROVE  (h.link[p].xBlockSize < size /\ h.link[p].pxNextFreeBlock # NULL)
                       <=> ~Suits(h, size, p)
    <3>1. p = E <=> h.link[p].pxNextFreeBlock = NULL
      BY <1>2 DEF Successor
    <3>2. h.link[p].xBlockSize < size <=> ~(h.link[p].xBlockSize >= size)
      OBVIOUS
    <3> QED BY <3>1, <3>2 DEF Suits
  <2> QED BY <2>1
<1>5. ASSUME NEW p \in D
      PROVE  Least(p, least(p))
  <2> DEFINE S == {q \in D : p <= q /\ Suits(h, size, q)}
  <2>1. S \in SUBSET Int /\ S # {} /\ \A q \in S : p <= q
    <3>1. E \in S
      BY <1>3 DEF Suits
    <3> QED BY <1>3, <3>1
  <2>2. PICK q \in S : \A r \in S : q <= r
    <3>1. p \in Int
      BY <1>3
    <3> HIDE DEF S
    <3> QED BY <2>1, <3>1, LeastMember
  <2>3. Least(p, q)
    <3>1. ASSUME NEW r \in D, p <= r, r < q
          PROVE  ~Suits(h, size, r)
      <4>1. q \in Int /\ r \in Int
        BY <1>3
      <4>2. ~(q <= r)
        BY <3>1, <4>1
      <4> QED BY <2>2, <3>1, <4>2
    <3> QED BY <3>1
  <2> HIDE DEF Least
  <2> QED BY <2>3
<1>6. ASSUME NEW p \in D, NEW q, NEW r, Least(p, q), Least(p, r)
      PROVE  q = r
  <2>1. q \in Int /\ r \in Int
    BY <1>3, <1>6
  <2>2. q < r \/ q = r \/ r < q
    BY <2>1
  <2> QED BY <1>6, <2>2
<1>7. ASSUME NEW p \in D, ~Suits(h, size, p)
      PROVE  /\ Successor(h.link, p) \in D /\ p < Successor(h.link, p)
             /\ \A q : Least(Successor(h.link, p), q) => Least(p, q)
  <2>1. p \in L
    BY <1>7 DEF Suits
  <2>2. Successor(h.link, p) \in D /\ p < Successor(h.link, p) /\ p \in Int /\ Successor(h.link, p) \in Int
    BY <1>2, <2>1
  <2>3. ASSUME NEW q, Least(Successor(h.link, p), q)
        PROVE  Least(p, q)
    <3>1. q \in D /\ q \in Int /\ p <= q /\ Suits(h, size, q)
      <4>1. q \in D /\ Successor(h.link, p) <= q /\ Suits(h, size, q)
        BY <2>3
      <4>2. q \in Int
        BY <1>3, <4>1
      <4> QED BY <2>2, <4>1, <4>2
    <3>2. ASSUME NEW r \in D, p <= r, r < q
          PROVE  ~Suits(h, size, r)
      <4>1. r \in Int
        BY <1>3
      <4>2. CASE p = r
        BY <1>7, <4>2
      <4>3. CASE p < r
        <5>1. Successor(h.link, p) <= r
          BY <1>2, <2>1, <4>3
        <5> QED BY <2>3, <3>2, <5>1
      <4> QED BY <2>2, <3>2, <4>1, <4>2, <4>3
    <3> QED BY <3>1, <3>2
  <2> HIDE DEF Least
  <2> QED BY <2>2, <2>3
<1>8. ASSUME NEW p \in D, Suits(h, size, p)
      PROVE  Least(p, p)
  <2>1. p \in Int /\ \A r \in D : r \in Int
    BY <1>3
  <2> QED BY <1>8, <2>1
<1> HIDE DEF Least
<1>9. Is(ends)
  <2> HIDE DEF least
  <2>1. ASSUME NEW p \in D, Suits(h, size, p)
        PROVE  least(p) = p
    BY <1>5, <1>6, <1>8, <2>1
  <2>2. ASSUME NEW p \in D, ~Suits(h, size, p)
        PROVE  least(p) = least(Successor(h.link, p)) /\ Successor(h.link, p) \in D
    <3>1. Successor(h.link, p) \in D
      BY <1>7, <2>2
    <3>2. Least(p, least(Successor(h.link, p)))
      BY <1>5, <1>7, <2>2, <3>1
    <3> QED BY <1>5, <1>6, <3>1, <3>2
  <2>3. ASSUME NEW p \in D
        PROVE  ends[p] = IF /\ h.link[p].xBlockSize < size
                            /\ h.link[p].pxNextFreeBlock # NULL
                         THEN ends[h.link[p].pxNextFreeBlock]
                         ELSE p
    <3>1. CASE Suits(h, size, p)
      BY <1>4, <2>1, <3>1
    <3>2. CASE ~Suits(h, size, p)
      <4>1. ends[p] = ends[Successor(h.link, p)]
        BY <2>2, <3>2
      <4> HIDE DEF ends
      <4> QED BY <1>4, <3>2, <4>1 DEF Successor
    <3> QED BY <3>1, <3>2
  <2> QED BY <2>3, <1>a
<1>10. Is(f)
  <2> HIDE DEF Is, ends
  <2> QED BY <1>9
<1>11. ASSUME NEW p \in D
       PROVE  f[p] = IF Suits(h, size, p) THEN p ELSE f[Successor(h.link, p)]
  <2> HIDE DEF f
  <2>1. f[p] = IF /\ h.link[p].xBlockSize < size
                  /\ h.link[p].pxNextFreeBlock # NULL
               THEN f[h.link[p].pxNextFreeBlock]
               ELSE p
    BY <1>10, <1>a
  <2> QED BY <1>4, <2>1 DEF Successor
<1> HIDE DEF f
<1> DEFINE C == {p \in D : ~Least(p, f[p])}
<1>12. C = {}
  <2>1. SUFFICES ASSUME C # {}
                 PROVE  FALSE
    OBVIOUS
  <2>2. C \in SUBSET Int /\ \A p \in C : p <= E
    BY <1>3
  <2>3. PICK p \in C : \A q \in C : q <= p
    <3> HIDE DEF C
    <3> QED BY <1>2, <2>1, <2>2, GreatestMember
  <2>4. CASE Suits(h, size, p)
    BY <1>8, <1>11, <2>4
  <2>5. CASE ~Suits(h, size, p)
    <3>1. f[p] = f[Successor(h.link, p)] /\ Successor(h.link, p) \in D /\ p < Successor(h.link, p)
      BY <1>7, <1>11, <2>5
    <3>2. p \in Int /\ Successor(h.link, p) \in Int
      BY <1>3, <3>1
    <3>3. Successor(h.link, p) \notin C
      BY <2>3, <3>1, <3>2
    <3> QED BY <1>7, <2>5, <3>1, <3>3
  <2> QED BY <2>4, <2>5
<1> DEFINE p == Successor(h.link, xStart)
<1>13. p \in (L \ {xStart}) \cup {E} /\ p \in Int /\ xStart < p
  BY <1>2
<1>14. Least(p, f[p])
  BY <1>12, <1>13
<1>15. /\ f[p] \in (L \ {xStart}) \cup {E} /\ Suits(h, size, f[p])
       /\ \A r \in D : p <= r /\ r < f[p] => ~Suits(h, size, r)
  <2>1. f[p] # xStart
    <3>1. f[p] \in D /\ p <= f[p]
      BY <1>14 DEF Least
    <3> QED BY <1>3, <1>13, <3>1 DEF xStart
  <2> QED BY <1>14, <2>1 DEF Least
<1>16. ASSUME NEW q \in L \ {xStart}
       PROVE  p <= q
  <2>1. xStart \in Int /\ q \in Int /\ xStart <= q /\ xStart # q
    BY <1>2
  <2>2. xStart < q
    BY <2>1
  <2> QED BY <1>2, <2>2
<1> HIDE DEF p
<1> QED BY <1>1, <1>15, <1>16 DEF IsFirstFit, p

-----------------------------------------------------------------------------
(* The headers of a heap, between two steps and in the middle of one.      *)

(* The blocks, and the first byte behind one.                              *)
Blocks(link) == DOMAIN link \ {xStart, EndMarker}
Beyond(link, b) == b + link[b].xBlockSize

(* The blocks tile the heap.                                               *)
Tiled(link) ==
    /\ pucAlignedHeap \in Blocks(link)
    /\ \A b \in Blocks(link) :
           /\ b \in pucAlignedHeap..EndMarker - 1 /\ b % portBYTE_ALIGNMENT = 0
           /\ link[b].xBlockSize > xHeapStructSize
           /\ Beyond(link, b) \in Blocks(link) \cup {EndMarker}
           /\ \A c \in Blocks(link) : b < c => Beyond(link, b) <= c

(* What a header may hold.                                                 *)
BlockLinks == [pxNextFreeBlock : Int, xBlockSize : Nat, allocated : BOOLEAN]

(* The headers are headers; what is on the list belongs to nobody.         *)
Typed(link) ==
    /\ link \in [DOMAIN link -> BlockLinks]
    /\ {xStart, EndMarker} \subseteq DOMAIN link
    /\ link[xStart].xBlockSize = 0 /\ link[EndMarker] = BlockLink(NULL, 0, FALSE)
    /\ \A b \in Leads(link) : ~link[b].allocated

(* The headers are sound if they tile the heap and the list is in order.   *)
Sound(link) == Typed(link) /\ Tiled(link) /\ Chain(link, Leads(link))

(* Numbers.                                                                *)
LEMMA SoundNumbers ==
    ASSUME NEW link, Sound(link)
    PROVE  /\ \A p \in DOMAIN link : /\ link[p].xBlockSize \in Nat /\ Successor(link, p) \in Int
                                     /\ link[p].allocated \in BOOLEAN
           /\ \A b \in Blocks(link) : /\ b \in Nat /\ b > 0 /\ b < EndMarker
                                      /\ Beyond(link, b) \in Nat
                                      /\ b + xHeapStructSize < Beyond(link, b)
                                      /\ Beyond(link, b) <= EndMarker
           /\ Leads(link) \ {xStart} \subseteq Blocks(link) /\ xStart \in Leads(link)
           /\ xStart \notin Blocks(link) /\ EndMarker \notin Blocks(link)
           /\ \A p \in Leads(link) : /\ Successor(link, p) \in Blocks(link) \cup {EndMarker}
                                     /\ Successor(link, p) # NULL
<1>1. \A p \in DOMAIN link : /\ link[p].xBlockSize \in Nat /\ Successor(link, p) \in Int
                             /\ link[p].allocated \in BOOLEAN
  BY DEF Sound, Typed, BlockLinks, Successor
<1>2. ASSUME NEW b \in Blocks(link)
      PROVE  /\ b \in Nat /\ b > 0 /\ b < EndMarker /\ link[b].xBlockSize \in Nat
             /\ link[b].xBlockSize > xHeapStructSize
             /\ Beyond(link, b) \in Blocks(link) \cup {EndMarker}
  <2>1. b \in pucAlignedHeap..EndMarker - 1
    BY DEF Sound, Tiled
  <2>2. b \in DOMAIN link
    BY DEF Blocks
  <2> QED BY <1>1, <2>1, <2>2, HeapLayout DEF Sound, Tiled
<1>3. ASSUME NEW b \in Blocks(link)
      PROVE  /\ Beyond(link, b) \in Nat /\ b + xHeapStructSize < Beyond(link, b)
             /\ Beyond(link, b) <= EndMarker
  <2>1. Beyond(link, b) \in Nat /\ Beyond(link, b) <= EndMarker
    BY <1>2, HeapLayout
  <2> QED BY <1>2, <2>1, HeapLayout DEF Beyond
<1>4. EndMarker \notin Leads(link)
  <2>1. link[EndMarker].pxNextFreeBlock = NULL
    BY DEF Sound, Typed, BlockLink
  <2> QED BY <2>1 DEF Leads
<1>5. Leads(link) \ {xStart} \subseteq Blocks(link) /\ xStart \in Leads(link)
  BY <1>4 DEF Blocks, Leads, Sound, Chain
<1>6. ASSUME NEW p \in Leads(link)
      PROVE  Successor(link, p) \in Blocks(link) \cup {EndMarker} /\ Successor(link, p) # NULL
  BY <1>5 DEF Sound, Chain, Leads, Successor
<1> QED BY <1>1, <1>2, <1>3, <1>5, <1>6 DEF Blocks

(* No two blocks end at the same address, and different blocks are apart.  *)
LEMMA BlocksApart ==
    ASSUME NEW link, Sound(link), NEW b \in Blocks(link), NEW c \in Blocks(link)
    PROVE  /\ Beyond(link, b) = Beyond(link, c) => b = c
           /\ b < c => Beyond(link, b) <= c
           /\ b = c \/ Beyond(link, b) <= c \/ Beyond(link, c) <= b
<1>1. /\ b \in Nat /\ c \in Nat /\ Beyond(link, b) \in Nat /\ Beyond(link, c) \in Nat
      /\ b < Beyond(link, b) /\ c < Beyond(link, c)
  BY SoundNumbers, HeapLayout
<1>2. (b < c => Beyond(link, b) <= c) /\ (c < b => Beyond(link, c) <= b)
  BY DEF Sound, Tiled
<1> QED BY <1>1, <1>2

-----------------------------------------------------------------------------
(* The four things that are done to the list: a block is put in between    *)
(* two others, a block is joined with the one behind it, one is cut in     *)
(* two, and one is given away.                                             *)

(* The block is put on the list behind b.                                  *)
Put(link, block, b) ==
    [p \in DOMAIN link |->
        CASE p = block -> BlockLink(Successor(link, b), link[block].xBlockSize, FALSE)
          [] p = b     -> BlockLink(block, link[b].xBlockSize, link[b].allocated)
          [] OTHER     -> link[p]]

(* The block c, which b leads to, becomes a part of b.                     *)
Join(link, b, c) ==
    [p \in DOMAIN link \ {c} |->
        IF p = b THEN BlockLink(Successor(link, c), link[b].xBlockSize + link[c].xBlockSize, FALSE)
        ELSE link[p]]

(* The block is cut in two after so many bytes; the second part stays on   *)
(* the list.                                                               *)
Cut(link, block, size) ==
    [p \in DOMAIN link \cup {block + size} |->
        CASE p = block -> BlockLink(block + size, size, FALSE)
          [] p = block + size ->
                 BlockLink(Successor(link, block), link[block].xBlockSize - size, FALSE)
          [] OTHER -> link[p]]

(* The block, which b leads to, is given to somebody.                      *)
Give(link, block, b) ==
    [p \in DOMAIN link |->
        CASE p = block -> BlockLink(NULL, link[block].xBlockSize, TRUE)
          [] p = b     -> BlockLink(Successor(link, block), link[b].xBlockSize, link[b].allocated)
          [] OTHER     -> link[p]]

(* K are the headers link with block on the list, behind b.                *)
IsPut(K, link, block, b) ==
    /\ Sound(K) /\ DOMAIN K = DOMAIN link
    /\ Leads(K) = Leads(link) \cup {block}
    /\ Successor(K, b) = block /\ Successor(K, block) = Successor(link, b)
    /\ \A p \in DOMAIN link : /\ K[p].xBlockSize = link[p].xBlockSize
                             /\ (K[p].allocated <=> link[p].allocated)

(* A block that is put where it belongs leaves the headers sound.          *)
LEMMA PutKeeps ==
    ASSUME NEW link, Sound(link), NEW block \in Blocks(link), block \notin Leads(link),
           ~link[block].allocated,
           NEW b \in Leads(link), b < block, block <= Successor(link, b)
    PROVE  IsPut(Put(link, block, b), link, block, b)
<1> PICK K : K = Put(link, block, b)
  OBVIOUS
<1> DEFINE after == Successor(link, b)
<1>1. /\ \A p \in DOMAIN link : /\ link[p].xBlockSize \in Nat /\ Successor(link, p) \in Int
                                /\ link[p].allocated \in BOOLEAN
      /\ \A p \in Leads(link) : p \in Int /\ p # EndMarker
      /\ block \in DOMAIN link /\ b \in DOMAIN link /\ block # EndMarker /\ block # xStart
      /\ block \in Nat /\ block > 0 /\ block < EndMarker /\ block # b
      /\ after \in Int /\ after # block /\ block < after /\ after # NULL
      /\ after \in (Leads(link) \ {xStart}) \cup {EndMarker}
  <2>1. after \in (Leads(link) \ {xStart}) \cup {EndMarker} /\ after # block
    BY DEF Sound, Chain, Blocks
  <2>2. block \in DOMAIN link /\ block # EndMarker /\ block # xStart
    BY DEF Blocks
  <2>3. \A p \in Leads(link) : p \in Int /\ p # EndMarker
    BY HeapLayout DEF Sound, Chain
  <2>4. /\ \A p \in DOMAIN link : /\ link[p].xBlockSize \in Nat /\ Successor(link, p) \in Int
                                /\ link[p].allocated \in BOOLEAN
        /\ block \in Nat /\ block > 0 /\ block < EndMarker /\ after # NULL
    BY SoundNumbers
  <2>5. b \in DOMAIN link /\ block # b /\ after \in Int /\ block < after
    BY <2>1, <2>2, <2>3, <2>4 DEF Leads
  <2> QED BY <2>1, <2>2, <2>3, <2>4, <2>5
<1> HIDE DEF after
<1>2. /\ DOMAIN K = DOMAIN link
      /\ K[block] = BlockLink(after, link[block].xBlockSize, FALSE)
      /\ K[b] = BlockLink(block, link[b].xBlockSize, link[b].allocated)
      /\ \A p \in DOMAIN link \ {block, b} : K[p] = link[p]
  BY <1>1 DEF Put, after
<1>a. /\ K[block].pxNextFreeBlock = after /\ K[block].xBlockSize = link[block].xBlockSize
      /\ ~K[block].allocated /\ K[block] \in BlockLinks
  BY <1>1, <1>2 DEF BlockLink, BlockLinks
<1>b. /\ K[b].pxNextFreeBlock = block /\ K[b].xBlockSize = link[b].xBlockSize
      /\ K[b].allocated = link[b].allocated /\ K[b] \in BlockLinks
  BY <1>1, <1>2 DEF BlockLink, BlockLinks
<1>3. \A p \in DOMAIN link : /\ K[p] \in BlockLinks /\ K[p].xBlockSize = link[p].xBlockSize
                             /\ (K[p].allocated <=> link[p].allocated)
  <2>1. ASSUME NEW p \in DOMAIN link
        PROVE  K[p] \in BlockLinks /\ K[p].xBlockSize = link[p].xBlockSize
               /\ (K[p].allocated <=> link[p].allocated)
    <3>1. CASE p = block
      BY <1>1, <1>a, <3>1
    <3>2. CASE p = b
      BY <1>b, <3>2
    <3>3. CASE p \notin {block, b}
      <4>1. link[p] \in BlockLinks
        BY DEF Sound, Typed
      <4> QED BY <1>2, <3>3, <4>1
    <3> QED BY <3>1, <3>2, <3>3
  <2> QED BY <2>1
<1>4. \A p \in DOMAIN link : Successor(K, p) = IF p = block THEN after ELSE IF p = b THEN block
                                               ELSE Successor(link, p)
  BY <1>2, <1>a, <1>b DEF Successor
<1>5. Leads(K) = Leads(link) \cup {block}
  <2>1. \A p \in DOMAIN link : p \in Leads(K) <=> Successor(K, p) # NULL
    BY <1>2 DEF Leads, Successor
  <2>2. \A p \in DOMAIN link : p \in Leads(link) <=> Successor(link, p) # NULL
    BY DEF Leads, Successor
  <2>3. Leads(K) \subseteq DOMAIN link /\ Leads(link) \subseteq DOMAIN link
    BY <1>2 DEF Leads
  <2>4. block # NULL /\ after # NULL
    BY <1>1 DEF NULL
  <2> QED BY <1>1, <1>4, <2>1, <2>2, <2>3, <2>4
<1>6. Typed(K)
  <2>1. K \in [DOMAIN K -> BlockLinks]
    <3>1. K = [p \in DOMAIN K |-> K[p]]
      BY DEF Put
    <3> QED BY <1>2, <1>3, <3>1
  <2>2. xStart \in DOMAIN link /\ EndMarker \in DOMAIN link /\ K[EndMarker] = link[EndMarker]
    BY <1>1, <1>2 DEF Sound, Typed
  <2>3. \A p \in Leads(K) : ~K[p].allocated
    BY <1>1, <1>3, <1>5 DEF Sound, Typed, Leads
  <2> QED BY <1>2, <1>3, <2>1, <2>2, <2>3 DEF Sound, Typed
<1>7. Tiled(K)
  <2>1. Blocks(K) = Blocks(link)
    BY <1>2 DEF Blocks
  <2>2. \A c \in Blocks(link) : K[c].xBlockSize = link[c].xBlockSize /\ Beyond(K, c) = Beyond(link, c)
    BY <1>3 DEF Blocks, Beyond
  <2> QED BY <2>1, <2>2 DEF Sound, Tiled
<1>8. Chain(K, Leads(K))
  <2>1. xStart \in Leads(K)
    BY <1>5 DEF Sound, Chain
  <2>2. ASSUME NEW p \in Leads(K)
        PROVE  /\ p \in Int /\ p < Successor(K, p)
               /\ Successor(K, p) \in (Leads(K) \ {xStart}) \cup {EndMarker}
               /\ xStart <= p /\ p < EndMarker
    <3>1. p \in DOMAIN link
      BY <1>1, <1>5 DEF Leads
    <3>2. CASE p = block
      BY <1>1, <1>4, <1>5, <3>1, <3>2 DEF xStart
    <3>3. CASE p = b
      BY <1>1, <1>4, <1>5, <3>1, <3>3 DEF Sound, Chain
    <3>4. CASE p # block /\ p # b
      BY <1>4, <1>5, <3>1, <3>4 DEF Sound, Chain
    <3> QED BY <3>2, <3>3, <3>4
  <2>3. ASSUME NEW p \in Leads(K), NEW q \in Leads(K) \cup {EndMarker}, p < q
        PROVE  Successor(K, p) <= q
    <3>1. p \in DOMAIN link /\ p \in Int /\ q \in Int
      BY <1>1, <1>5, HeapLayout DEF Leads
    <3>2. CASE p = block
      <4>1. q \in Leads(link) \cup {EndMarker} /\ b < q
        BY <1>1, <1>5, <2>3, <3>1, <3>2
      <4>2. after <= q
        BY <4>1 DEF Sound, Chain, after
      <4> QED BY <1>4, <3>1, <3>2, <4>2
    <3>3. CASE p = b
      <4>1. CASE q = block
        BY <1>1, <1>4, <3>1, <3>3, <4>1
      <4>2. CASE q # block
        <5>1. after <= q
          BY <1>5, <2>3, <3>3, <4>2 DEF Sound, Chain, after
        <5> QED BY <1>1, <1>4, <3>1, <3>3, <5>1
      <4> QED BY <4>1, <4>2
    <3>4. CASE p # block /\ p # b
      <4>1. Successor(K, p) = Successor(link, p) /\ p \in Leads(link)
        BY <1>4, <1>5, <3>1, <3>4
      <4>2. CASE q # block
        BY <1>5, <2>3, <4>1, <4>2 DEF Sound, Chain
      <4>3. CASE q = block
        <5>1. p < after
          BY <1>1, <2>3, <3>1, <4>3
        <5>2. Successor(link, p) <= after /\ Successor(link, p) \in Int
          BY <1>1, <4>1, <5>1, <3>1 DEF Sound, Chain
        <5>3. p < b \/ b < p
          BY <1>1, <3>1, <3>4
        <5>4. b < p => after <= p
          BY <4>1 DEF Sound, Chain, after
        <5>5. p < b => Successor(link, p) <= b
          BY <4>1 DEF Sound, Chain
        <5>6. b \in Int
          BY <1>1
        <5> QED BY <1>1, <2>3, <3>1, <4>1, <4>3, <5>1, <5>2, <5>3, <5>4, <5>5, <5>6
      <4> QED BY <4>2, <4>3
    <3> QED BY <3>2, <3>3, <3>4
  <2> QED BY <2>1, <2>2, <2>3 DEF Chain
<1>9. Successor(K, b) = block /\ Successor(K, block) = Successor(link, b)
  BY <1>1, <1>4 DEF after
<1> QED BY <1>2, <1>3, <1>5, <1>6, <1>7, <1>8, <1>9 DEF IsPut, Sound

(* K are the headers link where b has swallowed c.                         *)
IsJoined(K, link, b, c) ==
    /\ Sound(K) /\ DOMAIN K = DOMAIN link \ {c}
    /\ Leads(K) = Leads(link) \ {c}
    /\ K[b].xBlockSize = link[b].xBlockSize + link[c].xBlockSize
    /\ \A p \in DOMAIN link \ {b, c} : K[p] = link[p]

(* Two blocks on the list that touch are neighbours on it.                 *)
LEMMA TouchingFollow ==
    ASSUME NEW link, Sound(link), NEW b \in Leads(link) \ {xStart}, NEW c \in Leads(link),
           Beyond(link, b) = c
    PROVE  Successor(link, b) = c
<1>1. /\ b \in Blocks(link) /\ Beyond(link, b) \in Nat /\ b \in Nat /\ b < Beyond(link, b)
      /\ c \in Nat /\ b < c
  BY SoundNumbers, HeapLayout
<1>2. Successor(link, b) \in Int /\ b < Successor(link, b) /\ Successor(link, b) <= c
  <2>1. b \in Leads(link) /\ c \in Leads(link) /\ b \in DOMAIN link
    BY DEF Leads
  <2>2. Successor(link, b) \in Int
    BY <2>1, SoundNumbers
  <2>3. Chain(link, Leads(link))
    BY DEF Sound
  <2>4. b < Successor(link, b)
    BY <2>1, <2>3 DEF Chain
  <2>5. Successor(link, b) <= c
    BY <1>1, <2>1, <2>3 DEF Chain
  <2> QED BY <2>2, <2>4, <2>5
<1>3. Successor(link, b) \in Blocks(link) \cup {EndMarker}
  BY SoundNumbers
<1>4. c <= Successor(link, b)
  <2>1. CASE Successor(link, b) = EndMarker
    BY <1>1, <2>1, SoundNumbers
  <2>2. CASE Successor(link, b) \in Blocks(link)
    BY <1>1, <1>2, <2>2, BlocksApart
  <2> QED BY <1>3, <2>1, <2>2
<1> QED BY <1>1, <1>2, <1>4

(* So do two blocks that touch when they are joined.                       *)
LEMMA JoinKeeps ==
    ASSUME NEW link, Sound(link), NEW b \in Leads(link) \ {xStart},
           NEW c \in Leads(link) \ {xStart}, Beyond(link, b) = c
    PROVE  IsJoined(Join(link, b, c), link, b, c)
<1> PICK K : K = Join(link, b, c)
  OBVIOUS
<1> PICK after : after = Successor(link, c)
  OBVIOUS
<1>1. /\ b \in Blocks(link) /\ c \in Blocks(link) /\ b \in Nat /\ c \in Nat
      /\ link[b].xBlockSize \in Nat /\ link[c].xBlockSize \in Nat
      /\ b < c /\ c < Beyond(link, c) /\ Beyond(link, c) \in Nat /\ Beyond(link, c) <= EndMarker
      /\ b \in DOMAIN link /\ c \in DOMAIN link /\ b # xStart /\ c # xStart
      /\ b # EndMarker /\ c # EndMarker
  <2>1. b \in Blocks(link) /\ c \in Blocks(link)
    BY SoundNumbers
  <2>2. b \in DOMAIN link /\ c \in DOMAIN link /\ b # EndMarker /\ c # EndMarker
    BY <2>1 DEF Blocks
  <2> QED BY <2>1, <2>2, SoundNumbers, HeapLayout
<1>2. /\ Successor(link, b) = c /\ after \in Int /\ c < after /\ after # NULL
      /\ after \in (Leads(link) \ {xStart}) \cup {EndMarker}
  <2>1. Successor(link, b) = c
    BY TouchingFollow
  <2>2. after \in Int /\ after # NULL
    BY <1>1, SoundNumbers
  <2>3. c < after /\ after \in (Leads(link) \ {xStart}) \cup {EndMarker}
    BY DEF Sound, Chain
  <2> QED BY <2>1, <2>2, <2>3
<1>3. /\ DOMAIN K = DOMAIN link \ {c}
      /\ K[b] = BlockLink(after, link[b].xBlockSize + link[c].xBlockSize, FALSE)
      /\ \A p \in DOMAIN link \ {b, c} : K[p] = link[p]
      /\ K = [p \in DOMAIN K |-> K[p]]
  <2>1. DOMAIN K = DOMAIN link \ {c} /\ K = [p \in DOMAIN K |-> K[p]]
    BY DEF Join
  <2>2. b \in DOMAIN link \ {c}
    BY <1>1
  <2>3. K[b] = BlockLink(after, link[b].xBlockSize + link[c].xBlockSize, FALSE)
    BY <2>2 DEF Join
  <2>4. ASSUME NEW p \in DOMAIN link \ {b, c}
        PROVE  K[p] = link[p]
    <3>1. p \in DOMAIN link \ {c} /\ p # b
      OBVIOUS
    <3> QED BY <3>1 DEF Join
  <2> QED BY <2>1, <2>3, <2>4
<1>4. /\ K[b].pxNextFreeBlock = after
      /\ K[b].xBlockSize = link[b].xBlockSize + link[c].xBlockSize
      /\ ~K[b].allocated /\ K[b] \in BlockLinks
  BY <1>1, <1>2, <1>3 DEF BlockLink, BlockLinks
<1>5. \A p \in DOMAIN K : Successor(K, p) = IF p = b THEN after ELSE Successor(link, p)
  BY <1>3, <1>4 DEF Successor
<1>6. Leads(K) = Leads(link) \ {c}
  <2>1. \A p \in DOMAIN K : p \in Leads(K) <=> Successor(K, p) # NULL
    BY DEF Leads, Successor
  <2>2. \A p \in DOMAIN link : p \in Leads(link) <=> Successor(link, p) # NULL
    BY DEF Leads, Successor
  <2>3. Leads(K) \subseteq DOMAIN K /\ Leads(link) \subseteq DOMAIN link
    BY DEF Leads
  <2> QED BY <1>2, <1>3, <1>5, <2>1, <2>2, <2>3
<1>7. Typed(K)
  <2>1. \A p \in DOMAIN K : K[p] \in BlockLinks
    BY <1>3, <1>4 DEF Sound, Typed
  <2>2. K \in [DOMAIN K -> BlockLinks]
    BY <1>3, <2>1
  <2>3. /\ xStart \in DOMAIN K /\ EndMarker \in DOMAIN K
        /\ K[xStart] = link[xStart] /\ K[EndMarker] = link[EndMarker]
    BY <1>1, <1>3 DEF Sound, Typed
  <2>4. \A p \in Leads(K) : ~K[p].allocated
    BY <1>3, <1>4, <1>6 DEF Sound, Typed, Leads
  <2> QED BY <2>2, <2>3, <2>4 DEF Sound, Typed
<1>8. Tiled(K) /\ Beyond(K, b) = Beyond(link, c)
  <2>1. Blocks(K) = Blocks(link) \ {c}
    BY <1>3 DEF Blocks
  <2>2. Beyond(K, b) = Beyond(link, c)
    BY <1>1, <1>4 DEF Beyond
  <2>3. \A p \in Blocks(link) \ {b, c} : K[p] = link[p] /\ Beyond(K, p) = Beyond(link, p)
    BY <1>3 DEF Blocks, Beyond
  <2>4. pucAlignedHeap \in Blocks(K)
    <3>1. pucAlignedHeap \in Blocks(link) /\ pucAlignedHeap <= b
      BY <1>1 DEF Sound, Tiled
    <3>2. pucAlignedHeap # c
      BY <1>1, <3>1, HeapLayout
    <3> QED BY <2>1, <3>1, <3>2
  <2>5. ASSUME NEW p \in Blocks(K)
        PROVE  /\ p \in pucAlignedHeap..EndMarker - 1 /\ p % portBYTE_ALIGNMENT = 0
               /\ K[p].xBlockSize > xHeapStructSize
               /\ Beyond(K, p) \in Blocks(K) \cup {EndMarker}
    <3>1. p \in pucAlignedHeap..EndMarker - 1 /\ p % portBYTE_ALIGNMENT = 0
      BY <2>1 DEF Sound, Tiled
    <3>2. CASE p = b
      <4>1. link[b].xBlockSize > xHeapStructSize
        BY <1>1 DEF Sound, Tiled
      <4>2. K[b].xBlockSize > xHeapStructSize
        BY <1>1, <1>4, <4>1, HeapLayout
      <4>3. Beyond(link, c) \in Blocks(link) \cup {EndMarker} /\ Beyond(link, c) # c
        BY <1>1 DEF Sound, Tiled
      <4> QED BY <2>1, <2>2, <3>1, <3>2, <4>2, <4>3
    <3>3. CASE p # b
      <4>1. p \in Blocks(link) /\ p # c /\ K[p] = link[p] /\ Beyond(K, p) = Beyond(link, p)
        BY <2>1, <2>3, <3>3
      <4>2. /\ link[p].xBlockSize > xHeapStructSize
            /\ Beyond(link, p) \in Blocks(link) \cup {EndMarker}
        BY <4>1 DEF Sound, Tiled
      <4>3. Beyond(link, p) # c
        BY <1>1, <3>3, <4>1, BlocksApart
      <4> QED BY <2>1, <3>1, <4>1, <4>2, <4>3
    <3> QED BY <3>2, <3>3
  <2>6. ASSUME NEW p \in Blocks(K), NEW q \in Blocks(K), p < q
        PROVE  Beyond(K, p) <= q
    <3>1. p \in Blocks(link) /\ q \in Blocks(link) /\ q # c /\ p # c
      BY <2>1
    <3>2. CASE p = b
      <4>1. c <= q
        BY <2>6, <3>1, <3>2, BlocksApart
      <4>2. c < q
        BY <1>1, <3>1, <4>1, SoundNumbers
      <4>3. Beyond(link, c) <= q
        BY <1>1, <3>1, <4>2, BlocksApart
      <4> QED BY <2>2, <3>2, <4>3
    <3>3. CASE p # b
      <4>1. Beyond(link, p) <= q
        BY <2>6, <3>1, BlocksApart
      <4> QED BY <2>3, <3>1, <3>3, <4>1
    <3> QED BY <3>2, <3>3
  <2> QED BY <2>2, <2>4, <2>5, <2>6 DEF Tiled
<1>9. Chain(K, Leads(K))
  <2>1. xStart \in Leads(K)
    BY <1>1, <1>6 DEF Sound, Chain
  <2>2. ASSUME NEW p \in Leads(K)
        PROVE  /\ p \in Int /\ p < Successor(K, p)
               /\ Successor(K, p) \in (Leads(K) \ {xStart}) \cup {EndMarker}
               /\ xStart <= p /\ p < EndMarker
    <3>1. p \in Leads(link) /\ p # c /\ p \in DOMAIN K
      BY <1>6 DEF Leads
    <3>2. p \in Int /\ xStart <= p /\ p < EndMarker
      BY <3>1 DEF Sound, Chain
    <3>3. CASE p = b
      <4>1. Successor(K, p) = after /\ p < after /\ after # c
        BY <1>1, <1>2, <1>5, <3>1, <3>3
      <4> QED BY <1>2, <1>6, <3>2, <4>1
    <3>4. CASE p # b
      <4>1. Successor(K, p) = Successor(link, p)
        BY <1>5, <3>1, <3>4
      <4>2. Successor(link, p) # c
        <5>1. p < b \/ b < p
          BY <1>1, <3>2, <3>4
        <5>2. p < b => Successor(link, p) <= b
          BY <3>1 DEF Sound, Chain
        <5>3. b < p => c <= p
          BY <1>2, <3>1 DEF Sound, Chain
        <5>4. p < Successor(link, p)
          BY <3>1 DEF Sound, Chain
        <5> QED BY <1>1, <3>2, <5>1, <5>2, <5>3, <5>4
      <4> QED BY <1>6, <3>1, <3>2, <4>1, <4>2 DEF Sound, Chain
    <3> QED BY <3>3, <3>4
  <2>3. ASSUME NEW p \in Leads(K), NEW q \in Leads(K) \cup {EndMarker}, p < q
        PROVE  Successor(K, p) <= q
    <3>1. /\ p \in Leads(link) /\ p # c /\ p \in DOMAIN K /\ p \in Int
          /\ q \in Leads(link) \cup {EndMarker} /\ q # c /\ q \in Int
      <4>1. p \in Leads(link) /\ p # c /\ p \in DOMAIN K
        BY <1>6 DEF Leads
      <4>2. q \in Leads(link) \cup {EndMarker} /\ q # c
        BY <1>1, <1>6
      <4>3. q \in Int /\ p \in Int
        BY <4>1, <4>2, HeapLayout DEF Sound, Chain
      <4> QED BY <4>1, <4>2, <4>3
    <3>2. CASE p = b
      <4>1. c <= q
        BY <1>2, <2>3, <3>1, <3>2 DEF Sound, Chain
      <4>2. c < q
        BY <1>1, <3>1, <4>1
      <4>3. after <= q
        BY <3>1, <4>2 DEF Sound, Chain
      <4> QED BY <1>5, <3>1, <3>2, <4>3
    <3>3. CASE p # b
      <4>1. Successor(link, p) <= q
        BY <2>3, <3>1 DEF Sound, Chain
      <4> QED BY <1>5, <3>1, <3>3, <4>1
    <3> QED BY <3>2, <3>3
  <2> QED BY <2>1, <2>2, <2>3 DEF Chain
<1> QED BY <1>3, <1>4, <1>6, <1>7, <1>8, <1>9 DEF IsJoined, Sound

(* K are the headers link where size bytes of block were cut off from the  *)
(* rest, a block of its own behind it.                                     *)
IsCut(K, link, block, size) ==
    /\ Sound(K) /\ block + size \notin DOMAIN link
    /\ DOMAIN K = DOMAIN link \cup {block + size}
    /\ Leads(K) = Leads(link) \cup {block + size}
    /\ K[block].xBlockSize = size
    /\ K[block + size].xBlockSize = link[block].xBlockSize - size
    /\ ~K[block].allocated /\ ~K[block + size].allocated
    /\ \A p \in DOMAIN link \ {block} : K[p] = link[p]

(* So does a block that is cut in two, at an aligned place with room for a *)
(* header on either side.                                                  *)
LEMMA CutKeeps ==
    ASSUME NEW link, Sound(link), NEW block \in Leads(link) \ {xStart},
           NEW size \in Nat, size % portBYTE_ALIGNMENT = 0, size > xHeapStructSize,
           link[block].xBlockSize - size > xHeapStructSize
    PROVE  IsCut(Cut(link, block, size), link, block, size)
<1> PICK K : K = Cut(link, block, size)
  OBVIOUS
<1> PICK after : after = Successor(link, block)
  OBVIOUS
<1> PICK new : new = block + size
  OBVIOUS
<1> PICK rest : rest = link[block].xBlockSize - size
  OBVIOUS
<1>1. /\ block \in Blocks(link) /\ block \in Nat /\ block > 0 /\ block < EndMarker
      /\ block \in DOMAIN link /\ block # xStart /\ block # EndMarker
      /\ block \in Leads(link)
      /\ new \in Nat /\ rest \in Nat /\ rest > xHeapStructSize
      /\ block < new /\ new < Beyond(link, block) /\ Beyond(link, block) \in Nat
      /\ Beyond(link, block) <= EndMarker /\ new + rest = Beyond(link, block)
      /\ new % portBYTE_ALIGNMENT = 0
  <2>1. block \in Leads(link) /\ block \in Blocks(link) /\ block # xStart
    BY SoundNumbers
  <2>2. /\ block \in Nat /\ block > 0 /\ block < EndMarker
        /\ Beyond(link, block) \in Nat /\ Beyond(link, block) <= EndMarker
    BY <2>1, SoundNumbers
  <2>3. block \in DOMAIN link /\ block # EndMarker
    BY <2>1 DEF Blocks
  <2>4. link[block].xBlockSize \in Nat
    BY <2>3, SoundNumbers
  <2>5. /\ new \in Nat /\ rest \in Nat /\ rest > xHeapStructSize
        /\ block < new /\ new < Beyond(link, block) /\ new + rest = Beyond(link, block)
    BY <2>2, <2>4, HeapLayout DEF Beyond
  <2>6. block % portBYTE_ALIGNMENT = 0
    BY <2>1 DEF Sound, Tiled
  <2>7. new % portBYTE_ALIGNMENT = 0
    <3>1. PICK a \in Nat \ {0} : a = portBYTE_ALIGNMENT
      BY HeapLayout
    <3>2. block \in Int /\ size \in Int /\ block % a = 0 /\ size % a = 0
      BY <2>2, <2>6, <3>1
    <3>3. (block + size) % a = 0
      BY <3>2, AlignedSum
    <3> QED BY <3>1, <3>3
  <2> QED BY <2>1, <2>2, <2>3, <2>5, <2>7
<1>2. /\ after \in Int /\ after # NULL /\ Beyond(link, block) <= after
      /\ after \in (Leads(link) \ {xStart}) \cup {EndMarker}
  <2>1. after \in (Leads(link) \ {xStart}) \cup {EndMarker} /\ block < after
    BY <1>1 DEF Sound, Chain
  <2>2. after \in Int /\ after # NULL
    BY <1>1, SoundNumbers
  <2>3. CASE after = EndMarker
    BY <1>1, <2>1, <2>2, <2>3
  <2>4. CASE after \in Leads(link) \ {xStart}
    <3>1. after \in Blocks(link)
      BY <2>4, SoundNumbers
    <3> QED BY <1>1, <2>1, <2>2, <3>1, BlocksApart
  <2> QED BY <2>1, <2>2, <2>3, <2>4
<1>3. new \notin DOMAIN link
  <2>1. ASSUME new \in Blocks(link)
        PROVE  FALSE
    <3>1. Beyond(link, block) <= new
      BY <1>1, <2>1, BlocksApart
    <3> QED BY <1>1, <3>1
  <2>2. new # xStart
    BY <1>1 DEF xStart
  <2>3. new # EndMarker
    BY <1>1, HeapLayout
  <2> QED BY <2>1, <2>2, <2>3 DEF Blocks
<1>4. /\ DOMAIN K = DOMAIN link \cup {new}
      /\ K[block] = BlockLink(new, size, FALSE)
      /\ K[new] = BlockLink(after, rest, FALSE)
      /\ \A p \in DOMAIN link \ {block} : K[p] = link[p]
      /\ K = [p \in DOMAIN K |-> K[p]]
  <2>0. K = [p \in DOMAIN link \cup {new} |->
                CASE p = block -> BlockLink(new, size, FALSE)
                  [] p = new   -> BlockLink(after, rest, FALSE)
                  [] OTHER     -> link[p]]
    BY DEF Cut
  <2>1. DOMAIN K = DOMAIN link \cup {new} /\ K = [p \in DOMAIN K |-> K[p]]
    BY <2>0
  <2>a. new # block
    BY <1>1
  <2>2. K[block] = BlockLink(new, size, FALSE)
    BY <1>1, <2>0, <2>a
  <2>3. K[new] = BlockLink(after, rest, FALSE)
    BY <2>0, <2>a
  <2>4. ASSUME NEW p \in DOMAIN link \ {block}
        PROVE  K[p] = link[p]
    <3>1. p # new /\ p # block
      BY <1>3
    <3> QED BY <2>0, <3>1
  <2> QED BY <2>1, <2>2, <2>3, <2>4
<1>5. /\ K[block].pxNextFreeBlock = new /\ K[block].xBlockSize = size
      /\ ~K[block].allocated /\ K[block] \in BlockLinks
  BY <1>1, <1>4 DEF BlockLink, BlockLinks
<1>6. /\ K[new].pxNextFreeBlock = after /\ K[new].xBlockSize = rest
      /\ ~K[new].allocated /\ K[new] \in BlockLinks
  BY <1>1, <1>2, <1>4 DEF BlockLink, BlockLinks
<1>7. \A p \in DOMAIN K : Successor(K, p) = IF p = block THEN new ELSE IF p = new THEN after
                                            ELSE Successor(link, p)
  BY <1>4, <1>5, <1>6 DEF Successor
<1>8. Leads(K) = Leads(link) \cup {new}
  <2>1. \A p \in DOMAIN K : p \in Leads(K) <=> Successor(K, p) # NULL
    BY DEF Leads, Successor
  <2>2. \A p \in DOMAIN link : p \in Leads(link) <=> Successor(link, p) # NULL
    BY DEF Leads, Successor
  <2>3. Leads(K) \subseteq DOMAIN K /\ Leads(link) \subseteq DOMAIN link
    BY DEF Leads
  <2>4. new # NULL
    BY <1>1 DEF NULL
  <2> QED BY <1>1, <1>2, <1>3, <1>4, <1>7, <2>1, <2>2, <2>3, <2>4
<1>9. Typed(K)
  <2>1. \A p \in DOMAIN K : K[p] \in BlockLinks
    BY <1>4, <1>5, <1>6 DEF Sound, Typed
  <2>2. K \in [DOMAIN K -> BlockLinks]
    BY <1>4, <2>1
  <2>3. /\ xStart \in DOMAIN K /\ EndMarker \in DOMAIN K
        /\ K[xStart] = link[xStart] /\ K[EndMarker] = link[EndMarker]
    BY <1>1, <1>4 DEF Sound, Typed
  <2>4. \A p \in Leads(K) : ~K[p].allocated
    BY <1>4, <1>5, <1>6, <1>8 DEF Sound, Typed, Leads
  <2> QED BY <2>2, <2>3, <2>4 DEF Sound, Typed
<1>10. Tiled(K)
  <2>1. Blocks(K) = Blocks(link) \cup {new}
    <3>1. new # xStart /\ new # EndMarker
      BY <1>3 DEF Sound, Typed
    <3> QED BY <1>4, <3>1 DEF Blocks
  <2>2. Beyond(K, block) = new /\ Beyond(K, new) = Beyond(link, block)
    BY <1>1, <1>5, <1>6 DEF Beyond
  <2>3. \A p \in Blocks(link) \ {block} : K[p] = link[p] /\ Beyond(K, p) = Beyond(link, p)
    BY <1>4 DEF Blocks, Beyond
  <2>4. pucAlignedHeap \in Blocks(K) /\ pucAlignedHeap <= block
    BY <1>1, <2>1 DEF Sound, Tiled
  <2>5. ASSUME NEW p \in Blocks(K)
        PROVE  /\ p \in pucAlignedHeap..EndMarker - 1 /\ p % portBYTE_ALIGNMENT = 0
               /\ K[p].xBlockSize > xHeapStructSize
               /\ Beyond(K, p) \in Blocks(K) \cup {EndMarker}
    <3>1. CASE p = new
      <4>1. p \in pucAlignedHeap..EndMarker - 1
        BY <1>1, <2>4, <3>1, HeapLayout
      <4>2. Beyond(link, block) \in Blocks(link) \cup {EndMarker}
        BY <1>1 DEF Sound, Tiled
      <4> QED BY <1>1, <1>6, <2>1, <2>2, <3>1, <4>1, <4>2
    <3>2. CASE p = block
      <4>1. p \in pucAlignedHeap..EndMarker - 1 /\ p % portBYTE_ALIGNMENT = 0
        BY <1>1, <3>2 DEF Sound, Tiled
      <4> QED BY <1>5, <2>1, <2>2, <3>2, <4>1
    <3>3. CASE p # new /\ p # block
      <4>1. p \in Blocks(link) /\ K[p] = link[p] /\ Beyond(K, p) = Beyond(link, p)
        BY <2>1, <2>3, <3>3
      <4>2. /\ p \in pucAlignedHeap..EndMarker - 1 /\ p % portBYTE_ALIGNMENT = 0
            /\ link[p].xBlockSize > xHeapStructSize
            /\ Beyond(link, p) \in Blocks(link) \cup {EndMarker}
        BY <4>1 DEF Sound, Tiled
      <4> QED BY <2>1, <4>1, <4>2
    <3> QED BY <3>1, <3>2, <3>3
  <2>6. ASSUME NEW p \in Blocks(K), NEW q \in Blocks(K), p < q
        PROVE  Beyond(K, p) <= q
    <3>1. \A r \in Blocks(link) : r \in Nat /\ Beyond(link, r) \in Nat /\ r < Beyond(link, r)
      BY SoundNumbers, HeapLayout
    <3>2. CASE p = new
      <4>1. q \in Blocks(link) /\ block < q
        BY <1>1, <2>1, <2>6, <3>1, <3>2
      <4>2. Beyond(link, block) <= q
        BY <1>1, <4>1, BlocksApart
      <4> QED BY <2>2, <3>2, <4>2
    <3>3. CASE p = block
      <4>1. CASE q = new
        BY <1>1, <2>2, <3>3, <4>1
      <4>2. CASE q # new
        <5>1. q \in Blocks(link)
          BY <2>1, <4>2
        <5>2. Beyond(link, block) <= q
          BY <1>1, <2>6, <3>3, <5>1, BlocksApart
        <5> QED BY <1>1, <2>2, <3>1, <3>3, <5>1, <5>2
      <4> QED BY <4>1, <4>2
    <3>4. CASE p # new /\ p # block
      <4>1. p \in Blocks(link) /\ Beyond(K, p) = Beyond(link, p)
        BY <2>1, <2>3, <3>4
      <4>2. CASE q = new
        <5>1. p < block \/ block < p
          <6>1. p \in Int
            BY <3>1, <4>1
          <6>2. block \in Int
            BY <1>1
          <6>3. p # block
            BY <3>4
          <6> QED BY ONLY <6>1, <6>2, <6>3
        <5>2. p < block => Beyond(link, p) <= block
          BY <1>1, <4>1, BlocksApart
        <5>3. ~(block < p)
          <6>1. block < p => Beyond(link, block) <= p
            BY <1>1, <4>1, BlocksApart
          <6>2. p < new /\ p \in Nat
            BY <2>6, <3>1, <4>1, <4>2
          <6> QED BY <1>1, <6>1, <6>2
        <5>4. Beyond(link, p) <= block /\ Beyond(link, p) \in Nat
          BY <3>1, <4>1, <5>1, <5>2, <5>3
        <5> QED BY <1>1, <4>1, <4>2, <5>4
      <4>3. CASE q # new
        <5>1. q \in Blocks(link)
          BY <2>1, <4>3
        <5> QED BY <2>6, <4>1, <5>1, BlocksApart
      <4> QED BY <4>2, <4>3
    <3> QED BY <3>2, <3>3, <3>4
  <2> QED BY <2>4, <2>5, <2>6 DEF Tiled
<1>11. Chain(K, Leads(K))
  <2>0. Chain(link, Leads(link))
    BY DEF Sound
  <2>1. xStart \in Leads(K)
    BY <1>8, <2>0 DEF Chain
  <2>2. ASSUME NEW p \in Leads(K)
        PROVE  /\ p \in Int /\ p < Successor(K, p)
               /\ Successor(K, p) \in (Leads(K) \ {xStart}) \cup {EndMarker}
               /\ xStart <= p /\ p < EndMarker
    <3>1. p \in DOMAIN K
      BY DEF Leads
    <3>2. CASE p = new
      <4>1. Successor(K, p) = after /\ xStart <= p /\ p < EndMarker /\ p < after
        BY <1>1, <1>2, <1>3, <1>7, <3>1, <3>2, HeapLayout DEF xStart
      <4> QED BY <1>1, <1>2, <1>8, <3>2, <4>1
    <3>3. CASE p = block
      <4>1. Successor(K, p) = new /\ new # xStart /\ xStart <= p
        BY <1>1, <1>7, <3>1, <3>3 DEF xStart
      <4> QED BY <1>1, <1>8, <3>3, <4>1
    <3>4. CASE p # new /\ p # block
      <4>1. Successor(K, p) = Successor(link, p) /\ p \in Leads(link)
        BY <1>7, <1>8, <3>1, <3>4
      <4> QED BY <1>8, <2>0, <4>1 DEF Chain
    <3> QED BY <3>2, <3>3, <3>4
  <2>3. ASSUME NEW p \in Leads(K), NEW q \in Leads(K) \cup {EndMarker}, p < q
        PROVE  Successor(K, p) <= q
    <3>1. p \in DOMAIN K /\ p \in Int /\ q \in Int
      <4>1. p \in DOMAIN K
        BY DEF Leads
      <4> QED BY <2>2, <4>1, HeapLayout
    <3>2. CASE p = new
      <4>1. q \in Leads(link) \cup {EndMarker} /\ block < q
        BY <1>1, <1>8, <2>3, <3>1, <3>2
      <4>2. after <= q
        BY <1>1, <2>0, <4>1 DEF Chain
      <4>3. Successor(K, p) = after
        BY <1>1, <1>3, <1>7, <3>1, <3>2
      <4> QED BY <4>2, <4>3
    <3>3. CASE p = block
      <4>1. Successor(K, p) = new
        BY <1>7, <3>1, <3>3
      <4>2. CASE q = new
        BY <1>1, <4>1, <4>2
      <4>3. CASE q # new
        <5>1. q \in Leads(link) \cup {EndMarker}
          BY <1>8, <4>3
        <5>2. after <= q
          BY <1>1, <2>0, <2>3, <3>3, <5>1 DEF Chain
        <5> QED BY <1>1, <1>2, <3>1, <4>1, <5>2
      <4> QED BY <4>2, <4>3
    <3>4. CASE p # new /\ p # block
      <4>1. Successor(K, p) = Successor(link, p) /\ p \in Leads(link)
        BY <1>7, <1>8, <3>1, <3>4
      <4>2. CASE q = new
        <5>1. p < block \/ block < p
          BY <1>1, <3>1, <3>4
        <5>2. p < block => Successor(link, p) <= block
          BY <1>1, <2>0, <4>1 DEF Chain
        <5>3. block < p => after <= p
          BY <1>1, <2>0, <4>1 DEF Chain
        <5>4. Successor(link, p) \in Int
          <6>1. p \in DOMAIN link
            BY <4>1 DEF Leads
          <6> QED BY <6>1, SoundNumbers
        <5> QED BY <1>1, <1>2, <2>3, <3>1, <4>1, <4>2, <5>1, <5>2, <5>3, <5>4
      <4>3. CASE q # new
        <5>1. q \in Leads(link) \cup {EndMarker}
          BY <1>8, <4>3
        <5> QED BY <2>0, <2>3, <4>1, <5>1 DEF Chain
      <4> QED BY <4>2, <4>3
    <3> QED BY <3>2, <3>3, <3>4
  <2> QED BY <2>1, <2>2, <2>3, <1>8 DEF Chain
<1> QED BY <1>3, <1>4, <1>5, <1>6, <1>8, <1>9, <1>10, <1>11 DEF IsCut, Sound

(* K are the headers link where block is on the list no longer, but the    *)
(* application's.                                                          *)
IsGiven(K, link, block) ==
    /\ Sound(K) /\ DOMAIN K = DOMAIN link
    /\ Leads(K) = Leads(link) \ {block}
    /\ K[block] = BlockLink(NULL, link[block].xBlockSize, TRUE)
    /\ \A p \in DOMAIN link : K[p].xBlockSize = link[p].xBlockSize
    /\ \A p \in DOMAIN link \ {block} : K[p].allocated <=> link[p].allocated

(* And so does a block that is given away.                                 *)
LEMMA GiveKeeps ==
    ASSUME NEW link, Sound(link), NEW block \in Leads(link) \ {xStart},
           NEW b \in Leads(link), Successor(link, b) = block
    PROVE  IsGiven(Give(link, block, b), link, block)
<1> PICK K : K = Give(link, block, b)
  OBVIOUS
<1> PICK after : after = Successor(link, block)
  OBVIOUS
<1>0. Chain(link, Leads(link))
  BY DEF Sound
<1>1. /\ block \in Blocks(link) /\ block \in Nat
      /\ block \in DOMAIN link /\ block # xStart /\ block # EndMarker
      /\ block \in Leads(link) /\ b \in DOMAIN link /\ b \in Int /\ b < block /\ b # block
      /\ b # EndMarker
      /\ after \in Int /\ after # NULL /\ block < after
      /\ after \in (Leads(link) \ {xStart}) \cup {EndMarker}
      /\ link[block].xBlockSize \in Nat /\ link[b].xBlockSize \in Nat
  <2>1. block \in Leads(link) /\ block \in Blocks(link) /\ block # xStart
    BY SoundNumbers
  <2>2. block \in DOMAIN link /\ block # EndMarker /\ b \in DOMAIN link
    BY <2>1 DEF Blocks, Leads
  <2>3. b \in Int /\ b < block /\ b < EndMarker
    BY <1>0 DEF Chain
  <2>4. after \in (Leads(link) \ {xStart}) \cup {EndMarker} /\ block < after
    BY <1>0, <2>1 DEF Chain
  <2>5. /\ block \in Nat /\ after \in Int /\ after # NULL
        /\ link[block].xBlockSize \in Nat /\ link[b].xBlockSize \in Nat
    BY <2>1, <2>2, SoundNumbers
  <2>6. b # block /\ b # EndMarker
    BY <2>3, <2>5, HeapLayout
  <2> QED BY <2>1, <2>2, <2>3, <2>4, <2>5, <2>6
<1>2. /\ DOMAIN K = DOMAIN link /\ K = [p \in DOMAIN K |-> K[p]]
      /\ K[block] = BlockLink(NULL, link[block].xBlockSize, TRUE)
      /\ K[b] = BlockLink(after, link[b].xBlockSize, link[b].allocated)
      /\ \A p \in DOMAIN link \ {block, b} : K[p] = link[p]
  <2>0. K = [p \in DOMAIN link |->
                CASE p = block -> BlockLink(NULL, link[block].xBlockSize, TRUE)
                  [] p = b     -> BlockLink(after, link[b].xBlockSize, link[b].allocated)
                  [] OTHER     -> link[p]]
    BY DEF Give
  <2>1. DOMAIN K = DOMAIN link /\ K = [p \in DOMAIN K |-> K[p]]
    BY <2>0
  <2>2. K[block] = BlockLink(NULL, link[block].xBlockSize, TRUE)
    BY <1>1, <2>0
  <2>3. K[b] = BlockLink(after, link[b].xBlockSize, link[b].allocated)
    BY <1>1, <2>0
  <2>4. \A p \in DOMAIN link \ {block, b} : K[p] = link[p]
    BY <2>0
  <2> QED BY <2>1, <2>2, <2>3, <2>4
<1>3. /\ K[block].pxNextFreeBlock = NULL /\ K[block].xBlockSize = link[block].xBlockSize
      /\ K[block].allocated /\ K[block] \in BlockLinks
  BY <1>1, <1>2 DEF BlockLink, BlockLinks, NULL
<1>4. /\ K[b].pxNextFreeBlock = after /\ K[b].xBlockSize = link[b].xBlockSize
      /\ K[b].allocated = link[b].allocated /\ K[b] \in BlockLinks
  <2>1. link[b].allocated \in BOOLEAN
    BY <1>1, SoundNumbers
  <2> QED BY <1>1, <1>2, <2>1 DEF BlockLink, BlockLinks
<1>5. /\ \A p \in DOMAIN link : K[p] \in BlockLinks /\ K[p].xBlockSize = link[p].xBlockSize
      /\ \A p \in DOMAIN link \ {block} : K[p].allocated <=> link[p].allocated
  <2>1. \A p \in DOMAIN link : link[p] \in BlockLinks
    BY DEF Sound, Typed
  <2>2. ASSUME NEW p \in DOMAIN link
        PROVE  /\ K[p] \in BlockLinks /\ K[p].xBlockSize = link[p].xBlockSize
               /\ p # block => (K[p].allocated <=> link[p].allocated)
    <3>1. CASE p = block
      BY <1>3, <3>1
    <3>2. CASE p = b
      BY <1>4, <3>2
    <3>3. CASE p \notin {block, b}
      BY <1>2, <2>1, <3>3
    <3> QED BY <3>1, <3>2, <3>3
  <2> QED BY <2>2
<1>6. \A p \in DOMAIN link : Successor(K, p) = IF p = block THEN NULL ELSE IF p = b THEN after
                                               ELSE Successor(link, p)
  BY <1>2, <1>3, <1>4 DEF Successor
<1>7. Leads(K) = Leads(link) \ {block}
  <2>1. \A p \in DOMAIN link : p \in Leads(K) <=> Successor(K, p) # NULL
    BY <1>2 DEF Leads, Successor
  <2>2. \A p \in DOMAIN link : p \in Leads(link) <=> Successor(link, p) # NULL
    BY DEF Leads, Successor
  <2>3. Leads(K) \subseteq DOMAIN link /\ Leads(link) \subseteq DOMAIN link
    BY <1>2 DEF Leads
  <2> QED BY <1>1, <1>6, <2>1, <2>2, <2>3
<1>8. Typed(K)
  <2>1. K \in [DOMAIN K -> BlockLinks]
    BY <1>2, <1>5
  <2>2. xStart \in DOMAIN link /\ EndMarker \in DOMAIN link /\ K[EndMarker] = link[EndMarker]
    BY <1>1, <1>2 DEF Sound, Typed
  <2>3. \A p \in Leads(K) : ~K[p].allocated
    BY <1>5, <1>7 DEF Sound, Typed, Leads
  <2> QED BY <1>2, <1>5, <2>1, <2>2, <2>3 DEF Sound, Typed
<1>9. Tiled(K)
  <2>1. Blocks(K) = Blocks(link)
    BY <1>2 DEF Blocks
  <2>2. \A c \in Blocks(link) : K[c].xBlockSize = link[c].xBlockSize /\ Beyond(K, c) = Beyond(link, c)
    BY <1>5 DEF Blocks, Beyond
  <2> QED BY <2>1, <2>2 DEF Sound, Tiled
<1>10. Chain(K, Leads(K))
  <2>1. xStart \in Leads(K)
    BY <1>0, <1>1, <1>7 DEF Chain
  <2>2. ASSUME NEW p \in Leads(K)
        PROVE  /\ p \in Int /\ p < Successor(K, p) /\ p \in DOMAIN link
               /\ Successor(K, p) \in (Leads(K) \ {xStart}) \cup {EndMarker}
               /\ xStart <= p /\ p < EndMarker
    <3>1. p \in DOMAIN link /\ p \in Leads(link) /\ p # block
      BY <1>7 DEF Leads
    <3>2. p \in Int /\ xStart <= p /\ p < EndMarker
      BY <1>0, <3>1 DEF Chain
    <3>3. CASE p = b
      <4>1. Successor(K, p) = after /\ b < after /\ after # block
        BY <1>1, <1>6, <3>1, <3>3
      <4> QED BY <1>1, <1>7, <3>1, <3>2, <3>3, <4>1
    <3>4. CASE p # b
      <4>1. Successor(K, p) = Successor(link, p)
        BY <1>6, <3>1, <3>4
      <4>2. Successor(link, p) # block
        <5>1. p < b \/ b < p
          BY <1>1, <3>2, <3>4
        <5>2. p < b => Successor(link, p) <= b
          BY <1>0, <3>1 DEF Chain
        <5>3. b < p => block <= p
          BY <1>0, <3>1 DEF Chain
        <5>4. p < Successor(link, p)
          BY <1>0, <3>1 DEF Chain
        <5> QED BY <1>1, <3>2, <5>1, <5>2, <5>3, <5>4
      <4>3. p < Successor(link, p) /\ Successor(link, p) \in (Leads(link) \ {xStart}) \cup {EndMarker}
        BY <1>0, <3>1 DEF Chain
      <4> QED BY <1>7, <3>1, <3>2, <4>1, <4>2, <4>3
    <3> QED BY <3>3, <3>4
  <2>3. ASSUME NEW p \in Leads(K), NEW q \in Leads(K) \cup {EndMarker}, p < q
        PROVE  Successor(K, p) <= q
    <3>1. /\ p \in Leads(link) /\ p # block /\ p \in DOMAIN link /\ p \in Int
          /\ q \in Leads(link) \cup {EndMarker} /\ q # block /\ q \in Int
      <4>1. p \in Leads(link) /\ p # block /\ p \in DOMAIN link
        BY <1>7, <2>2
      <4>2. q \in Leads(link) \cup {EndMarker} /\ q # block
        BY <1>1, <1>7
      <4>3. q \in Int /\ p \in Int
        BY <2>2, HeapLayout
      <4> QED BY <4>1, <4>2, <4>3
    <3>2. CASE p = b
      <4>1. block <= q
        BY <1>0, <2>3, <3>1, <3>2 DEF Chain
      <4>2. block < q
        BY <1>1, <3>1, <4>1
      <4>3. after <= q
        BY <1>0, <1>1, <3>1, <4>2 DEF Chain
      <4> QED BY <1>1, <1>6, <3>1, <3>2, <4>3
    <3>3. CASE p # b
      <4>1. Successor(link, p) <= q
        BY <1>0, <2>3, <3>1 DEF Chain
      <4> QED BY <1>6, <3>1, <3>3, <4>1
    <3> QED BY <3>2, <3>3
  <2> QED BY <1>7, <2>1, <2>2, <2>3 DEF Chain
<1> QED BY <1>2, <1>5, <1>7, <1>8, <1>9, <1>10 DEF IsGiven, Sound

(* The headers that prvHeapInit makes.                                     *)
LEMMA InitIsSound ==
    /\ Sound(prvHeapInit.link) /\ Leads(prvHeapInit.link) = {xStart, pucAlignedHeap}
    /\ Blocks(prvHeapInit.link) = {pucAlignedHeap}
    /\ prvHeapInit.link[pucAlignedHeap].xBlockSize = EndMarker - pucAlignedHeap
    /\ prvHeapInit.pxEnd = EndMarker
    /\ prvHeapInit.xFreeBytesRemaining = EndMarker - pucAlignedHeap
    /\ prvHeapInit.xMinimumEverFreeBytesRemaining = EndMarker - pucAlignedHeap
<1> PICK K : K = prvHeapInit.link
  OBVIOUS
<1> PICK first : first = pucAlignedHeap
  OBVIOUS
<1> PICK size : size = EndMarker - first
  OBVIOUS
<1>1. /\ first \in Nat /\ first > 0 /\ first # xStart /\ EndMarker # xStart /\ first # EndMarker
      /\ first < EndMarker /\ EndMarker \in Nat /\ EndMarker > 0
      /\ size \in Nat /\ size > xHeapStructSize /\ first % portBYTE_ALIGNMENT = 0
      /\ first + size = EndMarker
  BY HeapLayout DEF xStart
<1>2. K = [p \in {xStart, first, EndMarker} |->
              CASE p = xStart    -> BlockLink(first, 0, FALSE)
                [] p = first     -> BlockLink(EndMarker, size, FALSE)
                [] p = EndMarker -> BlockLink(NULL, 0, FALSE)]
  <2>1. K = [p \in {xStart, pucAlignedHeap, EndMarker} |->
                CASE p = xStart         -> BlockLink(pucAlignedHeap, 0, FALSE)
                  [] p = pucAlignedHeap -> BlockLink(EndMarker, EndMarker - pucAlignedHeap, FALSE)
                  [] p = EndMarker      -> BlockLink(NULL, 0, FALSE)]
    BY ZenonT(30) DEF prvHeapInit
  <2> QED BY <2>1, Zenon
<1>3. /\ DOMAIN K = {xStart, first, EndMarker} /\ K = [p \in DOMAIN K |-> K[p]]
      /\ K[xStart] = BlockLink(first, 0, FALSE) /\ K[first] = BlockLink(EndMarker, size, FALSE)
      /\ K[EndMarker] = BlockLink(NULL, 0, FALSE)
  <2>1. DOMAIN K = {xStart, first, EndMarker} /\ K = [p \in DOMAIN K |-> K[p]]
    BY <1>2
  <2>2. K[xStart] = BlockLink(first, 0, FALSE)
    BY <1>1, <1>2
  <2>3. K[first] = BlockLink(EndMarker, size, FALSE)
    BY <1>1, <1>2
  <2>4. K[EndMarker] = BlockLink(NULL, 0, FALSE)
    BY <1>1, <1>2
  <2> QED BY <2>1, <2>2, <2>3, <2>4
<1>4. /\ K[xStart].pxNextFreeBlock = first /\ K[first].pxNextFreeBlock = EndMarker
      /\ K[EndMarker].pxNextFreeBlock = NULL /\ K[xStart].xBlockSize = 0
      /\ K[first].xBlockSize = size /\ ~K[xStart].allocated /\ ~K[first].allocated
      /\ K[xStart] \in BlockLinks /\ K[first] \in BlockLinks /\ K[EndMarker] \in BlockLinks
  BY <1>1, <1>3 DEF BlockLink, BlockLinks, NULL
<1>5. Leads(K) = {xStart, first} /\ Blocks(K) = {first}
  <2>1. first # NULL /\ EndMarker # NULL
    BY <1>1 DEF NULL
  <2>2. xStart \in Leads(K) /\ first \in Leads(K) /\ EndMarker \notin Leads(K)
    BY <1>3, <1>4, <2>1 DEF Leads
  <2>3. Leads(K) \subseteq {xStart, first, EndMarker}
    BY <1>3 DEF Leads
  <2>4. Leads(K) = {xStart, first}
    BY <2>2, <2>3
  <2>5. Blocks(K) = {first}
    BY <1>1, <1>3 DEF Blocks
  <2> QED BY <2>4, <2>5
<1>6. Typed(K)
  <2>1. K \in [DOMAIN K -> BlockLinks]
    BY <1>3, <1>4
  <2> QED BY <1>3, <1>4, <1>5, <2>1 DEF Typed
<1>7. Tiled(K)
  <2>1. Beyond(K, first) = EndMarker
    BY <1>1, <1>4 DEF Beyond
  <2> QED BY <1>1, <1>4, <1>5, <2>1, HeapLayout DEF Tiled
<1>8. Chain(K, Leads(K))
  <2>1. Successor(K, xStart) = first /\ Successor(K, first) = EndMarker
    BY <1>4 DEF Successor
  <2> QED BY <1>1, <1>5, <2>1 DEF Chain, xStart
<1>9. /\ prvHeapInit.pxEnd = EndMarker
      /\ prvHeapInit.xFreeBytesRemaining = size
      /\ prvHeapInit.xMinimumEverFreeBytesRemaining = size
  BY DEF prvHeapInit
<1> QED BY <1>4, <1>5, <1>6, <1>7, <1>8, <1>9 DEF Sound

-----------------------------------------------------------------------------
(* Two free blocks that touch.                                             *)
Neighbours(link, p, q) ==
    p \in Leads(link) \ {xStart} /\ q \in Leads(link) \ {xStart} /\ Beyond(link, p) = q

(* Nothing is left to be merged.                                           *)
Merged(link) == \A p, q \in DOMAIN link : ~Neighbours(link, p, q)

(* The bytes of the blocks on the list.                                    *)
FreeBytes(link) == Extents(link, Leads(link) \ {xStart})

(* Two blocks of the same size have the same bytes.                        *)
LEMMA SameBytes ==
    ASSUME NEW link, NEW K, NEW S, \A p \in S : K[p].xBlockSize = link[p].xBlockSize
    PROVE  Extents(K, S) = Extents(link, S)
<1>1. \A p \in S : Extent(K, p) = Extent(link, p)
  BY DEF Extent
<1> QED BY <1>1 DEF Extents

(* A block on the list makes at most two new pairs of neighbours.          *)
LEMMA PutTouches ==
    ASSUME NEW link, Sound(link), NEW block \in Blocks(link), NEW b \in Leads(link),
           block \notin Leads(link), NEW K, IsPut(K, link, block, b)
    PROVE  /\ FreeBytes(K) = Extents(link, (Leads(link) \ {xStart}) \cup {block})
           /\ \A p, q : Neighbours(K, p, q) =>
                 \/ Neighbours(link, p, q)
                 \/ p = b /\ q = block
                 \/ p = block /\ q = Successor(link, b)
<1>1. /\ Sound(K) /\ Leads(K) = Leads(link) \cup {block} /\ DOMAIN K = DOMAIN link
      /\ Successor(K, b) = block /\ Successor(K, block) = Successor(link, b)
      /\ \A p \in DOMAIN link : K[p].xBlockSize = link[p].xBlockSize
  BY DEF IsPut
<1>2. block \in DOMAIN link /\ block # xStart /\ Leads(link) \subseteq DOMAIN link
  BY DEF Blocks, Leads
<1>3. FreeBytes(K) = Extents(link, (Leads(link) \ {xStart}) \cup {block})
  <2>1. Leads(K) \ {xStart} = (Leads(link) \ {xStart}) \cup {block}
    BY <1>1, <1>2
  <2>2. \A p \in Leads(K) \ {xStart} : K[p].xBlockSize = link[p].xBlockSize
    BY <1>1, <1>2
  <2>3. Extents(K, Leads(K) \ {xStart}) = Extents(link, Leads(K) \ {xStart})
    BY <2>2, SameBytes
  <2> QED BY <2>1, <2>3 DEF FreeBytes
<1>4. ASSUME NEW p, NEW q, Neighbours(K, p, q)
      PROVE  \/ Neighbours(link, p, q)
             \/ p = b /\ q = block
             \/ p = block /\ q = Successor(link, b)
  <2>1. p \in Leads(K) \ {xStart} /\ q \in Leads(K) \ {xStart} /\ Beyond(K, p) = q
    BY <1>4 DEF Neighbours
  <2>2. Successor(K, p) = q
    BY <1>1, <2>1, TouchingFollow
  <2>3. CASE p = block
    BY <1>1, <2>2, <2>3
  <2>4. CASE p # block /\ q # block
    <3>1. p \in Leads(link) \ {xStart} /\ q \in Leads(link) \ {xStart} /\ p \in DOMAIN link
      BY <1>1, <1>2, <2>1, <2>4
    <3>2. Beyond(link, p) = q
      BY <1>1, <2>1, <3>1 DEF Beyond
    <3> QED BY <3>1, <3>2 DEF Neighbours
  <2>5. CASE p # block /\ q = block
    <3>0. Chain(K, Leads(K))
      BY <1>1 DEF Sound
    <3>1. p \in Leads(K) /\ b \in Leads(K)
      BY <1>1, <2>1
    <3>2. p \in Int /\ b \in Int /\ block \in Int /\ p < block /\ b < block
      BY <1>1, <2>2, <2>5, <3>0, <3>1 DEF Chain
    <3>3. p < b => block <= b
      BY <2>2, <2>5, <3>0, <3>1 DEF Chain
    <3>4. b < p => block <= p
      BY <1>1, <3>0, <3>1 DEF Chain
    <3>5. p = b
      BY <3>2, <3>3, <3>4
    <3> QED BY <2>5, <3>5
  <2> QED BY <2>3, <2>4, <2>5
<1> QED BY <1>3, <1>4

(* Joining blocks adds no bytes and no neighbours.                         *)
LEMMA JoinTouches ==
    ASSUME NEW link, Sound(link), NEW b \in Leads(link) \ {xStart},
           NEW c \in Leads(link) \ {xStart}, Beyond(link, b) = c,
           NEW K, IsJoined(K, link, b, c)
    PROVE  /\ FreeBytes(K) = FreeBytes(link)
           /\ \A p, q : Neighbours(K, p, q) =>
                 /\ p # c /\ q # c
                 /\ p # b => Neighbours(link, p, q)
                 /\ p = b => Neighbours(link, c, q)
<1>1. /\ Sound(K) /\ DOMAIN K = DOMAIN link \ {c} /\ Leads(K) = Leads(link) \ {c}
      /\ K[b].xBlockSize = link[b].xBlockSize + link[c].xBlockSize
      /\ \A p \in DOMAIN link \ {b, c} : K[p] = link[p]
  BY DEF IsJoined
<1>2. /\ b \in Nat /\ c \in Nat /\ b < c /\ b \in DOMAIN link /\ c \in DOMAIN link
      /\ link[b].xBlockSize \in Nat /\ link[c].xBlockSize \in Nat /\ b # c
      /\ Leads(link) \subseteq DOMAIN link
  <2>1. b \in Blocks(link) /\ c \in Blocks(link)
    BY SoundNumbers
  <2>2. b \in DOMAIN link /\ c \in DOMAIN link
    BY <2>1 DEF Blocks
  <2>3. b \in Nat /\ c \in Nat /\ link[b].xBlockSize \in Nat /\ link[c].xBlockSize \in Nat
    BY <2>1, <2>2, SoundNumbers
  <2>4. b < c
    BY <2>1, <2>3, SoundNumbers, HeapLayout
  <2>5. b # c
    BY <2>3, <2>4
  <2>6. Leads(link) \subseteq DOMAIN link
    BY DEF Leads
  <2> QED BY <2>2, <2>3, <2>4, <2>5, <2>6
<1>3. Extent(K, b) = Extent(link, b) \cup Extent(link, c)
  <2>1. PICK m \in Nat, n \in Nat : m = link[b].xBlockSize /\ n = link[c].xBlockSize
    BY <1>2
  <2>2. c = b + m
    BY <2>1 DEF Beyond
  <2>3. b..b + (m + n) - 1 = (b..b + m - 1) \cup ((b + m)..(b + m) + n - 1)
    BY <1>2, <2>1
  <2> QED BY <1>1, <2>1, <2>2, <2>3 DEF Extent
<1>4. FreeBytes(K) = FreeBytes(link)
  <2> DEFINE S == Leads(link) \ {xStart, b, c}
  <2>1. \A p \in S : K[p].xBlockSize = link[p].xBlockSize
    BY <1>1, <1>2
  <2>2. Extents(K, S) = Extents(link, S)
    BY <2>1, SameBytes
  <2>3. Leads(K) \ {xStart} = S \cup {b}
    BY <1>1, <1>2
  <2>4. Leads(link) \ {xStart} = S \cup {b, c}
    OBVIOUS
  <2> HIDE DEF S
  <2>5. FreeBytes(K) = Extents(K, S) \cup Extent(K, b)
    BY <2>3 DEF FreeBytes, Extents
  <2>6. FreeBytes(link) = Extents(link, S) \cup Extent(link, b) \cup Extent(link, c)
    BY <2>4 DEF FreeBytes, Extents
  <2> QED BY <1>3, <2>2, <2>5, <2>6
<1>5. ASSUME NEW p, NEW q, Neighbours(K, p, q)
      PROVE  /\ p # c /\ q # c
             /\ p # b => Neighbours(link, p, q)
             /\ p = b => Neighbours(link, c, q)
  <2>1. /\ p \in Leads(link) \ {xStart} /\ q \in Leads(link) \ {xStart} /\ Beyond(K, p) = q
        /\ p # c /\ q # c
    BY <1>1, <1>5 DEF Neighbours
  <2>2. CASE p # b
    <3>1. K[p] = link[p]
      BY <1>1, <1>2, <2>1, <2>2
    <3> QED BY <2>1, <2>2, <3>1 DEF Neighbours, Beyond
  <2>3. CASE p = b
    <3>1. Beyond(link, c) = q
      BY <1>1, <1>2, <2>1, <2>3 DEF Beyond
    <3> QED BY <2>1, <2>3, <3>1 DEF Neighbours
  <2> QED BY <2>1, <2>2, <2>3
<1> QED BY <1>4, <1>5

(* The blocks that are somebody's.                                         *)
Held(link) == Blocks(link) \ Leads(link)

(* The blocks that are somebody's in K are those of S, as they were.       *)
SameHeld(K, link, S) ==
    /\ Held(K) = S /\ S \subseteq DOMAIN K
    /\ \A p \in S : /\ K[p].xBlockSize = link[p].xBlockSize
                    /\ (K[p].allocated <=> link[p].allocated)

(* Joining free blocks changes nothing of those that are held.             *)
LEMMA JoinHolds ==
    ASSUME NEW link, Sound(link), NEW b \in Leads(link) \ {xStart},
           NEW c \in Leads(link) \ {xStart}, NEW K, IsJoined(K, link, b, c)
    PROVE  SameHeld(K, link, Held(link))
<1>1. /\ DOMAIN K = DOMAIN link \ {c} /\ Leads(K) = Leads(link) \ {c}
      /\ \A p \in DOMAIN link \ {b, c} : K[p] = link[p]
  BY DEF IsJoined
<1>2. Held(K) = Held(link) /\ Held(link) \subseteq DOMAIN K
  BY <1>1 DEF Held, Blocks
<1>3. \A p \in Held(link) : K[p] = link[p]
  BY <1>1 DEF Held, Blocks
<1> QED BY <1>2, <1>3 DEF SameHeld

(* A block that is put on the list is not held any more.                   *)
LEMMA PutHolds ==
    ASSUME NEW link, NEW block \in Blocks(link), NEW b, NEW K, IsPut(K, link, block, b)
    PROVE  SameHeld(K, link, Held(link) \ {block})
BY DEF IsPut, SameHeld, Held, Blocks

(* K are the headers link with block back on the list, and nothing left to *)
(* be merged.                                                              *)
IsInserted(K, link, block) ==
    /\ Sound(K) /\ Merged(K)
    /\ FreeBytes(K) = Extents(link, (Leads(link) \ {xStart}) \cup {block})
    /\ SameHeld(K, link, Held(link) \ {block})

(* What prvInsertBlockIntoFreeList does, in terms of the four.             *)
PutMerged(link, block, b) ==
    LET put   == Put(link, block, b)
        after == Successor(link, b)
        front == Beyond(link, b) = block
        at    == IF front THEN b ELSE block
        once  == IF front THEN Join(put, b, block) ELSE put
    IN  IF Beyond(once, at) = after /\ after # EndMarker THEN Join(once, at, after) ELSE once

(* A block that comes back and is merged with what it touches leaves       *)
(* nothing that is to be merged, and the list has its bytes more.          *)
LEMMA PutMergedKeeps ==
    ASSUME NEW link, Sound(link), Merged(link), NEW block \in Held(link),
           ~link[block].allocated,
           NEW b \in Leads(link), b < block, block <= Successor(link, b)
    PROVE  IsInserted(PutMerged(link, block, b), link, block)
<1> PICK put : put = Put(link, block, b)
  OBVIOUS
<1> PICK after : after = Successor(link, b)
  OBVIOUS
<1> PICK at : at = IF Beyond(link, b) = block THEN b ELSE block
  OBVIOUS
<1> PICK once : once = IF Beyond(link, b) = block THEN Join(put, b, block) ELSE put
  OBVIOUS
<1> PICK K : K = IF Beyond(once, at) = after /\ after # EndMarker THEN Join(once, at, after) ELSE once
  OBVIOUS
<1> DEFINE bytes == Extents(link, (Leads(link) \ {xStart}) \cup {block})
           others == Held(link) \ {block}
<1>1. PutMerged(link, block, b) = K
  BY DEF PutMerged
<1>2. /\ block \in Blocks(link) /\ block \notin Leads(link) /\ block \in DOMAIN link
      /\ block # xStart /\ block # EndMarker /\ block \in Nat /\ block > 0
  <2>1. block \in Blocks(link) /\ block \notin Leads(link)
    BY DEF Held
  <2>2. block \in DOMAIN link /\ block # xStart /\ block # EndMarker
    BY <2>1 DEF Blocks
  <2> QED BY <2>1, <2>2, SoundNumbers
<1>3. /\ b \in DOMAIN link /\ b # block /\ after # b /\ after # xStart /\ after # block
      /\ after \in Leads(link) \cup {EndMarker}
  <2>1. Chain(link, Leads(link))
    BY DEF Sound
  <2>2. b \in Int /\ b < after /\ after \in (Leads(link) \ {xStart}) \cup {EndMarker}
    BY <2>1 DEF Chain
  <2>3. b \in DOMAIN link
    BY DEF Leads
  <2>4. after # b /\ b # block
    BY <2>2, <1>2
  <2>5. after # xStart /\ after # block
    BY <1>2, <2>2, HeapLayout DEF xStart
  <2> QED BY <2>2, <2>3, <2>4, <2>5
<1>4. IsPut(put, link, block, b)
  BY <1>2, PutKeeps
<1>5. /\ Sound(put) /\ FreeBytes(put) = bytes
      /\ SameHeld(put, link, others)
      /\ Leads(put) = Leads(link) \cup {block}
      /\ \A p \in DOMAIN link : put[p].xBlockSize = link[p].xBlockSize
  BY <1>2, <1>4, PutTouches, PutHolds DEF IsPut
<1>6. \A p, q : Neighbours(put, p, q) => (p = b /\ q = block) \/ (p = block /\ q = after)
  <2>1. \A p, q : ~Neighbours(link, p, q)
    <3>1. \A p, q : Neighbours(link, p, q) => p \in DOMAIN link /\ q \in DOMAIN link
      BY DEF Neighbours, Leads
    <3> QED BY <3>1 DEF Merged
  <2>2. \A p, q : Neighbours(put, p, q) =>
            Neighbours(link, p, q) \/ (p = b /\ q = block) \/ (p = block /\ q = Successor(link, b))
    BY <1>2, <1>4, PutTouches
  <2> QED BY <2>1, <2>2
<1>7. Beyond(put, b) = Beyond(link, b)
  BY <1>3, <1>5 DEF Beyond
<1>8. /\ Sound(once) /\ FreeBytes(once) = bytes /\ SameHeld(once, link, others)
      /\ at \in Leads(once) \ {xStart} /\ after \in Leads(once) \cup {EndMarker} /\ after # at
      /\ \A p, q : Neighbours(once, p, q) => p = at /\ q = after
  <2>1. CASE Beyond(link, b) = block
    <3>1. b # xStart
      <4>1. link[xStart].xBlockSize = 0
        BY DEF Sound, Typed
      <4> QED BY <1>2, <2>1, <4>1 DEF Beyond, xStart
    <3>2. at = b /\ once = Join(put, b, block)
      BY <2>1
    <3>3. b \in Leads(put) \ {xStart} /\ block \in Leads(put) \ {xStart} /\ Beyond(put, b) = block
      BY <1>2, <1>5, <1>7, <2>1, <3>1
    <3>4. IsJoined(once, put, b, block)
      BY <1>5, <3>2, <3>3, JoinKeeps
    <3>5. Sound(once) /\ Leads(once) = Leads(put) \ {block}
      BY <3>4 DEF IsJoined
    <3>6. FreeBytes(once) = bytes
      BY <1>5, <3>3, <3>4, JoinTouches
    <3>7. SameHeld(once, put, Held(put))
      BY <1>5, <3>3, <3>4, JoinHolds
    <3>8. SameHeld(once, link, others)
      BY <1>5, <3>7 DEF SameHeld
    <3>9. ASSUME NEW p, NEW q, Neighbours(once, p, q)
          PROVE  p = at /\ q = after
      <4>1. /\ p # block /\ q # block
            /\ p # b => Neighbours(put, p, q)
            /\ p = b => Neighbours(put, block, q)
        BY <1>5, <3>3, <3>4, <3>9, JoinTouches
      <4>2. p = b
        BY <1>6, <4>1
      <4>3. q = after
        BY <1>3, <1>6, <4>1, <4>2
      <4> QED BY <3>2, <4>2, <4>3
    <3> QED BY <1>3, <1>5, <3>1, <3>2, <3>3, <3>5, <3>6, <3>8, <3>9
  <2>2. CASE Beyond(link, b) # block
    <3>1. at = block /\ once = put
      BY <2>2
    <3>2. ASSUME NEW p, NEW q, Neighbours(put, p, q)
          PROVE  p = block /\ q = after
      <4>1. Beyond(put, p) = q
        BY <3>2 DEF Neighbours
      <4> QED BY <1>6, <1>7, <2>2, <3>2, <4>1
    <3> QED BY <1>2, <1>3, <1>5, <3>1, <3>2
  <2> QED BY <2>1, <2>2
<1> HIDE DEF bytes, others
<1>9. Sound(K) /\ FreeBytes(K) = bytes /\ SameHeld(K, link, others) /\ \A p, q : ~Neighbours(K, p, q)
  <2>1. CASE Beyond(once, at) = after /\ after # EndMarker
    <3>1. K = Join(once, at, after) /\ after \in Leads(once) \ {xStart} /\ at \in Leads(once) \ {xStart}
      BY <1>3, <1>8, <2>1
    <3>2. IsJoined(K, once, at, after)
      BY <1>8, <2>1, <3>1, JoinKeeps
    <3>3. Sound(K)
      BY <3>2 DEF IsJoined
    <3>4. FreeBytes(K) = bytes
      BY <1>8, <2>1, <3>1, <3>2, JoinTouches
    <3>5. SameHeld(K, once, Held(once))
      BY <1>8, <3>1, <3>2, JoinHolds
    <3>6. SameHeld(K, link, others)
      BY <1>8, <3>5 DEF SameHeld
    <3>7. ASSUME NEW p, NEW q, Neighbours(K, p, q)
          PROVE  FALSE
      <4>1. /\ p # after /\ q # after
            /\ p # at => Neighbours(once, p, q)
            /\ p = at => Neighbours(once, after, q)
        BY <1>8, <2>1, <3>1, <3>2, <3>7, JoinTouches
      <4> QED BY <1>8, <4>1
    <3> QED BY <3>3, <3>4, <3>6, <3>7
  <2>2. CASE ~(Beyond(once, at) = after /\ after # EndMarker)
    <3>1. K = once
      BY <2>2
    <3>2. ASSUME NEW p, NEW q, Neighbours(once, p, q)
          PROVE  FALSE
      <4>1. p = at /\ q = after
        BY <1>8, <3>2
      <4>2. Beyond(once, p) = q /\ q \in Leads(once) \ {xStart}
        BY <3>2 DEF Neighbours
      <4>3. EndMarker \notin Leads(once) \ {xStart}
        BY <1>8, SoundNumbers
      <4> QED BY <2>2, <4>1, <4>2, <4>3
    <3> QED BY <1>8, <3>1, <3>2
  <2> QED BY <2>1, <2>2
<1> QED BY <1>1, <1>9 DEF IsInserted, Merged, bytes, others

(* prvInsertBlockIntoFreeList is PutMerged, at the place that its walk     *)
(* finds.                                                                  *)
LEMMA InsertIs ==
    ASSUME NEW h, h.pxEnd = EndMarker, Sound(h.link), NEW block \in Held(h.link)
    PROVE  /\ Before(h, block) \in Leads(h.link) /\ Before(h, block) < block
           /\ block <= Successor(h.link, Before(h, block))
           /\ prvInsertBlockIntoFreeList(h, block) =
                  [h EXCEPT !.link = PutMerged(h.link, block, Before(h, block))]
<1> PICK link : link = h.link
  OBVIOUS
<1> PICK b : b = Before(h, block)
  OBVIOUS
<1> PICK after : after = Successor(link, b)
  OBVIOUS
<1> PICK front \in BOOLEAN : front <=> b + link[b].xBlockSize = block
  OBVIOUS
<1> PICK at : at = IF front THEN b ELSE block
  OBVIOUS
<1> PICK grown : grown = link[block].xBlockSize + (IF front THEN link[b].xBlockSize ELSE 0)
  OBVIOUS
<1> PICK back \in BOOLEAN : back <=> at + grown = after /\ after # EndMarker
  OBVIOUS
<1> PICK K : K = [p \in DOMAIN link \ ((IF front THEN {block} ELSE {}) \cup (IF back THEN {after} ELSE {})) |->
                    CASE p = at -> IF back
                                   THEN BlockLink(link[after].pxNextFreeBlock,
                                                  grown + link[after].xBlockSize, FALSE)
                                   ELSE BlockLink(after, grown, FALSE)
                      [] p = b /\ b # at -> [link[p] EXCEPT !.pxNextFreeBlock = at]
                      [] OTHER -> link[p]]
  OBVIOUS
<1>1. prvInsertBlockIntoFreeList(h, block) = [h EXCEPT !.link = K]
  BY DEF prvInsertBlockIntoFreeList, Merges, Successor
<1>2. /\ block \in Blocks(link) /\ block \notin Leads(link) /\ block \in DOMAIN link
      /\ block \in Nat /\ block > 0 /\ block < EndMarker
  <2>1. block \in Blocks(link) /\ block \notin Leads(link)
    BY DEF Held
  <2>2. block \in DOMAIN link
    BY <2>1 DEF Blocks
  <2> QED BY <2>1, <2>2, SoundNumbers
<1>3. b \in Leads(link) /\ b < block /\ block <= after
  <2>1. Chain(h.link, Leads(h.link))
    BY DEF Sound
  <2>2. block \in Int /\ xStart < block /\ block <= EndMarker
    BY <1>2, HeapLayout DEF xStart
  <2> QED BY <2>1, <2>2, BeforeMeans
<1>4. /\ b \in DOMAIN link /\ b # block /\ after # b /\ after # block
      /\ after \in Leads(link) \cup {EndMarker} /\ after \in DOMAIN link
      /\ link[b] \in BlockLinks /\ link[block] \in BlockLinks /\ link[after] \in BlockLinks
      /\ b \in Int
  <2>1. Chain(link, Leads(link))
    BY DEF Sound
  <2>2. b \in Int /\ b < after /\ after \in (Leads(link) \ {xStart}) \cup {EndMarker}
    BY <1>3, <2>1 DEF Chain
  <2>3. after # b /\ b # block
    BY <1>2, <1>3, <2>2
  <2>4. after # block
    BY <1>2, <2>2, HeapLayout
  <2>5. b \in DOMAIN link /\ after \in DOMAIN link
    BY <1>3, <2>2 DEF Leads, Sound, Typed
  <2>6. link[b] \in BlockLinks /\ link[block] \in BlockLinks /\ link[after] \in BlockLinks
    BY <1>2, <2>5 DEF Sound, Typed
  <2> QED BY <2>2, <2>3, <2>4, <2>5, <2>6
<1>5. /\ link[b].xBlockSize \in Nat /\ link[block].xBlockSize \in Nat
      /\ link[after].xBlockSize \in Nat /\ grown \in Nat
  <2>1. link[b].xBlockSize \in Nat /\ link[block].xBlockSize \in Nat /\ link[after].xBlockSize \in Nat
    BY <1>4 DEF BlockLinks
  <2>2. CASE front
    BY <2>1, <2>2
  <2>3. CASE ~front
    BY <2>1, <2>3
  <2> QED BY <2>1, <2>2, <2>3
<1>6. [link[b] EXCEPT !.pxNextFreeBlock = block]
          = BlockLink(block, link[b].xBlockSize, link[b].allocated)
  BY <1>4 DEF BlockLink, BlockLinks
<1> PICK put : put = Put(link, block, b)
  OBVIOUS
<1>7. /\ DOMAIN put = DOMAIN link
      /\ put[block] = BlockLink(after, link[block].xBlockSize, FALSE)
      /\ put[b] = BlockLink(block, link[b].xBlockSize, link[b].allocated)
      /\ \A p \in DOMAIN link \ {block, b} : put[p] = link[p]
      /\ put = [p \in DOMAIN put |-> put[p]]
  <2>0. put = [p \in DOMAIN link |->
                 CASE p = block -> BlockLink(after, link[block].xBlockSize, FALSE)
                   [] p = b     -> BlockLink(block, link[b].xBlockSize, link[b].allocated)
                   [] OTHER     -> link[p]]
    BY DEF Put
  <2>1. DOMAIN put = DOMAIN link /\ put = [p \in DOMAIN put |-> put[p]]
    BY <2>0
  <2>2. put[block] = BlockLink(after, link[block].xBlockSize, FALSE)
    BY <1>2, <1>4, <2>0
  <2>3. put[b] = BlockLink(block, link[b].xBlockSize, link[b].allocated)
    BY <1>4, <2>0
  <2>4. \A p \in DOMAIN link \ {block, b} : put[p] = link[p]
    BY <2>0
  <2> QED BY <2>1, <2>2, <2>3, <2>4
<1> PICK once : once = IF front THEN Join(put, b, block) ELSE put
  OBVIOUS
<1>8. /\ once = [p \in DOMAIN once |-> once[p]]
      /\ DOMAIN once = DOMAIN link \ (IF front THEN {block} ELSE {})
      /\ once[at] = BlockLink(after, grown, FALSE)
      /\ ~front => once[b] = BlockLink(block, link[b].xBlockSize, link[b].allocated)
      /\ \A p \in DOMAIN link \ {block, b} : once[p] = link[p]
      /\ at \in DOMAIN once /\ at \in {b, block} /\ (at = b <=> front)
  <2>1. CASE front
    <3>1. /\ put[block].pxNextFreeBlock = after /\ put[block].xBlockSize = link[block].xBlockSize
          /\ put[b].xBlockSize = link[b].xBlockSize
      BY <1>7 DEF BlockLink
    <3>2. once = [p \in DOMAIN put \ {block} |->
                    IF p = b THEN BlockLink(after, put[b].xBlockSize + put[block].xBlockSize, FALSE)
                    ELSE put[p]]
      BY <2>1, <3>1 DEF Join, Successor
    <3>3. grown = put[b].xBlockSize + put[block].xBlockSize /\ at = b
      BY <1>5, <2>1, <3>1
    <3>4. DOMAIN once = DOMAIN link \ {block} /\ once = [p \in DOMAIN once |-> once[p]]
      BY <1>7, <3>2
    <3>5. once[b] = BlockLink(after, grown, FALSE)
      BY <1>4, <1>7, <3>2, <3>3
    <3>6. \A p \in DOMAIN link \ {block, b} : once[p] = link[p]
      BY <1>7, <3>2
    <3> QED BY <1>4, <2>1, <3>3, <3>4, <3>5, <3>6
  <2>2. CASE ~front
    <3>1. once = put /\ at = block /\ grown = link[block].xBlockSize
      BY <1>5, <2>2
    <3> QED BY <1>2, <1>4, <1>7, <2>2, <3>1
  <2> QED BY <2>1, <2>2
<1>9. once[at].pxNextFreeBlock = after /\ once[at].xBlockSize = grown /\ Beyond(once, at) = at + grown
  BY <1>8 DEF BlockLink, Beyond
<1> PICK M : M = PutMerged(link, block, b)
  OBVIOUS
<1>10. M = IF back THEN Join(once, at, after) ELSE once
  <2>1. Beyond(link, b) = block <=> front
    BY DEF Beyond
  <2>2. PutMerged(link, block, b) =
            IF Beyond(once, at) = after /\ after # EndMarker THEN Join(once, at, after) ELSE once
    <3>1. CASE front
      BY <2>1, <3>1 DEF PutMerged
    <3>2. CASE ~front
      BY <2>1, <3>2 DEF PutMerged
    <3> QED BY <3>1, <3>2
  <2> QED BY <1>9, <2>2
<1>11. /\ M = [p \in DOMAIN M |-> M[p]]
       /\ DOMAIN M = DOMAIN once \ (IF back THEN {after} ELSE {})
       /\ M[at] = IF back THEN BlockLink(link[after].pxNextFreeBlock,
                                         grown + link[after].xBlockSize, FALSE)
                  ELSE BlockLink(after, grown, FALSE)
       /\ \A p \in DOMAIN M \ {at} : M[p] = once[p]
  <2>0. after # at
    BY <1>4, <1>8
  <2>1. CASE back
    <3>1. once[after] = link[after]
      BY <1>4, <1>8
    <3>2. M = [p \in DOMAIN once \ {after} |->
                 IF p = at THEN BlockLink(link[after].pxNextFreeBlock,
                                          grown + link[after].xBlockSize, FALSE)
                 ELSE once[p]]
      <4>1. M = Join(once, at, after)
        BY <1>10, <2>1
      <4>2. Join(once, at, after) =
               [p \in DOMAIN once \ {after} |->
                  IF p = at THEN BlockLink(once[after].pxNextFreeBlock,
                                           once[at].xBlockSize + once[after].xBlockSize, FALSE)
                  ELSE once[p]]
        BY ONLY DEF Join, Successor
      <4>3. once[after].pxNextFreeBlock = link[after].pxNextFreeBlock
            /\ once[at].xBlockSize = grown /\ once[after].xBlockSize = link[after].xBlockSize
        BY <1>9, <3>1
      <4>4. Join(once, at, after) =
               [p \in DOMAIN once \ {after} |->
                  IF p = at THEN BlockLink(link[after].pxNextFreeBlock,
                                           grown + link[after].xBlockSize, FALSE)
                  ELSE once[p]]
        BY ONLY <4>2, <4>3
      <4> QED BY ONLY <4>1, <4>4
    <3>3. at \in DOMAIN once \ {after}
      BY <1>8, <2>0
    <3> QED BY <2>1, <3>2, <3>3
  <2>2. CASE ~back
    BY <1>8, <1>10, <2>2
  <2> QED BY <2>1, <2>2
<1>12. DOMAIN K = DOMAIN M
  <2>1. DOMAIN K = DOMAIN link \ ((IF front THEN {block} ELSE {}) \cup (IF back THEN {after} ELSE {}))
    OBVIOUS
  <2> QED BY <1>8, <1>11, <2>1
<1>13. ASSUME NEW p \in DOMAIN M
       PROVE  K[p] = M[p]
  <2>1. /\ p = at => K[p] = IF back THEN BlockLink(link[after].pxNextFreeBlock,
                                                   grown + link[after].xBlockSize, FALSE)
                            ELSE BlockLink(after, grown, FALSE)
        /\ p # at /\ p = b => K[p] = [link[p] EXCEPT !.pxNextFreeBlock = at]
        /\ p # at /\ p # b => K[p] = link[p]
    BY <1>12
  <2>2. CASE p = at
    BY <1>11, <2>1, <2>2
  <2>3. CASE p # at /\ p = b
    <3>1. ~front /\ at = block
      BY <1>8, <2>3
    <3>2. K[p] = [link[b] EXCEPT !.pxNextFreeBlock = block]
      BY ONLY <2>1, <2>3, <3>1
    <3>3. M[p] = once[p]
      BY <1>11, <2>3
    <3>4. once[b] = BlockLink(block, link[b].xBlockSize, link[b].allocated)
      BY <1>8, <3>1
    <3>5. [link[b] EXCEPT !.pxNextFreeBlock = block]
              = BlockLink(block, link[b].xBlockSize, link[b].allocated)
      BY <1>6
    <3> QED BY ONLY <2>3, <3>2, <3>3, <3>4, <3>5
  <2>4. CASE p # at /\ p # b
    <3>1. p \in DOMAIN link \ {block, b}
      BY <1>8, <1>11, <2>4
    <3>2. K[p] = link[p]
      BY <2>1, <2>4
    <3>3. M[p] = once[p]
      BY <1>11, <2>4
    <3>4. once[p] = link[p]
      BY <1>8, <3>1
    <3> QED BY ONLY <3>2, <3>3, <3>4
  <2> QED BY <2>2, <2>3, <2>4
<1>14. K = M
  <2>1. K = [p \in DOMAIN K |-> K[p]]
    OBVIOUS
  <2>2. [p \in DOMAIN K |-> K[p]] = [p \in DOMAIN M |-> M[p]]
    BY ONLY <1>12, <1>13
  <2> QED BY <1>11, <2>1, <2>2
<1> QED BY <1>1, <1>3, <1>14

-----------------------------------------------------------------------------
(* What is done to a block that is taken, in terms of the four.            *)
HeapRecord(link, free, minimum) ==
    [link |-> link, pxEnd |-> EndMarker,
     xFreeBytesRemaining |-> free, xMinimumEverFreeBytesRemaining |-> minimum]

(* h is the heap with these headers and figures.                           *)
IsRecord(h, link, free, minimum) == h = HeapRecord(link, free, minimum)

(* The header b leads past the block.                                      *)
Bypass(link, block, b) ==
    [link EXCEPT ![b] = BlockLink(Successor(link, block), link[b].xBlockSize, link[b].allocated)]

(* Exactly one header leads to a block of the list.                        *)
LEMMA OnePredecessor ==
    ASSUME NEW link, Sound(link), NEW block \in Leads(link) \ {xStart}
    PROVE  \E b \in Leads(link) :
               /\ Successor(link, b) = block /\ b < block /\ b # block
               /\ \A p \in DOMAIN link : Successor(link, p) = block => p = b
<1>1. Chain(link, Leads(link))
  BY DEF Sound
<1>2. block \in Nat /\ xStart < block /\ block <= EndMarker /\ block # NULL
  <2>1. block \in Blocks(link)
    BY SoundNumbers
  <2>2. block \in Nat /\ block > 0 /\ block < EndMarker
    BY <2>1, SoundNumbers
  <2> QED BY <2>2, HeapLayout DEF xStart, NULL
<1> PICK h : h = HeapRecord(link, 0, 0)
  OBVIOUS
<1>3. h.pxEnd = EndMarker /\ h.link = link
  BY DEF HeapRecord
<1>4. PICK b \in Leads(link) : b < block /\ block <= Successor(link, b)
  <2>1. \E b \in Leads(link) : b < block /\ block <= Successor(h.link, b)
    <3>1. Chain(h.link, Leads(link)) /\ block \in Int
      BY <1>1, <1>2, <1>3
    <3> QED BY <1>2, <1>3, <3>1, PlaceExists
  <2> QED BY <1>3, <2>1
<1>5. \A p \in Leads(link) : p \in Int /\ Successor(link, p) \in Int
  <2>1. Leads(link) \subseteq DOMAIN link
    BY DEF Leads
  <2> QED BY <1>1, <2>1, SoundNumbers DEF Chain
<1>6. Successor(link, b) = block
  <2>1. Successor(link, b) <= block
    BY <1>1, <1>4 DEF Chain
  <2> QED BY <1>2, <1>4, <1>5, <2>1
<1>7. ASSUME NEW p \in DOMAIN link, Successor(link, p) = block
      PROVE  p = b
  <2>1. p \in Leads(link)
    BY <1>2, <1>7 DEF Leads, Successor
  <2>2. p < block
    BY <1>1, <1>7, <2>1 DEF Chain
  <2>3. p < b => block <= b
    BY <1>1, <1>7, <2>1 DEF Chain
  <2>4. b < p => block <= p
    BY <1>1, <1>6, <2>1 DEF Chain
  <2>5. p \in Int /\ b \in Int /\ block \in Int /\ b < block
    BY <1>2, <1>4, <1>5, <2>1
  <2> QED BY <2>2, <2>3, <2>4, <2>5
<1>8. b # block
  BY <1>2, <1>4
<1> QED BY <1>4, <1>6, <1>7, <1>8

(* Unlink lets the header in front lead past the block.                    *)
LEMMA UnlinkIs ==
    ASSUME NEW link, Sound(link), NEW free, NEW minimum, NEW block \in Leads(link) \ {xStart},
           NEW b \in Leads(link), Successor(link, b) = block,
           \A p \in DOMAIN link : Successor(link, p) = block => p = b
    PROVE  IsRecord(Unlink(HeapRecord(link, free, minimum), block),
                    Bypass(link, block, b), free, minimum)
<1> PICK h : h = HeapRecord(link, free, minimum)
  OBVIOUS
<1> PICK q : q = CHOOSE p \in DOMAIN h.link : h.link[p].pxNextFreeBlock = block
  OBVIOUS
<1>1. h.link = link /\ b \in DOMAIN link
  BY DEF HeapRecord, Leads
<1>2. q = b
  <2>1. \E p \in DOMAIN h.link : h.link[p].pxNextFreeBlock = block
    BY <1>1 DEF Successor
  <2>2. q \in DOMAIN h.link /\ h.link[q].pxNextFreeBlock = block
    BY <2>1
  <2> QED BY <1>1, <2>2 DEF Successor
<1>3. Unlink(h, block) = [h EXCEPT !.link[b].pxNextFreeBlock = h.link[block].pxNextFreeBlock]
  BY <1>2 DEF Unlink
<1>4. link[b] \in BlockLinks
  BY <1>1 DEF Sound, Typed
<1>5. [link[b] EXCEPT !.pxNextFreeBlock = link[block].pxNextFreeBlock]
          = BlockLink(Successor(link, block), link[b].xBlockSize, link[b].allocated)
  BY <1>4 DEF BlockLinks, BlockLink, Successor
<1>6. [link EXCEPT ![b].pxNextFreeBlock = link[block].pxNextFreeBlock]
          = [link EXCEPT ![b] = [link[b] EXCEPT !.pxNextFreeBlock = link[block].pxNextFreeBlock]]
  OBVIOUS
<1>7. Unlink(h, block) =
          HeapRecord([link EXCEPT ![b].pxNextFreeBlock = link[block].pxNextFreeBlock], free, minimum)
  BY <1>1, <1>3 DEF HeapRecord
<1>8. Unlink(h, block) = HeapRecord(Bypass(link, block, b), free, minimum)
  BY <1>5, <1>6, <1>7 DEF Bypass
<1> QED BY <1>8 DEF IsRecord

(* The list without a block that is about to be split: its header still    *)
(* leads on, but nothing leads to it.                                      *)
LEMMA ChainWithout ==
    ASSUME NEW link, Sound(link), NEW block \in Leads(link) \ {xStart},
           NEW b \in Leads(link), Successor(link, b) = block, b # block,
           NEW U, \A p \in DOMAIN link : Successor(U, p) =
                      IF p = b THEN Successor(link, block) ELSE Successor(link, p),
           Leads(U) = Leads(link)
    PROVE  Chain(U, Leads(link) \ {block})
<1> PICK after : after = Successor(link, block)
  OBVIOUS
<1> PICK G : G = Give(link, block, b)
  OBVIOUS
<1>1. /\ Chain(G, Leads(link) \ {block}) /\ Leads(G) = Leads(link) \ {block}
  <2>1. IsGiven(G, link, block)
    BY GiveKeeps
  <2> QED BY <2>1 DEF IsGiven, Sound
<1>2. /\ Leads(link) \subseteq DOMAIN link /\ block \in Leads(link) /\ block # xStart
      /\ b \in DOMAIN link
  BY DEF Leads
<1>3. \A p \in Leads(link) \ {block} : Successor(U, p) = Successor(G, p)
  <2>1. Successor(G, b) = after
    <3>1. G[b] = BlockLink(after, link[b].xBlockSize, link[b].allocated)
      BY <1>2 DEF Give
    <3> QED BY <3>1 DEF Successor, BlockLink
  <2>2. \A p \in DOMAIN link \ {block, b} : Successor(G, p) = Successor(link, p)
    <3>1. \A p \in DOMAIN link \ {block, b} : G[p] = link[p]
      BY DEF Give
    <3> QED BY <3>1 DEF Successor
  <2> QED BY <1>2, <2>1, <2>2
<1>4. /\ block \in Int /\ block < after
      /\ after \in ((Leads(link) \ {block}) \ {xStart}) \cup {EndMarker}
  <2>1. block \in Int /\ block < after /\ after \in (Leads(link) \ {xStart}) \cup {EndMarker}
    BY <1>2 DEF Sound, Chain
  <2>2. after # block
    BY <2>1, HeapLayout
  <2>3. block # EndMarker
    BY SoundNumbers
  <2> QED BY <2>1, <2>2, <2>3
<1>5. Successor(U, block) = after
  BY <1>2
<1> DEFINE L == Leads(link) \ {block}
<1>6. xStart \in L /\ L \subseteq Leads(U)
  BY <1>1 DEF Chain
<1>7. ASSUME NEW p \in Leads(U)
      PROVE  /\ p \in Int /\ p < Successor(U, p)
             /\ Successor(U, p) \in (L \ {xStart}) \cup {EndMarker}
  <2>1. CASE p = block
    BY <1>4, <1>5, <2>1
  <2>2. CASE p # block
    <3>1. p \in Leads(G) /\ Successor(U, p) = Successor(G, p)
      BY <1>1, <1>3, <2>2
    <3> QED BY <1>1, <3>1 DEF Chain
  <2> QED BY <2>1, <2>2
<1>8. ASSUME NEW p \in L
      PROVE  /\ xStart <= p /\ p < EndMarker
             /\ \A q \in L \cup {EndMarker} : p < q => Successor(U, p) <= q
  <2>1. Successor(U, p) = Successor(G, p)
    BY <1>3
  <2> QED BY <1>1, <2>1 DEF Chain
<1> HIDE DEF L
<1>9. Chain(U, L)
  BY <1>6, <1>7, <1>8 DEF Chain
<1> QED BY <1>9 DEF L

(* A block that touches neither of those between which it enters the list. *)
IsApart(K, h, block, b) ==
    /\ prvInsertBlockIntoFreeList(h, block) = [h EXCEPT !.link = K]
    /\ DOMAIN K = DOMAIN h.link /\ K = [p \in DOMAIN K |-> K[p]]
    /\ K[block] = BlockLink(h.link[b].pxNextFreeBlock, h.link[block].xBlockSize, FALSE)
    /\ K[b] = [h.link[b] EXCEPT !.pxNextFreeBlock = block]
    /\ \A p \in DOMAIN h.link \ {b, block} : K[p] = h.link[p]

(* A block that touches neither neighbour is only linked in between them.  *)
LEMMA InsertApart ==
    ASSUME NEW h, NEW block \in DOMAIN h.link, NEW b \in DOMAIN h.link, b # block,
           Before(h, block) = b, NEW after, after = h.link[b].pxNextFreeBlock,
           block \in Int, h.link[block].xBlockSize \in Int,
           b + h.link[b].xBlockSize # block,
           ~(block + h.link[block].xBlockSize = after /\ after # h.pxEnd)
    PROVE  \E K : IsApart(K, h, block, b)
<1> PICK link : link = h.link
  OBVIOUS
<1> PICK front \in BOOLEAN : front <=> b + link[b].xBlockSize = block
  OBVIOUS
<1> PICK at : at = IF front THEN b ELSE block
  OBVIOUS
<1> PICK grown : grown = link[block].xBlockSize + (IF front THEN link[b].xBlockSize ELSE 0)
  OBVIOUS
<1> PICK back \in BOOLEAN : back <=> at + grown = after /\ after # h.pxEnd
  OBVIOUS
<1> PICK D : D = DOMAIN link \ ((IF front THEN {block} ELSE {}) \cup (IF back THEN {after} ELSE {}))
  OBVIOUS
<1> PICK K : K = [p \in D |->
                    CASE p = at -> IF back
                                   THEN BlockLink(link[after].pxNextFreeBlock,
                                                  grown + link[after].xBlockSize, FALSE)
                                   ELSE BlockLink(after, grown, FALSE)
                      [] p = b /\ b # at -> [link[p] EXCEPT !.pxNextFreeBlock = at]
                      [] OTHER -> link[p]]
  OBVIOUS
<1>1. prvInsertBlockIntoFreeList(h, block) = [h EXCEPT !.link = K]
  BY DEF prvInsertBlockIntoFreeList, Merges
<1>2. ~front /\ at = block
  OBVIOUS
<1>3. grown = link[block].xBlockSize
  BY <1>2
<1>4. ~back
  BY <1>2, <1>3
<1>5. D = DOMAIN link
  BY <1>2, <1>4
<1>6. K = [p \in DOMAIN link |->
             CASE p = block -> BlockLink(after, link[block].xBlockSize, FALSE)
               [] p = b /\ b # block -> [link[p] EXCEPT !.pxNextFreeBlock = block]
               [] OTHER -> link[p]]
  BY <1>2, <1>3, <1>4, <1>5
<1>7. DOMAIN K = DOMAIN link /\ K = [p \in DOMAIN K |-> K[p]]
  BY <1>6
<1>8. K[block] = BlockLink(after, link[block].xBlockSize, FALSE)
  BY <1>6
<1>9. K[b] = [link[b] EXCEPT !.pxNextFreeBlock = block]
  BY <1>6
<1>10. \A p \in DOMAIN link \ {b, block} : K[p] = link[p]
  BY <1>6
<1>11. IsApart(K, h, block, b)
  BY <1>1, <1>7, <1>8, <1>9, <1>10 DEF IsApart
<1> QED BY <1>11

(* A block of the list, behind b, is split.                                *)
Splits(link, block, b, size) ==
    /\ Sound(link) /\ Merged(link)
    /\ block \in Leads(link) \ {xStart}
    /\ b \in Leads(link) /\ Successor(link, b) = block /\ b # block
    /\ size \in Nat /\ size % portBYTE_ALIGNMENT = 0 /\ size > xHeapStructSize
    /\ link[block].xBlockSize - size > heapMINIMUM_BLOCK_SIZE

(* The numbers of a block that is split.                                   *)
LEMMA SplitNumbers ==
    ASSUME NEW link, NEW block, NEW b, NEW size, Splits(link, block, b, size)
    PROVE  /\ block \in DOMAIN link /\ b \in DOMAIN link /\ block \in Leads(link)
           /\ link[block] \in BlockLinks /\ link[b] \in BlockLinks
           /\ link[block].xBlockSize \in Nat /\ link[b].xBlockSize \in Nat
           /\ block \in Nat /\ block > 0 /\ b \in Int /\ b < block
           /\ link[block].xBlockSize - size \in Nat /\ link[block].xBlockSize - size > xHeapStructSize
           /\ block + size \in Nat /\ block < block + size
           /\ (block + size) + (link[block].xBlockSize - size) = Beyond(link, block)
           /\ block + size < Beyond(link, block)
           /\ Beyond(link, block) \in Nat /\ Beyond(link, block) <= EndMarker
           /\ Successor(link, block) \in Int /\ Successor(link, block) # NULL
           /\ block + size \notin DOMAIN link
<1>0. /\ Sound(link) /\ block \in Leads(link) \ {xStart} /\ b \in Leads(link)
      /\ Successor(link, b) = block /\ size \in Nat /\ size % portBYTE_ALIGNMENT = 0
      /\ size > xHeapStructSize /\ link[block].xBlockSize - size > heapMINIMUM_BLOCK_SIZE
  BY DEF Splits
<1>1. block \in DOMAIN link /\ b \in DOMAIN link /\ block \in Leads(link)
  BY <1>0 DEF Leads
<1>2. link[block] \in BlockLinks /\ link[b] \in BlockLinks
  BY <1>0, <1>1 DEF Sound, Typed
<1>3. link[block].xBlockSize \in Nat /\ link[b].xBlockSize \in Nat
  BY <1>2 DEF BlockLinks
<1>4. block \in Nat /\ block > 0 /\ Beyond(link, block) <= EndMarker /\ Beyond(link, block) \in Nat
  <2>1. block \in Blocks(link)
    BY <1>0, SoundNumbers
  <2> QED BY <1>0, <2>1, SoundNumbers
<1>5. b \in Int /\ b < block
  BY <1>0 DEF Sound, Chain
<1>6. link[block].xBlockSize - size \in Nat /\ link[block].xBlockSize - size > xHeapStructSize
  BY <1>0, <1>3, HeapLayout DEF heapMINIMUM_BLOCK_SIZE
<1>7. block + size \in Nat /\ block < block + size
      /\ (block + size) + (link[block].xBlockSize - size) = Beyond(link, block)
      /\ block + size < Beyond(link, block)
  BY <1>0, <1>3, <1>4, <1>6, HeapLayout DEF Beyond
<1>8. Successor(link, block) \in Int /\ Successor(link, block) # NULL
  BY <1>0, <1>1, SoundNumbers
<1>9. block + size \notin DOMAIN link
  <2>1. IsCut(Cut(link, block, size), link, block, size)
    BY <1>0, <1>6, CutKeeps
  <2> QED BY <2>1 DEF IsCut
<1> QED BY <1>1, <1>2, <1>3, <1>4, <1>5, <1>6, <1>7, <1>8, <1>9

(* The headers while the remainder is no part of the list yet.             *)
Remainder(cut, link, block, b, size) ==
    /\ DOMAIN cut = DOMAIN link \cup {block + size}
    /\ cut[block + size].pxNextFreeBlock = NULL
    /\ cut[block + size].xBlockSize = link[block].xBlockSize - size
    /\ cut[b] = BlockLink(Successor(link, block), link[b].xBlockSize, link[b].allocated)
    /\ cut[block].pxNextFreeBlock = Successor(link, block) /\ cut[block].xBlockSize = size
    /\ \A p \in DOMAIN link \ {b, block} : cut[p] = link[p]

(* The remainder goes where the whole block was: behind b.                 *)
LEMMA RemainderPlace ==
    ASSUME NEW link, NEW block, NEW b, NEW size, Splits(link, block, b, size),
           NEW cut, Remainder(cut, link, block, b, size),
           NEW h, h.link = cut, h.pxEnd = EndMarker
    PROVE  Before(h, block + size) = b
<1> PICK new : new = block + size
  OBVIOUS
<1> PICK after : after = Successor(link, block)
  OBVIOUS
<1>1. /\ Sound(link) /\ block \in Leads(link) \ {xStart} /\ b \in Leads(link)
      /\ Successor(link, b) = block /\ b # block
  BY DEF Splits
<1>2. /\ block \in DOMAIN link /\ b \in DOMAIN link /\ block \in Nat /\ b \in Int /\ b < block
      /\ new \in Nat /\ block < new /\ new < Beyond(link, block) /\ new \notin DOMAIN link
      /\ Beyond(link, block) \in Nat /\ Beyond(link, block) <= EndMarker /\ after \in Int
      /\ after # NULL
  BY SplitNumbers
<1>3. /\ DOMAIN cut = DOMAIN link \cup {new} /\ cut[new].pxNextFreeBlock = NULL
      /\ cut[b].pxNextFreeBlock = after /\ cut[block].pxNextFreeBlock = after
      /\ \A p \in DOMAIN link \ {b, block} : cut[p] = link[p]
  BY DEF Remainder, BlockLink
<1>4. \A p \in DOMAIN link : Successor(cut, p) = IF p = b THEN after ELSE Successor(link, p)
  BY <1>3 DEF Successor
<1>5. Leads(cut) = Leads(link)
  <2>1. \A p \in DOMAIN link : p \in Leads(cut) <=> Successor(cut, p) # NULL
    BY <1>3 DEF Leads, Successor
  <2>2. \A p \in DOMAIN link : p \in Leads(link) <=> Successor(link, p) # NULL
    BY DEF Leads, Successor
  <2>3. Leads(cut) \subseteq DOMAIN link \cup {new} /\ Leads(link) \subseteq DOMAIN link
    BY <1>3 DEF Leads
  <2>4. new \notin Leads(cut)
    BY <1>3 DEF Leads
  <2> QED BY <1>1, <1>2, <1>4, <2>1, <2>2, <2>3, <2>4
<1>6. Chain(cut, Leads(link) \ {block})
  BY <1>1, <1>4, <1>5, ChainWithout
<1> PICK p : p = Before(h, new)
  OBVIOUS
<1>7. p \in Leads(link) \ {block} /\ p < new /\ new <= Successor(cut, p)
  <2>1. new \in Int /\ xStart < new /\ new <= EndMarker
    BY <1>2, HeapLayout DEF xStart
  <2>2. Chain(h.link, Leads(link) \ {block})
    BY <1>6
  <2> QED BY <2>1, <2>2, BeforeMeans
<1>8. p \in Int /\ b \in Leads(link) \ {block} /\ b < new /\ Successor(cut, p) \in Int
  <2>1. p \in DOMAIN link /\ p \in Leads(link)
    BY <1>7 DEF Leads
  <2>2. p \in Int
    BY <1>1, <2>1 DEF Sound, Chain
  <2>3. Successor(link, p) \in Int
    BY <1>1, <2>1, SoundNumbers
  <2>4. Successor(cut, p) \in Int
    BY <1>2, <1>4, <2>1, <2>3
  <2>5. b \in Leads(link) \ {block} /\ b < new
    BY <1>1, <1>2
  <2> QED BY <2>2, <2>4, <2>5
<1>9. new <= after
  <2>1. block < after /\ after \in (Leads(link) \ {xStart}) \cup {EndMarker}
    BY <1>1 DEF Sound, Chain
  <2>2. CASE after = EndMarker
    BY <1>2, <2>2, HeapLayout
  <2>3. CASE after # EndMarker
    <3>1. after \in Blocks(link) /\ block \in Blocks(link)
      BY <1>1, <2>1, <2>3, SoundNumbers
    <3>2. Beyond(link, block) <= after
      BY <1>1, <2>1, <3>1, BlocksApart
    <3> QED BY <1>2, <3>2
  <2> QED BY <2>2, <2>3
<1>10. p < b => Successor(cut, p) <= b
  BY <1>6, <1>7, <1>8 DEF Chain
<1>11. b < p => after <= p
  <2>1. Successor(cut, b) = after
    BY <1>2, <1>4
  <2> QED BY <1>6, <1>7, <1>8, <2>1 DEF Chain
<1>12. ~(p < b)
  BY <1>2, <1>7, <1>8, <1>10
<1>13. ~(b < p)
  BY <1>2, <1>7, <1>8, <1>9, <1>11
<1> QED BY <1>2, <1>8, <1>12, <1>13

(* The headers when the remainder has its own, before it is inserted.      *)
CutOff(link, block, size, new, left) ==
    [p \in DOMAIN link \cup {new} |->
        CASE p = new   -> BlockLink(NULL, left, FALSE)
          [] p = block -> [link[p] EXCEPT !.xBlockSize = size]
          [] OTHER     -> link[p]]

(* K are the headers link with the remainder in the place of the block.    *)
IsSplit(K, link, block, b, size) ==
    /\ DOMAIN K = DOMAIN link \cup {block + size} /\ K = [p \in DOMAIN K |-> K[p]]
    /\ K[block + size] = BlockLink(Successor(link, block), link[block].xBlockSize - size, FALSE)
    /\ K[b] = BlockLink(block + size, link[b].xBlockSize, link[b].allocated)
    /\ K[block].xBlockSize = size
    /\ \A p \in DOMAIN link \ {b, block} : K[p] = link[p]

(* Split leaves these, and the figures as they are.                        *)
LEMMA SplitIs ==
    ASSUME NEW link, NEW block, NEW b, NEW size, Splits(link, block, b, size),
           NEW free, NEW minimum
    PROVE  \E K : /\ IsSplit(K, link, block, b, size)
                  /\ IsRecord(Split(HeapRecord(Bypass(link, block, b), free, minimum), block, size),
                              K, free, minimum)
<1> PICK U : U = Bypass(link, block, b)
  OBVIOUS
<1> PICK new : new = block + size
  OBVIOUS
<1> PICK after : after = Successor(link, block)
  OBVIOUS
<1> PICK left : left = link[block].xBlockSize - size
  OBVIOUS
<1>1. /\ block \in DOMAIN link /\ b \in DOMAIN link /\ block # b /\ new # block /\ new # b
      /\ link[block] \in BlockLinks /\ link[b] \in BlockLinks
      /\ link[b].xBlockSize \in Nat
      /\ block \in Nat /\ b \in Int /\ b < block
      /\ left \in Nat /\ new \in Nat /\ block < new
      /\ new + left = Beyond(link, block)
      /\ new \notin DOMAIN link /\ left > heapMINIMUM_BLOCK_SIZE
  <2>1. /\ block \in DOMAIN link /\ b \in DOMAIN link
        /\ link[block] \in BlockLinks /\ link[b] \in BlockLinks
        /\ link[b].xBlockSize \in Nat
        /\ block \in Nat /\ b \in Int /\ b < block
        /\ left \in Nat /\ new \in Nat /\ block < new
        /\ new + left = Beyond(link, block) /\ new \notin DOMAIN link
    BY SplitNumbers
  <2>2. block # b /\ left > heapMINIMUM_BLOCK_SIZE
    BY DEF Splits
  <2>3. new # block /\ new # b
    BY <2>1
  <2> QED BY <2>1, <2>2, <2>3
<1> PICK cut : cut = CutOff(U, block, size, new, left)
  OBVIOUS
<1>2. /\ DOMAIN U = DOMAIN link
      /\ U[b] = BlockLink(after, link[b].xBlockSize, link[b].allocated)
      /\ \A p \in DOMAIN link \ {b} : U[p] = link[p]
      /\ U[block] = link[block]
  BY <1>1 DEF Bypass
<1> PICK h : h = HeapRecord(cut, free, minimum)
  OBVIOUS
<1>3. Split(HeapRecord(U, free, minimum), block, size) = prvInsertBlockIntoFreeList(h, new)
  <2>1. HeapRecord(U, free, minimum).link = U
    BY ONLY DEF HeapRecord
  <2>2. U[block].xBlockSize - size = left
    BY <1>2
  <2>3. [HeapRecord(U, free, minimum) EXCEPT !.link = cut] = h
    <3>1. [HeapRecord(U, free, minimum) EXCEPT !.link = cut] = HeapRecord(cut, free, minimum)
      BY ONLY DEF HeapRecord
    <3> QED BY <3>1
  <2> PICK g : g = HeapRecord(U, free, minimum)
    OBVIOUS
  <2>4. Split(g, block, size) =
            IF g.link[block].xBlockSize - size > heapMINIMUM_BLOCK_SIZE
            THEN prvInsertBlockIntoFreeList(
                     [g EXCEPT !.link = CutOff(g.link, block, size, block + size,
                                               g.link[block].xBlockSize - size)], block + size)
            ELSE g
    BY ONLY DEF Split, CutOff
  <2>5. CutOff(g.link, block, size, block + size, g.link[block].xBlockSize - size) = cut
    BY <2>1, <2>2
  <2>6. g.link[block].xBlockSize - size > heapMINIMUM_BLOCK_SIZE
    BY <1>1, <2>1, <2>2
  <2>7. Split(g, block, size) = prvInsertBlockIntoFreeList([g EXCEPT !.link = cut], new)
    BY ONLY <2>4, <2>5, <2>6, new = block + size
  <2> QED BY <2>3, <2>7
<1>4. /\ DOMAIN cut = DOMAIN link \cup {new}
      /\ cut[new] = BlockLink(NULL, left, FALSE)
      /\ cut[b] = BlockLink(after, link[b].xBlockSize, link[b].allocated)
      /\ cut[block] = [link[block] EXCEPT !.xBlockSize = size]
      /\ \A p \in DOMAIN link \ {b, block} : cut[p] = link[p]
  <2>0. cut = [p \in DOMAIN U \cup {new} |->
                 CASE p = new   -> BlockLink(NULL, left, FALSE)
                   [] p = block -> [U[p] EXCEPT !.xBlockSize = size]
                   [] OTHER     -> U[p]]
    BY DEF CutOff
  <2>1. DOMAIN cut = DOMAIN link \cup {new}
    BY ONLY <1>2, <2>0
  <2>2. cut[new] = BlockLink(NULL, left, FALSE)
    BY ONLY <1>1, <2>0
  <2>3. cut[b] = BlockLink(after, link[b].xBlockSize, link[b].allocated)
    BY ONLY <1>1, <1>2, <2>0
  <2>4. cut[block] = [link[block] EXCEPT !.xBlockSize = size]
    BY ONLY <1>1, <1>2, <2>0
  <2>5. ASSUME NEW p \in DOMAIN link \ {b, block}
        PROVE  cut[p] = link[p]
    <3>1. p # new /\ p # block /\ p \in DOMAIN U
      BY <1>1, <1>2
    <3>2. cut[p] = U[p]
      BY ONLY <2>0, <3>1
    <3> QED BY <1>2, <3>2
  <2> QED BY <2>1, <2>2, <2>3, <2>4, <2>5
<1>5. /\ cut[new].pxNextFreeBlock = NULL /\ cut[new].xBlockSize = left
      /\ cut[b].pxNextFreeBlock = after /\ cut[b].xBlockSize = link[b].xBlockSize
      /\ cut[block].pxNextFreeBlock = after /\ cut[block].xBlockSize = size
  <2>1. /\ cut[new].pxNextFreeBlock = NULL /\ cut[new].xBlockSize = left
        /\ cut[b].pxNextFreeBlock = after /\ cut[b].xBlockSize = link[b].xBlockSize
    BY ONLY <1>4 DEF BlockLink
  <2>2. link[block].pxNextFreeBlock = after
    BY DEF Successor
  <2>3. cut[block].pxNextFreeBlock = after /\ cut[block].xBlockSize = size
    BY ONLY <1>1, <1>4, <2>2 DEF BlockLinks
  <2> QED BY <2>1, <2>3
<1>6. h.link = cut /\ h.pxEnd = EndMarker
  BY DEF HeapRecord
<1>7. Before(h, new) = b
  <2>1. Remainder(cut, link, block, b, size)
    BY <1>4, <1>5 DEF Remainder
  <2> QED BY <1>6, <2>1, RemainderPlace
<1>8. b + cut[b].xBlockSize # new
  <2>0. Sound(link) /\ block \in Leads(link) \ {xStart} /\ b \in Leads(link)
    BY DEF Splits
  <2>1. CASE b = xStart
    <3>1. link[b].xBlockSize = 0
      BY <2>0, <2>1 DEF Sound, Typed
    <3>2. b + 0 # new
      BY <1>1
    <3> QED BY <1>5, <3>1, <3>2
  <2>2. CASE b # xStart
    <3>1. b \in Blocks(link) /\ block \in Blocks(link)
      BY <2>0, <2>2, SoundNumbers
    <3>2. b + link[b].xBlockSize <= block
      BY <1>1, <2>0, <3>1, BlocksApart DEF Beyond
    <3>3. b + link[b].xBlockSize # new
      BY <1>1, <3>2
    <3> QED BY <1>5, <3>3
  <2> QED BY <2>1, <2>2
<1>9. ~(new + left = after /\ after # EndMarker)
  <2>1. SUFFICES ASSUME Beyond(link, block) = after, after # EndMarker
                 PROVE  FALSE
    BY <1>1
  <2>2. Sound(link) /\ Merged(link) /\ block \in Leads(link) \ {xStart}
    BY DEF Splits
  <2>3. after \in Leads(link) \ {xStart}
    BY <2>1, <2>2 DEF Sound, Chain
  <2>4. Neighbours(link, block, after) /\ after \in DOMAIN link
    BY <2>1, <2>2, <2>3 DEF Neighbours, Leads
  <2> QED BY <1>1, <2>2, <2>4 DEF Merged
<1> PICK g : g = h
  OBVIOUS
<1>10. PICK K : /\ prvInsertBlockIntoFreeList(h, new) = [h EXCEPT !.link = K]
                /\ DOMAIN K = DOMAIN cut /\ K = [p \in DOMAIN K |-> K[p]]
                /\ K[new] = BlockLink(after, left, FALSE)
                /\ K[b] = [cut[b] EXCEPT !.pxNextFreeBlock = new]
                /\ \A p \in DOMAIN cut \ {b, new} : K[p] = cut[p]
  <2>1. g.link = cut /\ g.pxEnd = EndMarker /\ Before(g, new) = b
    BY ONLY <1>6, <1>7, g = h
  <2>2. new \in DOMAIN g.link /\ b \in DOMAIN g.link /\ b # new /\ new \in Int
    BY ONLY <1>1, <1>4, <2>1
  <2>3. g.link[new].xBlockSize = left /\ left \in Int /\ after = g.link[b].pxNextFreeBlock
    BY ONLY <1>1, <1>5, <2>1
  <2>4. b + g.link[b].xBlockSize # new
    BY ONLY <1>8, <2>1
  <2>5. ~(new + g.link[new].xBlockSize = after /\ after # g.pxEnd)
    BY ONLY <1>9, <2>1, <2>3
  <2>6. PICK K : IsApart(K, g, new, b)
    BY ONLY <2>1, <2>2, <2>3, <2>4, <2>5, InsertApart
  <2>7. /\ prvInsertBlockIntoFreeList(g, new) = [g EXCEPT !.link = K]
        /\ DOMAIN K = DOMAIN cut /\ K = [p \in DOMAIN K |-> K[p]]
        /\ K[new] = BlockLink(after, left, FALSE)
        /\ K[b] = [cut[b] EXCEPT !.pxNextFreeBlock = new]
        /\ \A p \in DOMAIN cut \ {b, new} : K[p] = cut[p]
    BY ONLY <2>1, <2>3, <2>6 DEF IsApart
  <2> QED BY ONLY <2>7, g = h
<1>11. prvInsertBlockIntoFreeList(h, new) = HeapRecord(K, free, minimum)
  <2>1. [HeapRecord(cut, free, minimum) EXCEPT !.link = K] = HeapRecord(K, free, minimum)
    BY ONLY DEF HeapRecord
  <2> QED BY <1>10, <2>1
<1>12. K[b] = BlockLink(new, link[b].xBlockSize, link[b].allocated)
  <2>1. [BlockLink(after, link[b].xBlockSize, link[b].allocated) EXCEPT !.pxNextFreeBlock = new]
            = BlockLink(new, link[b].xBlockSize, link[b].allocated)
    BY ONLY DEF BlockLink
  <2> QED BY <1>4, <1>10, <2>1
<1>13. K[block].xBlockSize = size
  BY <1>1, <1>4, <1>5, <1>10
<1>14. \A p \in DOMAIN link \ {b, block} : K[p] = link[p]
  BY <1>1, <1>4, <1>10
<1>15. IsSplit(K, link, block, b, size)
  BY <1>4, <1>10, <1>12, <1>13, <1>14 DEF IsSplit
<1>16. IsRecord(Split(HeapRecord(U, free, minimum), block, size), K, free, minimum)
  BY <1>3, <1>11 DEF IsRecord
<1> QED BY <1>15, <1>16

(* K are the headers link where a part of block, or all of it, was given   *)
(* away: got bytes.                                                        *)
IsTaken(K, link, block, got) ==
    /\ Sound(K) /\ Merged(K)
    /\ Held(K) = Held(link) \cup {block} /\ K[block].xBlockSize = got
    /\ \A p \in Held(link) : K[p].xBlockSize = link[p].xBlockSize
    /\ Cardinality(FreeBytes(link)) = got + Cardinality(FreeBytes(K))
    /\ Cardinality(FreeBytes(K)) \in Nat

(* Blocks do not overlap: what is counted is what is there.                *)
LEMMA AllApart ==
    ASSUME NEW link, Sound(link), NEW S \in SUBSET Blocks(link)
    PROVE  Apart(link, S, pucAlignedHeap, EndMarker)
<1>1. S \in SUBSET (pucAlignedHeap..EndMarker)
  <2>1. \A b \in S : b \in pucAlignedHeap..EndMarker - 1
    BY DEF Sound, Tiled
  <2>2. pucAlignedHeap..EndMarker - 1 \subseteq pucAlignedHeap..EndMarker
    BY HeapLayout
  <2> QED BY <2>1, <2>2
<1>2. \A b \in S : link[b].xBlockSize \in Nat /\ b + link[b].xBlockSize <= EndMarker
  <2>1. \A b \in S : b \in DOMAIN link
    BY DEF Blocks
  <2>2. \A b \in S : Beyond(link, b) <= EndMarker
    BY SoundNumbers
  <2> QED BY <2>1, <2>2, SoundNumbers DEF Beyond
<1>3. \A b, c \in S : b < c => b + link[b].xBlockSize <= c
  BY BlocksApart DEF Beyond
<1> QED BY <1>1, <1>2, <1>3 DEF Apart

(* The blocks of S have the bytes of b more than the others of them.       *)
OneMore(link, S, b) ==
    /\ Cardinality(Extents(link, S)) = link[b].xBlockSize + Cardinality(Extents(link, S \ {b}))
    /\ Cardinality(Extents(link, S)) \in Nat /\ Cardinality(Extents(link, S \ {b})) \in Nat

AreBlocks(link, S) == S \subseteq Blocks(link)

(* A block more on the list has its bytes more.                            *)
LEMMA FreeOneMore ==
    ASSUME NEW link, NEW S, NEW b, Sound(link), AreBlocks(link, S), b \in S
    PROVE  OneMore(link, S, b)
<1>1. Apart(link, S, pucAlignedHeap, EndMarker) /\ pucAlignedHeap \in Int /\ EndMarker \in Int
  BY AllApart, HeapLayout DEF AreBlocks
<1>2. /\ IsFiniteSet(Extents(link, S)) /\ Cardinality(Extents(link, S)) \in Nat
      /\ Cardinality(Extents(link, S)) =
             link[b].xBlockSize + Cardinality(Extents(link, S \ {b}))
  BY <1>1, CountOneMore
<1>3. Extents(link, S \ {b}) \subseteq Extents(link, S)
  BY DEF Extents
<1>4. IsFiniteSet(Extents(link, S \ {b}))
  BY <1>2, <1>3, FS_Subset
<1> QED BY <1>2, <1>4, FS_CardinalityType DEF OneMore

(* A block that is given away whole is taken.                              *)
LEMMA GivenIsTaken ==
    ASSUME NEW link, Sound(link), NEW block \in Leads(link) \ {xStart},
           NEW K, IsGiven(K, link, block),
           \A p, q : Neighbours(link, p, q) => p = block
    PROVE  IsTaken(K, link, block, link[block].xBlockSize)
<1>1. /\ Sound(K) /\ DOMAIN K = DOMAIN link /\ Leads(K) = Leads(link) \ {block}
      /\ \A p \in DOMAIN link : K[p].xBlockSize = link[p].xBlockSize
  BY DEF IsGiven
<1>2. block \in Blocks(link) /\ block \in DOMAIN link
  BY SoundNumbers DEF Blocks
<1>3. Held(K) = Held(link) \cup {block}
  <2>1. Blocks(K) = Blocks(link)
    BY <1>1 DEF Blocks
  <2> QED BY <1>1, <1>2, <2>1 DEF Held
<1>4. \A p \in Held(link) : K[p].xBlockSize = link[p].xBlockSize
  BY <1>1 DEF Held, Blocks
<1>5. ASSUME NEW p, NEW q, Neighbours(K, p, q)
      PROVE  FALSE
  <2>1. /\ p \in Leads(link) \ {xStart} /\ q \in Leads(link) \ {xStart} /\ p # block
        /\ Beyond(K, p) = q /\ p \in DOMAIN link
    BY <1>1, <1>5 DEF Neighbours, Leads
  <2>2. Beyond(link, p) = q
    BY <1>1, <2>1 DEF Beyond
  <2>3. Neighbours(link, p, q)
    BY <2>1, <2>2 DEF Neighbours
  <2> QED BY <2>1, <2>3
<1> DEFINE S == Leads(link) \ {xStart}
<1>6. /\ Cardinality(Extents(link, S)) = link[block].xBlockSize + Cardinality(Extents(link, S \ {block}))
      /\ Cardinality(Extents(link, S \ {block})) \in Nat
  <2>1. AreBlocks(link, S) /\ block \in S
    BY SoundNumbers DEF AreBlocks
  <2> HIDE DEF S
  <2>2. OneMore(link, S, block)
    BY <2>1, FreeOneMore
  <2> QED BY <2>2 DEF OneMore
<1>7. FreeBytes(K) = Extents(link, S \ {block})
  <2>1. Leads(K) \ {xStart} = S \ {block}
    BY <1>1
  <2>2. \A p \in S \ {block} : K[p].xBlockSize = link[p].xBlockSize
    BY <1>1 DEF Leads
  <2>3. Extents(K, S \ {block}) = Extents(link, S \ {block})
    BY <2>2, SameBytes
  <2> QED BY <2>1, <2>3 DEF FreeBytes
<1>8. FreeBytes(link) = Extents(link, S)
  BY DEF FreeBytes
<1> QED BY <1>1, <1>2, <1>3, <1>4, <1>5, <1>6, <1>7, <1>8 DEF IsTaken, Merged

(* Cutting a block adds no bytes, and only its two parts touch.            *)
LEMMA CutTouches ==
    ASSUME NEW link, Sound(link), Merged(link), NEW block \in Leads(link) \ {xStart},
           NEW size \in Nat, NEW K, IsCut(K, link, block, size)
    PROVE  /\ FreeBytes(K) = FreeBytes(link) /\ SameHeld(K, link, Held(link))
           /\ \A p, q : Neighbours(K, p, q) => p = block
<1> PICK new : new = block + size
  OBVIOUS
<1> PICK rest : rest = link[block].xBlockSize - size
  OBVIOUS
<1>1. /\ Sound(K) /\ new \notin DOMAIN link /\ DOMAIN K = DOMAIN link \cup {new}
      /\ Leads(K) = Leads(link) \cup {new} /\ K[block].xBlockSize = size
      /\ K[new].xBlockSize = rest
      /\ \A p \in DOMAIN link \ {block} : K[p] = link[p]
  BY DEF IsCut
<1>2. /\ block \in DOMAIN link /\ block \in Leads(link) /\ block # xStart /\ block \in Nat
      /\ link[block].xBlockSize \in Nat /\ Leads(link) \subseteq DOMAIN link
      /\ new # xStart /\ new # EndMarker /\ new # block
  <2>1. block \in Blocks(link) /\ block \in Leads(link) /\ block # xStart
    BY SoundNumbers
  <2>2. block \in DOMAIN link
    BY <2>1 DEF Blocks
  <2>3. block \in Nat /\ link[block].xBlockSize \in Nat
    BY <2>1, <2>2, SoundNumbers
  <2>4. new # xStart /\ new # EndMarker /\ new # block
    BY <1>1, <2>2 DEF Sound, Typed
  <2> QED BY <2>1, <2>2, <2>3, <2>4 DEF Leads
<1>3. rest \in Nat
  <2>1. new \in DOMAIN K
    BY <1>1
  <2> QED BY <1>1, <2>1, SoundNumbers
<1>4. Beyond(K, new) = Beyond(link, block) /\ Beyond(K, block) = new
  BY <1>1, <1>2, <1>3 DEF Beyond
<1>5. Extent(link, block) = Extent(K, block) \cup Extent(K, new)
  <2>1. link[block].xBlockSize = size + rest
    BY <1>2, <1>3
  <2>2. block..block + (size + rest) - 1 = (block..block + size - 1) \cup (new..new + rest - 1)
    BY <1>2, <1>3
  <2> QED BY <1>1, <2>1, <2>2 DEF Extent
<1>6. FreeBytes(K) = FreeBytes(link)
  <2> DEFINE S == Leads(link) \ {xStart, block}
  <2>1. \A p \in S : K[p].xBlockSize = link[p].xBlockSize
    BY <1>1, <1>2
  <2>2. Extents(K, S) = Extents(link, S)
    BY <2>1, SameBytes
  <2>3. Leads(K) \ {xStart} = S \cup {block, new}
    BY <1>1, <1>2
  <2>4. Leads(link) \ {xStart} = S \cup {block}
    BY <1>2
  <2> HIDE DEF S
  <2>5. FreeBytes(K) = Extents(K, S) \cup Extent(K, block) \cup Extent(K, new)
    BY <2>3 DEF FreeBytes, Extents
  <2>6. FreeBytes(link) = Extents(link, S) \cup Extent(link, block)
    BY <2>4 DEF FreeBytes, Extents
  <2> QED BY <1>5, <2>2, <2>5, <2>6
<1>7. SameHeld(K, link, Held(link))
  <2>1. Blocks(K) = Blocks(link) \cup {new}
    BY <1>1, <1>2 DEF Blocks
  <2>2. new \notin Blocks(link)
    BY <1>1 DEF Blocks
  <2>3. Held(K) = Held(link)
    BY <1>1, <2>1, <2>2 DEF Held
  <2>4. \A p \in Held(link) : p \in DOMAIN link \ {block}
    BY <1>2 DEF Held, Blocks
  <2>5. \A p \in Held(link) : K[p] = link[p] /\ p \in DOMAIN K
    BY <1>1, <2>4
  <2> QED BY <2>3, <2>5 DEF SameHeld
<1>8. ASSUME NEW p, NEW q, Neighbours(K, p, q), p # block
      PROVE  FALSE
  <2>1. p \in Leads(K) \ {xStart} /\ q \in Leads(K) \ {xStart} /\ Beyond(K, p) = q
    BY <1>8 DEF Neighbours
  <2>2. ASSUME NEW r \in Leads(link) \ {xStart}, Beyond(link, r) = q, q # new
        PROVE  FALSE
    <3>1. Neighbours(link, r, q) /\ r \in DOMAIN link /\ q \in DOMAIN link
      BY <1>1, <1>2, <2>1, <2>2 DEF Neighbours
    <3> QED BY <3>1 DEF Merged
  <2>3. CASE p = new
    <3>1. q # new
      <4>1. p \in Blocks(K)
        BY <1>1, <2>1, SoundNumbers
      <4>2. p \in Nat /\ p + xHeapStructSize < Beyond(K, p)
        BY <1>1, <4>1, SoundNumbers
      <4> QED BY <2>1, <2>3, <4>2, HeapLayout
    <3>2. Beyond(link, block) = q
      BY <1>4, <2>1, <2>3
    <3> QED BY <2>2, <3>1, <3>2
  <2>4. CASE p # new
    <3>1. p \in Leads(link) \ {xStart} /\ K[p] = link[p] /\ Beyond(link, p) = q
      <4>1. p \in Leads(link) \ {xStart} /\ p \in DOMAIN link \ {block}
        BY <1>1, <1>2, <1>8, <2>1, <2>4
      <4> QED BY <1>1, <2>1, <4>1 DEF Beyond
    <3>2. CASE q = new
      <4>1. Beyond(K, p) = Beyond(K, block)
        BY <1>4, <2>1, <3>2
      <4>2. p \in Blocks(K) /\ block \in Blocks(K)
        BY <1>1, <1>2, <2>1, SoundNumbers
      <4>3. p = block
        BY <1>1, <4>1, <4>2, BlocksApart
      <4> QED BY <1>8, <4>3
    <3> QED BY <2>2, <3>1, <3>2
  <2> QED BY <2>3, <2>4
<1> QED BY <1>6, <1>7, <1>8

(* The lesser of two numbers.                                              *)
Lesser(m, n) == IF m < n THEN m ELSE n

(* What Take does once the block is split.                                 *)
LEMMA TakeOf ==
    ASSUME NEW h, NEW block, NEW size, NEW K, NEW free, NEW minimum, block \in DOMAIN K,
           IsRecord(Split(Unlink(h, block), block, size), K, free, minimum),
           NEW got, got = K[block].xBlockSize
    PROVE  IsRecord(Take(h, block, size), [K EXCEPT ![block] = BlockLink(NULL, got, TRUE)],
                    free - got, Lesser(free - got, minimum))
<1> PICK cut : cut = HeapRecord(K, free, minimum)
  OBVIOUS
<1>1. cut.link = K /\ cut.xFreeBytesRemaining = free /\ cut.xMinimumEverFreeBytesRemaining = minimum
  BY ONLY cut = HeapRecord(K, free, minimum) DEF HeapRecord
<1>2. Take(h, block, size) =
          [cut EXCEPT !.link[block] = BlockLink(NULL, @.xBlockSize, TRUE),
                      !.xFreeBytesRemaining = cut.xFreeBytesRemaining - cut.link[block].xBlockSize,
                      !.xMinimumEverFreeBytesRemaining =
                          IF cut.xFreeBytesRemaining - cut.link[block].xBlockSize < @
                          THEN cut.xFreeBytesRemaining - cut.link[block].xBlockSize ELSE @]
  <2>1. Split(Unlink(h, block), block, size) = cut
    BY DEF IsRecord
  <2> QED BY ONLY <2>1, Zenon DEF Take
<1> PICK left : left = free - got
  OBVIOUS
<1>3. cut.xFreeBytesRemaining - cut.link[block].xBlockSize = left
  BY <1>1
<1>4. Take(h, block, size) =
          [cut EXCEPT !.link = [K EXCEPT ![block] = BlockLink(NULL, got, TRUE)],
                      !.xFreeBytesRemaining = left,
                      !.xMinimumEverFreeBytesRemaining = IF left < minimum THEN left ELSE minimum]
  BY ONLY <1>1, <1>2, <1>3, got = K[block].xBlockSize
<1> PICK M : M = [K EXCEPT ![block] = BlockLink(NULL, got, TRUE)]
  OBVIOUS
<1> PICK least : least = IF left < minimum THEN left ELSE minimum
  OBVIOUS
<1>5. [HeapRecord(K, free, minimum) EXCEPT !.link = M] = HeapRecord(M, free, minimum)
  BY ONLY DEF HeapRecord
<1>6. [HeapRecord(M, free, minimum) EXCEPT !.xFreeBytesRemaining = left] = HeapRecord(M, left, minimum)
  BY ONLY DEF HeapRecord
<1>7. [HeapRecord(M, left, minimum) EXCEPT !.xMinimumEverFreeBytesRemaining = least]
          = HeapRecord(M, left, least)
  BY ONLY DEF HeapRecord
<1>8. Take(h, block, size) = HeapRecord(M, left, least)
  <2>1. Take(h, block, size) = [cut EXCEPT !.link = M, !.xFreeBytesRemaining = left,
                                           !.xMinimumEverFreeBytesRemaining = least]
    BY <1>4
  <2>2. [cut EXCEPT !.link = M, !.xFreeBytesRemaining = left,
                    !.xMinimumEverFreeBytesRemaining = least]
            = [[[cut EXCEPT !.link = M] EXCEPT !.xFreeBytesRemaining = left]
                   EXCEPT !.xMinimumEverFreeBytesRemaining = least]
    BY ONLY TRUE
  <2>3. [cut EXCEPT !.link = M] = HeapRecord(M, free, minimum)
    BY <1>5
  <2> QED BY ONLY <1>6, <1>7, <2>1, <2>2, <2>3
<1>9. least = Lesser(left, minimum)
  BY DEF Lesser
<1> QED BY <1>8, <1>9 DEF IsRecord

(* A block of the list that is large enough is taken, or its front when    *)
(* enough is left: what the application gets is at most                    *)
(* heapMINIMUM_BLOCK_SIZE larger than it had to be.                        *)
LEMMA TakeIs ==
    ASSUME NEW link, Sound(link), Merged(link), NEW free, NEW minimum,
           NEW block \in Leads(link) \ {xStart},
           NEW size \in Nat, size % portBYTE_ALIGNMENT = 0, size > xHeapStructSize,
           size <= link[block].xBlockSize
    PROVE  \E K, got :
               /\ IsTaken(K, link, block, got)
               /\ got \in size..size + heapMINIMUM_BLOCK_SIZE /\ got <= link[block].xBlockSize
               /\ IsRecord(Take(HeapRecord(link, free, minimum), block, size),
                           K, free - got, Lesser(free - got, minimum))
<1>1. PICK b \in Leads(link) :
          /\ Successor(link, b) = block /\ b < block /\ b # block
          /\ \A p \in DOMAIN link : Successor(link, p) = block => p = b
  BY OnePredecessor
<1> PICK h : h = HeapRecord(link, free, minimum)
  OBVIOUS
<1> PICK U : U = Bypass(link, block, b)
  OBVIOUS
<1> PICK whole : whole = link[block].xBlockSize
  OBVIOUS
<1>2. Unlink(h, block) = HeapRecord(U, free, minimum)
  BY <1>1, UnlinkIs DEF IsRecord
<1>3. /\ block \in DOMAIN link /\ b \in DOMAIN link /\ block # b /\ whole \in Nat
      /\ heapMINIMUM_BLOCK_SIZE \in Nat /\ heapMINIMUM_BLOCK_SIZE > xHeapStructSize
      /\ xHeapStructSize \in Nat
  <2>1. block \in DOMAIN link /\ b \in DOMAIN link
    BY DEF Leads
  <2>2. whole \in Nat
    BY <2>1, SoundNumbers
  <2> QED BY <1>1, <2>1, <2>2, HeapLayout DEF heapMINIMUM_BLOCK_SIZE
<1>4. /\ DOMAIN U = DOMAIN link /\ U = [p \in DOMAIN U |-> U[p]]
      /\ U[b] = BlockLink(Successor(link, block), link[b].xBlockSize, link[b].allocated)
      /\ \A p \in DOMAIN link \ {b} : U[p] = link[p]
  BY <1>3 DEF Bypass
<1>5. CASE whole - size > heapMINIMUM_BLOCK_SIZE
  <2> PICK new : new = block + size
    OBVIOUS
  <2>1. Splits(link, block, b, size)
    BY <1>1, <1>5 DEF Splits
  <2>2. PICK S : /\ IsSplit(S, link, block, b, size)
                 /\ IsRecord(Split(HeapRecord(U, free, minimum), block, size), S, free, minimum)
    BY <2>1, SplitIs
  <2>a. /\ DOMAIN S = DOMAIN link \cup {new} /\ S = [p \in DOMAIN S |-> S[p]]
        /\ S[new] = BlockLink(Successor(link, block), link[block].xBlockSize - size, FALSE)
        /\ S[b] = BlockLink(new, link[b].xBlockSize, link[b].allocated)
        /\ S[block].xBlockSize = size
        /\ \A p \in DOMAIN link \ {b, block} : S[p] = link[p]
    BY <2>2 DEF IsSplit
  <2> PICK K : K = [S EXCEPT ![block] = BlockLink(NULL, size, TRUE)]
    OBVIOUS
  <2>3. IsRecord(Take(h, block, size), K, free - size, Lesser(free - size, minimum))
    <3>1. IsRecord(Split(Unlink(h, block), block, size), S, free, minimum)
      BY ONLY <1>2, <2>2
    <3>2. block \in DOMAIN S /\ size = S[block].xBlockSize
      BY ONLY <1>3, <2>a
    <3>3. IsRecord(Take(h, block, size), [S EXCEPT ![block] = BlockLink(NULL, size, TRUE)],
                   free - size, Lesser(free - size, minimum))
      BY ONLY <3>1, <3>2, TakeOf
    <3> QED BY <3>3
  <2> PICK C : C = Cut(link, block, size)
    OBVIOUS
  <2>4. IsCut(C, link, block, size) /\ new # b /\ new # block
    <3>1. IsCut(C, link, block, size)
      <4>1. link[block].xBlockSize - size > xHeapStructSize
        BY <1>3, <1>5
      <4> QED BY <4>1, CutKeeps
    <3> QED BY <1>3, <3>1 DEF IsCut
  <2>5. K = Give(C, block, b)
    <3> PICK G : G = Give(C, block, b)
      OBVIOUS
    <3>0. C = [p \in DOMAIN link \cup {new} |->
                 CASE p = block -> BlockLink(new, size, FALSE)
                   [] p = new   -> BlockLink(Successor(link, block), link[block].xBlockSize - size, FALSE)
                   [] OTHER     -> link[p]]
      BY DEF Cut
    <3>1. /\ DOMAIN C = DOMAIN link \cup {new} /\ C[block] = BlockLink(new, size, FALSE)
          /\ C[new] = BlockLink(Successor(link, block), link[block].xBlockSize - size, FALSE)
          /\ \A p \in DOMAIN link \ {block} : C[p] = link[p]
      <4>1. DOMAIN C = DOMAIN link \cup {new}
        BY ONLY <3>0
      <4>2. C[block] = BlockLink(new, size, FALSE)
        BY ONLY <1>3, <2>4, <3>0
      <4>3. C[new] = BlockLink(Successor(link, block), link[block].xBlockSize - size, FALSE)
        BY ONLY <2>4, <3>0
      <4>4. \A p \in DOMAIN link \ {block} : C[p] = link[p]
        BY <2>4 DEF IsCut
      <4> QED BY <4>1, <4>2, <4>3, <4>4
    <3>2. C[block].pxNextFreeBlock = new /\ C[block].xBlockSize = size
      BY ONLY <3>1 DEF BlockLink
    <3>3. G = [p \in DOMAIN C |->
                 CASE p = block -> BlockLink(NULL, size, TRUE)
                   [] p = b     -> BlockLink(new, C[b].xBlockSize, C[b].allocated)
                   [] OTHER     -> C[p]]
      BY <3>2 DEF Give, Successor
    <3>4. C[b].xBlockSize = link[b].xBlockSize /\ C[b].allocated = link[b].allocated
      BY <1>3, <3>1
    <3>5. DOMAIN G = DOMAIN K /\ G = [p \in DOMAIN G |-> G[p]] /\ K = [p \in DOMAIN K |-> K[p]]
      <4>1. DOMAIN K = DOMAIN S /\ K = [p \in DOMAIN K |-> K[p]]
        OBVIOUS
      <4>2. DOMAIN G = DOMAIN C /\ G = [p \in DOMAIN G |-> G[p]]
        BY ONLY <3>3
      <4> QED BY ONLY <2>a, <3>1, <4>1, <4>2
    <3>6. ASSUME NEW p \in DOMAIN G
          PROVE  G[p] = K[p]
      <4>0. K = [S EXCEPT ![block] = BlockLink(NULL, size, TRUE)]
        OBVIOUS
      <4>1. CASE p = block
        <5>1. G[p] = BlockLink(NULL, size, TRUE)
          BY ONLY <1>3, <3>3, <4>1, p \in DOMAIN G
        <5>2. block \in DOMAIN S
          BY ONLY <1>3, <2>a
        <5>3. K[p] = BlockLink(NULL, size, TRUE)
          BY ONLY <4>0, <4>1, <5>2
        <5> QED BY <5>1, <5>3
      <4>2. CASE p = b
        <5>1. G[p] = BlockLink(new, C[b].xBlockSize, C[b].allocated)
          BY ONLY <1>3, <3>3, <4>2, p \in DOMAIN G
        <5>2. K[p] = S[b]
          BY ONLY <1>3, <2>a, <4>0, <4>2
        <5> QED BY ONLY <2>a, <3>4, <5>1, <5>2
      <4>3. CASE p # block /\ p # b
        <5>1. G[p] = C[p] /\ p \in DOMAIN link \cup {new}
          BY ONLY <3>1, <3>3, <4>3, p \in DOMAIN G
        <5>2. K[p] = S[p]
          BY ONLY <2>a, <4>0, <4>3, <5>1
        <5>3. C[p] = S[p]
          <6>1. CASE p = new
            BY ONLY <2>a, <3>1, <6>1
          <6>2. CASE p # new
            BY ONLY <2>a, <3>1, <4>3, <5>1, <6>2
          <6> QED BY <6>1, <6>2
        <5> QED BY ONLY <5>1, <5>2, <5>3
      <4> QED BY <4>1, <4>2, <4>3
    <3>7. [p \in DOMAIN G |-> G[p]] = [p \in DOMAIN K |-> K[p]]
      BY ONLY <3>5, <3>6
    <3> QED BY ONLY <3>5, <3>7, G = Give(C, block, b)
  <2>6. /\ Sound(C) /\ FreeBytes(C) = FreeBytes(link) /\ SameHeld(C, link, Held(link))
        /\ \A p, q : Neighbours(C, p, q) => p = block
    BY <2>4, CutTouches DEF IsCut
  <2>7. /\ block \in Leads(C) \ {xStart} /\ b \in Leads(C) /\ Successor(C, b) = block
        /\ C[block].xBlockSize = size
    <3>1. C[b] = link[b] /\ Leads(C) = Leads(link) \cup {new} /\ C[block].xBlockSize = size
      BY <1>3, <2>4 DEF IsCut
    <3> QED BY <1>1, <3>1 DEF Successor
  <2>8. IsGiven(K, C, block)
    <3>1. IsGiven(Give(C, block, b), C, block)
      BY <2>6, <2>7, GiveKeeps
    <3> QED BY <2>5, <3>1
  <2>9. IsTaken(K, C, block, size)
    BY <2>6, <2>7, <2>8, GivenIsTaken
  <2>10. IsTaken(K, link, block, size)
    BY <2>6, <2>9 DEF IsTaken, SameHeld
  <2>11. size \in size..size + heapMINIMUM_BLOCK_SIZE
    BY <1>3
  <2> QED BY <2>3, <2>10, <2>11
<1>6. CASE ~(whole - size > heapMINIMUM_BLOCK_SIZE)
  <2> PICK K : K = [U EXCEPT ![block] = BlockLink(NULL, whole, TRUE)]
    OBVIOUS
  <2>1. IsRecord(Split(Unlink(h, block), block, size), U, free, minimum)
    <3> PICK g : g = HeapRecord(U, free, minimum)
      OBVIOUS
    <3>1. g.link = U
      BY ONLY g = HeapRecord(U, free, minimum) DEF HeapRecord
    <3>2. U[block].xBlockSize = whole
      BY <1>3, <1>4
    <3>3. ~(g.link[block].xBlockSize - size > heapMINIMUM_BLOCK_SIZE)
      BY ONLY <1>6, <3>1, <3>2
    <3>4. Split(g, block, size) = g
      BY ONLY <3>3 DEF Split
    <3> QED BY <1>2, <3>4 DEF IsRecord
  <2>2. block \in DOMAIN U /\ whole = U[block].xBlockSize
    BY <1>3, <1>4
  <2>3. IsRecord(Take(h, block, size), K, free - whole, Lesser(free - whole, minimum))
    <3>1. IsRecord(Take(h, block, size), [U EXCEPT ![block] = BlockLink(NULL, whole, TRUE)],
                   free - whole, Lesser(free - whole, minimum))
      BY ONLY <2>1, <2>2, TakeOf
    <3> QED BY <3>1
  <2>4. K = Give(link, block, b)
    <3> PICK G : G = Give(link, block, b)
      OBVIOUS
    <3>1. G = [p \in DOMAIN link |->
                 CASE p = block -> BlockLink(NULL, whole, TRUE)
                   [] p = b     -> BlockLink(Successor(link, block), link[b].xBlockSize, link[b].allocated)
                   [] OTHER     -> link[p]]
      BY DEF Give
    <3>2. K = [U EXCEPT ![block] = BlockLink(NULL, whole, TRUE)]
      OBVIOUS
    <3>3. G = K
      BY ONLY <1>3, <1>4, <3>1, <3>2
    <3> QED BY <3>3
  <2>5. IsGiven(K, link, block)
    <3>1. IsGiven(Give(link, block, b), link, block)
      BY <1>1, GiveKeeps
    <3> QED BY <2>4, <3>1
  <2>6. \A p, q : ~Neighbours(link, p, q)
    <3>1. \A p, q : Neighbours(link, p, q) => p \in DOMAIN link /\ q \in DOMAIN link
      BY DEF Neighbours, Leads
    <3> QED BY <3>1 DEF Merged
  <2>7. IsTaken(K, link, block, whole)
    BY <2>5, <2>6, GivenIsTaken
  <2>8. whole \in size..size + heapMINIMUM_BLOCK_SIZE
    BY <1>3, <1>6
  <2> QED BY <1>3, <2>3, <2>7, <2>8
<1> QED BY <1>5, <1>6

-----------------------------------------------------------------------------
(* What holds between two steps once the heap is set up.                   *)
Good(h) ==
    /\ IsRecord(h, h.link, h.xFreeBytesRemaining, h.xMinimumEverFreeBytesRemaining)
    /\ Sound(h.link) /\ Merged(h.link)
    /\ h.xFreeBytesRemaining = Cardinality(FreeBytes(h.link))

(* The fields of the record.                                               *)
LEMMA RecordFields ==
    ASSUME NEW link, NEW free, NEW minimum, NEW h, IsRecord(h, link, free, minimum)
    PROVE  /\ h.link = link /\ h.pxEnd = EndMarker
           /\ h.xFreeBytesRemaining = free /\ h.xMinimumEverFreeBytesRemaining = minimum
BY DEF IsRecord, HeapRecord

(* What makes a heap good.                                                 *)
LEMMA GoodRecord ==
    ASSUME NEW link, NEW free, NEW minimum, NEW h, IsRecord(h, link, free, minimum),
           Sound(link), Merged(link), free = Cardinality(FreeBytes(link))
    PROVE  Good(h)
BY RecordFields DEF Good

(* prvHeapInit sets up a good heap, of which nobody holds anything.        *)
LEMMA InitGood == Good(prvHeapInit) /\ Held(prvHeapInit.link) = {}
<1> PICK h : h = prvHeapInit
  OBVIOUS
<1> PICK link : link = h.link
  OBVIOUS
<1> PICK first : first = pucAlignedHeap
  OBVIOUS
<1>1. /\ Sound(link) /\ Leads(link) = {xStart, first} /\ Blocks(link) = {first}
      /\ link[first].xBlockSize = EndMarker - first
      /\ h.pxEnd = EndMarker /\ h.xFreeBytesRemaining = EndMarker - first
      /\ h.xMinimumEverFreeBytesRemaining = EndMarker - first
  BY InitIsSound
<1>2. first # xStart /\ first # EndMarker /\ first \in Int /\ EndMarker \in Int
  BY HeapLayout DEF xStart
<1>3. IsRecord(h, link, h.xFreeBytesRemaining, h.xMinimumEverFreeBytesRemaining)
  <2>1. h = [link |-> h.link, pxEnd |-> h.pxEnd, xFreeBytesRemaining |-> h.xFreeBytesRemaining,
             xMinimumEverFreeBytesRemaining |-> h.xMinimumEverFreeBytesRemaining]
    BY DEF prvHeapInit
  <2> QED BY <1>1, <2>1 DEF IsRecord, HeapRecord
<1>4. Merged(link)
  <2>1. ASSUME NEW p, NEW q, Neighbours(link, p, q)
        PROVE  FALSE
    <3>1. p = first /\ q = first /\ Beyond(link, p) = q
      BY <1>1, <2>1 DEF Neighbours
    <3>2. Beyond(link, first) = EndMarker
      BY <1>1, <1>2 DEF Beyond
    <3> QED BY <1>2, <3>1, <3>2
  <2> QED BY <2>1 DEF Merged
<1>5. Cardinality(FreeBytes(link)) = EndMarker - first
  <2>1. Leads(link) \ {xStart} = {first} /\ {first} \in SUBSET Blocks(link) /\ {first} \ {first} = {}
    BY <1>1, <1>2
  <2>2. Cardinality(Extents(link, {first})) =
            link[first].xBlockSize + Cardinality(Extents(link, {first} \ {first}))
    <3>1. AreBlocks(link, {first}) /\ first \in {first}
      BY <2>1 DEF AreBlocks
    <3>2. OneMore(link, {first}, first)
      BY <1>1, <3>1, FreeOneMore
    <3> QED BY <3>2 DEF OneMore
  <2>3. Cardinality(Extents(link, {})) = 0
    BY CountNone
  <2>4. Cardinality(FreeBytes(link)) = (EndMarker - first) + 0
    BY <1>1, <2>1, <2>2, <2>3 DEF FreeBytes
  <2> QED BY <1>2, <2>4
<1>6. Held(link) = {}
  BY <1>1 DEF Held
<1> QED BY <1>1, <1>3, <1>4, <1>5, <1>6 DEF Good

(* A block is put back.                                                    *)
LEMMA PutBackGood ==
    ASSUME NEW h, Good(h), NEW block \in Held(h.link), ~h.link[block].allocated,
           NEW g, g = prvInsertBlockIntoFreeList(
                          [h EXCEPT !.xFreeBytesRemaining = @ + h.link[block].xBlockSize], block)
    PROVE  /\ Good(g) /\ SameHeld(g.link, h.link, Held(h.link) \ {block})
           /\ g.xFreeBytesRemaining = h.xFreeBytesRemaining + h.link[block].xBlockSize
           /\ g.xMinimumEverFreeBytesRemaining = h.xMinimumEverFreeBytesRemaining
<1> PICK link : link = h.link
  OBVIOUS
<1> PICK free : free = h.xFreeBytesRemaining
  OBVIOUS
<1> PICK minimum : minimum = h.xMinimumEverFreeBytesRemaining
  OBVIOUS
<1> PICK size : size = link[block].xBlockSize
  OBVIOUS
<1>1. /\ h = HeapRecord(link, free, minimum) /\ Sound(link) /\ Merged(link)
      /\ free = Cardinality(FreeBytes(link)) /\ block \in Held(link) /\ ~link[block].allocated
  BY DEF Good, IsRecord
<1> PICK i : i = HeapRecord(link, free + size, minimum)
  OBVIOUS
<1>2. [h EXCEPT !.xFreeBytesRemaining = @ + link[block].xBlockSize] = i
  <2>1. [h EXCEPT !.xFreeBytesRemaining = @ + link[block].xBlockSize]
            = [h EXCEPT !.xFreeBytesRemaining = free + size]
    OBVIOUS
  <2>2. [HeapRecord(link, free, minimum) EXCEPT !.xFreeBytesRemaining = free + size]
            = HeapRecord(link, free + size, minimum)
    BY ONLY DEF HeapRecord
  <2> QED BY <1>1, <2>1, <2>2
<1>3. i.link = link /\ i.pxEnd = EndMarker
  BY DEF HeapRecord
<1> PICK b : b = Before(i, block)
  OBVIOUS
<1>4. /\ b \in Leads(link) /\ b < block /\ block <= Successor(link, b)
      /\ prvInsertBlockIntoFreeList(i, block) = [i EXCEPT !.link = PutMerged(link, block, b)]
  <2>1. Sound(i.link) /\ block \in Held(i.link) /\ i.pxEnd = EndMarker
    BY <1>1, <1>3
  <2>2. /\ Before(i, block) \in Leads(i.link) /\ Before(i, block) < block
        /\ block <= Successor(i.link, Before(i, block))
        /\ prvInsertBlockIntoFreeList(i, block) =
               [i EXCEPT !.link = PutMerged(i.link, block, Before(i, block))]
    BY <2>1, InsertIs
  <2> QED BY <1>3, <2>2
<1> PICK K : K = PutMerged(link, block, b)
  OBVIOUS
<1>5. IsInserted(K, link, block)
  BY <1>1, <1>4, PutMergedKeeps
<1>6. IsRecord(g, K, free + size, minimum)
  <2>1. g = [i EXCEPT !.link = K]
    BY <1>2, <1>4
  <2>2. [HeapRecord(link, free + size, minimum) EXCEPT !.link = K] = HeapRecord(K, free + size, minimum)
    BY ONLY DEF HeapRecord
  <2> QED BY <2>1, <2>2 DEF IsRecord
<1>7. Cardinality(FreeBytes(K)) = free + size
  <2> PICK S : S = Leads(link) \ {xStart}
    OBVIOUS
  <2> PICK T : T = S \cup {block}
    OBVIOUS
  <2>1. T \in SUBSET Blocks(link) /\ T \ {block} = S /\ block \in T
    <3>1. block \in Blocks(link) /\ block \notin Leads(link)
      BY <1>1 DEF Held
    <3> QED BY <1>1, <3>1, SoundNumbers
  <2>2. /\ Cardinality(Extents(link, T)) =
              link[block].xBlockSize + Cardinality(Extents(link, T \ {block}))
        /\ Cardinality(Extents(link, T \ {block})) \in Nat
        /\ Cardinality(Extents(link, T)) \in Nat
    <3>1. Sound(link) /\ AreBlocks(link, T) /\ block \in T
      BY <1>1, <2>1 DEF AreBlocks
    <3>2. OneMore(link, T, block)
      BY ONLY <3>1, FreeOneMore
    <3> QED BY ONLY <3>2 DEF OneMore
  <2>3. Cardinality(Extents(link, S)) = free
    BY <1>1 DEF FreeBytes
  <2>4. Cardinality(FreeBytes(K)) = Cardinality(Extents(link, T))
    BY <1>5 DEF IsInserted
  <2>5. size \in Int
    <3>1. block \in DOMAIN link
      BY <1>1 DEF Held, Blocks
    <3>2. Sound(link)
      BY <1>1
    <3>3. link[block].xBlockSize \in Nat
      BY ONLY <3>1, <3>2, SoundNumbers
    <3> QED BY ONLY <3>3, size = link[block].xBlockSize
  <2>6. free \in Int
    BY ONLY <2>1, <2>2, <2>3
  <2>7. Cardinality(FreeBytes(K)) = size + free
    BY ONLY <2>1, <2>2, <2>3, <2>4, size = link[block].xBlockSize
  <2> QED BY ONLY <2>5, <2>6, <2>7
<1>8. Good(g)
  BY <1>5, <1>6, <1>7, GoodRecord DEF IsInserted
<1>9. /\ g.link = K /\ g.xFreeBytesRemaining = free + size
      /\ g.xMinimumEverFreeBytesRemaining = minimum
  BY <1>6, RecordFields
<1> QED BY <1>5, <1>8, <1>9 DEF IsInserted

-----------------------------------------------------------------------------
(* vPortFree's mark is not part of the list, so that nothing changes there. *)
IsMarked(K, link, block) ==
    /\ DOMAIN K = DOMAIN link /\ K \in [DOMAIN K -> BlockLinks]
    /\ \A p \in DOMAIN link : /\ K[p].xBlockSize = link[p].xBlockSize
                              /\ Successor(K, p) = Successor(link, p)
    /\ \A p \in DOMAIN link \ {block} : K[p] = link[p]

(* K is sound with the same free and the same held bytes as link.          *)
SameList(K, link) ==
    /\ Sound(K) /\ Merged(K) /\ Held(K) = Held(link) /\ FreeBytes(K) = FreeBytes(link)
    /\ \A p \in Held(link) : K[p].xBlockSize = link[p].xBlockSize

(* A block that is marked is as sound as before.                           *)
LEMMA MarkKeeps ==
    ASSUME NEW link, NEW block, NEW K,
           Sound(link), Merged(link), block \in Held(link), IsMarked(K, link, block)
    PROVE  SameList(K, link)
<1>1. /\ DOMAIN K = DOMAIN link /\ K \in [DOMAIN K -> BlockLinks]
      /\ \A p \in DOMAIN link : /\ K[p].xBlockSize = link[p].xBlockSize
                                /\ Successor(K, p) = Successor(link, p)
      /\ \A p \in DOMAIN link \ {block} : K[p] = link[p]
  BY DEF IsMarked
<1>2. Leads(K) = Leads(link) /\ Blocks(K) = Blocks(link) /\ Held(K) = Held(link)
  <2>1. Leads(K) = Leads(link)
    BY <1>1 DEF Leads, Successor
  <2>2. Blocks(K) = Blocks(link)
    BY <1>1 DEF Blocks
  <2> QED BY <2>1, <2>2 DEF Held
<1>3. \A p \in DOMAIN link : Beyond(K, p) = Beyond(link, p)
  BY <1>1 DEF Beyond
<1>4. block \in Blocks(link) /\ block \notin Leads(link) /\ block # EndMarker /\ block # xStart
  BY SoundNumbers DEF Held
<1>5. Typed(K)
  <2>1. Typed(link)
    BY DEF Sound
  <2>2. K[EndMarker] = link[EndMarker] /\ K[xStart] = link[xStart]
    BY <1>1, <1>4, <2>1 DEF Typed
  <2>3. \A p \in Leads(K) : K[p] = link[p]
    BY <1>1, <1>2, <1>4 DEF Leads
  <2>4. \A p \in Leads(K) : ~K[p].allocated
    BY <1>2, <2>1, <2>3 DEF Typed
  <2> QED BY <1>1, <2>1, <2>2, <2>4 DEF Typed
<1>6. Tiled(K)
  <2>1. Tiled(link)
    BY DEF Sound
  <2>2. \A p \in Blocks(link) : p \in DOMAIN link
    BY DEF Blocks
  <2> QED BY <1>1, <1>2, <1>3, <2>1, <2>2 DEF Tiled
<1>7. Chain(K, Leads(K))
  <2>1. Chain(link, Leads(link))
    BY DEF Sound
  <2>2. \A p \in Leads(link) : Successor(K, p) = Successor(link, p)
    BY <1>1 DEF Leads
  <2> QED BY <1>2, <2>1, <2>2 DEF Chain
<1>8. Merged(K)
  <2>1. ASSUME NEW p \in DOMAIN K, NEW q \in DOMAIN K, Neighbours(K, p, q)
        PROVE  FALSE
    <3>1. Neighbours(link, p, q)
      BY <1>1, <1>2, <1>3, <2>1 DEF Neighbours
    <3> QED BY <1>1, <2>1, <3>1 DEF Merged
  <2> QED BY <2>1 DEF Merged
<1>9. FreeBytes(K) = FreeBytes(link)
  <2>1. \A p \in Leads(link) : p \in DOMAIN link
    BY DEF Leads
  <2>2. \A p \in Leads(link) : Extent(K, p) = Extent(link, p)
    BY <1>1, <2>1 DEF Extent
  <2> QED BY <1>2, <2>2 DEF FreeBytes, Extents
<1>10. \A p \in Held(link) : p \in DOMAIN link
  BY DEF Held, Blocks
<1> QED BY <1>1, <1>2, <1>5, <1>6, <1>7, <1>8, <1>9, <1>10 DEF Sound, SameList

(* g is h but for the mark of a block that is held.                        *)
Unmarked(g, h) ==
    /\ Good(g) /\ Held(g.link) = Held(h.link)
    /\ \A p \in Held(h.link) : g.link[p].xBlockSize = h.link[p].xBlockSize
    /\ g.xFreeBytesRemaining = h.xFreeBytesRemaining
    /\ g.xMinimumEverFreeBytesRemaining = h.xMinimumEverFreeBytesRemaining

(* The same of what vPortFree leaves.                                      *)
LEMMA FreeGood ==
    ASSUME NEW h, NEW block, NEW g, Good(h), block \in Held(h.link),
           g = [h EXCEPT !.link[block].allocated = FALSE]
    PROVE  Unmarked(g, h)
<1> PICK link : link = h.link
  OBVIOUS
<1> PICK free : free = h.xFreeBytesRemaining
  OBVIOUS
<1> PICK minimum : minimum = h.xMinimumEverFreeBytesRemaining
  OBVIOUS
<1> PICK K : K = [link EXCEPT ![block].allocated = FALSE]
  OBVIOUS
<1>1. /\ h = HeapRecord(link, free, minimum) /\ Sound(link) /\ Merged(link)
      /\ free = Cardinality(FreeBytes(link)) /\ block \in Held(link)
  BY DEF Good, IsRecord
<1>2. IsRecord(g, K, free, minimum)
  <2>1. g = [h EXCEPT !.link = K]
    BY ONLY g = [h EXCEPT !.link[block].allocated = FALSE], link = h.link,
            K = [link EXCEPT ![block].allocated = FALSE]
  <2>2. [HeapRecord(link, free, minimum) EXCEPT !.link = K] = HeapRecord(K, free, minimum)
    BY ONLY DEF HeapRecord
  <2> QED BY <1>1, <2>1, <2>2 DEF IsRecord
<1>3. IsMarked(K, link, block)
  <2>1. link \in [DOMAIN link -> BlockLinks] /\ block \in DOMAIN link
    BY <1>1 DEF Sound, Typed, Held, Blocks
  <2>2. /\ DOMAIN K = DOMAIN link
        /\ \A p \in DOMAIN link \ {block} : K[p] = link[p]
        /\ K[block] = [link[block] EXCEPT !.allocated = FALSE]
    BY ONLY <2>1, K = [link EXCEPT ![block].allocated = FALSE]
  <2>3. \A p \in DOMAIN link : link[p] \in BlockLinks
    BY ONLY <2>1
  <2>4. /\ K[block] \in BlockLinks /\ K[block].xBlockSize = link[block].xBlockSize
        /\ K[block].pxNextFreeBlock = link[block].pxNextFreeBlock
    BY ONLY <2>1, <2>2, <2>3 DEF BlockLinks
  <2>5. K \in [DOMAIN K -> BlockLinks]
    <3>1. \A p \in DOMAIN link : K[p] \in BlockLinks
      BY ONLY <2>2, <2>3, <2>4
    <3> QED BY ONLY <3>1, <2>2, K = [link EXCEPT ![block].allocated = FALSE]
  <2> QED BY ONLY <2>2, <2>4, <2>5 DEF IsMarked, Successor
<1>4. /\ Sound(K) /\ Merged(K) /\ Held(K) = Held(link) /\ FreeBytes(K) = FreeBytes(link)
      /\ \A p \in Held(link) : K[p].xBlockSize = link[p].xBlockSize
  <2>1. SameList(K, link)
    BY ONLY <1>1, <1>3, MarkKeeps
  <2> QED BY ONLY <2>1 DEF SameList
<1>5. Good(g)
  BY <1>1, <1>2, <1>4, GoodRecord
<1>6. /\ g.link = K /\ g.xFreeBytesRemaining = free /\ g.xMinimumEverFreeBytesRemaining = minimum
  BY <1>2, RecordFields
<1> QED BY <1>4, <1>5, <1>6 DEF Unmarked

-----------------------------------------------------------------------------
(* Size bytes from at on are inside the heap and nobody's.                 *)
Vacant(link, at, size) ==
    /\ at >= pucAlignedHeap /\ at + size <= EndMarker
    /\ \A b \in Held(link) : Beyond(link, b) <= at \/ at + size <= b

(* Such bytes are all in one free block, which is as large as the request  *)
(* is made: free blocks that touch were merged.                            *)
LEMMA RoomIsFound ==
    ASSUME NEW link, Sound(link), Merged(link), NEW at \in Int, NEW size \in Nat, size > 0,
           Vacant(link, at, size)
    PROVE  \E b \in Leads(link) \ {xStart} : RoundUp(size) <= link[b].xBlockSize
<1> DEFINE S == {b \in Blocks(link) : b <= at}
<1>1. at >= pucAlignedHeap /\ at + size <= EndMarker /\ EndMarker \in Int /\ at < EndMarker
  BY HeapLayout DEF Vacant
<1>2. PICK b \in S : \A c \in S : c <= b
  <2>1. S \in SUBSET Int /\ S # {} /\ \A c \in S : c <= at
    <3>1. pucAlignedHeap \in S
      BY <1>1 DEF Sound, Tiled
    <3> QED BY <3>1, SoundNumbers
  <2> HIDE DEF S
  <2> QED BY <2>1, GreatestMember
<1>3. /\ b \in Blocks(link) /\ b <= at /\ b \in Int /\ Beyond(link, b) \in Int
      /\ Beyond(link, b) \in Blocks(link) \cup {EndMarker} /\ b < Beyond(link, b)
      /\ link[b].xBlockSize \in Int
  <2>1. b \in Blocks(link) /\ b <= at
    OBVIOUS
  <2>2. b \in DOMAIN link
    BY <2>1 DEF Blocks
  <2>3. b \in Int /\ Beyond(link, b) \in Int /\ b < Beyond(link, b)
    BY <2>1, SoundNumbers, HeapLayout
  <2> QED BY <2>1, <2>2, <2>3, SoundNumbers DEF Sound, Tiled
<1>4. at < Beyond(link, b)
  <2>1. ASSUME Beyond(link, b) <= at
        PROVE  FALSE
    <3>1. Beyond(link, b) \in S
      BY <1>1, <1>3, <2>1
    <3> QED BY <1>2, <1>3, <3>1
  <2> QED BY <1>3, <2>1
<1> HIDE DEF S
<1>5. b \in Leads(link) \ {xStart}
  <2>1. ASSUME b \in Held(link)
        PROVE  FALSE
    <3>1. Beyond(link, b) <= at \/ at + size <= b
      BY <2>1 DEF Vacant
    <3> QED BY <1>3, <1>4, <3>1
  <2> QED BY <1>3, <2>1, SoundNumbers DEF Held
<1>6. at + size <= Beyond(link, b)
  <2>1. CASE Beyond(link, b) = EndMarker
    BY <1>1, <2>1
  <2>2. CASE Beyond(link, b) \in Blocks(link)
    <3>1. PICK c : c = Beyond(link, b)
      OBVIOUS
    <3>2. c \in DOMAIN link /\ b \in DOMAIN link /\ c # xStart
      BY <1>3, <2>2, <3>1, SoundNumbers DEF Blocks
    <3>3. c \notin Leads(link)
      BY <1>5, <3>1, <3>2 DEF Merged, Neighbours
    <3>4. c \in Held(link)
      BY <2>2, <3>1, <3>3 DEF Held
    <3>5. Beyond(link, c) <= at \/ at + size <= c
      BY <3>4 DEF Vacant
    <3>6. c < Beyond(link, c) /\ c \in Int /\ Beyond(link, c) \in Int
      BY <2>2, <3>1, SoundNumbers, HeapLayout
    <3> QED BY <1>4, <3>1, <3>5, <3>6
  <2> QED BY <1>3, <2>1, <2>2
<1>7. link[b].xBlockSize % portBYTE_ALIGNMENT = 0
  <2>1. b % portBYTE_ALIGNMENT = 0 /\ Beyond(link, b) % portBYTE_ALIGNMENT = 0
    BY <1>3, HeapLayout DEF Sound, Tiled
  <2>2. (Beyond(link, b) - b) % portBYTE_ALIGNMENT = 0
    BY <1>3, <2>1, AlignedSum, HeapLayout
  <2>3. Beyond(link, b) - b = link[b].xBlockSize
    BY <1>3 DEF Beyond
  <2> QED BY <2>2, <2>3
<1>8. size <= link[b].xBlockSize
  BY <1>3, <1>6 DEF Beyond
<1> QED BY <1>3, <1>5, <1>7, <1>8, RoundUpIsLeast

-----------------------------------------------------------------------------
(* What a call of pvPortMalloc comes to.                                   *)

(* What a good heap is, field by field.                                    *)
LEMMA GoodFields ==
    ASSUME NEW h, Good(h)
    PROVE  /\ h.pxEnd = EndMarker /\ Sound(h.link) /\ Merged(h.link)
           /\ h.xFreeBytesRemaining = Cardinality(FreeBytes(h.link))
BY DEF Good, IsRecord, HeapRecord

(* The size of the block for n bytes.                                      *)
LEMMA BlockSizeMeans ==
    ASSUME NEW n \in Nat, n > 0
    PROVE  /\ BlockSize(n) = RoundUp(n + xHeapStructSize)
           /\ BlockSize(n) \in Nat /\ BlockSize(n) % portBYTE_ALIGNMENT = 0
           /\ BlockSize(n) > xHeapStructSize /\ n + xHeapStructSize <= BlockSize(n)
           /\ BlockSize(n) <= n + xHeapStructSize + (portBYTE_ALIGNMENT - 1)
<1>1. PICK m \in Nat : m = n + xHeapStructSize /\ m > xHeapStructSize /\ xHeapStructSize \in Nat
  BY HeapLayout
<1>2. BlockSize(n) = RoundUp(m)
  BY <1>1 DEF BlockSize
<1>3. PICK s \in Int : /\ s = RoundUp(m) /\ s % portBYTE_ALIGNMENT = 0
                       /\ m <= s /\ s < m + portBYTE_ALIGNMENT
  BY <1>1, Rounding
<1>4. portBYTE_ALIGNMENT \in Nat \ {0}
  BY HeapLayout
<1> QED BY <1>1, <1>2, <1>3, <1>4

(* Where the search ends.                                                  *)
LEMMA FitMeans ==
    ASSUME NEW h, Good(h), NEW size \in Int
    PROVE  IsFirstFit(h, Leads(h.link), size, FirstFit(h, size))
<1> PICK L : L = Leads(h.link)
  OBVIOUS
<1>1. h.pxEnd = EndMarker /\ Sound(h.link)
  BY GoodFields
<1>2. Chain(h.link, L)
  BY <1>1 DEF Sound
<1>3. EndMarker \in DOMAIN h.link /\ Successor(h.link, EndMarker) = NULL
  <2>1. Typed(h.link)
    BY <1>1 DEF Sound
  <2> QED BY <2>1 DEF Typed, BlockLink, Successor
<1>4. \A p \in L \cup {EndMarker} : h.link[p].xBlockSize \in Int
  <2>1. \A p \in DOMAIN h.link : h.link[p].xBlockSize \in Nat
    BY <1>1, SoundNumbers
  <2>2. L \cup {EndMarker} \subseteq DOMAIN h.link
    BY <1>3 DEF Leads
  <2> QED BY <2>1, <2>2
<1>5. IsFirstFit(h, L, size, FirstFit(h, size))
  BY <1>1, <1>2, <1>3, <1>4, FirstFitMeans
<1> QED BY <1>5

(* g is h with got bytes more that are held, from block on.                *)
IsGranted(g, h, block, got) ==
    /\ Good(g) /\ Held(g.link) = Held(h.link) \cup {block}
    /\ g.link[block].xBlockSize = got
    /\ \A p \in Held(h.link) : g.link[p].xBlockSize = h.link[p].xBlockSize
    /\ g.xFreeBytesRemaining = h.xFreeBytesRemaining - got
    /\ g.xMinimumEverFreeBytesRemaining =
           Lesser(g.xFreeBytesRemaining, h.xMinimumEverFreeBytesRemaining)

(* The bytes are enough for the request, and not many more.                *)
Enough(n, got) ==
    got \in n + xHeapStructSize..
            n + xHeapStructSize + (portBYTE_ALIGNMENT - 1) + heapMINIMUM_BLOCK_SIZE

(* Where and how much a request gets.                                      *)
IsPlace(link, n, block, got) ==
    /\ Enough(n, got) /\ Vacant(link, block, got)
    /\ block \in pucAlignedHeap..EndMarker - 1 /\ block % portBYTE_ALIGNMENT = 0

(* A free block that is large enough is a place for a part of it.          *)
LEMMA FreeIsVacant ==
    ASSUME NEW link, Sound(link), NEW block \in Leads(link) \ {xStart},
           NEW got \in Int, got <= link[block].xBlockSize
    PROVE  /\ Vacant(link, block, got)
           /\ block \in pucAlignedHeap..EndMarker - 1 /\ block % portBYTE_ALIGNMENT = 0
<1>1. block \in Blocks(link) /\ block \in DOMAIN link
  BY SoundNumbers DEF Leads
<1>2. block \in pucAlignedHeap..EndMarker - 1 /\ block % portBYTE_ALIGNMENT = 0
  BY <1>1 DEF Sound, Tiled
<1>3. /\ block \in Int /\ link[block].xBlockSize \in Int /\ Beyond(link, block) \in Int
      /\ Beyond(link, block) <= EndMarker /\ pucAlignedHeap \in Int /\ EndMarker \in Int
  BY <1>1, <1>2, SoundNumbers, HeapLayout
<1>4. block + got <= Beyond(link, block)
  BY <1>3 DEF Beyond
<1>5. ASSUME NEW b \in Held(link)
      PROVE  Beyond(link, b) <= block \/ block + got <= b
  <2>1. b \in Blocks(link) /\ b # block
    BY DEF Held
  <2>2. b \in Int /\ Beyond(link, b) \in Int
    BY <2>1, SoundNumbers
  <2>3. Beyond(link, b) <= block \/ Beyond(link, block) <= b
    BY <1>1, <2>1, BlocksApart
  <2> QED BY <1>3, <1>4, <2>2, <2>3
<1> QED BY <1>2, <1>3, <1>4, <1>5 DEF Vacant

(* A request that finds a block gets it, or the front of it.               *)
LEMMA MallocGood ==
    ASSUME NEW h, Good(h), NEW n \in Nat, n > 0,
           NEW block, block = FirstFit(h, BlockSize(n)), block # EndMarker
    PROVE  \E got : /\ IsGranted(Take(h, block, BlockSize(n)), h, block, got)
                    /\ IsPlace(h.link, n, block, got)
<1> PICK size : size = BlockSize(n)
  OBVIOUS
<1> PICK link : link = h.link
  OBVIOUS
<1> PICK free : free = h.xFreeBytesRemaining
  OBVIOUS
<1> PICK minimum : minimum = h.xMinimumEverFreeBytesRemaining
  OBVIOUS
<1>1. /\ h = HeapRecord(link, free, minimum) /\ Sound(link) /\ Merged(link)
      /\ free = Cardinality(FreeBytes(link))
  BY DEF Good, IsRecord
<1>2. /\ size \in Nat /\ size % portBYTE_ALIGNMENT = 0
      /\ size > xHeapStructSize /\ n + xHeapStructSize <= size
      /\ size <= n + xHeapStructSize + (portBYTE_ALIGNMENT - 1)
  BY BlockSizeMeans
<1>3. IsFirstFit(h, Leads(link), size, block)
  <2>1. IsFirstFit(h, Leads(h.link), size, FirstFit(h, size))
    BY <1>2, FitMeans
  <2> QED BY <2>1
<1>4. block \in Leads(link) \ {xStart} /\ block \in DOMAIN link /\ link[block].xBlockSize \in Nat
  <2>1. block \in Leads(link) \ {xStart}
    BY <1>3 DEF IsFirstFit
  <2>2. block \in DOMAIN link
    BY <2>1 DEF Leads
  <2> QED BY <1>1, <2>1, <2>2, SoundNumbers
<1>5. size <= link[block].xBlockSize
  <2>1. link[block].xBlockSize >= size
    BY <1>3 DEF IsFirstFit, Suits
  <2> QED BY <1>2, <1>4, <2>1
<1>6. PICK K, got : /\ IsTaken(K, link, block, got)
                    /\ got \in size..size + heapMINIMUM_BLOCK_SIZE /\ got <= link[block].xBlockSize
                    /\ IsRecord(Take(HeapRecord(link, free, minimum), block, size),
                                K, free - got, Lesser(free - got, minimum))
  BY <1>1, <1>2, <1>4, <1>5, TakeIs
<1>7. PICK g : g = Take(h, block, size)
  OBVIOUS
<1>8. IsRecord(g, K, free - got, Lesser(free - got, minimum))
  BY <1>1, <1>6, <1>7
<1>9. /\ Sound(K) /\ Merged(K)
      /\ Held(K) = Held(link) \cup {block} /\ K[block].xBlockSize = got
      /\ \A p \in Held(link) : K[p].xBlockSize = link[p].xBlockSize
      /\ Cardinality(FreeBytes(link)) = got + Cardinality(FreeBytes(K))
      /\ Cardinality(FreeBytes(K)) \in Nat
  BY <1>6 DEF IsTaken
<1>10. heapMINIMUM_BLOCK_SIZE \in Nat /\ xHeapStructSize \in Nat /\ portBYTE_ALIGNMENT \in Nat
  BY HeapLayout DEF heapMINIMUM_BLOCK_SIZE
<1>11. got \in Int /\ size <= got /\ got <= size + heapMINIMUM_BLOCK_SIZE
  BY <1>2, <1>6, <1>10
<1>12. free - got = Cardinality(FreeBytes(K))
  BY ONLY <1>1, <1>9, <1>11
<1>13. Good(g)
  BY ONLY <1>8, <1>9, <1>12, GoodRecord
<1>14. /\ g.link = K /\ g.xFreeBytesRemaining = free - got
       /\ g.xMinimumEverFreeBytesRemaining = Lesser(free - got, minimum)
  BY <1>8, RecordFields
<1>15. IsGranted(g, h, block, got)
  BY <1>9, <1>13, <1>14 DEF IsGranted
<1>16. Enough(n, got)
  BY <1>2, <1>10, <1>11 DEF Enough
<1>17. /\ Vacant(link, block, got)
       /\ block \in pucAlignedHeap..EndMarker - 1 /\ block % portBYTE_ALIGNMENT = 0
  BY <1>1, <1>4, <1>6, <1>11, FreeIsVacant
<1> QED BY <1>7, <1>15, <1>16, <1>17 DEF IsPlace

(* A request for which there is room is granted: the code's four           *)
(* conditions hold.                                                        *)
LEMMA RoomIsEnough ==
    ASSUME NEW h, Good(h), NEW n \in Nat, n > 0, NEW at \in Int,
           Vacant(h.link, at, n + xHeapStructSize)
    PROVE  /\ n < xBlockAllocatedBit /\ BlockSize(n) > 0
           /\ BlockSize(n) <= h.xFreeBytesRemaining
           /\ FirstFit(h, BlockSize(n)) # h.pxEnd
<1> PICK link : link = h.link
  OBVIOUS
<1> PICK size : size = BlockSize(n)
  OBVIOUS
<1>1. /\ h.pxEnd = EndMarker /\ Sound(link) /\ Merged(link)
      /\ h.xFreeBytesRemaining = Cardinality(FreeBytes(link))
  BY GoodFields
<1>2. size = RoundUp(n + xHeapStructSize) /\ size \in Nat /\ size > xHeapStructSize
  BY BlockSizeMeans
<1>3. /\ xHeapStructSize \in Nat /\ n + xHeapStructSize \in Nat /\ n + xHeapStructSize > 0
      /\ EndMarker \in Int /\ EndMarker < xBlockAllocatedBit /\ xBlockAllocatedBit \in Int
      /\ pucAlignedHeap \in Nat
  BY HeapLayout
<1>4. n < xBlockAllocatedBit
  <2>1. at >= pucAlignedHeap /\ at + (n + xHeapStructSize) <= EndMarker
    BY DEF Vacant
  <2> QED BY <1>3, <2>1
<1>5. PICK b \in Leads(link) \ {xStart} : size <= link[b].xBlockSize
  BY <1>1, <1>2, <1>3, RoomIsFound
<1>6. b \in Blocks(link) /\ b \in DOMAIN link /\ link[b].xBlockSize \in Nat /\ b \in Int /\ b < EndMarker
  <2>1. b \in Blocks(link) /\ b \in DOMAIN link
    BY <1>1, SoundNumbers DEF Leads
  <2> QED BY <1>1, <2>1, SoundNumbers
<1>7. size <= h.xFreeBytesRemaining
  <2> PICK S : S = Leads(link) \ {xStart}
    OBVIOUS
  <2>1. Sound(link) /\ AreBlocks(link, S) /\ b \in S
    BY <1>1, SoundNumbers DEF AreBlocks
  <2>2. /\ Cardinality(Extents(link, S)) =
               link[b].xBlockSize + Cardinality(Extents(link, S \ {b}))
        /\ Cardinality(Extents(link, S)) \in Nat /\ Cardinality(Extents(link, S \ {b})) \in Nat
    <3>1. OneMore(link, S, b)
      BY ONLY <2>1, FreeOneMore
    <3> QED BY ONLY <3>1 DEF OneMore
  <2>3. h.xFreeBytesRemaining = Cardinality(Extents(link, S))
    BY <1>1 DEF FreeBytes
  <2> QED BY ONLY <1>2, <1>5, <1>6, <2>2, <2>3
<1>8. FirstFit(h, size) # EndMarker
  <2>1. IsFirstFit(h, Leads(link), size, FirstFit(h, size))
    <3>1. size \in Int
      BY <1>2
    <3> QED BY <3>1, FitMeans
  <2>2. Suits(h, size, b)
    BY <1>2, <1>5, <1>6 DEF Suits
  <2> QED BY <1>5, <1>6, <2>1, <2>2 DEF IsFirstFit
<1> QED BY <1>1, <1>2, <1>3, <1>4, <1>7, <1>8

-----------------------------------------------------------------------------
(* Before the first request there is no list; what that request will find  *)
(* is the heap that prvHeapInit sets up.                                   *)
IsHeap(h) == IF h.pxEnd = NULL THEN DOMAIN h.link = {} ELSE Good(h)

(* The heap that the next request finds.                                   *)
ReadyHeap(h) == IF h.pxEnd = NULL THEN prvHeapInit ELSE h

(* The invariant: before the first request there is no header; from then   *)
(* on the headers tile the heap, the list is the chain of the free ones in *)
(* the order of their addresses, no two of them touch, and the count of    *)
(* free bytes is the number of the bytes in them.                          *)
HeapInv == IsHeap(heap)

(* The blocks that somebody holds, as Heap finds them.                     *)
HeldIn(h) ==
    {p \in DOMAIN h.link \ {xStart, h.pxEnd} :
        h.link[p].allocated \/ (~h.link[p].allocated /\ h.link[p].pxNextFreeBlock = NULL)}

(* The end marker is not at the null address.                              *)
LEMMA EndIsSomewhere == EndMarker # NULL
BY HeapLayout DEF NULL

(* In a good heap those are the blocks that are not on the list.           *)
LEMMA HeldInIsHeld ==
    ASSUME NEW h, Good(h)
    PROVE  HeldIn(h) = Held(h.link)
<1>1. h.pxEnd = EndMarker /\ Sound(h.link)
  BY GoodFields
<1>2. \A p \in Blocks(h.link) : /\ h.link[p].allocated \in BOOLEAN
                                /\ p \in Leads(h.link) => ~h.link[p].allocated
                                /\ p \in Leads(h.link) <=> h.link[p].pxNextFreeBlock # NULL
  <2>1. \A p \in Blocks(h.link) : p \in DOMAIN h.link
    BY DEF Blocks
  <2> QED BY <1>1, <2>1, SoundNumbers DEF Sound, Typed, Leads
<1> QED BY <1>1, <1>2 DEF HeldIn, Held, Blocks

(* What the next request will find is as it should be, and holds what is   *)
(* held.                                                                   *)
LEMMA ReadyIsGood ==
    ASSUME NEW h, IsHeap(h)
    PROVE  /\ Good(ReadyHeap(h)) /\ HeldIn(h) = Held(ReadyHeap(h).link)
           /\ h.pxEnd # NULL => ReadyHeap(h) = h
           /\ h.pxEnd = NULL => Held(ReadyHeap(h).link) = {} /\ ReadyHeap(h) = prvHeapInit
<1>1. CASE h.pxEnd = NULL
  <2>1. ReadyHeap(h) = prvHeapInit /\ DOMAIN h.link = {}
    BY <1>1 DEF ReadyHeap, IsHeap
  <2>2. HeldIn(h) = {}
    BY <2>1 DEF HeldIn
  <2> QED BY <1>1, <2>1, <2>2, InitGood
<1>2. CASE h.pxEnd # NULL
  <2>1. ReadyHeap(h) = h /\ Good(h)
    BY <1>2 DEF ReadyHeap, IsHeap
  <2> QED BY <1>2, <2>1, HeldInIsHeld
<1> QED BY <1>1, <1>2

(* A heap that is set up is one.                                           *)
LEMMA GoodIsHeap ==
    ASSUME NEW h, Good(h)
    PROVE  IsHeap(h) /\ ReadyHeap(h) = h /\ h.pxEnd # NULL
BY GoodFields, EndIsSomewhere DEF IsHeap, ReadyHeap

-----------------------------------------------------------------------------
(* What the actions do.                                                    *)

(* A request is granted.                                                   *)
Granted(g, h, n, pv) ==
    /\ n > 0
    /\ \E block, got : /\ IsGranted(g, h, block, got) /\ IsPlace(h.link, n, block, got)
                       /\ pv = block + xHeapStructSize

(* A request is refused.                                                   *)
Refused(g, h, n, pv) ==
    /\ g = h /\ pv = NULL
    /\ n > 0 => \A at \in Int : ~Vacant(h.link, at, n + xHeapStructSize)

(* A request is granted or refused.                                        *)
LEMMA MallocStep ==
    ASSUME HeapInv, NEW n \in WantedSizes, pvPortMalloc(n)
    PROVE  \E pv : /\ pvReturn' = [xWantedSize |-> n, pv |-> pv]
                   /\ \/ Granted(heap', ReadyHeap(heap), n, pv)
                      \/ Refused(heap', ReadyHeap(heap), n, pv)
<1> PICK h : h = ReadyHeap(heap)
  OBVIOUS
<1> PICK size : size = BlockSize(n)
  OBVIOUS
<1> PICK block : block = FirstFit(h, size)
  OBVIOUS
<1> DEFINE given == /\ n < xBlockAllocatedBit
                    /\ size > 0 /\ size <= h.xFreeBytesRemaining
                    /\ block # h.pxEnd
<1>1. n \in Nat
  BY HeapAssumption
<1>2. Good(h) /\ h.pxEnd = EndMarker
  BY ReadyIsGood, GoodFields DEF HeapInv
<1>3. /\ heap' = IF given THEN Take(h, block, size) ELSE h
      /\ pvReturn' = [xWantedSize |-> n, pv |-> IF given THEN block + xHeapStructSize ELSE NULL]
  BY DEF pvPortMalloc, ReadyHeap
<1>4. CASE given
  <2>1. n > 0
    <3>1. size > 0
      BY <1>4
    <3>2. ASSUME ~(n > 0)
          PROVE  FALSE
      <4>1. size = 0
        BY <3>2 DEF BlockSize
      <4> QED BY <3>1, <4>1
    <3> QED BY <3>2
  <2>2. PICK got : /\ IsGranted(Take(h, block, size), h, block, got)
                   /\ IsPlace(h.link, n, block, got)
    <3>1. block # EndMarker /\ block = FirstFit(h, BlockSize(n))
      BY <1>2, <1>4
    <3> HIDE DEF given
    <3> QED BY <1>1, <1>2, <2>1, <3>1, MallocGood
  <2>3. heap' = Take(h, block, size) /\ pvReturn' = [xWantedSize |-> n, pv |-> block + xHeapStructSize]
    BY <1>3, <1>4
  <2>4. Granted(heap', h, n, block + xHeapStructSize)
    BY <2>1, <2>2, <2>3 DEF Granted
  <2> HIDE DEF given
  <2> QED BY <2>3, <2>4
<1>5. CASE ~given
  <2>1. heap' = h /\ pvReturn' = [xWantedSize |-> n, pv |-> NULL]
    BY <1>3, <1>5
  <2>2. ASSUME n > 0, NEW at \in Int, Vacant(h.link, at, n + xHeapStructSize)
        PROVE  FALSE
    <3>1. /\ n < xBlockAllocatedBit /\ BlockSize(n) > 0
          /\ BlockSize(n) <= h.xFreeBytesRemaining
          /\ FirstFit(h, BlockSize(n)) # h.pxEnd
      <4> HIDE DEF given
      <4> QED BY <1>1, <1>2, <2>2, RoomIsEnough
    <3> QED BY <1>5, <3>1
  <2>3. Refused(heap', h, n, NULL)
    BY <2>1, <2>2 DEF Refused
  <2> HIDE DEF given
  <2> QED BY <2>1, <2>3
<1> QED BY <1>4, <1>5

(* g is h without a block that was held.                                   *)
Returned(g, h, block) ==
    /\ Good(g) /\ block \in Held(h.link) /\ Held(g.link) = Held(h.link) \ {block}
    /\ \A p \in Held(g.link) : g.link[p].xBlockSize = h.link[p].xBlockSize
    /\ g.xFreeBytesRemaining = h.xFreeBytesRemaining + h.link[block].xBlockSize
    /\ g.xMinimumEverFreeBytesRemaining = h.xMinimumEverFreeBytesRemaining

(* A block to be freed is one that is held, of a heap that is set up.      *)
LEMMA HeldBlock ==
    ASSUME HeapInv, NEW block, block \in Allocated \/ block \in Freed
    PROVE  /\ Good(heap) /\ block \in Held(heap.link)
           /\ block \in Freed => ~heap.link[block].allocated
<1>1. block \in HeldIn(heap)
  BY DEF Allocated, Freed, Headers, HeldIn
<1>2. heap.pxEnd # NULL
  BY <1>1, ReadyIsGood DEF HeapInv
<1>3. Good(heap) /\ block \in Held(heap.link)
  BY <1>1, <1>2, HeldInIsHeld DEF HeapInv, IsHeap
<1> QED BY <1>3 DEF Freed

(* vPortFree changes the mark only.                                        *)
LEMMA FreeStep ==
    ASSUME HeapInv, NEW block, vPortFree(block)
    PROVE  /\ Unmarked(heap', heap) /\ Good(heap) /\ pvReturn' = pvReturn
<1>1. Good(heap) /\ block \in Held(heap.link)
  BY HeldBlock DEF vPortFree
<1>2. heap' = [heap EXCEPT !.link[block].allocated = FALSE] /\ pvReturn' = pvReturn
  BY DEF vPortFree
<1> PICK h : h = heap
  OBVIOUS
<1> PICK g : g = heap'
  OBVIOUS
<1>3. Good(h) /\ block \in Held(h.link) /\ g = [h EXCEPT !.link[block].allocated = FALSE]
  BY <1>1, <1>2
<1>4. Unmarked(g, h)
  BY ONLY <1>3, FreeGood
<1> QED BY <1>1, <1>2, <1>4

(* PutBack takes the block from those that are held.                       *)
LEMMA PutBackStep ==
    ASSUME HeapInv, NEW block, PutBack(block)
    PROVE  /\ Returned(heap', heap, block) /\ Good(heap) /\ pvReturn' = NoReturn
<1>1. Good(heap) /\ block \in Held(heap.link) /\ ~heap.link[block].allocated
  BY HeldBlock DEF PutBack
<1>2. /\ heap' = prvInsertBlockIntoFreeList(
                     [heap EXCEPT !.xFreeBytesRemaining = @ + heap.link[block].xBlockSize], block)
      /\ pvReturn' = NoReturn
  BY DEF PutBack
<1> PICK h : h = heap
  OBVIOUS
<1> PICK g : g = heap'
  OBVIOUS
<1>3. /\ Good(h) /\ block \in Held(h.link) /\ ~h.link[block].allocated
      /\ g = prvInsertBlockIntoFreeList(
                 [h EXCEPT !.xFreeBytesRemaining = @ + h.link[block].xBlockSize], block)
  BY <1>1, <1>2
<1>4. /\ Good(g) /\ SameHeld(g.link, h.link, Held(h.link) \ {block})
      /\ g.xFreeBytesRemaining = h.xFreeBytesRemaining + h.link[block].xBlockSize
      /\ g.xMinimumEverFreeBytesRemaining = h.xMinimumEverFreeBytesRemaining
  BY ONLY <1>3, PutBackGood
<1>5. Returned(g, h, block)
  BY <1>3, <1>4 DEF Returned, SameHeld
<1> QED BY <1>1, <1>2, <1>5

-----------------------------------------------------------------------------
(* Nothing is set up at first.                                             *)
LEMMA HeapInvInit == HeapInit => HeapInv
BY DEF HeapInit, HeapInv, IsHeap

(* Every step keeps the invariant.                                         *)
LEMMA HeapInvNext ==
    ASSUME HeapInv, [HeapNext]_heapVars
    PROVE  HeapInv'
<1>1. ASSUME NEW n \in WantedSizes, pvPortMalloc(n)
      PROVE  HeapInv'
  <2>1. PICK pv : \/ Granted(heap', ReadyHeap(heap), n, pv)
                  \/ Refused(heap', ReadyHeap(heap), n, pv)
    BY <1>1, MallocStep
  <2>2. Good(heap')
    <3>1. CASE Granted(heap', ReadyHeap(heap), n, pv)
      BY <3>1 DEF Granted, IsGranted
    <3>2. CASE Refused(heap', ReadyHeap(heap), n, pv)
      <4>1. heap' = ReadyHeap(heap) /\ Good(ReadyHeap(heap))
        BY <3>2, ReadyIsGood DEF Refused, HeapInv
      <4> QED BY <4>1
    <3> QED BY <2>1, <3>1, <3>2
  <2> QED BY <2>2, GoodIsHeap DEF HeapInv
<1>2. ASSUME NEW b \in Headers, vPortFree(b)
      PROVE  HeapInv'
  <2>1. Good(heap')
    BY <1>2, FreeStep DEF Unmarked
  <2> QED BY <2>1, GoodIsHeap DEF HeapInv
<1>3. ASSUME NEW b \in Headers, PutBack(b)
      PROVE  HeapInv'
  <2>1. Good(heap')
    BY <1>3, PutBackStep DEF Returned
  <2> QED BY <2>1, GoodIsHeap DEF HeapInv
<1>4. CASE UNCHANGED heapVars
  BY <1>4 DEF heapVars, HeapInv
<1> QED BY <1>1, <1>2, <1>3, <1>4 DEF HeapNext

(* What the invariant says of the headers.                                 *)
LEMMA HeapInvExact == HeapInv => FreeListIsExact
<1> SUFFICES ASSUME HeapInv, heap.pxEnd # NULL
             PROVE  FreeListIsExact
  BY DEF FreeListIsExact
<1> PICK link : link = heap.link
  OBVIOUS
<1>1. /\ heap.pxEnd = EndMarker /\ Sound(link) /\ Merged(link) /\ Good(heap)
      /\ heap.xFreeBytesRemaining = Cardinality(FreeBytes(link))
  BY GoodFields DEF HeapInv, IsHeap
<1>2. Headers = Blocks(link) /\ FreeBlocks = Leads(link) \ {xStart}
  <2>1. Headers = Blocks(link)
    BY <1>1 DEF Headers, Blocks
  <2>2. Allocated \cup Freed = HeldIn(heap)
    BY DEF Allocated, Freed, Headers, HeldIn
  <2>3. HeldIn(heap) = Held(link)
    BY <1>1, HeldInIsHeld
  <2>4. Leads(link) \ {xStart} \subseteq Blocks(link) /\ xStart \notin Blocks(link)
    BY <1>1, SoundNumbers
  <2> QED BY <2>1, <2>2, <2>3, <2>4 DEF FreeBlocks, Held
<1>3. /\ heap.pxEnd + xHeapStructSize <= ucHeap + configTOTAL_HEAP_SIZE
      /\ pucAlignedHeap \in Headers \cup {heap.pxEnd}
  <2>1. pucAlignedHeap \in Blocks(link)
    BY <1>1 DEF Sound, Tiled
  <2> QED BY <1>1, <1>2, <2>1, HeapLayout
<1>4. ASSUME NEW b \in Headers
      PROVE  /\ b + SizeOf(b) \in Headers \cup {heap.pxEnd}
             /\ b % portBYTE_ALIGNMENT = 0 /\ SizeOf(b) > xHeapStructSize
             /\ \A c \in Headers : b < c => b + SizeOf(b) <= c
  BY <1>1, <1>2 DEF Sound, Tiled, Beyond, SizeOf
<1>5. ASSUME NEW p \in FreeBlocks \cup {xStart}
      PROVE  heap.link[p].pxNextFreeBlock = Min({c \in FreeBlocks \cup {heap.pxEnd} : c > p})
  <2> PICK S : S = {c \in FreeBlocks \cup {heap.pxEnd} : c > p}
    OBVIOUS
  <2> PICK s : s = Successor(link, p)
    OBVIOUS
  <2>1. p \in Leads(link) /\ p \in Int /\ p \in DOMAIN link
    BY <1>1, <1>2, SoundNumbers DEF Sound, Chain, Leads
  <2>2. Chain(link, Leads(link))
    BY <1>1 DEF Sound
  <2>3. /\ p < s /\ s \in (Leads(link) \ {xStart}) \cup {EndMarker} /\ s \in Int
        /\ \A q \in Leads(link) \cup {EndMarker} : p < q => s <= q
    BY <1>1, <2>1, <2>2, SoundNumbers DEF Chain
  <2>4. s \in S /\ S \subseteq Int /\ \A c \in S : s <= c
    <3>1. \A c \in Leads(link) : c \in Int
      BY <2>2 DEF Chain
    <3>2. S = {c \in (Leads(link) \ {xStart}) \cup {EndMarker} : c > p}
      BY <1>1, <1>2
    <3>3. EndMarker \in Int
      BY HeapLayout
    <3>4. s \in S /\ S \subseteq Int
      BY ONLY <2>1, <2>3, <3>1, <3>2, <3>3
    <3>5. \A c \in S : c \in Leads(link) \cup {EndMarker} /\ p < c
      BY ONLY <2>1, <3>1, <3>2, <3>3
    <3> QED BY ONLY <2>3, <3>4, <3>5
  <2>5. Min(S) = s
    <3>1. PICK m : m = Min(S)
      OBVIOUS
    <3>2. m \in S /\ \A c \in S : m <= c
      BY ONLY <2>4, <3>1 DEF Min
    <3> QED BY ONLY <2>4, <3>1, <3>2
  <2> QED BY <2>5 DEF Successor
<1>6. ASSUME NEW b \in FreeBlocks, NEW c \in FreeBlocks
      PROVE  b + SizeOf(b) # c
  <2>1. b \in DOMAIN link /\ c \in DOMAIN link
    BY <1>2 DEF Leads
  <2>2. ~Neighbours(link, b, c)
    BY <1>1, <2>1 DEF Merged
  <2> QED BY <1>2, <2>2 DEF Neighbours, Beyond, SizeOf
<1>7. heap.xFreeBytesRemaining = MapThenSumSet(SizeOf, FreeBlocks)
  <2> PICK S : S = Leads(link) \ {xStart}
    OBVIOUS
  <2>1. Apart(link, S, pucAlignedHeap, EndMarker)
    <3>1. S \in SUBSET Blocks(link)
      BY <1>1, SoundNumbers
    <3> QED BY <1>1, <3>1, AllApart
  <2>2. MapThenSumSet(LAMBDA b : link[b].xBlockSize, S) = Cardinality(Extents(link, S))
    <3>1. pucAlignedHeap \in Int /\ EndMarker \in Int
      BY HeapLayout
    <3> QED BY ONLY <2>1, <3>1, SumIsCount
  <2>3. MapThenSumSet(SizeOf, FreeBlocks) = MapThenSumSet(LAMBDA b : heap.link[b].xBlockSize, FreeBlocks)
    BY DEF SizeOf
  <2> QED BY <1>1, <1>2, <2>2, <2>3 DEF FreeBytes
<1> QED BY <1>3, <1>4, <1>5, <1>6, <1>7 DEF FreeListIsExact

(* After any sequence of pvPortMalloc and vPortFree, also when other tasks *)
(* run between the two steps of vPortFree: the blocks tile the heap, the   *)
(* list holds exactly the free ones, in the order of their addresses and   *)
(* merged, and xFreeBytesRemaining is the sum of their sizes.              *)
THEOREM FreeListStaysExact == HeapSpec => []FreeListIsExact
BY HeapInvInit, HeapInvNext, HeapInvExact, PTL DEF HeapSpec

-----------------------------------------------------------------------------
(* The pool that a heap stands for.                                        *)
Blocked(h) == [b \in Held(h.link) |-> h.link[b].xBlockSize]

(* What Pool's variables stand for are the figures of the heap that the    *)
(* next request will find.                                                 *)
LEMMA PoolIs ==
    ASSUME NEW h, IsHeap(h)
    PROVE  /\ [b \in HeldIn(h) |-> h.link[b].xBlockSize] = Blocked(ReadyHeap(h))
           /\ (IF h.pxEnd = NULL THEN EndMarker - pucAlignedHeap ELSE h.xFreeBytesRemaining)
                  = ReadyHeap(h).xFreeBytesRemaining
           /\ (IF h.pxEnd = NULL THEN EndMarker - pucAlignedHeap
               ELSE h.xMinimumEverFreeBytesRemaining)
                  = ReadyHeap(h).xMinimumEverFreeBytesRemaining
<1>1. HeldIn(h) = Held(ReadyHeap(h).link)
  BY ReadyIsGood
<1>2. CASE h.pxEnd = NULL
  <2>1. /\ ReadyHeap(h).xFreeBytesRemaining = EndMarker - pucAlignedHeap
        /\ ReadyHeap(h).xMinimumEverFreeBytesRemaining = EndMarker - pucAlignedHeap
    BY <1>2 DEF ReadyHeap, prvHeapInit
  <2>2. Held(ReadyHeap(h).link) = {} /\ HeldIn(h) = {}
    BY <1>1, <1>2, ReadyIsGood
  <2> QED BY <1>2, <2>1, <2>2 DEF Blocked
<1>3. CASE h.pxEnd # NULL
  <2>1. ReadyHeap(h) = h
    BY <1>3 DEF ReadyHeap
  <2> QED BY <1>1, <1>3, <2>1 DEF Blocked
<1> QED BY <1>2, <1>3

(* The variables of the pool.                                              *)
MappedBlocks == [b \in Allocated \cup Freed |-> SizeOf(b)]
MappedRemaining ==
    IF heap.pxEnd = NULL THEN EndMarker - pucAlignedHeap ELSE heap.xFreeBytesRemaining
MappedMinimum ==
    IF heap.pxEnd = NULL THEN EndMarker - pucAlignedHeap
    ELSE heap.xMinimumEverFreeBytesRemaining

(* They are what the heap that the next request finds says,                *)
LEMMA MappedIs ==
    ASSUME HeapInv
    PROVE  /\ MappedBlocks = Blocked(ReadyHeap(heap))
           /\ MappedRemaining = ReadyHeap(heap).xFreeBytesRemaining
           /\ MappedMinimum = ReadyHeap(heap).xMinimumEverFreeBytesRemaining
<1>1. Allocated \cup Freed = HeldIn(heap)
  BY DEF Allocated, Freed, Headers, HeldIn
<1> PICK h : h = heap
  OBVIOUS
<1>2. MappedBlocks = [b \in HeldIn(h) |-> h.link[b].xBlockSize]
  BY <1>1 DEF MappedBlocks, SizeOf
<1>3. IsHeap(h)
  BY DEF HeapInv
<1> QED BY <1>2, <1>3, PoolIs DEF MappedRemaining, MappedMinimum

(* and after a step what the heap after it says.                           *)
LEMMA MappedNextIs ==
    ASSUME HeapInv'
    PROVE  /\ MappedBlocks' = Blocked(ReadyHeap(heap'))
           /\ MappedRemaining' = ReadyHeap(heap').xFreeBytesRemaining
           /\ MappedMinimum' = ReadyHeap(heap').xMinimumEverFreeBytesRemaining
<1>1. (Allocated \cup Freed)' = HeldIn(heap')
  BY DEF Allocated, Freed, Headers, HeldIn
<1> PICK h : h = heap'
  OBVIOUS
<1>2. MappedBlocks' = [b \in HeldIn(h) |-> h.link[b].xBlockSize]
  BY <1>1 DEF MappedBlocks, SizeOf
<1>3. IsHeap(h)
  BY DEF HeapInv
<1> QED BY <1>2, <1>3, PoolIs DEF MappedRemaining, MappedMinimum

(* An allocation of the pool.                                              *)
PoolAllocates(B, C, r, s, m, k, n, pv) ==
    /\ n > 0
    /\ \E at \in {at \in pucAlignedHeap..EndMarker - 1 : at % portBYTE_ALIGNMENT = 0} :
        /\ pv = at + xHeapStructSize
        /\ \E size \in n + xHeapStructSize..
                       n + xHeapStructSize + (portBYTE_ALIGNMENT - 1) + heapMINIMUM_BLOCK_SIZE :
            /\ s = r - size
            /\ at >= pucAlignedHeap /\ at + size <= EndMarker
            /\ \A b \in DOMAIN B : b + B[b] <= at \/ at + size <= b
            /\ C = [b \in DOMAIN B \cup {at} |-> IF b = at THEN size ELSE B[b]]
    /\ k = IF s < m THEN s ELSE m

(* A request that is granted is an allocation.                             *)
LEMMA GrantedAllocates ==
    ASSUME NEW h, NEW g, NEW n, NEW pv, Granted(g, h, n, pv)
    PROVE  PoolAllocates(Blocked(h), Blocked(g), h.xFreeBytesRemaining, g.xFreeBytesRemaining,
                         h.xMinimumEverFreeBytesRemaining, g.xMinimumEverFreeBytesRemaining, n, pv)
<1>1. PICK at, size : /\ IsGranted(g, h, at, size) /\ IsPlace(h.link, n, at, size)
                      /\ pv = at + xHeapStructSize
  BY DEF Granted
<1> PICK B : B = Blocked(h)
  OBVIOUS
<1>2. /\ DOMAIN B = Held(h.link) /\ \A b \in Held(h.link) : B[b] = h.link[b].xBlockSize
  BY DEF Blocked
<1>3. /\ n > 0 /\ at \in pucAlignedHeap..EndMarker - 1 /\ at % portBYTE_ALIGNMENT = 0
      /\ size \in n + xHeapStructSize..
                  n + xHeapStructSize + (portBYTE_ALIGNMENT - 1) + heapMINIMUM_BLOCK_SIZE
  BY <1>1 DEF IsPlace, Enough, Granted
<1>4. /\ at >= pucAlignedHeap /\ at + size <= EndMarker
      /\ \A b \in DOMAIN B : b + B[b] <= at \/ at + size <= b
  BY <1>1, <1>2 DEF IsPlace, Vacant, Beyond
<1>5. Blocked(g) = [b \in DOMAIN B \cup {at} |-> IF b = at THEN size ELSE B[b]]
  <2>1. /\ Held(g.link) = DOMAIN B \cup {at} /\ g.link[at].xBlockSize = size
        /\ \A b \in DOMAIN B : g.link[b].xBlockSize = B[b]
    BY <1>1, <1>2 DEF IsGranted
  <2> QED BY <2>1 DEF Blocked
<1>6. /\ g.xFreeBytesRemaining = h.xFreeBytesRemaining - size
      /\ g.xMinimumEverFreeBytesRemaining =
             IF g.xFreeBytesRemaining < h.xMinimumEverFreeBytesRemaining
             THEN g.xFreeBytesRemaining ELSE h.xMinimumEverFreeBytesRemaining
  BY <1>1 DEF IsGranted, Lesser
<1> QED BY <1>1, <1>3, <1>4, <1>5, <1>6 DEF PoolAllocates

(* A refusal of the pool.                                                  *)
PoolRefuses(B, n, pv) ==
    /\ pv = NULL
    /\ n > 0 => \A at \in {at \in pucAlignedHeap..EndMarker - 1 : at % portBYTE_ALIGNMENT = 0} :
                   ~(/\ at >= pucAlignedHeap /\ at + (n + xHeapStructSize) <= EndMarker
                     /\ \A b \in DOMAIN B : b + B[b] <= at \/ at + (n + xHeapStructSize) <= b)

(* One that is refused is a refusal.                                       *)
LEMMA RefusedRefuses ==
    ASSUME NEW h, NEW g, NEW n, NEW pv, Refused(g, h, n, pv)
    PROVE  g = h /\ PoolRefuses(Blocked(h), n, pv)
<1> PICK B : B = Blocked(h)
  OBVIOUS
<1>1. DOMAIN B = Held(h.link) /\ \A b \in Held(h.link) : B[b] = h.link[b].xBlockSize
  BY DEF Blocked
<1>2. ASSUME n > 0, NEW at \in pucAlignedHeap..EndMarker - 1,
             at >= pucAlignedHeap, at + (n + xHeapStructSize) <= EndMarker,
             \A b \in DOMAIN B : b + B[b] <= at \/ at + (n + xHeapStructSize) <= b
      PROVE  FALSE
  <2>1. Vacant(h.link, at, n + xHeapStructSize)
    BY <1>1, <1>2 DEF Vacant, Beyond
  <2>2. at \in Int
    OBVIOUS
  <2> QED BY <1>2, <2>1, <2>2 DEF Refused
<1> QED BY <1>2 DEF Refused, PoolRefuses

(* The initial state is the whole pool.                                    *)
LEMMA PoolInit == HeapInit => Pool!Init
<1> SUFFICES ASSUME HeapInit
             PROVE  Pool!Init
  OBVIOUS
<1>1. heap.pxEnd = NULL /\ DOMAIN heap.link = {} /\ pvReturn = NoReturn
  BY DEF HeapInit
<1>2. Allocated \cup Freed = {}
  BY <1>1 DEF Allocated, Freed, Headers
<1>3. [b \in Allocated \cup Freed |-> SizeOf(b)] = [at \in {} |-> 0]
  BY <1>2
<1> QED BY <1>1, <1>3 DEF Pool!Init, Pool!NoRequest, Pool!Nothing, NoReturn, NULL

(* A request is an allocation or a refusal.                                *)
LEMMA PoolMalloc ==
    ASSUME HeapInv, HeapInv', NEW n \in WantedSizes, pvPortMalloc(n)
    PROVE  Pool!Allocate(n) \/ Pool!Refuse(n)
<1>1. PICK pv : /\ pvReturn' = [xWantedSize |-> n, pv |-> pv]
                /\ \/ Granted(heap', ReadyHeap(heap), n, pv)
                   \/ Refused(heap', ReadyHeap(heap), n, pv)
  BY MallocStep
<1> PICK h : h = ReadyHeap(heap)
  OBVIOUS
<1> PICK g : g = heap'
  OBVIOUS
<1>2. Good(h) /\ Good(g)
  <2>1. Good(h)
    BY ReadyIsGood DEF HeapInv
  <2> QED BY <1>1, <2>1 DEF Granted, IsGranted, Refused
<1>3. ReadyHeap(heap') = g
  BY <1>2, GoodIsHeap
<1>4. /\ MappedBlocks = Blocked(h) /\ MappedBlocks' = Blocked(g)
      /\ MappedRemaining = h.xFreeBytesRemaining /\ MappedRemaining' = g.xFreeBytesRemaining
      /\ MappedMinimum = h.xMinimumEverFreeBytesRemaining
      /\ MappedMinimum' = g.xMinimumEverFreeBytesRemaining
  BY <1>3, MappedIs, MappedNextIs
<1>5. CASE Granted(g, h, n, pv)
  <2>1. PoolAllocates(MappedBlocks, MappedBlocks', MappedRemaining, MappedRemaining',
                      MappedMinimum, MappedMinimum', n, pv)
    BY <1>4, <1>5, GrantedAllocates
  <2>2. Pool!Allocate(n)
    BY ONLY <1>1, <2>1
    DEF PoolAllocates, MappedBlocks, MappedRemaining, MappedMinimum,
        Pool!Allocate, Pool!Places, Pool!Vacant
  <2> QED BY <2>2
<1>6. CASE Refused(g, h, n, pv)
  <2>1. PoolRefuses(MappedBlocks, n, pv) /\ g = h
    BY <1>4, <1>6, RefusedRefuses
  <2>2. /\ MappedBlocks' = MappedBlocks /\ MappedRemaining' = MappedRemaining
        /\ MappedMinimum' = MappedMinimum
    BY ONLY <1>4, <2>1
  <2>3. Pool!Refuse(n)
    BY ONLY <1>1, <2>1, <2>2
    DEF PoolRefuses, MappedBlocks, MappedRemaining, MappedMinimum,
        Pool!Refuse, Pool!Places, Pool!Vacant, Pool!Nothing, NULL
  <2> QED BY <2>3
<1> QED BY <1>1, <1>5, <1>6

(* The mark changes nothing of the pool.                                   *)
LEMMA PoolMark ==
    ASSUME HeapInv, HeapInv', NEW block, vPortFree(block)
    PROVE  UNCHANGED Pool!vars
<1> PICK h : h = heap
  OBVIOUS
<1> PICK g : g = heap'
  OBVIOUS
<1>1. Unmarked(g, h) /\ Good(h) /\ pvReturn' = pvReturn
  BY FreeStep
<1>2. ReadyHeap(heap) = h /\ ReadyHeap(heap') = g
  BY <1>1, GoodIsHeap DEF Unmarked
<1>3. Blocked(g) = Blocked(h)
  BY <1>1 DEF Unmarked, Blocked
<1>4. /\ MappedBlocks' = MappedBlocks /\ MappedRemaining' = MappedRemaining
      /\ MappedMinimum' = MappedMinimum
  BY <1>1, <1>2, <1>3, MappedIs, MappedNextIs DEF Unmarked
<1> QED BY ONLY <1>1, <1>4 DEF MappedBlocks, MappedRemaining, MappedMinimum, Pool!vars

(* Putting the block back is what frees it.                                *)
LEMMA PoolPutBack ==
    ASSUME HeapInv, HeapInv', NEW block, PutBack(block)
    PROVE  block \in DOMAIN MappedBlocks /\ Pool!Free(block)
<1> PICK h : h = heap
  OBVIOUS
<1> PICK g : g = heap'
  OBVIOUS
<1>1. Returned(g, h, block) /\ Good(h) /\ pvReturn' = NoReturn
  BY PutBackStep
<1>2. ReadyHeap(heap) = h /\ ReadyHeap(heap') = g
  BY <1>1, GoodIsHeap DEF Returned
<1> PICK B : B = Blocked(h)
  OBVIOUS
<1>3. /\ DOMAIN B = Held(h.link) /\ block \in DOMAIN B
      /\ \A b \in DOMAIN B : B[b] = h.link[b].xBlockSize
  BY <1>1 DEF Returned, Blocked
<1>4. Blocked(g) = [c \in DOMAIN B \ {block} |-> B[c]]
  <2>1. /\ Held(g.link) = DOMAIN B \ {block}
        /\ \A b \in DOMAIN B \ {block} : g.link[b].xBlockSize = B[b]
    BY <1>1, <1>3 DEF Returned
  <2> QED BY <2>1 DEF Blocked
<1>5. /\ MappedBlocks = B /\ MappedBlocks' = [c \in DOMAIN B \ {block} |-> B[c]]
      /\ MappedRemaining' = MappedRemaining + B[block] /\ MappedMinimum' = MappedMinimum
  BY <1>1, <1>2, <1>3, <1>4, MappedIs, MappedNextIs DEF Returned
<1>6. Pool!Free(block)
  BY ONLY <1>1, <1>5
  DEF MappedBlocks, MappedRemaining, MappedMinimum,
      Pool!Free, Pool!NoRequest, Pool!Nothing, NoReturn, NULL
<1> QED BY <1>3, <1>5, <1>6

(* Every step is one of the pool, or changes nothing of it.                *)
LEMMA PoolNext ==
    ASSUME HeapInv, HeapInv', [HeapNext]_heapVars
    PROVE  [Pool!Next]_(Pool!vars)
<1>1. ASSUME NEW n \in WantedSizes, pvPortMalloc(n)
      PROVE  Pool!Next
  BY <1>1, PoolMalloc DEF Pool!Next
<1>2. ASSUME NEW b \in Headers, vPortFree(b)
      PROVE  UNCHANGED Pool!vars
  BY <1>2, PoolMark
<1>3. ASSUME NEW b \in Headers, PutBack(b)
      PROVE  Pool!Next
  <2>1. b \in DOMAIN MappedBlocks /\ Pool!Free(b)
    BY <1>3, PoolPutBack
  <2> QED BY ONLY <2>1 DEF Pool!Next, MappedBlocks
<1>4. CASE UNCHANGED heapVars
  BY <1>4 DEF heapVars, Pool!vars, Allocated, Freed, Headers, SizeOf
<1> QED BY <1>1, <1>2, <1>3, <1>4 DEF HeapNext

(* heap_4 implements the pool: what pvPortMalloc gives was nobody's, it is *)
(* refused only if no stretch of free memory is large enough, and the two  *)
(* figures of free bytes are exact.                                        *)
THEOREM RefinesPool == HeapSpec => ImplementsPool
BY HeapInvInit, HeapInvNext, PoolInit, PoolNext, PTL DEF HeapSpec, ImplementsPool, Pool!Spec
=============================================================================
