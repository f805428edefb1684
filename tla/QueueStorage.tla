---------------------------- MODULE QueueStorage ----------------------------
(***************************************************************************)
(* The storage area of a queue of FreeRTOS_Source/queue.c: a ring buffer   *)
(* with a pointer to the next free slot and a pointer to the slot last     *)
(* read, moved by memcpy-and-advance code that runs in a critical section  *)
(* of a task or of an interrupt handler, so that each call is one step.    *)
(*                                                                         *)
(* A pointer is the number of items between pcHead and where it points:    *)
(* pcHead is 0 and pcTail is uxLength.  A call that finds the queue full   *)
(* or empty leaves all of this alone.  Queues of items of size zero        *)
(* (semaphores) have only uxMessagesWaiting, which Queue models.           *)
(***************************************************************************)
EXTENDS Integers, Sequences

CONSTANTS
    Item,     \* the values that can be sent
    Lengths   \* the lengths a queue can be created with

ASSUME StorageAssumption == Item # {} /\ Lengths \subseteq Nat \ {0}

VARIABLES
    uxLength,
    storage,            \* the slots, uninitialised memory at first
    pcWriteTo,          \* the next free slot
    pcReadFrom,         \* the slot last read
    uxMessagesWaiting,
    pvBuffer            \* what the last receive or peek delivered

storageVars == <<uxLength, storage, pcWriteTo, pcReadFrom, uxMessagesWaiting, pvBuffer>>

pcHead == 0
pcTail == uxLength

StorageTypeOK ==
    /\ uxLength \in Lengths
    /\ storage \in [pcHead..pcTail - 1 -> Item]
    /\ pcWriteTo \in pcHead..pcTail - 1
    /\ pcReadFrom \in pcHead..pcTail - 1
    /\ uxMessagesWaiting \in 0..uxLength
    /\ pvBuffer \in Item

StorageInit ==
    /\ uxLength \in Lengths
    /\ storage \in [pcHead..pcTail - 1 -> Item]
    /\ pcWriteTo = pcHead
    /\ pcReadFrom = uxLength - 1
    /\ uxMessagesWaiting = 0
    /\ pvBuffer \in Item

-----------------------------------------------------------------------------
(* Mutants of Forwards and Backwards: the end of the area is one slot      *)
(* late; the slot before the first is the first.                           *)
ForwardsLate(p) == IF p + 1 > pcTail THEN pcHead ELSE p + 1
BackwardsStays(p) == IF p - 1 < pcHead THEN pcHead ELSE p - 1

(* Moving a pointer by one item, from one end of the area to the other.    *)
Forwards(p) == IF p + 1 >= pcTail THEN pcHead ELSE p + 1
Backwards(p) == IF p - 1 < pcHead THEN pcTail - 1 ELSE p - 1

(* prvCopyDataToQueue.  Sending to the front and overwriting use the slot  *)
(* last read and step back from it.                                        *)
CopyToBack(x) ==
    /\ storage' = [storage EXCEPT ![pcWriteTo] = x]
    /\ pcWriteTo' = Forwards(pcWriteTo)
    /\ UNCHANGED pcReadFrom

CopyToFront(x) ==
    /\ storage' = [storage EXCEPT ![pcReadFrom] = x]
    /\ pcReadFrom' = Backwards(pcReadFrom)
    /\ UNCHANGED pcWriteTo

(* prvCopyDataFromQueue reads the slot after the one last read.            *)
CopyFromQueue == pvBuffer' = storage[Forwards(pcReadFrom)]

-----------------------------------------------------------------------------
SendToBack(x) ==
    /\ uxMessagesWaiting < uxLength
    /\ CopyToBack(x)
    /\ uxMessagesWaiting' = uxMessagesWaiting + 1
    /\ UNCHANGED <<uxLength, pvBuffer>>

SendToFront(x) ==
    /\ uxMessagesWaiting < uxLength
    /\ CopyToFront(x)
    /\ uxMessagesWaiting' = uxMessagesWaiting + 1
    /\ UNCHANGED <<uxLength, pvBuffer>>

(* Only a queue of length one may be overwritten (the configASSERT of      *)
(* xQueueGenericSend); the item it holds, if any, is not counted twice.    *)
Overwrite(x) ==
    /\ uxLength = 1
    /\ CopyToFront(x)
    /\ uxMessagesWaiting' = (IF uxMessagesWaiting > 0 THEN uxMessagesWaiting - 1
                             ELSE uxMessagesWaiting) + 1
    /\ UNCHANGED <<uxLength, pvBuffer>>

Receive ==
    /\ uxMessagesWaiting > 0
    /\ CopyFromQueue
    /\ pcReadFrom' = Forwards(pcReadFrom)
    /\ uxMessagesWaiting' = uxMessagesWaiting - 1
    /\ UNCHANGED <<uxLength, storage, pcWriteTo>>

(* Mutant of Peek: the original read position is not restored.             *)
PeekMoves ==
    /\ uxMessagesWaiting > 0
    /\ CopyFromQueue
    /\ pcReadFrom' = Forwards(pcReadFrom)
    /\ UNCHANGED <<uxLength, storage, pcWriteTo, uxMessagesWaiting>>

Peek ==
    /\ uxMessagesWaiting > 0
    /\ CopyFromQueue
    /\ UNCHANGED <<uxLength, storage, pcWriteTo, pcReadFrom, uxMessagesWaiting>>

Reset ==
    /\ uxMessagesWaiting' = 0
    /\ pcWriteTo' = pcHead
    /\ pcReadFrom' = uxLength - 1
    /\ UNCHANGED <<uxLength, storage, pvBuffer>>

StorageNext ==
    \/ \E x \in Item : SendToBack(x) \/ SendToFront(x) \/ Overwrite(x)
    \/ Receive
    \/ Peek
    \/ Reset

StorageSpec == StorageInit /\ [][StorageNext]_storageVars

-----------------------------------------------------------------------------
(* A place at most two turns round the ring.                               *)
Wrap(k) ==
    IF k < uxLength THEN k
    ELSE IF k < 2 * uxLength THEN k - uxLength
    ELSE k - 2 * uxLength

(* The slot of the i-th item.                                              *)
Slot(i) == Wrap(pcReadFrom + i)

(* The write pointer is right behind the last item, whichever way round    *)
(* the ring the items lie.  Nothing in the code compares the two pointers  *)
(* or derives one from the other: sends to the front, overwrites and       *)
(* resets must leave them in step with the count.                          *)
WriteFollowsItems == pcWriteTo = Slot(uxMessagesWaiting + 1)

(* The ring buffer implements the bounded sequence: no item is lost,       *)
(* duplicated, reordered or overwritten before it is received, and what is *)
(* delivered is what was sent.                                             *)
Items == [i \in 1..uxMessagesWaiting |-> storage[Slot(i)]]

Deque == INSTANCE DequeSpec WITH items <- Items

ImplementsDeque == Deque!Spec
=============================================================================
