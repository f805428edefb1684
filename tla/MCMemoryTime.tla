---------------------------- MODULE MCMemoryTime ----------------------------
(* Queues of one to four items of three values; a heap of 144 bytes; and a *)
(* counter of two bits with one task that delays and waits and one         *)
(* periodic.  The three share no state, so that interleaving their steps   *)
(* would add nothing: each is checked while the others have not begun.     *)
EXTENDS QueueStorage, Heap, TickDelay

CONSTANTS a, b, c, waiter, periodic

MCItem == {a, b, c}
PeriodOf == [t \in Task |-> IF t = periodic THEN 2 ELSE 0]

(* One of the states the queue may start in.                               *)
QueueAtRest ==
    /\ uxLength = 1 /\ uxMessagesWaiting = 0
    /\ storage[0] = a /\ pvBuffer = a

HeapAtRest == heap.pxEnd = NULL

MCInit == StorageInit /\ HeapInit /\ Init

MCNext ==
    \/ HeapAtRest /\ Init /\ StorageNext /\ UNCHANGED <<heapVars, vars>>
    \/ QueueAtRest /\ Init /\ HeapNext /\ UNCHANGED <<storageVars, vars>>
    \/ QueueAtRest /\ HeapAtRest /\ Next /\ UNCHANGED <<storageVars, heapVars>>

MCSpec == MCInit /\ [][MCNext]_<<storageVars, heapVars, vars>>
=============================================================================
