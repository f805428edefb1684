-------------------------------- MODULE Heap --------------------------------
(***************************************************************************)
(* FreeRTOS_Source/portable/MemMang/heap_4.c: first fit over a list of     *)
(* free blocks in the order of their addresses, neighbours merged when a   *)
(* block is freed.  A call works with the scheduler suspended and no       *)
(* handler may call it, so that its walk of the list is one step; only     *)
(* vPortFree touches the block before that, in a step of its own.          *)
(*                                                                         *)
(* An address is a number of bytes and `link' holds the BlockLink_t at the *)
(* addresses where there is one: a header that was merged into another     *)
(* block is ordinary memory again and is not kept, so that a step which    *)
(* reads one is an error of the run.                                       *)
(***************************************************************************)
EXTENDS Integers, FiniteSetsExt

CONSTANTS
    ucHeap,                 \* the address of the array
    configTOTAL_HEAP_SIZE,  \* its size
    portBYTE_ALIGNMENT,
    xHeapStructSize,        \* bytes of a BlockLink_t, a multiple of the alignment
    xBlockAllocatedBit,     \* the top bit of a size_t
    WantedSizes             \* what the callers ask for

ASSUME HeapAssumption ==
    /\ ucHeap \in Nat \ {0} /\ configTOTAL_HEAP_SIZE \in Nat
    /\ portBYTE_ALIGNMENT \in Nat \ {0} /\ xHeapStructSize \in Nat \ {0}
    /\ xHeapStructSize % portBYTE_ALIGNMENT = 0
    /\ xBlockAllocatedBit \in Nat /\ ucHeap + configTOTAL_HEAP_SIZE < xBlockAllocatedBit
    /\ WantedSizes \subseteq 0..2 * xBlockAllocatedBit - 1

VARIABLES
    heap,     \* the headers, pxEnd, xFreeBytesRemaining, xMinimumEverFreeBytesRemaining
    pvReturn  \* the last request and what it got, until something is freed

heapVars == <<heap, pvReturn>>

NULL == 0
xStart == -1   \* the list head lies outside the heap

heapMINIMUM_BLOCK_SIZE == 2 * xHeapStructSize

BlockLink(next, size, allocated) ==
    [pxNextFreeBlock |-> next, xBlockSize |-> size, allocated |-> allocated]

NoReturn == [xWantedSize |-> 0, pv |-> NULL]

(* Nothing is set up before the first request.                             *)
HeapInit ==
    /\ heap = [link |-> [p \in {} |-> BlockLink(NULL, 0, FALSE)], pxEnd |-> NULL,
               xFreeBytesRemaining |-> 0, xMinimumEverFreeBytesRemaining |-> 0]
    /\ pvReturn = NoReturn

-----------------------------------------------------------------------------
RoundDown(n) == n - (n % portBYTE_ALIGNMENT)
RoundUp(n) == RoundDown(n + portBYTE_ALIGNMENT - 1)

pucAlignedHeap == RoundUp(ucHeap)

(* Where the marker at the end of the list goes.                           *)
EndMarker ==
    LET xTotalHeapSize == configTOTAL_HEAP_SIZE - (pucAlignedHeap - ucHeap)
    IN  RoundDown(pucAlignedHeap + xTotalHeapSize - xHeapStructSize)

(* The array has room for the marker and a block: prvHeapInit does not ask. *)
ASSUME HeapHoldsABlock == EndMarker - pucAlignedHeap > xHeapStructSize

prvHeapInit ==
    LET size == EndMarker - pucAlignedHeap
    IN  [link |-> [p \in {xStart, pucAlignedHeap, EndMarker} |->
                     CASE p = xStart         -> BlockLink(pucAlignedHeap, 0, FALSE)
                       [] p = pucAlignedHeap -> BlockLink(EndMarker, size, FALSE)
                       [] p = EndMarker      -> BlockLink(NULL, 0, FALSE)],
         pxEnd |-> EndMarker,
         xFreeBytesRemaining |-> size, xMinimumEverFreeBytesRemaining |-> size]

(* The headers that lead on to another, from which a walk may go on.       *)
Linked(h) == {p \in DOMAIN h.link : h.link[p].pxNextFreeBlock # NULL}

(* The last block of the list before the address.                          *)
Before(h, block) ==
    LET walk[p \in Linked(h)] ==
            IF h.link[p].pxNextFreeBlock < block THEN walk[h.link[p].pxNextFreeBlock] ELSE p
    IN  walk[xStart]

(* Mutant of Merges: the end marker is merged like any block.              *)
MergesMarker(h, block, size, after) == block + size = after

(* A block of this size grows by the one that follows it in the list: they *)
(* touch, and that is not the end marker.                                  *)
Merges(h, block, size, after) == block + size = after /\ after # h.pxEnd

(* A block enters the list behind pxIterator, merged with it if they touch *)
(* and then with the block that follows.                                   *)
prvInsertBlockIntoFreeList(h, block) ==
    LET pxIterator == Before(h, block)
        after      == h.link[pxIterator].pxNextFreeBlock
        joinsFront == pxIterator + h.link[pxIterator].xBlockSize = block
        at         == IF joinsFront THEN pxIterator ELSE block
        grown      == h.link[block].xBlockSize
                        + (IF joinsFront THEN h.link[pxIterator].xBlockSize ELSE 0)
        joinsBack  == Merges(h, at, grown, after)
        merged     == (IF joinsFront THEN {block} ELSE {}) \cup (IF joinsBack THEN {after} ELSE {})
        result     == IF joinsBack
                      THEN BlockLink(h.link[after].pxNextFreeBlock,
                                     grown + h.link[after].xBlockSize, FALSE)
                      ELSE BlockLink(after, grown, FALSE)
    IN  [h EXCEPT !.link =
            [p \in DOMAIN @ \ merged |->
                CASE p = at                            -> result
                  [] p = pxIterator /\ pxIterator # at -> [@[p] EXCEPT !.pxNextFreeBlock = at]
                  [] OTHER                             -> @[p]]]

-----------------------------------------------------------------------------
(* The size of the block a request needs: with its header, aligned.        *)
BlockSize(xWantedSize) ==
    IF xWantedSize > 0 THEN RoundUp(xWantedSize + xHeapStructSize) ELSE 0

(* Mutant of FirstFit: a block that fits exactly is passed over.           *)
FirstLarger(h, size) ==
    LET walk[p \in Linked(h) \cup {h.pxEnd}] ==
            IF /\ h.link[p].xBlockSize <= size
               /\ h.link[p].pxNextFreeBlock # NULL
            THEN walk[h.link[p].pxNextFreeBlock]
            ELSE p
    IN  walk[h.link[xStart].pxNextFreeBlock]

(* The first block of the list that is large enough, or the end marker.    *)
FirstFit(h, size) ==
    LET walk[p \in Linked(h) \cup {h.pxEnd}] ==
            IF /\ h.link[p].xBlockSize < size
               /\ h.link[p].pxNextFreeBlock # NULL
            THEN walk[h.link[p].pxNextFreeBlock]
            ELSE p
    IN  walk[h.link[xStart].pxNextFreeBlock]

Unlink(h, block) ==
    LET pxPreviousBlock == CHOOSE p \in DOMAIN h.link : h.link[p].pxNextFreeBlock = block
    IN  [h EXCEPT !.link[pxPreviousBlock].pxNextFreeBlock = h.link[block].pxNextFreeBlock]

(* What is left of a block goes back to the list unless it is too small.   *)
Split(h, block, size) ==
    LET left == h.link[block].xBlockSize - size
        new  == block + size
        cut  == [p \in DOMAIN h.link \cup {new} |->
                    CASE p = new   -> BlockLink(NULL, left, FALSE)
                      [] p = block -> [h.link[p] EXCEPT !.xBlockSize = size]
                      [] OTHER     -> h.link[p]]
    IN  IF left > heapMINIMUM_BLOCK_SIZE
        THEN prvInsertBlockIntoFreeList([h EXCEPT !.link = cut], new)
        ELSE h

(* A free block leaves the list and becomes the application's.             *)
Take(h, block, size) ==
    LET cut  == Split(Unlink(h, block), block, size)
        free == cut.xFreeBytesRemaining - cut.link[block].xBlockSize
    IN  [cut EXCEPT !.link[block] = BlockLink(NULL, @.xBlockSize, TRUE),
                    !.xFreeBytesRemaining = free,
                    !.xMinimumEverFreeBytesRemaining = IF free < @ THEN free ELSE @]

pvPortMalloc(xWantedSize) ==
    LET h     == IF heap.pxEnd = NULL THEN prvHeapInit ELSE heap
        size  == BlockSize(xWantedSize)
        block == FirstFit(h, size)
        given == /\ xWantedSize < xBlockAllocatedBit
                 /\ size > 0 /\ size <= h.xFreeBytesRemaining
                 /\ block # h.pxEnd
    IN  /\ heap' = IF given THEN Take(h, block, size) ELSE h
        /\ pvReturn' = [xWantedSize |-> xWantedSize,
                        pv |-> IF given THEN block + xHeapStructSize ELSE NULL]

Headers == DOMAIN heap.link \ {xStart, heap.pxEnd}
Allocated == {b \in Headers : heap.link[b].allocated}
Freed == {b \in Headers : ~heap.link[b].allocated /\ heap.link[b].pxNextFreeBlock = NULL}
FreeBlocks == Headers \ (Allocated \cup Freed)

(* vPortFree, for a block that the application holds: it is marked as no   *)
(* longer allocated before the scheduler is suspended, and put back into   *)
(* the list after that.  Other tasks may run in between.                   *)
vPortFree(block) ==
    /\ block \in Allocated
    /\ heap' = [heap EXCEPT !.link[block].allocated = FALSE]
    /\ UNCHANGED pvReturn

PutBack(block) ==
    /\ block \in Freed
    /\ heap' = prvInsertBlockIntoFreeList(
                   [heap EXCEPT !.xFreeBytesRemaining = @ + heap.link[block].xBlockSize], block)
    /\ pvReturn' = NoReturn

HeapNext ==
    \/ \E n \in WantedSizes : pvPortMalloc(n)
    \/ \E b \in Headers : vPortFree(b) \/ PutBack(b)

HeapSpec == HeapInit /\ [][HeapNext]_heapVars

-----------------------------------------------------------------------------
SizeOf(b) == heap.link[b].xBlockSize

(* The blocks tile the heap from its first aligned byte to the end marker, *)
(* which is inside the array, each with room for more than its header (a   *)
(* block that was asked for may be smaller than heapMINIMUM_BLOCK_SIZE,    *)
(* which limits remainders); the list holds exactly the free blocks, in    *)
(* the order of their addresses; no two neighbours in memory are both on   *)
(* it, since each insertion, also the one of a remainder that was split    *)
(* off, merged all there was to merge; xFreeBytesRemaining is their sum.   *)
FreeListIsExact ==
    heap.pxEnd # NULL =>
        /\ heap.pxEnd + xHeapStructSize <= ucHeap + configTOTAL_HEAP_SIZE
        /\ pucAlignedHeap \in Headers \cup {heap.pxEnd}
        /\ \A b \in Headers :
            /\ b + SizeOf(b) \in Headers \cup {heap.pxEnd}
            /\ b % portBYTE_ALIGNMENT = 0 /\ SizeOf(b) > xHeapStructSize
            /\ \A c \in Headers : b < c => b + SizeOf(b) <= c
        /\ \A b \in FreeBlocks \cup {xStart} :
            heap.link[b].pxNextFreeBlock = Min({c \in FreeBlocks \cup {heap.pxEnd} : c > b})
        /\ \A b, c \in FreeBlocks : b + SizeOf(b) # c
        /\ heap.xFreeBytesRemaining = MapThenSumSet(SizeOf, FreeBlocks)

(* heap_4 implements the pool: blocks never overlap, whatever was freed    *)
(* and in whichever order; a request is refused only if no stretch of      *)
(* memory that nobody holds is large enough, so that nothing is lost to    *)
(* the way the list is kept; the figures of xPortGetFreeHeapSize and       *)
(* xPortGetMinimumEverFreeHeapSize are exact once a request was made.      *)
Pool == INSTANCE PoolSpec WITH
    First <- pucAlignedHeap, End <- EndMarker, Align <- portBYTE_ALIGNMENT,
    Overhead <- xHeapStructSize, Slack <- heapMINIMUM_BLOCK_SIZE, Sizes <- WantedSizes,
    blocks <- [b \in Allocated \cup Freed |-> SizeOf(b)],
    remaining <- IF heap.pxEnd = NULL THEN EndMarker - pucAlignedHeap
                 ELSE heap.xFreeBytesRemaining,
    minimum <- IF heap.pxEnd = NULL THEN EndMarker - pucAlignedHeap
               ELSE heap.xMinimumEverFreeBytesRemaining,
    answer <- pvReturn

ImplementsPool == Pool!Spec
=============================================================================
