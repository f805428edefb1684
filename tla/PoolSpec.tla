------------------------------ MODULE PoolSpec ------------------------------
(***************************************************************************)
(* What FreeRTOS_Source/portable/MemMang/heap_4.c promises the kernel and  *)
(* the application: disjoint, aligned blocks of a pool of bytes, given as  *)
(* long as some free stretch of the pool is large enough, and exact        *)
(* figures for the bytes left now and at worst.  It has no list, no        *)
(* headers and no coalescing.                                              *)
(***************************************************************************)
EXTENDS Integers

CONSTANTS
    First, End,   \* the pool: the bytes First..End - 1
    Align,        \* what addresses are multiples of
    Overhead,     \* bytes of a block that are not the caller's
    Slack,        \* the most that a block is larger than it had to be
    Sizes         \* what is asked for

VARIABLES
    blocks,     \* the size of the block at each address that is held
    remaining,  \* bytes not held
    minimum,    \* the least there has been
    answer      \* the last request and what it got, until something is freed

vars == <<blocks, remaining, minimum, answer>>

Nothing == 0
NoRequest == [xWantedSize |-> 0, pv |-> Nothing]

Init ==
    /\ blocks = [at \in {} |-> 0]
    /\ remaining = End - First
    /\ minimum = End - First
    /\ answer = NoRequest

(* The size bytes from the address at are in the pool and nobody's.        *)
Vacant(at, size) ==
    /\ at >= First /\ at + size <= End
    /\ \A b \in DOMAIN blocks : b + blocks[b] <= at \/ at + size <= b

Places == {at \in First..End - 1 : at % Align = 0}

Allocate(n) ==
    /\ n > 0
    /\ \E at \in Places :
        /\ answer' = [xWantedSize |-> n, pv |-> at + Overhead]
        /\ \E size \in n + Overhead..n + Overhead + (Align - 1) + Slack :
            /\ remaining' = remaining - size
            /\ Vacant(at, size)
            /\ blocks' = [b \in DOMAIN blocks \cup {at} |-> IF b = at THEN size ELSE blocks[b]]
    /\ minimum' = IF remaining' < minimum THEN remaining' ELSE minimum

(* A request fails only if no free stretch is large enough for it.         *)
Refuse(n) ==
    /\ answer' = [xWantedSize |-> n, pv |-> Nothing]
    /\ n > 0 => \A at \in Places : ~Vacant(at, n + Overhead)
    /\ UNCHANGED <<blocks, remaining, minimum>>

Free(b) ==
    /\ answer' = NoRequest
    /\ remaining' = remaining + blocks[b]
    /\ blocks' = [c \in DOMAIN blocks \ {b} |-> blocks[c]]
    /\ UNCHANGED minimum

Next ==
    \/ \E n \in Sizes : Allocate(n) \/ Refuse(n)
    \/ \E b \in DOMAIN blocks : Free(b)

Spec == Init /\ [][Next]_vars
=============================================================================
