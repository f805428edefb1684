----------------------------- MODULE DequeSpec -----------------------------
(***************************************************************************)
(* What the copying functions of FreeRTOS_Source/queue.c promise: a queue  *)
(* is a bounded sequence of items, sent to the back or to the front and    *)
(* received from the front, each receiver getting a copy of the item.      *)
(***************************************************************************)
EXTENDS Integers, Sequences

CONSTANTS
    Item,     \* the values that can be sent
    Lengths   \* the lengths a queue can be created with

VARIABLES
    items,     \* the items, the next to be received first
    uxLength,  \* the capacity, fixed at creation
    pvBuffer   \* what the last receive or peek delivered

Init ==
    /\ items = <<>>
    /\ uxLength \in Lengths
    /\ pvBuffer \in Item

SendToBack(x) ==
    /\ Len(items) < uxLength
    /\ items' = Append(items, x)
    /\ UNCHANGED pvBuffer

SendToFront(x) ==
    /\ Len(items) < uxLength
    /\ items' = <<x>> \o items
    /\ UNCHANGED pvBuffer

(* A mailbox holds the last item sent.                                     *)
Overwrite(x) ==
    /\ uxLength = 1
    /\ items' = <<x>>
    /\ UNCHANGED pvBuffer

Receive ==
    /\ items # <<>>
    /\ pvBuffer' = Head(items)
    /\ items' = Tail(items)

Peek ==
    /\ items # <<>>
    /\ pvBuffer' = Head(items)
    /\ UNCHANGED items

Reset == items' = <<>> /\ UNCHANGED pvBuffer

Next ==
    /\ \/ \E x \in Item : SendToBack(x) \/ SendToFront(x) \/ Overwrite(x)
       \/ Receive \/ Peek \/ Reset
    /\ UNCHANGED uxLength

Spec == Init /\ [][Next]_<<items, uxLength, pvBuffer>>
=============================================================================
