------------------------------ MODULE MCQueue ------------------------------
(* Small instances of Queue: two or three tasks of two priorities beside   *)
(* the idle task.                                                          *)
EXTENDS Queue

CONSTANTS high, low1, low2

MCTask == {high, low1, low2, Idle}
MCBasePriority == [t \in MCTask |-> IF t = high THEN 2 ELSE IF t = Idle THEN 0 ELSE 1]
MCEventLists == {"xTasksWaitingToReceive", "xTasksWaitingToSend"}

Pair == {high, low1, Idle}
PairPriority == [t \in Pair |-> MCBasePriority[t]]

(* Anyone sends and receives.                                              *)
MixedCalls == [t \in MCTask |-> IF t = Idle THEN {} ELSE {"send", "receive"}]
(* A mailbox of one item, overwritten, reset and peeked at.                *)
PairMailbox ==
    [t \in Pair |-> CASE t = high -> {"receive", "peek", "reset"}
                       [] t = low1 -> {"send", "overwrite"}
                       [] t = Idle -> {}]
=============================================================================
