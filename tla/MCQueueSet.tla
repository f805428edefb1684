---------------------------- MODULE MCQueueSet ------------------------------
(* Small instances of QueueSet: a reader and a worker of one priority      *)
(* beside the idle task, and two members.                                  *)
EXTENDS QueueSet

CONSTANTS reader, worker

MCTask == {reader, worker, Idle}
MCPriority == [t \in MCTask |-> IF t = Idle THEN 0 ELSE 1]
MCLists == {"q", "box", "xQueueSet"}

(* A queue of two items and a mailbox of one.                              *)
Short == [m \in {"q", "box"} |-> IF m = "q" THEN 2 ELSE 1]
(* A queue longer than there are tasks.                                    *)
Long == [m \in {"q", "box"} |-> IF m = "q" THEN 4 ELSE 1]

(* The worker sends to both, and removes and adds the mailbox, which only  *)
(* it sends to.                                                            *)
MCCalls == [t \in MCTask |-> IF t = worker THEN {<<"q", "send">>, <<"box", "overwrite">>} ELSE {}]
MCRemoves == [t \in MCTask |-> IF t = worker THEN {"box"} ELSE {}]
MCIsrCalls == {<<"q", "send">>}
=============================================================================
