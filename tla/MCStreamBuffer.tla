--------------------------- MODULE MCStreamBuffer ---------------------------
(* Small instances of StreamBuffer: the writer and the reader have one     *)
(* priority, so that each can interrupt the other anywhere.                *)
EXTENDS StreamBuffer

MCTask == {Writer, Reader, Idle}
MCPriority == [t \in MCTask |-> IF t = Idle THEN 0 ELSE 1]
MCWaits == [send |-> {"ticks"}, receive |-> {"ticks"}, take |-> {"max"}]

(* The application takes notifications where the buffer is one of          *)
(* messages: the wait for a notification is the same for both.  The level  *)
(* of such a buffer, which every message reaches, is set only where one    *)
(* side is a handler.                                                      *)
MCNext ==
    /\ Next
    /\ ~isMessageBuffer => UNCHANGED ulNotifiedValue /\ \A t \in Takers : op'[t] # "take"
    /\ isMessageBuffer /\ isr = "none" => UNCHANGED xTriggerLevelBytes
MCSpec == Init /\ [][MCNext]_vars

(* Nobody has a block time that ends.                                      *)
MCEndlessWaits == [MCWaits EXCEPT !.send = {"max"}, !.receive = {"max"}]
=============================================================================
