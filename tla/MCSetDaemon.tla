---------------------------- MODULE MCSetDaemon -----------------------------
(* The small instance of queue sets of MCQueueSet, and small instances of  *)
(* Timers.  Each load of the latter is a use of the daemon of its own:     *)
(* timers through every command, timers with changing reload modes, and an *)
(* event group used for waiting, or for rendezvous, by tasks and through   *)
(* the daemon by handlers.  Sets and daemon share no state, so that        *)
(* interleaving their steps would add nothing: each is checked while the   *)
(* other has not begun.                                                    *)
EXTENDS MCQueueSet, Timers

CONSTANTS t1, t2, ta, tb, tc, bx, by

MCCreated == [t \in {t1, t2} |-> IF t = t1 THEN [period |-> 2, autoReload |-> TRUE]
                                 ELSE [period |-> 5, autoReload |-> FALSE]]
MCUser == {ta, tb, tc}
MCBits == {ta, tb, tc, bx, by}
MCRendezvousBit == [t \in MCUser |-> t]
MCWait(B, clear, all, timed) ==
    [op |-> "wait", bits |-> B, clear |-> clear, all |-> all, timed |-> timed]
MCWaitCalls == {MCWait({bx}, TRUE, FALSE, TRUE), MCWait({bx, by}, TRUE, TRUE, FALSE),
                MCWait({bx, by}, FALSE, FALSE, TRUE)}
MCBitsToSet == {{bx}, {by}, {bx, by}}
MCLoads == {{"start", "stop", "changePeriod"},
            {"start", "setReloadMode", "delete"},
            {"wait", "set", "clear", "setFromISR"},
            {"sync", "set", "setFromISR", "clearFromISR"}}

(* One timer is enough to change modes.                                    *)
ModeChanges == t2 \in autoReload' => t2 \in autoReload

SetAtRest == Init /\ pxCurrentTCB = reader

DaemonAtRest == TimersInit /\ load = {"start", "stop", "changePeriod"}

MCInit == Init /\ TimersInit /\ (SetAtRest \/ DaemonAtRest)

MCNext ==
    \/ DaemonAtRest /\ Next /\ UNCHANGED allVars
    \/ SetAtRest /\ TimersNext /\ ModeChanges /\ UNCHANGED vars

MCSpec == MCInit /\ [][MCNext]_<<vars, allVars>>
=============================================================================
