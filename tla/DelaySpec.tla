----------------------------- MODULE DelaySpec -----------------------------
(***************************************************************************)
(* What the kernel promises of time (FreeRTOS_Source/tasks.c): sleeping    *)
(* tasks count ticks down and wake after exactly as many as they asked     *)
(* for, unless an event wakes them; a wait that is resumed after each      *)
(* event ends when the ticks of the whole call are used up; and a periodic *)
(* task is woken at every multiple of its period, whatever time it spends  *)
(* running.  Time here is counted, without a clock that could wrap.        *)
(***************************************************************************)
EXTENDS Integers

CONSTANTS
    Task,
    Period,      \* the period of a periodic task, 0 for any other task
    Delays,      \* the delays asked for
    BlockTimes   \* the finite block times of waits

VARIABLES
    pc,      \* "loop" in a wait, else "app", or "failed" after a time-out
    left,    \* ticks until the task wakes, 0 if it is awake
    until,   \* ticks until the wait in progress times out
    waits,   \* the sleeping tasks an event may wake
    behind   \* ticks since the last multiple of the period

Forever == -1

vars == <<pc, left, until, waits, behind>>

Init ==
    /\ pc = [t \in Task |-> "app"]
    /\ left = [t \in Task |-> 0]
    /\ until = [t \in Task |-> 0]
    /\ waits = {}
    /\ behind = [t \in Task |-> 0]

Idle(t) == left[t] = 0 /\ pc[t] # "loop"
Trying(t) == left[t] = 0 /\ pc[t] = "loop"

Delay(t) ==
    /\ Idle(t) /\ Period[t] = 0
    /\ \E n \in Delays : left' = [left EXCEPT ![t] = n]
    /\ UNCHANGED <<pc, until, waits, behind>>

DelayUntil(t) ==
    /\ Idle(t) /\ Period[t] > 0
    /\ behind' = [behind EXCEPT ![t] = @ - Period[t]]
    /\ left' = [left EXCEPT ![t] = IF behind[t] < Period[t] THEN Period[t] - behind[t] ELSE 0]
    /\ UNCHANGED <<pc, until, waits>>

Begin(t) ==
    /\ Idle(t) /\ Period[t] = 0
    /\ \E n \in BlockTimes \cup {Forever} : until' = [until EXCEPT ![t] = n]
    /\ pc' = [pc EXCEPT ![t] = "loop"]
    /\ UNCHANGED <<left, waits, behind>>

Block(t) ==
    /\ Trying(t) /\ until[t] # 0
    /\ left' = [left EXCEPT ![t] = until[t]]
    /\ waits' = waits \cup {t}
    /\ UNCHANGED <<pc, until, behind>>

TimeOut(t) ==
    /\ Trying(t) /\ until[t] = 0
    /\ pc' = [pc EXCEPT ![t] = "failed"]
    /\ UNCHANGED <<left, until, waits, behind>>

Succeed(t) ==
    /\ Trying(t)
    /\ pc' = [pc EXCEPT ![t] = "app"]
    /\ until' = [until EXCEPT ![t] = 0]
    /\ UNCHANGED <<left, waits, behind>>

Wake(S) ==
    /\ left' = [t \in Task |-> IF t \in S THEN 0 ELSE left[t]]
    /\ waits' = waits \ S
    /\ UNCHANGED <<pc, until, behind>>

Less(n) == IF n > 0 THEN n - 1 ELSE n

Tick ==
    /\ left' = [t \in Task |-> Less(left[t])]
    /\ until' = [t \in Task |-> Less(until[t])]
    /\ waits' = {t \in waits : left[t] # 1}
    /\ behind' = [t \in Task |-> IF Period[t] > 0 THEN behind[t] + 1 ELSE 0]
    /\ UNCHANGED pc

Next ==
    \/ \E t \in Task : \/ Delay(t) \/ DelayUntil(t) \/ Begin(t) \/ Block(t)
                       \/ TimeOut(t) \/ Succeed(t)
    \/ \E S \in SUBSET waits : Wake(S)
    \/ Tick

Spec == Init /\ [][Next]_vars
=============================================================================
