----------------------------- MODULE TimerSpec -----------------------------
(***************************************************************************)
(* What the software timers of FreeRTOS_Source/timers.c promise: a timer   *)
(* expires when the ticks of its period have passed since the call that    *)
(* started it, not since the daemon heard of the call; an auto-reload      *)
(* timer expires again after every period, without drift, and its callback *)
(* is called once for each expiry, however late the daemon is; commands    *)
(* take effect in the order they were sent, and cancel an expiry the       *)
(* daemon has not come to.  Time is counted, with no clock that could wrap *)
(* and no lists.                                                           *)
(***************************************************************************)
EXTENDS Integers, Sequences

CONSTANTS
    Timer,
    NoTimer,   \* of a command that is not for a timer
    Periods,   \* the periods timers are given
    MaxLate    \* how many ticks the daemon may be late

VARIABLES
    active,      \* the timers that run
    left,        \* ticks until each of them expires: zero or less if it is due
    period,
    autoReload,
    commands,    \* sent and not yet processed; a start carries its age
    called       \* how often the last step called each timer's callback

vars == <<active, left, period, autoReload, commands, called>>

Quiet == [t \in Timer |-> 0]

Init ==
    /\ active = {} /\ left = Quiet
    /\ period \in [Timer -> Periods]
    /\ autoReload \in SUBSET Timer
    /\ commands = <<>> /\ called = Quiet

(* Time passes for running timers and for commands on their way.           *)
Tick ==
    /\ left' = [t \in Timer |-> IF t \in active THEN left[t] - 1 ELSE 0]
    /\ commands' = [i \in DOMAIN commands |->
                        IF commands[i].id = "start" THEN [commands[i] EXCEPT !.value = @ + 1]
                        ELSE commands[i]]
    /\ called' = Quiet
    /\ UNCHANGED <<active, period, autoReload>>

(* A command is sent; a start may have been on its way already.            *)
Send(c) ==
    /\ commands' = Append(commands, c)
    /\ called' = Quiet
    /\ UNCHANGED <<active, left, period, autoReload>>

SetReloadMode(t) ==
    /\ autoReload' \in {autoReload \cup {t}, autoReload \ {t}}
    /\ called' = Quiet
    /\ UNCHANGED <<active, left, period, commands>>

(* The expiries of a timer with l ticks left that are d ticks old or more. *)
Expiries(l, p, d) == IF l > -d THEN 0 ELSE (-d - l) \div p + 1

(* The timers of S are served: all expiries d ticks old or more, for a     *)
(* one-shot timer the only one.                                            *)
Served(S, d) ==
    {t \in S \cap active : left[t] <= -d}

Callbacks(t, d) == IF t \in autoReload THEN Expiries(left[t], period[t], d) ELSE 1

LeftAfter(S, d) ==
    [t \in Timer |->
        IF t \notin Served(S, d) THEN left[t]
        ELSE IF t \in autoReload THEN left[t] + Callbacks(t, d) * period[t] ELSE 0]

CallsAfter(S, d) == [t \in Timer |-> IF t \in Served(S, d) THEN Callbacks(t, d) ELSE 0]

ActiveAfter(S, d) == active \ (Served(S, d) \ autoReload)

(* The daemon serves the timer that has been due for longest.              *)
ServeFirst(t) ==
    /\ t \in active /\ left[t] <= 0
    /\ \A u \in active : left[t] <= left[u]
    /\ left' = LeftAfter({t}, 0)
    /\ called' = CallsAfter({t}, 0)
    /\ active' = ActiveAfter({t}, 0)
    /\ UNCHANGED <<period, autoReload, commands>>

(* Or all that were due at some moment.                                    *)
ServeAll(d) ==
    /\ left' = LeftAfter(Timer, d)
    /\ called' = CallsAfter(Timer, d)
    /\ active' = ActiveAfter(Timer, d)
    /\ UNCHANGED <<period, autoReload, commands>>

(* The daemon processes a command for timer t, and may serve the others    *)
(* first.  The timer runs with l ticks left; if it is due it is served.    *)
Run(t, l, others, d) ==
    LET due == l <= 0
        n   == IF ~due THEN 0 ELSE IF t \in autoReload THEN Expiries(l, period'[t], 0) ELSE 1
    IN  /\ left' = [LeftAfter(others, d) EXCEPT ![t] =
                        IF ~due THEN l ELSE IF t \in autoReload THEN l + n * period'[t] ELSE 0]
        /\ called' = [CallsAfter(others, d) EXCEPT ![t] = n]
        /\ active' = IF due /\ t \notin autoReload THEN ActiveAfter(others, d) \ {t}
                     ELSE ActiveAfter(others, d) \cup {t}

Halt(t, others, d) ==
    /\ left' = [LeftAfter(others, d) EXCEPT ![t] = 0]
    /\ called' = CallsAfter(others, d)
    /\ active' = ActiveAfter(others, d) \ {t}

Process(d) ==
    /\ commands # <<>>
    /\ commands' = Tail(commands)
    /\ UNCHANGED autoReload
    /\ LET c      == Head(commands)
           others == Timer \ {c.timer}
       IN  \/ /\ c.id = "start" /\ UNCHANGED period
              /\ Run(c.timer, period[c.timer] - c.value, others, d)
           \/ /\ c.id = "changePeriod"
              /\ period' = [period EXCEPT ![c.timer] = c.value]
              /\ Run(c.timer, c.value, others, d)
           \/ c.id \in {"stop", "delete"} /\ UNCHANGED period /\ Halt(c.timer, others, d)
           \/ c.id = "call" /\ called' = Quiet /\ UNCHANGED <<active, left, period>>

Command ==
    [id : {"start"}, timer : Timer, value : 0..MaxLate]
    \cup [id : {"changePeriod"}, timer : Timer, value : Periods]
    \cup [id : {"stop", "delete"}, timer : Timer, value : {0}]
    \cup [id : {"call"}, timer : {NoTimer}, value : {0}]

Next ==
    \/ Tick
    \/ \E c \in Command : Send(c)
    \/ \E t \in Timer : SetReloadMode(t) \/ ServeFirst(t)
    \/ \E d \in 0..MaxLate : ServeAll(d) \/ Process(d)

Spec == Init /\ [][Next]_vars
=============================================================================
