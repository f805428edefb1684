------------------------------- MODULE Timers -------------------------------
(***************************************************************************)
(* The software timers of FreeRTOS_Source/timers.c: the daemon, the queue  *)
(* of commands to it and its two lists of active timers, which are         *)
(* switched when the tick count wraps.  Handlers also have it set and      *)
(* clear the bits of the event group of EventGroup.                        *)
(*                                                                         *)
(* Abstractions.  A list of timers is a function: its members with their   *)
(* item values.  The daemon samples the tick count once for each timer or  *)
(* command it processes, so that what it then does, callbacks included, is *)
(* one step at the moment of the sample; what a callback does is what any  *)
(* other task may do at that moment.  How the command queue blocks and     *)
(* wakes is the subject of Queue: here a command ends the daemon's sleep.  *)
(* TickType_t counts modulo portMAX_DELAY + 1.                             *)
(***************************************************************************)
EXTENDS EventGroup, Integers, Sequences, Functions

CONSTANTS
    Timer,
    NoTimer,
    portMAX_DELAY,
    Periods,      \* the periods of timers
    Created,      \* the period and the mode each timer is created with
    QueueLength,  \* configTIMER_QUEUE_LENGTH
    MaxLate,      \* bound: the ticks a command takes to the daemon
    Loads         \* which calls the application makes

TimerCalls == {"start", "stop", "changePeriod", "delete", "setReloadMode"}
GroupCalls == {"wait", "sync", "set", "clear", "setFromISR", "clearFromISR"}

ASSUME TimersAssumption ==
    /\ NoTimer \notin Timer
    /\ portMAX_DELAY \in Nat \ {0}
    /\ Periods \subseteq 1..portMAX_DELAY
    /\ Created \in [Timer -> [period : Periods, autoReload : BOOLEAN]]
    /\ QueueLength \in Nat \ {0}
    /\ MaxLate \in 0..portMAX_DELAY - 1
    /\ Loads \subseteq SUBSET (TimerCalls \cup GroupCalls)

VARIABLES
    load,                  \* the calls made, chosen at the start
    xTickCount,
    xLastTime,             \* of prvSampleTimeNow
    pxCurrentTimerList, pxOverflowTimerList,
    xTimerPeriodInTicks,
    active, autoReload,    \* the timers with these bits in ucStatus
    deleted,
    xTimerQueue,
    asked,                 \* the tick count a task has read for a start it is going to send
    daemon,                \* "loop", in the "commands" or "asleep"
    xTicksToSleep,         \* what is left of its sleep
    called                 \* how often the last step called each timer's callback

timeVars == <<xTickCount, xLastTime>>
timerVars == <<pxCurrentTimerList, pxOverflowTimerList, xTimerPeriodInTicks, active,
               autoReload, deleted>>
daemonVars == <<daemon, xTicksToSleep>>
allVars == <<groupVars, load, timeVars, timerVars, xTimerQueue, asked, daemonVars, called>>

TickType == 0..portMAX_DELAY
Modulus == portMAX_DELAY + 1
Forever == Modulus
NoTime == Modulus

Plus(x, y) == (x + y) % Modulus
Minus(x, y) == (x - y) % Modulus

Message == [id : {"start", "stop", "changePeriod", "delete"}, timer : Timer,
            value : TickType, bits : {{}}]
           \cup [id : {"setBits", "clearBits"}, timer : {NoTimer}, value : {0}, bits : SUBSET Bits]

TimersTypeOK ==
    /\ GroupTypeOK
    /\ load \in Loads
    /\ xTickCount \in TickType /\ xLastTime \in TickType
    /\ \A list \in {pxCurrentTimerList, pxOverflowTimerList} :
           DOMAIN list \subseteq active /\ \A t \in DOMAIN list : list[t] \in TickType
    /\ xTimerPeriodInTicks \in [Timer -> Periods]
    /\ active \subseteq Timer \ deleted /\ autoReload \subseteq Timer /\ deleted \subseteq Timer
    /\ xTimerQueue \in Seq(Message) /\ Len(xTimerQueue) <= QueueLength
    /\ asked \in TickType \cup {NoTime}
    /\ daemon \in {"loop", "commands", "asleep"}
    /\ xTicksToSleep \in 0..Forever
    /\ called \in [Timer -> 0..Modulus]

Quiet == [t \in Timer |-> 0]

TimersInit ==
    /\ GroupInit
    /\ load \in Loads
    /\ xTickCount = 0 /\ xLastTime = 0
    /\ pxCurrentTimerList = <<>> /\ pxOverflowTimerList = <<>>
    /\ xTimerPeriodInTicks = [t \in Timer |-> Created[t].period]
    /\ active = {}
    /\ autoReload = {t \in Timer : Created[t].autoReload}
    /\ deleted = {}
    /\ xTimerQueue = <<>>
    /\ asked = NoTime
    /\ daemon = "loop" /\ xTicksToSleep = 0
    /\ called = Quiet

-----------------------------------------------------------------------------
(* The lists of timers, as a record that the functions of the daemon take  *)
(* and give back.                                                          *)
Lists == [current |-> pxCurrentTimerList, overflow |-> pxOverflowTimerList,
          active |-> active, called |-> Quiet]

SetLists(L) ==
    /\ pxCurrentTimerList' = L.current
    /\ pxOverflowTimerList' = L.overflow
    /\ active' = L.active
    /\ called' = L.called

Without(list, S) == Restrict(list, DOMAIN list \ S)

(* uxListRemove, from whichever list; a mutant that knows only one.        *)
RemoveFromCurrent(L, t) == [L EXCEPT !.current = Without(@, {t})]
RemoveFromBoth(L, t) == [L EXCEPT !.current = Without(@, {t}), !.overflow = Without(@, {t})]

With(list, t, value) ==
    [u \in DOMAIN list \cup {t} |-> IF u = t THEN value ELSE list[u]]

(* Where prvInsertTimerInActiveList puts a timer; "now" if it has expired. *)
(* A mutant does not see that a command comes from before the wrap.        *)
WhereIgnoringWrap(next, now, command, p) ==
    IF next <= now
    THEN IF Minus(now, command) >= p THEN "now" ELSE "overflow"
    ELSE "current"

Where(next, now, command, p) ==
    IF next <= now
    THEN IF Minus(now, command) >= p THEN "now" ELSE "overflow"
    ELSE IF now < command /\ next >= command THEN "now" ELSE "current"

Insert(L, t, next, where) ==
    IF where = "current" THEN [L EXCEPT !.current = With(@, t, next)]
    ELSE [L EXCEPT !.overflow = With(@, t, next)]

(* The timer t has expired, at the time expired: prvReloadTimer and the    *)
(* callback.  It loops until the next expiry is to come.                   *)
Rounds(expired, p, now) ==
    CHOOSE n \in 1..Modulus :
        /\ Where(Plus(expired, n * p), now, Plus(expired, (n - 1) * p), p) # "now"
        /\ \A m \in 1..n - 1 :
               Where(Plus(expired, m * p), now, Plus(expired, (m - 1) * p), p) = "now"

Expired(L, t, expired, now, p) ==
    IF t \in autoReload
    THEN LET n    == Rounds(expired, p, now)
             next == Plus(expired, n * p)
         IN  [Insert(L, t, next, Where(next, now, Plus(expired, (n - 1) * p), p))
                 EXCEPT !.called[t] = n]
    ELSE [L EXCEPT !.active = @ \ {t}, !.called[t] = 1]

prvProcessExpiredTimer(L, t, now) ==
    Expired(RemoveFromBoth(L, t), t, L.current[t], now, xTimerPeriodInTicks[t])

(* prvSwitchTimerLists: every timer of the current list is processed, as   *)
(* if the time were the last before the wrap; the auto-reload timers end   *)
(* up on the other list, which becomes the current one.                    *)
prvSwitchTimerLists(L) ==
    LET due     == DOMAIN L.current
        done(t) == prvProcessExpiredTimer(L, t, portMAX_DELAY)
        again   == due \cap autoReload
    IN  [current  |-> [t \in DOMAIN L.overflow \cup again |->
                          IF t \in again THEN done(t).overflow[t] ELSE L.overflow[t]],
         overflow |-> <<>>,
         active   |-> L.active \ (due \ autoReload),
         called   |-> [t \in Timer |-> IF t \in due THEN done(t).called[t] ELSE 0]]

Wrapped == xTickCount < xLastTime

(* prvSampleTimeNow.                                                       *)
prvSampleTimeNow(L) == IF Wrapped THEN prvSwitchTimerLists(L) ELSE L

-----------------------------------------------------------------------------
(* The daemon, prvTimerTask.                                               *)

FirstToExpire(list) == {t \in DOMAIN list : \A u \in DOMAIN list : list[t] <= list[u]}

(* prvProcessTimerOrBlockTask, with the time prvGetNextExpireTime gave.    *)
SwitchLists ==
    /\ Wrapped
    /\ SetLists(prvSampleTimeNow(Lists))
    /\ daemon' = "commands"
    /\ UNCHANGED xTicksToSleep

ProcessTimer ==
    /\ ~Wrapped
    /\ \E t \in FirstToExpire(pxCurrentTimerList) :
           /\ pxCurrentTimerList[t] <= xTickCount
           /\ SetLists(prvProcessExpiredTimer(Lists, t, xTickCount))
    /\ daemon' = "commands"
    /\ UNCHANGED xTicksToSleep

(* How long the daemon sleeps; a mutant that looks at one list only.       *)
NextWakeOfCurrentList ==
    IF pxCurrentTimerList = <<>> THEN {Forever}
    ELSE {Minus(pxCurrentTimerList[t], xTickCount) : t \in FirstToExpire(pxCurrentTimerList)}

NextWake ==
    IF pxCurrentTimerList = <<>>
    THEN IF pxOverflowTimerList = <<>> THEN {Forever} ELSE {Minus(0, xTickCount)}
    ELSE {Minus(pxCurrentTimerList[t], xTickCount) : t \in FirstToExpire(pxCurrentTimerList)}

(* vQueueWaitForMessageRestricted: it sleeps unless there are commands.    *)
Block ==
    /\ ~Wrapped
    /\ \A t \in DOMAIN pxCurrentTimerList : pxCurrentTimerList[t] > xTickCount
    /\ IF xTimerQueue = <<>>
       THEN daemon' = "asleep" /\ xTicksToSleep' \in NextWake
       ELSE daemon' = "commands" /\ UNCHANGED xTicksToSleep
    /\ called' = Quiet
    /\ UNCHANGED <<pxCurrentTimerList, pxOverflowTimerList, active>>

prvProcessTimerOrBlockTask ==
    /\ daemon = "loop"
    /\ SwitchLists \/ ProcessTimer \/ Block
    /\ xLastTime' = xTickCount
    /\ UNCHANGED <<groupVars, load, xTickCount, xTimerPeriodInTicks, autoReload, deleted,
                   xTimerQueue, asked>>

(* The command m for timer m.timer, which has been removed from its list.  *)
(* A start counts from the time in the command.                            *)
Start(L, m) ==
    LET t    == m.timer
        p    == xTimerPeriodInTicks[t]
        next == Plus(m.value, p)
        runs == [L EXCEPT !.active = @ \cup {t}]
    IN  IF Where(next, xTickCount, m.value, p) = "now"
        THEN Expired(runs, t, next, xTickCount, p)
        ELSE Insert(runs, t, next, Where(next, xTickCount, m.value, p))

ChangePeriod(L, m) ==
    LET next == Plus(xTickCount, m.value)
    IN  Insert([L EXCEPT !.active = @ \cup {m.timer}], m.timer, next,
               Where(next, xTickCount, xTickCount, m.value))

Stop(L, m) == [L EXCEPT !.active = @ \ {m.timer}]

TimerCommand(m) ==
    LET L == prvSampleTimeNow(RemoveFromBoth(Lists, m.timer))
    IN  /\ \/ m.id = "start" /\ SetLists(Start(L, m))
           \/ m.id = "changePeriod" /\ SetLists(ChangePeriod(L, m))
           \/ m.id \in {"stop", "delete"} /\ SetLists(Stop(L, m))
        /\ xTimerPeriodInTicks' = IF m.id = "changePeriod"
                                  THEN [xTimerPeriodInTicks EXCEPT ![m.timer] = m.value]
                                  ELSE xTimerPeriodInTicks
        /\ deleted' = IF m.id = "delete" THEN deleted \cup {m.timer} ELSE deleted
        /\ xLastTime' = xTickCount
        /\ UNCHANGED groupVars

(* A pended call of vEventGroupSetBitsCallback or ClearBitsCallback.       *)
PendedCall(m) ==
    /\ \/ m.id = "setBits" /\ xEventGroupSetBits(m.bits)
       \/ m.id = "clearBits" /\ xEventGroupClearBits(m.bits)
    /\ called' = Quiet
    /\ UNCHANGED <<xLastTime, pxCurrentTimerList, pxOverflowTimerList, xTimerPeriodInTicks,
                   active, deleted>>

(* One round of prvProcessReceivedCommands.                                *)
prvProcessReceivedCommands ==
    /\ daemon = "commands"
    /\ IF xTimerQueue = <<>>
       THEN /\ daemon' = "loop"
            /\ called' = Quiet
            /\ UNCHANGED <<groupVars, xLastTime, timerVars, xTimerQueue>>
       ELSE /\ TimerCommand(Head(xTimerQueue)) \/ PendedCall(Head(xTimerQueue))
            /\ xTimerQueue' = Tail(xTimerQueue)
            /\ UNCHANGED <<autoReload, daemon>>
    /\ UNCHANGED <<load, xTickCount, asked, xTicksToSleep>>

-----------------------------------------------------------------------------
(* The tick, and the other tasks and handlers.                             *)

Awake == daemon' = "commands" /\ xTicksToSleep' = 0

(* The bounds on time: commands, and timers that are due, wait no longer   *)
(* than MaxLate ticks for the daemon, and it does not miss a whole turn of *)
(* the counter while it has timers.                                        *)
Late(l) == l < -MaxLate
Left(t) ==
    LET now == IF Wrapped THEN xTickCount + Modulus ELSE xTickCount
    IN  IF t \in DOMAIN pxCurrentTimerList THEN pxCurrentTimerList[t] - now
        ELSE IF t \in DOMAIN pxOverflowTimerList THEN pxOverflowTimerList[t] + Modulus - now
        ELSE 0

Timely ==
    /\ \A i \in DOMAIN xTimerQueue :
           xTimerQueue[i].id = "start" => Minus(xTickCount, xTimerQueue[i].value) < MaxLate
    /\ asked # NoTime => Minus(xTickCount, asked) < MaxLate
    /\ \A t \in active : ~Late(Left(t) - 1)
    /\ active # {} => Minus(xTickCount, xLastTime) < portMAX_DELAY

Tick ==
    /\ load \cap TimerCalls # {}
    /\ Timely
    /\ xTickCount' = Plus(xTickCount, 1)
    /\ IF daemon = "asleep" /\ xTicksToSleep <= 1
       THEN Awake
       ELSE /\ xTicksToSleep' = IF xTicksToSleep \in {0, Forever} THEN xTicksToSleep
                                ELSE xTicksToSleep - 1
            /\ UNCHANGED daemon
    /\ called' = Quiet
    /\ UNCHANGED <<groupVars, load, xLastTime, timerVars, xTimerQueue, asked>>

(* xTimerGenericCommand: the command m is sent, from a task or a handler.  *)
(* (When the queue is full the call fails, or waits and comes later.)      *)
xTimerGenericCommand(m) ==
    /\ Len(xTimerQueue) < QueueLength
    /\ xTimerQueue' = Append(xTimerQueue, m)
    /\ IF daemon = "asleep" THEN Awake ELSE UNCHANGED daemonVars
    /\ called' = Quiet
    /\ UNCHANGED <<groupVars, load, timeVars, timerVars>>

(* A timer may be used until it has been told to be deleted.               *)
Usable(t) ==
    /\ t \notin deleted
    /\ \A i \in DOMAIN xTimerQueue : ~(xTimerQueue[i].id = "delete" /\ xTimerQueue[i].timer = t)

Command(id, t, value) == [id |-> id, timer |-> t, value |-> value, bits |-> {}]

(* xTimerStart and xTimerReset read the tick count first; the command may  *)
(* be sent a while later.                                                  *)
Ask ==
    /\ "start" \in load /\ asked = NoTime
    /\ asked' = xTickCount
    /\ called' = Quiet
    /\ UNCHANGED <<groupVars, load, timeVars, timerVars, xTimerQueue, daemonVars>>

xTimerStart(t) ==
    /\ asked # NoTime /\ Usable(t)
    /\ xTimerGenericCommand(Command("start", t, asked))
    /\ asked' = NoTime

(* The queue is full and the task does not wait, or the timer is gone.     *)
StartFails ==
    /\ asked # NoTime
    /\ Len(xTimerQueue) = QueueLength \/ \A t \in Timer : ~Usable(t)
    /\ asked' = NoTime
    /\ called' = Quiet
    /\ UNCHANGED <<groupVars, load, timeVars, timerVars, xTimerQueue, daemonVars>>

xTimerStop(t) ==
    /\ "stop" \in load /\ Usable(t)
    /\ xTimerGenericCommand(Command("stop", t, 0))
    /\ UNCHANGED asked

xTimerDelete(t) ==
    /\ "delete" \in load /\ Usable(t)
    /\ xTimerGenericCommand(Command("delete", t, 0))
    /\ UNCHANGED asked

xTimerChangePeriod(t) ==
    /\ "changePeriod" \in load /\ Usable(t)
    /\ \E p \in Periods : xTimerGenericCommand(Command("changePeriod", t, p))
    /\ UNCHANGED asked

(* vTimerSetReloadMode.  If it interrupts the daemon between its reading   *)
(* and its writing of ucStatus the call has no effect: no step.            *)
vTimerSetReloadMode(t) ==
    /\ "setReloadMode" \in load /\ Usable(t)
    /\ autoReload' \in {autoReload \cup {t}, autoReload \ {t}}
    /\ called' = Quiet
    /\ UNCHANGED <<groupVars, load, timeVars, pxCurrentTimerList, pxOverflowTimerList,
                   xTimerPeriodInTicks, active, deleted, xTimerQueue, asked, daemonVars>>

(* xTimerPendFunctionCallFromISR for xEventGroupSetBitsFromISR and         *)
(* xEventGroupClearBitsFromISR.                                            *)
PendFunctionCall(request, id) ==
    /\ request \in load
    /\ \E B \in BitsToSet :
           xTimerGenericCommand([id |-> id, timer |-> NoTimer, value |-> 0, bits |-> B])
    /\ UNCHANGED asked

(* The tasks' calls on the event group.                                    *)
SetBits(B) == "set" \in load /\ B \in BitsToSet /\ xEventGroupSetBits(B)

WaitBits(t) ==
    /\ "wait" \in load
    /\ \E c \in WaitCalls : xEventGroupWaitBits(t, c)

GroupCall ==
    /\ \/ \E B \in BitsToSet : \/ SetBits(B)
                               \/ "clear" \in load /\ xEventGroupClearBits(B)
       \/ \E t \in User :
              \/ WaitBits(t) \/ WaitTimesOut(t) \/ WaitReturns(t)
              \/ "sync" \in load /\ \E wait, timed \in BOOLEAN : xEventGroupSync(t, wait, timed)
    /\ called' = Quiet
    /\ UNCHANGED <<load, timeVars, timerVars, xTimerQueue, asked, daemonVars>>

TimersNext ==
    \/ prvProcessTimerOrBlockTask \/ prvProcessReceivedCommands \/ Tick \/ Ask \/ StartFails
    \/ \E t \in Timer : \/ xTimerStart(t) \/ xTimerStop(t) \/ xTimerDelete(t)
                        \/ xTimerChangePeriod(t) \/ vTimerSetReloadMode(t)
    \/ PendFunctionCall("setFromISR", "setBits") \/ PendFunctionCall("clearFromISR", "clearBits")
    \/ GroupCall

TimersSpec == TimersInit /\ [][TimersNext]_allVars

-----------------------------------------------------------------------------
(* Properties.                                                             *)

(* The daemon never oversleeps: while it waits for a command it is going   *)
(* to wake at the first expiry, on whichever side of the wrap of the tick  *)
(* count that is, or at the wrap before it; it sleeps without limit only   *)
(* if no timer runs, and never for no time.                                *)
DaemonWakesInTime ==
    daemon = "asleep" =>
        /\ xTicksToSleep > 0
        /\ \A t \in active : xTicksToSleep <= Left(t) /\ xTicksToSleep # Forever

(* Every timer that runs is on one of the two lists, once, and is neither  *)
(* overdue for longer than MaxLate nor further off than its period,        *)
(* counted on the side of the wrap its list stands for.                    *)
ListsAreExact ==
    /\ pxCurrentTimerList \in [DOMAIN pxCurrentTimerList -> TickType]
    /\ pxOverflowTimerList \in [DOMAIN pxOverflowTimerList -> TickType]
    /\ DOMAIN pxCurrentTimerList \cap DOMAIN pxOverflowTimerList = {}
    /\ DOMAIN pxCurrentTimerList \cup DOMAIN pxOverflowTimerList = active
    /\ \A t \in active : Left(t) \in -MaxLate..xTimerPeriodInTicks[t]

(* No command is for a deleted timer, or comes after its deletion.         *)
CommandsAreTimely ==
    \A i \in DOMAIN xTimerQueue :
        /\ xTimerQueue[i].timer \notin deleted
        /\ xTimerQueue[i].id = "changePeriod" => xTimerQueue[i].value \in Periods
        /\ xTimerQueue[i].id = "delete" =>
               \A j \in i + 1..Len(xTimerQueue) : xTimerQueue[j].timer # xTimerQueue[i].timer

(* The tick count does not wrap over a daemon that sleeps while timers run. *)
SleepsWithinTurn ==
    daemon = "asleep" /\ active # {} => ~Wrapped /\ xTicksToSleep <= Modulus - xTickCount

(* The inductive invariant of prvTimerTask: its lists hold the timers that *)
(* run, where they belong, in every round of the daemon and over every     *)
(* switch of the lists, and its sleeps end in time.                        *)
TimersInv ==
    /\ TimersTypeOK
    /\ ListsAreExact
    /\ CommandsAreTimely
    /\ DaemonWakesInTime
    /\ SleepsWithinTurn

(* Who sets bits reaches all: in one step every waiter whose condition the *)
(* bits then meet is woken and given those bits, also if another waiter    *)
(* clears them; and no bit set is cleared unless somebody asked for it and *)
(* got it.  This goes for tasks and for the daemon on behalf of handlers.  *)
SetByDaemon(B) ==
    /\ daemon = "commands" /\ xTimerQueue # <<>>
    /\ Head(xTimerQueue).id = "setBits" /\ Head(xTimerQueue).bits = B
    /\ xTimerQueue' = Tail(xTimerQueue)

Delivered(bits) ==
    /\ \A t \in Matched(bits) : /\ t \notin xTasksWaitingForBits'
                               /\ xItemValue'[t] = [bits |-> bits, control |-> {"unblocked"}]
    /\ \A b \in bits \ uxEventBits' :
           \E t \in Matched(bits) : b \in xItemValue[t].bits /\ "clear" \in xItemValue[t].control

SetIsDelivered ==
    [][\A B \in BitsToSet : SetBits(B) \/ SetByDaemon(B) => Delivered(uxEventBits \cup B)]_allVars

(* The timers keep their promise, TimerSpec, across wraps of the tick      *)
(* count, late commands and a late daemon.                                 *)
Commands ==
    [i \in DOMAIN xTimerQueue |->
        LET m == xTimerQueue[i]
        IN  [id    |-> IF m.timer = NoTimer THEN "call" ELSE m.id,
             timer |-> m.timer,
             value |-> IF m.id = "start" THEN Minus(xTickCount, m.value) ELSE m.value]]

TicksLeft == [t \in Timer |-> Left(t)]

Promised ==
    INSTANCE TimerSpec WITH left <- TicksLeft, period <- xTimerPeriodInTicks,
                            commands <- Commands, MaxLate <- portMAX_DELAY

TimersKeepTime == Promised!Spec
=============================================================================
