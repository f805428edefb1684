----------------------------- MODULE EventGroup -----------------------------
(***************************************************************************)
(* An event group of FreeRTOS_Source/event_groups.c and the unordered      *)
(* event list of tasks.c its waiters are on.  Handlers never touch a group *)
(* (they have the timer daemon do it, see Timers), so that what is done    *)
(* with the scheduler suspended, or in a critical section, is one step.    *)
(* Between a waiter's waking and its next step any other task may run.     *)
(*                                                                         *)
(* Abstractions.  Event bits are a set.  The list of waiters is a set too: *)
(* the bits do not change while it is walked.  Priorities are left out,    *)
(* and a wait with a block time may time out at any moment.                *)
(***************************************************************************)
CONSTANTS
    User,           \* the tasks that use the group
    Bits,           \* the event bits
    RendezvousBit,  \* the bit each task brings to xEventGroupSync
    WaitCalls,      \* the arguments of xEventGroupWaitBits
    BitsToSet       \* the bits xEventGroupSetBits and ClearBits are called with

ASSUME EventGroupAssumption ==
    /\ User # {}
    /\ RendezvousBit \in [User -> Bits]
    /\ WaitCalls \subseteq [op : {"wait"}, bits : (SUBSET Bits) \ {{}}, clear : BOOLEAN,
                           all : BOOLEAN, timed : BOOLEAN]
    /\ BitsToSet \subseteq SUBSET Bits
    /\ \A t \in User : /\ \A B \in BitsToSet : RendezvousBit[t] \notin B
                      /\ \A c \in WaitCalls : RendezvousBit[t] \notin c.bits

VARIABLES
    uxEventBits,
    xTasksWaitingForBits,
    xItemValue,  \* the event list item of each task: bits and control bits
    call         \* the call each task is in, with its arguments

groupVars == <<uxEventBits, xTasksWaitingForBits, xItemValue, call>>

NotInUse == [bits |-> {}, control |-> {}]
NoCall == [op |-> "none", bits |-> {}, clear |-> FALSE, all |-> FALSE, timed |-> FALSE]

CallType == [op : {"none", "wait", "sync"}, bits : SUBSET Bits, clear : BOOLEAN,
             all : BOOLEAN, timed : BOOLEAN]

GroupTypeOK ==
    /\ uxEventBits \subseteq Bits
    /\ xTasksWaitingForBits \subseteq User
    /\ xItemValue \in [User -> [bits : SUBSET Bits,
                                control : SUBSET {"clear", "all", "unblocked"}]]
    /\ call \in [User -> CallType]

(* xEventGroupCreate.                                                      *)
GroupInit ==
    /\ uxEventBits = {}
    /\ xTasksWaitingForBits = {}
    /\ xItemValue = [t \in User |-> NotInUse]
    /\ call = [t \in User |-> NoCall]

-----------------------------------------------------------------------------
(* A rendezvous is for the bits of all tasks.                              *)
AllBits == {RendezvousBit[t] : t \in User}

prvTestWaitCondition(bits, wanted, all) ==
    IF all THEN wanted \subseteq bits ELSE wanted \cap bits # {}

(* The waiters whose condition the bits meet.                              *)
Matched(bits) ==
    {t \in xTasksWaitingForBits :
        prvTestWaitCondition(bits, xItemValue[t].bits, "all" \in xItemValue[t].control)}

(* uxBitsToClear after the walk.                                           *)
BitsToClear(S) == UNION {xItemValue[t].bits : t \in {t \in S : "clear" \in xItemValue[t].control}}

(* vTaskRemoveFromUnorderedEventList of the tasks of S: their new values.  *)
Unblocked(S, bits) ==
    [t \in User |-> IF t \in S THEN [bits |-> bits, control |-> {"unblocked"}] ELSE xItemValue[t]]

(* Mutant of xEventGroupSetBits: the bits a waiter clears are cleared      *)
(* before the next waiter is looked at, which then is not woken.           *)
SetBitsClearsAtOnce(B) ==
    LET bits     == uxEventBits \cup B
        clearing == {t \in Matched(bits) : "clear" \in xItemValue[t].control}
        woken    == {t \in Matched(bits) : t \in clearing => t = CHOOSE u \in clearing : TRUE}
    IN  /\ uxEventBits' = bits \ BitsToClear(woken)
        /\ xTasksWaitingForBits' = xTasksWaitingForBits \ woken
        /\ xItemValue' = Unblocked(woken, bits)
        /\ UNCHANGED call

(* Another: the walk ends at the first match.                              *)
SetBitsWakesOne(B) ==
    LET bits  == uxEventBits \cup B
        woken == {t \in Matched(bits) : t = CHOOSE u \in Matched(bits) : TRUE}
    IN  /\ uxEventBits' = bits \ BitsToClear(woken)
        /\ xTasksWaitingForBits' = xTasksWaitingForBits \ woken
        /\ xItemValue' = Unblocked(woken, bits)
        /\ UNCHANGED call

(* xEventGroupSetBits.  Constrains groupVars.                              *)
xEventGroupSetBits(B) ==
    LET bits  == uxEventBits \cup B
        woken == Matched(bits)
    IN  /\ uxEventBits' = bits \ BitsToClear(woken)
        /\ xTasksWaitingForBits' = xTasksWaitingForBits \ woken
        /\ xItemValue' = Unblocked(woken, bits)
        /\ UNCHANGED call

(* xEventGroupClearBits.                                                   *)
xEventGroupClearBits(B) ==
    /\ uxEventBits' = uxEventBits \ B
    /\ UNCHANGED <<xTasksWaitingForBits, xItemValue, call>>

(* The task t waits: vTaskPlaceOnUnorderedEventList.                       *)
WaitControl(c) == {x \in {"clear", "all"} : IF x = "clear" THEN c.clear ELSE c.all}

PlaceOnUnorderedEventList(t, waiting, values, c) ==
    /\ xTasksWaitingForBits' = waiting \cup {t}
    /\ xItemValue' = [values EXCEPT ![t] = [bits |-> c.bits, control |-> WaitControl(c)]]
    /\ call' = [call EXCEPT ![t] = c]

(* xEventGroupWaitBits by t, the call being c, up to its sleep.  A call    *)
(* without block time whose condition is not met only reads the bits.      *)
xEventGroupWaitBits(t, c) ==
    /\ call[t] = NoCall
    /\ IF prvTestWaitCondition(uxEventBits, c.bits, c.all)
       THEN /\ c.clear
            /\ uxEventBits' = uxEventBits \ c.bits
            /\ UNCHANGED <<xTasksWaitingForBits, xItemValue, call>>
       ELSE /\ PlaceOnUnorderedEventList(t, xTasksWaitingForBits, xItemValue, c)
            /\ UNCHANGED uxEventBits

(* All have come, bits being the event bits before those the rendezvous    *)
(* clears were cleared, rest those after; a mutant that looks at the       *)
(* latter.                                                                 *)
AllAreStillSet(bits, rest) == AllBits \subseteq rest
AllHaveCome(bits, rest) == AllBits \subseteq bits

(* xEventGroupSync by t, up to its sleep: it sets the bit of t, whom that  *)
(* completes is woken, and t sleeps unless it is the last to come or has   *)
(* no block time.                                                          *)
xEventGroupSync(t, wait, timed) ==
    LET bits  == uxEventBits \cup {RendezvousBit[t]}
        woken == Matched(bits)
        rest  == bits \ BitsToClear(woken)
        met   == AllHaveCome(bits, rest)
        c     == [op |-> "sync", bits |-> AllBits, clear |-> TRUE, all |-> TRUE, timed |-> timed]
    IN  /\ call[t] = NoCall
        /\ uxEventBits' = IF met THEN rest \ AllBits ELSE rest
        /\ IF wait /\ ~met
           THEN PlaceOnUnorderedEventList(t, xTasksWaitingForBits \ woken,
                                          Unblocked(woken, bits), c)
           ELSE /\ xTasksWaitingForBits' = xTasksWaitingForBits \ woken
                /\ xItemValue' = Unblocked(woken, bits)
                /\ UNCHANGED call

(* The tick that ends the wait of t: it leaves the list, its value stays.  *)
WaitTimesOut(t) ==
    /\ t \in xTasksWaitingForBits
    /\ call[t].timed
    /\ xTasksWaitingForBits' = xTasksWaitingForBits \ {t}
    /\ UNCHANGED <<uxEventBits, xItemValue, call>>

(* t runs again and its call returns.  If it timed out it takes what has   *)
(* been set since.                                                         *)
WaitReturns(t) ==
    /\ call[t] # NoCall
    /\ t \notin xTasksWaitingForBits
    /\ uxEventBits' =
           IF /\ "unblocked" \notin xItemValue[t].control
              /\ call[t].clear
              /\ prvTestWaitCondition(uxEventBits, call[t].bits, call[t].all)
           THEN uxEventBits \ call[t].bits
           ELSE uxEventBits
    /\ xItemValue' = [xItemValue EXCEPT ![t] = NotInUse]
    /\ call' = [call EXCEPT ![t] = NoCall]
    /\ UNCHANGED xTasksWaitingForBits

-----------------------------------------------------------------------------
(* Properties.                                                             *)

(* No waiter is overlooked: nobody stays on the list of an event group     *)
(* whose bits meet its condition, whoever set them and in whatever order   *)
(* setters, waiters, time-outs and clearing came.                          *)
NoWaiterOverlooked == Matched(uxEventBits) = {}

(* A rendezvous completes: it does not happen that all its tasks wait in   *)
(* xEventGroupSync, each for the others, whatever became of earlier rounds *)
(* that some of them left by a time-out.                                   *)
RendezvousCompletes ==
    ~ \A t \in User : t \in xTasksWaitingForBits /\ call[t].op = "sync"
=============================================================================
