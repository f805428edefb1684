---------------------------- MODULE TimersProofs ----------------------------
(***************************************************************************)
(* Proofs about Timers, for any timers, periods, tasks, bits and waits and *)
(* any width of the tick count: first of the event group that tasks and    *)
(* the daemon drive, then of the daemon and its lists, and at the end that *)
(* the timers keep what TimerSpec promises.                                *)
(***************************************************************************)
EXTENDS Timers, TLAPS, SequenceTheorems

-----------------------------------------------------------------------------
(* The inductive invariant.                                                *)

(* A task is in no call, in one of the waits, or at the rendezvous.        *)
SyncCall == [op : {"sync"}, bits : {AllBits}, clear : {TRUE}, all : {TRUE}, timed : BOOLEAN]

CallsAreLegal == call \in [User -> {NoCall} \cup WaitCalls \cup SyncCall]

(* The item of a waiter holds what its call waits for.                     *)
ItemsHoldCalls ==
    \A t \in xTasksWaitingForBits :
        /\ call[t] # NoCall
        /\ xItemValue[t] = [bits |-> call[t].bits, control |-> WaitControl(call[t])]

(* Who waits at the rendezvous has its bit set.                            *)
ComersHaveTheirBit ==
    \A t \in xTasksWaitingForBits : call[t].op = "sync" => RendezvousBit[t] \in uxEventBits

(* The commands on their way to the daemon.                                *)
GroupMessage ==
    [id : {"setBits", "clearBits"}, timer : {NoTimer}, value : {0}, bits : BitsToSet]

TimerMessage ==
    [id : {"start", "stop", "changePeriod", "delete"}, timer : Timer, value : TickType,
     bits : {{}}]

MessagesAreLegal ==
    /\ xTimerQueue \in Seq(GroupMessage \cup TimerMessage)
    /\ xTickCount \in TickType
    /\ asked \in TickType \cup {NoTime}

GroupInv ==
    /\ GroupTypeOK
    /\ CallsAreLegal
    /\ ItemsHoldCalls
    /\ ComersHaveTheirBit
    /\ NoWaiterOverlooked

IInv == GroupInv /\ MessagesAreLegal

-----------------------------------------------------------------------------
(* Conditions, waits and waiters.                                          *)

(* Clearing bits meets no condition.                                       *)
LEMMA ConditionIsMonotone ==
    ASSUME NEW few, NEW many, few \subseteq many, NEW wanted, NEW all,
           prvTestWaitCondition(few, wanted, all)
    PROVE  prvTestWaitCondition(many, wanted, all)
BY DEF prvTestWaitCondition

LEMMA NobodyElseMatches ==
    ASSUME NEW few, NEW many, few \subseteq many
    PROVE  Matched(few) \subseteq Matched(many)
BY DEF Matched, prvTestWaitCondition

(* The control bits are those of the call.                                 *)
LEMMA ControlBits ==
    ASSUME NEW c
    PROVE  /\ WaitControl(c) \subseteq {"clear", "all"}
           /\ "all" \in WaitControl(c) <=> c.all
           /\ "clear" \in WaitControl(c) <=> c.clear
BY DEF WaitControl

LEMMA LegalCalls ==
    ASSUME CallsAreLegal, NEW t \in User, call[t] # NoCall
    PROVE  /\ call[t] \in WaitCalls \/ call[t] \in SyncCall
           /\ call[t].bits \subseteq Bits
           /\ call[t].clear \in BOOLEAN /\ call[t].all \in BOOLEAN
           /\ call[t].op = "sync" => call[t] \in SyncCall
           /\ call[t].op # "sync" => call[t].bits \cap AllBits = {}
<1>1. AllBits \subseteq Bits
  BY EventGroupAssumption DEF AllBits
<1>2. call[t] \in WaitCalls \/ call[t] \in SyncCall
  BY DEF CallsAreLegal
<1>3. CASE call[t] \in WaitCalls
  <2>1. call[t].bits \cap AllBits = {}
    BY <1>3, EventGroupAssumption DEF AllBits
  <2> QED
    BY <1>3, <2>1, EventGroupAssumption
<1>4. CASE call[t] \in SyncCall
  BY <1>1, <1>4 DEF SyncCall
<1> QED
  BY <1>2, <1>3, <1>4

(* Of those who wait at the rendezvous, the bits wake all or none; and if  *)
(* they wake none, what the others clear is not a rendezvous bit.          *)
LEMMA RendezvousWakesAll ==
    ASSUME GroupTypeOK, CallsAreLegal, ItemsHoldCalls, NEW bits,
           NEW t \in xTasksWaitingForBits, call[t].op = "sync"
    PROVE  t \in Matched(bits) <=> AllBits \subseteq bits
<1>1. t \in User
  BY DEF GroupTypeOK
<1>2. call[t] \in SyncCall
  BY <1>1, LegalCalls DEF ItemsHoldCalls
<1>3. xItemValue[t].bits = AllBits /\ "all" \in xItemValue[t].control
  <2>1. call[t].all /\ call[t].bits = AllBits
    BY <1>2 DEF SyncCall
  <2>2. xItemValue[t] = [bits |-> call[t].bits, control |-> WaitControl(call[t])]
    BY DEF ItemsHoldCalls
  <2> QED
    BY <2>1, <2>2, ControlBits
<1>4. t \in Matched(bits)
         <=> prvTestWaitCondition(bits, xItemValue[t].bits, "all" \in xItemValue[t].control)
  BY DEF Matched
<1> QED
  BY <1>3, <1>4 DEF prvTestWaitCondition

LEMMA WaitsLeaveRendezvousBits ==
    ASSUME GroupTypeOK, CallsAreLegal, ItemsHoldCalls, NEW bits, ~(AllBits \subseteq bits)
    PROVE  BitsToClear(Matched(bits)) \cap AllBits = {}
<1> SUFFICES ASSUME NEW u \in Matched(bits)
             PROVE  xItemValue[u].bits \cap AllBits = {}
  BY DEF BitsToClear
<1>1. u \in xTasksWaitingForBits /\ u \in User
  BY DEF Matched, GroupTypeOK
<1>2. call[u].op # "sync"
  BY <1>1, RendezvousWakesAll
<1>3. /\ call[u] # NoCall
      /\ xItemValue[u] = [bits |-> call[u].bits, control |-> WaitControl(call[u])]
  BY <1>1 DEF ItemsHoldCalls
<1>4. xItemValue[u].bits = call[u].bits
  BY <1>3
<1> QED
  BY <1>1, <1>2, <1>3, <1>4, LegalCalls

(* Who stays when bits are set: its condition is not met, not even by the  *)
(* bits before clearing, and if it has come to the rendezvous its bit is   *)
(* still there.                                                            *)
LEMMA SettingWakes ==
    ASSUME GroupInv, NEW bits \in SUBSET Bits, uxEventBits \subseteq bits,
           NEW t \in xTasksWaitingForBits, t \notin Matched(bits)
    PROVE  /\ ~prvTestWaitCondition(bits, xItemValue[t].bits, "all" \in xItemValue[t].control)
           /\ Unblocked(Matched(bits), bits)[t] = xItemValue[t]
           /\ call[t].op = "sync" => /\ ~(AllBits \subseteq bits)
                                     /\ RendezvousBit[t] \in bits \ BitsToClear(Matched(bits))
<1>1. t \in User
  BY DEF GroupInv, GroupTypeOK
<1>2. ~prvTestWaitCondition(bits, xItemValue[t].bits, "all" \in xItemValue[t].control)
  BY DEF Matched
<1>3. Unblocked(Matched(bits), bits)[t] = xItemValue[t]
  BY <1>1 DEF Unblocked
<1>4. ASSUME call[t].op = "sync"
      PROVE  ~(AllBits \subseteq bits) /\ RendezvousBit[t] \in bits \ BitsToClear(Matched(bits))
  <2>1. ~(AllBits \subseteq bits)
    BY <1>4, RendezvousWakesAll DEF GroupInv
  <2>2. BitsToClear(Matched(bits)) \cap AllBits = {}
    BY <2>1, WaitsLeaveRendezvousBits DEF GroupInv
  <2>3. RendezvousBit[t] \in AllBits
    BY <1>1 DEF AllBits
  <2>4. RendezvousBit[t] \in uxEventBits
    BY <1>4 DEF GroupInv, ComersHaveTheirBit
  <2> QED
    BY <2>1, <2>2, <2>3, <2>4
<1> QED
  BY <1>2, <1>3, <1>4

LEMMA ItemsStayTyped ==
    ASSUME GroupTypeOK, NEW S, NEW bits \in SUBSET Bits
    PROVE  Unblocked(S, bits) \in [User -> [bits : SUBSET Bits,
                                          control : SUBSET {"clear", "all", "unblocked"}]]
<1>1. [bits |-> bits, control |-> {"unblocked"}]
          \in [bits : SUBSET Bits, control : SUBSET {"clear", "all", "unblocked"}]
  OBVIOUS
<1> QED
  BY <1>1 DEF GroupTypeOK, Unblocked

(* The invariant after a step: what has to be shown of those who wait.     *)
LEMMA InvariantAfter ==
    ASSUME GroupTypeOK', CallsAreLegal',
           \A t \in xTasksWaitingForBits' :
               /\ call'[t] # NoCall
               /\ xItemValue'[t] = [bits |-> call'[t].bits, control |-> WaitControl(call'[t])]
               /\ ~prvTestWaitCondition(uxEventBits', xItemValue'[t].bits,
                                        "all" \in xItemValue'[t].control)
               /\ call'[t].op = "sync" => RendezvousBit[t] \in uxEventBits'
    PROVE  GroupInv'
<1>1. ItemsHoldCalls'
  BY DEF ItemsHoldCalls
<1>2. ComersHaveTheirBit'
  BY DEF ComersHaveTheirBit
<1>3. NoWaiterOverlooked'
  BY DEF NoWaiterOverlooked, Matched
<1> QED
  BY <1>1, <1>2, <1>3 DEF GroupInv

-----------------------------------------------------------------------------
(* The steps on the event group.                                           *)

LEMMA SetBitsKeepsInv ==
    ASSUME GroupInv, NEW B \in BitsToSet, xEventGroupSetBits(B)
    PROVE  GroupInv'
<1> DEFINE bits  == uxEventBits \cup B
           woken == Matched(bits)
<1>1. bits \in SUBSET Bits
  BY EventGroupAssumption DEF GroupInv, GroupTypeOK
<1>2. /\ uxEventBits' = bits \ BitsToClear(woken)
      /\ xTasksWaitingForBits' = xTasksWaitingForBits \ woken
      /\ xItemValue' = Unblocked(woken, bits)
      /\ call' = call
  BY DEF xEventGroupSetBits
<1>3. GroupTypeOK'
  BY <1>1, <1>2, ItemsStayTyped DEF GroupInv, GroupTypeOK
<1>4. CallsAreLegal'
  BY <1>2 DEF GroupInv, CallsAreLegal, SyncCall, AllBits, NoCall
<1>5. ASSUME NEW t \in xTasksWaitingForBits'
      PROVE  /\ call'[t] # NoCall
             /\ xItemValue'[t] = [bits |-> call'[t].bits, control |-> WaitControl(call'[t])]
             /\ ~prvTestWaitCondition(uxEventBits', xItemValue'[t].bits,
                                      "all" \in xItemValue'[t].control)
             /\ call'[t].op = "sync" => RendezvousBit[t] \in uxEventBits'
  <2>1. t \in xTasksWaitingForBits /\ t \notin Matched(bits)
    BY <1>2
  <2>2. /\ ~prvTestWaitCondition(bits, xItemValue[t].bits, "all" \in xItemValue[t].control)
        /\ xItemValue'[t] = xItemValue[t]
        /\ call[t].op = "sync" => RendezvousBit[t] \in uxEventBits'
    BY <1>1, <1>2, <2>1, SettingWakes
  <2>3. ~prvTestWaitCondition(uxEventBits', xItemValue[t].bits, "all" \in xItemValue[t].control)
    <3>1. uxEventBits' \subseteq bits
      BY <1>2
    <3> HIDE DEF bits
    <3> QED
      BY <2>2, <3>1, ConditionIsMonotone
  <2>4. call[t] # NoCall /\ xItemValue[t] = [bits |-> call[t].bits, control |-> WaitControl(call[t])]
    BY <2>1 DEF GroupInv, ItemsHoldCalls
  <2> QED
    BY <1>2, <2>2, <2>3, <2>4
<1> QED
  BY <1>3, <1>4, <1>5, InvariantAfter

LEMMA ClearBitsKeepsInv ==
    ASSUME GroupInv, NEW B \in BitsToSet, xEventGroupClearBits(B)
    PROVE  GroupInv'
<1>1. /\ uxEventBits' = uxEventBits \ B
      /\ xTasksWaitingForBits' = xTasksWaitingForBits
      /\ xItemValue' = xItemValue
      /\ call' = call
  BY DEF xEventGroupClearBits
<1>2. GroupTypeOK'
  BY <1>1 DEF GroupInv, GroupTypeOK
<1>3. CallsAreLegal'
  BY <1>1 DEF GroupInv, CallsAreLegal, SyncCall, AllBits, NoCall
<1>4. ASSUME NEW t \in xTasksWaitingForBits
      PROVE  call[t].op = "sync" => RendezvousBit[t] \in uxEventBits'
  <2>1. RendezvousBit[t] \notin B
    BY EventGroupAssumption DEF GroupInv, GroupTypeOK
  <2> QED
    BY <1>1, <2>1 DEF GroupInv, ComersHaveTheirBit
<1>5. ItemsHoldCalls' /\ ComersHaveTheirBit'
  BY <1>1, <1>4 DEF GroupInv, ItemsHoldCalls, ComersHaveTheirBit
<1>6. NoWaiterOverlooked'
  <2>1. Matched(uxEventBits \ B) \subseteq Matched(uxEventBits)
    BY NobodyElseMatches
  <2> QED
    BY <1>1, <2>1 DEF GroupInv, NoWaiterOverlooked, Matched
<1> QED
  BY <1>2, <1>3, <1>5, <1>6 DEF GroupInv

LEMMA TimeOutKeepsInv ==
    ASSUME GroupInv, NEW t \in User, WaitTimesOut(t)
    PROVE  GroupInv'
<1>1. /\ xTasksWaitingForBits' = xTasksWaitingForBits \ {t}
      /\ UNCHANGED <<uxEventBits, xItemValue, call>>
  BY DEF WaitTimesOut
<1>2. GroupTypeOK' /\ CallsAreLegal'
  BY <1>1 DEF GroupInv, GroupTypeOK, CallsAreLegal, SyncCall, AllBits, NoCall
<1>3. ItemsHoldCalls' /\ ComersHaveTheirBit' /\ NoWaiterOverlooked'
  BY <1>1 DEF GroupInv, ItemsHoldCalls, ComersHaveTheirBit, NoWaiterOverlooked, Matched
<1> QED
  BY <1>2, <1>3 DEF GroupInv

(* A call that returns clears no bit that somebody at the rendezvous has   *)
(* brought: its own bits are others, or all have come and been woken.      *)
LEMMA ReturnKeepsInv ==
    ASSUME GroupInv, NEW t \in User, WaitReturns(t)
    PROVE  GroupInv'
<1>1. /\ call[t] # NoCall /\ t \notin xTasksWaitingForBits
      /\ xTasksWaitingForBits' = xTasksWaitingForBits
      /\ xItemValue' = [xItemValue EXCEPT ![t] = NotInUse]
      /\ call' = [call EXCEPT ![t] = NoCall]
  BY DEF WaitReturns
<1>2. \/ uxEventBits' = uxEventBits
      \/ /\ prvTestWaitCondition(uxEventBits, call[t].bits, call[t].all)
         /\ uxEventBits' = uxEventBits \ call[t].bits
  BY DEF WaitReturns
<1>3. uxEventBits' \subseteq uxEventBits
  BY <1>2
<1>4. GroupTypeOK'
  <2>1. NoCall \in CallType
    BY DEF NoCall, CallType
  <2>2. NotInUse \in [bits : SUBSET Bits, control : SUBSET {"clear", "all", "unblocked"}]
    BY DEF NotInUse
  <2> QED
    BY <1>1, <1>3, <2>1, <2>2 DEF GroupInv, GroupTypeOK
<1>5. CallsAreLegal'
  BY <1>1 DEF GroupInv, CallsAreLegal, SyncCall, AllBits, NoCall
<1>6. ASSUME NEW u \in xTasksWaitingForBits
      PROVE  /\ call'[u] # NoCall
             /\ xItemValue'[u] = [bits |-> call'[u].bits, control |-> WaitControl(call'[u])]
             /\ ~prvTestWaitCondition(uxEventBits', xItemValue'[u].bits,
                                      "all" \in xItemValue'[u].control)
             /\ call'[u].op = "sync" => RendezvousBit[u] \in uxEventBits'
  <2>1. u \in User /\ u # t
    BY <1>1 DEF GroupInv, GroupTypeOK
  <2>2. call'[u] = call[u] /\ xItemValue'[u] = xItemValue[u]
    BY <1>1, <2>1 DEF GroupInv, GroupTypeOK
  <2>3. call[u] # NoCall /\ xItemValue[u] = [bits |-> call[u].bits, control |-> WaitControl(call[u])]
    BY DEF GroupInv, ItemsHoldCalls
  <2>4. ~prvTestWaitCondition(uxEventBits, xItemValue[u].bits, "all" \in xItemValue[u].control)
    BY DEF GroupInv, NoWaiterOverlooked, Matched
  <2>5. ~prvTestWaitCondition(uxEventBits', xItemValue[u].bits, "all" \in xItemValue[u].control)
    BY <1>3, <2>4, ConditionIsMonotone
  <2>6. ASSUME call[u].op = "sync" PROVE RendezvousBit[u] \in uxEventBits'
    <3>1. RendezvousBit[u] \in uxEventBits /\ RendezvousBit[u] \in AllBits
      BY <2>1, <2>6 DEF GroupInv, ComersHaveTheirBit, AllBits
    <3>2. ~(AllBits \subseteq uxEventBits)
      BY <2>6, RendezvousWakesAll DEF GroupInv, NoWaiterOverlooked
    <3>3. CASE call[t].op = "sync"
      <4>1. call[t].bits = AllBits /\ call[t].all
        BY <1>1, <3>3, LegalCalls DEF GroupInv, SyncCall
      <4> QED
        BY <1>2, <3>1, <3>2, <4>1 DEF prvTestWaitCondition
    <3>4. CASE call[t].op # "sync"
      <4>1. call[t].bits \cap AllBits = {}
        BY <1>1, <3>4, LegalCalls DEF GroupInv
      <4> QED
        BY <1>2, <3>1, <4>1
    <3> QED
      BY <3>3, <3>4
  <2> QED
    BY <2>2, <2>3, <2>5, <2>6
<1> QED
  BY <1>1, <1>4, <1>5, <1>6, InvariantAfter

LEMMA WaitBitsKeepsInv ==
    ASSUME GroupInv, NEW t \in User, NEW c \in WaitCalls, xEventGroupWaitBits(t, c)
    PROVE  GroupInv'
<1>1. /\ c.bits \subseteq Bits /\ c.bits \cap AllBits = {} /\ c.op # "sync"
      /\ c \in CallType /\ c # NoCall
  <2>1. c.bits \cap AllBits = {}
    BY EventGroupAssumption DEF AllBits
  <2> QED
    BY <2>1, EventGroupAssumption DEF CallType, NoCall
<1>2. t \notin xTasksWaitingForBits
  BY DEF xEventGroupWaitBits, GroupInv, ItemsHoldCalls
<1>3. CASE prvTestWaitCondition(uxEventBits, c.bits, c.all)
  <2>1. /\ uxEventBits' = uxEventBits \ c.bits
        /\ UNCHANGED <<xTasksWaitingForBits, xItemValue, call>>
    BY <1>3 DEF xEventGroupWaitBits
  <2>2. GroupTypeOK' /\ CallsAreLegal'
    BY <2>1 DEF GroupInv, GroupTypeOK, CallsAreLegal, SyncCall, AllBits, NoCall
  <2>3. ComersHaveTheirBit'
    <3> SUFFICES ASSUME NEW u \in xTasksWaitingForBits, call[u].op = "sync"
                 PROVE  RendezvousBit[u] \in uxEventBits \ c.bits
      BY <2>1 DEF ComersHaveTheirBit
    <3>1. RendezvousBit[u] \in AllBits
      BY DEF GroupInv, GroupTypeOK, AllBits
    <3> QED
      BY <1>1, <3>1 DEF GroupInv, ComersHaveTheirBit
  <2>4. NoWaiterOverlooked'
    <3>1. Matched(uxEventBits \ c.bits) \subseteq Matched(uxEventBits)
      BY NobodyElseMatches
    <3> QED
      BY <2>1, <3>1 DEF GroupInv, NoWaiterOverlooked, Matched
  <2>5. ItemsHoldCalls'
    BY <2>1 DEF GroupInv, ItemsHoldCalls
  <2> QED
    BY <2>2, <2>3, <2>4, <2>5 DEF GroupInv
<1>4. CASE ~prvTestWaitCondition(uxEventBits, c.bits, c.all)
  <2>1. /\ uxEventBits' = uxEventBits
        /\ xTasksWaitingForBits' = xTasksWaitingForBits \cup {t}
        /\ xItemValue' = [xItemValue EXCEPT ![t] = [bits |-> c.bits, control |-> WaitControl(c)]]
        /\ call' = [call EXCEPT ![t] = c]
    BY <1>4 DEF xEventGroupWaitBits, PlaceOnUnorderedEventList
  <2>2. [bits |-> c.bits, control |-> WaitControl(c)]
            \in [bits : SUBSET Bits, control : SUBSET {"clear", "all", "unblocked"}]
    BY <1>1, ControlBits
  <2>3. GroupTypeOK'
    BY <1>1, <2>1, <2>2 DEF GroupInv, GroupTypeOK
  <2>4. CallsAreLegal'
    BY <2>1 DEF GroupInv, CallsAreLegal, SyncCall, AllBits, NoCall
  <2>5. ASSUME NEW u \in xTasksWaitingForBits'
        PROVE  /\ call'[u] # NoCall
               /\ xItemValue'[u] = [bits |-> call'[u].bits, control |-> WaitControl(call'[u])]
               /\ ~prvTestWaitCondition(uxEventBits', xItemValue'[u].bits,
                                        "all" \in xItemValue'[u].control)
               /\ call'[u].op = "sync" => RendezvousBit[u] \in uxEventBits'
    <3>1. CASE u = t
      <4>1. call'[u] = c /\ xItemValue'[u] = [bits |-> c.bits, control |-> WaitControl(c)]
        BY <2>1, <3>1 DEF GroupInv, GroupTypeOK
      <4>2. ~prvTestWaitCondition(uxEventBits', c.bits, "all" \in WaitControl(c))
        BY <1>4, <2>1, ControlBits DEF prvTestWaitCondition
      <4> QED
        BY <1>1, <4>1, <4>2
    <3>2. CASE u # t
      <4>1. u \in xTasksWaitingForBits /\ u \in User
        BY <2>1, <3>2 DEF GroupInv, GroupTypeOK
      <4>2. call'[u] = call[u] /\ xItemValue'[u] = xItemValue[u]
        BY <2>1, <3>2, <4>1 DEF GroupInv, GroupTypeOK
      <4>3. /\ call[u] # NoCall
            /\ xItemValue[u] = [bits |-> call[u].bits, control |-> WaitControl(call[u])]
            /\ call[u].op = "sync" => RendezvousBit[u] \in uxEventBits
        BY <4>1 DEF GroupInv, ItemsHoldCalls, ComersHaveTheirBit
      <4>4. ~prvTestWaitCondition(uxEventBits, xItemValue[u].bits, "all" \in xItemValue[u].control)
        BY <4>1 DEF GroupInv, NoWaiterOverlooked, Matched
      <4> QED
        BY <2>1, <4>2, <4>3, <4>4
    <3> QED
      BY <3>1, <3>2
  <2> QED
    BY <2>3, <2>4, <2>5, InvariantAfter
<1> QED
  BY <1>3, <1>4

(* xEventGroupSync: its bit wakes all who wait at the rendezvous or, if    *)
(* the others have not all come, none of them.                             *)
LEMMA SyncKeepsInv ==
    ASSUME GroupInv, NEW t \in User, NEW wait \in BOOLEAN, NEW timed \in BOOLEAN,
           xEventGroupSync(t, wait, timed)
    PROVE  GroupInv'
<1> DEFINE bits  == uxEventBits \cup {RendezvousBit[t]}
           woken == Matched(bits)
           rest  == bits \ BitsToClear(woken)
           met   == AllBits \subseteq bits
           c     == [op |-> "sync", bits |-> AllBits, clear |-> TRUE, all |-> TRUE,
                     timed |-> timed]
<1>1. bits \in SUBSET Bits /\ AllBits \subseteq Bits /\ RendezvousBit[t] \in AllBits
  BY EventGroupAssumption DEF GroupInv, GroupTypeOK, AllBits
<1>2. /\ uxEventBits' = IF met THEN rest \ AllBits ELSE rest
      /\ IF wait /\ ~met
         THEN /\ xTasksWaitingForBits' = (xTasksWaitingForBits \ woken) \cup {t}
              /\ xItemValue' = [Unblocked(woken, bits) EXCEPT
                                   ![t] = [bits |-> c.bits, control |-> WaitControl(c)]]
              /\ call' = [call EXCEPT ![t] = c]
         ELSE /\ xTasksWaitingForBits' = xTasksWaitingForBits \ woken
              /\ xItemValue' = Unblocked(woken, bits)
              /\ call' = call
  BY DEF xEventGroupSync, AllHaveCome, PlaceOnUnorderedEventList
<1>3. t \notin xTasksWaitingForBits
  BY DEF xEventGroupSync, GroupInv, ItemsHoldCalls
<1>4. uxEventBits' \subseteq bits
  BY <1>2
<1>5. Unblocked(woken, bits) \in [User -> [bits : SUBSET Bits,
                                          control : SUBSET {"clear", "all", "unblocked"}]]
  BY <1>1, ItemsStayTyped DEF GroupInv
<1>6. /\ c \in SyncCall /\ c \in CallType /\ c # NoCall
      /\ [bits |-> c.bits, control |-> WaitControl(c)]
             \in [bits : SUBSET Bits, control : SUBSET {"clear", "all", "unblocked"}]
  <2>1. c \in SyncCall
    BY DEF SyncCall
  <2>2. c \in CallType /\ c # NoCall
    BY <1>1 DEF CallType, NoCall
  <2> QED
    BY <1>1, <2>1, <2>2, ControlBits
<1>7. GroupTypeOK'
  <2>1. uxEventBits' \subseteq Bits
    BY <1>1, <1>4
  <2>2. xTasksWaitingForBits' \subseteq User
    BY <1>2 DEF GroupInv, GroupTypeOK
  <2>3. call' \in [User -> CallType]
    BY <1>2, <1>6 DEF GroupInv, GroupTypeOK
  <2>4. xItemValue' \in [User -> [bits : SUBSET Bits, control : SUBSET {"clear", "all", "unblocked"}]]
    BY <1>2, <1>5, <1>6
  <2> QED
    BY <2>1, <2>2, <2>3, <2>4 DEF GroupTypeOK
<1>8. CallsAreLegal'
  <2>1. call' \in [User -> {NoCall} \cup WaitCalls \cup SyncCall]
    BY <1>2, <1>6 DEF GroupInv, CallsAreLegal
  <2> QED
    BY <2>1 DEF CallsAreLegal, SyncCall, AllBits, NoCall
<1>9. ASSUME NEW u \in xTasksWaitingForBits'
      PROVE  /\ call'[u] # NoCall
             /\ xItemValue'[u] = [bits |-> call'[u].bits, control |-> WaitControl(call'[u])]
             /\ ~prvTestWaitCondition(uxEventBits', xItemValue'[u].bits,
                                      "all" \in xItemValue'[u].control)
             /\ call'[u].op = "sync" => RendezvousBit[u] \in uxEventBits'
  <2>1. CASE u = t
    <3>1. wait /\ ~met
      BY <1>2, <1>3, <2>1
    <3>2. call'[u] = c /\ xItemValue'[u] = [bits |-> AllBits, control |-> WaitControl(c)]
      BY <1>2, <1>5, <2>1, <3>1 DEF GroupInv, GroupTypeOK
    <3>3. "all" \in WaitControl(c)
      BY ControlBits
    <3>4. ~(AllBits \subseteq uxEventBits')
      BY <1>4, <3>1
    <3>5. RendezvousBit[u] \in uxEventBits'
      <4>1. BitsToClear(woken) \cap AllBits = {}
        BY <3>1, WaitsLeaveRendezvousBits DEF GroupInv
      <4> QED
        BY <1>1, <1>2, <2>1, <3>1, <4>1
    <3>6. ~prvTestWaitCondition(uxEventBits', AllBits, "all" \in WaitControl(c))
      BY <3>3, <3>4 DEF prvTestWaitCondition
    <3> HIDE DEF c
    <3>7. call'[u] # NoCall /\ c.bits = AllBits
      BY <1>6, <3>2 DEF c
    <3> QED
      BY <3>2, <3>5, <3>6, <3>7
  <2>2. CASE u # t
    <3>1. u \in xTasksWaitingForBits /\ u \notin woken /\ u \in User
      <4> HIDE DEF woken
      <4>1. xTasksWaitingForBits' \subseteq (xTasksWaitingForBits \ woken) \cup {t}
        BY <1>2
      <4>2. u \in xTasksWaitingForBits \ woken
        BY <2>2, <4>1
      <4> QED
        BY <4>2 DEF GroupInv, GroupTypeOK
    <3>2. call'[u] = call[u] /\ xItemValue'[u] = Unblocked(woken, bits)[u]
      BY <1>2, <1>5, <2>2, <3>1 DEF GroupInv, GroupTypeOK
    <3>3. /\ ~prvTestWaitCondition(bits, xItemValue[u].bits, "all" \in xItemValue[u].control)
          /\ xItemValue'[u] = xItemValue[u]
          /\ call[u].op = "sync" => ~met /\ RendezvousBit[u] \in rest
      BY <1>1, <3>1, <3>2, SettingWakes
    <3>4. ~prvTestWaitCondition(uxEventBits', xItemValue[u].bits, "all" \in xItemValue[u].control)
      <4> HIDE DEF bits
      <4> QED
        BY <1>4, <3>3, ConditionIsMonotone
    <3>5. call[u] # NoCall /\ xItemValue[u] = [bits |-> call[u].bits, control |-> WaitControl(call[u])]
      BY <3>1 DEF GroupInv, ItemsHoldCalls
    <3> QED
      BY <1>2, <3>2, <3>3, <3>4, <3>5
  <2> QED
    BY <2>1, <2>2
<1> QED
  BY <1>7, <1>8, <1>9, InvariantAfter

-----------------------------------------------------------------------------
(* The commands and the daemon.                                            *)

(* What a step does to the event group.                                    *)
GroupStep ==
    \/ UNCHANGED groupVars
    \/ \E B \in BitsToSet : xEventGroupSetBits(B) \/ xEventGroupClearBits(B)
    \/ \E t \in User :
           \/ \E c \in WaitCalls : xEventGroupWaitBits(t, c)
           \/ \E wait, timed \in BOOLEAN : xEventGroupSync(t, wait, timed)
           \/ WaitTimesOut(t)
           \/ WaitReturns(t)

LEMMA FirstMessage ==
    ASSUME MessagesAreLegal, xTimerQueue # <<>>
    PROVE  /\ Head(xTimerQueue) \in GroupMessage \cup TimerMessage
           /\ Tail(xTimerQueue) \in Seq(GroupMessage \cup TimerMessage)
           /\ Len(Tail(xTimerQueue)) = Len(xTimerQueue) - 1
BY DEF MessagesAreLegal

LEMMA StepsOnTheGroup ==
    ASSUME MessagesAreLegal, [TimersNext]_allVars
    PROVE  GroupStep
<1>1. CASE prvProcessReceivedCommands
  <2>1. CASE xTimerQueue = <<>>
    BY <1>1, <2>1 DEF prvProcessReceivedCommands, GroupStep
  <2>2. CASE xTimerQueue # <<>>
    <3> DEFINE m == Head(xTimerQueue)
    <3>1. CASE TimerCommand(m)
      BY <3>1 DEF TimerCommand, GroupStep
    <3>2. CASE PendedCall(m)
      <4>1. m.id = "setBits" \/ m.id = "clearBits"
        BY <3>2 DEF PendedCall
      <4>2. m.bits \in BitsToSet
        BY <2>2, <4>1, FirstMessage DEF GroupMessage, TimerMessage
      <4>3. xEventGroupSetBits(m.bits) \/ xEventGroupClearBits(m.bits)
        BY <3>2 DEF PendedCall
      <4> QED
        BY <4>2, <4>3 DEF GroupStep
    <3> QED
      BY <1>1, <2>2, <3>1, <3>2 DEF prvProcessReceivedCommands
  <2> QED
    BY <2>1, <2>2
<1>2. CASE GroupCall
  BY <1>2 DEF GroupCall, SetBits, WaitBits, GroupStep
<1>3. CASE UNCHANGED allVars
  BY <1>3 DEF allVars, GroupStep
<1>4. CASE \/ prvProcessTimerOrBlockTask \/ Tick \/ Ask \/ StartFails
           \/ \E t \in Timer : vTimerSetReloadMode(t)
  BY <1>4 DEF prvProcessTimerOrBlockTask, Tick, Ask, StartFails, vTimerSetReloadMode, GroupStep
<1>5. CASE \/ \E t \in Timer : \/ xTimerStart(t) \/ xTimerStop(t) \/ xTimerDelete(t)
                              \/ xTimerChangePeriod(t)
           \/ PendFunctionCall("setFromISR", "setBits")
           \/ PendFunctionCall("clearFromISR", "clearBits")
  <2>1. PICK m : xTimerGenericCommand(m)
    BY <1>5 DEF xTimerStart, xTimerStop, xTimerDelete, xTimerChangePeriod, PendFunctionCall
  <2> QED
    BY <2>1 DEF xTimerGenericCommand, GroupStep
<1> QED
  BY <1>1, <1>2, <1>3, <1>4, <1>5 DEF TimersNext

LEMMA GroupStepKeepsInv ==
    ASSUME GroupInv, GroupStep
    PROVE  GroupInv'
<1>1. CASE UNCHANGED groupVars
  BY <1>1 DEF groupVars, GroupInv, GroupTypeOK, CallsAreLegal, ItemsHoldCalls,
              ComersHaveTheirBit, NoWaiterOverlooked, Matched, SyncCall, AllBits, NoCall
<1>2. CASE ~(UNCHANGED groupVars)
  BY <1>2, SetBitsKeepsInv, ClearBitsKeepsInv, WaitBitsKeepsInv, SyncKeepsInv, TimeOutKeepsInv,
     ReturnKeepsInv DEF GroupStep
<1> QED
  BY <1>1, <1>2

(* A command that is sent, to a timer or to the group.                     *)
LEMMA SendingKeepsMessages ==
    ASSUME MessagesAreLegal, NEW m \in GroupMessage \cup TimerMessage, xTimerGenericCommand(m),
           asked' \in TickType \cup {NoTime}
    PROVE  MessagesAreLegal'
<1>1. xTimerQueue' = Append(xTimerQueue, m) /\ xTickCount' = xTickCount
  BY DEF xTimerGenericCommand, timeVars
<1>2. Append(xTimerQueue, m) \in Seq(GroupMessage \cup TimerMessage)
  BY DEF MessagesAreLegal
<1> QED
  BY <1>1, <1>2 DEF MessagesAreLegal, GroupMessage, TimerMessage, TickType, NoTime, Modulus

LEMMA MessagesStayLegal ==
    ASSUME MessagesAreLegal, [TimersNext]_allVars
    PROVE  MessagesAreLegal'
<1>1. CASE \/ prvProcessTimerOrBlockTask \/ GroupCall \/ UNCHANGED allVars
           \/ \E t \in Timer : vTimerSetReloadMode(t)
  BY <1>1 DEF prvProcessTimerOrBlockTask, GroupCall, vTimerSetReloadMode, allVars, timeVars,
              MessagesAreLegal, GroupMessage, TimerMessage, TickType, NoTime, Modulus
<1>2. CASE prvProcessReceivedCommands
  <2>1. xTimerQueue' = xTimerQueue \/ (xTimerQueue # <<>> /\ xTimerQueue' = Tail(xTimerQueue))
    BY <1>2 DEF prvProcessReceivedCommands
  <2>2. xTimerQueue' \in Seq(GroupMessage \cup TimerMessage)
    BY <2>1, FirstMessage DEF MessagesAreLegal
  <2>3. xTickCount' = xTickCount /\ asked' = asked
    BY <1>2 DEF prvProcessReceivedCommands
  <2> QED
    BY <2>2, <2>3 DEF MessagesAreLegal, GroupMessage, TimerMessage, TickType, NoTime, Modulus
<1>3. CASE Tick
  <2>1. xTickCount' \in TickType
    BY <1>3, TimersAssumption DEF Tick, Plus, Modulus, TickType, MessagesAreLegal
  <2>2. xTimerQueue' = xTimerQueue /\ asked' = asked
    BY <1>3 DEF Tick
  <2> QED
    BY <2>1, <2>2 DEF MessagesAreLegal, GroupMessage, TimerMessage, TickType, NoTime, Modulus
<1>4. CASE Ask \/ StartFails
  <2>1. xTimerQueue' = xTimerQueue /\ xTickCount' = xTickCount
    BY <1>4 DEF Ask, StartFails, timeVars
  <2>2. asked' \in TickType \cup {NoTime}
    BY <1>4 DEF Ask, StartFails, MessagesAreLegal
  <2> QED
    BY <2>1, <2>2 DEF MessagesAreLegal, GroupMessage, TimerMessage, TickType, NoTime, Modulus
<1>5. CASE \E t \in Timer : \/ xTimerStart(t) \/ xTimerStop(t) \/ xTimerDelete(t)
                           \/ xTimerChangePeriod(t)
  <2> PICK t \in Timer : xTimerStart(t) \/ xTimerStop(t) \/ xTimerDelete(t) \/ xTimerChangePeriod(t)
    BY <1>5
  <2>1. 0 \in TickType /\ Periods \subseteq TickType
    BY TimersAssumption DEF TickType
  <2>2. \A id \in {"start", "stop", "changePeriod", "delete"}, v \in TickType :
            Command(id, t, v) \in TimerMessage
    BY DEF Command, TimerMessage
  <2>3. CASE xTimerStart(t)
    <3>1. asked \in TickType
      BY <2>3 DEF xTimerStart, MessagesAreLegal
    <3>2. Command("start", t, asked) \in TimerMessage
      BY <2>2, <3>1
    <3> QED
      BY <2>3, <3>2, SendingKeepsMessages DEF xTimerStart
  <2>4. CASE xTimerStop(t) \/ xTimerDelete(t) \/ xTimerChangePeriod(t)
    <3>1. PICK m \in TimerMessage : xTimerGenericCommand(m)
      BY <2>1, <2>2, <2>4 DEF xTimerStop, xTimerDelete, xTimerChangePeriod
    <3>2. asked' \in TickType \cup {NoTime}
      BY <2>4 DEF xTimerStop, xTimerDelete, xTimerChangePeriod, MessagesAreLegal
    <3> QED
      BY <3>1, <3>2, SendingKeepsMessages
  <2> QED
    BY <2>3, <2>4
<1>6. CASE \/ PendFunctionCall("setFromISR", "setBits")
           \/ PendFunctionCall("clearFromISR", "clearBits")
  <2>1. PICK m \in GroupMessage : xTimerGenericCommand(m)
    BY <1>6 DEF PendFunctionCall, GroupMessage
  <2>2. asked' \in TickType \cup {NoTime}
    BY <1>6 DEF PendFunctionCall, MessagesAreLegal
  <2> QED
    BY <2>1, <2>2, SendingKeepsMessages
<1> QED
  BY <1>1, <1>2, <1>3, <1>4, <1>5, <1>6 DEF TimersNext

-----------------------------------------------------------------------------
(* The theorems.                                                           *)

LEMMA InvHoldsAtFirst ==
    ASSUME TimersInit
    PROVE  IInv
<1>1. GroupInv
  <2>1. NoCall \in CallType
    BY DEF NoCall, CallType
  <2>2. NotInUse \in [bits : SUBSET Bits, control : SUBSET {"clear", "all", "unblocked"}]
    BY DEF NotInUse
  <2>3. GroupTypeOK
    BY <2>1, <2>2 DEF TimersInit, GroupInit, GroupTypeOK
  <2> QED
    BY <2>3 DEF TimersInit, GroupInit, GroupInv, CallsAreLegal, ItemsHoldCalls, ComersHaveTheirBit,
                NoWaiterOverlooked, Matched
<1>2. MessagesAreLegal
  <2>1. 0 \in TickType
    BY TimersAssumption DEF TickType
  <2> QED
    BY <2>1 DEF TimersInit, MessagesAreLegal
<1> QED
  BY <1>1, <1>2 DEF IInv

LEMMA StepKeepsInv ==
    ASSUME IInv, [TimersNext]_allVars
    PROVE  IInv'
BY StepsOnTheGroup, GroupStepKeepsInv, MessagesStayLegal DEF IInv

(* The inductive invariant: waiters are known by their items, who has come *)
(* to the rendezvous has its bit set, and what is sent to the daemon are   *)
(* legal commands.                                                         *)
THEOREM Invariance == TimersSpec => []IInv
<1>1. TimersInit => IInv
  BY InvHoldsAtFirst
<1>2. IInv /\ [TimersNext]_allVars => IInv'
  BY StepKeepsInv
<1> QED
  BY <1>1, <1>2, PTL DEF TimersSpec

(* Nobody stays on the list of an event group whose bits meet its          *)
(* condition (event_groups.c, xEventGroupSetBits), for any tasks, bits and *)
(* waits, and whatever the daemon has to do besides.                       *)
THEOREM NobodyIsOverlooked == TimersSpec => []NoWaiterOverlooked
<1>1. IInv => NoWaiterOverlooked
  BY DEF IInv, GroupInv
<1> QED
  BY <1>1, Invariance, PTL

(* The last task to come to a rendezvous (event_groups.c, xEventGroupSync) *)
(* does not wait: for any number of tasks and after any earlier rounds.    *)
THEOREM RendezvousIsCompleted == TimersSpec => []RendezvousCompletes
<1>1. ASSUME IInv, ~RendezvousCompletes
      PROVE  FALSE
  <2>1. PICK t \in User : TRUE
    BY EventGroupAssumption
  <2>2. \A u \in User : u \in xTasksWaitingForBits /\ call[u].op = "sync"
    BY <1>1 DEF RendezvousCompletes
  <2>3. AllBits \subseteq uxEventBits
    BY <1>1, <2>2 DEF IInv, GroupInv, ComersHaveTheirBit, AllBits
  <2>4. t \in Matched(uxEventBits)
    BY <1>1, <2>2, <2>3, RendezvousWakesAll DEF IInv, GroupInv
  <2> QED
    BY <1>1, <2>4 DEF IInv, GroupInv, NoWaiterOverlooked
<1>2. IInv => RendezvousCompletes
  BY <1>1
<1> QED
  BY <1>2, Invariance, PTL

(* One step of xEventGroupSetBits wakes all whose condition it meets, and  *)
(* clears nothing else than what they asked for.                           *)
LEMMA SettingDelivers ==
    ASSUME GroupTypeOK, NEW B, xEventGroupSetBits(B)
    PROVE  Delivered(uxEventBits \cup B)
<1> DEFINE bits == uxEventBits \cup B
<1>1. /\ uxEventBits' = bits \ BitsToClear(Matched(bits))
      /\ xTasksWaitingForBits' = xTasksWaitingForBits \ Matched(bits)
      /\ xItemValue' = Unblocked(Matched(bits), bits)
  BY DEF xEventGroupSetBits
<1>2. ASSUME NEW t \in Matched(bits)
      PROVE  /\ t \notin xTasksWaitingForBits'
             /\ xItemValue'[t] = [bits |-> bits, control |-> {"unblocked"}]
  <2>1. t \in User
    BY DEF Matched, GroupTypeOK
  <2> QED
    BY <1>1, <2>1 DEF Unblocked
<1>3. ASSUME NEW b \in bits \ uxEventBits'
      PROVE  \E t \in Matched(bits) : b \in xItemValue[t].bits /\ "clear" \in xItemValue[t].control
  BY <1>1 DEF BitsToClear
<1> QED
  BY <1>2, <1>3 DEF Delivered

(* A step that takes a command for the group off the queue is the          *)
(* daemon's, and does what the command says.                               *)
LEMMA DaemonDelivers ==
    ASSUME IInv, TimersNext, NEW B \in BitsToSet, SetByDaemon(B)
    PROVE  Delivered(uxEventBits \cup B)
<1> DEFINE m == Head(xTimerQueue)
<1>1. xTimerQueue # <<>> /\ m.id = "setBits" /\ m.bits = B /\ daemon = "commands"
      /\ Len(xTimerQueue') = Len(xTimerQueue) - 1
  BY FirstMessage DEF SetByDaemon, IInv
<1>2. Len(xTimerQueue) \in Nat
  BY DEF IInv, MessagesAreLegal
<1>3. xTimerQueue' # xTimerQueue
  BY <1>1, <1>2
<1>4. \A n : ~xTimerGenericCommand(n)
  <2> SUFFICES ASSUME NEW n, xTimerGenericCommand(n)
               PROVE  FALSE
    OBVIOUS
  <2>1. xTimerQueue' = Append(xTimerQueue, n)
    BY DEF xTimerGenericCommand
  <2>2. Len(xTimerQueue') = Len(xTimerQueue) + 1
    BY <2>1 DEF IInv, MessagesAreLegal
  <2> QED
    BY <1>1, <1>2, <2>2
<1>5. prvProcessReceivedCommands
  BY <1>3, <1>4 DEF TimersNext, prvProcessTimerOrBlockTask, Tick, Ask, StartFails, vTimerSetReloadMode,
                    xTimerStart, xTimerStop, xTimerDelete, xTimerChangePeriod, PendFunctionCall,
                    GroupCall
<1>6. TimerCommand(m) \/ PendedCall(m)
  BY <1>1, <1>5 DEF prvProcessReceivedCommands
<1>7. PendedCall(m)
  BY <1>1, <1>6 DEF TimerCommand
<1>8. xEventGroupSetBits(B)
  BY <1>1, <1>7 DEF PendedCall
<1> QED
  BY <1>8, SettingDelivers DEF IInv, GroupInv

(* Bits that are set, by a task or by the daemon for a handler, reach in   *)
(* one step all who wait for them, and none is lost (event_groups.c,       *)
(* xEventGroupSetBits and vEventGroupSetBitsCallback).                     *)
THEOREM BitsAreDelivered == TimersSpec => SetIsDelivered
<1>1. ASSUME IInv, [TimersNext]_allVars
      PROVE  [\A B \in BitsToSet : SetBits(B) \/ SetByDaemon(B) => Delivered(uxEventBits \cup B)]_allVars
  <2>1. CASE TimersNext
    <3> SUFFICES ASSUME NEW B \in BitsToSet, SetBits(B) \/ SetByDaemon(B)
                 PROVE  Delivered(uxEventBits \cup B)
      OBVIOUS
    <3>1. CASE SetBits(B)
      BY <1>1, <3>1, SettingDelivers DEF SetBits, IInv, GroupInv
    <3>2. CASE SetByDaemon(B)
      BY <1>1, <2>1, <3>2, DaemonDelivers
    <3> QED
      BY <3>1, <3>2
  <2>2. CASE UNCHANGED allVars
    BY <2>2
  <2> QED
    BY <1>1, <2>1, <2>2
<1> QED
  BY <1>1, Invariance, PTL DEF TimersSpec, SetIsDelivered

-----------------------------------------------------------------------------
(* The daemon and its lists of timers.  Arithmetic of the tick count.      *)

(* Division by a period.                                                   *)
LEMMA Quotients ==
    ASSUME NEW a \in Nat, NEW p \in Nat \ {0}
    PROVE  /\ a \div p \in Nat
           /\ (a \div p) * p <= a
           /\ a < (a \div p + 1) * p
           /\ a \div p <= a
BY SMT

(* Multiples grow with the factor.                                         *)
LEMMA Multiples ==
    ASSUME NEW p \in Nat, NEW m \in Nat, NEW n \in Nat, m <= n
    PROVE  m * p <= n * p /\ m * p \in Nat
BY SMT

(* One multiple from the one before it.                                    *)
LEMMA NextMultiple ==
    ASSUME NEW p \in Nat, NEW m \in Int
    PROVE  m * p = (m - 1) * p + p
BY SMT

(* The sum and the difference of two tick counts, without division.        *)
LEMMA TickArithmetic ==
    ASSUME NEW x \in TickType, NEW y \in TickType
    PROVE  /\ Plus(x, y) = IF x + y < Modulus THEN x + y ELSE x + y - Modulus
           /\ Minus(x, y) = IF x >= y THEN x - y ELSE x - y + Modulus
           /\ Plus(x, y) \in TickType
           /\ Minus(x, y) \in TickType
BY TimersAssumption DEF TickType, Modulus, Plus, Minus

(* The function with no arguments is the empty list.                       *)
LEMMA EmptyList ==
    ASSUME NEW S, NEW f \in [{} -> S]
    PROVE  f = <<>>
<1>1. f \in Seq(S) /\ Len(f) = 0
  BY SMT
<1> QED
  BY <1>1, EmptySeq

(* The place of a timer that expires at next, p ticks after a command past *)
(* ticks ago.                                                              *)
IsPlace(where, next, now, past, p) ==
    /\ where = "now" <=> past >= p
    /\ past < p => \/ where = "current" /\ next - now = p - past
                   \/ where = "overflow" /\ next + Modulus - now = p - past

(* Where a timer goes is told by the ticks since its command alone.        *)
LEMMA WhereMeans ==
    ASSUME NEW now \in TickType, NEW command \in TickType, NEW p \in 1..portMAX_DELAY
    PROVE  IsPlace(Where(Plus(command, p), now, command, p), Plus(command, p), now,
                   Minus(now, command), p)
<1>1. Plus(command, p) = IF command + p < Modulus THEN command + p ELSE command + p - Modulus
  BY TickArithmetic DEF TickType
<1>2. Minus(now, command) = IF now >= command THEN now - command ELSE now - command + Modulus
  BY TickArithmetic
<1> QED
  BY <1>1, <1>2, TimersAssumption DEF IsPlace, Where, TickType, Modulus

(* A timer that expired a ticks ago is called for each period that has passed. *)
LEMMA NextCommand ==
    ASSUME NEW now \in TickType, NEW expired \in TickType, NEW p \in 1..portMAX_DELAY,
           NEW n \in Nat \ {0}, (n - 1) * p <= Minus(now, expired)
    PROVE  LET command == Plus(expired, (n - 1) * p)
           IN  /\ command \in TickType
               /\ Plus(expired, n * p) = Plus(command, p)
               /\ Minus(now, command) = Minus(now, expired) - (n - 1) * p
<1> DEFINE y == (n - 1) * p
           a == Minus(now, expired)
<1>1. p \in Nat /\ n - 1 \in Nat
  BY TimersAssumption
<1>2. y \in Nat /\ n * p = y + p
  BY <1>1, Multiples, NextMultiple
<1>3. a \in TickType /\ y <= a
  BY TickArithmetic
<1> HIDE DEF y
<1>4. y \in TickType
  BY <1>2, <1>3, TimersAssumption DEF TickType
<1>5. Plus(expired, y) = IF expired + y < Modulus THEN expired + y ELSE expired + y - Modulus
  BY <1>4, TickArithmetic
<1>6. Plus(expired, y) \in TickType
  BY <1>4, TickArithmetic
<1>7. Plus(expired, y + p) = Plus(Plus(expired, y), p)
  <2> DEFINE z == Plus(expired, y)
  <2>1. p \in TickType
    BY TimersAssumption DEF TickType
  <2>2. Plus(z, p) = IF z + p < Modulus THEN z + p ELSE z + p - Modulus
    BY <1>6, <2>1, TickArithmetic
  <2>3. z + p = expired + y + p \/ z + p = expired + y + p - Modulus
    BY <1>4, <1>5, <2>1, TimersAssumption DEF TickType, Modulus
  <2>4. z + p \in 0..(2 * Modulus - 1)
    BY <1>6, <2>1, TimersAssumption DEF TickType, Modulus
  <2> QED
   BY <1>4, <2>1, <2>2, <2>3, <2>4, TimersAssumption DEF TickType, Modulus, Plus
<1>8. Minus(now, Plus(expired, y)) = a - y
  <2>1. a = IF now >= expired THEN now - expired ELSE now - expired + Modulus
    BY TickArithmetic
  <2>2. Minus(now, Plus(expired, y))
           = IF now >= Plus(expired, y) THEN now - Plus(expired, y) ELSE now - Plus(expired, y) + Modulus
    BY <1>6, TickArithmetic
  <2> QED
    BY <1>2, <1>3, <1>5, <2>1, <2>2, TimersAssumption DEF TickType, Modulus
<1> QED
  BY <1>2, <1>6, <1>7, <1>8 DEF y

(* prvReloadTimer's loop ends: a timer of period p that expired past ticks *)
(* ago is called past div p + 1 times, and is then put where it belongs,   *)
(* no more than a period ahead.                                            *)
LEMMA RoundsMeans ==
    ASSUME NEW now \in TickType, NEW expired \in TickType, NEW p \in 1..portMAX_DELAY
    PROVE  LET past  == Minus(now, expired)
               n     == Rounds(expired, p, now)
               next  == Plus(expired, n * p)
               where == Where(next, now, Plus(expired, (n - 1) * p), p)
           IN  /\ n = past \div p + 1
               /\ n \in 1..Modulus
               /\ next \in TickType
               /\ n * p - past \in 1..p
               /\ \/ where = "current" /\ next - now = n * p - past
                  \/ where = "overflow" /\ next + Modulus - now = n * p - past
<1> DEFINE past == Minus(now, expired)
           q == past \div p
           In(n) == Where(Plus(expired, n * p), now, Plus(expired, (n - 1) * p), p)
           Right(n) == In(n) # "now" /\ \A m \in 1..n - 1 : In(m) = "now"
<1>1. past \in TickType /\ past \in Nat /\ p \in Nat \ {0}
  BY TickArithmetic, TimersAssumption DEF TickType
<1>2. q \in Nat /\ q * p <= past /\ past < (q + 1) * p /\ q <= past
  BY <1>1, Quotients
<1>3. ASSUME NEW n \in Nat \ {0}, (n - 1) * p <= past
      PROVE  /\ In(n) = "now" <=> n * p <= past
             /\ n * p > past => \/ In(n) = "current" /\ Plus(expired, n * p) - now = n * p - past
                                \/ In(n) = "overflow" /\ Plus(expired, n * p) + Modulus - now = n * p - past
             /\ Plus(expired, n * p) \in TickType
  <2> DEFINE command == Plus(expired, (n - 1) * p)
  <2>1. /\ command \in TickType
        /\ Plus(expired, n * p) = Plus(command, p)
        /\ Minus(now, command) = past - (n - 1) * p
    BY <1>3, NextCommand
  <2>2. n * p = (n - 1) * p + p /\ (n - 1) * p \in Nat
    BY <1>1, NextMultiple, Multiples
  <2>3. In(n) = Where(Plus(command, p), now, command, p)
    BY <2>1
  <2>4. /\ In(n) = "now" <=> Minus(now, command) >= p
        /\ Minus(now, command) < p =>
              \/ In(n) = "current" /\ Plus(command, p) - now = p - Minus(now, command)
              \/ In(n) = "overflow" /\ Plus(command, p) + Modulus - now = p - Minus(now, command)
    BY <2>1, <2>3, WhereMeans DEF IsPlace
  <2>5. Plus(command, p) \in TickType
    BY <2>1, TickArithmetic, TimersAssumption DEF TickType
  <2> HIDE DEF In, past, command
  <2> DEFINE y == (n - 1) * p
             x == n * p
  <2> HIDE DEF x, y
  <2>6. x = y + p /\ y \in Nat
    BY <2>2 DEF x, y
  <2>7. Minus(now, command) = past - y
    BY <2>1 DEF y
  <2>8. Plus(expired, x) = Plus(command, p)
    BY <2>1 DEF x
  <2>9. /\ In(n) = "now" <=> x <= past
        /\ x > past => \/ In(n) = "current" /\ Plus(expired, x) - now = x - past
                       \/ In(n) = "overflow" /\ Plus(expired, x) + Modulus - now = x - past
    BY <1>1, <2>4, <2>6, <2>7, <2>8, <2>5 DEF TickType
  <2> QED
    BY <2>5, <2>8, <2>9 DEF x
<1>4. Right(q + 1) /\ q + 1 \in 1..Modulus
  <2>1. In(q + 1) # "now"
    <3>1. q + 1 \in Nat \ {0} /\ (q + 1) - 1 = q
      BY <1>2
    <3>2. (q + 1) * p \in Int
      BY <1>2, <1>1
    <3>3. In(q + 1) = "now" <=> (q + 1) * p <= past
      BY <3>1, <1>2, <1>3
    <3> QED
      BY <3>2, <3>3, <1>1, <1>2
  <2>2. ASSUME NEW m \in 1..(q + 1) - 1
        PROVE  In(m) = "now"
    <3>1. m \in Nat \ {0} /\ m <= q /\ m - 1 <= q /\ m - 1 \in Nat
      BY <1>2
    <3>2. m * p <= q * p /\ (m - 1) * p <= q * p
      BY <1>1, <1>2, <3>1, Multiples
    <3>3. m * p \in Nat /\ (m - 1) * p \in Nat /\ q * p \in Nat
      BY <1>1, <1>2, <3>1, Multiples
    <3>4. m * p <= past /\ (m - 1) * p <= past
      BY <1>1, <1>2, <3>2, <3>3
    <3> QED
      BY <3>1, <3>4, <1>3
  <2>3. q + 1 \in 1..Modulus
    BY <1>1, <1>2, TimersAssumption DEF TickType, Modulus
  <2> QED
    BY <2>1, <2>2, <2>3
<1>5. PICK n : n = Rounds(expired, p, now)
  OBVIOUS
<1>6. n \in 1..Modulus /\ Right(n)
  BY <1>4, <1>5 DEF Rounds
<1>7. n = q + 1
  <2> HIDE DEF In
  <2>1. CASE n < q + 1
    BY <1>2, <1>4, <1>6, <2>1, TimersAssumption DEF Modulus
  <2>2. CASE n > q + 1
    BY <1>2, <1>4, <1>6, <2>2, TimersAssumption DEF Modulus
  <2> QED
    BY <1>2, <1>6, <2>1, <2>2, TimersAssumption DEF Modulus
<1>8. n * p > past /\ n * p - past <= p /\ n * p \in Nat
  <2>1. n * p = (n - 1) * p + p
    BY <1>1, <1>2, <1>7, NextMultiple
  <2>2. n - 1 = q /\ q * p \in Nat
    BY <1>1, <1>2, <1>7, Multiples
  <2> QED
    BY <1>1, <1>2, <1>7, <2>1, <2>2
<1>9. (n - 1) * p <= past /\ n \in Nat \ {0}
  BY <1>2, <1>7
<1>10. /\ Plus(expired, n * p) \in TickType
       /\ \/ In(n) = "current" /\ Plus(expired, n * p) - now = n * p - past
          \/ In(n) = "overflow" /\ Plus(expired, n * p) + Modulus - now = n * p - past
  BY <1>3, <1>8, <1>9
<1>11. n * p - past \in 1..p
  BY <1>8, <1>1
<1> QED
  BY <1>5, <1>6, <1>7, <1>10, <1>11

-----------------------------------------------------------------------------
(* The lists of timers.                                                    *)

TimerList == UNION {[S -> TickType] : S \in SUBSET Timer}

ListsType == [current : TimerList, overflow : TimerList, active : SUBSET Timer,
              called : [Timer -> 0..Modulus]]

OnLists(L) == DOMAIN L.current \cup DOMAIN L.overflow
Disjoint(L) == DOMAIN L.current \cap DOMAIN L.overflow = {}

(* The ticks that a timer on these lists has left.                         *)
LeftIn(L, t, now) ==
    IF t \in DOMAIN L.current THEN L.current[t] - now
    ELSE IF t \in DOMAIN L.overflow THEN L.overflow[t] + Modulus - now
    ELSE 0

(* A list of timers gives each of its members a time.                      *)
LEMMA TimerLists ==
    ASSUME NEW f
    PROVE  f \in TimerList <=> DOMAIN f \subseteq Timer /\ f \in [DOMAIN f -> TickType]
BY DEF TimerList

(* g is the list f with value for t.                                       *)
IsWith(g, f, t, value) ==
    /\ g \in TimerList /\ DOMAIN g = DOMAIN f \cup {t} /\ g[t] = value
    /\ \A u \in DOMAIN f \ {t} : g[u] = f[u]

(* g is the list f without the timers S.                                   *)
IsWithout(g, f, S) ==
    /\ g \in TimerList /\ DOMAIN g = DOMAIN f \ S
    /\ \A u \in DOMAIN f \ S : g[u] = f[u]

(* What a list is with one more timer on it.                               *)
LEMMA WithMeans ==
    ASSUME NEW f \in TimerList, NEW t \in Timer, NEW value \in TickType
    PROVE  IsWith(With(f, t, value), f, t, value)
<1>1. DOMAIN f \subseteq Timer /\ f \in [DOMAIN f -> TickType]
  BY TimerLists
<1>2. /\ DOMAIN With(f, t, value) = DOMAIN f \cup {t}
      /\ With(f, t, value) \in [DOMAIN f \cup {t} -> TickType]
  BY <1>1 DEF With
<1>3. With(f, t, value) \in TimerList
  BY <1>1, <1>2, TimerLists
<1> QED
  BY <1>2, <1>3 DEF With, IsWith

(* What a list is without some timers.                                     *)
LEMMA WithoutMeans ==
    ASSUME NEW f \in TimerList, NEW S
    PROVE  IsWithout(Without(f, S), f, S)
<1>1. DOMAIN f \subseteq Timer /\ f \in [DOMAIN f -> TickType]
  BY TimerLists
<1>2. /\ DOMAIN Without(f, S) = DOMAIN f \ S
      /\ Without(f, S) \in [DOMAIN f \ S -> TickType]
  BY <1>1 DEF Without, Restrict
<1>3. Without(f, S) \in TimerList
  BY <1>1, <1>2, TimerLists
<1> QED
  BY <1>2, <1>3 DEF Without, Restrict, IsWithout

(* K are the lists L without t.                                            *)
IsRemoved(K, L, t) ==
    /\ K \in ListsType /\ Disjoint(K)
    /\ OnLists(K) = OnLists(L) \ {t}
    /\ K.active = L.active /\ K.called = L.called
    /\ \A u, now : LeftIn(K, u, now) = IF u = t THEN 0 ELSE LeftIn(L, u, now)

(* uxListRemove takes the timer off whichever list it is on.               *)
LEMMA RemoveMeans ==
    ASSUME NEW L \in ListsType, Disjoint(L), NEW t
    PROVE  IsRemoved(RemoveFromBoth(L, t), L, t)
<1> PICK K : K = RemoveFromBoth(L, t)
  OBVIOUS
<1> DEFINE current  == Without(L.current, {t})
           overflow == Without(L.overflow, {t})
<1>1. /\ L.current \in TimerList /\ L.overflow \in TimerList
      /\ L.active \in SUBSET Timer /\ L.called \in [Timer -> 0..Modulus]
  BY DEF ListsType
<1>2. K = [current |-> current, overflow |-> overflow, active |-> L.active, called |-> L.called]
  BY DEF RemoveFromBoth, ListsType
<1>7. IsWithout(current, L.current, {t})
  BY <1>1, WithoutMeans
<1>8. IsWithout(overflow, L.overflow, {t})
  BY <1>1, WithoutMeans
<1> HIDE DEF current, overflow
<1>3. /\ current \in TimerList /\ DOMAIN current = DOMAIN L.current \ {t}
      /\ \A u \in DOMAIN L.current \ {t} : current[u] = L.current[u]
      /\ overflow \in TimerList /\ DOMAIN overflow = DOMAIN L.overflow \ {t}
      /\ \A u \in DOMAIN L.overflow \ {t} : overflow[u] = L.overflow[u]
  BY <1>7, <1>8 DEF IsWithout
<1>4. K \in ListsType /\ K.current = current /\ K.overflow = overflow
  BY <1>1, <1>2, <1>3 DEF ListsType
<1>5. ASSUME NEW u, NEW now
      PROVE  LeftIn(K, u, now) = IF u = t THEN 0 ELSE LeftIn(L, u, now)
  BY <1>3, <1>4 DEF LeftIn
<1>6. OnLists(K) = OnLists(L) \ {t} /\ Disjoint(K)
  BY <1>3, <1>4 DEF OnLists, Disjoint
<1> QED
  BY <1>2, <1>4, <1>5, <1>6 DEF IsRemoved

(* K are the lists L with t put in.                                        *)
IsInserted(K, L, t, next, where) ==
    /\ K \in ListsType /\ Disjoint(K)
    /\ OnLists(K) = OnLists(L) \cup {t}
    /\ K.active = L.active /\ K.called = L.called
    /\ \A u, now :
           LeftIn(K, u, now) =
               IF u # t THEN LeftIn(L, u, now)
               ELSE IF where = "current" THEN next - now ELSE next + Modulus - now

(* prvInsertTimerInActiveList puts the timer on one list; what it has left *)
(* is counted on the side of the wrap that list stands for.                *)
LEMMA InsertMeans ==
    ASSUME NEW L \in ListsType, Disjoint(L), NEW t \in Timer, t \notin OnLists(L),
           NEW next \in TickType, NEW where \in {"current", "overflow"}
    PROVE  IsInserted(Insert(L, t, next, where), L, t, next, where)
<1> PICK K : K = Insert(L, t, next, where)
  OBVIOUS
<1>1. /\ L.current \in TimerList /\ L.overflow \in TimerList
      /\ L.active \in SUBSET Timer /\ L.called \in [Timer -> 0..Modulus]
  BY DEF ListsType
<1>2. t \notin DOMAIN L.current /\ t \notin DOMAIN L.overflow
  BY DEF OnLists
<1>3. CASE where = "current"
  <2> DEFINE list == With(L.current, t, next)
  <2>1. K = [current |-> list, overflow |-> L.overflow,
             active |-> L.active, called |-> L.called]
    BY <1>3 DEF Insert, ListsType
  <2>0. IsWith(list, L.current, t, next)
    BY <1>1, WithMeans
  <2> HIDE DEF list
  <2>2. /\ list \in TimerList
        /\ DOMAIN list = DOMAIN L.current \cup {t} /\ list[t] = next
        /\ \A u \in DOMAIN L.current \ {t} : list[u] = L.current[u]
    BY <2>0 DEF IsWith
  <2>3. K \in ListsType /\ K.current = list /\ K.overflow = L.overflow
    BY <1>1, <2>1, <2>2 DEF ListsType
  <2>4. ASSUME NEW u, NEW now
        PROVE  LeftIn(K, u, now) = IF u = t THEN next - now ELSE LeftIn(L, u, now)
    BY <1>2, <1>3, <2>2, <2>3 DEF LeftIn
  <2>5. OnLists(K) = OnLists(L) \cup {t} /\ Disjoint(K)
    BY <1>2, <2>2, <2>3 DEF OnLists, Disjoint
  <2> QED
    BY <1>3, <2>1, <2>2, <2>3, <2>4, <2>5 DEF IsInserted
<1>4. CASE where = "overflow"
  <2> DEFINE list == With(L.overflow, t, next)
  <2>1. K = [current |-> L.current, overflow |-> list,
             active |-> L.active, called |-> L.called]
    BY <1>4 DEF Insert, ListsType
  <2>0. IsWith(list, L.overflow, t, next)
    BY <1>1, WithMeans
  <2> HIDE DEF list
  <2>2. /\ list \in TimerList
        /\ DOMAIN list = DOMAIN L.overflow \cup {t} /\ list[t] = next
        /\ \A u \in DOMAIN L.overflow \ {t} : list[u] = L.overflow[u]
    BY <2>0 DEF IsWith
  <2>3. K \in ListsType /\ K.overflow = list /\ K.current = L.current
    BY <1>1, <2>1, <2>2 DEF ListsType
  <2>4. ASSUME NEW u, NEW now
        PROVE  LeftIn(K, u, now) = IF u = t THEN next + Modulus - now ELSE LeftIn(L, u, now)
    BY <1>2, <1>4, <2>2, <2>3 DEF LeftIn
  <2>5. OnLists(K) = OnLists(L) \cup {t} /\ Disjoint(K)
    BY <1>2, <2>2, <2>3 DEF OnLists, Disjoint
  <2> QED
    BY <1>4, <2>1, <2>2, <2>3, <2>4, <2>5 DEF IsInserted
<1> QED
  BY <1>3, <1>4

-----------------------------------------------------------------------------
(* What the functions of the daemon do to the lists.                       *)

(* How often a timer of period p is called that expired past ticks ago,    *)
(* and what it has left then.                                              *)
CallsOf(t, p, past) == IF t \in autoReload THEN past \div p + 1 ELSE 1
Again(t, p, past) == IF t \in autoReload THEN CallsOf(t, p, past) * p - past ELSE 0

(* The number of calls fits the counter, and the timer is put no more than *)
(* a period ahead.                                                         *)
LEMMA CallsInRange ==
    ASSUME NEW t, NEW expired \in TickType, NEW now \in TickType, NEW p \in 1..portMAX_DELAY
    PROVE  LET past == Minus(now, expired)
           IN  /\ CallsOf(t, p, past) \in 1..Modulus
               /\ t \in autoReload => Again(t, p, past) \in 1..p
<1>1. CASE t \in autoReload
  BY <1>1, RoundsMeans DEF CallsOf, Again
<1>2. CASE t \notin autoReload
  BY <1>2, TimersAssumption DEF CallsOf, Modulus
<1> QED
  BY <1>1, <1>2

(* The lists K are the lists L after timer t, on neither, was processed.   *)
IsServed(K, L, t, p, past, now) ==
    /\ K \in ListsType /\ Disjoint(K)
    /\ OnLists(K) = IF t \in autoReload THEN OnLists(L) \cup {t} ELSE OnLists(L)
    /\ K.active = IF t \in autoReload THEN L.active ELSE L.active \ {t}
    /\ K.called[t] = CallsOf(t, p, past)
    /\ \A u \in Timer \ {t} : K.called[u] = L.called[u]
    /\ \A u : LeftIn(K, u, now) = IF u = t THEN Again(t, p, past) ELSE LeftIn(L, u, now)

(* prvProcessExpiredTimer: the timer is called once for every period that  *)
(* has passed, and an auto-reload timer is on a list again, without drift. *)
LEMMA ExpiredMeans ==
    ASSUME NEW L \in ListsType, Disjoint(L), NEW t \in Timer, t \notin OnLists(L),
           NEW expired \in TickType, NEW now \in TickType, NEW p \in 1..portMAX_DELAY
    PROVE  IsServed(Expired(L, t, expired, now, p), L, t, p, Minus(now, expired), now)
<1> PICK K, past : K = Expired(L, t, expired, now, p) /\ past = Minus(now, expired)
  OBVIOUS
<1> SUFFICES IsServed(K, L, t, p, past, now)
  OBVIOUS
<1>1. CASE t \in autoReload
  <2> PICK n : n = Rounds(expired, p, now)
    OBVIOUS
  <2> DEFINE next  == Plus(expired, n * p)
             where == Where(next, now, Plus(expired, (n - 1) * p), p)
             left  == n * p - past
  <2>1. /\ n = past \div p + 1
        /\ n \in 1..Modulus
        /\ next \in TickType
        /\ left \in 1..p
        /\ \/ where = "current" /\ next - now = left
           \/ where = "overflow" /\ next + Modulus - now = left
    BY RoundsMeans
  <2>2. CallsOf(t, p, past) = n /\ Again(t, p, past) = left
    BY <1>1, <2>1 DEF CallsOf, Again
  <2> PICK I : I = Insert(L, t, next, where)
    OBVIOUS
  <2>3. K = [I EXCEPT !.called[t] = n]
    BY <1>1 DEF Expired
  <2>4. past \in Nat /\ left \in Int
    BY <2>1, TickArithmetic DEF TickType
  <2> HIDE DEF next, where, left
  <2>5. where \in {"current", "overflow"}
    BY <2>1
  <2>6. /\ I \in ListsType /\ Disjoint(I)
        /\ OnLists(I) = OnLists(L) \cup {t}
        /\ I.active = L.active /\ I.called = L.called
        /\ \A u : LeftIn(I, u, now) =
                      IF u # t THEN LeftIn(L, u, now)
                      ELSE IF where = "current" THEN next - now ELSE next + Modulus - now
    BY <2>1, <2>5, InsertMeans DEF IsInserted
  <2>7. \A u : LeftIn(I, u, now) = IF u = t THEN left ELSE LeftIn(L, u, now)
    BY <2>1, <2>6
  <2>8. /\ K.current = I.current /\ K.overflow = I.overflow /\ K.active = I.active
        /\ K.called[t] = n /\ \A u \in Timer \ {t} : K.called[u] = L.called[u]
        /\ K \in ListsType
    BY <2>1, <2>3, <2>6 DEF ListsType
  <2>9. Disjoint(K) /\ OnLists(K) = OnLists(I) /\ \A u : LeftIn(K, u, now) = LeftIn(I, u, now)
    BY <2>6, <2>8 DEF Disjoint, OnLists, LeftIn
  <2> QED
    BY <1>1, <2>1, <2>2, <2>6, <2>8, <2>9, <2>7 DEF IsServed
<1>2. CASE t \notin autoReload
  <2>1. K = [current |-> L.current, overflow |-> L.overflow, active |-> L.active \ {t},
             called |-> [L.called EXCEPT ![t] = 1]]
    BY <1>2 DEF Expired, ListsType
  <2>2. /\ K.current = L.current /\ K.overflow = L.overflow /\ K.active = L.active \ {t}
        /\ K.called[t] = 1 /\ \A u \in Timer \ {t} : K.called[u] = L.called[u]
    BY <2>1 DEF ListsType
  <2>3. 1 \in 0..Modulus /\ 1 \in 1..Modulus
    BY TimersAssumption DEF Modulus
  <2>4. K \in ListsType
    BY <2>1, <2>3 DEF ListsType
  <2>5. Disjoint(K) /\ OnLists(K) = OnLists(L) /\ \A u : LeftIn(K, u, now) = LeftIn(L, u, now)
    BY <2>2 DEF Disjoint, OnLists, LeftIn
  <2>6. LeftIn(L, t, now) = 0
    BY DEF LeftIn, OnLists
  <2> QED
    BY <1>2, <2>2, <2>3, <2>4, <2>5, <2>6 DEF CallsOf, Again, IsServed
<1> QED
  BY <1>1, <1>2

(* A timer that is processed as of the last tick before the wrap goes to   *)
(* the overflow list if it is started again.                               *)
LEMMA ExpiredBeforeWrap ==
    ASSUME NEW L \in ListsType, Disjoint(L), NEW t \in Timer, t \notin OnLists(L),
           NEW expired \in TickType, NEW p \in 1..portMAX_DELAY,
           NEW now \in TickType, now = portMAX_DELAY,
           NEW past, past = Minus(now, expired), NEW K, K = Expired(L, t, expired, now, p)
    PROVE  /\ past \in TickType /\ past = portMAX_DELAY - expired
           /\ CallsOf(t, p, past) \in 1..Modulus
           /\ K.called[t] = CallsOf(t, p, past)
           /\ t \in autoReload => /\ Again(t, p, past) \in 1..p
                                  /\ K.overflow[t] \in TickType
                                  /\ K.overflow[t] = Again(t, p, past) - 1
<1>1. past \in TickType
  BY TickArithmetic
<1>2. past = portMAX_DELAY - expired
  <2>1. Minus(now, expired) = IF now >= expired THEN now - expired ELSE now - expired + Modulus
    BY TickArithmetic
  <2> QED
    BY <2>1, TimersAssumption DEF TickType
<1>3. CallsOf(t, p, past) \in 1..Modulus /\ (t \in autoReload => Again(t, p, past) \in 1..p)
  BY CallsInRange
<1>4. IsServed(K, L, t, p, past, now)
  BY ExpiredMeans
<1>5. /\ K \in ListsType /\ K.called[t] = CallsOf(t, p, past)
      /\ OnLists(K) = IF t \in autoReload THEN OnLists(L) \cup {t} ELSE OnLists(L)
  BY <1>4 DEF IsServed
<1>6. LeftIn(K, t, now) = Again(t, p, past)
  BY <1>4 DEF IsServed
<1>7. ASSUME t \in autoReload
      PROVE  K.overflow[t] \in TickType /\ K.overflow[t] = Again(t, p, past) - 1
  <2>1. /\ t \in DOMAIN K.current => K.current[t] \in TickType
        /\ t \in DOMAIN K.overflow => K.overflow[t] \in TickType
    BY <1>5, TimerLists DEF ListsType
  <2>2. LeftIn(K, t, now) \in 1..p
    BY <1>3, <1>6, <1>7
  <2>3. t \notin DOMAIN K.current
    BY <2>1, <2>2 DEF LeftIn, TickType
  <2>4. t \in DOMAIN K.overflow
    BY <1>5, <1>7, <2>3 DEF OnLists
  <2> QED
    BY <1>6, <2>1, <2>3, <2>4, TimersAssumption DEF LeftIn, TickType, Modulus
<1> QED
  BY <1>1, <1>2, <1>3, <1>5, <1>7

(* What prvSwitchTimerLists does to the timers of the current list: those  *)
(* have expired, the switch happens at the last tick before the wrap.      *)
LEMMA SwitchMeans ==
    ASSUME xTimerPeriodInTicks \in [Timer -> Periods], NEW L \in ListsType, Disjoint(L),
           L.called = Quiet
    PROVE  LET K   == prvSwitchTimerLists(L)
               due == DOMAIN L.current
               past(u) == portMAX_DELAY - L.current[u]
               p(u) == xTimerPeriodInTicks[u]
           IN  /\ K \in ListsType /\ Disjoint(K)
               /\ OnLists(K) = OnLists(L) \ (due \ autoReload)
               /\ K.active = L.active \ (due \ autoReload)
               /\ K.called = [u \in Timer |-> IF u \in due THEN CallsOf(u, p(u), past(u)) ELSE 0]
               /\ \A u \in due : past(u) \in TickType
               /\ \A u \in due \cap autoReload : Again(u, p(u), past(u)) \in 1..p(u)
               /\ \A u : \A now \in Int : LeftIn(K, u, now) =
                      IF u \in due
                      THEN IF u \in autoReload THEN Again(u, p(u), past(u)) - 1 - now ELSE 0
                      ELSE LeftIn(L, u, now + Modulus)
<1> PICK K : K = prvSwitchTimerLists(L)
  OBVIOUS
<1> DEFINE due     == DOMAIN L.current
           again   == due \cap autoReload
           p(u)    == xTimerPeriodInTicks[u]
           past(u) == portMAX_DELAY - L.current[u]
           done(u) == prvProcessExpiredTimer(L, u, portMAX_DELAY)
<1>1. /\ L.current \in TimerList /\ L.overflow \in TimerList
      /\ L.active \in SUBSET Timer /\ L.called \in [Timer -> 0..Modulus]
  BY DEF ListsType
<1>2. /\ due \subseteq Timer /\ DOMAIN L.overflow \subseteq Timer
      /\ \A u \in due : L.current[u] \in TickType
      /\ \A u \in DOMAIN L.overflow : L.overflow[u] \in TickType
  BY <1>1, TimerLists
<1>3. \A u \in Timer : p(u) \in 1..portMAX_DELAY
  BY TimersAssumption
<1>4. ASSUME NEW u \in due
      PROVE  /\ past(u) \in TickType
             /\ CallsOf(u, p(u), past(u)) \in 1..Modulus
             /\ done(u).called[u] = CallsOf(u, p(u), past(u))
             /\ u \in autoReload => /\ Again(u, p(u), past(u)) \in 1..p(u)
                                    /\ done(u).overflow[u] \in TickType
                                    /\ done(u).overflow[u] = Again(u, p(u), past(u)) - 1
  <2> PICK R : R = RemoveFromBoth(L, u)
    OBVIOUS
  <2>1. R \in ListsType /\ Disjoint(R) /\ u \notin OnLists(R)
    BY RemoveMeans DEF IsRemoved
  <2>2. done(u) = Expired(R, u, L.current[u], portMAX_DELAY, p(u))
    BY DEF prvProcessExpiredTimer
  <2>3. L.current[u] \in TickType /\ u \in Timer /\ p(u) \in 1..portMAX_DELAY
    BY <1>2, <1>3
  <2> PICK c, q, x, D : c = L.current[u] /\ q = p(u) /\ x = past(u) /\ D = done(u)
    OBVIOUS
  <2> PICK now, y : now = portMAX_DELAY /\ y = Minus(now, c)
    OBVIOUS
  <2>4. now \in TickType
    BY TimersAssumption DEF TickType
  <2>5. x = portMAX_DELAY - c
    OBVIOUS
  <2> HIDE DEF done, past, p
  <2>6. /\ y \in TickType /\ y = portMAX_DELAY - c
        /\ CallsOf(u, q, y) \in 1..Modulus
        /\ D.called[u] = CallsOf(u, q, y)
        /\ u \in autoReload => /\ Again(u, q, y) \in 1..q
                               /\ D.overflow[u] \in TickType
                               /\ D.overflow[u] = Again(u, q, y) - 1
    BY <2>1, <2>2, <2>3, <2>4, ExpiredBeforeWrap
  <2> QED
    BY <2>5, <2>6
<1> DEFINE current == [t \in DOMAIN L.overflow \cup again |->
                          IF t \in again THEN done(t).overflow[t] ELSE L.overflow[t]]
           calls   == [t \in Timer |-> IF t \in due THEN done(t).called[t] ELSE 0]
<1>5. K = [current |-> current, overflow |-> <<>>, active |-> L.active \ (due \ autoReload),
           called |-> calls]
  BY DEF prvSwitchTimerLists
<1> HIDE DEF done
<1>6. calls = [u \in Timer |-> IF u \in due THEN CallsOf(u, p(u), past(u)) ELSE 0]
  BY <1>4
<1>7. calls \in [Timer -> 0..Modulus]
  <2> SUFFICES ASSUME NEW u \in Timer
               PROVE  (IF u \in due THEN CallsOf(u, p(u), past(u)) ELSE 0) \in 0..Modulus
    BY <1>6
  <2> HIDE DEF p, past
  <2> QED
    BY <1>4, TimersAssumption DEF Modulus
<1>8. /\ current \in TimerList
      /\ DOMAIN current = DOMAIN L.overflow \cup again
      /\ \A u \in again : current[u] = Again(u, p(u), past(u)) - 1
      /\ \A u \in DOMAIN L.overflow \ again : current[u] = L.overflow[u]
  <2>1. current \in [DOMAIN L.overflow \cup again -> TickType]
    BY <1>2, <1>4
  <2>2. DOMAIN current \subseteq Timer
    BY <1>2
  <2> QED
    BY <1>4, <2>1, <2>2, TimerLists
<1>9. <<>> \in TimerList /\ DOMAIN <<>> = {}
  <2>1. DOMAIN <<>> = {} /\ <<>> \in [{} -> TickType]
    OBVIOUS
  <2> QED
    BY <2>1, TimerLists
<1>10. L.current \in TimerList /\ L.active \ (due \ autoReload) \subseteq Timer
  BY <1>1
<1> HIDE DEF current, calls
<1>11. K \in ListsType
  BY <1>5, <1>7, <1>8, <1>9, <1>10 DEF ListsType
<1>12. K.current = current /\ DOMAIN K.overflow = {} /\ K.called = calls
       /\ K.active = L.active \ (due \ autoReload)
  BY <1>5, <1>9
<1>13. OnLists(K) = OnLists(L) \ (due \ autoReload) /\ Disjoint(K)
  BY <1>8, <1>12 DEF OnLists, Disjoint
<1>14. ASSUME NEW u, NEW now \in Int
       PROVE  LeftIn(K, u, now) =
                  IF u \in due
                  THEN IF u \in autoReload THEN Again(u, p(u), past(u)) - 1 - now ELSE 0
                  ELSE LeftIn(L, u, now + Modulus)
  <2>1. CASE u \in due
    BY <1>8, <1>12, <2>1 DEF LeftIn, Disjoint
  <2>2. CASE u \in DOMAIN L.overflow \ due
    <3>1. L.overflow[u] + Modulus - (now + Modulus) = L.overflow[u] - now
      BY <1>2, <2>2, TimersAssumption DEF TickType, Modulus
    <3> QED
    BY <1>8, <1>12, <2>2, <3>1 DEF LeftIn
  <2>3. CASE u \notin DOMAIN L.overflow \cup due
    BY <1>8, <1>12, <2>3 DEF LeftIn
  <2> QED
    BY <2>1, <2>2, <2>3
<1> QED
  BY <1>4, <1>6, <1>11, <1>12, <1>13, <1>14

(* The tick count, on the side of the wrap that the lists stand for.       *)
Now == IF Wrapped THEN xTickCount + Modulus ELSE xTickCount

(* Lists as the daemon finds them: what Left is on them.                   *)
AreSound(L) ==
    /\ L \in ListsType /\ Disjoint(L) /\ L.called = Quiet
    /\ \A u \in OnLists(L) : LeftIn(L, u, Now) \in -MaxLate..xTimerPeriodInTicks[u]

(* The lists K are the lists L after every expiry of d or more ticks ago   *)
(* was processed.                                                          *)
DueIn(L, d) == {u \in OnLists(L) : LeftIn(L, u, Now) <= -d}

IsSampled(K, L, d) ==
    /\ K \in ListsType /\ Disjoint(K)
    /\ OnLists(K) = OnLists(L) \ (DueIn(L, d) \ autoReload)
    /\ K.active = L.active \ (DueIn(L, d) \ autoReload)
    /\ \A u \in Timer :
           K.called[u] = IF u \in DueIn(L, d)
                         THEN CallsOf(u, xTimerPeriodInTicks[u], -d - LeftIn(L, u, Now))
                         ELSE 0
    /\ \A u \in Timer :
           LeftIn(K, u, xTickCount) =
               IF u \notin DueIn(L, d) THEN LeftIn(L, u, Now)
               ELSE IF u \in autoReload
               THEN Again(u, xTimerPeriodInTicks[u], -d - LeftIn(L, u, Now)) - d
               ELSE 0
    /\ \A u \in OnLists(K) :
           LeftIn(K, u, xTickCount) \in -MaxLate..xTimerPeriodInTicks[u]

(* What a timer has left is a number, zero if it is on no list.            *)
LEMMA LeftIsNumber ==
    ASSUME NEW L \in ListsType, NEW u, NEW now \in Int
    PROVE  /\ LeftIn(L, u, now) \in Int
           /\ u \notin OnLists(L) => LeftIn(L, u, now) = 0
<1>1. L.current \in TimerList /\ L.overflow \in TimerList
  BY DEF ListsType
<1>2. /\ u \in DOMAIN L.current => L.current[u] \in TickType
      /\ u \in DOMAIN L.overflow => L.overflow[u] \in TickType
  BY <1>1, TimerLists
<1> QED
  BY <1>2, TimersAssumption DEF LeftIn, OnLists, TickType, Modulus

(* prvSampleTimeNow serves, if the count has wrapped, every timer that was *)
(* due at the wrap, and none if it has not.                                *)
LEMMA SampleServesDue ==
    ASSUME xTimerPeriodInTicks \in [Timer -> Periods], xTickCount \in TickType,
           xLastTime \in TickType, NEW L, AreSound(L)
    PROVE  \E d \in 0..portMAX_DELAY : IsSampled(prvSampleTimeNow(L), L, d)
<1> PICK K : K = prvSampleTimeNow(L)
  OBVIOUS
<1>1. /\ L \in ListsType /\ Disjoint(L) /\ L.called = Quiet
      /\ \A u \in OnLists(L) : LeftIn(L, u, Now) \in -MaxLate..xTimerPeriodInTicks[u]
  BY DEF AreSound
<1>2. /\ xTickCount \in Int /\ Now \in Int
      /\ \A u \in Timer : xTimerPeriodInTicks[u] \in 1..portMAX_DELAY
      /\ portMAX_DELAY \in Nat \ {0} /\ MaxLate \in 0..portMAX_DELAY - 1
  <2>1. portMAX_DELAY \in Nat \ {0} /\ MaxLate \in 0..portMAX_DELAY - 1
    BY TimersAssumption
  <2>2. xTickCount \in Int /\ Now \in Int
    BY <2>1 DEF Now, TickType, Modulus
  <2>3. \A u \in Timer : xTimerPeriodInTicks[u] \in 1..portMAX_DELAY
    BY TimersAssumption
  <2> QED
    BY <2>1, <2>2, <2>3
<1>3. OnLists(L) \subseteq Timer
  BY <1>1, TimerLists DEF OnLists, ListsType
<1>4. CASE ~Wrapped
  <2>1. K = L /\ Now = xTickCount
    BY <1>4 DEF prvSampleTimeNow, Now
  <2>2. DueIn(L, portMAX_DELAY) = {}
    BY <1>1, <1>2, <1>3 DEF DueIn
  <2>3. \A u \in Timer : L.called[u] = 0
    BY <1>1 DEF Quiet
  <2>4. IsSampled(L, L, portMAX_DELAY)
    BY <1>1, <2>1, <2>2, <2>3 DEF IsSampled
  <2> QED
    BY <1>2, <2>1, <2>4
<1>5. CASE Wrapped
  <2> DEFINE due     == DOMAIN L.current
             d       == xTickCount + 1
             past(u) == portMAX_DELAY - L.current[u]
             p(u)    == xTimerPeriodInTicks[u]
  <2>1. K = prvSwitchTimerLists(L) /\ Now = xTickCount + Modulus
    BY <1>5 DEF prvSampleTimeNow, Now
  <2>2. /\ K \in ListsType /\ Disjoint(K)
        /\ OnLists(K) = OnLists(L) \ (due \ autoReload)
        /\ K.active = L.active \ (due \ autoReload)
        /\ K.called = [u \in Timer |-> IF u \in due THEN CallsOf(u, p(u), past(u)) ELSE 0]
        /\ \A u \in due : past(u) \in TickType
        /\ \A u \in due \cap autoReload : Again(u, p(u), past(u)) \in 1..p(u)
        /\ \A u : \A now \in Int : LeftIn(K, u, now) =
               IF u \in due
               THEN IF u \in autoReload THEN Again(u, p(u), past(u)) - 1 - now ELSE 0
               ELSE LeftIn(L, u, now + Modulus)
    BY <1>1, <2>1, SwitchMeans
  <2>3. d \in 0..portMAX_DELAY
    BY <1>5, <1>2 DEF Wrapped, TickType
  <2>4. L.current \in TimerList /\ L.overflow \in TimerList
    BY <1>1 DEF ListsType
  <2>5. /\ \A u \in due : L.current[u] \in TickType
        /\ \A u \in DOMAIN L.overflow : L.overflow[u] \in TickType
    BY <2>4, TimerLists
  <2>6. ASSUME NEW u \in due
        PROVE  LeftIn(L, u, Now) <= -d /\ past(u) = -d - LeftIn(L, u, Now)
    BY <2>1, <2>5, <1>2 DEF LeftIn, TickType, Modulus
  <2>7. ASSUME NEW u \in OnLists(L) \ due
        PROVE  ~(LeftIn(L, u, Now) <= -d)
    BY <2>1, <2>5, <1>2 DEF LeftIn, OnLists, TickType, Modulus
  <2>8. DueIn(L, d) = due
    BY <2>6, <2>7 DEF DueIn, OnLists
  <2>9. \A u \in Timer :
           LeftIn(K, u, xTickCount) =
               IF u \notin due THEN LeftIn(L, u, Now)
               ELSE IF u \in autoReload THEN Again(u, p(u), past(u)) - d ELSE 0
    <3> SUFFICES ASSUME NEW u \in Timer
                 PROVE  LeftIn(K, u, xTickCount) =
                            IF u \notin due THEN LeftIn(L, u, Now)
                            ELSE IF u \in autoReload THEN Again(u, p(u), past(u)) - d ELSE 0
      OBVIOUS
    <3>1. LeftIn(K, u, xTickCount) =
               IF u \in due
               THEN IF u \in autoReload THEN Again(u, p(u), past(u)) - 1 - xTickCount ELSE 0
               ELSE LeftIn(L, u, xTickCount + Modulus)
      BY <1>2, <2>2
    <3>2. CASE u \in due \cap autoReload
      <4>1. Again(u, p(u), past(u)) \in Int
        BY <1>2, <2>2, <3>2
      <4> HIDE DEF p, past
      <4> QED
        BY <1>2, <3>1, <3>2, <4>1
    <3> HIDE DEF p, past
    <3> QED
      BY <2>1, <3>1, <3>2
  <2>10. ASSUME NEW u \in OnLists(K)
         PROVE  LeftIn(K, u, xTickCount) \in -MaxLate..p(u)
    <3>1. u \in OnLists(L) /\ u \in Timer
      BY <1>3, <2>2
    <3>2. CASE u \notin due
      BY <1>1, <2>9, <3>1, <3>2
    <3>3. CASE u \in due
      <4>1. u \in autoReload
        BY <2>2, <3>3
      <4> PICK n, q, x, l : n = CallsOf(u, p(u), past(u)) /\ q = p(u) /\ x = past(u)
                            /\ l = LeftIn(L, u, Now)
        OBVIOUS
      <4>2. /\ Again(u, q, x) \in 1..q /\ Again(u, q, x) = n * q - x
            /\ n = x \div q + 1 /\ x \in Nat /\ q \in Nat \ {0}
        BY <1>2, <2>2, <3>1, <3>3, <4>1 DEF CallsOf, Again, TickType
      <4>3. n \in Nat /\ n * q \in Nat
        <5>1. x \div q \in Nat
          BY <4>2, Quotients
        <5>2. n \in Nat
          BY <4>2, <5>1
        <5> QED
          BY <4>2, <5>2, Multiples
      <4>4. x = -d - l /\ l \in -MaxLate..q
        BY <1>1, <2>6, <3>1, <3>3
      <4>5. LeftIn(K, u, xTickCount) = Again(u, q, x) - d
        BY <2>9, <3>1, <3>3, <4>1
      <4> DEFINE y == n * q
      <4> HIDE DEF y, d
      <4>6. Again(u, q, x) - d = y + l /\ y \in Nat /\ d \in Nat
        BY <1>2, <2>3, <4>2, <4>3, <4>4 DEF y
      <4> QED
        BY <1>2, <4>2, <4>4, <4>5, <4>6
    <3> QED
      BY <3>2, <3>3
  <2>11. \A u \in Timer :
           K.called[u] = IF u \in due THEN CallsOf(u, p(u), past(u)) ELSE 0
    BY <2>2
  <2> HIDE DEF d, due
  <2>12. IsSampled(K, L, d)
    BY <2>2, <2>6, <2>8, <2>9, <2>10, <2>11 DEF IsSampled
  <2> QED
    BY <2>3, <2>12
<1> QED
  BY <1>4, <1>5

(* The lists K are the lists L after timer t was set to run with l ticks   *)
(* left, and was processed if it was due.                                  *)
IsRun(K, L, t, p, l) ==
    /\ K \in ListsType /\ Disjoint(K)
    /\ OnLists(K) = IF l <= 0 /\ t \notin autoReload THEN OnLists(L) ELSE OnLists(L) \cup {t}
    /\ K.active = IF l <= 0 /\ t \notin autoReload THEN L.active \ {t} ELSE L.active \cup {t}
    /\ K.called[t] = IF l <= 0 THEN CallsOf(t, p, -l) ELSE L.called[t]
    /\ \A u \in Timer \ {t} : K.called[u] = L.called[u]
    /\ \A u : LeftIn(K, u, xTickCount) =
                  IF u # t THEN LeftIn(L, u, xTickCount)
                  ELSE IF l <= 0 THEN Again(t, p, -l) ELSE l

(* A timer that is put on a list runs.                                     *)
LEMMA InsertRuns ==
    ASSUME NEW L \in ListsType, Disjoint(L), NEW t \in Timer, t \notin OnLists(L),
           NEW p \in 1..portMAX_DELAY, NEW next \in TickType,
           NEW where \in {"current", "overflow"}, xTickCount \in TickType,
           NEW l \in 1..p, l = IF where = "current" THEN next - xTickCount
                                                    ELSE next + Modulus - xTickCount
    PROVE  IsRun(Insert([L EXCEPT !.active = @ \cup {t}], t, next, where), L, t, p, l)
<1> PICK R, K : R = [L EXCEPT !.active = @ \cup {t}] /\ K = Insert(R, t, next, where)
  OBVIOUS
<1>1. /\ R \in ListsType
      /\ R.current = L.current /\ R.overflow = L.overflow /\ R.called = L.called
      /\ R.active = L.active \cup {t}
  BY DEF ListsType
<1>2. Disjoint(R) /\ OnLists(R) = OnLists(L) /\ \A u, n : LeftIn(R, u, n) = LeftIn(L, u, n)
  BY <1>1 DEF Disjoint, OnLists, LeftIn
<1>3. /\ K \in ListsType /\ Disjoint(K)
      /\ OnLists(K) = OnLists(R) \cup {t}
      /\ K.active = R.active /\ K.called = R.called
      /\ \A u : LeftIn(K, u, xTickCount) =
             IF u # t THEN LeftIn(R, u, xTickCount)
             ELSE IF where = "current" THEN next - xTickCount ELSE next + Modulus - xTickCount
  <2>1. t \notin OnLists(R)
    BY <1>2
  <2>2. IsInserted(K, R, t, next, where)
    BY <1>1, <1>2, <2>1, InsertMeans
  <2> QED
    BY <2>2 DEF IsInserted
<1>4. ~(l <= 0)
  OBVIOUS
<1> QED
  BY <1>1, <1>2, <1>3, <1>4 DEF IsRun

(* A start counts from the time of the call.                               *)
LEMMA StartRuns ==
    ASSUME NEW L \in ListsType, Disjoint(L), NEW t \in Timer, t \notin OnLists(L),
           NEW p \in 1..portMAX_DELAY, p = xTimerPeriodInTicks[t],
           NEW m, m.timer = t, m.value \in TickType, xTickCount \in TickType
    PROVE  IsRun(Start(L, m), L, t, p, p - Minus(xTickCount, m.value))
<1> PICK v, age, next, where, R, K :
        /\ v = m.value /\ age = Minus(xTickCount, v) /\ next = Plus(v, p)
        /\ where = Where(next, xTickCount, v, p)
        /\ R = [L EXCEPT !.active = @ \cup {t}]
        /\ K = Start(L, m)
  OBVIOUS
<1>1. /\ v \in TickType /\ age \in TickType /\ next \in TickType
      /\ next = IF v + p < Modulus THEN v + p ELSE v + p - Modulus
      /\ age = IF xTickCount >= v THEN xTickCount - v ELSE xTickCount - v + Modulus
  BY TickArithmetic, TimersAssumption, SMTT(30) DEF TickType
<1>2. /\ where = "now" <=> age >= p
      /\ age < p => \/ where = "current" /\ next - xTickCount = p - age
                    \/ where = "overflow" /\ next + Modulus - xTickCount = p - age
  <2>1. IsPlace(where, next, xTickCount, age, p)
    BY <1>1, WhereMeans
  <2> QED
    BY <2>1 DEF IsPlace
<1>3. CASE age < p
  <2>1. K = Insert(R, t, next, where)
    BY <1>1, <1>2, <1>3, TimersAssumption DEF Start, TickType
  <2>2. where \in {"current", "overflow"} /\ p - age \in 1..p
    BY <1>1, <1>2, <1>3, TimersAssumption DEF TickType
  <2>3. p - age = IF where = "current" THEN next - xTickCount ELSE next + Modulus - xTickCount
    BY <1>2, <1>3
  <2>4. IsRun(Insert(R, t, next, where), L, t, p, p - age)
    BY <1>1, <2>2, <2>3, InsertRuns
  <2> QED
    BY <2>1, <2>4
<1>4. CASE age >= p
  <2>1. K = Expired(R, t, next, xTickCount, p)
    BY <1>2, <1>4 DEF Start
  <2>2. Minus(xTickCount, next) = age - p
    <3>1. Minus(xTickCount, next) =
              IF xTickCount >= next THEN xTickCount - next ELSE xTickCount - next + Modulus
      BY <1>1, TickArithmetic
    <3> QED
      BY <1>1, <1>4, <3>1, TimersAssumption DEF TickType, Modulus
  <2>3. /\ R \in ListsType
        /\ R.current = L.current /\ R.overflow = L.overflow /\ R.called = L.called
        /\ R.active = L.active \cup {t}
    BY DEF ListsType
  <2>4. Disjoint(R) /\ OnLists(R) = OnLists(L) /\ \A u, n : LeftIn(R, u, n) = LeftIn(L, u, n)
    BY <2>3 DEF Disjoint, OnLists, LeftIn
  <2>5. IsServed(K, R, t, p, age - p, xTickCount)
    BY <1>1, <2>1, <2>2, <2>3, <2>4, ExpiredMeans
  <2> PICK l : l = p - age
    OBVIOUS
  <2>6. l <= 0 /\ -l = age - p
    BY <1>1, <1>4, TimersAssumption DEF TickType
  <2>7. IsServed(K, R, t, p, -l, xTickCount)
    BY <2>5, <2>6
  <2>8. IsRun(K, L, t, p, l)
    <3>1. /\ K \in ListsType /\ Disjoint(K)
          /\ OnLists(K) = IF t \in autoReload THEN OnLists(L) \cup {t} ELSE OnLists(L)
      BY <2>4, <2>7 DEF IsServed
    <3>2. K.active = IF t \in autoReload THEN L.active \cup {t} ELSE L.active \ {t}
      BY <2>3, <2>7 DEF IsServed
    <3>3. K.called[t] = CallsOf(t, p, -l) /\ \A u \in Timer \ {t} : K.called[u] = L.called[u]
      BY <2>3, <2>7 DEF IsServed
    <3>4. \A u : LeftIn(K, u, xTickCount) =
                     IF u = t THEN Again(t, p, -l) ELSE LeftIn(L, u, xTickCount)
      BY <2>4, <2>7 DEF IsServed
    <3> QED
      BY <2>6, <3>1, <3>2, <3>3, <3>4 DEF IsRun
  <2> QED
    BY <2>8
<1>5. age < p \/ age >= p
  BY <1>1, TimersAssumption DEF TickType
<1> QED
  BY <1>3, <1>4, <1>5

(* A change of period counts from its processing.                          *)
LEMMA ChangeRuns ==
    ASSUME NEW L \in ListsType, Disjoint(L), NEW t \in Timer, t \notin OnLists(L),
           NEW m, m.timer = t, m.value \in Periods, xTickCount \in TickType
    PROVE  IsRun(ChangePeriod(L, m), L, t, m.value, m.value)
<1> PICK p, next, where, R :
        /\ p = m.value /\ next = Plus(xTickCount, p)
        /\ where = Where(next, xTickCount, xTickCount, p)
        /\ R = [L EXCEPT !.active = @ \cup {t}]
  OBVIOUS
<1>1. p \in 1..portMAX_DELAY /\ Minus(xTickCount, xTickCount) = 0
  BY TickArithmetic, TimersAssumption, SMTT(30) DEF TickType
<1>2. next \in TickType
  <2>1. p \in TickType
    BY <1>1, TimersAssumption DEF TickType
  <2> QED
    BY <2>1, TickArithmetic
<1>3. /\ where = "now" <=> 0 >= p
      /\ 0 < p => \/ where = "current" /\ next - xTickCount = p - 0
                  \/ where = "overflow" /\ next + Modulus - xTickCount = p - 0
  BY <1>1, WhereMeans DEF IsPlace
<1>4. where \in {"current", "overflow"} /\ p \in 1..p
  BY <1>1, <1>3, TimersAssumption
<1>5. p = IF where = "current" THEN next - xTickCount ELSE next + Modulus - xTickCount
  BY <1>1, <1>3, TimersAssumption
<1>6. IsRun(Insert(R, t, next, where), L, t, p, p)
  BY <1>1, <1>2, <1>4, <1>5, InsertRuns
<1> QED
  BY <1>6 DEF ChangePeriod

-----------------------------------------------------------------------------
(* The lists as they are in a state, and in the next.                      *)

(* The lists as the daemon finds them.                                     *)
LEMMA ListsAreSound ==
    ASSUME TimersTypeOK, ListsAreExact
    PROVE  /\ AreSound(Lists)
           /\ OnLists(Lists) = active
           /\ \A u : LeftIn(Lists, u, Now) = Left(u)
<1>1. /\ Lists.current = pxCurrentTimerList /\ Lists.overflow = pxOverflowTimerList
      /\ Lists.active = active /\ Lists.called = Quiet
  BY DEF Lists
<1>2. active \subseteq Timer
  BY DEF TimersTypeOK
<1>3. pxCurrentTimerList \in TimerList /\ pxOverflowTimerList \in TimerList
  BY <1>2, TimerLists DEF ListsAreExact
<1>4. Quiet \in [Timer -> 0..Modulus]
  BY TimersAssumption DEF Quiet, Modulus
<1>5. Lists \in ListsType
  BY <1>2, <1>3, <1>4 DEF Lists, ListsType
<1>6. Disjoint(Lists) /\ OnLists(Lists) = active
  BY <1>1 DEF Disjoint, OnLists, ListsAreExact
<1>7. \A u : LeftIn(Lists, u, Now) = Left(u)
  BY <1>1 DEF LeftIn, Left, Now
<1> QED
  BY <1>1, <1>5, <1>6, <1>7 DEF AreSound, ListsAreExact

(* The daemon takes a timer off its list before it does anything with it.  *)
LEMMA RemovedAreSound ==
    ASSUME TimersTypeOK, ListsAreExact, NEW t
    PROVE  /\ AreSound(RemoveFromBoth(Lists, t))
           /\ OnLists(RemoveFromBoth(Lists, t)) = active \ {t}
           /\ RemoveFromBoth(Lists, t).active = active
           /\ \A u : u # t => LeftIn(RemoveFromBoth(Lists, t), u, Now) = Left(u)
<1> PICK K : K = RemoveFromBoth(Lists, t)
  OBVIOUS
<1>1. /\ AreSound(Lists) /\ OnLists(Lists) = active
      /\ \A u : LeftIn(Lists, u, Now) = Left(u)
  BY ListsAreSound
<1>2. Lists \in ListsType /\ Disjoint(Lists) /\ Lists.called = Quiet
  BY <1>1 DEF AreSound
<1>3. /\ K \in ListsType /\ Disjoint(K)
      /\ OnLists(K) = OnLists(Lists) \ {t}
      /\ K.active = Lists.active /\ K.called = Lists.called
      /\ \A u, now : LeftIn(K, u, now) = IF u = t THEN 0 ELSE LeftIn(Lists, u, now)
  <2>1. IsRemoved(K, Lists, t)
    BY <1>2, RemoveMeans
  <2> QED
    BY <2>1 DEF IsRemoved
<1>4. \A u : u # t => LeftIn(K, u, Now) = Left(u)
  BY <1>1, <1>3
<1>5. \A u \in OnLists(K) : u # t /\ u \in active
  BY <1>1, <1>3
<1>6. AreSound(K)
  BY <1>2, <1>3, <1>4, <1>5 DEF AreSound, ListsAreExact
<1>7. Lists.active = active
  BY DEF Lists
<1> QED
  BY <1>1, <1>3, <1>4, <1>6, <1>7

(* The lists K become the lists of the daemon.                             *)
AreSet(K) ==
    /\ pxCurrentTimerList' \in [DOMAIN pxCurrentTimerList' -> TickType]
    /\ pxOverflowTimerList' \in [DOMAIN pxOverflowTimerList' -> TickType]
    /\ DOMAIN pxCurrentTimerList' \cap DOMAIN pxOverflowTimerList' = {}
    /\ DOMAIN pxCurrentTimerList' \cup DOMAIN pxOverflowTimerList' = active'
    /\ active' \subseteq Timer
    /\ called' \in [Timer -> 0..Modulus]
    /\ \A u \in Timer : (Left(u))' = LeftIn(K, u, xTickCount)

(* What the variables are when the daemon has put back the lists K.        *)
LEMMA ListsAfter ==
    ASSUME NEW K \in ListsType, Disjoint(K), OnLists(K) = K.active, SetLists(K),
           xTickCount \in TickType, xTickCount' = xTickCount, xLastTime' = xTickCount
    PROVE  AreSet(K)
<1>1. K.current \in TimerList /\ K.overflow \in TimerList
      /\ K.active \in SUBSET Timer /\ K.called \in [Timer -> 0..Modulus]
  BY DEF ListsType
<1>2. /\ pxCurrentTimerList' = K.current /\ pxOverflowTimerList' = K.overflow
      /\ active' = K.active /\ called' = K.called
  BY DEF SetLists
<1>3. /\ K.current \in [DOMAIN K.current -> TickType]
      /\ K.overflow \in [DOMAIN K.overflow -> TickType]
  BY <1>1, TimerLists
<1>4. ~Wrapped'
  BY DEF Wrapped, TickType
<1>5. ASSUME NEW u \in Timer
      PROVE  (Left(u))' = LeftIn(K, u, xTickCount)
  BY <1>2, <1>4 DEF Left, LeftIn
<1> QED
  BY <1>1, <1>2, <1>3, <1>5 DEF AreSet, Disjoint, OnLists

-----------------------------------------------------------------------------
(* The invariant TimersInv is kept.                                        *)

(* What TimersTypeOK says besides the lists, the group and the messages.   *)
DaemonTypeOK ==
    /\ load \in Loads
    /\ xLastTime \in TickType
    /\ xTimerPeriodInTicks \in [Timer -> Periods]
    /\ autoReload \subseteq Timer /\ deleted \subseteq Timer
    /\ Len(xTimerQueue) <= QueueLength
    /\ daemon \in {"loop", "commands", "asleep"}
    /\ xTicksToSleep \in 0..Forever
    /\ called \in [Timer -> 0..Modulus]

(* Periods are not zero and fit the counter.                               *)
LEMMA PeriodsAreTicks ==
    ASSUME xTimerPeriodInTicks \in [Timer -> Periods], NEW t \in Timer
    PROVE  xTimerPeriodInTicks[t] \in 1..portMAX_DELAY /\ xTimerPeriodInTicks[t] \in Nat \ {0}
<1>1. xTimerPeriodInTicks[t] \in 1..portMAX_DELAY /\ portMAX_DELAY \in Nat
  BY TimersAssumption
<1> QED
  BY <1>1

(* No callback is called.                                                  *)
LEMMA QuietType == Quiet \in [Timer -> 0..Modulus]
BY TimersAssumption DEF Quiet, Modulus

(* The types that the other parts of the invariant imply.                  *)
LEMMA TypesFollow ==
    ASSUME IInv, DaemonTypeOK, ListsAreExact, active \subseteq Timer \ deleted
    PROVE  TimersTypeOK
<1>1. xTimerQueue \in Seq(Message)
  <2>1. GroupMessage \cup TimerMessage \subseteq Message
    BY EventGroupAssumption DEF GroupMessage, TimerMessage, Message
  <2>2. xTimerQueue \in Seq(GroupMessage \cup TimerMessage)
    BY DEF IInv, MessagesAreLegal
  <2> HIDE DEF GroupMessage, TimerMessage, Message
  <2> QED
    BY <2>1, <2>2
<1>2. \A list \in {pxCurrentTimerList, pxOverflowTimerList} :
          DOMAIN list \subseteq active /\ \A t \in DOMAIN list : list[t] \in TickType
  BY DEF ListsAreExact
<1> QED
  BY <1>1, <1>2 DEF IInv, GroupInv, MessagesAreLegal, DaemonTypeOK, TimersTypeOK

(* TypesFollow for the next state.                                         *)
LEMMA TypesFollowNext ==
    IInv' /\ DaemonTypeOK' /\ ListsAreExact' /\ (active \subseteq Timer \ deleted)' => TimersTypeOK'
<1>1. IInv /\ DaemonTypeOK /\ ListsAreExact /\ active \subseteq Timer \ deleted => TimersTypeOK
  BY TypesFollow
<1> QED
  BY <1>1, PTL

(* A step that leaves time and the lists alone leaves each timer what it   *)
(* has left; the daemon may note the time unless the lists are due to be   *)
(* switched.                                                               *)
LEMMA ListsStay ==
    ASSUME TimersTypeOK, ListsAreExact,
           UNCHANGED <<xTickCount, pxCurrentTimerList, pxOverflowTimerList,
                       xTimerPeriodInTicks, active>>,
           xLastTime' = xLastTime \/ (~Wrapped /\ xLastTime' = xTickCount)
    PROVE  /\ ListsAreExact'
           /\ \A u : (Left(u))' = Left(u)
           /\ Wrapped' = Wrapped
<1>1. Wrapped' = Wrapped
  BY DEF Wrapped, TimersTypeOK, TickType
<1>2. ASSUME NEW u
      PROVE  (Left(u))' = Left(u)
  BY <1>1 DEF Left
<1>3. ListsAreExact'
  BY <1>2 DEF ListsAreExact, TickType
<1> QED
  BY <1>1, <1>2, <1>3

(* A tick takes one tick from what each timer has left, also if it wraps   *)
(* the count.                                                              *)
LEMMA TickCountsDown ==
    ASSUME TimersTypeOK, ListsAreExact, Tick, NEW u \in active
    PROVE  (Left(u))' = Left(u) - 1
<1>1. xTickCount \in TickType /\ xLastTime \in TickType /\ portMAX_DELAY \in Nat \ {0}
  BY TimersAssumption DEF TimersTypeOK
<1>2. xTickCount' = IF xTickCount = portMAX_DELAY THEN 0 ELSE xTickCount + 1
  <2>1. xTickCount' = Plus(xTickCount, 1) /\ 1 \in TickType
    BY <1>1 DEF Tick, TickType
  <2>2. xTickCount' = IF xTickCount + 1 < Modulus THEN xTickCount + 1
                                                 ELSE xTickCount + 1 - Modulus
    BY <1>1, <2>1, TickArithmetic
  <2> QED
    BY <1>1, <2>2 DEF TickType, Modulus
<1>3. Minus(xTickCount, xLastTime) < portMAX_DELAY
  BY DEF Tick, Timely
<1>4. Minus(xTickCount, xLastTime) =
          IF xTickCount >= xLastTime THEN xTickCount - xLastTime
                                     ELSE xTickCount - xLastTime + Modulus
  BY <1>1, TickArithmetic
<1>5. xLastTime' = xLastTime
  BY DEF Tick
<1>6. Now' = Now + 1
  BY <1>1, <1>2, <1>3, <1>4, <1>5 DEF Now, Wrapped, TickType, Modulus
<1>7. /\ pxCurrentTimerList' = pxCurrentTimerList /\ pxOverflowTimerList' = pxOverflowTimerList
      /\ u \in DOMAIN pxCurrentTimerList => pxCurrentTimerList[u] \in Int
      /\ u \in DOMAIN pxOverflowTimerList => pxOverflowTimerList[u] \in Int
      /\ u \in DOMAIN pxCurrentTimerList \/ u \in DOMAIN pxOverflowTimerList
      /\ Now \in Int
  BY <1>1 DEF Tick, timerVars, ListsAreExact, TickType, Now, Modulus
<1>8. /\ Left(u) = IF u \in DOMAIN pxCurrentTimerList THEN pxCurrentTimerList[u] - Now
                   ELSE IF u \in DOMAIN pxOverflowTimerList
                   THEN pxOverflowTimerList[u] + Modulus - Now ELSE 0
      /\ (Left(u))' = IF u \in DOMAIN pxCurrentTimerList THEN pxCurrentTimerList[u] - Now'
                      ELSE IF u \in DOMAIN pxOverflowTimerList
                      THEN pxOverflowTimerList[u] + Modulus - Now' ELSE 0
  BY <1>7 DEF Left, Now
<1> QED
  BY <1>1, <1>6, <1>7, <1>8 DEF Modulus

(* A tick keeps the invariant: it takes one tick from every timer, from    *)
(* what is left of the daemon's sleep, and wakes it when that is over.     *)
LEMMA TickKeeps ==
    ASSUME IInv', TimersInv, Tick
    PROVE  TimersInv'
<1>1. /\ UNCHANGED <<pxCurrentTimerList, pxOverflowTimerList, xTimerPeriodInTicks, active,
                     autoReload, deleted, xTimerQueue, load, xLastTime>>
      /\ called' = Quiet
  BY DEF Tick, timerVars
<1>2. TimersTypeOK /\ ListsAreExact
  BY DEF TimersInv
<1>3. \A u \in active : (Left(u))' = Left(u) - 1
  BY <1>2, TickCountsDown
<1>4. \A u \in active : Left(u) \in -MaxLate..xTimerPeriodInTicks[u] /\ ~Late(Left(u) - 1)
  BY <1>2 DEF ListsAreExact, Tick, Timely
<1>5. \A u \in active : xTimerPeriodInTicks[u] \in Nat
  <2>1. xTimerPeriodInTicks \in [Timer -> Periods] /\ active \subseteq Timer
    BY <1>2 DEF TimersTypeOK
  <2> QED
    BY <2>1, PeriodsAreTicks
<1>6. ListsAreExact'
  <2>1. \A u \in active : (Left(u))' \in -MaxLate..xTimerPeriodInTicks[u]
    BY <1>3, <1>4, <1>5, TimersAssumption DEF Late
  <2> QED
    BY <1>1, <1>2, <2>1 DEF ListsAreExact, TickType
<1>7. CommandsAreTimely'
  BY <1>1 DEF TimersInv, CommandsAreTimely
<1>8. xTicksToSleep \in 0..Forever /\ Forever \in Nat /\ Forever > 1
  BY <1>2, TimersAssumption DEF TimersTypeOK, Forever, Modulus
<1>9. TimersTypeOK'
  <2>1. daemon' \in {"loop", "commands", "asleep"} /\ xTicksToSleep' \in 0..Forever
    BY <1>2, <1>8 DEF Tick, Awake, TimersTypeOK
  <2>2. DaemonTypeOK'
    BY <1>1, <1>2, <2>1, QuietType DEF DaemonTypeOK, TimersTypeOK, TickType, Forever, Modulus
  <2>3. active' \subseteq Timer \ deleted'
    BY <1>1, <1>2 DEF TimersTypeOK
  <2> QED
    BY <1>6, <2>2, <2>3, TypesFollowNext
<1>10. DaemonWakesInTime' /\ SleepsWithinTurn'
  <2>1. CASE daemon' # "asleep"
    BY <2>1 DEF DaemonWakesInTime, SleepsWithinTurn
  <2>2. CASE daemon' = "asleep"
    <3>1. /\ daemon = "asleep" /\ xTicksToSleep > 1
          /\ xTicksToSleep' = IF xTicksToSleep = Forever THEN Forever ELSE xTicksToSleep - 1
      BY <1>8, <2>2 DEF Tick, Awake
    <3>2. \A u \in active : xTicksToSleep <= Left(u) /\ xTicksToSleep # Forever
      BY <3>1 DEF TimersInv, DaemonWakesInTime
    <3>3. DaemonWakesInTime'
      <4>1. \A u \in active : Left(u) \in Int
        BY <1>4, <1>5, TimersAssumption
      <4>2. \A u \in active : xTicksToSleep' <= (Left(u))' /\ xTicksToSleep' # Forever
        BY <1>3, <1>8, <3>1, <3>2, <4>1
      <4>3. xTicksToSleep' > 0
        BY <1>8, <3>1
      <4> QED
        BY <1>1, <4>2, <4>3 DEF DaemonWakesInTime, Forever, Modulus
    <3>4. SleepsWithinTurn'
      <4> SUFFICES ASSUME active # {}
                   PROVE  ~Wrapped' /\ xTicksToSleep' <= Modulus - xTickCount'
        BY <1>1 DEF SleepsWithinTurn
      <4>1. ~Wrapped /\ xTicksToSleep <= Modulus - xTickCount /\ xTicksToSleep # Forever
        BY <3>1, <3>2 DEF TimersInv, SleepsWithinTurn
      <4>2. xTickCount \in TickType /\ xLastTime \in TickType
        BY <1>2 DEF TimersTypeOK
      <4>3. xTickCount' = xTickCount + 1
        BY <1>8, <3>1, <4>1, <4>2, TimersAssumption DEF Tick, Plus, TickType, Modulus
      <4> QED
        BY <1>1, <1>8, <3>1, <4>1, <4>2, <4>3, TimersAssumption DEF Wrapped, TickType, Modulus
    <3> QED
      BY <3>3, <3>4
  <2> QED
    BY <2>1, <2>2
<1> QED
  BY <1>6, <1>7, <1>9, <1>10 DEF TimersInv

(* A step that leaves time and the lists alone keeps the invariant if it   *)
(* does what it should to the queue and to the sleep of the daemon.        *)
LEMMA QuietKeeps ==
    ASSUME IInv', TimersInv,
           UNCHANGED <<load, xTickCount, pxCurrentTimerList, pxOverflowTimerList,
                       xTimerPeriodInTicks, active, deleted>>,
           xLastTime' = xLastTime \/ (~Wrapped /\ xLastTime' = xTickCount),
           called' \in [Timer -> 0..Modulus], autoReload' \subseteq Timer,
           Len(xTimerQueue') <= QueueLength, CommandsAreTimely',
           daemon' \in {"loop", "commands", "asleep"}, xTicksToSleep' \in 0..Forever,
           daemon' = "asleep" => UNCHANGED daemonVars \/ (DaemonWakesInTime' /\ SleepsWithinTurn')
    PROVE  TimersInv'
<1>1. TimersTypeOK /\ ListsAreExact
  BY DEF TimersInv
<1>2. ListsAreExact' /\ (\A u : (Left(u))' = Left(u)) /\ Wrapped' = Wrapped
  BY <1>1, ListsStay
<1>3. TimersTypeOK'
  <2>1. DaemonTypeOK'
    BY <1>1 DEF DaemonTypeOK, TimersTypeOK, TickType, Forever, Modulus
  <2>2. (active \subseteq Timer \ deleted)'
    BY <1>1 DEF TimersTypeOK
  <2> QED
    BY <1>2, <2>1, <2>2, TypesFollowNext
<1>4. DaemonWakesInTime' /\ SleepsWithinTurn'
  <2>1. CASE daemon' # "asleep"
    BY <2>1 DEF DaemonWakesInTime, SleepsWithinTurn
  <2>2. CASE UNCHANGED daemonVars
    <3>1. DaemonWakesInTime'
      BY <1>2, <2>2 DEF DaemonWakesInTime, TimersInv, daemonVars, Forever, Modulus
    <3>2. SleepsWithinTurn'
      BY <1>2, <2>2 DEF SleepsWithinTurn, TimersInv, daemonVars, Modulus
    <3> QED
      BY <3>1, <3>2
  <2> QED
    BY <2>1, <2>2
<1> QED
  BY <1>2, <1>3, <1>4 DEF TimersInv

(* The daemon goes to sleep only if nothing is due, until the first expiry *)
(* or the wrap before it.                                                  *)
LEMMA BlockSleepsInTime ==
    ASSUME TimersTypeOK, ListsAreExact, Block, daemon' = "asleep",
           xTickCount' = xTickCount, xLastTime' = xTickCount
    PROVE  xTicksToSleep' \in 0..Forever /\ DaemonWakesInTime' /\ SleepsWithinTurn'
<1>1. /\ ~Wrapped
      /\ \A t \in DOMAIN pxCurrentTimerList : pxCurrentTimerList[t] > xTickCount
      /\ xTicksToSleep' \in NextWake
      /\ UNCHANGED <<pxCurrentTimerList, pxOverflowTimerList, active>>
  BY DEF Block
<1>2. /\ xTickCount \in TickType /\ portMAX_DELAY \in Nat \ {0}
      /\ \A t \in DOMAIN pxCurrentTimerList : pxCurrentTimerList[t] \in TickType
      /\ \A t \in DOMAIN pxOverflowTimerList : pxOverflowTimerList[t] \in TickType
      /\ active = DOMAIN pxCurrentTimerList \cup DOMAIN pxOverflowTimerList
      /\ DOMAIN pxCurrentTimerList \cap DOMAIN pxOverflowTimerList = {}
  BY TimersAssumption DEF TimersTypeOK, ListsAreExact
<1>3. ~Wrapped'
  BY <1>2 DEF Wrapped, TickType
<1>4. \A t : (Left(t))' = IF t \in DOMAIN pxCurrentTimerList THEN pxCurrentTimerList[t] - xTickCount
                          ELSE IF t \in DOMAIN pxOverflowTimerList
                          THEN pxOverflowTimerList[t] + Modulus - xTickCount ELSE 0
  BY <1>1, <1>3 DEF Left
<1>5. CASE active = {}
  <2>1. DOMAIN pxCurrentTimerList = {} /\ DOMAIN pxOverflowTimerList = {}
    BY <1>2, <1>5
  <2>2. pxCurrentTimerList = <<>> /\ pxOverflowTimerList = <<>>
    <3>1. pxCurrentTimerList \in [{} -> TickType] /\ pxOverflowTimerList \in [{} -> TickType]
      BY <2>1 DEF ListsAreExact
    <3> QED
      BY <3>1, EmptyList
  <2>3. xTicksToSleep' = Forever
    BY <1>1, <2>2 DEF NextWake
  <2> QED
    BY <1>1, <1>2, <1>5, <2>3 DEF DaemonWakesInTime, SleepsWithinTurn, Forever, Modulus
<1>6. CASE active # {}
  <2>1. /\ xTicksToSleep' \in 1..portMAX_DELAY
        /\ xTicksToSleep' <= Modulus - xTickCount
        /\ \A t \in active : xTicksToSleep' <= (Left(t))'
    <3>1. CASE pxCurrentTimerList = <<>>
      <4>1. DOMAIN pxCurrentTimerList = {} /\ active = DOMAIN pxOverflowTimerList
        BY <1>2, <3>1
      <4>2. pxOverflowTimerList # <<>>
        BY <1>6, <4>1
      <4>3. xTicksToSleep' = Minus(0, xTickCount)
        BY <1>1, <3>1, <4>2 DEF NextWake
      <4>4. xTickCount # 0
        <5> SUFFICES ASSUME xTickCount = 0
                     PROVE  FALSE
          OBVIOUS
        <5>1. PICK u \in active : TRUE
          BY <1>6
        <5>2. Left(u) <= xTimerPeriodInTicks[u] /\ xTimerPeriodInTicks[u] \in 1..portMAX_DELAY
          BY <5>1, PeriodsAreTicks DEF ListsAreExact, TimersTypeOK
        <5>3. Left(u) = pxOverflowTimerList[u] + Modulus
          BY <1>1, <1>2, <4>1, <5>1 DEF Left, TickType, Modulus
        <5> QED
          BY <1>2, <4>1, <5>1, <5>2, <5>3 DEF TickType, Modulus
      <4>5. xTicksToSleep' = Modulus - xTickCount
        <5>1. 0 \in TickType
          BY <1>2 DEF TickType
        <5>2. Minus(0, xTickCount) = IF 0 >= xTickCount THEN 0 - xTickCount
                                                        ELSE 0 - xTickCount + Modulus
          BY <1>2, <5>1, TickArithmetic
        <5> QED
          BY <1>2, <4>3, <4>4, <5>2 DEF TickType, Modulus
      <4>6. \A t \in active : (Left(t))' = pxOverflowTimerList[t] + Modulus - xTickCount
        BY <1>4, <4>1
      <4> QED
        BY <1>2, <4>1, <4>4, <4>5, <4>6 DEF TickType, Modulus
    <3>2. CASE pxCurrentTimerList # <<>>
      <4>1. PICK t \in FirstToExpire(pxCurrentTimerList) :
                xTicksToSleep' = Minus(pxCurrentTimerList[t], xTickCount)
        BY <1>1, <3>2 DEF NextWake
      <4>2. /\ t \in DOMAIN pxCurrentTimerList
            /\ \A u \in DOMAIN pxCurrentTimerList : pxCurrentTimerList[t] <= pxCurrentTimerList[u]
        BY <4>1 DEF FirstToExpire
      <4>3. pxCurrentTimerList[t] \in TickType /\ pxCurrentTimerList[t] > xTickCount
        BY <1>1, <1>2, <4>2
      <4>4. xTicksToSleep' = pxCurrentTimerList[t] - xTickCount
        <5>1. Minus(pxCurrentTimerList[t], xTickCount) =
                  IF pxCurrentTimerList[t] >= xTickCount THEN pxCurrentTimerList[t] - xTickCount
                  ELSE pxCurrentTimerList[t] - xTickCount + Modulus
          BY <1>2, <4>3, TickArithmetic
        <5> QED
          BY <1>2, <4>1, <4>3, <5>1 DEF TickType
      <4>5. ASSUME NEW u \in active
            PROVE  xTicksToSleep' <= (Left(u))'
        <5>1. CASE u \in DOMAIN pxCurrentTimerList
          BY <1>2, <1>4, <4>2, <4>3, <4>4, <5>1 DEF TickType
        <5>2. CASE u \notin DOMAIN pxCurrentTimerList
          BY <1>2, <1>4, <4>3, <4>4, <5>2 DEF TickType, Modulus
        <5> QED
          BY <5>1, <5>2
      <4> QED
        BY <1>2, <4>3, <4>4, <4>5 DEF TickType, Modulus
    <3> QED
      BY <3>1, <3>2
  <2> QED
    BY <1>1, <1>2, <1>3, <2>1 DEF DaemonWakesInTime, SleepsWithinTurn, Forever, Modulus
<1> QED
  BY <1>5, <1>6

(* The daemon goes to sleep for no longer than the first timer has left.   *)
LEMMA BlockKeeps ==
    ASSUME IInv', TimersInv, Block, prvProcessTimerOrBlockTask
    PROVE  TimersInv'
<1>1. /\ UNCHANGED <<load, xTickCount, pxCurrentTimerList, pxOverflowTimerList,
                     xTimerPeriodInTicks, active, autoReload, deleted, xTimerQueue>>
      /\ ~Wrapped /\ xLastTime' = xTickCount /\ called' = Quiet
      /\ daemon' = "asleep" \/ (daemon' = "commands" /\ xTicksToSleep' = xTicksToSleep)
  BY DEF prvProcessTimerOrBlockTask, Block
<1>2. TimersTypeOK /\ ListsAreExact
  BY DEF TimersInv
<1>3. /\ xTicksToSleep' \in 0..Forever
      /\ daemon' = "asleep" => DaemonWakesInTime' /\ SleepsWithinTurn'
  BY <1>1, <1>2, BlockSleepsInTime DEF TimersTypeOK
<1>4. CommandsAreTimely'
  BY <1>1 DEF TimersInv, CommandsAreTimely
<1> QED
  BY <1>1, <1>2, <1>3, <1>4, QuietType, QuietKeeps DEF TimersTypeOK

(* A command that is sent is for a timer that will not be deleted before   *)
(* the daemon comes to it.                                                 *)
LEMMA SendKeeps ==
    ASSUME IInv', TimersInv, NEW m, xTimerGenericCommand(m),
           m.timer = NoTimer \/ Usable(m.timer),
           m.id = "changePeriod" => m.value \in Periods
    PROVE  TimersInv'
<1>1. /\ UNCHANGED <<load, xTickCount, xLastTime, pxCurrentTimerList, pxOverflowTimerList,
                     xTimerPeriodInTicks, active, autoReload, deleted>>
      /\ xTimerQueue' = Append(xTimerQueue, m) /\ Len(xTimerQueue) < QueueLength
      /\ called' = Quiet
      /\ UNCHANGED daemonVars \/ Awake
  BY DEF xTimerGenericCommand, timerVars, timeVars
<1>2. TimersTypeOK /\ ListsAreExact /\ CommandsAreTimely
  BY DEF TimersInv
<1>3. xTimerQueue \in Seq(Message) /\ deleted \subseteq Timer /\ NoTimer \notin Timer
  BY <1>2, TimersAssumption DEF TimersTypeOK
<1>4. /\ Len(xTimerQueue') = Len(xTimerQueue) + 1 /\ Len(xTimerQueue) \in Nat
      /\ \A i \in 1..Len(xTimerQueue) : xTimerQueue'[i] = xTimerQueue[i]
      /\ xTimerQueue'[Len(xTimerQueue) + 1] = m
      /\ DOMAIN xTimerQueue = 1..Len(xTimerQueue)
      /\ DOMAIN xTimerQueue' = 1..Len(xTimerQueue) + 1
  <2> HIDE DEF Message
  <2> QED
    BY <1>1, <1>3
<1>5. CommandsAreTimely'
  <2> SUFFICES ASSUME NEW i \in DOMAIN xTimerQueue'
               PROVE  /\ xTimerQueue'[i].timer \notin deleted
                      /\ xTimerQueue'[i].id = "changePeriod" => xTimerQueue'[i].value \in Periods
                      /\ xTimerQueue'[i].id = "delete" =>
                             \A j \in i + 1..Len(xTimerQueue') :
                                 xTimerQueue'[j].timer # xTimerQueue'[i].timer
    BY <1>1 DEF CommandsAreTimely
  <2>1. CASE i = Len(xTimerQueue) + 1
    <3>1. xTimerQueue'[i] = m /\ i + 1..Len(xTimerQueue') = {}
      BY <1>4, <2>1
    <3>2. m.timer \notin deleted
      BY <1>3 DEF Usable
    <3> QED
      BY <3>1, <3>2
  <2>2. CASE i \in 1..Len(xTimerQueue)
    <3>1. /\ xTimerQueue'[i] = xTimerQueue[i]
          /\ xTimerQueue[i].timer \notin deleted
          /\ xTimerQueue[i].id = "changePeriod" => xTimerQueue[i].value \in Periods
          /\ xTimerQueue[i].id = "delete" =>
                 \A j \in i + 1..Len(xTimerQueue) : xTimerQueue[j].timer # xTimerQueue[i].timer
      BY <1>2, <1>4, <2>2 DEF CommandsAreTimely
    <3>2. xTimerQueue[i].id = "delete" => xTimerQueue[i].timer # m.timer
      <4>1. xTimerQueue[i].id = "delete" => xTimerQueue[i].timer # NoTimer
        BY <1>3, <1>4, <2>2 DEF Message
      <4> QED
        BY <1>4, <2>2, <4>1 DEF Usable
    <3>3. ASSUME xTimerQueue[i].id = "delete", NEW j \in i + 1..Len(xTimerQueue')
          PROVE  xTimerQueue'[j].timer # xTimerQueue[i].timer
      <4>1. j \in i + 1..Len(xTimerQueue) \/ j = Len(xTimerQueue) + 1
        BY <1>4, <2>2
      <4>2. j \in i + 1..Len(xTimerQueue) => xTimerQueue'[j] = xTimerQueue[j]
        BY <1>4, <2>2
      <4> QED
        BY <1>4, <3>1, <3>2, <3>3, <4>1, <4>2
    <3> QED
      BY <3>1, <3>3
  <2> QED
    BY <1>4, <2>1, <2>2
<1>6. /\ daemon' \in {"loop", "commands", "asleep"} /\ xTicksToSleep' \in 0..Forever
      /\ daemon' = "asleep" => UNCHANGED daemonVars
  BY <1>1, <1>2, TimersAssumption DEF Awake, daemonVars, TimersTypeOK, Forever, Modulus
<1>7. Len(xTimerQueue') <= QueueLength
  BY <1>1, <1>4, TimersAssumption
<1> QED
  BY <1>1, <1>2, <1>5, <1>6, <1>7, QuietType, QuietKeeps DEF TimersTypeOK

(* The calls of tasks and handlers that send a command.                    *)
LEMMA SendersKeep ==
    ASSUME IInv', TimersInv,
           \/ \E t \in Timer : \/ xTimerStart(t) \/ xTimerStop(t) \/ xTimerDelete(t)
                               \/ xTimerChangePeriod(t)
           \/ PendFunctionCall("setFromISR", "setBits")
           \/ PendFunctionCall("clearFromISR", "clearBits")
    PROVE  TimersInv'
<1>1. ASSUME NEW t \in Timer,
             xTimerStart(t) \/ xTimerStop(t) \/ xTimerDelete(t) \/ xTimerChangePeriod(t)
      PROVE  TimersInv'
  <2>1. PICK m : /\ xTimerGenericCommand(m) /\ m.timer = t
                 /\ m.id = "changePeriod" => m.value \in Periods
    <3>1. \A id, v : /\ Command(id, t, v).timer = t /\ Command(id, t, v).id = id
                     /\ Command(id, t, v).value = v
      BY DEF Command
    <3>2. ASSUME xTimerStart(t) \/ xTimerStop(t) \/ xTimerDelete(t)
          PROVE  \E id \in {"start", "stop", "delete"} :
                     \E v : xTimerGenericCommand(Command(id, t, v))
      BY <3>2 DEF xTimerStart, xTimerStop, xTimerDelete
    <3>3. ASSUME xTimerChangePeriod(t)
          PROVE  \E v \in Periods : xTimerGenericCommand(Command("changePeriod", t, v))
      BY <3>3 DEF xTimerChangePeriod
    <3> QED
      BY <1>1, <3>1, <3>2, <3>3
  <2>2. Usable(t)
    BY <1>1 DEF xTimerStart, xTimerStop, xTimerDelete, xTimerChangePeriod
  <2> QED
    BY <2>1, <2>2, SendKeeps
<1>2. ASSUME NEW request, NEW id \in {"setBits", "clearBits"}, PendFunctionCall(request, id)
      PROVE  TimersInv'
  <2>1. PICK m : xTimerGenericCommand(m) /\ m.timer = NoTimer /\ m.id = id
    BY <1>2 DEF PendFunctionCall
  <2> QED
    BY <2>1, SendKeeps
<1> QED
  BY <1>1, <1>2

(* The daemon takes the first command from the queue.                      *)
LEMMA TailIsTimely ==
    ASSUME CommandsAreTimely, xTimerQueue \in Seq(Message), xTimerQueue # <<>>,
           xTimerQueue' = Tail(xTimerQueue),
           deleted' = IF Head(xTimerQueue).id = "delete"
                      THEN deleted \cup {Head(xTimerQueue).timer} ELSE deleted
    PROVE  CommandsAreTimely' /\ Len(xTimerQueue') <= Len(xTimerQueue)
<1>1. /\ Len(xTimerQueue') = Len(xTimerQueue) - 1 /\ Len(xTimerQueue) \in Nat
      /\ \A i \in 1..Len(xTimerQueue') : xTimerQueue'[i] = xTimerQueue[i + 1]
      /\ DOMAIN xTimerQueue = 1..Len(xTimerQueue)
      /\ DOMAIN xTimerQueue' = 1..Len(xTimerQueue')
      /\ Head(xTimerQueue) = xTimerQueue[1]
  <2> HIDE DEF Message
  <2> QED
    OBVIOUS
<1>2. ASSUME NEW i \in DOMAIN xTimerQueue'
      PROVE  /\ xTimerQueue'[i].timer \notin deleted'
             /\ xTimerQueue'[i].id = "changePeriod" => xTimerQueue'[i].value \in Periods
             /\ xTimerQueue'[i].id = "delete" =>
                    \A j \in i + 1..Len(xTimerQueue') :
                        xTimerQueue'[j].timer # xTimerQueue'[i].timer
  <2>1. xTimerQueue'[i] = xTimerQueue[i + 1] /\ i + 1 \in DOMAIN xTimerQueue
    BY <1>1, <1>2
  <2>2. /\ xTimerQueue[i + 1].timer \notin deleted
        /\ xTimerQueue[i + 1].id = "changePeriod" => xTimerQueue[i + 1].value \in Periods
        /\ xTimerQueue[i + 1].id = "delete" =>
               \A j \in i + 1 + 1..Len(xTimerQueue) :
                   xTimerQueue[j].timer # xTimerQueue[i + 1].timer
    BY <2>1 DEF CommandsAreTimely
  <2>3. ASSUME xTimerQueue[i + 1].id = "delete", NEW j \in i + 1..Len(xTimerQueue')
        PROVE  xTimerQueue'[j].timer # xTimerQueue[i + 1].timer
    <3>1. j + 1 \in i + 1 + 1..Len(xTimerQueue) /\ j \in 1..Len(xTimerQueue')
      BY <1>1, <1>2
    <3>2. xTimerQueue'[j] = xTimerQueue[j + 1]
      BY <1>1, <3>1
    <3> QED
      BY <2>2, <2>3, <3>1, <3>2
  <2>4. xTimerQueue[i + 1].timer \notin deleted'
    <3>1. ASSUME Head(xTimerQueue).id = "delete"
          PROVE  xTimerQueue[i + 1].timer # Head(xTimerQueue).timer
      <4>1. 1 \in DOMAIN xTimerQueue /\ i + 1 \in 1 + 1..Len(xTimerQueue)
        BY <1>1, <1>2
      <4> QED
        BY <1>1, <3>1, <4>1 DEF CommandsAreTimely
    <3> QED
      BY <2>2, <3>1
  <2> QED
    BY <2>1, <2>2, <2>3, <2>4
<1> QED
  BY <1>1, <1>2 DEF CommandsAreTimely

(* The other steps that leave timers, lists and daemon alone.              *)
LEMMA OthersKeep ==
    ASSUME IInv', TimersInv,
           \/ Ask \/ StartFails \/ GroupCall \/ UNCHANGED allVars
           \/ \E t \in Timer : vTimerSetReloadMode(t)
    PROVE  TimersInv'
<1>1. /\ UNCHANGED <<load, xTickCount, xLastTime, pxCurrentTimerList, pxOverflowTimerList,
                     xTimerPeriodInTicks, active, deleted, xTimerQueue, daemonVars>>
      /\ called' = Quiet \/ called' = called
      /\ autoReload' = autoReload
            \/ \E t \in Timer : autoReload' \in {autoReload \cup {t}, autoReload \ {t}}
  BY DEF Ask, StartFails, GroupCall, vTimerSetReloadMode, allVars, timerVars, timeVars
<1>2. TimersTypeOK /\ CommandsAreTimely
  BY DEF TimersInv
<1>3. CommandsAreTimely'
  BY <1>1, <1>2 DEF CommandsAreTimely
<1>4. called' \in [Timer -> 0..Modulus] /\ autoReload' \subseteq Timer
  BY <1>1, <1>2, QuietType DEF TimersTypeOK
<1>5. /\ daemon' \in {"loop", "commands", "asleep"} /\ xTicksToSleep' \in 0..Forever
      /\ Len(xTimerQueue') <= QueueLength
  BY <1>1, <1>2 DEF TimersTypeOK, daemonVars
<1> QED
  BY <1>1, <1>3, <1>4, <1>5, QuietKeeps

(* A pended call, and the end of the commands.                             *)
LEMMA PendedCallKeeps ==
    ASSUME IInv', TimersInv, prvProcessReceivedCommands,
           xTimerQueue = <<>> \/ PendedCall(Head(xTimerQueue))
    PROVE  TimersInv'
<1>1. TimersTypeOK /\ CommandsAreTimely
  BY DEF TimersInv
<1>2. /\ UNCHANGED <<load, xTickCount, xTicksToSleep>>
      /\ daemon = "commands"
  BY DEF prvProcessReceivedCommands
<1>3. CASE xTimerQueue = <<>>
  <2>1. /\ UNCHANGED <<xLastTime, pxCurrentTimerList, pxOverflowTimerList, active,
                       xTimerPeriodInTicks, autoReload, deleted, xTimerQueue>>
        /\ daemon' = "loop" /\ called' = Quiet
    BY <1>3 DEF prvProcessReceivedCommands, timerVars
  <2>2. CommandsAreTimely'
    BY <1>1, <2>1 DEF CommandsAreTimely
  <2> QED
    BY <1>1, <1>2, <2>1, <2>2, QuietType, QuietKeeps DEF TimersTypeOK
<1>4. CASE xTimerQueue # <<>>
  <2>1. /\ UNCHANGED <<xLastTime, pxCurrentTimerList, pxOverflowTimerList, active,
                       xTimerPeriodInTicks, deleted>>
        /\ called' = Quiet /\ Head(xTimerQueue).id # "delete"
    BY <1>4 DEF PendedCall
  <2>2. xTimerQueue' = Tail(xTimerQueue) /\ autoReload' = autoReload /\ daemon' = "commands"
    BY <1>2, <1>4 DEF prvProcessReceivedCommands
  <2>3. CommandsAreTimely' /\ Len(xTimerQueue') <= Len(xTimerQueue)
    BY <1>1, <1>4, <2>1, <2>2, TailIsTimely DEF TimersTypeOK
  <2>4. Len(xTimerQueue') <= QueueLength
    <3>1. Len(xTimerQueue) \in Nat /\ Len(xTimerQueue') \in Nat
      BY <1>1, <1>4, <2>2 DEF TimersTypeOK
    <3> QED
      BY <1>1, <2>3, <3>1, TimersAssumption DEF TimersTypeOK
  <2> QED
    BY <1>1, <1>2, <2>1, <2>2, <2>3, <2>4, QuietType, QuietKeeps DEF TimersTypeOK
<1> QED
  BY <1>3, <1>4

(* A step of the daemon that sets the lists keeps the invariant if these   *)
(* hold the active timers, each with no more than its period left.         *)
LEMMA SetListsKeeps ==
    ASSUME IInv', TimersInv, NEW K \in ListsType, Disjoint(K), OnLists(K) = K.active, SetLists(K),
           xTickCount' = xTickCount, xLastTime' = xTickCount,
           \A u \in K.active : LeftIn(K, u, xTickCount) \in -MaxLate..xTimerPeriodInTicks'[u],
           xTimerPeriodInTicks' \in [Timer -> Periods],
           deleted' \subseteq Timer, K.active \cap deleted' = {},
           UNCHANGED <<load, autoReload, xTicksToSleep>>, daemon' = "commands",
           CommandsAreTimely', Len(xTimerQueue') <= QueueLength
    PROVE  TimersInv'
<1>1. TimersTypeOK
  BY DEF TimersInv
<1>2. AreSet(K) /\ active' = K.active
  BY <1>1, ListsAfter DEF TimersTypeOK, SetLists
<1>3. ListsAreExact'
  <2>1. \A u \in active' : (Left(u))' \in -MaxLate..xTimerPeriodInTicks'[u]
    BY <1>2 DEF AreSet
  <2> QED
    BY <1>2, <2>1 DEF AreSet, ListsAreExact, TickType
<1>4. DaemonTypeOK'
  BY <1>1, <1>2 DEF DaemonTypeOK, TimersTypeOK, AreSet, TickType, Forever, Modulus
<1>5. (active \subseteq Timer \ deleted)'
  BY <1>2 DEF AreSet
<1>6. TimersTypeOK'
  BY <1>3, <1>4, <1>5, TypesFollowNext
<1>7. DaemonWakesInTime' /\ SleepsWithinTurn'
  BY DEF DaemonWakesInTime, SleepsWithinTurn
<1> QED
  BY <1>3, <1>6, <1>7 DEF TimersInv

(* Switching the lists keeps the invariant.                                *)
LEMMA SwitchKeeps ==
    ASSUME IInv', TimersInv, SwitchLists, prvProcessTimerOrBlockTask
    PROVE  TimersInv'
<1> PICK K : K = prvSampleTimeNow(Lists)
  OBVIOUS
<1>1. /\ TimersTypeOK /\ ListsAreExact /\ CommandsAreTimely
      /\ Len(xTimerQueue) <= QueueLength
      /\ xTimerPeriodInTicks \in [Timer -> Periods]
      /\ xTickCount \in TickType /\ xLastTime \in TickType
      /\ active \subseteq Timer \ deleted /\ deleted \subseteq Timer
  BY DEF TimersInv, TimersTypeOK
<1>2. /\ SetLists(K) /\ daemon' = "commands" /\ xTicksToSleep' = xTicksToSleep
      /\ UNCHANGED <<load, xTickCount, xTimerPeriodInTicks, autoReload, deleted, xTimerQueue>>
      /\ xLastTime' = xTickCount
  BY DEF SwitchLists, prvProcessTimerOrBlockTask
<1>3. AreSound(Lists) /\ OnLists(Lists) = active
  BY <1>1, ListsAreSound
<1>4. PICK d \in 0..portMAX_DELAY : IsSampled(K, Lists, d)
  BY <1>1, <1>3, SampleServesDue
<1>5. /\ K \in ListsType /\ Disjoint(K)
      /\ OnLists(K) = OnLists(Lists) \ (DueIn(Lists, d) \ autoReload)
      /\ K.active = Lists.active \ (DueIn(Lists, d) \ autoReload)
      /\ \A u \in OnLists(K) : LeftIn(K, u, xTickCount) \in -MaxLate..xTimerPeriodInTicks[u]
  BY <1>4 DEF IsSampled
<1>6. Lists.active = active
  BY DEF Lists
<1>7. OnLists(K) = K.active /\ K.active \subseteq active
  BY <1>3, <1>5, <1>6
<1>8. CommandsAreTimely'
  BY <1>1, <1>2 DEF CommandsAreTimely
<1> QED
  BY <1>1, <1>2, <1>5, <1>7, <1>8, SetListsKeeps

(* What a timer has left that was called for each period that has passed.  *)
LEMMA AgainInRange ==
    ASSUME NEW t, NEW p \in Nat \ {0}, NEW past \in Nat
    PROVE  /\ t \in autoReload => Again(t, p, past) \in 1..p
           /\ t \notin autoReload => Again(t, p, past) = 0
<1> DEFINE q == past \div p
<1>1. q \in Nat /\ q * p \in Nat /\ q * p <= past /\ past < (q + 1) * p
  BY Quotients, Multiples
<1>2. (q + 1) * p = q * p + p
  <2>1. q + 1 \in Int /\ (q + 1) - 1 = q
    BY <1>1
  <2> QED
    BY <2>1, NextMultiple
<1>3. (q + 1) * p - past \in 1..p
  <2> DEFINE y == q * p
  <2> HIDE DEF y, q
  <2>1. y \in Nat /\ y <= past /\ past < y + p /\ (q + 1) * p = y + p
    BY <1>1, <1>2 DEF y
  <2> QED
    BY <2>1
<1> QED
  BY <1>3 DEF Again, CallsOf

(* The step of prvProcessExpiredTimer: the timer that is first on the list *)
(* is served up to the present.                                            *)
LEMMA ProcessServes ==
    ASSUME TimersTypeOK, ListsAreExact, ~Wrapped, NEW t \in FirstToExpire(pxCurrentTimerList),
           pxCurrentTimerList[t] <= xTickCount
    PROVE  /\ t \in active /\ Left(t) <= 0
           /\ IsServed(prvProcessExpiredTimer(Lists, t, xTickCount), RemoveFromBoth(Lists, t), t,
                       xTimerPeriodInTicks[t], -Left(t), xTickCount)
<1> PICK R, p, expired : /\ R = RemoveFromBoth(Lists, t) /\ p = xTimerPeriodInTicks[t]
                         /\ expired = pxCurrentTimerList[t]
  OBVIOUS
<1>1. t \in DOMAIN pxCurrentTimerList
  BY DEF FirstToExpire
<1>2. /\ t \in active /\ t \in Timer /\ expired \in TickType /\ xTickCount \in TickType
      /\ xTimerPeriodInTicks \in [Timer -> Periods]
  BY <1>1 DEF TimersTypeOK, ListsAreExact
<1>3. p \in 1..portMAX_DELAY
  BY <1>2, PeriodsAreTicks
<1>4. Left(t) = expired - xTickCount
  BY <1>1 DEF Left
<1>5. Minus(xTickCount, expired) = xTickCount - expired
  <2>1. Minus(xTickCount, expired) = IF xTickCount >= expired THEN xTickCount - expired
                                     ELSE xTickCount - expired + Modulus
    BY <1>2, TickArithmetic
  <2> QED
    BY <2>1
<1>6. Left(t) <= 0 /\ -Left(t) = Minus(xTickCount, expired)
  BY <1>2, <1>4, <1>5, TimersAssumption DEF TickType
<1>7. R \in ListsType /\ Disjoint(R) /\ OnLists(R) = active \ {t}
  BY RemovedAreSound DEF AreSound
<1>8. t \notin OnLists(R)
  BY <1>7
<1>9. IsServed(Expired(R, t, expired, xTickCount, p), R, t, p, Minus(xTickCount, expired), xTickCount)
  BY <1>2, <1>3, <1>7, <1>8, ExpiredMeans
<1>10. prvProcessExpiredTimer(Lists, t, xTickCount) = Expired(R, t, expired, xTickCount, p)
  BY DEF prvProcessExpiredTimer, Lists
<1> QED
  BY <1>2, <1>6, <1>9, <1>10

(* Processing the first timer keeps the invariant.                         *)
LEMMA ProcessKeeps ==
    ASSUME IInv', TimersInv, ProcessTimer, prvProcessTimerOrBlockTask
    PROVE  TimersInv'
<1>1. /\ TimersTypeOK /\ ListsAreExact /\ CommandsAreTimely
      /\ Len(xTimerQueue) <= QueueLength
      /\ xTimerPeriodInTicks \in [Timer -> Periods]
      /\ xTickCount \in TickType
      /\ active \subseteq Timer \ deleted /\ deleted \subseteq Timer
  BY DEF TimersInv, TimersTypeOK
<1>2. PICK t \in FirstToExpire(pxCurrentTimerList) :
          /\ pxCurrentTimerList[t] <= xTickCount
          /\ SetLists(prvProcessExpiredTimer(Lists, t, xTickCount))
  BY DEF ProcessTimer
<1> PICK K, R, p : /\ K = prvProcessExpiredTimer(Lists, t, xTickCount) /\ R = RemoveFromBoth(Lists, t)
                   /\ p = xTimerPeriodInTicks[t]
  OBVIOUS
<1>3. ~Wrapped /\ daemon' = "commands" /\ xTicksToSleep' = xTicksToSleep
  BY DEF ProcessTimer
<1>4. /\ UNCHANGED <<load, xTickCount, xTimerPeriodInTicks, autoReload, deleted, xTimerQueue>>
      /\ xLastTime' = xTickCount
  BY DEF prvProcessTimerOrBlockTask
<1>5. t \in active /\ Left(t) <= 0 /\ IsServed(K, R, t, p, -Left(t), xTickCount)
  BY <1>1, <1>2, <1>3, ProcessServes
<1>6. /\ K \in ListsType /\ Disjoint(K)
      /\ OnLists(K) = IF t \in autoReload THEN OnLists(R) \cup {t} ELSE OnLists(R)
      /\ K.active = IF t \in autoReload THEN R.active ELSE R.active \ {t}
      /\ \A u : LeftIn(K, u, xTickCount) =
                    IF u = t THEN Again(t, p, -Left(t)) ELSE LeftIn(R, u, xTickCount)
  BY <1>5 DEF IsServed
<1>7. /\ OnLists(R) = active \ {t} /\ R.active = active
      /\ \A u : u # t => LeftIn(R, u, Now) = Left(u)
  BY <1>1, RemovedAreSound
<1>8. OnLists(K) = K.active /\ K.active \subseteq active
  BY <1>5, <1>6, <1>7
<1>9. Now = xTickCount
  BY <1>3 DEF Now
<1>10. ASSUME NEW u \in K.active
       PROVE  LeftIn(K, u, xTickCount) \in -MaxLate..xTimerPeriodInTicks'[u]
  <2>1. CASE u = t
    <3>1. t \in autoReload
      BY <1>6, <1>10, <2>1
    <3>2. p \in Nat \ {0}
      BY <1>1, <1>5, PeriodsAreTicks
    <3>3. -Left(t) \in Nat
      BY <1>1, <1>5, TimersAssumption DEF ListsAreExact
    <3>4. Again(t, p, -Left(t)) \in 1..p
      BY <3>1, <3>2, <3>3, AgainInRange
    <3> QED
      BY <1>4, <1>6, <2>1, <3>2, <3>4, TimersAssumption
  <2>2. CASE u # t
    <3>1. u \in active
      BY <1>8, <1>10
    <3>2. LeftIn(K, u, xTickCount) = Left(u)
      BY <1>6, <1>7, <1>9, <2>2
    <3> QED
      BY <1>1, <1>4, <3>1, <3>2 DEF ListsAreExact
  <2> QED
    BY <2>1, <2>2
<1>11. CommandsAreTimely'
  BY <1>1, <1>4 DEF CommandsAreTimely
<1>12. K.active \cap deleted' = {}
  BY <1>1, <1>4, <1>8
<1> QED
  BY <1>1, <1>2, <1>3, <1>4, <1>6, <1>8, <1>10, <1>11, <1>12, SetListsKeeps

(* Tick counts and periods are numbers.                                    *)
LEMMA TickNumbers ==
    /\ TickType \subseteq Nat /\ Periods \subseteq TickType
    /\ \A p \in Periods : p \in Int
<1>1. portMAX_DELAY \in Nat /\ Periods \subseteq 1..portMAX_DELAY
  BY TimersAssumption
<1> QED
  BY <1>1 DEF TickType

(* A command for a timer names one that is there.                          *)
LEMMA FirstCommand ==
    ASSUME IInv, CommandsAreTimely, xTimerQueue # <<>>,
           Head(xTimerQueue).id \in {"start", "stop", "changePeriod", "delete"}
    PROVE  /\ Head(xTimerQueue).timer \in Timer \ deleted
           /\ Head(xTimerQueue).value \in TickType
           /\ Head(xTimerQueue).id = "changePeriod" => Head(xTimerQueue).value \in Periods
<1>1. Head(xTimerQueue) \in GroupMessage \cup TimerMessage
  BY FirstMessage DEF IInv
<1>2. Head(xTimerQueue).timer \in Timer /\ Head(xTimerQueue).value \in TickType
  BY <1>1 DEF GroupMessage, TimerMessage
<1>3. 1 \in DOMAIN xTimerQueue /\ Head(xTimerQueue) = xTimerQueue[1]
  <2>1. xTimerQueue \in Seq(GroupMessage \cup TimerMessage)
    BY DEF IInv, MessagesAreLegal
  <2> HIDE DEF GroupMessage, TimerMessage
  <2> QED
    BY <2>1
<1> QED
  BY <1>2, <1>3 DEF CommandsAreTimely

(* The lists on which the daemon carries out a command for t.              *)
IsReady(L, t) ==
    /\ L \in ListsType /\ Disjoint(L)
    /\ t \notin OnLists(L) /\ OnLists(L) = L.active \ {t}
    /\ L.active \subseteq active
    /\ \A u \in OnLists(L) : LeftIn(L, u, xTickCount) \in -MaxLate..xTimerPeriodInTicks[u]

(* After the sample the timer of the command is on no list.                *)
LEMMA SampledIsReady ==
    ASSUME TimersTypeOK, ListsAreExact, NEW t, NEW L, NEW d, IsSampled(L, RemoveFromBoth(Lists, t), d)
    PROVE  IsReady(L, t)
<1> PICK R : R = RemoveFromBoth(Lists, t)
  OBVIOUS
<1>1. OnLists(R) = active \ {t} /\ R.active = active
  BY RemovedAreSound
<1>2. /\ L \in ListsType /\ Disjoint(L)
      /\ OnLists(L) = OnLists(R) \ (DueIn(R, d) \ autoReload)
      /\ L.active = R.active \ (DueIn(R, d) \ autoReload)
      /\ \A u \in OnLists(L) : LeftIn(L, u, xTickCount) \in -MaxLate..xTimerPeriodInTicks[u]
  BY DEF IsSampled
<1>3. t \notin DueIn(R, d)
  BY <1>1 DEF DueIn
<1> QED
  BY <1>1, <1>2, <1>3 DEF IsReady

(* The sample that the processing of a command begins with.                *)
LEMMA CommandSamples ==
    ASSUME TimersTypeOK, ListsAreExact, NEW t
    PROVE  \E d \in 0..portMAX_DELAY :
               IsSampled(prvSampleTimeNow(RemoveFromBoth(Lists, t)), RemoveFromBoth(Lists, t), d)
<1>1. AreSound(RemoveFromBoth(Lists, t))
  BY RemovedAreSound
<1> QED
  BY <1>1, SampleServesDue DEF TimersTypeOK

(* A timer that is set to run with no more than its period left.           *)
LEMMA RunKeeps ==
    ASSUME IInv', TimersInv, NEW t \in Timer \ deleted, NEW L, IsReady(L, t),
           NEW p \in Periods, NEW l \in Int, l <= p, NEW K, IsRun(K, L, t, p, l), SetLists(K),
           xTimerPeriodInTicks' = [xTimerPeriodInTicks EXCEPT ![t] = p],
           xTickCount' = xTickCount, xLastTime' = xTickCount,
           UNCHANGED <<load, autoReload, xTicksToSleep, deleted>>, daemon' = "commands",
           CommandsAreTimely', Len(xTimerQueue') <= QueueLength
    PROVE  TimersInv'
<1>1. /\ xTimerPeriodInTicks \in [Timer -> Periods]
      /\ active \subseteq Timer \ deleted /\ deleted \subseteq Timer
  BY DEF TimersInv, TimersTypeOK
<1>2. xTimerPeriodInTicks' \in [Timer -> Periods] /\ p \in Nat \ {0} /\ MaxLate \in Nat
  BY <1>1, TimersAssumption
<1>3. /\ L \in ListsType /\ Disjoint(L)
      /\ t \notin OnLists(L) /\ OnLists(L) = L.active \ {t}
      /\ L.active \subseteq active
      /\ \A u \in OnLists(L) : LeftIn(L, u, xTickCount) \in -MaxLate..xTimerPeriodInTicks[u]
  BY DEF IsReady
<1>4. /\ K \in ListsType /\ Disjoint(K)
      /\ OnLists(K) = IF l <= 0 /\ t \notin autoReload THEN OnLists(L) ELSE OnLists(L) \cup {t}
      /\ K.active = IF l <= 0 /\ t \notin autoReload THEN L.active \ {t} ELSE L.active \cup {t}
      /\ \A u : LeftIn(K, u, xTickCount) =
                    IF u # t THEN LeftIn(L, u, xTickCount)
                    ELSE IF l <= 0 THEN Again(t, p, -l) ELSE l
  BY DEF IsRun
<1>5. OnLists(K) = K.active /\ K.active \subseteq OnLists(L) \cup {t}
  BY <1>3, <1>4
<1>6. ASSUME NEW u \in K.active
      PROVE  LeftIn(K, u, xTickCount) \in -MaxLate..xTimerPeriodInTicks'[u]
  <2>1. CASE u = t
    <3>1. xTimerPeriodInTicks'[u] = p
      BY <1>1, <2>1
    <3>2. CASE l <= 0
      <4>1. t \in autoReload
        BY <1>3, <1>4, <1>6, <2>1, <3>2
      <4>2. -l \in Nat
        BY <3>2
      <4>3. Again(t, p, -l) \in 1..p
        BY <1>2, <4>1, <4>2, AgainInRange
      <4> QED
        BY <1>2, <1>4, <2>1, <3>1, <3>2, <4>3
    <3>3. CASE ~(l <= 0)
      BY <1>2, <1>4, <2>1, <3>1, <3>3
    <3> QED
      BY <3>2, <3>3
  <2>2. CASE u # t
    <3>1. u \in OnLists(L) /\ u \in Timer
      BY <1>1, <1>3, <1>5, <1>6, <2>2
    <3>2. xTimerPeriodInTicks'[u] = xTimerPeriodInTicks[u]
      BY <1>1, <2>2, <3>1
    <3> QED
      BY <1>3, <1>4, <2>2, <3>1, <3>2
  <2> QED
    BY <2>1, <2>2
<1>7. K.active \cap deleted' = {} /\ deleted' \subseteq Timer
  BY <1>1, <1>3, <1>5
<1> QED
  BY <1>2, <1>4, <1>5, <1>6, <1>7, SetListsKeeps

(* A timer that is told to stop, or is deleted.                            *)
LEMMA StopMeans ==
    ASSUME NEW L \in ListsType, Disjoint(L), NEW m
    PROVE  /\ Stop(L, m) \in ListsType /\ Disjoint(Stop(L, m))
           /\ OnLists(Stop(L, m)) = OnLists(L)
           /\ Stop(L, m).active = L.active \ {m.timer} /\ Stop(L, m).called = L.called
           /\ \A u : LeftIn(Stop(L, m), u, xTickCount) = LeftIn(L, u, xTickCount)
<1> PICK K : K = Stop(L, m)
  OBVIOUS
<1>1. /\ K \in ListsType
      /\ K.current = L.current /\ K.overflow = L.overflow /\ K.called = L.called
      /\ K.active = L.active \ {m.timer}
  BY DEF ListsType, Stop
<1>2. Disjoint(K) /\ OnLists(K) = OnLists(L)
      /\ \A u : LeftIn(K, u, xTickCount) = LeftIn(L, u, xTickCount)
  BY <1>1 DEF Disjoint, OnLists, LeftIn
<1> QED
  BY <1>1, <1>2

(* A timer that is stopped or deleted leaves the invariant.                *)
LEMMA StopKeeps ==
    ASSUME IInv', TimersInv, NEW m, m.timer \in Timer \ deleted, NEW L, IsReady(L, m.timer),
           SetLists(Stop(L, m)), xTimerPeriodInTicks' = xTimerPeriodInTicks,
           deleted' = deleted \/ deleted' = deleted \cup {m.timer},
           xTickCount' = xTickCount, xLastTime' = xTickCount,
           UNCHANGED <<load, autoReload, xTicksToSleep>>, daemon' = "commands",
           CommandsAreTimely', Len(xTimerQueue') <= QueueLength
    PROVE  TimersInv'
<1> PICK K, t : K = Stop(L, m) /\ t = m.timer
  OBVIOUS
<1>1. /\ xTimerPeriodInTicks \in [Timer -> Periods]
      /\ active \subseteq Timer \ deleted /\ deleted \subseteq Timer
  BY DEF TimersInv, TimersTypeOK
<1>2. /\ L \in ListsType /\ Disjoint(L)
      /\ t \notin OnLists(L) /\ OnLists(L) = L.active \ {t}
      /\ L.active \subseteq active
      /\ \A u \in OnLists(L) : LeftIn(L, u, xTickCount) \in -MaxLate..xTimerPeriodInTicks[u]
  BY DEF IsReady
<1>3. /\ K \in ListsType /\ Disjoint(K) /\ OnLists(K) = OnLists(L) /\ K.active = L.active \ {t}
      /\ \A u : LeftIn(K, u, xTickCount) = LeftIn(L, u, xTickCount)
  BY <1>2, StopMeans
<1>4. OnLists(K) = K.active /\ K.active \cap deleted' = {} /\ deleted' \subseteq Timer
  BY <1>1, <1>2, <1>3
<1>5. \A u \in K.active : LeftIn(K, u, xTickCount) \in -MaxLate..xTimerPeriodInTicks'[u]
  BY <1>2, <1>3
<1> QED
  BY <1>1, <1>3, <1>4, <1>5, SetListsKeeps

(* A command for a timer keeps the invariant.                              *)
LEMMA CommandKeeps ==
    ASSUME IInv, IInv', TimersInv, prvProcessReceivedCommands, xTimerQueue # <<>>,
           TimerCommand(Head(xTimerQueue))
    PROVE  TimersInv'
<1> PICK m, t, L : m = Head(xTimerQueue) /\ t = m.timer /\ L = prvSampleTimeNow(RemoveFromBoth(Lists, t))
  OBVIOUS
<1>1. TimersTypeOK /\ ListsAreExact /\ CommandsAreTimely
  BY DEF TimersInv
<1>2. m.id \in {"start", "stop", "changePeriod", "delete"}
  BY DEF TimerCommand
<1>3. /\ t \in Timer \ deleted /\ m.value \in TickType
      /\ m.id = "changePeriod" => m.value \in Periods
  BY <1>1, <1>2, FirstCommand
<1>4. IsReady(L, t)
  BY <1>1, CommandSamples, SampledIsReady
<1>5. /\ xTimerQueue' = Tail(xTimerQueue) /\ daemon' = "commands"
      /\ UNCHANGED <<load, autoReload, xTicksToSleep, xTickCount>>
  BY DEF prvProcessReceivedCommands
<1>6. /\ xLastTime' = xTickCount
      /\ deleted' = IF m.id = "delete" THEN deleted \cup {t} ELSE deleted
      /\ xTimerPeriodInTicks' = IF m.id = "changePeriod"
                                THEN [xTimerPeriodInTicks EXCEPT ![t] = m.value]
                                ELSE xTimerPeriodInTicks
  BY DEF TimerCommand
<1>7. /\ m.id = "start" => SetLists(Start(L, m))
      /\ m.id = "changePeriod" => SetLists(ChangePeriod(L, m))
      /\ m.id \in {"stop", "delete"} => SetLists(Stop(L, m))
  BY DEF TimerCommand
<1>8. CommandsAreTimely' /\ Len(xTimerQueue') <= QueueLength
  <2>1. CommandsAreTimely' /\ Len(xTimerQueue') <= Len(xTimerQueue)
    BY <1>1, <1>5, <1>6, TailIsTimely DEF TimersTypeOK
  <2>2. Len(xTimerQueue) \in Nat /\ Len(xTimerQueue') \in Nat
    BY <1>1, <1>5 DEF TimersTypeOK
  <2> QED
    BY <1>1, <2>1, <2>2, TimersAssumption DEF TimersTypeOK
<1>9. xTickCount \in TickType /\ xTimerPeriodInTicks \in [Timer -> Periods]
  BY <1>1 DEF TimersTypeOK
<1>10. L \in ListsType /\ Disjoint(L) /\ t \notin OnLists(L)
  BY <1>4 DEF IsReady
<1>11. CASE m.id = "start"
  <2> PICK p, l, K : /\ p = xTimerPeriodInTicks[t] /\ l = p - Minus(xTickCount, m.value)
                     /\ K = Start(L, m)
    OBVIOUS
  <2>1. p \in Periods /\ p \in 1..portMAX_DELAY /\ p \in Nat
    BY <1>3, <1>9, PeriodsAreTicks
  <2>2. l \in Int /\ l <= p
    <3>1. Minus(xTickCount, m.value) \in Nat
      BY <1>3, <1>9, TickArithmetic, TickNumbers
    <3> QED
      BY <2>1, <3>1
  <2>3. IsRun(K, L, t, p, l)
    BY <1>3, <1>9, <1>10, <2>1, StartRuns
  <2>4. xTimerPeriodInTicks' = [xTimerPeriodInTicks EXCEPT ![t] = p]
    BY <1>6, <1>9, <1>11
  <2>5. deleted' = deleted /\ SetLists(K)
    BY <1>6, <1>7, <1>11
  <2> QED
    BY <1>3, <1>4, <1>5, <1>6, <1>8, <2>1, <2>2, <2>3, <2>4, <2>5, RunKeeps
<1>12. CASE m.id = "changePeriod"
  <2> PICK p, K : p = m.value /\ K = ChangePeriod(L, m)
    OBVIOUS
  <2>1. p \in Periods /\ p \in Int
    <3>1. p \in Periods
      BY <1>3, <1>12
    <3> QED
      BY <3>1, TickNumbers
  <2>2. IsRun(K, L, t, p, p)
    BY <1>3, <1>9, <1>10, <2>1, ChangeRuns
  <2>3. /\ xTimerPeriodInTicks' = [xTimerPeriodInTicks EXCEPT ![t] = p]
        /\ deleted' = deleted /\ SetLists(K) /\ p <= p
    BY <1>6, <1>7, <1>12, <2>1
  <2> QED
    BY <1>3, <1>4, <1>5, <1>6, <1>8, <2>1, <2>2, <2>3, RunKeeps
<1>13. CASE m.id \in {"stop", "delete"}
  <2>1. /\ SetLists(Stop(L, m)) /\ xTimerPeriodInTicks' = xTimerPeriodInTicks
        /\ deleted' = deleted \/ deleted' = deleted \cup {t}
    BY <1>6, <1>7, <1>13
  <2> QED
    BY <1>3, <1>4, <1>5, <1>6, <1>8, <2>1, StopKeeps
<1> QED
  BY <1>2, <1>11, <1>12, <1>13

(* The invariant holds before the scheduler starts.                        *)
LEMMA InitTimersInv ==
    ASSUME TimersInit
    PROVE  TimersInv
<1>1. IInv
  BY InvHoldsAtFirst
<1>2. DOMAIN pxCurrentTimerList = {} /\ DOMAIN pxOverflowTimerList = {}
  BY DEF TimersInit
<1>3. ListsAreExact
  BY <1>2 DEF TimersInit, ListsAreExact
<1>4. /\ 0 \in TickType /\ 0 \in 0..Forever /\ Len(<<>>) <= QueueLength
      /\ xTimerPeriodInTicks \in [Timer -> Periods]
  BY TimersAssumption DEF TimersInit, TickType, Forever, Modulus
<1>5. TimersTypeOK
  <2>1. DaemonTypeOK
    BY <1>4, QuietType DEF TimersInit, DaemonTypeOK
  <2>2. active \subseteq Timer \ deleted
    BY DEF TimersInit
  <2> QED
    BY <1>1, <1>3, <2>1, <2>2, TypesFollow
<1>6. CommandsAreTimely /\ DaemonWakesInTime /\ SleepsWithinTurn
  BY DEF TimersInit, CommandsAreTimely, DaemonWakesInTime, SleepsWithinTurn
<1> QED
  BY <1>3, <1>5, <1>6 DEF TimersInv

(* Every step keeps the invariant.                                         *)
LEMMA NextKeepsTimersInv ==
    ASSUME IInv, TimersInv, [TimersNext]_allVars
    PROVE  TimersInv'
<1>1. IInv'
  BY StepKeepsInv
<1>2. CASE prvProcessTimerOrBlockTask
  BY <1>1, <1>2, SwitchKeeps, ProcessKeeps, BlockKeeps DEF prvProcessTimerOrBlockTask
<1>3. CASE prvProcessReceivedCommands
  BY <1>1, <1>3, PendedCallKeeps, CommandKeeps DEF prvProcessReceivedCommands
<1>4. CASE Tick
  BY <1>1, <1>4, TickKeeps
<1>5. CASE \/ \E t \in Timer : \/ xTimerStart(t) \/ xTimerStop(t) \/ xTimerDelete(t)
                               \/ xTimerChangePeriod(t)
           \/ PendFunctionCall("setFromISR", "setBits")
           \/ PendFunctionCall("clearFromISR", "clearBits")
  BY <1>1, <1>5, SendersKeep
<1>6. CASE \/ Ask \/ StartFails \/ GroupCall \/ UNCHANGED allVars
           \/ \E t \in Timer : vTimerSetReloadMode(t)
  BY <1>1, <1>6, OthersKeep
<1> QED
  BY <1>2, <1>3, <1>4, <1>5, <1>6 DEF TimersNext

(* The invariant of the daemon: every running timer is on one list, with   *)
(* what it has left between MaxLate ticks too few and its period, for any  *)
(* timers, periods and width of the tick count.                            *)
THEOREM TimersInvariance == TimersSpec => []TimersInv
<1>1. TimersInit => TimersInv
  BY InitTimersInv
<1>2. IInv /\ TimersInv /\ [TimersNext]_allVars => TimersInv'
  BY NextKeepsTimersInv
<1> QED
  BY <1>1, <1>2, Invariance, PTL DEF TimersSpec

(* Every variable keeps its type; no running timer is one whose deletion   *)
(* has been processed.                                                     *)
THEOREM TypeCorrect == TimersSpec => []TimersTypeOK
<1>1. TimersInv => TimersTypeOK
  BY DEF TimersInv
<1> QED
  BY <1>1, TimersInvariance, PTL

(* The daemon, asleep, wakes before or when the first timer expires, on    *)
(* whichever side of the wrap of the tick count.                           *)
THEOREM DaemonIsWoken == TimersSpec => []DaemonWakesInTime
<1>1. TimersInv => DaemonWakesInTime
  BY DEF TimersInv
<1> QED
  BY <1>1, TimersInvariance, PTL

-----------------------------------------------------------------------------
(* Steps of the daemon are steps of TimerSpec.                             *)

(* The lists R hold the timers of S that run.                              *)
IsPart(R, S) ==
    /\ R \in ListsType /\ R.active = active
    /\ S \subseteq Timer /\ OnLists(R) = S \cap active
    /\ \A u \in S : LeftIn(R, u, Now) = Left(u)

(* The lists L are what TimerSpec has after the timers of S were served.   *)
AgreesOn(L, S, d) ==
    /\ L.active = Promised!ActiveAfter(S, d)
    /\ L.called = Promised!CallsAfter(S, d)
    /\ \A u \in S : LeftIn(L, u, xTickCount) = Promised!LeftAfter(S, d)[u]
    /\ \A u \in Timer \ S : L.called[u] = 0

(* The daemon's lists hold all the timers that run.                        *)
LEMMA WholeLists ==
    ASSUME TimersTypeOK, ListsAreExact
    PROVE  IsPart(Lists, Timer) /\ AreSound(Lists)
<1>1. /\ AreSound(Lists) /\ OnLists(Lists) = active
      /\ \A u : LeftIn(Lists, u, Now) = Left(u)
  BY ListsAreSound
<1>2. Lists.active = active /\ active \subseteq Timer
  BY DEF Lists, TimersTypeOK
<1> QED
  BY <1>1, <1>2 DEF IsPart, AreSound

(* Without the timer of a command they hold the others.                    *)
LEMMA PartOfLists ==
    ASSUME TimersTypeOK, ListsAreExact, NEW t
    PROVE  IsPart(RemoveFromBoth(Lists, t), Timer \ {t})
<1>1. /\ AreSound(RemoveFromBoth(Lists, t))
      /\ OnLists(RemoveFromBoth(Lists, t)) = active \ {t}
      /\ RemoveFromBoth(Lists, t).active = active
      /\ \A u : u # t => LeftIn(RemoveFromBoth(Lists, t), u, Now) = Left(u)
  BY RemovedAreSound
<1>2. active \subseteq Timer
  BY DEF TimersTypeOK
<1> QED
  BY <1>1, <1>2 DEF IsPart, AreSound

(* Times are numbers.                                                      *)
LEMMA LeftIsInt ==
    ASSUME TimersTypeOK, ListsAreExact, NEW u
    PROVE  Left(u) \in Int /\ Now \in Int /\ xTickCount \in Int
<1>1. Lists \in ListsType /\ LeftIn(Lists, u, Now) = Left(u)
  BY ListsAreSound DEF AreSound
<1>2. Now \in Int /\ xTickCount \in Int
  BY TimersAssumption DEF TimersTypeOK, Now, TickType, Modulus
<1> QED
  BY <1>1, <1>2, LeftIsNumber

(* The timers of S that were due are served as TimerSpec says.             *)
LEMMA SampleMaps ==
    ASSUME TimersTypeOK, ListsAreExact, NEW R, NEW S, IsPart(R, S),
           NEW d \in Nat, NEW L, IsSampled(L, R, d)
    PROVE  AgreesOn(L, S, d)
<1> DEFINE due == DueIn(R, d)
           p(u) == xTimerPeriodInTicks[u]
<1>1. /\ R \in ListsType /\ R.active = active
      /\ S \subseteq Timer /\ OnLists(R) = S \cap active
      /\ \A u \in S : LeftIn(R, u, Now) = Left(u)
  BY DEF IsPart
<1>2. Promised!Served(S, d) = due
  BY <1>1 DEF Promised!Served, DueIn, TicksLeft
<1>3. /\ L \in ListsType /\ L.active = active \ (due \ autoReload)
      /\ \A u \in Timer :
             L.called[u] = IF u \in due THEN CallsOf(u, p(u), -d - LeftIn(R, u, Now)) ELSE 0
      /\ \A u \in Timer :
             LeftIn(L, u, xTickCount) =
                 IF u \notin due THEN LeftIn(R, u, Now)
                 ELSE IF u \in autoReload THEN Again(u, p(u), -d - LeftIn(R, u, Now)) - d
                 ELSE 0
  BY <1>1 DEF IsSampled
<1>4. due \subseteq S /\ \A u \in due : Left(u) <= -d /\ Left(u) \in Int
  BY <1>1, LeftIsInt DEF DueIn
<1>5. ASSUME NEW u \in due
      PROVE  /\ Promised!Callbacks(u, d) = CallsOf(u, p(u), -d - Left(u))
             /\ u \in autoReload =>
                    Left(u) + Promised!Callbacks(u, d) * p(u) = Again(u, p(u), -d - Left(u)) - d
  <2>1. u \in Timer /\ Left(u) \in Int /\ Left(u) <= -d /\ TicksLeft[u] = Left(u)
    BY <1>1, <1>4, <1>5 DEF TicksLeft
  <2>2. Promised!Callbacks(u, d) = CallsOf(u, p(u), -d - Left(u))
    BY <2>1 DEF Promised!Callbacks, Promised!Expiries, CallsOf
  <2>3. ASSUME u \in autoReload
        PROVE  Left(u) + Promised!Callbacks(u, d) * p(u) = Again(u, p(u), -d - Left(u)) - d
    <3> DEFINE past == -d - Left(u)
               n    == CallsOf(u, p(u), past)
    <3>1. past \in Nat
      BY <2>1
    <3>2. p(u) \in Nat \ {0}
      BY <2>1, PeriodsAreTicks DEF TimersTypeOK
    <3>3. past \div p(u) \in Nat
      BY <3>1, <3>2, Quotients
    <3>4. n \in Int
      BY <2>3, <3>3 DEF CallsOf
    <3>5. n * p(u) \in Int
      BY <3>2, <3>4
    <3>6. Again(u, p(u), past) = n * p(u) - past
      BY <2>3 DEF Again
    <3> QED
      BY <2>1, <2>2, <3>5, <3>6
  <2> QED
    BY <2>2, <2>3
<1>6. L.active = Promised!ActiveAfter(S, d)
  BY <1>2, <1>3 DEF Promised!ActiveAfter
<1>7. L.called = Promised!CallsAfter(S, d)
  <2>1. Promised!CallsAfter(S, d) = [u \in Timer |-> IF u \in due THEN Promised!Callbacks(u, d) ELSE 0]
    BY <1>2 DEF Promised!CallsAfter
  <2>2. L.called = [u \in Timer |-> L.called[u]]
    BY <1>3 DEF ListsType
  <2>3. \A u \in due : LeftIn(R, u, Now) = Left(u)
    BY <1>1, <1>4
  <2> HIDE DEF due, p
  <2>4. \A u \in Timer : L.called[u] = IF u \in due THEN Promised!Callbacks(u, d) ELSE 0
    BY <1>3, <1>5, <2>3
  <2> QED
    BY <2>1, <2>2, <2>4
<1>8. ASSUME NEW u \in S
      PROVE  LeftIn(L, u, xTickCount) = Promised!LeftAfter(S, d)[u]
  <2>1. u \in Timer /\ LeftIn(R, u, Now) = Left(u)
    BY <1>1
  <2>2. Promised!LeftAfter(S, d)[u] =
            IF u \notin due THEN Left(u)
            ELSE IF u \in autoReload THEN Left(u) + Promised!Callbacks(u, d) * p(u) ELSE 0
    BY <1>2, <2>1 DEF Promised!LeftAfter, TicksLeft
  <2> HIDE DEF due, p
  <2> QED
    BY <1>3, <1>5, <2>1, <2>2
<1>9. \A u \in Timer \ S : L.called[u] = 0
  BY <1>3, <1>4
<1> QED
  BY <1>6, <1>7, <1>8, <1>9 DEF AgreesOn

abstractVars == <<active, TicksLeft, xTimerPeriodInTicks, autoReload, Commands, called>>

(* Nothing runs at first.                                                  *)
LEMMA InitMaps == TimersInit => Promised!Init
<1> SUFFICES ASSUME TimersInit PROVE Promised!Init
  OBVIOUS
<1>1. /\ DOMAIN pxCurrentTimerList = {} /\ DOMAIN pxOverflowTimerList = {}
      /\ active = {} /\ xTimerQueue = <<>> /\ called = Quiet
  BY DEF TimersInit
<1>2. TicksLeft = Promised!Quiet
  BY <1>1 DEF TicksLeft, Left, Promised!Quiet
<1>3. Commands = <<>>
  <2>1. DOMAIN xTimerQueue = {}
    BY <1>1
  <2>2. Commands \in [{} -> {}]
    BY <2>1 DEF Commands
  <2> QED
    BY <2>2, EmptyList
<1>4. xTimerPeriodInTicks \in [Timer -> Periods] /\ autoReload \in SUBSET Timer
  BY TimersAssumption DEF TimersInit
<1> QED
  BY <1>1, <1>2, <1>3, <1>4 DEF Promised!Init, Promised!Quiet, Quiet

(* Commands on their way are the same while time stands still.             *)
LEMMA CommandsStay ==
    ASSUME UNCHANGED <<xTimerQueue, xTickCount>>
    PROVE  Commands' = Commands
BY DEF Commands

(* A step TimerSpec has no need to see: it serves no timer.                *)
LEMMA QuietMaps ==
    ASSUME TimersTypeOK, ListsAreExact, \A u : (Left(u))' = Left(u), Commands' = Commands,
           called' = Quiet, UNCHANGED <<active, xTimerPeriodInTicks, autoReload>>
    PROVE  Promised!ServeAll(portMAX_DELAY)
<1>1. Promised!Served(Timer, portMAX_DELAY) = {}
  <2>1. ASSUME NEW u \in active
        PROVE  ~(TicksLeft[u] <= -portMAX_DELAY)
    <3>1. u \in Timer /\ Left(u) \in -MaxLate..xTimerPeriodInTicks[u]
      BY DEF TimersTypeOK, ListsAreExact
    <3>2. TicksLeft[u] = Left(u)
      BY <3>1 DEF TicksLeft
    <3> QED
      BY <3>1, <3>2, TimersAssumption, LeftIsInt
  <2> QED
    BY <2>1 DEF Promised!Served
<1>2. TicksLeft' = TicksLeft
  BY DEF TicksLeft
<1>3. Promised!LeftAfter(Timer, portMAX_DELAY) = TicksLeft
  BY <1>1 DEF Promised!LeftAfter, TicksLeft
<1>4. Promised!CallsAfter(Timer, portMAX_DELAY) = Quiet
  BY <1>1 DEF Promised!CallsAfter, Quiet
<1>5. Promised!ActiveAfter(Timer, portMAX_DELAY) = active
  BY <1>1 DEF Promised!ActiveAfter
<1> QED
  BY <1>2, <1>3, <1>4, <1>5 DEF Promised!ServeAll

(* vTimerSetReloadMode is SetReloadMode.                                   *)
LEMMA ReloadMaps ==
    ASSUME TimersTypeOK, ListsAreExact, NEW t \in Timer, vTimerSetReloadMode(t)
    PROVE  Promised!SetReloadMode(t)
<1>1. /\ UNCHANGED <<xTickCount, xLastTime, pxCurrentTimerList, pxOverflowTimerList,
                     xTimerPeriodInTicks, active, xTimerQueue>>
      /\ called' = Quiet /\ autoReload' \in {autoReload \cup {t}, autoReload \ {t}}
  BY DEF vTimerSetReloadMode, timeVars
<1>2. \A u : (Left(u))' = Left(u)
  BY <1>1, ListsStay
<1>3. TicksLeft' = TicksLeft
  BY <1>2 DEF TicksLeft
<1>4. Commands' = Commands
  BY <1>1, CommandsStay
<1> QED
  BY <1>1, <1>3, <1>4 DEF Promised!SetReloadMode, Promised!Quiet, Quiet

(* What a message is to TimerSpec.                                         *)
Meant(m) ==
    [id    |-> IF m.timer = NoTimer THEN "call" ELSE m.id,
     timer |-> m.timer,
     value |-> IF m.id = "start" THEN Minus(xTickCount, m.value) ELSE m.value]

(* Commands, message by message.                                           *)
LEMMA CommandsAre ==
    ASSUME IInv
    PROVE  /\ xTimerQueue \in Seq(GroupMessage \cup TimerMessage)
           /\ Commands = [i \in 1..Len(xTimerQueue) |-> Meant(xTimerQueue[i])]
           /\ Len(xTimerQueue) \in Nat
<1>1. xTimerQueue \in Seq(GroupMessage \cup TimerMessage)
  BY DEF IInv, MessagesAreLegal
<1> HIDE DEF GroupMessage, TimerMessage
<1>2. DOMAIN xTimerQueue = 1..Len(xTimerQueue) /\ Len(xTimerQueue) \in Nat
  BY <1>1, LenProperties
<1> QED
  BY <1>1, <1>2 DEF Commands, Meant

MeantSet == {Meant(m) : m \in GroupMessage \cup TimerMessage}

(* Commands are a sequence as long as the queue.                           *)
LEMMA CommandsType ==
    ASSUME IInv
    PROVE  /\ Commands \in Seq(MeantSet) /\ Len(Commands) = Len(xTimerQueue)
           /\ Len(xTimerQueue) \in Nat
           /\ \A i \in 1..Len(xTimerQueue) : Commands[i] = Meant(xTimerQueue[i])
<1> DEFINE n == Len(xTimerQueue)
<1>1. /\ xTimerQueue \in Seq(GroupMessage \cup TimerMessage)
      /\ Commands = [i \in 1..n |-> Meant(xTimerQueue[i])]
      /\ n \in Nat
  BY CommandsAre
<1>2. \A i \in 1..n : xTimerQueue[i] \in GroupMessage \cup TimerMessage
  BY <1>1, ElementOfSeq
<1>3. \A i \in 1..n : Meant(xTimerQueue[i]) \in MeantSet
  BY <1>2 DEF MeantSet
<1> HIDE DEF n, MeantSet
<1>4. Commands \in [1..n -> MeantSet]
  BY <1>1, <1>3
<1>5. Commands \in Seq(MeantSet) /\ Len(Commands) = n
  BY <1>1, <1>4
<1> QED
  BY <1>1, <1>5 DEF n

(* A message at the end of the queue is a command at the end of Commands.  *)
LEMMA SendMaps ==
    ASSUME IInv, NEW m \in GroupMessage \cup TimerMessage,
           xTimerQueue' = Append(xTimerQueue, m), xTickCount' = xTickCount
    PROVE  Commands' = Append(Commands, Meant(m))
<1> DEFINE n == Len(xTimerQueue)
           M == GroupMessage \cup TimerMessage
<1>1. /\ xTimerQueue \in Seq(M) /\ n \in Nat
      /\ Commands \in Seq(MeantSet) /\ Len(Commands) = n
      /\ \A i \in 1..n : Commands[i] = Meant(xTimerQueue[i])
  BY CommandsType, CommandsAre
<1>2. Meant(m) \in MeantSet
  BY DEF MeantSet
<1> HIDE DEF n, M
<1>3. /\ xTimerQueue' \in Seq(M) /\ Len(xTimerQueue') = n + 1
      /\ \A i \in 1..n : xTimerQueue'[i] = xTimerQueue[i]
      /\ xTimerQueue'[n + 1] = m
  BY <1>1, AppendProperties DEF n, M
<1>4. DOMAIN xTimerQueue' = 1..n + 1
  BY <1>1, <1>3, LenProperties
<1>5. Commands' = [i \in 1..n + 1 |-> Meant(xTimerQueue'[i])]
  BY <1>4 DEF Commands, Meant
<1>6. /\ Append(Commands, Meant(m)) \in Seq(MeantSet)
      /\ Len(Append(Commands, Meant(m))) = n + 1
      /\ \A i \in 1..n : Append(Commands, Meant(m))[i] = Commands[i]
      /\ Append(Commands, Meant(m))[n + 1] = Meant(m)
  BY <1>1, <1>2, AppendProperties
<1> HIDE DEF MeantSet
<1>7. \A i \in 1..n + 1 : Append(Commands, Meant(m))[i] = Commands'[i]
  <2>1. ASSUME NEW i \in 1..n
        PROVE  Append(Commands, Meant(m))[i] = Commands'[i]
    BY <1>1, <1>3, <1>5, <1>6, <2>1
  <2>2. Append(Commands, Meant(m))[n + 1] = Commands'[n + 1]
    BY <1>1, <1>3, <1>5, <1>6
  <2> QED
    BY <1>1, <2>1, <2>2
<1>8. Commands' \in [1..n + 1 -> MeantSet]
  <2>1. \A i \in 1..n + 1 : Append(Commands, Meant(m))[i] \in MeantSet
    BY <1>6, ElementOfSeq
  <2> QED
    BY <1>5, <1>7, <2>1
<1>9. Commands' \in Seq(MeantSet) /\ Len(Commands') = n + 1
  BY <1>1, <1>8
<1> QED
  BY <1>6, <1>7, <1>9, SeqEqual

(* The message the daemon takes is the first of Commands.                  *)
LEMMA TakeMaps ==
    ASSUME IInv, xTimerQueue # <<>>, xTimerQueue' = Tail(xTimerQueue), xTickCount' = xTickCount
    PROVE  /\ Commands # <<>> /\ Head(Commands) = Meant(Head(xTimerQueue))
           /\ Commands' = Tail(Commands)
<1> DEFINE n == Len(xTimerQueue)
           M == GroupMessage \cup TimerMessage
<1>1. /\ xTimerQueue \in Seq(M) /\ n \in Nat
      /\ Commands \in Seq(MeantSet) /\ Len(Commands) = n
      /\ \A i \in 1..n : Commands[i] = Meant(xTimerQueue[i])
  BY CommandsType, CommandsAre
<1> HIDE DEF M, MeantSet
<1>2. n # 0
  BY <1>1, EmptySeq
<1>3. Commands # <<>>
  BY <1>1, <1>2
<1>4. Head(Commands) = Meant(Head(xTimerQueue))
  BY <1>1, <1>2
<1>5. /\ Tail(xTimerQueue) \in Seq(M) /\ Len(Tail(xTimerQueue)) = n - 1
      /\ \A i \in 1..n - 1 : Tail(xTimerQueue)[i] = xTimerQueue[i + 1]
  BY <1>1, HeadTailProperties
<1>6. /\ Tail(Commands) \in Seq(MeantSet) /\ Len(Tail(Commands)) = n - 1
      /\ \A i \in 1..n - 1 : Tail(Commands)[i] = Commands[i + 1]
  BY <1>1, <1>3, HeadTailProperties
<1> HIDE DEF n
<1>7. DOMAIN xTimerQueue' = 1..n - 1
  BY <1>5, LenProperties
<1>8. Commands' = [i \in 1..n - 1 |-> Meant(xTimerQueue'[i])]
  BY <1>7 DEF Commands, Meant
<1>9. \A i \in 1..n - 1 : Tail(Commands)[i] = Commands'[i]
  BY <1>1, <1>5, <1>6, <1>8
<1>10. Commands' \in [1..n - 1 -> MeantSet]
  <2>1. \A i \in 1..n - 1 : Tail(Commands)[i] \in MeantSet
    BY <1>6, ElementOfSeq
  <2> QED
    BY <1>8, <1>9, <2>1
<1>11. Commands' \in Seq(MeantSet) /\ Len(Commands') = n - 1
  BY <1>1, <1>2, <1>10
<1>12. Commands' = Tail(Commands)
  BY <1>6, <1>9, <1>11, SeqEqual
<1> QED
  BY <1>3, <1>4, <1>12

(* Commands on their way grow older with each tick.                        *)
LEMMA TickAges ==
    ASSUME IInv, TimersTypeOK, Tick
    PROVE  Commands' = [i \in DOMAIN Commands |->
                           IF Commands[i].id = "start"
                           THEN [Commands[i] EXCEPT !.value = @ + 1]
                           ELSE Commands[i]]
<1> DEFINE n == Len(xTimerQueue)
<1>1. /\ xTimerQueue \in Seq(GroupMessage \cup TimerMessage)
      /\ Commands = [i \in 1..n |-> Meant(xTimerQueue[i])] /\ n \in Nat
  BY CommandsAre
<1>2. /\ xTimerQueue' = xTimerQueue /\ xTickCount' = Plus(xTickCount, 1)
      /\ \A i \in DOMAIN xTimerQueue :
             xTimerQueue[i].id = "start" => Minus(xTickCount, xTimerQueue[i].value) < MaxLate
  BY DEF Tick, Timely
<1>3. DOMAIN xTimerQueue = 1..n
  BY <1>1, LenProperties
<1>4. \A i \in 1..n : xTimerQueue[i] \in GroupMessage \cup TimerMessage
  BY <1>1, ElementOfSeq
<1>5. Commands' = [i \in 1..n |-> Meant(xTimerQueue[i])']
  BY <1>2, <1>3 DEF Commands, Meant
<1>6. ASSUME NEW i \in 1..n
      PROVE  Meant(xTimerQueue[i])' =
                 IF Commands[i].id = "start" THEN [Commands[i] EXCEPT !.value = @ + 1]
                 ELSE Commands[i]
  <2> PICK m : m = xTimerQueue[i]
    OBVIOUS
  <2>1. /\ m \in GroupMessage \cup TimerMessage /\ Commands[i] = Meant(m)
        /\ m.id = "start" => Minus(xTickCount, m.value) < MaxLate
    BY <1>1, <1>2, <1>3, <1>4, <1>6
  <2>2. Meant(xTimerQueue[i])' = [id    |-> IF m.timer = NoTimer THEN "call" ELSE m.id,
                                  timer |-> m.timer,
                                  value |-> IF m.id = "start" THEN Minus(xTickCount', m.value)
                                            ELSE m.value]
    BY <1>2 DEF Meant
  <2>3. CASE m.id = "start"
    <3>1. m.timer \in Timer /\ m.value \in TickType
      BY <2>1, <2>3 DEF GroupMessage, TimerMessage
    <3>2. Minus(xTickCount', m.value) = Minus(xTickCount, m.value) + 1
      <4>1. /\ xTickCount \in TickType /\ 1 \in TickType
            /\ MaxLate < portMAX_DELAY /\ MaxLate \in Nat /\ portMAX_DELAY \in Nat
        BY TimersAssumption DEF TimersTypeOK, TickType
      <4>2. xTickCount' = IF xTickCount + 1 < Modulus THEN xTickCount + 1
                          ELSE xTickCount + 1 - Modulus
        BY <1>2, <4>1, TickArithmetic
      <4>3. Minus(xTickCount, m.value) = IF xTickCount >= m.value THEN xTickCount - m.value
                                         ELSE xTickCount - m.value + Modulus
        BY <3>1, <4>1, TickArithmetic
      <4>4. xTickCount' \in TickType
        BY <1>2, <4>1, TickArithmetic
      <4>5. Minus(xTickCount', m.value) = IF xTickCount' >= m.value THEN xTickCount' - m.value
                                          ELSE xTickCount' - m.value + Modulus
        BY <3>1, <4>4, TickArithmetic
      <4>6. Minus(xTickCount, m.value) < MaxLate
        BY <2>1, <2>3
      <4> QED
        BY <3>1, <4>1, <4>2, <4>3, <4>5, <4>6 DEF TickType, Modulus
    <3>3. m.timer # NoTimer
      BY <3>1, TimersAssumption
    <3> QED
      BY <2>1, <2>2, <2>3, <3>2, <3>3 DEF Meant
  <2>4. CASE m.id # "start"
    BY <2>1, <2>2, <2>4 DEF Meant
  <2> QED
    BY <2>3, <2>4
<1>7. DOMAIN Commands = 1..n
  BY <1>1
<1> QED
  BY <1>5, <1>6, <1>7

(* A tick is a tick for each timer, also across the wrap.                  *)
LEMMA TickMaps ==
    ASSUME IInv, TimersTypeOK, ListsAreExact, Tick
    PROVE  Promised!Tick
<1>1. /\ UNCHANGED <<pxCurrentTimerList, pxOverflowTimerList, active, xTimerPeriodInTicks,
                     autoReload>>
      /\ called' = Quiet
  BY DEF Tick, timerVars
<1>2. \A u \in active : (Left(u))' = Left(u) - 1
  BY TickCountsDown
<1>3. \A u \in Timer \ active : (Left(u))' = 0
  BY <1>1 DEF Left, ListsAreExact
<1>4. active \subseteq Timer
  BY DEF TimersTypeOK
<1>5. TicksLeft' = [t \in Timer |-> IF t \in active THEN TicksLeft[t] - 1 ELSE 0]
  BY <1>2, <1>3, <1>4 DEF TicksLeft
<1>6. Commands' = [i \in DOMAIN Commands |->
                      IF Commands[i].id = "start" THEN [Commands[i] EXCEPT !.value = @ + 1]
                      ELSE Commands[i]]
  BY TickAges
<1> QED
  BY <1>1, <1>5, <1>6 DEF Promised!Tick, Promised!Quiet, Quiet

(* The lists K are put back: what each timer has left then.                *)
LEMMA SetMaps ==
    ASSUME TimersTypeOK, NEW K \in ListsType, Disjoint(K), OnLists(K) = K.active, SetLists(K),
           xTickCount' = xTickCount, xLastTime' = xTickCount
    PROVE  /\ TicksLeft' = [u \in Timer |-> LeftIn(K, u, xTickCount)]
           /\ active' = K.active /\ called' = K.called
<1>1. AreSet(K)
  BY ListsAfter DEF TimersTypeOK
<1>2. \A u \in Timer : (Left(u))' = LeftIn(K, u, xTickCount)
  BY <1>1 DEF AreSet
<1>3. TicksLeft' = [u \in Timer |-> LeftIn(K, u, xTickCount)]
  BY <1>2 DEF TicksLeft
<1> QED
  BY <1>3 DEF SetLists

(* Switching the lists serves all the timers that were due at the wrap.    *)
LEMMA SwitchMaps ==
    ASSUME TimersTypeOK, ListsAreExact, SwitchLists, prvProcessTimerOrBlockTask
    PROVE  \E d \in 0..portMAX_DELAY : Promised!ServeAll(d)
<1> PICK K : K = prvSampleTimeNow(Lists)
  OBVIOUS
<1>1. /\ SetLists(K) /\ xLastTime' = xTickCount
      /\ UNCHANGED <<xTickCount, xTimerPeriodInTicks, autoReload, xTimerQueue>>
  BY DEF SwitchLists, prvProcessTimerOrBlockTask
<1>2. IsPart(Lists, Timer) /\ AreSound(Lists)
  BY WholeLists
<1>3. PICK d \in 0..portMAX_DELAY : IsSampled(K, Lists, d)
  BY <1>2, SampleServesDue DEF TimersTypeOK
<1>4. d \in Nat
  BY <1>3, TimersAssumption
<1>5. AgreesOn(K, Timer, d)
  BY <1>2, <1>3, <1>4, SampleMaps
<1>6. K \in ListsType /\ Disjoint(K) /\ OnLists(K) = K.active
  BY <1>2, <1>3 DEF IsSampled, IsPart, TimersTypeOK
<1>7. /\ TicksLeft' = [u \in Timer |-> LeftIn(K, u, xTickCount)]
      /\ active' = K.active /\ called' = K.called
  BY <1>1, <1>6, SetMaps
<1>8. Promised!LeftAfter(Timer, d) = [u \in Timer |-> LeftIn(K, u, xTickCount)]
  <2>1. \A u \in Timer : Promised!LeftAfter(Timer, d)[u] = LeftIn(K, u, xTickCount)
    BY <1>5 DEF AgreesOn
  <2>2. Promised!LeftAfter(Timer, d) = [u \in Timer |-> Promised!LeftAfter(Timer, d)[u]]
    BY DEF Promised!LeftAfter
  <2> QED
    BY <2>1, <2>2
<1>9. Commands' = Commands
  BY <1>1, CommandsStay
<1>10. K.active = Promised!ActiveAfter(Timer, d) /\ K.called = Promised!CallsAfter(Timer, d)
  BY <1>5 DEF AgreesOn
<1>11. Promised!ServeAll(d)
  BY <1>1, <1>7, <1>8, <1>9, <1>10 DEF Promised!ServeAll
<1> QED
  BY <1>3, <1>11

(* The daemon serves the timer that has been due for longest.              *)
LEMMA ServeMaps ==
    ASSUME TimersTypeOK, ListsAreExact, ProcessTimer, prvProcessTimerOrBlockTask
    PROVE  \E t \in Timer : Promised!ServeFirst(t)
<1>1. PICK t \in FirstToExpire(pxCurrentTimerList) :
          /\ pxCurrentTimerList[t] <= xTickCount
          /\ SetLists(prvProcessExpiredTimer(Lists, t, xTickCount))
  BY DEF ProcessTimer
<1> PICK K, R, p : /\ K = prvProcessExpiredTimer(Lists, t, xTickCount) /\ R = RemoveFromBoth(Lists, t)
                   /\ p = xTimerPeriodInTicks[t]
  OBVIOUS
<1>2. /\ ~Wrapped /\ SetLists(K) /\ xLastTime' = xTickCount
      /\ UNCHANGED <<xTickCount, xTimerPeriodInTicks, autoReload, xTimerQueue>>
  BY <1>1 DEF ProcessTimer, prvProcessTimerOrBlockTask
<1>3. /\ t \in active /\ Left(t) <= 0
      /\ IsServed(K, R, t, p, -Left(t), xTickCount)
  BY <1>1, <1>2, ProcessServes
<1>4. t \in Timer /\ active \subseteq Timer /\ xTimerPeriodInTicks \in [Timer -> Periods]
  BY <1>3 DEF TimersTypeOK
<1>5. /\ AreSound(R) /\ IsPart(R, Timer \ {t}) /\ R.called = Quiet
      /\ OnLists(R) = active \ {t} /\ R.active = active /\ Now = xTickCount
  BY <1>2, RemovedAreSound, PartOfLists DEF AreSound, Now
<1>6. /\ K \in ListsType /\ Disjoint(K)
      /\ OnLists(K) = IF t \in autoReload THEN OnLists(R) \cup {t} ELSE OnLists(R)
      /\ K.active = IF t \in autoReload THEN active ELSE active \ {t}
      /\ K.called[t] = CallsOf(t, p, -Left(t))
      /\ \A u \in Timer \ {t} : K.called[u] = R.called[u]
      /\ \A u : LeftIn(K, u, xTickCount) =
                    IF u = t THEN Again(t, p, -Left(t)) ELSE LeftIn(R, u, xTickCount)
  BY <1>3, <1>5 DEF IsServed
<1>7. OnLists(K) = K.active
  BY <1>3, <1>5, <1>6
<1>8. /\ TicksLeft' = [u \in Timer |-> LeftIn(K, u, xTickCount)]
      /\ active' = K.active /\ called' = K.called
  BY <1>2, <1>6, <1>7, SetMaps
<1>9. Promised!Served({t}, 0) = {t} /\ TicksLeft[t] = Left(t)
  BY <1>3, <1>4 DEF Promised!Served, TicksLeft
<1>10. Left(t) \in Int /\ p \in Nat \ {0}
  BY <1>4, LeftIsInt, PeriodsAreTicks
<1>11. Promised!Callbacks(t, 0) = CallsOf(t, p, -Left(t))
  BY <1>3, <1>9, <1>10 DEF Promised!Callbacks, Promised!Expiries, CallsOf
<1>12. t \in autoReload => Left(t) + Promised!Callbacks(t, 0) * p = Again(t, p, -Left(t))
  <2> DEFINE n == CallsOf(t, p, -Left(t))
  <2>1. (-Left(t)) \div p \in Nat
    BY <1>3, <1>10, Quotients
  <2>2. t \in autoReload => n * p \in Int
    BY <1>10, <2>1 DEF CallsOf
  <2> QED
    BY <1>10, <1>11, <2>2 DEF Again
<1>13. Promised!LeftAfter({t}, 0) = [u \in Timer |-> LeftIn(K, u, xTickCount)]
  <2>1. Promised!LeftAfter({t}, 0) =
            [u \in Timer |-> IF u # t THEN Left(u)
                             ELSE IF t \in autoReload THEN Left(t) + Promised!Callbacks(t, 0) * p
                             ELSE 0]
    BY <1>9 DEF Promised!LeftAfter, TicksLeft
  <2>2. \A u \in Timer \ {t} : LeftIn(K, u, xTickCount) = Left(u)
    BY <1>5, <1>6 DEF IsPart
  <2>3. t \notin autoReload => Again(t, p, -Left(t)) = 0
    BY DEF Again
  <2>4. LeftIn(K, t, xTickCount) = Again(t, p, -Left(t))
    BY <1>6
  <2> QED
    BY <1>12, <2>1, <2>2, <2>3, <2>4
<1>14. Promised!CallsAfter({t}, 0) = K.called
  <2>1. Promised!CallsAfter({t}, 0) = [u \in Timer |-> IF u = t THEN K.called[t] ELSE 0]
    BY <1>6, <1>9, <1>11 DEF Promised!CallsAfter
  <2>2. K.called = [u \in Timer |-> K.called[u]]
    BY <1>6 DEF ListsType
  <2>3. \A u \in Timer \ {t} : K.called[u] = 0
    BY <1>5, <1>6 DEF Quiet
  <2> QED
    BY <2>1, <2>2, <2>3
<1>15. Promised!ActiveAfter({t}, 0) = K.active
  BY <1>3, <1>6, <1>9 DEF Promised!ActiveAfter
<1>16. \A u \in active : TicksLeft[t] <= TicksLeft[u]
  <2>1. ASSUME NEW u \in active PROVE Left(t) <= Left(u)
    <3>1. \A v \in DOMAIN pxCurrentTimerList : pxCurrentTimerList[t] <= pxCurrentTimerList[v]
      BY DEF FirstToExpire
    <3>2. /\ t \in DOMAIN pxCurrentTimerList
          /\ \A v \in DOMAIN pxCurrentTimerList : pxCurrentTimerList[v] \in TickType
          /\ \A v \in DOMAIN pxOverflowTimerList : pxOverflowTimerList[v] \in TickType
          /\ u \in DOMAIN pxCurrentTimerList \/ u \in DOMAIN pxOverflowTimerList
          /\ xTickCount \in TickType
      BY DEF FirstToExpire, ListsAreExact, TimersTypeOK
    <3> QED
      BY <1>2, <3>1, <3>2, TimersAssumption DEF Left, TickType, Modulus
  <2> QED
    BY <1>4, <2>1, <1>9 DEF TicksLeft
<1>17. Commands' = Commands
  BY <1>2, CommandsStay
<1>18. Promised!ServeFirst(t)
  BY <1>2, <1>3, <1>8, <1>9, <1>13, <1>14, <1>15, <1>16, <1>17 DEF Promised!ServeFirst
<1> QED
  BY <1>4, <1>18

(* A timer is set to run with l ticks left, and served if it is due.       *)
LEMMA RunMaps ==
    ASSUME TimersTypeOK, ListsAreExact, NEW t \in Timer, NEW d \in Nat, NEW L,
           IsSampled(L, RemoveFromBoth(Lists, t), d),
           NEW p \in Periods, NEW l \in Int, NEW K, IsRun(K, L, t, p, l), SetLists(K),
           xTimerPeriodInTicks'[t] = p,
           xTickCount' = xTickCount, xLastTime' = xTickCount
    PROVE  Promised!Run(t, l, Timer \ {t}, d)
<1> DEFINE others == Timer \ {t}
           n == IF ~(l <= 0) THEN 0
                ELSE IF t \in autoReload THEN Promised!Expiries(l, p, 0) ELSE 1
           stays == ~(l <= 0 /\ t \notin autoReload)
<1>1. AgreesOn(L, others, d)
  BY PartOfLists, SampleMaps
<1>2. /\ L.active = Promised!ActiveAfter(others, d)
      /\ L.called = Promised!CallsAfter(others, d)
      /\ \A u \in others : LeftIn(L, u, xTickCount) = Promised!LeftAfter(others, d)[u]
      /\ L.called[t] = 0
  BY <1>1 DEF AgreesOn
<1>3. /\ L \in ListsType /\ t \notin OnLists(L) /\ OnLists(L) = L.active \ {t}
  BY SampledIsReady DEF IsReady
<1>4. /\ K \in ListsType /\ Disjoint(K)
      /\ OnLists(K) = IF stays THEN OnLists(L) \cup {t} ELSE OnLists(L)
      /\ K.active = IF stays THEN L.active \cup {t} ELSE L.active \ {t}
      /\ K.called[t] = IF l <= 0 THEN CallsOf(t, p, -l) ELSE L.called[t]
      /\ \A u \in Timer \ {t} : K.called[u] = L.called[u]
      /\ \A u : LeftIn(K, u, xTickCount) =
                    IF u # t THEN LeftIn(L, u, xTickCount)
                    ELSE IF l <= 0 THEN Again(t, p, -l) ELSE l
  BY DEF IsRun
<1>5. OnLists(K) = K.active
  BY <1>3, <1>4
<1>6. /\ TicksLeft' = [u \in Timer |-> LeftIn(K, u, xTickCount)]
      /\ active' = K.active /\ called' = K.called
  BY <1>4, <1>5, SetMaps
<1>7. p \in Nat \ {0}
  BY TimersAssumption
<1>8. l <= 0 => n = CallsOf(t, p, -l)
  BY DEF Promised!Expiries, CallsOf
<1>9. l <= 0 /\ t \in autoReload => l + n * p = Again(t, p, -l)
  <2> SUFFICES ASSUME l <= 0, t \in autoReload PROVE l + n * p = Again(t, p, -l)
    OBVIOUS
  <2>1. (-l) \div p \in Nat
    BY <1>7, Quotients
  <2>2. n * p \in Int
    BY <1>7, <1>8, <2>1 DEF CallsOf
  <2> QED
    BY <1>8, <2>2 DEF Again
<1> HIDE DEF n
<1>10. TicksLeft' = [Promised!LeftAfter(others, d) EXCEPT ![t] =
                        IF ~(l <= 0) THEN l ELSE IF t \in autoReload THEN l + n * p ELSE 0]
  <2> DEFINE rest == IF ~(l <= 0) THEN l ELSE IF t \in autoReload THEN l + n * p ELSE 0
  <2>1. LeftIn(K, t, xTickCount) = rest
    BY <1>4, <1>9 DEF Again
  <2>2. Promised!LeftAfter(others, d) = [u \in Timer |-> Promised!LeftAfter(others, d)[u]]
    BY DEF Promised!LeftAfter
  <2>3. \A u \in others : LeftIn(K, u, xTickCount) = Promised!LeftAfter(others, d)[u]
    BY <1>2, <1>4
  <2> HIDE DEF rest
  <2>4. [Promised!LeftAfter(others, d) EXCEPT ![t] = rest] =
            [u \in Timer |-> IF u = t THEN rest ELSE Promised!LeftAfter(others, d)[u]]
    BY <2>2
  <2>5. \A u \in Timer : LeftIn(K, u, xTickCount) =
                             IF u = t THEN rest ELSE Promised!LeftAfter(others, d)[u]
    BY <2>1, <2>3
  <2>6. TicksLeft' = [Promised!LeftAfter(others, d) EXCEPT ![t] = rest]
    BY <1>6, <2>4, <2>5
  <2> QED
    BY <2>6 DEF rest
<1>11. called' = [Promised!CallsAfter(others, d) EXCEPT ![t] = n]
  <2>1. K.called[t] = n
    BY <1>2, <1>4, <1>8 DEF n
  <2>2. K.called = [u \in Timer |-> K.called[u]] /\ L.called = [u \in Timer |-> L.called[u]]
    BY <1>3, <1>4 DEF ListsType
  <2>3. [L.called EXCEPT ![t] = n] = K.called
    BY <1>4, <2>1, <2>2
  <2> QED
    BY <1>2, <1>6, <2>3
<1>12. active' = IF l <= 0 /\ t \notin autoReload THEN Promised!ActiveAfter(others, d) \ {t}
                 ELSE Promised!ActiveAfter(others, d) \cup {t}
  BY <1>2, <1>4, <1>6
<1> QED
  BY <1>10, <1>11, <1>12 DEF Promised!Run, n

(* A timer is stopped.                                                     *)
LEMMA HaltMaps ==
    ASSUME TimersTypeOK, ListsAreExact, NEW m, m.timer \in Timer, NEW d \in Nat, NEW L,
           IsSampled(L, RemoveFromBoth(Lists, m.timer), d), SetLists(Stop(L, m)),
           xTickCount' = xTickCount, xLastTime' = xTickCount
    PROVE  Promised!Halt(m.timer, Timer \ {m.timer}, d)
<1> PICK K, t : K = Stop(L, m) /\ t = m.timer
  OBVIOUS
<1> DEFINE others == Timer \ {t}
<1>1. AgreesOn(L, others, d)
  BY PartOfLists, SampleMaps
<1>2. /\ L.active = Promised!ActiveAfter(others, d)
      /\ L.called = Promised!CallsAfter(others, d)
      /\ \A u \in others : LeftIn(L, u, xTickCount) = Promised!LeftAfter(others, d)[u]
  BY <1>1 DEF AgreesOn
<1>3. /\ L \in ListsType /\ Disjoint(L)
      /\ t \notin OnLists(L) /\ OnLists(L) = L.active \ {t}
  BY SampledIsReady DEF IsReady
<1>4. /\ K \in ListsType /\ Disjoint(K) /\ OnLists(K) = OnLists(L)
      /\ K.active = L.active \ {t} /\ K.called = L.called
      /\ \A u : LeftIn(K, u, xTickCount) = LeftIn(L, u, xTickCount)
  BY <1>3, StopMeans
<1>5. OnLists(K) = K.active
  BY <1>3, <1>4
<1>6. /\ TicksLeft' = [u \in Timer |-> LeftIn(K, u, xTickCount)]
      /\ active' = K.active /\ called' = K.called
  BY <1>4, <1>5, SetMaps
<1>7. LeftIn(K, t, xTickCount) = 0
  BY <1>3, <1>4, LeftIsNumber, LeftIsInt
<1>8. TicksLeft' = [Promised!LeftAfter(others, d) EXCEPT ![t] = 0]
  <2>1. Promised!LeftAfter(others, d) = [u \in Timer |-> Promised!LeftAfter(others, d)[u]]
    BY DEF Promised!LeftAfter
  <2>2. \A u \in Timer : LeftIn(K, u, xTickCount) =
                             IF u = t THEN 0 ELSE Promised!LeftAfter(others, d)[u]
    BY <1>2, <1>4, <1>7
  <2>3. [Promised!LeftAfter(others, d) EXCEPT ![t] = 0] =
            [u \in Timer |-> IF u = t THEN 0 ELSE Promised!LeftAfter(others, d)[u]]
    BY <2>1
  <2> QED
    BY <1>6, <2>2, <2>3
<1> QED
  BY <1>2, <1>4, <1>6, <1>8 DEF Promised!Halt

(* A command for a timer: all that were due at the wrap, if the daemon     *)
(* finds that the count has wrapped, are served before it.                 *)
LEMMA CommandMaps ==
    ASSUME IInv, TimersInv, prvProcessReceivedCommands, xTimerQueue # <<>>,
           TimerCommand(Head(xTimerQueue))
    PROVE  \E d \in 0..portMAX_DELAY : Promised!Process(d)
<1> PICK m, t, L : m = Head(xTimerQueue) /\ t = m.timer /\ L = prvSampleTimeNow(RemoveFromBoth(Lists, t))
  OBVIOUS
<1>1. TimersTypeOK /\ ListsAreExact /\ CommandsAreTimely
  BY DEF TimersInv
<1>2. m.id \in {"start", "stop", "changePeriod", "delete"}
  BY DEF TimerCommand
<1>3. /\ t \in Timer /\ m.value \in TickType
      /\ m.id = "changePeriod" => m.value \in Periods
  BY <1>1, <1>2, FirstCommand
<1>4. PICK d \in 0..portMAX_DELAY : IsSampled(L, RemoveFromBoth(Lists, t), d)
  BY <1>1, CommandSamples
<1>5. d \in Nat
  BY <1>4, TimersAssumption
<1>6. /\ xTimerQueue' = Tail(xTimerQueue)
      /\ autoReload' = autoReload /\ xTickCount' = xTickCount /\ xLastTime' = xTickCount
      /\ xTimerPeriodInTicks' = IF m.id = "changePeriod"
                                THEN [xTimerPeriodInTicks EXCEPT ![t] = m.value]
                                ELSE xTimerPeriodInTicks
  BY DEF prvProcessReceivedCommands, TimerCommand
<1>7. /\ m.id = "start" => SetLists(Start(L, m))
      /\ m.id = "changePeriod" => SetLists(ChangePeriod(L, m))
      /\ m.id \in {"stop", "delete"} => SetLists(Stop(L, m))
  BY DEF TimerCommand
<1>8. /\ Commands # <<>> /\ Head(Commands) = Meant(m) /\ Commands' = Tail(Commands)
  BY <1>6, TakeMaps
<1>9. t # NoTimer
  BY <1>3, TimersAssumption
<1>10. /\ Head(Commands).id = m.id /\ Head(Commands).timer = t
       /\ Head(Commands).value = IF m.id = "start" THEN Minus(xTickCount, m.value) ELSE m.value
  BY <1>8, <1>9 DEF Meant
<1>11. /\ xTickCount \in TickType /\ xTimerPeriodInTicks \in [Timer -> Periods]
       /\ L \in ListsType /\ Disjoint(L) /\ t \notin OnLists(L)
  BY <1>1, <1>4, SampledIsReady DEF TimersTypeOK, IsReady
<1>12. CASE m.id = "start"
  <2> PICK p, age, K : /\ p = xTimerPeriodInTicks[t] /\ age = Minus(xTickCount, m.value)
                       /\ K = Start(L, m)
    OBVIOUS
  <2>1. p \in Periods /\ p \in 1..portMAX_DELAY /\ p \in Nat
    BY <1>3, <1>11, PeriodsAreTicks
  <2>2. age \in Nat
    BY <1>3, <1>11, TickArithmetic, TickNumbers
  <2>3. IsRun(K, L, t, p, p - age)
    BY <1>3, <1>11, <2>1, StartRuns
  <2>4. xTimerPeriodInTicks' = xTimerPeriodInTicks /\ SetLists(K)
    BY <1>6, <1>7, <1>12
  <2>5. p - age \in Int
    BY <2>1, <2>2
  <2>6. Promised!Run(t, p - age, Timer \ {t}, d)
    BY <1>1, <1>3, <1>4, <1>5, <1>6, <2>1, <2>3, <2>4, <2>5, RunMaps
  <2> QED
    BY <1>6, <1>8, <1>10, <1>12, <2>4, <2>6 DEF Promised!Process
<1>13. CASE m.id = "changePeriod"
  <2> PICK p, K : p = m.value /\ K = ChangePeriod(L, m)
    OBVIOUS
  <2>1. p \in Periods /\ p \in Int
    <3>1. p \in Periods
      BY <1>3, <1>13
    <3> QED
      BY <3>1, TickNumbers
  <2>2. IsRun(K, L, t, p, p)
    BY <1>3, <1>11, <2>1, ChangeRuns
  <2>3. xTimerPeriodInTicks' = [xTimerPeriodInTicks EXCEPT ![t] = p] /\ SetLists(K)
    BY <1>6, <1>7, <1>13
  <2>4. xTimerPeriodInTicks'[t] = p
    BY <1>3, <1>11, <2>3
  <2>5. Promised!Run(t, p, Timer \ {t}, d)
    BY <1>1, <1>3, <1>4, <1>5, <1>6, <2>1, <2>2, <2>3, <2>4, RunMaps
  <2> QED
    BY <1>6, <1>8, <1>10, <1>13, <2>3, <2>5 DEF Promised!Process
<1>14. CASE m.id \in {"stop", "delete"}
  <2>1. SetLists(Stop(L, m)) /\ xTimerPeriodInTicks' = xTimerPeriodInTicks
    BY <1>6, <1>7, <1>14
  <2>2. Promised!Halt(t, Timer \ {t}, d)
    BY <1>1, <1>3, <1>4, <1>5, <1>6, <2>1, HaltMaps
  <2> QED
    BY <1>6, <1>8, <1>10, <1>14, <2>1, <2>2 DEF Promised!Process
<1> QED
  BY <1>2, <1>12, <1>13, <1>14

(* A command that is sent.                                                 *)
LEMMA GenericMaps ==
    ASSUME IInv, TimersTypeOK, ListsAreExact, NEW m \in GroupMessage \cup TimerMessage,
           xTimerGenericCommand(m)
    PROVE  Promised!Send(Meant(m))
<1>1. /\ UNCHANGED <<xTickCount, xLastTime, pxCurrentTimerList, pxOverflowTimerList,
                     xTimerPeriodInTicks, active, autoReload>>
      /\ xTimerQueue' = Append(xTimerQueue, m) /\ called' = Quiet
  BY DEF xTimerGenericCommand, timerVars, timeVars
<1>2. Commands' = Append(Commands, Meant(m))
  BY <1>1, SendMaps
<1>3. \A u : (Left(u))' = Left(u)
  BY <1>1, ListsStay
<1>4. TicksLeft' = TicksLeft
  BY <1>3 DEF TicksLeft
<1> QED
  BY <1>1, <1>2, <1>4 DEF Promised!Send, Promised!Quiet, Quiet

(* The calls that send a command.                                          *)
LEMMA SendersMap ==
    ASSUME IInv, TimersInv,
           \/ \E t \in Timer : \/ xTimerStart(t) \/ xTimerStop(t) \/ xTimerDelete(t)
                               \/ xTimerChangePeriod(t)
           \/ PendFunctionCall("setFromISR", "setBits")
           \/ PendFunctionCall("clearFromISR", "clearBits")
    PROVE  \E c \in Promised!Command : Promised!Send(c)
<1>1. TimersTypeOK /\ ListsAreExact
  BY DEF TimersInv
<1>2. 0 \in TickType /\ Periods \subseteq TickType /\ NoTimer \notin Timer /\ xTickCount \in TickType
  BY <1>1, TimersAssumption, TickNumbers DEF TickType, TimersTypeOK
<1>3. SUFFICES ASSUME NEW m \in GroupMessage \cup TimerMessage, xTimerGenericCommand(m),
                      \/ m.timer = NoTimer /\ m.value = 0 /\ m.id # "start"
                      \/ /\ m.timer \in Timer /\ m.timer # NoTimer
                         /\ \/ m.id = "start" /\ m.value \in TickType
                            \/ m.id = "changePeriod" /\ m.value \in Periods
                            \/ m.id \in {"stop", "delete"} /\ m.value = 0
               PROVE  Meant(m) \in Promised!Command
  <2> DEFINE Right(m) ==
                 \/ m.timer = NoTimer /\ m.value = 0 /\ m.id # "start"
                 \/ /\ m.timer \in Timer /\ m.timer # NoTimer
                    /\ \/ m.id = "start" /\ m.value \in TickType
                       \/ m.id = "changePeriod" /\ m.value \in Periods
                       \/ m.id \in {"stop", "delete"} /\ m.value = 0
  <2>1. ASSUME NEW t \in Timer,
               xTimerStart(t) \/ xTimerStop(t) \/ xTimerDelete(t) \/ xTimerChangePeriod(t)
        PROVE  \E m \in TimerMessage : xTimerGenericCommand(m) /\ Right(m)
    <3>1. CASE xTimerStart(t)
      <4>1. asked \in TickType /\ xTimerGenericCommand(Command("start", t, asked))
        BY <3>1 DEF xTimerStart, IInv, MessagesAreLegal
      <4>2. /\ Command("start", t, asked) \in TimerMessage
            /\ Right(Command("start", t, asked))
        BY <1>2, <4>1 DEF Command, TimerMessage
      <4> QED
        BY <4>1, <4>2
    <3>2. CASE xTimerStop(t) \/ xTimerDelete(t)
      <4>1. PICK id \in {"stop", "delete"} : xTimerGenericCommand(Command(id, t, 0))
        BY <3>2 DEF xTimerStop, xTimerDelete
      <4>2. Command(id, t, 0) \in TimerMessage /\ Right(Command(id, t, 0))
        BY <1>2, <4>1 DEF Command, TimerMessage
      <4> QED
        BY <4>1, <4>2
    <3>3. CASE xTimerChangePeriod(t)
      <4>1. PICK p \in Periods : xTimerGenericCommand(Command("changePeriod", t, p))
        BY <3>3 DEF xTimerChangePeriod
      <4>2. /\ Command("changePeriod", t, p) \in TimerMessage
            /\ Right(Command("changePeriod", t, p))
        BY <1>2, <4>1 DEF Command, TimerMessage
      <4> QED
        BY <4>1, <4>2
    <3> QED
      BY <2>1, <3>1, <3>2, <3>3
  <2>2. ASSUME NEW request, NEW id \in {"setBits", "clearBits"}, PendFunctionCall(request, id)
        PROVE  \E m \in GroupMessage : xTimerGenericCommand(m) /\ Right(m)
    <3>1. PICK B \in BitsToSet :
              xTimerGenericCommand([id |-> id, timer |-> NoTimer, value |-> 0, bits |-> B])
      BY <2>2 DEF PendFunctionCall
    <3>2. /\ [id |-> id, timer |-> NoTimer, value |-> 0, bits |-> B] \in GroupMessage
          /\ Right([id |-> id, timer |-> NoTimer, value |-> 0, bits |-> B])
      BY DEF GroupMessage
    <3> QED
      BY <3>1, <3>2
  <2>3. \E m \in GroupMessage \cup TimerMessage : xTimerGenericCommand(m) /\ Right(m)
    <3> HIDE DEF Right, GroupMessage, TimerMessage
    <3> QED
      BY <2>1, <2>2
  <2> QED
    BY <1>1, <2>3, GenericMaps
<1>4. CASE m.timer = NoTimer /\ m.value = 0 /\ m.id # "start"
  BY <1>4 DEF Meant, Promised!Command
<1>5. CASE m.timer # NoTimer /\ m.timer \in Timer /\ m.id = "start" /\ m.value \in TickType
  <2>1. Minus(xTickCount, m.value) \in 0..portMAX_DELAY
    BY <1>2, <1>5, TickArithmetic DEF TickType
  <2> QED
    BY <1>5, <2>1 DEF Meant, Promised!Command
<1>6. CASE m.timer # NoTimer /\ m.timer \in Timer /\ m.id = "changePeriod" /\ m.value \in Periods
  BY <1>6 DEF Meant, Promised!Command
<1>7. CASE m.timer # NoTimer /\ m.timer \in Timer /\ m.id \in {"stop", "delete"} /\ m.value = 0
  BY <1>7 DEF Meant, Promised!Command
<1> QED
  BY <1>3, <1>4, <1>5, <1>6, <1>7

(* A pended call is a command that is for no timer.                        *)
LEMMA PendedMaps ==
    ASSUME IInv, TimersTypeOK, ListsAreExact, prvProcessReceivedCommands, xTimerQueue # <<>>,
           PendedCall(Head(xTimerQueue))
    PROVE  Promised!Process(0)
<1> PICK m : m = Head(xTimerQueue)
  OBVIOUS
<1>1. /\ UNCHANGED <<xTickCount, xLastTime, pxCurrentTimerList, pxOverflowTimerList, active,
                     xTimerPeriodInTicks, autoReload>>
      /\ xTimerQueue' = Tail(xTimerQueue) /\ called' = Quiet
      /\ m.id \in {"setBits", "clearBits"}
  BY DEF PendedCall, prvProcessReceivedCommands
<1>2. m.timer = NoTimer
  <2>1. m \in GroupMessage \cup TimerMessage
    BY FirstMessage DEF IInv
  <2> QED
    BY <1>1, <2>1 DEF GroupMessage, TimerMessage
<1>3. Commands # <<>> /\ Head(Commands) = Meant(m) /\ Commands' = Tail(Commands)
  BY <1>1, TakeMaps
<1>4. Head(Commands).id = "call"
  BY <1>2, <1>3 DEF Meant
<1>5. \A u : (Left(u))' = Left(u)
  BY <1>1, ListsStay
<1>6. TicksLeft' = TicksLeft
  BY <1>5 DEF TicksLeft
<1> QED
  BY <1>1, <1>3, <1>4, <1>6 DEF Promised!Process, Promised!Quiet, Quiet

(* The daemon goes to sleep, or finds no commands; a task reads the tick   *)
(* count, gives up, or calls the event group.                              *)
LEMMA UnseenMaps ==
    ASSUME TimersTypeOK, ListsAreExact,
           \/ Block /\ prvProcessTimerOrBlockTask
           \/ prvProcessReceivedCommands /\ xTimerQueue = <<>>
           \/ Ask \/ StartFails \/ GroupCall
    PROVE  Promised!ServeAll(portMAX_DELAY)
<1>1. /\ UNCHANGED <<xTickCount, pxCurrentTimerList, pxOverflowTimerList,
                     xTimerPeriodInTicks, active, autoReload, xTimerQueue>>
      /\ called' = Quiet
      /\ xLastTime' = xLastTime \/ (~Wrapped /\ xLastTime' = xTickCount)
  <2>1. CASE Block /\ prvProcessTimerOrBlockTask
    BY <2>1 DEF Block, prvProcessTimerOrBlockTask
  <2>2. CASE prvProcessReceivedCommands /\ xTimerQueue = <<>>
    BY <2>2 DEF prvProcessReceivedCommands, timerVars
  <2>3. CASE Ask \/ StartFails \/ GroupCall
    BY <2>3 DEF Ask, StartFails, GroupCall, timerVars, timeVars
  <2> QED
    BY <2>1, <2>2, <2>3
<1>2. \A u : (Left(u))' = Left(u)
  BY <1>1, ListsStay
<1>3. Commands' = Commands
  BY <1>1, CommandsStay
<1> QED
  BY <1>1, <1>2, <1>3, QuietMaps

(* Every step is one of TimerSpec, or none.                                *)
LEMMA NextMaps ==
    ASSUME IInv, TimersInv, [TimersNext]_allVars
    PROVE  [Promised!Next]_abstractVars
<1>1. TimersTypeOK /\ ListsAreExact /\ 0 \in 0..portMAX_DELAY /\ portMAX_DELAY \in 0..portMAX_DELAY
  BY TimersAssumption DEF TimersInv
<1>2. CASE prvProcessTimerOrBlockTask
  <2>1. \/ \E d \in 0..portMAX_DELAY : Promised!ServeAll(d)
        \/ \E t \in Timer : Promised!ServeFirst(t)
    BY <1>1, <1>2, SwitchMaps, ServeMaps, UnseenMaps DEF prvProcessTimerOrBlockTask
  <2> QED
    BY <2>1 DEF Promised!Next
<1>3. CASE prvProcessReceivedCommands
  <2>1. \E d \in 0..portMAX_DELAY : Promised!ServeAll(d) \/ Promised!Process(d)
    <3>1. CASE xTimerQueue = <<>>
      BY <1>1, <1>3, <3>1, UnseenMaps
    <3>2. CASE xTimerQueue # <<>>
      <4>1. TimerCommand(Head(xTimerQueue)) \/ PendedCall(Head(xTimerQueue))
        BY <1>3, <3>2 DEF prvProcessReceivedCommands
      <4> QED
        BY <1>1, <1>3, <3>2, <4>1, CommandMaps, PendedMaps
    <3> QED
      BY <3>1, <3>2
  <2> QED
    BY <2>1 DEF Promised!Next
<1>4. CASE Tick
  BY <1>1, <1>4, TickMaps DEF Promised!Next
<1>5. CASE \/ \E t \in Timer : \/ xTimerStart(t) \/ xTimerStop(t) \/ xTimerDelete(t)
                               \/ xTimerChangePeriod(t)
           \/ PendFunctionCall("setFromISR", "setBits")
           \/ PendFunctionCall("clearFromISR", "clearBits")
  <2>1. \E c \in Promised!Command : Promised!Send(c)
    BY <1>5, SendersMap
  <2> QED
    BY <2>1 DEF Promised!Next
<1>6. CASE \E t \in Timer : vTimerSetReloadMode(t)
  BY <1>1, <1>6, ReloadMaps DEF Promised!Next
<1>7. CASE Ask \/ StartFails \/ GroupCall
  <2>1. Promised!ServeAll(portMAX_DELAY)
    BY <1>1, <1>7, UnseenMaps
  <2> QED
    BY <1>1, <2>1 DEF Promised!Next
<1>8. CASE UNCHANGED allVars
  BY <1>8 DEF allVars, timerVars, timeVars, abstractVars, TicksLeft, Left, Wrapped, Commands
<1> QED
  BY <1>2, <1>3, <1>4, <1>5, <1>6, <1>7, <1>8 DEF TimersNext

(* The timers keep TimerSpec: with a tick count of any width, across its   *)
(* wraps, a timer expires when its period has passed since the call that   *)
(* started it, an auto-reload timer is called once per period without      *)
(* drift, and commands take effect in order.                               *)
THEOREM RefinesTimerSpec == TimersSpec => TimersKeepTime
<1>1. IInv /\ TimersInv /\ [TimersNext]_allVars => [Promised!Next]_abstractVars
  BY NextMaps
<1>2. [Promised!Next]_abstractVars <=> [Promised!Next]_(Promised!vars)
  BY DEF abstractVars, Promised!vars
<1> QED
  BY <1>1, <1>2, InitMaps, Invariance, TimersInvariance, PTL DEF TimersSpec, TimersKeepTime, Promised!Spec
=============================================================================
