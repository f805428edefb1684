---------------------------- MODULE StreamBuffer ----------------------------
(***************************************************************************)
(* Stream and message buffers of FreeRTOS_Source/stream_buffer.c and the   *)
(* task notifications of tasks.c they block on, on top of the scheduler of *)
(* Sched.  One buffer has one writer and one reader, each a task or an     *)
(* interrupt handler.  The notifications (index 0) are shared with the     *)
(* application, which takes and gives them too.                            *)
(*                                                                         *)
(* The buffer is its two indices and, in place of its bytes, the lengths   *)
(* of what it holds.  Waiting for a notification uses no event list: a     *)
(* waiting task is in a state list only.                                   *)
(***************************************************************************)
EXTENDS Sched

CONSTANTS
    Writer, Reader,  \* the two tasks
    NoTask,          \* NULL
    xLength,         \* size of the storage area: xLength - 1 bytes of room
    Header,          \* sbBYTES_TO_STORE_MESSAGE_LENGTH
    Sizes,           \* the lengths sent and the room given to receive
    Triggers,        \* trigger levels of stream buffers
    Waits,           \* the block times of each call: "zero", "ticks" (finite), "max"
    Takers,          \* the tasks that use ulTaskNotifyTake
    MaxValue         \* bound on ulNotifiedValue

ASSUME StreamBufferAssumption ==
    /\ {Writer, Reader} \subseteq Task \ {Idle} /\ Writer # Reader
    /\ NoTask \notin Task
    /\ xLength \in Nat \ {0, 1} /\ Header \in Nat \ {0}
    /\ Sizes \subseteq Nat \ {0}
    /\ Triggers \subseteq 1..xLength - 1
    /\ Waits \in [{"send", "receive", "take"} -> SUBSET {"zero", "ticks", "max"}]
    /\ Takers \subseteq Task \ {Idle}
    /\ MaxValue \in Nat
    /\ EventLists = {}

VARIABLES
    isMessageBuffer,  \* sbFLAGS_IS_MESSAGE_BUFFER; set at creation
    xTriggerLevelBytes,
    isr,              \* which side interrupt handlers are: "none", "writes", "reads"
    xHead, xTail,
    contents,         \* the messages, or bytes, in the buffer: their lengths
    xTaskWaitingToSend, xTaskWaitingToReceive,
    ucNotifyState, ulNotifiedValue,
    pc, op, size,     \* where each task is, in which call, for how many bytes
    amount,           \* its xSpace or xBytesAvailable
    xTicksToWait,
    testedLevel       \* history, read by no action: the trigger level when the reader
                      \* registered or, later, when a send last tested it

settings == <<isMessageBuffer, isr, xTriggerLevelBytes, testedLevel>>
ringVars == <<xHead, xTail, contents>>
waitingVars == <<xTaskWaitingToSend, xTaskWaitingToReceive>>
notifyVars == <<ucNotifyState, ulNotifiedValue>>
callVars == <<pc, op, size, amount, xTicksToWait>>
vars == <<schedVars, settings, ringVars, waitingVars, notifyVars, callVars>>

TypeOK ==
    /\ SchedTypeOK
    /\ xHead \in 0..xLength - 1 /\ xTail \in 0..xLength - 1
    /\ contents \in Seq(Nat)
    /\ xTaskWaitingToSend \in {NoTask, Writer} /\ xTaskWaitingToReceive \in {NoTask, Reader}
    /\ ucNotifyState \in [Task -> {"notWaiting", "waiting", "received"}]
    /\ ulNotifiedValue \in [Task -> 0..MaxValue]
    /\ pc \in [Task -> {"app", "enter", "wait", "waited", "clear", "look", "transfer",
                        "written", "complete", "notify", "resume"}]
    /\ op \in [Task -> {"none", "send", "receive", "take"}]
    /\ size \in [Task -> Sizes \cup {0}]
    /\ amount \in [Task -> 0..xLength - 1]
    /\ xTicksToWait \in [Task -> {"zero", "ticks", "max", "over"}]

Init ==
    /\ SchedInit
    /\ isMessageBuffer \in BOOLEAN
    /\ xTriggerLevelBytes \in (IF isMessageBuffer THEN {1} ELSE Triggers)
    /\ isr \in {"none", "writes", "reads"}
    /\ xHead = 0 /\ xTail = 0 /\ contents = <<>>
    /\ xTaskWaitingToSend = NoTask /\ xTaskWaitingToReceive = NoTask
    /\ ucNotifyState = [t \in Task |-> "notWaiting"]
    /\ ulNotifiedValue = [t \in Task |-> 0]
    /\ pc = [t \in Task |-> "app"]
    /\ op = [t \in Task |-> "none"]
    /\ size = [t \in Task |-> 0]
    /\ amount = [t \in Task |-> 0]
    /\ xTicksToWait = [t \in Task |-> "zero"]
    /\ testedLevel = xTriggerLevelBytes

-----------------------------------------------------------------------------
(* The ring.                                                               *)

SmallerOf(a, b) == IF a <= b THEN a ELSE b

prvBytesInBuffer ==
    LET xCount == xLength + xHead - xTail
    IN  IF xCount >= xLength THEN xCount - xLength ELSE xCount

(* Mutant of xStreamBufferSpacesAvailable: one byte too many, so that a    *)
(* full buffer looks empty.                                                *)
SpacesOneTooMany ==
    LET xSpace == xLength + xTail - xHead
    IN  IF xSpace > xLength THEN xSpace - xLength ELSE xSpace

xStreamBufferSpacesAvailable ==
    LET xSpace == xLength + xTail - xHead - 1
    IN  IF xSpace >= xLength THEN xSpace - xLength ELSE xSpace

(* Mutant of Advance: an index may reach the length.                       *)
AdvanceToLength(index, n) == IF index + n > xLength THEN index + n - xLength ELSE index + n

(* prvWriteBytesToBuffer and prvReadBytesFromBuffer move an index on.      *)
Advance(index, n) == IF index + n >= xLength THEN index + n - xLength ELSE index + n

MessageLengthBytes == IF isMessageBuffer THEN Header ELSE 0

(* What the writer needs: all of a message, or as much of the bytes as the *)
(* buffer can ever hold.                                                   *)
RequiredSpace(n) == IF isMessageBuffer THEN n + Header ELSE SmallerOf(n, xLength - 1)

(* How much prvWriteMessageToBuffer writes with that much space.           *)
Written(n, space) ==
    IF isMessageBuffer
    THEN IF space >= RequiredSpace(n) THEN n ELSE 0
    ELSE SmallerOf(n, space)

(* How much prvReadMessageFromBuffer reads, bytes being available: a       *)
(* message only as a whole.                                                *)
ReadOut(n, bytes) ==
    IF bytes <= MessageLengthBytes THEN 0
    ELSE IF isMessageBuffer THEN (IF Head(contents) <= n THEN Head(contents) ELSE 0)
    ELSE SmallerOf(n, bytes)

(* Constrain ringVars.  A stream is a sequence of bytes.                   *)
Write(n) ==
    /\ xHead' = IF n = 0 THEN xHead ELSE Advance(xHead, n + MessageLengthBytes)
    /\ contents' = IF n = 0 THEN contents
                   ELSE contents \o (IF isMessageBuffer THEN <<n>> ELSE [i \in 1..n |-> 1])
    /\ UNCHANGED xTail

Read(n) ==
    /\ xTail' = IF n = 0 THEN xTail ELSE Advance(xTail, n + MessageLengthBytes)
    /\ contents' = IF n = 0 THEN contents
                   ELSE SubSeq(contents, (IF isMessageBuffer THEN 1 ELSE n) + 1, Len(contents))
    /\ UNCHANGED xHead

-----------------------------------------------------------------------------
(* Notifications.                                                          *)

(* u waits for one.                                                        *)
Waiting(u) == ucNotifyState[u] = "waiting"

(* xTaskGenericNotify of u by the running task: u leaves its state list at *)
(* once, even if the scheduler is suspended.  Constrains ucNotifyState,    *)
(* xStateListItem and pendSV.                                              *)
xTaskGenericNotify(u) ==
    /\ ucNotifyState' = [ucNotifyState EXCEPT ![u] = "received"]
    /\ xStateListItem' = [xStateListItem EXCEPT ![u] = IF Waiting(u) THEN "ready" ELSE @]
    /\ pendSV' = (Waiting(u) /\ Preempts({u}))

(* xTaskGenericNotifyFromISR and vTaskGenericNotifyGiveFromISR.  The       *)
(* handler may or may not request the switch.  Constrains ucNotifyState,   *)
(* xStateListItem, xPendingReadyList, xYieldPending and pendSV.            *)
xTaskGenericNotifyFromISR(u) ==
    /\ ucNotifyState' = [ucNotifyState EXCEPT ![u] = "received"]
    /\ IF Waiting(u)
       THEN /\ IF uxSchedulerSuspended = 0
               THEN /\ xStateListItem' = [xStateListItem EXCEPT ![u] = "ready"]
                    /\ UNCHANGED xPendingReadyList
               ELSE /\ xPendingReadyList' = xPendingReadyList \cup {u}
                    /\ UNCHANGED xStateListItem
            /\ xYieldPending' = (xYieldPending \/ Preempts({u}))
            /\ pendSV' \in {pendSV, pendSV \/ Preempts({u})}
       ELSE UNCHANGED <<xStateListItem, xPendingReadyList, xYieldPending, pendSV>>

-----------------------------------------------------------------------------
(* Calls.                                                                  *)

At(t, label) == Running(t) /\ pc[t] = label
GoTo(t, label) == pc' = [pc EXCEPT ![t] = label]

(* Constrain callVars: the call of t returns; or goes on.                  *)
Return(t) ==
    /\ GoTo(t, "app")
    /\ op' = [op EXCEPT ![t] = "none"]
    /\ size' = [size EXCEPT ![t] = 0]
    /\ amount' = [amount EXCEPT ![t] = 0]
    /\ xTicksToWait' = [xTicksToWait EXCEPT ![t] = "zero"]

Continue(t, label, n) ==
    /\ GoTo(t, label)
    /\ amount' = [amount EXCEPT ![t] = n]
    /\ UNCHANGED <<op, size, xTicksToWait>>

Begin(t, o, n, w, label) ==
    /\ GoTo(t, label)
    /\ op' = [op EXCEPT ![t] = o]
    /\ size' = [size EXCEPT ![t] = n]
    /\ xTicksToWait' = [xTicksToWait EXCEPT ![t] = w]
    /\ UNCHANGED amount

Deadline(t, d) == deadline' = [deadline EXCEPT ![t] = d]

(* No step of a task below changes these, but for the scheduler lock.      *)
others == <<pxCurrentTCB, uxPriority, eventList, xPendingReadyList, xYieldPending, ticksPended>>
scheduled == <<others, xStateListItem, uxSchedulerSuspended, pendSV>>

(* What there is, and whether the call of t has to wait for more.          *)
Found(t) == IF op[t] = "send" THEN xStreamBufferSpacesAvailable ELSE prvBytesInBuffer

HasToWait(t) ==
    IF op[t] = "send" THEN Found(t) < RequiredSpace(size[t]) ELSE Found(t) <= MessageLengthBytes

(* xStreamBufferSend is called.  A message that never fits is not waited   *)
(* for.  vTaskSetTimeOutState is called now.                               *)
Send(t) ==
    /\ At(t, "app")
    /\ t = Writer /\ isr # "writes"
    /\ \E n \in Sizes, w \in Waits.send :
           IF w = "zero" \/ RequiredSpace(n) > xLength - 1
           THEN Begin(t, "send", n, "zero", "look") /\ Deadline(t, "none")
           ELSE /\ Begin(t, "send", n, w, "enter")
                /\ Deadline(t, IF w = "ticks" THEN "armed" ELSE "none")
    /\ UNCHANGED <<scheduled, settings, ringVars, waitingVars, notifyVars>>

Receive(t) ==
    /\ At(t, "app")
    /\ t = Reader /\ isr # "reads"
    /\ \E n \in Sizes, w \in Waits.receive :
           Begin(t, "receive", n, w, IF w = "zero" THEN "look" ELSE "enter")
    /\ Deadline(t, "none")
    /\ UNCHANGED <<scheduled, settings, ringVars, waitingVars, notifyVars>>

(* ulTaskNotifyTake.                                                       *)
Take(t) ==
    /\ At(t, "app")
    /\ t \in Takers
    /\ \E w \in Waits.take : Begin(t, "take", 0, w, "wait")
    /\ Deadline(t, "none")
    /\ UNCHANGED <<scheduled, settings, ringVars, waitingVars, notifyVars>>

(* xTaskNotifyGive.                                                        *)
Give(t) ==
    /\ At(t, "app")
    /\ t # Idle
    /\ \E u \in Takers :
           /\ ulNotifiedValue[u] < MaxValue
           /\ ulNotifiedValue' = [ulNotifiedValue EXCEPT ![u] = @ + 1]
           /\ xTaskGenericNotify(u)
    /\ UNCHANGED <<others, uxSchedulerSuspended, deadline, settings, ringVars, waitingVars, callVars>>

(* xStreamBufferReset, called while the other side is outside the buffer's *)
(* API: it does nothing if a task waits.                                   *)
xStreamBufferReset(t) ==
    /\ At(t, "app")
    /\ t # Idle
    /\ \A u \in Task : op[u] \in {"none", "take"}
    /\ xTaskWaitingToReceive = NoTask /\ xTaskWaitingToSend = NoTask
    /\ xHead' = 0 /\ xTail' = 0 /\ contents' = <<>>
    /\ UNCHANGED <<schedVars, settings, waitingVars, notifyVars, callVars>>

(* xStreamBufferSetTriggerLevel, of any buffer and at any time: it wakes   *)
(* nobody.                                                                 *)
xStreamBufferSetTriggerLevel(t) ==
    /\ At(t, "app")
    /\ t # Idle
    /\ xTriggerLevelBytes' \in Triggers
    /\ UNCHANGED <<schedVars, isMessageBuffer, isr, testedLevel, ringVars, waitingVars,
                   notifyVars, callVars>>

-----------------------------------------------------------------------------
(* The steps of xStreamBufferSend and xStreamBufferReceive.                *)

(* Keeps the history: a reader goes by this level from now on.             *)
LevelTested == testedLevel' = xTriggerLevelBytes

(* xTaskNotifyStateClear.                                                  *)
StateCleared(t) ==
    [ucNotifyState EXCEPT ![t] = IF @ = "received" THEN "notWaiting" ELSE @]

(* Mutant of Register: a writer registers itself as the reader.            *)
RegistersAsReader(t) ==
    xTaskWaitingToReceive' = t /\ LevelTested /\ UNCHANGED xTaskWaitingToSend

(* t registers itself as the task that waits.                              *)
Register(t) ==
    IF op[t] = "send"
    THEN xTaskWaitingToSend' = t /\ UNCHANGED <<xTaskWaitingToReceive, testedLevel>>
    ELSE xTaskWaitingToReceive' = t /\ LevelTested /\ UNCHANGED xTaskWaitingToSend

(* The critical section that tests the buffer and prepares to wait.        *)
Enter(t) ==
    /\ At(t, "enter")
    /\ IF HasToWait(t)
       THEN /\ ucNotifyState' = StateCleared(t)
            /\ Register(t)
            /\ Continue(t, "wait", Found(t))
       ELSE /\ Continue(t, "look", Found(t))
            /\ UNCHANGED <<ucNotifyState, testedLevel, waitingVars>>
    /\ UNCHANGED <<scheduled, deadline, isMessageBuffer, isr, xTriggerLevelBytes, ringVars,
                   ulNotifiedValue>>

(* Mutant of MayBlock: whether a notification has come is not tested.      *)
AlwaysBlocks(t) == TRUE

(* Mutant of MayBlock: the state decides for ulTaskNotifyTake too.         *)
StateDecides(t) == ucNotifyState[t] # "received"

(* xTaskNotifyWait blocks unless one has come, ulTaskNotifyTake unless the *)
(* value is not zero.                                                      *)
MayBlock(t) == IF op[t] = "take" THEN ulNotifiedValue[t] = 0 ELSE ucNotifyState[t] # "received"

(* The first critical section of xTaskNotifyWait and ulTaskNotifyTake.  If *)
(* the time of a send has run out since it was checked last, the task      *)
(* waits once more for what was left of it then.                           *)
Wait(t) ==
    LET blocks == MayBlock(t) /\ xTicksToWait[t] # "zero"
        finite == blocks /\ xTicksToWait[t] # "max"
    IN  /\ At(t, "wait")
        /\ ucNotifyState' = [ucNotifyState EXCEPT ![t] = IF MayBlock(t) THEN "waiting" ELSE @]
        /\ xStateListItem' = [xStateListItem EXCEPT ![t] =
               IF finite THEN "delayed" ELSE IF blocks THEN "suspended" ELSE @]
        /\ pendSV' = blocks
        /\ Deadline(t, IF finite THEN "armed" ELSE deadline[t])
        /\ xTicksToWait' = [xTicksToWait EXCEPT ![t] =
               IF finite /\ deadline[t] = "expired" THEN "over" ELSE @]
        /\ GoTo(t, "waited")
        /\ UNCHANGED <<others, uxSchedulerSuspended, settings, ringVars, waitingVars,
                       ulNotifiedValue, op, size, amount>>

(* The second critical section of each.                                    *)
Waited(t) ==
    /\ At(t, "waited")
    /\ op[t] # "take"
    /\ ucNotifyState' = [ucNotifyState EXCEPT ![t] = "notWaiting"]
    /\ Continue(t, "clear", amount[t])
    /\ UNCHANGED <<scheduled, deadline, settings, ringVars, waitingVars, ulNotifiedValue>>

Taken(t) ==
    /\ At(t, "waited")
    /\ op[t] = "take"
    /\ ucNotifyState' = [ucNotifyState EXCEPT ![t] = "notWaiting"]
    /\ \E n \in {0, ulNotifiedValue[t] - 1} \cap Nat :
           ulNotifiedValue' = [ulNotifiedValue EXCEPT ![t] = n]
    /\ Return(t)
    /\ Deadline(t, "none")
    /\ UNCHANGED <<scheduled, settings, ringVars, waitingVars>>

(* Nobody waits any more.  A send that has not timed out tries again.      *)
Clear(t) ==
    LET timedOut == deadline[t] = "expired" \/ xTicksToWait[t] = "over"
    IN  /\ At(t, "clear")
        /\ IF op[t] = "send"
           THEN xTaskWaitingToSend' = NoTask /\ UNCHANGED xTaskWaitingToReceive
           ELSE xTaskWaitingToReceive' = NoTask /\ UNCHANGED xTaskWaitingToSend
        /\ Continue(t, IF op[t] = "send" /\ ~timedOut THEN "enter" ELSE "look",
                       IF op[t] = "send" THEN amount[t] ELSE 0)
        /\ UNCHANGED <<scheduled, deadline, settings, ringVars, notifyVars>>

(* An amount that is not known yet, or was found to be zero, is found out. *)
Look(t) ==
    /\ At(t, "look")
    /\ Continue(t, "transfer", IF amount[t] = 0 THEN Found(t) ELSE amount[t])
    /\ Deadline(t, "none")
    /\ UNCHANGED <<scheduled, settings, ringVars, waitingVars, notifyVars>>

(* prvWriteMessageToBuffer or prvReadMessageFromBuffer.                    *)
Transfer(t) ==
    LET n == IF op[t] = "send" THEN Written(size[t], amount[t]) ELSE ReadOut(size[t], amount[t])
    IN  /\ At(t, "transfer")
        /\ IF op[t] = "send" THEN Write(n) ELSE Read(n)
        /\ IF n = 0 THEN Return(t)
           ELSE Continue(t, IF op[t] = "send" THEN "written" ELSE "complete", 0)
        /\ UNCHANGED <<scheduled, deadline, settings, waitingVars, notifyVars>>

Triggered == prvBytesInBuffer >= xTriggerLevelBytes

(* Mutant of TestTrigger: the level itself is not enough.                  *)
TriggerExceeded(t) ==
    /\ At(t, "written")
    /\ IF prvBytesInBuffer > xTriggerLevelBytes THEN Continue(t, "complete", 0) ELSE Return(t)
    /\ LevelTested
    /\ UNCHANGED <<scheduled, deadline, isMessageBuffer, isr, xTriggerLevelBytes, ringVars,
                   waitingVars, notifyVars>>

TestTrigger(t) ==
    /\ At(t, "written")
    /\ IF Triggered THEN Continue(t, "complete", 0) ELSE Return(t)
    /\ LevelTested
    /\ UNCHANGED <<scheduled, deadline, isMessageBuffer, isr, xTriggerLevelBytes, ringVars,
                   waitingVars, notifyVars>>

(* sbSEND_COMPLETED and sbRECEIVE_COMPLETED: the task that waits on the    *)
(* other side is notified.                                                 *)
Complete(t) ==
    /\ At(t, "complete")
    /\ vTaskSuspendAll
    /\ Continue(t, "notify", 0)
    /\ UNCHANGED <<others, xStateListItem, pendSV, deadline, settings, ringVars, waitingVars,
                   notifyVars>>

Notify(t) ==
    LET u == IF op[t] = "send" THEN xTaskWaitingToReceive ELSE xTaskWaitingToSend
    IN  /\ At(t, "notify")
        /\ IF u # NoTask THEN xTaskGenericNotify(u)
           ELSE UNCHANGED <<ucNotifyState, xStateListItem, pendSV>>
        /\ IF op[t] = "send"
           THEN xTaskWaitingToReceive' = NoTask /\ UNCHANGED xTaskWaitingToSend
           ELSE xTaskWaitingToSend' = NoTask /\ UNCHANGED xTaskWaitingToReceive
        /\ Continue(t, "resume", 0)
        /\ UNCHANGED <<others, uxSchedulerSuspended, deadline, settings, ringVars, ulNotifiedValue>>

ResumeAll(t) ==
    /\ At(t, "resume")
    /\ \E X \in SUBSET Armed : xTaskResumeAll(X)
    /\ Return(t)
    /\ UNCHANGED <<pxCurrentTCB, uxPriority, settings, ringVars, waitingVars, notifyVars>>

-----------------------------------------------------------------------------
(* Interrupts.                                                             *)

(* xTaskNotifyFromISR without action, and vTaskNotifyGiveFromISR.          *)
NotifyFromISR(u) ==
    /\ \E n \in IF u \in Takers THEN {0, 1} ELSE {0} :
           /\ ulNotifiedValue[u] + n <= MaxValue
           /\ ulNotifiedValue' = [ulNotifiedValue EXCEPT ![u] = @ + n]
    /\ xTaskGenericNotifyFromISR(u)
    /\ UNCHANGED <<pxCurrentTCB, uxPriority, eventList, uxSchedulerSuspended, ticksPended,
                   deadline, settings, ringVars, waitingVars, callVars>>

(* The task that waits, if any, is notified and forgotten.                 *)
CompleteFromISR(u) ==
    IF u # NoTask THEN xTaskGenericNotifyFromISR(u)
    ELSE UNCHANGED <<ucNotifyState, xStateListItem, xPendingReadyList, xYieldPending, pendSV>>

(* xStreamBufferSendFromISR; with n = 0 xStreamBufferSendCompletedFromISR. *)
SendFromISR(n) ==
    /\ isr = "writes"
    /\ UNCHANGED <<pxCurrentTCB, uxPriority, eventList, uxSchedulerSuspended, ticksPended,
                   deadline, isMessageBuffer, isr, xTriggerLevelBytes, xTaskWaitingToSend,
                   ulNotifiedValue, callVars>>
    /\ Write(Written(n, xStreamBufferSpacesAvailable))
    /\ IF Written(n, xStreamBufferSpacesAvailable) > 0 THEN LevelTested
       ELSE UNCHANGED testedLevel
    /\ IF n = 0 \/ (Written(n, xStreamBufferSpacesAvailable) > 0 /\ Triggered')
       THEN CompleteFromISR(xTaskWaitingToReceive) /\ xTaskWaitingToReceive' = NoTask
       ELSE CompleteFromISR(NoTask) /\ UNCHANGED xTaskWaitingToReceive

(* xStreamBufferReceiveFromISR; with n = 0                                 *)
(* xStreamBufferReceiveCompletedFromISR.                                   *)
ReceiveFromISR(n) ==
    /\ isr = "reads"
    /\ Read(ReadOut(n, prvBytesInBuffer))
    /\ IF n = 0 \/ ReadOut(n, prvBytesInBuffer) > 0
       THEN CompleteFromISR(xTaskWaitingToSend) /\ xTaskWaitingToSend' = NoTask
       ELSE CompleteFromISR(NoTask) /\ UNCHANGED xTaskWaitingToSend
    /\ UNCHANGED <<pxCurrentTCB, uxPriority, eventList, uxSchedulerSuspended, ticksPended,
                   deadline, settings, xTaskWaitingToReceive, ulNotifiedValue, callVars>>

Interrupt ==
    \/ \E u \in {Reader, Writer} : NotifyFromISR(u)
    \/ \E n \in Sizes \cup {0} : SendFromISR(n) \/ ReceiveFromISR(n)

SysTick ==
    /\ \E X \in SUBSET Armed : xTaskIncrementTick(X)
    /\ UNCHANGED <<pxCurrentTCB, uxPriority, xPendingReadyList, uxSchedulerSuspended,
                   xYieldPending, settings, ringVars, waitingVars, notifyVars, callVars>>

PendSV ==
    /\ vTaskSwitchContext
    /\ UNCHANGED <<uxPriority, xStateListItem, eventList, xPendingReadyList,
                   uxSchedulerSuspended, ticksPended, deadline, settings, ringVars,
                   waitingVars, notifyVars, callVars>>

-----------------------------------------------------------------------------
App(t) ==
    \/ Send(t) \/ Receive(t) \/ Take(t) \/ Give(t)
    \/ xStreamBufferReset(t) \/ xStreamBufferSetTriggerLevel(t)

CallStep(t) ==
    \/ Enter(t) \/ Wait(t) \/ Waited(t) \/ Taken(t) \/ Clear(t) \/ Look(t) \/ Transfer(t)
    \/ TestTrigger(t) \/ Complete(t) \/ Notify(t) \/ ResumeAll(t)

Next == (\E t \in Task : App(t) \/ CallStep(t)) \/ Interrupt \/ SysTick \/ PendSV

Spec == Init /\ [][Next]_vars

-----------------------------------------------------------------------------
(* Properties.                                                             *)

Asleep(t) == t \notin Ready \cup xPendingReadyList

(* No task sleeps through a notification: while it is in a state list as   *)
(* blocked, none has come since it marked itself as waiting, and one that  *)
(* takes a count has none to take, although tasks with the scheduler       *)
(* suspended, handlers and the tick all move it between lists.             *)
NoneSleepsNotified ==
    \A t \in Task : Asleep(t) =>
        Waiting(t) /\ (op[t] = "take" => ulNotifiedValue[t] = 0)

(* There is as much as a waiting reader waits for.                         *)
LevelReached == prvBytesInBuffer >= testedLevel

(* The writer has written and not yet notified.                            *)
WriterCompletes == op[Writer] = "send" /\ pc[Writer] \in {"written", "complete", "notify"}

(* A reader that sleeps is registered with the buffer, which holds less    *)
(* than the trigger level it goes by, the one in force when it registered  *)
(* or when a send tested it since; or the writer is about to notify it.    *)
(* A level that is lowered while it sleeps counts from the next send on.   *)
ReaderNotStranded ==
    Asleep(Reader) /\ op[Reader] = "receive" =>
        /\ xTaskWaitingToReceive = Reader
        /\ LevelReached => WriterCompletes

(* A writer that sleeps is registered with the buffer, which has less room *)
(* than it needs or is about to notify it.                                 *)
WriterNotStranded ==
    Asleep(Writer) /\ op[Writer] = "send" =>
        /\ xTaskWaitingToSend = Writer
        /\ ~HasToWait(Writer) => op[Reader] = "receive" /\ pc[Reader] \in {"complete", "notify"}

(* The room that s takes, with w bytes before each.                        *)
BytesOf(s, w) == FoldLeft(LAMBDA sum, n : sum + n + w, 0, s)

(* The indices tell how much the buffer holds: nothing that was written    *)
(* and not read is lost or counted twice, and a full buffer is not taken   *)
(* for an empty one.                                                       *)
RingIsExact == prvBytesInBuffer = BytesOf(contents, MessageLengthBytes)

(* Whatever is sent fits beside the bytes that stay below any level: of    *)
(* messages none, if even the shortest reaches the level.                  *)
FitTogether ==
    \A n \in Sizes, level \in Triggers \cup {1} :
        /\ SmallerOf(n, xLength - 1) + level <= xLength
        /\ n + Header + (IF level <= Header + 1 THEN 1 ELSE level) <= xLength

(* Writer and reader do not both sleep, neither because a notification of  *)
(* one was lost on the other, nor because what is sent does not fit beside *)
(* bytes that the trigger level keeps from the reader.  True only where    *)
(* all fit together.                                                       *)
NoMutualWait ==
    ~(Asleep(Reader) /\ op[Reader] = "receive" /\ Asleep(Writer) /\ op[Writer] = "send")

(* A claim of stream_buffer.h that does not hold.                          *)
(* The trigger level, which can be modified, is the number of bytes that   *)
(* must be in the buffer before a task that waits for data is unblocked.   *)
TriggerWakesReader ==
    Asleep(Reader) /\ op[Reader] = "receive" /\ Triggered => WriterCompletes

-----------------------------------------------------------------------------
(* The inductive invariant.                                                *)

CreatedOK ==
    /\ isMessageBuffer \in BOOLEAN
    /\ xTriggerLevelBytes \in Triggers \cup {1} /\ testedLevel \in Triggers \cup {1}
    /\ isr \in {"none", "writes", "reads"}

(* Where a task is in which call, and who makes it.                        *)
CallInv ==
    \A t \in Task :
        /\ pc[t] = "app" <=> op[t] = "none"
        /\ op[t] = "send" => t = Writer /\ isr # "writes"
        /\ op[t] = "receive" => t = Reader /\ isr # "reads" /\ pc[t] # "written"
        /\ op[t] = "take" => t \in Takers /\ pc[t] \in {"wait", "waited"}
        /\ op[t] \in {"send", "receive"} <=> size[t] # 0
        /\ op[t] \in {"none", "take"} => amount[t] = 0

(* The scheduler is held by the task between Complete and ResumeAll, which *)
(* keeps the processor; a task that executes instructions is ready.        *)
HeldInv ==
    /\ \A t \in Task : pc[t] \in {"notify", "resume"} =>
           t = pxCurrentTCB /\ uxSchedulerSuspended = 1
    /\ uxSchedulerSuspended # 0 => pc[pxCurrentTCB] \in {"notify", "resume"}
    /\ uxSchedulerSuspended = 0 => xPendingReadyList = {}
    /\ ~pendSV => pxCurrentTCB \in Ready

(* Only the wait for a notification blocks.                                *)
BlockedInv ==
    \A t \in Task : (t \notin Ready => pc[t] = "waited") /\ (Waiting(t) => pc[t] = "waited")

(* What the call found is still there.                                     *)
AmountInv ==
    /\ op[Writer] = "send" => amount[Writer] <= xStreamBufferSpacesAvailable
    /\ op[Reader] = "receive" => amount[Reader] <= prvBytesInBuffer

ContentsInv ==
    \A i \in DOMAIN contents : contents[i] # 0 /\ (~isMessageBuffer => contents[i] = 1)

(* t has prepared to wait and has not been notified since.                 *)
MaySleep(t) == pc[t] \in {"wait", "waited"} /\ ucNotifyState[t] # "received"

ReaderInv ==
    MaySleep(Reader) /\ op[Reader] = "receive" =>
        /\ xTaskWaitingToReceive = Reader
        /\ LevelReached => WriterCompletes

WriterInv ==
    MaySleep(Writer) /\ op[Writer] = "send" =>
        /\ xTaskWaitingToSend = Writer
        /\ ~HasToWait(Writer) => op[Reader] = "receive" /\ pc[Reader] \in {"complete", "notify"}

IInv ==
    /\ TypeOK /\ CreatedOK /\ CallInv /\ HeldInv /\ BlockedInv /\ NoneSleepsNotified
    /\ AmountInv /\ ContentsInv /\ RingIsExact /\ ReaderInv /\ WriterInv
=============================================================================
