---------------------------- MODULE KernelQueue ----------------------------
(***************************************************************************)
(* A queue of the kernel and the tasks and interrupts that use it           *)
(* (freertos/queue.c on top of Scheduler): xQueueGenericSend and            *)
(* xQueueReceive with their loops, the locked queue, the calls from         *)
(* interrupts, ticks and context switches.  Mailboxes of lwIP are such      *)
(* queues; a semaphore is one whose items have no content.                  *)
(*                                                                         *)
(* A step is what runs without another task or interrupt in between: a      *)
(* critical section, or a stretch with the scheduler suspended and the      *)
(* queue locked that an interrupt does not look into.  Interrupts have a    *)
(* priority that a critical section masks.                                  *)
(***************************************************************************)
EXTENDS Scheduler

CONSTANTS
  uxLength,  \* of the queue
  Items,     \* what is sent
  Calls,     \* Calls[t]: the calls task t makes, of kind send, receive or delay
  IsrCalls,  \* what interrupt handlers do: subset of {"send", "receive"}
  IsrItems,  \* the items they send
  MaxPended, \* bound: ticks while the scheduler is suspended
  MaxLocked  \* bound: items an interrupt sends, or receives, while the queue is locked

ASSUME QueueAssumption ==
  /\ uxLength \in Nat \ {0} /\ Events = {"send", "receive"}
  /\ Items # {} /\ Items \cap {"none", "ok", "refused"} = {}  \* results, not items
  /\ IsrCalls \subseteq {"send", "receive"} /\ IsrItems \subseteq Items
  /\ MaxPended \in Nat
  /\ MaxLocked \in 1 .. 127  \* cTxLock and cRxLock are int8_t
  /\ \A t \in Tasks : Calls[t] \subseteq
       [kind : {"send", "receive", "delay"}, item : Items, ticks : Ticks]

VARIABLES
  k,                  \* the kernel (see Scheduler)
  storage,            \* the queue's storage area
  pcWriteTo,          \* the next free place
  pcReadFrom,         \* the place read last
  uxMessagesWaiting,  \* items in the queue
  cTxLock, cRxLock,   \* -1: unlocked, or items sent and received while locked
  pc,                 \* each task: location
  call,               \* its call, or NoCall; ticks is xTicksToWait, which counts down
  xTimeOut,           \* when it began to wait, or Unset
  after,              \* what it does when the scheduler runs again
  ret,                \* ghost: what its last call returned
  asked, waited       \* ghost: the ticks it asked for, and those since it began to wait

queueVars == <<storage, pcWriteTo, pcReadFrom, uxMessagesWaiting>>
lockVars == <<cTxLock, cRxLock>>
timeVars == <<asked, waited>>
taskVars == <<pc, call, xTimeOut, after, ret>>
vars == <<k, queueVars, lockVars, taskVars, timeVars>>

Places == 0 .. uxLength - 1
NoCall == [kind |-> "none"]
Unset == [over |-> 0, at |-> -1]

-----------------------------------------------------------------------------
MutNoneWoken(k0, e, n) == k0                  \* nobody is woken when the queue is unlocked
MutWrapEarly(p) ==                            \* one place too early
  IF p + 1 >= uxLength - 1 THEN 0 ELSE p + 1

\* pcWriteTo or pcReadFrom after one item: back to pcHead at pcTail.
Advance(p) == IF p + 1 >= uxLength THEN 0 ELSE p + 1

\* A locked queue counts instead of waking.
Counted(n) == n + 1

\* prvUnlockQueue, one half: wakes a task for each item that was counted.
UnlockWakes(k0, e, n) ==
  LET woken[i \in 0 .. n] ==
        IF i = 0 \/ woken[i - 1].ev[e] = <<>> THEN IF i = 0 THEN k0 ELSE woken[i - 1]
        ELSE xTaskRemoveFromEventList(woken[i - 1], e)
  IN IF n > 0 THEN woken[n] ELSE k0

\* A call of kind c cannot be served.
Blocks(c) == IF c = "receive" THEN uxMessagesWaiting = 0 ELSE uxMessagesWaiting = uxLength

\* prvCopyDataToQueue with queueSEND_TO_BACK
prvCopyDataToQueue(v) ==
  /\ storage' = [storage EXCEPT ![pcWriteTo] = v]
  /\ pcWriteTo' = Advance(pcWriteTo)
  /\ uxMessagesWaiting' = uxMessagesWaiting + 1
  /\ UNCHANGED pcReadFrom

\* prvCopyDataFromQueue
prvCopyDataFromQueue ==
  /\ pcReadFrom' = Advance(pcReadFrom)
  /\ uxMessagesWaiting' = uxMessagesWaiting - 1
  /\ UNCHANGED <<storage, pcWriteTo>>

-----------------------------------------------------------------------------
Init ==
  /\ k \in [cur : {Idle}, list : {[t \in Tasks |-> "ready"]}, wake : {[t \in Tasks |-> 0]},
            ev : {[e \in Events |-> <<>>]}, pend : {<<>>}, tick : {0}, over : {0},
            next : {MAX_DELAY}, pended : {0}, susp : {0}, yield : {FALSE}, pendsv : {TRUE}]
  /\ storage \in [Places -> {CHOOSE v \in Items : TRUE}]
  /\ pcWriteTo = 0 /\ pcReadFrom = uxLength - 1 /\ uxMessagesWaiting = 0
  /\ cTxLock = -1 /\ cRxLock = -1
  /\ pc = [t \in Tasks |-> "idle"] /\ call = [t \in Tasks |-> NoCall]
  /\ xTimeOut = [t \in Tasks |-> Unset] /\ after = [t \in Tasks |-> "none"]
  /\ ret = [t \in Tasks |-> "none"]
  /\ asked = [t \in Tasks |-> 0] /\ waited = [t \in Tasks |-> 0]

\* Task t is running and no switch is about to happen.
Runs(t) == k.cur = t /\ ~k.pendsv
Goto(t, l) == pc' = [pc EXCEPT ![t] = l]

\* The call of t returns v.
Returns(t, v) ==
  /\ Goto(t, "idle") /\ call' = [call EXCEPT ![t] = NoCall]
  /\ ret' = [ret EXCEPT ![t] = v]
  /\ xTimeOut' = [xTimeOut EXCEPT ![t] = Unset]
  /\ asked' = [asked EXCEPT ![t] = 0] /\ waited' = [waited EXCEPT ![t] = 0]
  /\ UNCHANGED after

-----------------------------------------------------------------------------
(* The calls of a task *)

\* xQueueGenericSend or xQueueReceive is called.
Call(t, c) ==
  /\ Runs(t) /\ pc[t] = "idle" /\ c.kind \in {"send", "receive"}
  /\ call' = [call EXCEPT ![t] = c] /\ Goto(t, "try")
  /\ ret' = [ret EXCEPT ![t] = "none"]
  /\ UNCHANGED <<k, queueVars, lockVars, xTimeOut, after, timeVars>>

\* The first critical section of xQueueGenericSend, when there is room: the item is
\* copied and a task that waits for it woken.
SendTry(t) ==
  /\ Runs(t) /\ pc[t] = "try" /\ call[t].kind = "send" /\ ~Blocks("send")
  /\ prvCopyDataToQueue(call[t].item)
  /\ k' = Wake(k, "receive")
  /\ Returns(t, "ok")
  /\ UNCHANGED lockVars

\* The first critical section of xQueueReceive, when there is an item.
ReceiveTry(t) ==
  /\ Runs(t) /\ pc[t] = "try" /\ call[t].kind = "receive" /\ ~Blocks("receive")
  /\ prvCopyDataFromQueue
  /\ k' = Wake(k, "send")
  /\ Returns(t, storage[pcReadFrom'])
  /\ UNCHANGED lockVars

\* vTaskInternalSetTimeOutState
Now == [over |-> k.over, at |-> k.tick]

\* ... when there is not: return at once, or wait.  The time is not looked at in a
\* wait for ever, and not kept.
TryBlocks(t) ==
  /\ Runs(t) /\ pc[t] = "try" /\ Blocks(call[t].kind)
  /\ IF call[t].ticks = 0 THEN Returns(t, "refused")
     ELSE /\ xTimeOut' = [xTimeOut EXCEPT ![t] =
                           IF @ = Unset /\ call[t].ticks # MAX_DELAY THEN Now ELSE @]
          /\ asked' = [asked EXCEPT ![t] = IF @ = 0 THEN call[t].ticks ELSE @]
          /\ Goto(t, "suspend")
          /\ UNCHANGED <<call, ret, after, waited>>
  /\ UNCHANGED <<k, queueVars, lockVars>>

\* vTaskSuspendAll
SuspendAll(t) ==
  /\ Runs(t) /\ pc[t] = "suspend" /\ Goto(t, "lock")
  /\ k' = vTaskSuspendAll(k)
  /\ UNCHANGED <<queueVars, lockVars, call, xTimeOut, after, ret, timeVars>>

\* prvLockQueue
prvLockQueue(t) ==
  /\ Runs(t) /\ pc[t] = "lock" /\ Goto(t, "check")
  /\ cTxLock' = IF cTxLock = -1 THEN 0 ELSE cTxLock
  /\ cRxLock' = IF cRxLock = -1 THEN 0 ELSE cRxLock
  /\ UNCHANGED <<k, queueVars, call, xTimeOut, after, ret, timeVars>>

\* xTaskCheckForTimeOut
Elapsed(t) == (k.tick - xTimeOut[t].at) % (MAX_DELAY + 1)
WholeRound(t) == k.over # xTimeOut[t].over /\ k.tick >= xTimeOut[t].at
MutOverflow(t) ==        \* the overflow is taken for a whole round
  call[t].ticks # MAX_DELAY /\ (k.over # xTimeOut[t].over \/ Elapsed(t) >= call[t].ticks)
TimedOut(t) ==
  /\ call[t].ticks # MAX_DELAY
  /\ \/ WholeRound(t)
     \/ Elapsed(t) >= call[t].ticks

xTaskCheckForTimeOut(t) ==
  /\ Runs(t) /\ pc[t] = "check"
  /\ IF TimedOut(t)
       THEN /\ Goto(t, "unlocktx") /\ after' = [after EXCEPT ![t] = "expired"]
            /\ call' = [call EXCEPT ![t].ticks = IF WholeRound(t) THEN @ ELSE 0]
            /\ UNCHANGED xTimeOut
       ELSE /\ Goto(t, "place")
            /\ call' = [call EXCEPT ![t].ticks = IF @ = MAX_DELAY THEN @ ELSE @ - Elapsed(t)]
            /\ xTimeOut' = [xTimeOut EXCEPT ![t] = IF call[t].ticks = MAX_DELAY THEN @ ELSE Now]
            /\ UNCHANGED after
  /\ UNCHANGED <<k, queueVars, lockVars, ret, timeVars>>

\* prvIsQueueEmpty or prvIsQueueFull: go round again ...
NoLongerBlocks(t) ==
  /\ Runs(t) /\ pc[t] = "place" /\ ~Blocks(call[t].kind)
  /\ Goto(t, "unlocktx") /\ after' = [after EXCEPT ![t] = "retry"]
  /\ UNCHANGED <<k, queueVars, lockVars, call, xTimeOut, ret, timeVars>>

\* ... or vTaskPlaceOnEventList, in a step of its own: an interrupt may come first.
StillBlocks(t) ==
  /\ Runs(t) /\ pc[t] = "place" /\ Blocks(call[t].kind)
  /\ Goto(t, "block")
  /\ UNCHANGED <<k, queueVars, lockVars, call, xTimeOut, after, ret, timeVars>>

Place(t) ==
  /\ Runs(t) /\ pc[t] = "block"
  /\ k' = vTaskPlaceOnEventList(k, call[t].kind, call[t].ticks)
  /\ Goto(t, "unlocktx") /\ after' = [after EXCEPT ![t] = "blocked"]
  /\ UNCHANGED <<queueVars, lockVars, call, xTimeOut, ret, timeVars>>

\* prvUnlockQueue: first for what was sent, then for what was received.
UnlockTx(t) ==
  /\ Runs(t) /\ pc[t] = "unlocktx" /\ Goto(t, "unlockrx")
  /\ k' = UnlockWakes(k, "receive", cTxLock)
  /\ cTxLock' = -1
  /\ UNCHANGED <<queueVars, cRxLock, call, xTimeOut, after, ret, timeVars>>

UnlockRx(t) ==
  /\ Runs(t) /\ pc[t] = "unlockrx" /\ Goto(t, "resume")
  /\ k' = UnlockWakes(k, "send", cRxLock)
  /\ cRxLock' = -1
  /\ UNCHANGED <<queueVars, cTxLock, call, xTimeOut, after, ret, timeVars>>

\* xTaskResumeAll; a task that has blocked yields, if that has not been done.
Resume(t) ==
  /\ Runs(t) /\ pc[t] = "resume"
  /\ k' = IF after[t] \in {"blocked", "slept"} THEN portYIELD(xTaskResumeAll(k))
                                              ELSE xTaskResumeAll(k)
  /\ Goto(t, [blocked |-> "try", retry |-> "try", expired |-> "expired", slept |-> "slept"][after[t]])
  /\ after' = [after EXCEPT ![t] = "none"]
  /\ UNCHANGED <<queueVars, lockVars, call, ret, xTimeOut, timeVars>>

\* The time is over: a send returns; a receive looks once more and tries again if there
\* is an item.
Expired(t) ==
  /\ Runs(t) /\ pc[t] = "expired"
  /\ IF call[t].kind = "receive" /\ uxMessagesWaiting > 0
       THEN Goto(t, "try") /\ UNCHANGED <<call, xTimeOut, after, ret, timeVars>>
       ELSE Returns(t, "refused")
  /\ UNCHANGED <<k, queueVars, lockVars>>

\* vTaskDelay: its vTaskSuspendAll and its wait; then xTaskResumeAll.
vTaskDelay(t, c) ==
  /\ Runs(t) /\ pc[t] = "idle" /\ c.kind = "delay" /\ c.ticks > 0
  /\ k' = prvAddCurrentTaskToDelayedList(vTaskSuspendAll(k), c.ticks, FALSE)
  /\ Goto(t, "resume") /\ after' = [after EXCEPT ![t] = "slept"]
  /\ asked' = [asked EXCEPT ![t] = c.ticks] /\ waited' = [waited EXCEPT ![t] = 0]
  /\ UNCHANGED <<queueVars, lockVars, call, xTimeOut, ret>>

DelayReturns(t) ==
  /\ Runs(t) /\ pc[t] = "slept"
  /\ Returns(t, ret[t])
  /\ UNCHANGED <<k, queueVars, lockVars>>

-----------------------------------------------------------------------------
(* Interrupts *)

\* xQueueGenericSendFromISR and xQueueGiveFromISR
xQueueGenericSendFromISR(v) ==
  /\ "send" \in IsrCalls /\ uxMessagesWaiting < uxLength /\ cTxLock < MaxLocked
  /\ prvCopyDataToQueue(v)
  /\ IF cTxLock = -1 THEN k' = Wake(k, "receive") /\ UNCHANGED cTxLock
                     ELSE cTxLock' = Counted(cTxLock) /\ UNCHANGED k
  /\ UNCHANGED <<cRxLock, taskVars, timeVars>>

\* xQueueReceiveFromISR
xQueueReceiveFromISR ==
  /\ "receive" \in IsrCalls /\ uxMessagesWaiting > 0 /\ cRxLock < MaxLocked
  /\ prvCopyDataFromQueue
  /\ IF cRxLock = -1 THEN k' = Wake(k, "send") /\ UNCHANGED cRxLock
                     ELSE cRxLock' = Counted(cRxLock) /\ UNCHANGED k
  /\ UNCHANGED <<cTxLock, taskVars, timeVars>>

\* A call that waits without a limit.
WaitsForever(t) == asked[t] = MAX_DELAY /\ call[t] # NoCall

\* xPortSysTickHandler.  A tick does not come before a switch that is pending.  Bound:
\* no task waits, or is kept from running while it should wait, for a whole round of
\* the tick count (2^32 ticks).
xPortSysTickHandler ==
  /\ ~k.pendsv /\ k.pended < MaxPended
  /\ \A t \in Tasks : waited[t] < MAX_DELAY
  /\ k' = xTaskIncrementTick(k)
  /\ waited' = [t \in Tasks |-> IF asked[t] = 0 \/ WaitsForever(t) THEN 0 ELSE waited[t] + 1]
  /\ UNCHANGED <<queueVars, lockVars, taskVars, asked>>

\* xPortPendSVHandler
xPortPendSVHandler(t) ==
  /\ k.pendsv /\ t \in IF k.susp > 0 THEN {k.cur} ELSE Highest(k)
  /\ k' = vTaskSwitchContext(k, t)
  /\ UNCHANGED <<queueVars, lockVars, taskVars, timeVars>>

-----------------------------------------------------------------------------
TaskStep(t) ==
  \/ \E c \in Calls[t] : Call(t, c) \/ vTaskDelay(t, c)
  \/ SendTry(t) \/ ReceiveTry(t) \/ TryBlocks(t) \/ SuspendAll(t) \/ prvLockQueue(t)
  \/ xTaskCheckForTimeOut(t) \/ NoLongerBlocks(t) \/ StillBlocks(t) \/ Place(t)
  \/ UnlockTx(t) \/ UnlockRx(t) \/ Resume(t) \/ Expired(t) \/ DelayReturns(t)

Next ==
  \/ \E t \in Tasks : TaskStep(t) \/ xPortPendSVHandler(t)
  \/ \E v \in IsrItems : xQueueGenericSendFromISR(v)
  \/ xQueueReceiveFromISR \/ xPortSysTickHandler

Spec == Init /\ [][Next]_vars

-----------------------------------------------------------------------------
(* Properties *)

\* What the storage area holds, oldest item first.
Contents == [i \in 1 .. uxMessagesWaiting |-> storage[(pcReadFrom + i) % uxLength]]

Fifo == INSTANCE BoundedFifo WITH
  Callers <- Tasks, Length <- uxLength, Nothing <- "none",
  NoCall <- NoCall, contents <- Contents, ret <- ret,
  call <- [t \in Tasks |-> IF call[t] = NoCall THEN NoCall
                          ELSE [kind |-> call[t].kind, item |-> call[t].item,
                                forever |-> call[t].ticks = MAX_DELAY]]

\* Sends and receives of tasks and interrupts, through their loops, locks and time
\* limits, act as single steps on a first-in first-out buffer (lines 747 to 1410).
FifoSpec == Fifo!Spec

\* The task that runs has the highest priority of those that are ready, whenever the
\* scheduler is not suspended and no switch is on its way.
HighestRuns == ~k.pendsv /\ k.susp = 0 => k.cur \in Highest(k)

\* A task whose call of kind c will look at the queue before it waits or returns.
Looking(t, c) ==
  /\ call[t] # NoCall /\ call[t].kind = c
  /\ \A i \in DOMAIN k.ev[c] : k.ev[c][i] # t
  /\ pc[t] # "block"
  /\ c = "send" => pc[t] # "expired" /\ after[t] # "expired"

\* No wakeup is lost: while the queue has an item (room) and tasks wait for one, a
\* task that will look at the queue is on its way, or the queue is locked and has
\* counted the item (lines 1256, 1855 and 2180).
NoLostWakeup ==
  /\ uxMessagesWaiting > 0 /\ k.ev["receive"] # <<>>
       => cTxLock > 0 \/ \E t \in Tasks : Looking(t, "receive")
  /\ uxMessagesWaiting < uxLength /\ k.ev["send"] # <<>>
       => cRxLock > 0 \/ \E t \in Tasks : Looking(t, "send")

\* A task that waits with a time limit is ready again when the limit is reached, also
\* when the tick count overflows or ticks came while the scheduler was suspended.
WokenInTime ==
  \A t \in Tasks : k.susp = 0 /\ k.list[t] \in {"delayed", "overflow"} => waited[t] < asked[t]

\* ... and no call that may wait is refused, and no delay ends, before its limit.
NotEarly ==
  [][\A t \in Tasks : (\/ ret'[t] = "refused" /\ ret[t] = "none"
                       \/ pc[t] = "slept" /\ pc'[t] = "idle")
                      => waited[t] >= asked[t]]_vars

=============================================================================
