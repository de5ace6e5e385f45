----------------------------- MODULE Scheduler -----------------------------
(***************************************************************************)
(* The part of the kernel that decides which task runs (freertos/tasks.c):  *)
(* the ready, delayed, overflow and suspended lists, the event lists, ticks *)
(* and their overflow, the suspended scheduler and the context switch.      *)
(*                                                                         *)
(* The state of the kernel is a record k; each function of tasks.c is an    *)
(* operator that gives the state after it.  Its fields are                  *)
(*   cur     pxCurrentTCB                                                   *)
(*   list    the list that holds the task's state item                      *)
(*   wake    the value of the task's state item: when to wake it            *)
(*   ev      the event lists, in the order of priority                      *)
(*   pend    xPendingReadyList                                              *)
(*   tick    xTickCount                     over    xNumOfOverflows         *)
(*   next    xNextTaskUnblockTime           pended  uxPendedTicks           *)
(*   susp    uxSchedulerSuspended           yield   xYieldPending           *)
(*   pendsv  is the context switch interrupt pending?                       *)
(***************************************************************************)
EXTENDS Integers, Sequences, FiniteSets

CONSTANTS
  Tasks,      \* the tasks, with Idle
  Idle,       \* the idle task, which is always ready
  Priority,   \* uxPriority of each task
  MAX_DELAY,  \* portMAX_DELAY, the highest value of a tick count
  MaxOver,    \* bound: overflows are counted modulo this number (2^32)
  Events      \* names of the event lists

ASSUME SchedulerAssumption ==
  /\ IsFiniteSet(Tasks) /\ Idle \in Tasks
  /\ Priority \in [Tasks -> Nat] /\ \A t \in Tasks \ {Idle} : Priority[t] > Priority[Idle]
  /\ MAX_DELAY \in Nat \ {0} /\ MaxOver \in Nat \ {0, 1}

Ticks == 0 .. MAX_DELAY

-----------------------------------------------------------------------------
MutNoSwitch(k) == [k EXCEPT !.over = (@ + 1) % MaxOver]   \* the lists are not switched
MutEqual(k, t) == Priority[t] > Priority[k.cur] + 1       \* woken, but does not run

\* prvAddTaskToReadyList for the tasks of S; the value of their state items, which is
\* not used in a ready list, is set to 0.
prvAddTaskToReadyList(k, S) ==
  [k EXCEPT !.list = [t \in Tasks |-> IF t \in S THEN "ready" ELSE @[t]],
            !.wake = [t \in Tasks |-> IF t \in S THEN 0 ELSE @[t]]]

ReadyTasks(k) == {t \in Tasks : k.list[t] = "ready"}

\* vListInsert into an event list: in the order of priority, behind its equals.
vListInsert(s, t) ==
  LET lower == {i \in DOMAIN s : Priority[s[i]] < Priority[t]}
      at == IF lower = {} THEN Len(s) + 1 ELSE CHOOSE i \in lower : \A j \in lower : i <= j IN
  SubSeq(s, 1, at - 1) \o <<t>> \o SubSeq(s, at, Len(s))

\* uxListRemove of the event items of the tasks in D.
uxListRemove(s, D) ==
  LET kept[i \in 0 .. Len(s)] ==
        IF i = 0 THEN <<>>
        ELSE IF s[i] \in D THEN kept[i - 1] ELSE Append(kept[i - 1], s[i])
  IN kept[Len(s)]

\* prvResetNextTaskUnblockTime
prvResetNextTaskUnblockTime(k) ==
  LET times == {k.wake[t] : t \in {x \in Tasks : k.list[x] = "delayed"}} IN
  [k EXCEPT !.next = IF times = {} THEN MAX_DELAY
                     ELSE CHOOSE m \in times : \A n \in times : m <= n]

\* taskSWITCH_DELAYED_LISTS; a task left in the old list would wait a whole round.
taskSWITCH_DELAYED_LISTS(k) ==
  prvResetNextTaskUnblockTime(
    [k EXCEPT !.over = (@ + 1) % MaxOver,
              !.list = [t \in Tasks |-> CASE @[t] = "delayed"  -> "overflow"
                                          [] @[t] = "overflow" -> "delayed"
                                          [] OTHER             -> @[t]]])

\* prvAddCurrentTaskToDelayedList
prvAddCurrentTaskToDelayedList(k, ticks, indefinitely) ==
  LET wake == (k.tick + ticks) % (MAX_DELAY + 1) IN
  IF ticks = MAX_DELAY /\ indefinitely
    THEN [k EXCEPT !.list[k.cur] = "suspended"]
    ELSE IF wake < k.tick
    THEN [k EXCEPT !.list[k.cur] = "overflow", !.wake[k.cur] = wake]
    ELSE [k EXCEPT !.list[k.cur] = "delayed", !.wake[k.cur] = wake,
                   !.next = IF wake < @ THEN wake ELSE @]

\* vTaskPlaceOnEventList
vTaskPlaceOnEventList(k, e, ticks) ==
  prvAddCurrentTaskToDelayedList([k EXCEPT !.ev[e] = vListInsert(@, k.cur)], ticks, TRUE)

\* The task that was woken must run before the current one.
Higher(k, t) == Priority[t] > Priority[k.cur]

\* xTaskRemoveFromEventList, of a list that is not empty.
xTaskRemoveFromEventList(k, e) ==
  LET t == Head(k.ev[e])
      removed == [k EXCEPT !.ev[e] = Tail(@), !.yield = @ \/ Higher(k, t)] IN
  IF k.susp = 0 THEN prvAddTaskToReadyList(removed, {t})
                ELSE [removed EXCEPT !.pend = Append(@, t)]

\* portYIELD
portYIELD(k) == [k EXCEPT !.pendsv = TRUE]

\* A task waiting in e is woken and, if its priority is higher, a switch requested.
Wake(k, e) ==
  IF k.ev[e] = <<>> THEN k
  ELSE LET woken == xTaskRemoveFromEventList(k, e) IN
       IF Higher(k, Head(k.ev[e])) THEN portYIELD(woken) ELSE woken

\* xTaskIncrementTick while the scheduler runs, without its return value: tasks whose
\* time has come are ready, and no longer wait for an event.
UnblockExpired(k) ==
  LET now == (k.tick + 1) % (MAX_DELAY + 1)
      ticked == IF now = 0 THEN taskSWITCH_DELAYED_LISTS([k EXCEPT !.tick = 0])
                           ELSE [k EXCEPT !.tick = now]
      due == {t \in Tasks : ticked.list[t] = "delayed" /\ ticked.wake[t] <= now} IN
  IF now < ticked.next THEN ticked
  ELSE prvResetNextTaskUnblockTime(
         [prvAddTaskToReadyList(ticked, due) EXCEPT
           !.ev = [e \in Events |-> uxListRemove(@[e], due)]])

\* The return value of xTaskIncrementTick: a task that was woken has at least the
\* priority of the current one, another task of its priority is ready (time slicing),
\* or a yield was pending.
SwitchRequired(k, ticked) ==
  \/ \E t \in ReadyTasks(ticked) \ ReadyTasks(k) : Priority[t] >= Priority[k.cur]
  \/ Cardinality({t \in ReadyTasks(ticked) : Priority[t] = Priority[k.cur]}) > 1
  \/ k.yield

xTaskIncrementTick(k) ==
  IF k.susp > 0 THEN [k EXCEPT !.pended = @ + 1, !.pendsv = @ \/ k.yield]
  ELSE LET ticked == UnblockExpired(k) IN
       IF SwitchRequired(k, ticked) THEN portYIELD(ticked) ELSE ticked

\* The ticks that came while the scheduler was suspended, when it is resumed.
PendedTicks(k) ==
  LET after[n \in 0 .. k.pended] ==
        IF n = 0 THEN [k EXCEPT !.pended = 0]
        ELSE LET ticked == UnblockExpired(after[n - 1]) IN
             [ticked EXCEPT !.yield = SwitchRequired(after[n - 1], ticked)]
  IN after[k.pended]

\* vTaskSuspendAll
vTaskSuspendAll(k) == [k EXCEPT !.susp = @ + 1]

\* xTaskResumeAll: the tasks woken meanwhile become ready, then the ticks are made up
\* for.  It has yielded when xYieldPending is set.
xTaskResumeAll(k) ==
  LET woken == {k.pend[i] : i \in DOMAIN k.pend}
      readied == [prvAddTaskToReadyList(k, woken) EXCEPT !.susp = 0, !.pend = <<>>,
                           !.yield = @ \/ \E t \in woken : Priority[t] >= Priority[k.cur]]
      caught == PendedTicks(IF woken = {} THEN readied
                            ELSE prvResetNextTaskUnblockTime(readied)) IN
  IF caught.yield THEN portYIELD(caught) ELSE caught

\* vTaskSwitchContext: taskSELECT_HIGHEST_PRIORITY_TASK takes the next of the tasks of
\* the highest priority; which of them is next is left open.
Highest(k) == {t \in ReadyTasks(k) : \A u \in ReadyTasks(k) : Priority[t] >= Priority[u]}

vTaskSwitchContext(k, t) ==
  IF k.susp > 0 THEN [k EXCEPT !.pendsv = FALSE, !.yield = TRUE]
                ELSE [k EXCEPT !.pendsv = FALSE, !.yield = FALSE, !.cur = t]

=============================================================================
