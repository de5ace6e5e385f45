------------------------------ MODULE Timeouts ------------------------------
(***************************************************************************)
(* The timers of lwIP (lwip/core/timeouts.c) and the loop of the tcpip      *)
(* thread that runs them while it waits for messages                        *)
(* (tcpip_timeouts_mbox_fetch in lwip/api/tcpip.c).  Times are u32_t        *)
(* milliseconds that wrap around; the true time until a timer is due is     *)
(* kept beside them in the ghost field left.                                *)
(*                                                                         *)
(* The thread has the highest priority of the system and holds the core     *)
(* lock while it works, so its code takes little time of its own; handlers, *)
(* waits for the lock and interrupts may take up to MaxBusy ms in one round *)
(* of the loop.                                                             *)
(***************************************************************************)
EXTENDS Integers, Sequences

CONSTANTS
  Wrap,                \* 2^32: times are counted modulo Wrap
  lwip_cyclic_timers,  \* sequence of [h, interval_ms]: etharp_tmr, igmp_tmr
  OneShots,            \* handlers of other timeouts
  Delays,              \* the times they are set to
  MaxShots,            \* bound: timeouts of such handlers at once
  MboxSize,            \* TCPIP_MBOX_SIZE: messages the mailbox holds
  MaxBusy,             \* bound: ms one round of the loop takes, without its wait
  MempFails            \* may memp_malloc fail? subset of BOOLEAN

Cyclic == {lwip_cyclic_timers[i].h : i \in DOMAIN lwip_cyclic_timers}
Interval(c) ==
  lwip_cyclic_timers[CHOOSE i \in DOMAIN lwip_cyclic_timers : lwip_cyclic_timers[i].h = c].interval_ms

\* The limit on times is the one sys_timeout asserts.  A round takes less than the
\* shortest interval, otherwise the timers alone would keep the thread busy, and less
\* than an eighth of the 49 days after which the time wraps around.
LimitMs == (Wrap - 1) \div 4

ASSUME TimeoutsAssumption ==
  /\ Wrap \in Nat /\ Wrap >= 4 /\ Wrap % 2 = 0
  /\ lwip_cyclic_timers \in Seq([h : Cyclic, interval_ms : 1 .. LimitMs])
  /\ Cyclic \cap OneShots = {}
  /\ Delays \subseteq 1 .. LimitMs
  /\ MaxBusy \in Nat /\ 8 * MaxBusy < Wrap
  /\ \A c \in Cyclic : MaxBusy < Interval(c)
  /\ MboxSize \in Nat \ {0} /\ MaxShots \in Nat
  /\ MempFails \subseteq BOOLEAN /\ FALSE \in MempFails

VARIABLES
  sys_now,                   \* the tick count
  next_timeout,              \* the list of timeouts
  current_timeout_due_time,  \* time of the timeout that is being handled; 0 when there is
                             \* none, as nobody reads it then
  pc,                        \* the thread: location
  start,                     \* sys_check_timeouts: the time when it began, 0 outside of it
  sleep,                     \* the thread waits at most so long, or Forever
  h,                         \* the handler that is running, or NoHandler
  mbox,                      \* messages in the mailbox
  busy,                      \* ms since the round began, without its wait
  late,                      \* ghost: left of the timeout that is being handled
  lost                       \* ghost: cyclic timers for which there was no memory

timerVars == <<sys_now, next_timeout, current_timeout_due_time, pc, start, sleep, h, mbox,
               busy, late, lost>>

Forever == -1
NoHandler == "none"
LWIP_MAX_TIMEOUT == Wrap \div 2 - 1
u32(n) == n % Wrap

-----------------------------------------------------------------------------
MutPlain(t, compare_to) == t < compare_to     \* does not care about wraparounds

\* TIME_LESS_THAN
TIME_LESS_THAN(t, compare_to) == u32(t - compare_to) > LWIP_MAX_TIMEOUT

Timeout(handler, time, left) == [h |-> handler, time |-> time, left |-> left]

\* sys_timeout_abs: behind the timeouts that are not later.
sys_timeout_abs(list, t) ==
  LET later == {i \in DOMAIN list : TIME_LESS_THAN(t.time, list[i].time)}
      at == IF later = {} THEN Len(list) + 1 ELSE CHOOSE i \in later : \A j \in later : i <= j IN
  SubSeq(list, 1, at - 1) \o <<t>> \o SubSeq(list, at, Len(list))

\* sys_timeout, at the time now
sys_timeout(list, now, msecs, handler) ==
  sys_timeout_abs(list, Timeout(handler, u32(now + msecs), msecs))

\* sys_untimeout: the first that matches is removed.
sys_untimeout(list, handler) ==
  LET matches == {i \in DOMAIN list : list[i].h = handler} IN
  IF matches = {} THEN list
  ELSE LET at == CHOOSE i \in matches : \A j \in matches : i <= j IN
       SubSeq(list, 1, at - 1) \o SubSeq(list, at + 1, Len(list))

\* sys_timeouts_init: the cyclic timers are started, in the order of the array, except for
\* those that get no memory (line 189).
sys_timeouts_init(failed) ==
  LET started[i \in 0 .. Len(lwip_cyclic_timers)] ==
        IF i = 0 THEN <<>>
        ELSE IF i \in failed THEN started[i - 1]
        ELSE sys_timeout(started[i - 1], 0, lwip_cyclic_timers[i].interval_ms,
                         lwip_cyclic_timers[i].h)
  IN started[Len(lwip_cyclic_timers)]

-----------------------------------------------------------------------------
TimersInit ==
  /\ \E failed \in IF TRUE \in MempFails THEN SUBSET DOMAIN lwip_cyclic_timers ELSE {{}} :
       /\ next_timeout = sys_timeouts_init(failed)
       /\ lost = {lwip_cyclic_timers[i].h : i \in failed}
  /\ sys_now = 0 /\ current_timeout_due_time = 0
  /\ pc = "again" /\ start = 0 /\ sleep = 0 /\ h = NoHandler
  /\ mbox = 0 /\ busy = 0 /\ late = 0

\* A timer that is due does not keep the thread from waiting.
MutAtLeastOne == IF next_timeout = <<>> THEN Forever
                 ELSE LET n == u32(Head(next_timeout).time - sys_now)
                      IN IF n \in 1 .. LWIP_MAX_TIMEOUT THEN n ELSE 1

\* sys_timeouts_sleeptime
sys_timeouts_sleeptime ==
  IF next_timeout = <<>> THEN Forever
  ELSE IF TIME_LESS_THAN(Head(next_timeout).time, sys_now) THEN 0
  ELSE u32(Head(next_timeout).time - sys_now)

\* tcpip_timeouts_mbox_fetch from again on: timers that are due come first.
Again ==
  /\ pc = "again" /\ busy' = 0
  /\ sleep' = sys_timeouts_sleeptime
  /\ pc' = IF sleep' = 0 THEN "check" ELSE "fetch"
  /\ UNCHANGED <<sys_now, next_timeout, current_timeout_due_time, start, h, mbox, late, lost>>

\* sys_arch_mbox_fetch has a message ...
FetchMsg ==
  /\ pc = "fetch" /\ mbox > 0
  /\ mbox' = mbox - 1 /\ pc' = "handle" /\ sleep' = 0
  /\ UNCHANGED <<sys_now, next_timeout, current_timeout_due_time, start, h, busy, late, lost>>

\* ... or returns SYS_ARCH_TIMEOUT.
FetchTimedOut ==
  /\ pc = "fetch" /\ mbox = 0 /\ sleep = 0 /\ pc' = "check"
  /\ UNCHANGED <<sys_now, next_timeout, current_timeout_due_time, start, sleep, h, mbox,
                 busy, late, lost>>

\* tcpip_thread_handle_msg; what the message makes of the timers is list.
MsgHandled(list) ==
  /\ pc = "handle" /\ pc' = "again"
  /\ next_timeout' = list
  /\ UNCHANGED <<sys_now, current_timeout_due_time, start, sleep, h, mbox, busy, late, lost>>

Shots == Len(SelectSeq(next_timeout, LAMBDA t : t.h \in OneShots))

HandleMsg ==
  \/ MsgHandled(next_timeout)
  \/ \E o \in OneShots, d \in Delays : /\ Shots < MaxShots
                                       /\ MsgHandled(sys_timeout(next_timeout, sys_now, d, o))
  \/ \E o \in OneShots : MsgHandled(sys_untimeout(next_timeout, o))

\* sys_check_timeouts: the time is read once ...
sys_check_timeouts ==
  /\ pc = "check" /\ pc' = "fire" /\ start' = sys_now
  /\ UNCHANGED <<sys_now, next_timeout, current_timeout_due_time, sleep, h, mbox, busy, late, lost>>

\* ... the timeouts that were due then are taken from the list ...
Expired == next_timeout # <<>> /\ ~TIME_LESS_THAN(start, Head(next_timeout).time)

Fire ==
  /\ pc = "fire" /\ Expired
  /\ next_timeout' = Tail(next_timeout) /\ h' = Head(next_timeout).h
  /\ current_timeout_due_time' = Head(next_timeout).time /\ late' = Head(next_timeout).left
  /\ pc' = "handler"
  /\ UNCHANGED <<sys_now, start, sleep, mbox, busy, lost>>

\* ... until there is no more.
CheckDone ==
  /\ pc = "fire" /\ ~Expired /\ pc' = "again" /\ start' = 0
  /\ UNCHANGED <<sys_now, next_timeout, current_timeout_due_time, sleep, h, mbox,
                 busy, late, lost>>

HandlerReturns == pc' = "fire" /\ h' = NoHandler /\ current_timeout_due_time' = 0 /\ late' = 0

MutNoInterval(c) == Timeout(c, sys_now, 0)   \* started again without its interval

\* The end of lwip_cyclic_timer: the timer is started again, one interval after it was
\* due or, if that is in the past, after now.
Rearmed(c) ==
  LET next == u32(current_timeout_due_time + Interval(c)) IN
  IF TIME_LESS_THAN(next, sys_now)
    THEN Timeout(c, u32(sys_now + Interval(c)), Interval(c))
    ELSE Timeout(c, next, late + Interval(c))

lwip_cyclic_timer(fails) ==
  /\ pc = "handler" /\ h \in Cyclic
  /\ next_timeout' = IF fails THEN next_timeout ELSE sys_timeout_abs(next_timeout, Rearmed(h))
  /\ lost' = IF fails THEN lost \cup {h} ELSE lost
  /\ HandlerReturns
  /\ UNCHANGED <<sys_now, start, sleep, mbox, busy>>

OneShotDone ==
  /\ pc = "handler" /\ h \in OneShots
  /\ HandlerReturns
  /\ UNCHANGED <<sys_now, next_timeout, start, sleep, mbox, busy, lost>>

\* A message is posted by another thread.
Post ==
  /\ mbox < MboxSize /\ mbox' = mbox + 1
  /\ UNCHANGED <<sys_now, next_timeout, current_timeout_due_time, pc, start, sleep, h, busy, late, lost>>

Waits == pc = "fetch" /\ mbox = 0 /\ sleep # 0

\* A millisecond passes.
Tick ==
  /\ Waits \/ busy < MaxBusy
  /\ sys_now' = u32(sys_now + 1)
  /\ next_timeout' = [i \in DOMAIN next_timeout |-> [next_timeout[i] EXCEPT !.left = @ - 1]]
  /\ late' = IF pc = "handler" THEN late - 1 ELSE late
  /\ sleep' = IF pc = "fetch" /\ sleep > 0 THEN sleep - 1 ELSE sleep
  /\ busy' = IF Waits THEN busy ELSE busy + 1
  /\ UNCHANGED <<current_timeout_due_time, pc, start, h, mbox, lost>>

Thread == \/ Again \/ FetchMsg \/ FetchTimedOut \/ HandleMsg \/ sys_check_timeouts \/ Fire \/ CheckDone
          \/ OneShotDone \/ \E fails \in MempFails : lwip_cyclic_timer(fails)

TimersNext == Thread \/ Post \/ Tick

TimersSpec == TimersInit /\ [][TimersNext]_timerVars

\* The thread has the highest priority; time passes, however often it runs in between.
FairTimersSpec == TimersSpec /\ WF_timerVars(Thread) /\ SF_timerVars(Tick)

-----------------------------------------------------------------------------
(* Properties *)

\* The list is in the order of the times at which the timeouts are really due, and its
\* u32_t times stand for them, also where they wrap around (line 73), when a timer is
\* started again late and when timeouts are set and removed in between.
ListSorted ==
  /\ \A i \in DOMAIN next_timeout : next_timeout[i].time = u32(sys_now + next_timeout[i].left)
  /\ \A i, j \in DOMAIN next_timeout : i < j => next_timeout[i].left <= next_timeout[j].left

\* No handler is called before its time, and no timeout stays in the list for longer
\* than two rounds of the loop after its time, whatever messages come.
OnTime ==
  /\ pc = "handler" => late <= 0
  /\ \A i \in DOMAIN next_timeout : next_timeout[i].left >= -2 * MaxBusy

\* Messages and timers do not keep each other from being handled: each cyclic timer
\* runs again and again, unless there was once no memory to start it (line 189),
\* and while there are messages they are fetched.
NeitherStarves ==
  /\ \A c \in Cyclic : []<>(h = c) \/ <>(c \in lost)
  /\ mbox > 0 ~> pc = "handle"

=============================================================================
