------------------------------ MODULE Watchdog ------------------------------
(***************************************************************************)
(* The watchdog and what it watches: main and prvSetupHardware              *)
(* (app/src/main.c), vWDTInit and vWDTFeed (app/src/wdt.c), the loop of     *)
(* vEthernetDaemon (app/src/net.c) and the event group that joins the two   *)
(* tasks (freertos/event_groups.c), with the passing of time.               *)
(*                                                                         *)
(* Time passes in units of which PollDelay make 250 ms.  The code between   *)
(* two waits takes no time of its own, but what has a higher priority (the  *)
(* tcpip thread, the tasks of the driver, interrupts) may keep a task that  *)
(* is ready from running for MaxStall units, until all tasks wait again.    *)
(***************************************************************************)
EXTENDS Integers

CONSTANTS
  WDT_TIMEOUT,  \* units without a feed after which the watchdog resets (2 s)
  WDT_TICKS,    \* units vWDTFeed waits for the daemon (2.5 s)
  PollDelay,    \* units of vTaskDelay(configTICK_RATE_HZ / 4)
  MaxStart,     \* bound: units tcpip_init and netif_add take
  MaxBlock,     \* bound: units the mailbox of the tcpip thread stays full
  MaxStall,     \* bound: units a ready task waits for the processor
  DEBUG         \* is it a debug build, in which _exit loops?

\* The watchdog allows for what a working system can take between two feeds, and one unit
\* more, the one in which the daemon has been round its loop, and vWDTFeed waits longer
\* than the watchdog does (wdt.c).
ASSUME TimingAssumption ==
  /\ {WDT_TIMEOUT, WDT_TICKS, PollDelay} \subseteq Nat \ {0}
  /\ {MaxStart, MaxBlock, MaxStall} \subseteq Nat
  /\ MaxBlock + PollDelay + 3 * MaxStall + 1 < WDT_TIMEOUT
  /\ MaxStart + 2 * MaxStall < WDT_TIMEOUT /\ WDT_TIMEOUT <= WDT_TICKS
  /\ DEBUG \in BOOLEAN

VARIABLES
  mpc,     \* main: location, or "halt" when the processor no longer gets anywhere
  wdt,     \* the watchdog: units since it was fed, or Off
  bits,    \* xEventGroup: is NET_MAIN_BIT set?
  wpc,     \* vWDTFeed: location, "none" before the task exists
  wleft,   \* vWDTFeed: units until its wait is over
  dpc,     \* vEthernetDaemon: location, "none" before the task exists
  dleft,   \* vEthernetDaemon: units until its wait is over
  turned,  \* the tasks that have been round their loop since time last passed
  stall,   \* units ready tasks have waited for the processor since all tasks waited
  broken,  \* ghost: has something failed since the reset?
  silent   \* ghost: units since the daemon set its bit, or since the watchdog started

vars == <<mpc, wdt, bits, wpc, wleft, dpc, dleft, turned, stall, broken, silent>>
wtask == <<wpc, wleft>>
dtask == <<dpc, dleft>>

Off == -1
MaxSilent == 2 * WDT_TIMEOUT    \* bound: silent counts no further

-----------------------------------------------------------------------------
MutNotCleared(b) == b                        \* xClearOnExit is pdFALSE
MutQuarter(n) == n >= WDT_TIMEOUT \div 4     \* counts at a quarter of the rate

\* The bit after a wait that saw it set: xClearOnExit is pdTRUE.
Cleared(b) == FALSE

\* The watchdog counts down to zero.
Bites(n) == n >= WDT_TIMEOUT

\* WDT_UpdateTimeOut: the counter is loaded again.
Fed(n) == 0

-----------------------------------------------------------------------------
Init ==
  /\ mpc = "uart" /\ wdt = Off
  /\ bits = FALSE
  /\ wpc = "none" /\ wleft = 0
  /\ dpc = "none" /\ dleft = 0 /\ turned = {}
  /\ stall = 0 /\ broken = FALSE /\ silent = 0

\* The state after a reset is the initial one.
Reboot ==
  /\ mpc' = "uart" /\ wdt' = Off /\ bits' = FALSE
  /\ wpc' = "none" /\ wleft' = 0 /\ dpc' = "none" /\ dleft' = 0 /\ turned' = {}
  /\ stall' = 0 /\ broken' = FALSE /\ silent' = 0

Halt == /\ mpc' = "halt" /\ broken' = TRUE
        /\ UNCHANGED <<wdt, bits, wtask, dtask, turned, stall, silent>>

-----------------------------------------------------------------------------
(* main *)

\* prvSetupHardware: vUartInit enables the interrupt of UART0, ...
vUartInit ==
  /\ mpc = "uart" /\ mpc' = "info"
  /\ UNCHANGED <<wdt, bits, wtask, dtask, turned, stall, broken, silent>>

\* ... vDeviceInfoInit reads the flash, ...
vDeviceInfoInit ==
  /\ mpc = "info" /\ mpc' = "wdt"
  /\ UNCHANGED <<wdt, bits, wtask, dtask, turned, stall, broken, silent>>

\* ... vWDTInit starts the watchdog.
vWDTInit ==
  /\ mpc = "wdt" /\ mpc' = "sem"
  /\ wdt' = 0 /\ silent' = 0
  /\ UNCHANGED <<bits, wtask, dtask, turned, stall, broken>>

\* main returns: _start calls _exit, which resets or, in a debug build, loops.
MainReturns == IF DEBUG THEN Halt ELSE Reboot

\* xSemaphoreCreateBinary, xEventGroupCreate
CreateObject(from, to) ==
  /\ mpc = from /\ mpc' = to
  /\ UNCHANGED <<wdt, bits, wtask, dtask, turned, stall, broken, silent>>

CreateFails ==
  /\ mpc \in {"sem", "event"}
  /\ MainReturns

\* xTaskCreate twice, the results of which are not looked at, and
\* vTaskStartScheduler, which returns when there is no memory for the idle task.
StartTasks(made) ==
  /\ mpc = "tasks" /\ mpc' = "run"
  /\ wpc' = IF "wdt" \in made THEN "wait" ELSE "none"
  /\ dpc' = IF "netdeamon" \in made THEN "start" ELSE "none"
  /\ dleft' \in 0..MaxStart
  /\ broken' = (made # {"wdt", "netdeamon"})
  /\ UNCHANGED <<wdt, bits, wleft, turned, stall, silent>>

SchedulerFails ==
  /\ mpc = "tasks"
  /\ MainReturns

\* A frame of UART0 is complete before xSemaphore exists: xQueueGiveFromISR works on
\* address 0.  It sees a full queue there, or it writes to the vector table and
\* HardFault_Handler loops, as the addresses of the handlers happen to be.
EarlyFrame ==
  /\ mpc \in {"info", "wdt", "sem"}
  /\ Halt

-----------------------------------------------------------------------------
(* The tasks.  vWDTFeed has the higher priority. *)

WReady == mpc = "run" /\ wpc \in {"wait", "set", "expired"}
DReady == mpc = "run" /\ dpc \in {"poll", "callback", "set"}
DWaits == mpc = "run" /\ dpc \in {"start", "blocked", "delay"}

\* xEventGroupWaitBits: the bit is set, or the task blocks.
WaitBits ==
  /\ WReady /\ wpc = "wait"
  /\ IF bits THEN wpc' = "set" /\ bits' = Cleared(bits) /\ UNCHANGED wleft
             ELSE wpc' = "blocked" /\ wleft' = WDT_TICKS /\ UNCHANGED bits
  /\ UNCHANGED <<mpc, wdt, dtask, turned, stall, broken, silent>>

\* The wait is over.  One that timed out looks at the bit again, which may have been set
\* before the task runs.  With the bit, the watchdog is fed (WDT_UpdateTimeOut).
vWDTFeed ==
  /\ WReady /\ wpc \in {"set", "expired"} /\ wpc' = "wait"
  /\ wdt' = IF wpc = "set" \/ bits THEN Fed(wdt) ELSE wdt
  /\ bits' = IF wpc = "expired" THEN Cleared(bits) ELSE bits
  /\ turned' = turned \cup {"wdt"}
  /\ UNCHANGED <<mpc, wleft, dtask, stall, broken, silent>>

\* A wait of the daemon is over: tcpip_init and netif_add are done and the other
\* threads created (the first lpcPHYStsPoll after lpc_phy_init never reports a change),
\* the mailbox had room, the delay has passed.
AfterWait == [start |-> "set", blocked |-> "delay", delay |-> "set"]

DaemonGoesOn ==
  /\ DWaits /\ dleft = 0 /\ ~WReady
  /\ dpc' = AfterWait[dpc]
  /\ dleft' = IF dpc = "blocked" THEN PollDelay ELSE 0
  /\ UNCHANGED <<mpc, wdt, bits, wtask, turned, stall, broken, silent>>

\* lpcPHYStsPoll: the link has changed or not.
lpcPHYStsPoll(changed) ==
  /\ DReady /\ dpc = "poll" /\ ~WReady
  /\ dpc' = IF changed THEN "callback" ELSE "set"
  /\ UNCHANGED <<mpc, wdt, bits, wtask, dleft, turned, stall, broken, silent>>

\* tcpip_callback_with_block: waits until the mailbox has room.
Callback(n) ==
  /\ DReady /\ dpc = "callback" /\ ~WReady
  /\ dpc' = "blocked" /\ dleft' = n
  /\ UNCHANGED <<mpc, wdt, bits, wtask, turned, stall, broken, silent>>

\* xEventGroupSetBits: a task that waits for the bit gets it, and the bit is cleared
\* for it at once.
xEventGroupSetBits ==
  /\ DReady /\ dpc = "set" /\ dpc' = "poll" /\ ~WReady
  /\ IF wpc = "blocked" THEN wpc' = "set" /\ bits' = Cleared(TRUE)
                        ELSE bits' = TRUE /\ UNCHANGED wpc
  /\ turned' = turned \cup {"netdeamon"} /\ silent' = 0
  /\ UNCHANGED <<mpc, wdt, wleft, dleft, stall, broken>>

\* A failure: the daemon waits for a tcpip thread that no longer empties its mailbox,
\* or a task returns from its function and prvTaskExitError loops.
DaemonStuck ==
  /\ mpc = "run" /\ dpc \in {"start", "blocked"} /\ dpc' = "stuck"
  /\ broken' = TRUE
  /\ UNCHANGED <<mpc, wdt, bits, wtask, dleft, turned, stall, silent>>

prvTaskExitError ==
  /\ mpc = "run"
  /\ Halt

-----------------------------------------------------------------------------
(* Time *)

\* Someone could run who has not been round its loop: a task that never waits does
\* not stop time.
Ready ==
  \/ mpc \in {"uart", "info", "wdt", "sem", "event", "tasks"}
  \/ IF WReady THEN "wdt" \notin turned
               ELSE (DReady /\ "netdeamon" \notin turned) \/ (DWaits /\ dleft = 0)

Tick ==
  /\ Ready => stall < MaxStall
  /\ wdt # Off => ~Bites(wdt)
  /\ wdt' = IF wdt = Off THEN Off ELSE wdt + 1
  /\ silent' = IF silent < MaxSilent THEN silent + 1 ELSE silent
  /\ wleft' = IF wpc = "blocked" /\ wleft > 0 /\ mpc = "run" THEN wleft - 1 ELSE wleft
  /\ wpc' = IF wpc = "blocked" /\ wleft' = 0 THEN "expired" ELSE wpc
  /\ dleft' = IF DWaits /\ dleft > 0 THEN dleft - 1 ELSE dleft
  /\ turned' = {}
  /\ stall' = IF Ready THEN stall + 1 ELSE 0
  /\ UNCHANGED <<mpc, bits, dpc, broken>>

\* WDT_MODE_INT_ONLY: an interrupt that nobody handles
MutIntOnly ==
  /\ wdt # Off /\ Bites(wdt) /\ wdt' = 0
  /\ UNCHANGED <<mpc, bits, wtask, dtask, turned, stall, broken, silent>>

\* WDT_MODE_RESET: the watchdog resets the processor.
WatchdogReset ==
  /\ wdt # Off /\ Bites(wdt)
  /\ Reboot

-----------------------------------------------------------------------------
Main == \/ vUartInit \/ vDeviceInfoInit \/ vWDTInit
        \/ CreateObject("sem", "event") \/ CreateObject("event", "tasks")
        \/ CreateFails \/ SchedulerFails
        \/ \E made \in SUBSET {"wdt", "netdeamon"} : StartTasks(made)

Feeder == WaitBits \/ vWDTFeed

Daemon == \/ DaemonGoesOn \/ xEventGroupSetBits
          \/ \E changed \in BOOLEAN : lpcPHYStsPoll(changed)
          \/ \E n \in 0..MaxBlock : Callback(n)

Failure == EarlyFrame \/ DaemonStuck \/ prvTaskExitError

Next == Main \/ Feeder \/ Daemon \/ Failure \/ Tick \/ WatchdogReset

Spec == Init /\ [][Next]_vars

\* Time passes, however often the tasks run in between; a task that is ready runs
\* before its stall is over; the watchdog does not depend on the software.
FairSpec == /\ Spec /\ SF_vars(Tick) /\ WF_vars(WatchdogReset)
            /\ WF_vars(Main) /\ WF_vars(Feeder) /\ WF_vars(Daemon)

-----------------------------------------------------------------------------
(* Properties *)

\* A system in which nothing has failed is never reset: the daemon sets its bit and
\* vWDTFeed feeds the watchdog within WDT_TIMEOUT, also when the start takes its time,
\* the link changes and the mailbox is full (lines 312 to 328 of net.c).
NotReset == wdt # Off /\ Bites(wdt) => broken

\* The watchdog is never fed on behalf of a daemon that has stopped: a bit that was
\* set is good for one feed (xClearOnExit), so a reset comes at the latest
\* WDT_TIMEOUT and one stall after the unit in which the daemon was last heard of.
SilenceNoticed == wdt # Off => silent <= WDT_TIMEOUT + MaxStall + 1

\* Whatever fails once the watchdog has been started (a task that cannot be created, a
\* mailbox that stays full, a task that returns, a null semaphore given by the
\* interrupt that vUartInit enabled), the system starts again.
StartsAgain == broken /\ wdt # Off ~> mpc = "uart"

=============================================================================
