--------------------------- MODULE WatchdogProofs ---------------------------
(***************************************************************************)
(* Proofs about Watchdog, for every choice of times that TimingAssumption  *)
(* allows.                                                                 *)
(***************************************************************************)
EXTENDS Watchdog, TLAPS

\* Before the scheduler runs.
Starting == {"uart", "info", "wdt", "sem", "event", "tasks"}

\* The types of the variables.
WdtTypes ==
  /\ mpc \in Starting \cup {"run", "halt"}
  /\ wdt \in -1..WDT_TIMEOUT /\ silent \in Nat
  /\ wpc \in {"none", "wait", "blocked", "set", "expired"} /\ wleft \in 0..WDT_TICKS
  /\ dpc \in {"none", "start", "poll", "callback", "blocked", "delay", "set", "stuck"}
  /\ dleft \in Nat /\ stall \in 0..MaxStall
  /\ turned \subseteq {"wdt", "netdeamon"}
  /\ bits \in BOOLEAN /\ broken \in BOOLEAN

\* The tasks do not exist before the scheduler runs, and a bit that is set has nobody who
\* could wait for it: the daemon runs only while vWDTFeed waits, and a task that waits
\* gets the bit at once.
Quiet ==
  /\ mpc \in Starting => wpc = "none" /\ dpc = "none" /\ ~bits /\ turned = {} /\ ~broken
  /\ bits => wpc = "none"

\* A bit that vWDTFeed has got is no older than the unit the daemon set it in and a stall.
BitIsFresh ==
  mpc = "run" /\ wpc = "set" =>
    silent = 0 \/ ("wdt" \notin turned /\ silent <= stall + 1)

\* The daemon was heard of not much before the watchdog was last fed.
FedFresh == wdt # Off => silent <= wdt + MaxStall + 1

SilenceInv == WdtTypes /\ Quiet /\ BitIsFresh /\ FedFresh

-----------------------------------------------------------------------------
\* The latest time for the daemon to set its bit, if no more than a stall is lost after it.
Latest == WDT_TIMEOUT - 1 - MaxStall

\* What counts on top of the waiting time that is left: a stall, once it is over.
Late(left) == IF left = 0 THEN stall ELSE 0

\* The watchdog runs from vWDTInit on.  Until the scheduler runs, only stalls pass.
Started ==
  /\ mpc \in {"uart", "info", "wdt"} => wdt = Off
  /\ mpc \in {"sem", "event", "tasks"} => wdt # Off /\ wdt <= stall
  /\ mpc = "run" => wdt # Off
  /\ mpc = "halt" => broken

\* Both tasks are there.  The daemon does not run while vWDTFeed has the bit or is back
\* at its wait.
Working ==
  /\ wpc \in {"wait", "blocked", "set"} /\ dpc \notin {"none", "stuck"}
  /\ wpc = "set" => dpc = "poll"
  /\ wpc = "wait" => dpc \in {"start", "poll"}
  /\ dpc = "start" => turned = {}

\* Who has been round his loop in this unit has fed the watchdog, or is about to.
TurnedIsFed ==
  /\ "wdt" \in turned => wdt = 0
  /\ "netdeamon" \in turned => wdt = 0 \/ wpc = "set"

\* vWDTFeed does not time out before the watchdog.
WaitsLong == wpc = "blocked" => WDT_TICKS - wleft <= wdt

\* How much time has passed since the last feed, in every phase of a round.
InTime ==
  /\ wpc = "set" => wdt <= Latest + stall
  /\ wpc = "wait" =>
       /\ dpc = "start" => wdt + dleft <= MaxStart + stall
       /\ dpc = "poll" => wdt <= 1 + stall
  /\ wpc = "blocked" =>
       /\ dpc = "start" => wdt + dleft <= MaxStart + MaxStall + Late(dleft)
       /\ dpc \in {"poll", "callback"} => wdt <= 1 + stall
       /\ dpc = "blocked" => wdt + dleft <= 1 + MaxStall + MaxBlock + Late(dleft)
       /\ dpc = "delay" =>
            wdt + dleft <= 1 + 2 * MaxStall + MaxBlock + PollDelay + Late(dleft)
       /\ dpc = "set" => wdt <= Latest + stall

RoundInv ==
  /\ SilenceInv /\ Started
  /\ mpc = "run" /\ ~broken => Working /\ TurnedIsFed /\ WaitsLong /\ InTime

-----------------------------------------------------------------------------
(* How long a silence can last *)

\* The times are numbers, and the watchdog bites at WDT_TIMEOUT.
LEMMA Times ==
  /\ WDT_TIMEOUT \in Nat /\ WDT_TICKS \in Nat /\ PollDelay \in Nat /\ MaxStart \in Nat
  /\ MaxBlock \in Nat /\ MaxStall \in Nat /\ PollDelay > 0 /\ WDT_TIMEOUT > 0 /\ WDT_TICKS > 0
  /\ MaxBlock + PollDelay + 3 * MaxStall + 1 < WDT_TIMEOUT
  /\ MaxStart + 2 * MaxStall < WDT_TIMEOUT /\ WDT_TIMEOUT <= WDT_TICKS
  /\ Off = -1
BY TimingAssumption DEF Off

\* The initial state, which is also the one after a reset.
LEMMA SilenceInit == Init => SilenceInv
<1> SUFFICES ASSUME Init PROVE SilenceInv
  OBVIOUS
<1>1. bits \in BOOLEAN /\ broken \in BOOLEAN
  BY Zenon DEF Init
<1> QED
  BY <1>1, Times DEF Init, SilenceInv, WdtTypes, Starting, Quiet, BitIsFresh, FedFresh

LEMMA SilenceReboot == Reboot => SilenceInv'
<1> SUFFICES ASSUME Reboot PROVE SilenceInv'
  OBVIOUS
<1>1. bits' \in BOOLEAN /\ broken' \in BOOLEAN
  BY Zenon DEF Reboot
<1> QED
  BY <1>1, Times DEF Reboot, SilenceInv, WdtTypes, Starting, Quiet, BitIsFresh, FedFresh

\* Nothing is fed any more once the processor gets nowhere.
LEMMA SilenceHalt == SilenceInv /\ Halt => SilenceInv'
BY DEF Halt, SilenceInv, WdtTypes, Starting, Quiet, BitIsFresh, FedFresh, wtask, dtask

\* main, up to the start of the scheduler.
LEMMA SilenceMain == SilenceInv /\ Main => SilenceInv'
<1> SUFFICES ASSUME SilenceInv, Main PROVE SilenceInv'
  OBVIOUS
<1> USE Times DEF SilenceInv, WdtTypes, Starting, Quiet, BitIsFresh, FedFresh, wtask, dtask
<1>1. CASE vUartInit
  BY <1>1 DEF vUartInit
<1>2. CASE vDeviceInfoInit
  BY <1>2 DEF vDeviceInfoInit
<1>3. CASE vWDTInit
  BY <1>3 DEF vWDTInit
<1>4. CASE CreateObject("sem", "event") \/ CreateObject("event", "tasks")
  <2>1. /\ mpc \in {"sem", "event"} /\ mpc' \in {"event", "tasks"}
        /\ UNCHANGED <<wdt, bits, wpc, wleft, dpc, dleft, turned, stall, broken, silent>>
    BY <1>4 DEF CreateObject
  <2> QED  BY <2>1
<1>5. CASE CreateFails \/ SchedulerFails
  <2>1. Halt \/ Reboot
    BY <1>5 DEF CreateFails, SchedulerFails, MainReturns
  <2> QED  BY <2>1, SilenceHalt, SilenceReboot
<1>6. ASSUME NEW made \in SUBSET {"wdt", "netdeamon"}, StartTasks(made) PROVE SilenceInv'
  <2>1. broken' \in BOOLEAN
    BY <1>6, Zenon DEF StartTasks
  <2>2. dleft' \in Nat /\ wpc' \in {"wait", "none"} /\ dpc' \in {"start", "none"} /\ mpc' = "run"
        /\ ~bits /\ UNCHANGED <<wdt, bits, wleft, turned, stall, silent>>
    BY <1>6 DEF StartTasks
  <2> QED  BY <2>1, <2>2
<1> QED  BY <1>1, <1>2, <1>3, <1>4, <1>5, <1>6 DEF Main

\* The tasks.
LEMMA SilenceTasks ==
  ASSUME SilenceInv, Feeder \/ Daemon \/ DaemonStuck
  PROVE  SilenceInv'
<1> USE Times DEF SilenceInv, WdtTypes, Starting, Quiet, BitIsFresh, FedFresh, wtask, dtask,
                  WReady, DReady, DWaits
<1>1. CASE WaitBits
  BY <1>1 DEF WaitBits, Cleared
<1>2. CASE vWDTFeed
  <2>1. ~bits /\ mpc = "run"
    BY <1>2 DEF vWDTFeed
  <2>2. bits' = FALSE /\ bits' \in BOOLEAN
    BY <1>2, <2>1 DEF vWDTFeed, Cleared
  <2>3. CASE wpc = "set"
    <3>1. silent <= MaxStall + 1 /\ wdt' = 0
      BY <1>2, <2>1, <2>3 DEF vWDTFeed, Fed
    <3> QED  BY <1>2, <2>1, <2>2, <3>1 DEF vWDTFeed
  <2>4. CASE wpc = "expired"
    BY <1>2, <2>1, <2>2, <2>4 DEF vWDTFeed
  <2> QED  BY <1>2, <2>3, <2>4 DEF vWDTFeed
<1>3. CASE DaemonGoesOn
  <2>1. dpc' \in {"set", "delay"}
    BY <1>3 DEF DaemonGoesOn, AfterWait
  <2> QED  BY <1>3, <2>1 DEF DaemonGoesOn
<1>4. CASE xEventGroupSetBits
  <2>1. wpc \in {"blocked", "none"} /\ mpc = "run" /\ wpc' \in {"set", "none"}
    BY <1>4 DEF xEventGroupSetBits
  <2>2. bits' \in BOOLEAN /\ (bits' => wpc' = "none")
    BY <1>4, <2>1 DEF xEventGroupSetBits, Cleared
  <2>3. silent' = 0 /\ dpc' = "poll" /\ turned' \subseteq {"wdt", "netdeamon"}
    BY <1>4 DEF xEventGroupSetBits
  <2> QED  BY <1>4, <2>1, <2>2, <2>3 DEF xEventGroupSetBits
<1>5. ASSUME NEW changed \in BOOLEAN, lpcPHYStsPoll(changed) PROVE SilenceInv'
  BY <1>5 DEF lpcPHYStsPoll
<1>6. ASSUME NEW n \in 0..MaxBlock, Callback(n) PROVE SilenceInv'
  BY <1>6 DEF Callback
<1>7. CASE DaemonStuck
  BY <1>7 DEF DaemonStuck
<1> QED  BY <1>1, <1>2, <1>3, <1>4, <1>5, <1>6, <1>7 DEF Feeder, Daemon

\* Time passes.
LEMMA SilenceTick == SilenceInv /\ Tick => SilenceInv'
<1> SUFFICES ASSUME SilenceInv, Tick PROVE SilenceInv'
  OBVIOUS
<1> USE Times DEF SilenceInv, WdtTypes
<1>1. /\ silent' \in {silent, silent + 1} /\ silent' \in Nat
      /\ wdt' = (IF wdt = Off THEN Off ELSE wdt + 1) /\ wdt' \in -1..WDT_TIMEOUT
  BY DEF Tick, Bites
<1>2. stall' = (IF Ready THEN stall + 1 ELSE 0) /\ stall' \in 0..MaxStall
  BY DEF Tick
<1>3. /\ wpc' \in {"none", "wait", "blocked", "set", "expired"}
      /\ wleft' \in 0..WDT_TICKS /\ dleft' \in Nat /\ turned' = {}
  BY DEF Tick
<1>4. wpc' = wpc \/ (wpc = "blocked" /\ wpc' = "expired")
  BY DEF Tick
<1>5. WdtTypes'
  BY <1>1, <1>2, <1>3 DEF Tick
<1>6. Quiet'
  BY <1>3, <1>4 DEF Quiet, Tick, Starting
<1>7. BitIsFresh'
  <2> SUFFICES ASSUME mpc = "run", wpc = "set" PROVE silent' <= stall' + 1 /\ "wdt" \notin turned'
    BY <1>4 DEF BitIsFresh, Tick
  <2>1. CASE silent = 0
    BY <1>1, <1>2, <1>3, <2>1
  <2>2. CASE "wdt" \notin turned /\ silent <= stall + 1
    <3>1. Ready
      BY <2>2 DEF Ready, WReady
    <3> QED  BY <1>1, <1>2, <1>3, <2>2, <3>1
  <2> QED  BY <2>1, <2>2 DEF BitIsFresh
<1>8. FedFresh'
  BY <1>1 DEF FedFresh
<1> QED  BY <1>5, <1>6, <1>7, <1>8

LEMMA SilenceStep == SilenceInv /\ [Next]_vars => SilenceInv'
<1> SUFFICES ASSUME SilenceInv, [Next]_vars PROVE SilenceInv'
  OBVIOUS
<1>1. CASE EarlyFrame \/ prvTaskExitError
  BY <1>1, SilenceHalt DEF EarlyFrame, prvTaskExitError
<1>2. CASE WatchdogReset
  BY <1>2, SilenceReboot DEF WatchdogReset
<1>3. CASE UNCHANGED vars
  BY <1>3 DEF vars, SilenceInv, WdtTypes, Quiet, BitIsFresh, FedFresh, wtask, dtask
<1> QED
  BY <1>1, <1>2, <1>3, SilenceMain, SilenceTasks, SilenceTick DEF Next, Failure

LEMMA SilenceInductive == Spec => []SilenceInv
BY SilenceInit, SilenceStep, PTL DEF Spec

\* The watchdog is not fed on behalf of a daemon that has stopped: xClearOnExit makes a
\* bit good for one feed, so the reset comes at the latest WDT_TIMEOUT, one stall and one
\* unit after the daemon was last heard of, whatever the times are.
THEOREM SilenceIsNoticed == Spec => []SilenceNoticed
<1>1. SilenceInv => SilenceNoticed
  BY Times DEF SilenceInv, WdtTypes, FedFresh, SilenceNoticed
<1> QED  BY <1>1, SilenceInductive, PTL

-----------------------------------------------------------------------------
(* How long a round of a working system can last *)

\* The initial state, and the one after a reset.
LEMMA RoundInit == Init => RoundInv
BY SilenceInit DEF Init, RoundInv, Started

LEMMA RoundReboot == Reboot => RoundInv'
BY SilenceReboot DEF Reboot, RoundInv, Started

\* A system that has failed.
LEMMA RoundHalt == RoundInv /\ Halt => RoundInv'
BY SilenceHalt DEF Halt, RoundInv, Started

\* main: the tasks find little time gone when the scheduler starts.
LEMMA RoundMain == RoundInv /\ Main => RoundInv'
<1> SUFFICES ASSUME RoundInv, Main PROVE RoundInv'
  OBVIOUS
<1>0. SilenceInv' /\ WdtTypes /\ Started
  BY SilenceMain DEF RoundInv, SilenceInv
<1>1. CASE vUartInit \/ vDeviceInfoInit
  BY <1>0, <1>1 DEF vUartInit, vDeviceInfoInit, RoundInv, Started
<1>2. CASE vWDTInit
  BY <1>0, <1>2, Times DEF vWDTInit, RoundInv, Started, WdtTypes, Fed
<1>3. CASE CreateObject("sem", "event") \/ CreateObject("event", "tasks")
  <2>1. mpc \in {"sem", "event"} /\ mpc' \in {"event", "tasks"} /\ UNCHANGED <<wdt, stall>>
    BY <1>3 DEF CreateObject
  <2> QED  BY <1>0, <2>1 DEF RoundInv, Started
<1>4. CASE CreateFails \/ SchedulerFails
  <2>1. Halt \/ Reboot
    BY <1>4 DEF CreateFails, SchedulerFails, MainReturns
  <2> QED  BY <2>1, RoundHalt, RoundReboot
<1>5. ASSUME NEW made \in SUBSET {"wdt", "netdeamon"}, StartTasks(made) PROVE RoundInv'
  <2>1. mpc = "tasks" /\ mpc' = "run" /\ UNCHANGED <<wdt, turned, stall>> /\ turned = {}
        /\ wdt # Off /\ wdt <= stall /\ dleft' \in 0..MaxStart /\ wdt \in Int /\ stall \in Nat
    BY <1>0, <1>5, Times
       DEF StartTasks, RoundInv, SilenceInv, Quiet, Starting, Started, WdtTypes
  <2>2. ASSUME ~broken' PROVE wpc' = "wait" /\ dpc' = "start"
    BY <1>5, <2>2 DEF StartTasks
  <2>3. ASSUME ~broken' PROVE (Working /\ TurnedIsFed /\ WaitsLong /\ InTime)'
    <3>1. Working' /\ TurnedIsFed' /\ WaitsLong'
      BY <2>1, <2>2, <2>3 DEF Working, TurnedIsFed, WaitsLong
    <3>2. wdt' + dleft' <= MaxStart + stall'
      <4>1. wdt' \in Int /\ stall' \in Int /\ dleft' \in Int /\ MaxStart \in Int
        BY <2>1, Times
      <4>2. wdt' <= stall' /\ dleft' <= MaxStart
        BY <2>1, Times
      <4>3. \A w, d, m, s \in Int : w <= s /\ d <= m => w + d <= m + s
        OBVIOUS
      <4> QED  BY <4>1, <4>2, <4>3
    <3> QED  BY <2>2, <2>3, <3>1, <3>2 DEF InTime
  <2> QED  BY <1>0, <2>1, <2>3 DEF RoundInv, Started
<1> QED  BY <1>1, <1>2, <1>3, <1>4, <1>5 DEF Main

\* The tasks.
LEMMA RoundTasks ==
  ASSUME RoundInv, Feeder \/ Daemon
  PROVE  RoundInv'
<1>0. SilenceInv' /\ WdtTypes /\ Quiet /\ Started /\ WdtTypes'
  BY SilenceTasks DEF RoundInv, SilenceInv
<1>1. /\ mpc = "run" /\ mpc' = "run" /\ UNCHANGED broken /\ wdt # Off
      /\ broken \in BOOLEAN
  BY <1>0 DEF Feeder, Daemon, WaitBits, vWDTFeed, DaemonGoesOn, xEventGroupSetBits,
              lpcPHYStsPoll, Callback, WReady, DReady, DWaits, Started, WdtTypes
<1>2. wdt' \in {wdt, 0}
  BY DEF Feeder, Daemon, WaitBits, vWDTFeed, DaemonGoesOn, xEventGroupSetBits,
         lpcPHYStsPoll, Callback, Fed
<1>3. Started'
  BY <1>1, <1>2, Times DEF Started
<1> SUFFICES ASSUME ~broken PROVE (Working /\ TurnedIsFed /\ WaitsLong /\ InTime)'
  BY <1>0, <1>1, <1>3 DEF RoundInv
<1>4. Working /\ TurnedIsFed /\ WaitsLong /\ InTime /\ wdt \in Nat /\ ~bits
  BY <1>0, <1>1, Times DEF RoundInv, WdtTypes, Quiet, Working
<1> USE Times DEF WdtTypes, Working, TurnedIsFed, WaitsLong, InTime, Late, wtask, dtask, Latest
<1>5. CASE WaitBits
  BY <1>0, <1>4, <1>5 DEF WaitBits
<1>6. CASE vWDTFeed
  BY <1>0, <1>4, <1>6 DEF vWDTFeed, Fed
<1>7. CASE DaemonGoesOn
  <2>1. wpc = "blocked" /\ dleft = 0
    BY <1>1, <1>4, <1>7 DEF DaemonGoesOn, WReady
  <2>2. CASE dpc = "blocked"
    <3>1. dpc' = "delay" /\ dleft' = PollDelay
      BY <1>7, <2>2 DEF DaemonGoesOn, AfterWait
    <3> QED  BY <1>0, <1>4, <1>7, <2>1, <2>2, <3>1 DEF DaemonGoesOn
  <2>3. CASE dpc \in {"start", "delay"}
    <3>1. dpc' = "set"
      BY <1>7, <2>3 DEF DaemonGoesOn, AfterWait
    <3> QED  BY <1>0, <1>4, <1>7, <2>1, <2>3, <3>1 DEF DaemonGoesOn
  <2> QED  BY <1>7, <2>2, <2>3 DEF DaemonGoesOn, DWaits
<1>8. CASE xEventGroupSetBits
  <2>1. wpc = "blocked" /\ wpc' = "set" /\ dpc' = "poll" /\ dpc = "set"
    BY <1>1, <1>4, <1>8 DEF xEventGroupSetBits, WReady
  <2> QED  BY <1>0, <1>4, <1>8, <2>1 DEF xEventGroupSetBits
<1>9. ASSUME NEW changed \in BOOLEAN, lpcPHYStsPoll(changed)
      PROVE  (Working /\ TurnedIsFed /\ WaitsLong /\ InTime)'
  <2>1. wpc = "blocked" /\ dpc = "poll" /\ dpc' \in {"callback", "set"}
    BY <1>1, <1>4, <1>9 DEF lpcPHYStsPoll, WReady
  <2> QED  BY <1>0, <1>4, <1>9, <2>1 DEF lpcPHYStsPoll
<1>10. ASSUME NEW n \in 0..MaxBlock, Callback(n)
       PROVE  (Working /\ TurnedIsFed /\ WaitsLong /\ InTime)'
  <2>1. wpc = "blocked" /\ dpc = "callback" /\ dpc' = "blocked" /\ dleft' = n
    BY <1>1, <1>4, <1>10 DEF Callback, WReady
  <2> QED  BY <1>0, <1>4, <1>10, <2>1 DEF Callback
<1> QED  BY <1>5, <1>6, <1>7, <1>8, <1>9, <1>10 DEF Feeder, Daemon

\* Time passes.
LEMMA RoundTick == RoundInv /\ Tick => RoundInv'
<1> SUFFICES ASSUME RoundInv, Tick PROVE RoundInv'
  OBVIOUS
<1>0. SilenceInv' /\ WdtTypes /\ Started /\ WdtTypes'
  BY SilenceTick DEF RoundInv, SilenceInv
<1>1. /\ UNCHANGED <<mpc, dpc, broken, bits>> /\ turned' = {}
      /\ wdt' = (IF wdt = Off THEN Off ELSE wdt + 1)
      /\ stall' = (IF Ready THEN stall + 1 ELSE 0)
      /\ dleft' = (IF DWaits /\ dleft > 0 THEN dleft - 1 ELSE dleft)
      /\ broken \in BOOLEAN
  BY <1>0 DEF Tick, WdtTypes
<1>2. Started'
  <2>1. mpc \in {"sem", "event", "tasks"} => Ready
    BY DEF Ready
  <2> QED  BY <1>0, <1>1, <2>1, Times DEF Started, WdtTypes
<1> SUFFICES ASSUME mpc = "run", ~broken PROVE (Working /\ TurnedIsFed /\ WaitsLong /\ InTime)'
  BY <1>0, <1>1, <1>2 DEF RoundInv
<1>3. Working /\ TurnedIsFed /\ WaitsLong /\ InTime /\ wdt \in Nat /\ wdt' = wdt + 1
  BY <1>0, <1>1, Times DEF RoundInv, WdtTypes, Started
<1> USE Times DEF WdtTypes, TurnedIsFed, InTime, Late, Latest
<1>4. CASE wpc = "set"
  <2>1. wpc' = "set" /\ dpc = "poll"
    BY <1>3, <1>4 DEF Tick, Working
  <2>2. wdt' <= Latest + stall'
    <3>1. CASE "wdt" \in turned
      BY <1>0, <1>1, <1>3, <3>1
    <3>2. CASE "wdt" \notin turned
      BY <1>0, <1>1, <1>3, <1>4, <3>2 DEF Ready, WReady
    <3> QED  BY <3>1, <3>2
  <2> QED  BY <1>1, <2>1, <2>2 DEF Working, WaitsLong
<1>5. CASE wpc = "wait"
  <2>1. wpc' = "wait" /\ dpc \in {"start", "poll"}
    BY <1>3, <1>5 DEF Tick, Working
  <2>2. /\ dpc = "start" => wdt' + dleft' <= MaxStart + stall'
        /\ dpc = "poll" => wdt' <= 1 + stall'
    <3>1. CASE "wdt" \in turned
      BY <1>0, <1>1, <1>3, <2>1, <3>1 DEF Working
    <3>2. CASE "wdt" \notin turned
      BY <1>0, <1>1, <1>3, <1>5, <2>1, <3>2 DEF Ready, WReady
    <3> QED  BY <3>1, <3>2
  <2> QED  BY <1>1, <2>1, <2>2 DEF Working, WaitsLong
<1>6. CASE wpc = "blocked"
  <2>1. Ready <=> (DReady /\ "netdeamon" \notin turned) \/ (DWaits /\ dleft = 0)
    BY <1>6 DEF Ready, WReady
  <2> DEFINE Blocked ==
        /\ dpc = "start" => wdt + dleft <= MaxStart + MaxStall + Late(dleft)
        /\ dpc \in {"poll", "callback"} => wdt <= 1 + stall
        /\ dpc = "blocked" => wdt + dleft <= 1 + MaxStall + MaxBlock + Late(dleft)
        /\ dpc = "delay" =>
             wdt + dleft <= 1 + 2 * MaxStall + MaxBlock + PollDelay + Late(dleft)
        /\ dpc = "set" => wdt <= Latest + stall
  <2>2. Blocked'
    <3>1. CASE dpc \in {"poll", "callback", "set"}
      <4>1. CASE "netdeamon" \in turned
        BY <1>0, <1>1, <1>3, <1>6, <3>1, <4>1
      <4>2. CASE "netdeamon" \notin turned
        <5>1. Ready
          BY <2>1, <3>1, <4>2 DEF DReady
        <5> QED  BY <1>0, <1>1, <1>3, <1>6, <3>1, <5>1
      <4> QED  BY <4>1, <4>2
    <3>2. CASE dpc \in {"start", "blocked", "delay"}
      <4>1. CASE dleft = 0
        <5>1. Ready /\ dleft' = 0
          BY <1>1, <2>1, <3>2, <4>1 DEF DWaits
        <5>2. Late(dleft) = stall /\ Late(dleft)' = stall + 1 /\ stall \in Nat
          BY <1>0, <1>1, <4>1, <5>1
        <5> QED  BY <1>0, <1>1, <1>3, <1>6, <3>2, <4>1, <5>1, <5>2
      <4>2. CASE dleft > 0
        <5>1. ~Ready /\ dleft' = dleft - 1
          BY <1>0, <1>1, <2>1, <3>2, <4>2 DEF DWaits, DReady
        <5> QED  BY <1>0, <1>1, <1>3, <1>6, <3>2, <4>2, <5>1
      <4>3. dleft = 0 \/ dleft > 0
        BY <1>0
      <4> HIDE DEF Blocked
      <4> QED  BY <4>1, <4>2, <4>3
    <3> QED  BY <1>0, <1>3, <3>1, <3>2 DEF Working
  <2>3. wdt' < WDT_TICKS
    BY <1>0, <1>1, <1>3, <2>2 DEF Working
  <2>4. wleft' > 0 /\ wpc' = "blocked" /\ WDT_TICKS - wleft' <= wdt'
    BY <1>0, <1>3, <1>6, <2>3 DEF Tick, WaitsLong
  <2> QED  BY <1>1, <1>3, <2>2, <2>4 DEF Working, WaitsLong
<1> QED  BY <1>3, <1>4, <1>5, <1>6 DEF Working

LEMMA RoundStep == RoundInv /\ [Next]_vars => RoundInv'
<1> SUFFICES ASSUME RoundInv, [Next]_vars PROVE RoundInv'
  OBVIOUS
<1>1. CASE EarlyFrame \/ prvTaskExitError
  BY <1>1, RoundHalt DEF EarlyFrame, prvTaskExitError
<1>2. CASE DaemonStuck
  <2>1. SilenceInv'
    BY <1>2, SilenceTasks DEF RoundInv
  <2> QED  BY <1>2, <2>1 DEF DaemonStuck, RoundInv, Started
<1>3. CASE WatchdogReset
  BY <1>3, RoundReboot DEF WatchdogReset
<1>4. CASE UNCHANGED vars
  BY <1>4, SilenceStep
     DEF vars, RoundInv, Started, Working, TurnedIsFed, WaitsLong, InTime, Late, wtask, dtask
<1> QED
  BY <1>1, <1>2, <1>3, <1>4, RoundMain, RoundTasks, RoundTick DEF Next, Failure

\* A working system is never reset: for every start, block, delay and stall that
\* TimingAssumption allows, the daemon sets its bit and vWDTFeed feeds the watchdog
\* before WDT_TIMEOUT, or something has failed since the last reset.
THEOREM WorkingIsNotReset == Spec => []NotReset
<1>1. RoundInv => NotReset
  <2> SUFFICES ASSUME RoundInv, wdt # Off, ~broken PROVE wdt < WDT_TIMEOUT
    BY Times DEF RoundInv, SilenceInv, WdtTypes, NotReset, Bites
  <2>1. WdtTypes /\ Started /\ mpc \in Starting \cup {"run", "halt"}
    BY DEF RoundInv, SilenceInv, WdtTypes
  <2>2. CASE mpc \in Starting
    BY <2>1, <2>2, Times DEF WdtTypes, Started, Starting
  <2>3. CASE mpc = "run"
    BY <2>1, <2>3, Times DEF RoundInv, WdtTypes, Working, InTime, Late, Latest
  <2>4. CASE mpc = "halt"
    BY <2>4 DEF RoundInv, Started
  <2> QED  BY <2>1, <2>2, <2>3, <2>4
<1> QED  BY <1>1, RoundInit, RoundStep, PTL DEF Spec

=============================================================================
