------------------------------ MODULE EnetInit ------------------------------
(***************************************************************************)
(* The start of the Ethernet interface: lpc_enetif_init, low_level_init     *)
(* (lwip/arch/freertos_lwip_mac.c) and lpc_phy_init                         *)
(* (lwip/arch/phy_smsc87x0.c), with frames that arrive and interrupts that  *)
(* are taken while they run.                                               *)
(*                                                                         *)
(* vEthernetDaemon runs the start and does not look at what netif_add       *)
(* returns.  LWIP_ASSERT is empty: lwipopts.h defines LWIP_NOASSERT.        *)
(***************************************************************************)
EXTENDS Integers

CONSTANTS
  PhyTries,    \* how often lpc_phy_init asks whether the PHY is ready (400)
  PhyFails,    \* can reading or writing the PHY time out?  subset of BOOLEAN
  CreateFails  \* can an allocation fail?  subset of BOOLEAN

ASSUME InitAssumption == /\ PhyTries \in Nat \ {0}
                         /\ FALSE \in PhyFails /\ PhyFails \subseteq BOOLEAN
                         /\ FALSE \in CreateFails /\ CreateFails \subseteq BOOLEAN

VARIABLES
  pc,         \* the start: location
  i,          \* lpc_phy_init: tries that are left, or -1
  ret,        \* what lpc_enetif_init returned, or "none"
  made,       \* what has been set up or created
  IntEnable,  \* are the interrupts of the EMAC enabled, in it and in the NVIC?
  RxEnable,   \* does the EMAC receive?
  IntStatus,  \* has a frame raised an interrupt?
  wakeup,     \* the value of rx_sem
  waiting     \* frames in the ring (none or some)

startVars == <<pc, i, ret, made, IntEnable, RxEnable, IntStatus, wakeup, waiting>>
emacVars == <<IntEnable, RxEnable, IntStatus, wakeup, waiting>>

Objects == {"phy", "txring", "rxring", "xtx_count_sem", "tx_lock_mutex", "rx_lock_mutex",
            "rx_sem", "rx_task", "tx_clean_sem", "tx_task"}

\* The order in which lpc_enetif_init creates what it needs after low_level_init.
Order == [xtx_count_sem |-> "tx_lock_mutex", tx_lock_mutex |-> "rx_lock_mutex",
          rx_lock_mutex |-> "rx_sem", rx_sem |-> "rx_task", rx_task |-> "tx_clean_sem",
          tx_clean_sem |-> "tx_task", tx_task |-> "done"]

-----------------------------------------------------------------------------
MutWraps(n) == IF n = 1 THEN PhyTries ELSE n - 1     \* the count starts again
MutLastIgnored(obj) ==                               \* the last task is not checked
  IF obj \in {"xtx_count_sem", "tx_task"} THEN "ERR_OK" ELSE "ERR_MEM"

MutSemIgnored(obj) ==                                \* rx_sem is not checked
  IF obj \in {"xtx_count_sem", "rx_sem"} THEN "ERR_OK" ELSE "ERR_MEM"

\* The next object after obj.
NextObject(obj) == Order[obj]

\* i-- in lpc_phy_init
TriesLeft(n) == n - 1

\* What lpc_enetif_init returns when obj cannot be created; xtx_count_sem is only
\* looked at in an assertion, and the start goes on.
FailureOf(obj) == IF obj = "xtx_count_sem" THEN "ERR_OK" ELSE "ERR_MEM"

-----------------------------------------------------------------------------
StartInit ==
  /\ pc = "reset" /\ i = PhyTries /\ ret = "none" /\ made = {}
  /\ IntEnable = FALSE /\ RxEnable = FALSE /\ IntStatus = FALSE
  /\ wakeup = 0 /\ waiting = FALSE

\* lpc_enetif_init returns.
Return(err) == pc' = "done" /\ ret' = err

\* lpc_phy_init fails: low_level_init returns (false), which is ERR_OK, and
\* lpc_enetif_init goes on to create its tasks.
PhyError == pc' = "xtx_count_sem" /\ UNCHANGED <<ret, made>>

\* Reset the PHY ...
PhyReset(fails) ==
  /\ pc = "reset"
  /\ IF fails THEN PhyError ELSE pc' = "phywait" /\ UNCHANGED <<ret, made>>
  /\ UNCHANGED <<i, emacVars>>

\* ... and wait until it is ready, at most PhyTries times.
PhyWait(fails, ready) ==
  /\ pc = "phywait" /\ i > 0
  /\ IF fails THEN PhyError /\ UNCHANGED i
              ELSE /\ i' = IF ready THEN -1 ELSE TriesLeft(i)
                   /\ UNCHANGED <<pc, ret, made>>
  /\ UNCHANGED emacVars

PhyDone ==
  /\ pc = "phywait" /\ i <= 0
  /\ IF i = 0 THEN PhyError
              ELSE pc' = "rings" /\ made' = made \cup {"phy"} /\ UNCHANGED ret
  /\ UNCHANGED <<i, emacVars>>

\* lpc_tx_setup, lpc_rx_setup
SetupRings(nomem) ==
  /\ pc = "rings"
  /\ IF nomem THEN Return("ERR_BUF") /\ made' = made \cup {"txring"}
              ELSE pc' = "irq" /\ made' = made \cup {"txring", "rxring"} /\ UNCHANGED ret
  /\ UNCHANGED <<i, emacVars>>

\* The interrupt is enabled in the NVIC and in the EMAC ...
EnableInterrupts ==
  /\ pc = "irq" /\ pc' = "rxen"
  /\ IntEnable' = TRUE /\ IntStatus' = FALSE
  /\ UNCHANGED <<i, ret, made, RxEnable, wakeup, waiting>>

\* ... and the receiver and transmitter are.
EnableReceiver ==
  /\ pc = "rxen" /\ pc' = "xtx_count_sem"
  /\ RxEnable' = TRUE
  /\ UNCHANGED <<i, ret, made, IntEnable, IntStatus, wakeup, waiting>>

\* xSemaphoreCreateCounting, sys_mutex_new, sys_sem_new, sys_thread_new.
\* sys_sem_new makes a semaphore that is given and takes it in a step of its own
\* (for tx_clean_sem nobody gives it in between).
Create(obj, nomem) ==
  /\ pc = obj
  /\ IF nomem /\ FailureOf(obj) # "ERR_OK" THEN Return(FailureOf(obj)) /\ UNCHANGED made
     ELSE /\ made' = IF nomem THEN made ELSE made \cup {obj}
          /\ pc' = IF obj = "rx_sem" /\ ~nomem THEN "take" ELSE NextObject(obj)
          /\ ret' = IF NextObject(obj) = "done" THEN "ERR_OK" ELSE ret
  /\ wakeup' = IF obj = "rx_sem" /\ ~nomem THEN 1 ELSE wakeup
  /\ UNCHANGED <<i, IntEnable, RxEnable, IntStatus, waiting>>

\* xSemaphoreTake in sys_sem_new: also takes what the handler has just given.
TakeNew ==
  /\ pc = "take" /\ pc' = NextObject("rx_sem")
  /\ wakeup' = 0
  /\ UNCHANGED <<i, ret, made, IntEnable, RxEnable, IntStatus, waiting>>

-----------------------------------------------------------------------------
\* A frame arrives.
HwReceive ==
  /\ RxEnable /\ ~IntStatus
  /\ IntStatus' = TRUE /\ waiting' = TRUE
  /\ UNCHANGED <<pc, i, ret, made, IntEnable, RxEnable, wakeup>>

\* ENET_IRQHandler: xSemaphoreGiveFromISR(rx_sem), IntClear.  A semaphore that does not
\* exist yet is at address 0: what is read there passes for a full queue, or a write to
\* the vector table ends in HardFault_Handler, which loops.
ENET_IRQHandler ==
  /\ IntEnable /\ IntStatus /\ pc # "fault"
  /\ IntStatus' = FALSE
  /\ IF "rx_sem" \in made THEN wakeup' = 1 /\ UNCHANGED pc
                          ELSE pc' \in {pc, "fault"} /\ UNCHANGED wakeup
  /\ UNCHANGED <<i, ret, made, IntEnable, RxEnable, waiting>>

\* vPacketReceiveTask wakes and empties the ring.
vPacketReceiveTask ==
  /\ "rx_task" \in made /\ wakeup = 1 /\ pc # "fault"
  /\ wakeup' = 0 /\ waiting' = FALSE
  /\ UNCHANGED <<pc, i, ret, made, IntEnable, RxEnable, IntStatus>>

-----------------------------------------------------------------------------
StartStep ==
  \/ \E fails \in PhyFails : PhyReset(fails)
  \/ \E fails \in PhyFails, ready \in BOOLEAN : PhyWait(fails, ready)
  \/ PhyDone
  \/ \E nomem \in CreateFails : SetupRings(nomem)
  \/ EnableInterrupts \/ EnableReceiver \/ TakeNew
  \/ \E obj \in DOMAIN Order, nomem \in CreateFails : Create(obj, nomem)

StartNext == StartStep \/ HwReceive \/ ENET_IRQHandler \/ vPacketReceiveTask

StartSpec == StartInit /\ [][StartNext]_startVars

\* The start gets the processor, whatever the PHY answers; an enabled interrupt is
\* taken, and the receive task has the highest priority.  No frame has to arrive.
FairStartSpec == /\ StartSpec /\ WF_startVars(StartStep)
                 /\ WF_startVars(ENET_IRQHandler) /\ WF_startVars(vPacketReceiveTask)

-----------------------------------------------------------------------------
(* Properties *)

\* When the PHY answers, memory that runs out is reported: ERR_OK means that rings,
\* locks, semaphores and tasks exist (all but xtx_count_sem, which is not checked).
ReadyWhenOk ==
  ret = "ERR_OK" /\ "phy" \in made => Objects \ {"xtx_count_sem"} \subseteq made

\* The take in sys_sem_new can swallow a wakeup and leave a frame in the ring
\* (sys_arch.c:282): after a start that reports ERR_OK the next frame wakes the task,
\* which then takes both.
NextFrameRescues == (ret = "ERR_OK" /\ IntStatus) ~> ~waiting

\* The start ends, also when the PHY never becomes ready, unless a frame in the middle
\* of it makes the handler give a semaphore that does not exist (line 653).
InitEnds == <>(pc \in {"done", "fault"})

=============================================================================
