------------------------------- MODULE EmacTx -------------------------------
(***************************************************************************)
(* The transmit side of the LPC17xx Ethernet driver                        *)
(* (lwip/arch/freertos_lwip_mac.c).                                        *)
(*                                                                         *)
(* A ring of EMAC_NUM_TX_FRAG descriptors is shared by four actors:        *)
(*   - the sender: the thread that holds the lwIP core lock and runs       *)
(*     lpc_low_level_output (one at a time, whoever it is);                *)
(*   - the cleaner: the task vTransmitCleanupTask;                         *)
(*   - the interrupt handler ENET_IRQHandler, which stops both tasks while *)
(*     it runs but not the hardware;                                       *)
(*   - the EMAC itself, which transmits descriptors and raises interrupts. *)
(* The hardware sends the descriptors from TxConsumeIndex up to, and not   *)
(* including, TxProduceIndex.                                              *)
(*                                                                         *)
(* An element of Pbufs is one reference to a packet: the one a call of     *)
(* lpc_low_level_output takes with pbuf_ref, or the only one of the bounce *)
(* buffer it allocates.  A pbuf the stack sends twice is two elements.     *)
(* Payloads, lengths and the statistics counters are left out.             *)
(***************************************************************************)
EXTENDS TxRing, FiniteSets

CONSTANTS
  Pbufs,             \* the driver's references to packets, see drvref
  Clens,             \* the lengths of the pbuf chains the stack sends
  TxErrors,          \* can a transmission end with an error?  subset of BOOLEAN
  NULL               \* the null pointer

ASSUME ClenAssumption == Clens \subseteq 1..255
ASSUME ErrorAssumption == FALSE \in TxErrors /\ TxErrors \subseteq BOOLEAN
ASSUME NullAssumption == NULL \notin Pbufs

VARIABLES
  TxProduceIndex, TxConsumeIndex,  \* EMAC registers
  IntStatus,                       \* EMAC register: the transmit bits that are set
  ptxd,                            \* descriptors: the pbuf a slot points to, LAST flag
  txb,                             \* slot -> pbuf to free when the slot is done
  lasttxidx,                       \* first slot that is not reclaimed
  xtx_count_sem,                   \* counting semaphore, created full
  tx_clean_sem,                    \* binary semaphore that wakes the cleaner
  tx_lock_mutex,                   \* holder of the transmit mutex
  spc, sp, dn, idx, notdmasafe,    \* the sender: location and local variables
  cpc,                             \* the cleaner: location
  ipc, ints,                       \* the interrupt handler: location, bits read
  drvref,                          \* references the driver took and did not free
  overrun,                         \* history: TxProduceIndex caught up with lasttxidx
  txreset                          \* history: the error path reset the ring

hwVars  == <<TxProduceIndex, TxConsumeIndex, IntStatus>>
ringVars == <<ptxd, txb, lasttxidx>>
semVars == <<xtx_count_sem, tx_clean_sem, tx_lock_mutex>>
sndVars == <<spc, sp, dn, idx, notdmasafe>>
isrVars == <<ipc, ints>>
histVars == <<overrun, txreset>>
vars == <<hwVars, ringVars, semVars, sndVars, cpc, isrVars, drvref, histVars>>

Slots   == 0 .. EMAC_NUM_TX_FRAG - 1
TxBits  == {"EMAC_INT_TX_ERR", "EMAC_INT_TX_DONE"}  \* UNDERRUN is handled as TX_ERR
Descs   == [pkt : Pbufs \cup {NULL}, last : BOOLEAN]

-----------------------------------------------------------------------------
(* Operators of the ring *)

\* Slot i is in the circular interval from a up to, not including, b.
InRing(i, a, b) == IF a <= b THEN a <= i /\ i < b ELSE a <= i \/ i < b

MutTxbKept(tb, i) == tb                       \* the freed pointer stays in txb
MutEveryFragment(p, n) == p                   \* every fragment's slot is freed
MutReclaimQueued(cidx, pidx) == pidx          \* reclaims what is only queued
MutFirstFragment(p, n) == IF n = 1 THEN p ELSE NULL  \* one fragment too early
MutWakesOnError(bits) == "EMAC_INT_TX_ERR" \in bits \* TX_DONE does not wake

\* txb after pbuf_free of slot i.
TxbFreed(tb, i) == [tb EXCEPT ![i] = NULL]

\* What txb records for a fragment after which n more follow.
TxbEntry(p, n) == IF n = 0 THEN p ELSE NULL

\* The index up to which lpc_tx_reclaim frees.
ReclaimLimit(cidx, pidx) == cidx

\* The interrupt bits of the transmit group, which wake the cleaner.
TxWakes(bits) == bits \cap TxBits # {}

\* pbuf_ref, left out for a bounce buffer.
RefTaken(refs, p, bounced) == IF bounced THEN refs ELSE refs \cup {p}

-----------------------------------------------------------------------------
(* Initial state: after lpc_tx_setup and the creation of the semaphores *)

Init ==
  /\ TxProduceIndex = 0 /\ TxConsumeIndex = 0 /\ IntStatus = {}
  /\ ptxd = [i \in Slots |-> [pkt |-> NULL, last |-> FALSE]]
  /\ txb = [i \in Slots |-> NULL]
  /\ lasttxidx = 0
  /\ xtx_count_sem = EMAC_NUM_TX_FRAG /\ tx_clean_sem = 0
  /\ tx_lock_mutex = "none"
  /\ spc = "idle" /\ sp = NULL /\ dn = 0 /\ idx = 0 /\ notdmasafe = FALSE
  /\ cpc = "wait"
  /\ ipc = "off" /\ ints = {}
  /\ drvref = {}
  /\ overrun = FALSE /\ txreset = FALSE

-----------------------------------------------------------------------------
(* The sender.  Tasks run only while the interrupt handler does not. *)

\* A call with a packet of n fragments.  When one of them is not DMA safe the
\* driver copies all of them to a pbuf of its own and sends that one fragment.
\* (When that allocation fails the call returns ERR_MEM and changes nothing.)
lpc_low_level_output(p, n, bounce) ==
  /\ ipc = "off" /\ spc = "idle"
  /\ p \notin drvref
  /\ spc' = "ready" /\ sp' = p /\ notdmasafe' = bounce
  /\ dn' = IF bounce THEN 1 ELSE n
  /\ drvref' = IF bounce THEN drvref \cup {p} ELSE drvref
  /\ UNCHANGED <<hwVars, ringVars, semVars, idx, cpc, isrVars, histVars>>

\* while (dn > lpc_tx_ready()) ...; idx = TxProduceIndex
SenderPoll ==
  /\ ipc = "off" /\ spc = "ready"
  /\ IF dn > lpc_tx_ready(TxConsumeIndex, TxProduceIndex)
       THEN spc' = "semwait" /\ UNCHANGED idx
       ELSE spc' = "lock" /\ idx' = TxProduceIndex
  /\ UNCHANGED <<hwVars, ringVars, semVars, sp, dn, notdmasafe, cpc, isrVars,
                 drvref, histVars>>

\* sys_arch_sem_wait(&xtx_count_sem, 0): blocks while the count is 0
SenderSemWait ==
  /\ ipc = "off" /\ spc = "semwait"
  /\ xtx_count_sem > 0
  /\ xtx_count_sem' = xtx_count_sem - 1
  /\ spc' = "ready"
  /\ UNCHANGED <<hwVars, ringVars, tx_clean_sem, tx_lock_mutex, sp, dn, idx,
                 notdmasafe, cpc, isrVars, drvref, histVars>>

\* sys_mutex_lock; if (!notdmasafe) pbuf_ref(p)
SenderLock ==
  /\ ipc = "off" /\ spc = "lock"
  /\ tx_lock_mutex = "none"
  /\ tx_lock_mutex' = "sender"
  /\ drvref' = RefTaken(drvref, sp, notdmasafe)
  /\ spc' = "setup"
  /\ UNCHANGED <<hwVars, ringVars, xtx_count_sem, tx_clean_sem, sp, dn, idx,
                 notdmasafe, cpc, isrVars, histVars>>

\* One turn of while (dn > 0): the descriptor belongs to the hardware as soon
\* as TxProduceIndex has passed it.
SenderSetup ==
  /\ ipc = "off" /\ spc = "setup"
  /\ dn > 0
  /\ dn' = dn - 1
  /\ ptxd' = [ptxd EXCEPT ![idx] = [pkt |-> sp, last |-> dn - 1 = 0]]
  /\ txb' = [txb EXCEPT ![idx] = TxbEntry(sp, dn - 1)]
  /\ idx' = WrapInc(idx)
  /\ TxProduceIndex' = WrapInc(idx)
  /\ overrun' = (overrun \/ WrapInc(idx) = lasttxidx)
  /\ UNCHANGED <<TxConsumeIndex, IntStatus, lasttxidx, semVars, spc, sp,
                 notdmasafe, cpc, isrVars, drvref, txreset>>

\* sys_mutex_unlock; return ERR_OK (the locals are gone)
SenderUnlock ==
  /\ ipc = "off" /\ spc = "setup"
  /\ dn = 0
  /\ tx_lock_mutex' = "none"
  /\ spc' = "idle" /\ sp' = NULL /\ idx' = 0 /\ notdmasafe' = FALSE
  /\ UNCHANGED <<hwVars, ringVars, xtx_count_sem, tx_clean_sem, dn, cpc,
                 isrVars, drvref, histVars>>

-----------------------------------------------------------------------------
(* The EMAC *)

\* One descriptor is sent, with or without an error.  Every descriptor carries
\* EMAC_TCTRL_INT, so each raises TX_DONE.
HwTransmit(err) ==
  /\ TxConsumeIndex # TxProduceIndex
  /\ TxConsumeIndex' = WrapInc(TxConsumeIndex)
  /\ IntStatus' = IntStatus \cup {"EMAC_INT_TX_DONE"}
                    \cup (IF err THEN {"EMAC_INT_TX_ERR"} ELSE {})
  /\ UNCHANGED <<TxProduceIndex, ringVars, semVars, sndVars, cpc, isrVars,
                 drvref, histVars>>

-----------------------------------------------------------------------------
(* The interrupt handler.  The hardware runs on between its two steps. *)

\* ints = IntStatus; give tx_clean_sem, a binary semaphore
IsrEnter ==
  /\ ipc = "off" /\ IntStatus # {}
  /\ ipc' = "clear" /\ ints' = IntStatus
  /\ tx_clean_sem' = IF TxWakes(IntStatus) THEN 1 ELSE tx_clean_sem
  /\ UNCHANGED <<hwVars, ringVars, xtx_count_sem, tx_lock_mutex, sndVars, cpc,
                 drvref, histVars>>

\* IntClear = ints; return
IsrExit ==
  /\ ipc = "clear"
  /\ ipc' = "off" /\ ints' = {}
  /\ IntStatus' = IntStatus \ ints
  /\ UNCHANGED <<TxProduceIndex, TxConsumeIndex, ringVars, semVars, sndVars,
                 cpc, drvref, histVars>>

-----------------------------------------------------------------------------
(* The cleaner *)

\* sys_arch_sem_wait(&tx_clean_sem, 0)
CleanerSemWait ==
  /\ ipc = "off" /\ cpc = "wait"
  /\ tx_clean_sem = 1
  /\ tx_clean_sem' = 0
  /\ cpc' = "check"
  /\ UNCHANGED <<hwVars, ringVars, xtx_count_sem, tx_lock_mutex, sndVars,
                 isrVars, drvref, histVars>>

\* if (IntStatus & (TX_UNDERRUN | TX_ERR))
CleanerCheck ==
  /\ ipc = "off" /\ cpc = "check"
  /\ cpc' = IF "EMAC_INT_TX_ERR" \in IntStatus THEN "reset" ELSE "lock"
  /\ UNCHANGED <<hwVars, ringVars, semVars, sndVars, isrVars, drvref, histVars>>

\* The error path, under the mutex: RES_TX, free all of txb, lpc_tx_setup.
\* What RES_TX does to the two indices is the hardware's: both outcomes.
CleanerReset ==
  /\ ipc = "off" /\ cpc = "reset"
  /\ tx_lock_mutex = "none"
  /\ drvref' = drvref \ {txb[i] : i \in Slots}
  /\ txb' = [i \in Slots |-> NULL]
  /\ ptxd' = [i \in Slots |-> [ptxd[i] EXCEPT !.last = FALSE]]
  /\ lasttxidx' = 0
  /\ \/ UNCHANGED <<TxProduceIndex, TxConsumeIndex>>
     \/ TxProduceIndex' = 0 /\ TxConsumeIndex' = 0
  /\ txreset' = TRUE
  /\ cpc' = "wait"
  /\ UNCHANGED <<IntStatus, semVars, sndVars, isrVars, overrun>>

\* lpc_tx_reclaim: sys_mutex_lock
CleanerLock ==
  /\ ipc = "off" /\ cpc = "lock"
  /\ tx_lock_mutex = "none"
  /\ tx_lock_mutex' = "cleaner"
  /\ cpc' = "reclaim"
  /\ UNCHANGED <<hwVars, ringVars, xtx_count_sem, tx_clean_sem, sndVars,
                 isrVars, drvref, histVars>>

\* One turn of while (TxConsumeIndex != lasttxidx)
lpc_tx_reclaim ==
  /\ ipc = "off" /\ cpc = "reclaim"
  /\ ReclaimLimit(TxConsumeIndex, TxProduceIndex) # lasttxidx
  /\ drvref' = drvref \ {txb[lasttxidx]}
  /\ txb' = TxbFreed(txb, lasttxidx)
  /\ xtx_count_sem' = xtx_count_signal(xtx_count_sem)
  /\ lasttxidx' = WrapInc(lasttxidx)
  /\ UNCHANGED <<hwVars, ptxd, tx_clean_sem, tx_lock_mutex, sndVars, cpc,
                 isrVars, histVars>>

\* The loop ends: sys_mutex_unlock
CleanerUnlock ==
  /\ ipc = "off" /\ cpc = "reclaim"
  /\ ReclaimLimit(TxConsumeIndex, TxProduceIndex) = lasttxidx
  /\ tx_lock_mutex' = "none"
  /\ cpc' = "wait"
  /\ UNCHANGED <<hwVars, ringVars, xtx_count_sem, tx_clean_sem, sndVars,
                 isrVars, drvref, histVars>>

-----------------------------------------------------------------------------
SenderStep == SenderPoll \/ SenderSemWait \/ SenderLock \/ SenderSetup \/ SenderUnlock
CleanerStep == \/ CleanerSemWait \/ CleanerCheck \/ CleanerReset
               \/ CleanerLock \/ lpc_tx_reclaim \/ CleanerUnlock

Next ==
  \/ \E p \in Pbufs, n \in Clens, bounce \in BOOLEAN :
        lpc_low_level_output(p, n, bounce)
  \/ SenderStep
  \/ CleanerStep
  \/ IsrEnter \/ IsrExit
  \/ \E err \in TxErrors : HwTransmit(err)

Spec == Init /\ [][Next]_vars

\* The two tasks get the processor again whenever the interrupt handler has
\* returned, and FreeRTOS hands a mutex or a semaphore to a task that waits for
\* it: strong fairness.  The EMAC sends what is queued and the handler runs when
\* an interrupt is pending: weak fairness.  The stack may never call again.
FairSpec ==
  /\ Spec
  /\ SF_vars(SenderStep) /\ SF_vars(CleanerStep)
  /\ WF_vars(IsrEnter) /\ WF_vars(IsrExit)
  /\ WF_vars(\E err \in TxErrors : HwTransmit(err))

-----------------------------------------------------------------------------
(* Properties *)

\* Every variable has the type its declaration in the code gives it.
TypeOK ==
  /\ TxProduceIndex \in Slots /\ TxConsumeIndex \in Slots
  /\ IntStatus \subseteq TxBits
  /\ ptxd \in [Slots -> Descs]
  /\ txb \in [Slots -> Pbufs \cup {NULL}]
  /\ lasttxidx \in Slots
  /\ xtx_count_sem \in 0..EMAC_NUM_TX_FRAG /\ tx_clean_sem \in 0..1
  /\ tx_lock_mutex \in {"none", "sender", "cleaner"}
  /\ spc \in {"idle", "ready", "semwait", "lock", "setup"}
  /\ sp \in Pbufs \cup {NULL} /\ dn \in 0..255 /\ idx \in Slots
  /\ notdmasafe \in BOOLEAN
  /\ cpc \in {"wait", "check", "reset", "lock", "reclaim"}
  /\ ipc \in {"off", "clear"} /\ ints \subseteq TxBits
  /\ drvref \subseteq Pbufs
  /\ overrun \in BOOLEAN /\ txreset \in BOOLEAN

\* The sender holds the driver's reference to sp and has not put it in txb yet.
SenderHolds == \/ spc \in {"ready", "semwait", "lock"} /\ notdmasafe
               \/ spc = "setup" /\ dn > 0

\* No pbuf is freed twice (lpc_tx_reclaim:825, vTransmitCleanupTask:550): each
\* pointer that txb holds is a reference the driver still owns, no two slots
\* hold the same one, and none is the one the sender is about to store.  This
\* holds in every state, also after an overrun and after the error path.
NoDoubleFree ==
  /\ \A i \in Slots : txb[i] # NULL => txb[i] \in drvref
  /\ \A i, j \in Slots : txb[i] # NULL /\ txb[i] = txb[j] => i = j
  /\ SenderHolds => sp \in drvref /\ \A i \in Slots : txb[i] # sp

\* The ring is intact: it was never filled up and never reset.
Intact == ~overrun /\ ~txreset

\* While the ring is intact the three indices delimit it: the hardware is
\* between lasttxidx and TxProduceIndex, slots outside hold nothing to free, and
\* a slot inside frees its packet exactly when it is the packet's last.
RingAccounting ==
  Intact =>
    /\ TxConsumeIndex = TxProduceIndex
         \/ InRing(TxConsumeIndex, lasttxidx, TxProduceIndex)
    /\ \A i \in Slots :
         txb[i] = IF InRing(i, lasttxidx, TxProduceIndex) /\ ptxd[i].last
                    THEN ptxd[i].pkt ELSE NULL

\* While the ring is intact, a packet that is queued and not sent is still
\* referenced by the driver (lpc_low_level_output:436): the memory the EMAC
\* reads is not given back before it is read.
InFlightLive ==
  Intact => \A i \in Slots : InRing(i, TxConsumeIndex, TxProduceIndex)
                               => ptxd[i].pkt \in drvref

\* While the ring is intact nothing leaks: a reference the driver owns is in txb
\* or in the hands of the sender.
NoLeak ==
  Intact => \A p \in drvref : \/ \E i \in Slots : txb[i] = p
                              \/ SenderHolds /\ sp = p

\* A call that waits for descriptors gets them, unless the ring was overrun or
\* reset: completion, interrupt, cleanup and xtx_count_sem never lose the wakeup.
SenderNotStuck == spc \in {"ready", "semwait"} ~> (spc = "lock" \/ ~Intact)

\* Every reference the driver takes is freed, unless the ring was overrun or
\* reset: no completion is missed however interrupts and cleanup interleave.
EventuallyFreed == \A p \in Pbufs : p \in drvref ~> (p \notin drvref \/ ~Intact)

=============================================================================
