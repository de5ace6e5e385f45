------------------------------- MODULE EmacRx -------------------------------
(***************************************************************************)
(* The receive side of the LPC17xx Ethernet driver                         *)
(* (lwip/arch/freertos_lwip_mac.c).                                        *)
(*                                                                         *)
(* The EMAC writes frames to the descriptors from RxProduceIndex on and    *)
(* stops one short of RxConsumeIndex; the task vPacketReceiveTask copies   *)
(* each frame to a pbuf of its own, gives the descriptor back and passes   *)
(* the copy to tcpip_input.  ENET_IRQHandler wakes the task.  Only this    *)
(* task calls lpc_enetif_input, so rx_lock_mutex is never contended and    *)
(* left out.                                                               *)
(*                                                                         *)
(* A length is a number of units in 1..MaxLen, MaxLen standing for         *)
(* EMAC_ETH_MAX_FLEN; a frame is its serial number.  Payloads, Ethernet    *)
(* types, the FCS and the statistics counters are left out.                *)
(***************************************************************************)
EXTENDS Integers, Sequences, FiniteSets

CONSTANTS
  EMAC_NUM_RX_FRAG,  \* descriptors in the ring (lpc17xx_emac.h:82)
  MaxLen,            \* the length of the longest frame
  MaxFrames,         \* bound: frames that arrive in a behaviour
  RxErrors,          \* can a frame arrive with an error?  subset of BOOLEAN
  AllocFails,        \* can pbuf_alloc fail?  subset of BOOLEAN
  NULL               \* the null pointer

ASSUME RxFragAssumption == EMAC_NUM_RX_FRAG \in 2..255
ASSUME LenAssumption == MaxLen \in Nat \ {0} /\ MaxFrames \in Nat
ASSUME ChoiceAssumption == /\ FALSE \in RxErrors /\ RxErrors \subseteq BOOLEAN
                           /\ FALSE \in AllocFails /\ AllocFails \subseteq BOOLEAN

VARIABLES
  RxProduceIndex, RxConsumeIndex,  \* EMAC registers
  IntStatus,                       \* EMAC register: the receive bits that are set
  hwrem,                           \* EMAC: length of the current frame still to store
  hwstuck,                         \* EMAC: stopped by an overrun, until RES_RX
  prxd,                            \* slot -> size of the buffer in the descriptor
  prxs,                            \* slot -> what the EMAC reported of the slot
  rxb,                             \* slot -> the len field of its pbuf, or NULL
  rxdescfree, rxdescnextindex,     \* the driver's own counters (u8_t)
  nbuf,                            \* receive pbufs allocated and not freed
  leaked, nocopy, norefill,        \* history: failed allocations, see RxNoMemory, RxReset
  rx_sem,                          \* binary semaphore that wakes the task
  rpc,                             \* the task: location
  p,                               \* the task: the copy to be passed on, or NULL
  ipc, ints,                       \* the interrupt handler: location, bits read
  frames,                          \* frames that have arrived, the newest's number
  delivered                        \* the newest frame that was passed to netif->input

hwVars   == <<RxProduceIndex, IntStatus, hwrem, hwstuck>>
lostVars == <<leaked, nocopy, norefill>>
descVars == <<RxConsumeIndex, prxd, prxs, rxb, rxdescfree, rxdescnextindex, nbuf, lostVars>>
taskVars == <<rpc, p>>
isrVars  == <<ipc, ints>>
vars == <<hwVars, descVars, rx_sem, taskVars, isrVars, frames, delivered>>

Slots  == 0 .. EMAC_NUM_RX_FRAG - 1
Lens   == 1 .. MaxLen
RxBits == {"EMAC_INT_RX_OVERRUN", "EMAC_INT_RX_ERR", "EMAC_INT_RX_DONE"}
Fatal  == {"EMAC_INT_RX_OVERRUN", "EMAC_INT_RX_ERR"}

\* prxs[].Info: 0xffffffff, which has every error bit set, until the EMAC writes it.
Cleared == [info |-> "clear", id |-> 0, len |-> 0]

\* What the EMAC reports of a slot it has filled.
Reports == [info : {"ok", "err"}, id : 1..MaxFrames, len : Lens]

ASSUME RxNullAssumption == NULL \notin Nat /\ NULL \notin Reports

-----------------------------------------------------------------------------
MutSkipSlot(i) == (i + 2) % EMAC_NUM_RX_FRAG   \* a slot is passed over
MutOneIsNone(pidx, cidx) ==                    \* the last frame is overlooked
  pidx \in {cidx, (cidx + 1) % EMAC_NUM_RX_FRAG}
MutQueuedTwice(free) == (free - 2) % 256       \* counted twice
MutStatusKept(st, i) == st                     \* the status is not cleared
MutPointersKept(k) ==                          \* freed pointers stay in rxb
  [i \in Slots |-> IF i < k THEN MaxLen ELSE rxb[i]]

\* Where the EMAC goes after slot i.
HwInc(i) == (i + 1) % EMAC_NUM_RX_FRAG

\* idx++; if (idx > RxDescriptorNumber) idx = 0;
WrapInc(i) == IF i + 1 > EMAC_NUM_RX_FRAG - 1 THEN 0 ELSE i + 1

IsRxEmpty(pidx, cidx) == pidx = cidx

\* The slots with a pbuf, which the recovery finds and frees.
Buffered == {i \in Slots : rxb[i] # NULL}

\* The interrupt bits of the receive group, which wake the task.
RxWakes(bits) == bits \cap RxBits # {}

\* rxdescfree, a u8_t, after a descriptor was queued.
RxDescQueued(free) == (free - 1) % 256

\* prxs after the status of slot i was set to 0xffffffff.
StatusCleared(st, i) == [st EXCEPT ![i] = Cleared]

\* The len of the k-th pbuf lpc_rx_queue allocates: the longest frame fits.
RxBufLen(k) == MaxLen

\* rxb after all was freed and k pbufs were queued again.
RxbAfterReset(k) == [i \in Slots |-> IF i < k THEN RxBufLen(i) ELSE NULL]

\* Queue the pbuf q (its len, or NULL) in the slot rxdescnextindex.  The size in
\* Ctrl is q->len; through a null pointer it is whatever lies at that address.
lpc_rxqueue_pbuf(q, rxb0, free) ==
  LET idx == rxdescnextindex IN
  /\ rxb' = [rxb0 EXCEPT ![idx] = q]
  /\ \E size \in (IF q = NULL THEN Lens ELSE {q}) : prxd' = [prxd EXCEPT ![idx] = size]
  /\ prxs' = StatusCleared(prxs, idx)
  /\ rxdescfree' = RxDescQueued(free)
  /\ rxdescnextindex' = WrapInc(idx)
  /\ RxConsumeIndex' = WrapInc(idx)

-----------------------------------------------------------------------------
(* After low_level_init, the creation of rx_sem and of the task *)
Init ==
  /\ RxProduceIndex = 0 /\ RxConsumeIndex = 0 /\ IntStatus = {}
  /\ hwrem = 0 /\ hwstuck = FALSE
  /\ prxd = [i \in Slots |-> RxBufLen(i)]
  /\ prxs = [i \in Slots |-> Cleared]
  /\ rxb = [i \in Slots |-> RxBufLen(i)]
  /\ rxdescfree = 0 /\ rxdescnextindex = 0 /\ nbuf = EMAC_NUM_RX_FRAG
  /\ leaked = 0 /\ nocopy = 0 /\ norefill = 0
  /\ rx_sem = 0
  /\ rpc = "wait" /\ p = NULL
  /\ ipc = "off" /\ ints = {}
  /\ frames = 0 /\ delivered = 0

-----------------------------------------------------------------------------
(* The EMAC *)

RxFull == HwInc(RxProduceIndex) = RxConsumeIndex

\* A descriptor is filled with a frame, or with a part of one when the size in
\* the descriptor is too small.  len is what is left of the frame.
HwStore(id, len, err) ==
  LET i == RxProduceIndex
      n == IF len > prxd[i] THEN prxd[i] ELSE len IN
  /\ ~hwstuck /\ ~RxFull
  /\ prxs' = [prxs EXCEPT ![i] = [info |-> IF err THEN "err" ELSE "ok", id |-> id,
                                  len |-> n]]
  /\ hwrem' = len - n
  /\ RxProduceIndex' = HwInc(i)
  /\ IntStatus' = IntStatus \cup {"EMAC_INT_RX_DONE"}
                    \cup (IF err THEN {"EMAC_INT_RX_ERR"} ELSE {})
  /\ UNCHANGED <<hwstuck, RxConsumeIndex, prxd, rxb, rxdescfree, rxdescnextindex, nbuf,
                 lostVars, rx_sem, taskVars, isrVars, delivered>>

\* A frame arrives.
HwReceive(len, err) ==
  /\ hwrem = 0 /\ frames < MaxFrames
  /\ frames' = frames + 1
  /\ HwStore(frames + 1, len, err)

\* The rest of a frame goes to the next descriptor.
HwContinue == hwrem > 0 /\ HwStore(frames, hwrem, FALSE) /\ UNCHANGED frames

\* A frame, or the rest of one, that does not get in.
HwLose == /\ ~hwstuck
          /\ \/ hwrem > 0 /\ UNCHANGED frames
             \/ hwrem = 0 /\ frames < MaxFrames /\ frames' = frames + 1
          /\ hwrem' = 0
          /\ UNCHANGED <<RxProduceIndex, descVars, rx_sem, taskVars, isrVars, delivered>>

\* No descriptor is left: the frame is lost, the receiver goes on.
HwNoDescriptor ==
  /\ RxFull /\ HwLose
  /\ IntStatus' = IntStatus \cup {"EMAC_INT_RX_ERR"}
  /\ UNCHANGED hwstuck

\* The bus is held up: the receiver overruns and stops until it is reset.
HwOverrun ==
  /\ HwLose
  /\ IntStatus' = IntStatus \cup {"EMAC_INT_RX_OVERRUN"}
  /\ hwstuck' = TRUE

-----------------------------------------------------------------------------
(* The interrupt handler.  The hardware runs on between its two steps. *)

\* ints = IntStatus; give rx_sem, a binary semaphore
IsrEnter ==
  /\ ipc = "off" /\ IntStatus # {}
  /\ ipc' = "clear" /\ ints' = IntStatus
  /\ rx_sem' = IF RxWakes(IntStatus) THEN 1 ELSE rx_sem
  /\ UNCHANGED <<hwVars, descVars, taskVars, frames, delivered>>

\* IntClear = ints; return
IsrExit ==
  /\ ipc = "clear"
  /\ ipc' = "off" /\ ints' = {}
  /\ IntStatus' = IntStatus \ ints
  /\ UNCHANGED <<RxProduceIndex, hwrem, hwstuck, descVars, rx_sem, taskVars, frames,
                 delivered>>

-----------------------------------------------------------------------------
(* The task.  It runs only while the interrupt handler does not. *)

\* sys_arch_sem_wait(&rx_sem, 0)
RxSemWait ==
  /\ ipc = "off" /\ rpc = "wait"
  /\ rx_sem = 1
  /\ rx_sem' = 0 /\ rpc' = "loop"
  /\ UNCHANGED <<hwVars, descVars, p, isrVars, frames, delivered>>

\* while (!IsRxEmpty())
RxLoop ==
  /\ ipc = "off" /\ rpc = "loop"
  /\ rpc' = IF IsRxEmpty(RxProduceIndex, RxConsumeIndex) THEN "wait" ELSE "check"
  /\ UNCHANGED <<hwVars, descVars, rx_sem, p, isrVars, frames, delivered>>

\* The second IsRxEmpty test, in lpc_low_level_input, has the same outcome: only
\* this task empties the ring.

\* lpc_low_level_input: if (IntStatus & (RX_OVERRUN | RX_ERR))
RxCheck ==
  /\ ipc = "off" /\ rpc = "check"
  /\ rpc' = IF IntStatus \cap Fatal # {} THEN "reset" ELSE "frame"
  /\ UNCHANGED <<hwVars, descVars, rx_sem, p, isrVars, frames, delivered>>

\* The recovery: stop, RES_RX, free all of rxb, lpc_rx_setup, start.  k is the
\* number of pbufs lpc_rx_queue gets; that it is too small goes unnoticed, norefill
\* counts what is missing.  What RES_RX does to RxProduceIndex is the hardware's:
\* both outcomes.
RxReset(k) ==
  /\ ipc = "off" /\ rpc = "reset"
  /\ IntStatus' = IntStatus \ Fatal
  /\ rxb' = RxbAfterReset(k)
  /\ prxd' = [i \in Slots |-> IF i < k THEN RxBufLen(i) ELSE prxd[i]]
  /\ prxs' = [i \in Slots |-> IF i < k THEN Cleared ELSE prxs[i]]
  /\ rxdescfree' = EMAC_NUM_RX_FRAG - k
  /\ rxdescnextindex' = k % EMAC_NUM_RX_FRAG
  /\ RxConsumeIndex' = IF k = 0 THEN RxConsumeIndex ELSE k % EMAC_NUM_RX_FRAG
  /\ nbuf' = nbuf - Cardinality(Buffered) + k
  /\ norefill' = EMAC_NUM_RX_FRAG - k /\ nocopy' = 0
  /\ RxProduceIndex' \in {0, RxProduceIndex}
  /\ hwstuck' = FALSE /\ hwrem' = 0
  /\ rpc' = "loop"
  /\ UNCHANGED <<leaked, rx_sem, p, isrVars, frames, delivered>>

\* The frame in the slot RxConsumeIndex has an error bit: drop and requeue.
RxDropError ==
  /\ ipc = "off" /\ rpc = "frame"
  /\ ~IsRxEmpty(RxProduceIndex, RxConsumeIndex)
  /\ prxs[RxConsumeIndex].info # "ok"
  /\ lpc_rxqueue_pbuf(rxb[RxConsumeIndex], [rxb EXCEPT ![RxConsumeIndex] = NULL],
                      (rxdescfree + 1) % 256)
  /\ rpc' = "loop"
  /\ UNCHANGED <<hwVars, nbuf, lostVars, rx_sem, p, isrVars, frames, delivered>>

\* The frame is good, a pbuf for the copy is there: copy, give the slot back.
RxCopy ==
  LET idx == RxConsumeIndex IN
  /\ ipc = "off" /\ rpc = "frame"
  /\ ~IsRxEmpty(RxProduceIndex, RxConsumeIndex)
  /\ prxs[idx].info = "ok" /\ rxb[idx] # NULL
  /\ rxb' = [rxb EXCEPT ![idx] = prxs[idx].len]
  /\ p' = prxs[idx]
  /\ prxs' = StatusCleared(prxs, idx)
  /\ rxdescnextindex' = WrapInc(idx)
  /\ RxConsumeIndex' = WrapInc(idx)
  /\ rpc' = "input"
  /\ UNCHANGED <<hwVars, prxd, rxdescfree, nbuf, lostVars, rx_sem, isrVars, frames,
                 delivered>>

\* The frame is good, pbuf_alloc fails: pbuf_copy(NULL, ...) is ERR_ARG and the
\* null pointer is queued in place of the pbuf of the slot, which stays allocated
\* and is forgotten: leaked counts these, nocopy those since the last recovery.
RxNoMemory ==
  /\ ipc = "off" /\ rpc = "frame"
  /\ ~IsRxEmpty(RxProduceIndex, RxConsumeIndex)
  /\ prxs[RxConsumeIndex].info = "ok" /\ rxb[RxConsumeIndex] # NULL
  /\ lpc_rxqueue_pbuf(NULL, [rxb EXCEPT ![RxConsumeIndex] = prxs[RxConsumeIndex].len],
                      rxdescfree)
  /\ leaked' = leaked + 1 /\ nocopy' = nocopy + 1
  /\ rpc' = "loop"
  /\ UNCHANGED <<hwVars, nbuf, norefill, rx_sem, p, isrVars, frames, delivered>>

\* The frame is good but the slot has no pbuf: rxb[idx]->len is written through a
\* null pointer, to the vector table in flash.  The task ends in a fault.
RxFault ==
  /\ ipc = "off" /\ rpc = "frame"
  /\ ~IsRxEmpty(RxProduceIndex, RxConsumeIndex)
  /\ prxs[RxConsumeIndex].info = "ok" /\ rxb[RxConsumeIndex] = NULL
  /\ rpc' = "fault"
  /\ UNCHANGED <<hwVars, descVars, rx_sem, p, isrVars, frames, delivered>>

\* lpc_enetif_input: netif->input takes the copy (ok), or refuses it or its type
\* is unknown, and the task frees it.
RxInput(ok) ==
  /\ ipc = "off" /\ rpc = "input"
  /\ delivered' = IF ok THEN p.id ELSE delivered
  /\ p' = NULL
  /\ rpc' = "loop"
  /\ UNCHANGED <<hwVars, descVars, rx_sem, isrVars, frames>>

-----------------------------------------------------------------------------
RxFrame == RxDropError \/ RxCopy \/ (TRUE \in AllocFails /\ RxNoMemory) \/ RxFault

\* How many pbufs lpc_rx_queue can get.
Queued == IF TRUE \in AllocFails THEN 0..EMAC_NUM_RX_FRAG ELSE {EMAC_NUM_RX_FRAG}

TaskStep == \/ RxSemWait \/ RxLoop \/ RxCheck \/ RxFrame
            \/ \E k \in Queued : RxReset(k)
            \/ \E ok \in BOOLEAN : RxInput(ok)

HwStep == \/ \E len \in Lens, err \in RxErrors : HwReceive(len, err)
          \/ HwContinue \/ HwNoDescriptor \/ HwOverrun

Next == TaskStep \/ HwStep \/ IsrEnter \/ IsrExit

Spec == Init /\ [][Next]_vars

\* The task is the one of highest priority and gets the processor again whenever
\* the interrupt handler returns; the handler runs when an interrupt is pending.
\* No frame ever has to arrive.
FairSpec == Spec /\ SF_vars(TaskStep) /\ WF_vars(IsrEnter) /\ WF_vars(IsrExit)

-----------------------------------------------------------------------------
(* Properties *)

\* The slots between RxConsumeIndex and RxProduceIndex, in order.
Filled == (RxProduceIndex - RxConsumeIndex) % EMAC_NUM_RX_FRAG
SlotAt(j) == (RxConsumeIndex + j) % EMAC_NUM_RX_FRAG

\* How many of them are empty at the beginning, after a reset that has kept
\* RxProduceIndex.
Skipped == CHOOSE m \in 0..Filled :
             /\ \A j \in 0..m - 1 : prxs[SlotAt(j)].info = "clear"
             /\ m < Filled => prxs[SlotAt(m)].info # "clear"

\* What the EMAC stored and the task has not taken, in order.
Pending == [j \in 1..Filled - Skipped |-> prxs[SlotAt(Skipped + j - 1)]]

\* A failed allocation costs exactly one buffer, and nothing else does, through frames,
\* errors and recoveries: what is allocated is in a slot or was put out of one by a
\* null pointer (line 289), a slot is empty for that reason or because the recovery got
\* no pbuf for it (line 216), and rxdescfree, which the null pointer makes smaller,
\* tells the two apart.
BuffersAccounted ==
  /\ nbuf = Cardinality(Buffered) + leaked
  /\ Cardinality(Slots \ Buffered) = nocopy + norefill
  /\ rxdescfree = (norefill - nocopy) % 256

\* The slot the task reads (RxConsumeIndex) is the slot it requeues
\* (rxdescnextindex), and a slot the EMAC may fill reports nothing old.
SlotsAgree ==
  /\ rxdescnextindex = RxConsumeIndex
  /\ \A i \in Slots : prxs[i].info # "clear" =>
       (i - RxConsumeIndex) % EMAC_NUM_RX_FRAG
         < (RxProduceIndex - RxConsumeIndex) % EMAC_NUM_RX_FRAG

\* The queue the ring and the copy in the task's hands stand for.
Fifo == INSTANCE LossyFifo WITH
          q <- (IF p = NULL THEN <<>> ELSE <<p.id>>)
                 \o [j \in DOMAIN Pending |-> Pending[j].id],
          sent <- frames, out <- delivered

\* Frames reach the stack in the order of their arrival, none again after a later
\* one, through errors, overruns and resets of the ring: EmacRx implements
\* LossyFifo.  (A frame comes in pieces when lpc_rxqueue_pbuf has shrunk its slot.)
FifoSpec == Fifo!Spec

\* Also when memory runs out, the recovery frees only what is allocated (line 210):
\* the driver never has more pbufs in rxb than it has allocated.
RecoveryFreesOwned == Cardinality(Buffered) <= nbuf

\* Also when memory runs out, an old frame is never passed to the stack again.
NeverBackwards == [][delivered' >= delivered]_vars

\* Every frame the EMAC stored is taken from the ring, whatever the order of
\* interrupts, their acknowledgement and the task's last look at the ring, unless
\* the task ends in a fault.
FrameTaken ==
  \A f \in 1..MaxFrames :
    (\E j \in DOMAIN Pending : Pending[j].id = f)
      ~> (rpc = "fault" \/ ~\E j \in DOMAIN Pending : Pending[j].id = f)

=============================================================================
