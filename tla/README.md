# Verification of the LPC1768 network firmware

This directory holds TLA+ models of the firmware in this repository, the TLC
configurations that check them and TLAPS proofs of what matters most. The
firmware connects a serial device to a network: it runs FreeRTOS and lwIP on an
NXP LPC1768, forwards frames from UART0 as UDP packets, answers a search tool,
stores its network configuration in flash and watches the Ethernet link.

## The system

| Component | Code | State it keeps | Operations | Model |
|---|---|---|---|---|
| EMAC driver, transmit | `lwip/arch/freertos_lwip_mac.c` | descriptor ring, `txb`, `lasttxidx`, `xtx_count_sem`, `tx_clean_sem`, `tx_lock_mutex` | `lpc_low_level_output`, `vTransmitCleanupTask`, `lpc_tx_reclaim`, `ENET_IRQHandler` | `EmacTx`, `TxRing` |
| EMAC driver, receive | same | descriptor ring, status words, `rxb`, `rxdescfree`, `rxdescnextindex`, `rx_sem` | `vPacketReceiveTask`, `lpc_low_level_input`, `lpc_rxqueue_pbuf`, `lpc_rx_setup`, `ENET_IRQHandler` | `EmacRx`, `LossyFifo` |
| EMAC driver, start | same, `lwip/arch/phy_smsc87x0.c` | what has been created and enabled so far | `lpc_enetif_init`, `low_level_init`, `lpc_phy_init` | `EnetInit` |
| PHY link monitor | `phy_smsc87x0.c`, `app/src/net.c`, `lwip/api/tcpip.c` | `physts`, `olddphysts`, `phyustate`, mailbox, link flag, EMAC mode | `lpcPHYStsPoll`, loop of `vEthernetDaemon`, callbacks | `PhyLink` |
| Serial to UDP bridge | `app/src/uart.c`, `net.c` | `prev`, `frame_flag`, `gs_data`, `net_gs_data.buffer`, `xSemaphore`, interrupt enable bit | `UART0_IRQHandler`, `uart_receive_int`, `vUDPClient` | `GsUart` |
| Device configuration | `net.c`, `app/src/flash.c` | `local_net`, flash sector, message buffer | `vDeviceInfo`, `set_dev_net`, `vDeviceInfoSave`, `vDeviceInfoInit` | `DeviceConfig` |
| Watchdog, start of the program | `app/src/main.c`, `wdt.c`, `freertos/event_groups.c` | event bit, WDT timer, what has been created | `main`, `vWDTInit`, `vWDTFeed` | `Watchdog` |
| tcpip thread and core lock | `lwip/api/tcpip.c`, `lwip/arch/sys_arch.c` | `tcpip_mbox`, `lock_tcpip_core` | `tcpip_thread`, `tcpip_inpkt`, `tcpip_callback` | `Tcpip`, `Timeouts`, `PhyLink` |
| UDP sockets, echo server | `lwip/api/sockets.c`, `api_msg.c`, `api_lib.c`, `net.c` | mailbox of the socket | `recv_udp`, `recvfrom`, `sendto`, `vUDPServer` | `Tcpip`, by what they lock and wait for |
| lwIP timers | `lwip/core/timeouts.c` | `next_timeout`, `current_timeout_due_time` | `sys_timeout`, `sys_untimeout`, `sys_check_timeouts`, `lwip_cyclic_timer` | `Timeouts` |
| FreeRTOS scheduler | `freertos/tasks.c`, `freertos/list.c`, `freertos/port/port.c` | ready, delayed, pending and event lists, tick count | ticks, delays, suspend and resume, context switch | `Scheduler` |
| FreeRTOS queues | `freertos/queue.c` | storage, cursors, `cTxLock`, `cRxLock` | `xQueueGenericSend`, `xQueueReceive` and the calls from interrupts | `KernelQueue`, `BoundedFifo` |
| lwIP port | `lwip/arch/sys_arch.c` | semaphores, mailboxes | `sys_sem_new`, `sys_mbox_post`, ... | in part, where the other modules use it |
| Allocators | `freertos/heap_4.c`, `lwip/core/mem.c` | free lists | | not modelled: every allocation may fail |
| lwIP protocols and applications, CMSIS, drivers, newlib | `lwip/`, `system/` | | | third party |

How the parts interact. `main` initialises UART, configuration and watchdog,
creates `xSemaphore` and the event group and starts `vWDTFeed` (priority 3) and
`vEthernetDaemon` (2). The daemon starts lwIP (`tcpip_thread`, 4), adds the
interface (`lpc_enetif_init` starts the two driver tasks, whose priority 5 is
clamped to 4), starts three application tasks (2) and then polls the PHY for
ever. Application tasks call the socket API; with core locking they run the
stack, down to `lpc_low_level_output`, in their own context under the core lock.
Received packets go through the mailbox of the tcpip thread. The interrupt
handlers share registers and semaphores with the tasks, and the EMAC shares the
descriptor rings with all of them.

What is hard: the EMAC runs concurrently with everything and its interrupt bits
are cleared by a handler while tasks test them; a ring has three cursors and
equality of two means both empty and full; wakeups go through semaphores that do
not count; memory may be refused anywhere; PHY registers are read in several
steps; bytes are lost whenever the UART interrupt is disabled; power may fail
while flash is written; the tick count and the time of lwIP overflow; tasks wait
for mailboxes, locks and descriptors that others hold, and the watchdog must tell
a slow system from a dead one. `PROJECT.json` lists these hazards at their lines.

What makes each part correct: buffers are freed once, not before the hardware is
done with them, and eventually; frames are delivered in order, whole and at most
once; no wakeup is lost; interface and MAC end up with the state of the link; a
frame of the device is forwarded whole; the configuration in RAM, interface and
flash agree and the device keeps its identity through crashes; a system that works
is not reset and one that does not is; timers run in order and on time; every
packet has one owner and nobody waits for ever; a queue is a FIFO whose waits end
when they should, and the task of the highest priority runs.

## Modules

Each module has one variable per variable of the code (same names), a location
variable per thread (`spc`, `cpc`, `rpc`, `dpc`, `ipc`, `pc`) and one action per
atomic step of a thread: what happens between two points at which another actor
can observe or change shared state. Definitions named `Mut...` are mutated forms
of the definitions next to them: each is a plausible slip that a property is
known to catch. They are used by no specification.

**TxRing** is the arithmetic of the transmit ring: `WrapInc`, `lpc_tx_ready` as the
code computes it, and the counting semaphore. `EmacTx` and `Tcpip` extend it.

**EmacTx** (checked through `MCEmacTx`, which adds the symmetry set).
Actors: the sender (whoever holds the core lock), the cleanup task, the handler,
the EMAC. `lpc_low_level_output(p, n, bounce)` is the entry of a call with a
chain of `n` pbufs, `SenderPoll`/`SenderSemWait` the loop on `lpc_tx_ready` (an
operator with the arithmetic of the code, `u8_t` wrap included), `SenderLock`,
`SenderSetup` (one descriptor each), `SenderUnlock` the rest. `CleanerSemWait`,
`CleanerCheck`, `CleanerReset`, `CleanerLock`, `lpc_tx_reclaim` (one slot each)
and `CleanerUnlock` are the cleanup task; `IsrEnter`/`IsrExit` are the handler's
read and clear, with the EMAC (`HwTransmit`) running between them. A pbuf is one
reference of the driver; `drvref` is the set not yet freed. `overrun` and
`txreset` are history variables: `Intact` is "neither has happened".

**EmacRx**. `RxSemWait`, `RxLoop`, `RxCheck`, `RxReset(k)` (the recovery, which
gets `k` new buffers), `RxDropError`, `RxCopy`, `RxNoMemory`, `RxFault`, `RxInput`
are `vPacketReceiveTask` with the functions it calls. The EMAC stores a frame in
one or more descriptors, loses it when the ring is full, or overruns and stops
until it is reset. Buffers are their `len` fields, since the code uses that field
as the size of the descriptor. The code sets `EMAC_MAC1_RES_RX` and never clears
it; the model takes that as a restart of the receiver, the outcome the code
intends; whether the EMAC leaves reset is the hardware's. What a reset does to
the index registers is left open: both outcomes are explored. `leaked`, `nocopy` and
`norefill` are history variables: the buffers that failed allocations have cost.

**LossyFifo** is the abstract promise of a receiver: frames come out in order,
none again, some may be lost. `EmacRx!FifoSpec` is the refinement, with the queue
being the copy in the task's hands followed by the ring. A frame may come in
pieces (`More`), but none comes again after a later one.

**EnetInit**: `PhyReset`, `PhyWait`, `PhyDone`, `SetupRings`, `EnableInterrupts`,
`EnableReceiver`, `Create(obj)` for every semaphore, mutex and task in the order
of the code, and `TakeNew`, the take in `sys_sem_new`, with frames, interrupts
and the receive task running as soon as they can. `LWIP_ASSERT` is empty in this
build (`lwipopts.h` defines `LWIP_NOASSERT`, and lwIP only asks whether it is
defined), so assertions stop nothing. A handler that gives a semaphore that does
not exist yet works on address 0, the vector table: what it finds there passes for
a full queue, or it ends in `HardFault_Handler`; both outcomes are explored.

**PhyLink**: `PollBmsr`, `PollBmsrFails`, `PollMode`, `smsc_update_phy_sts` are the
three states of `lpcPHYStsPoll`; `DaemonSet`, `DaemonPost`, `DaemonFeed` the rest
of the daemon's loop; `tcpip_thread` takes callbacks from the mailbox. The cable
may change between any two steps. `dropped` is a history variable: the last
callback got no memory.

**GsUart**: `DevSend` is the device and the UART's FIFO, `LineStatus` and
`uart_receive_int` the handler, `Client...` the steps of `vUDPClient`, `EmacSend`
the moment the EMAC reads the buffer: `send()` makes a pbuf that refers to the
caller's memory, so this is after `send()` has returned. A byte is its value with
the number of its frame and its place there. `calm`, chosen for a whole
behaviour, says whether the device leaves a gap after each frame, the handler
keeps up with the line, the network takes every packet and the data of the frames
holds no header. The data is any sequence of 0xAA, 0x55 and another byte, so that the
handler meets headers in the middle of a frame; `run`, what it has read since the
last byte that was lost, is a history variable. `xHigherPriorityTaskWoken` is uninitialised in
the code; it only decides when the scheduler runs, and the model lets the client
go on at any time.

**DeviceConfig**: `Boot`, `Recv`, `HandleInfo`, `HandleSet` and the four steps of
`vDeviceInfoSave` (serial number, erase, copy, compare), each of which may fail,
and `Crash` at any moment. An erase or copy that fails, or is cut off by a crash, may
leave the sector garbled; so may one that reports success, which is what `Compare` is
there to find (`Miswritten`). A successful
save ends in `NVIC_SystemReset`, so the answer to a set request is never sent.
The network addresses are one value; of the MAC address the last two digits are
kept apart, because saving replaces them.

**Watchdog**: the steps of `main`, the two tasks and the watchdog timer, with time
as an action (`Tick`). A step of a task takes no time; a task that is ready may
be kept from running for `MaxStall` units by what has a higher priority, until all
tasks have waited again. `DaemonStuck`, `prvTaskExitError`, `EarlyFrame`,
`CreateFails` and `SchedulerFails` are the failures; `broken` and `silent` are
history variables. `xEventGroupSetBits` is the whole function, with the clear for
the task that waits.

**Scheduler** is `tasks.c` as operators on a record `k`, the state of the kernel:
each function of the kernel is an operator that gives the state after it, and the
two list operations on event lists, `vListInsert` and `uxListRemove`, work on
sequences. Which of
several ready tasks of the same priority is next is left open. **KernelQueue** is
`queue.c` on top of it: one action for each critical section of
`xQueueGenericSend` and `xQueueReceive` and for each stretch between them that an
interrupt can come into (`SuspendAll`, `prvLockQueue`, `xTaskCheckForTimeOut`,
`StillBlocks`, `Place`, `UnlockTx`, `UnlockRx`, `Resume`, `Expired`), the calls from
interrupts, `vTaskDelay`, the tick and the switch. `asked` and `waited` are history
variables; a call without a limit (`WaitsForever`) counts no ticks. **MCKernelQueue** gives the tasks and their calls.

**BoundedFifo** is what a queue promises: each call takes effect in one step on a
first-in first-out buffer, and a receive is refused only while it is empty.
`KernelQueue!FifoSpec` is the refinement; the buffer is what lies between the read
and the write cursor of the storage area.

**Timeouts** (checked through `MCTimeouts`): the list of timeouts as a sequence,
`TIME_LESS_THAN` with its arithmetic modulo 2^32, and the loop of the tcpip thread
(`Again`, `FetchMsg`, `FetchTimedOut`, `HandleMsg`, `sys_check_timeouts`, `Fire`,
`lwip_cyclic_timer`). The true time until a timeout is due stands beside its
`u32_t` time in the ghost field `left`, so that the properties do not rest on the
comparison they are about.

**Tcpip** composes the threads around the lwIP core: the receive task, the daemon,
the tcpip thread and the applications (the client, the echo server), and what they wait for: the two
mailboxes, the core lock and the transmit descriptors. What the core makes of a
packet (drop, answer, deliver) is left open. A thread that sends runs
`lpc_low_level_output` under the core lock: `SenderPoll`, `SenderSemWait` and
`SenderSetup` with the count of `lpc_tx_ready` and the semaphore, so that it goes on
without room, and sleeps for ever, where the driver does. The EMAC (`HwTransmit`), the
cleanup task (`lpc_tx_reclaim`) and the reset after an error (`CleanerReset`) work on the
same indices; the packets in the ring, the interrupt and the wakeup of the cleanup task
are left to `EmacTx`. `intact` is a history variable: the ring was never overrun and never
reset. The kernel, the receive side and the daemon appear as `KernelQueue`, `EmacRx` and
`PhyLink` show them to behave. The bit of a transmit error is not followed: `CleanerReset`
may come at any time. `alive` and `msgs` record what is allocated. The
uninitialised `len` of `vUDPServer` is a choice in `RecvDone`.

## Runs

| Run | Instance | Shows |
|---|---|---|
| `tx_safe` | ring of 3 (the real size), 2 references, chains of 1 and 2, errors | `NoDoubleFree` always; `RingAccounting`, `InFlightLive`, `NoLeak` until an overrun or a reset |
| `tx_live` | same, chains of 2 (and of 1, when the packet is copied), no errors | `SenderNotStuck`, `EventuallyFreed` |
| `rx_safe` | ring of 3, frames of 2 lengths, 7 frames, errors | `SlotsAgree`, `FifoSpec` (refinement of `LossyFifo`) |
| `rx_nomem` | ring of 3, 5 frames of one length, errors, allocations fail | `RecoveryFreesOwned`, `BuffersAccounted`, `NeverBackwards`, `FrameTaken` |
| `init_start` | 3 tries for the PHY, everything may fail | `ReadyWhenOk`, `NextFrameRescues`, `InitEnds` |
| `phy_sync` | mailbox of 2, 3 cable events, 2 failing reads, callbacks without memory | `InSync`, `LinkTracked` |
| `gs_frames` | frames of 2+1 bytes, any data, FIFO of 2, 2 frames; calm and not | `InStep`, `BufferHeld` always; `FramesWhole`, `Forwarded` in a calm environment |
| `cfg_save` | 2 addresses, 2 MAC bases, 3 crashes, IAP commands that fail or miswrite | `RamAgrees`, `IdentityKept`, `SetApplied` |
| `watchdog` | 2 s = 8 units, 2.5 s = 10, start up to 3, full mailbox up to 2, stalls of 1, all failures | `NotReset`, `SilenceNoticed`, `StartsAgain` |
| `kernel_queue` | 3 tasks and the idle task, queue of 2, tick count of 4 values, interrupts that send and receive | `HighestRuns`, `NoLostWakeup`, `WokenInTime`, `NotEarly`, `FifoSpec` (refinement of `BoundedFifo`) |
| `timers` | time modulo 20, 2 cyclic timers, 1 other, rounds of up to 2 ms, no memory too | `ListSorted`, `OnTime`, `NeitherStarves` |
| `tcpip` | 2 packets, mailboxes of 1 and 1, ring of 2, errors, one application (the server), no memory too | `Owned` always; `GetsThrough` until an overrun or a reset |

The type invariants of `EmacTx`, `PhyLink` and `GsUart` are checked too; the last one
says that the index stays inside the buffer.

### Where code and comments part

These were met while modelling. The properties above are stated so that they hold
of the code as it is; the proviso each one carries is named here.

- `freertos_lwip_mac.c:420` says "THIS WILL BLOCK UNTIL THERE ARE ENOUGH DESCRIPTORS
  AVAILABLE". `lpc_tx_ready` (`:864`) computes their number with the wrong sign when the
  ring has not wrapped, and the ring is overrun. The cleanup task may
  then free a packet that is still queued, where `:436` says "The driver will free it
  once it's been transmitted": hence `Intact` in the properties of `EmacTx`. After an
  overrun `TxConsumeIndex` can also come round to `lasttxidx`: nothing is reclaimed, the
  semaphore is not given, and a sender sleeps for ever with an empty ring (`:424`) and
  the core lock in its hands, the tcpip thread and in the end the daemon with it: hence
  `intact` in `GetsThrough`, without which TLC finds just this behaviour. The watchdog
  then starts the system again (`StartsAgain`).
- `:189` says "Monitor RX overrun or RX error status". The handler clears the bits
  (`:900`) before the task tests them, and the receiver stays stopped: `FrameTaken`
  is about frames that are in the ring. Transmit errors go unnoticed for the same
  reason (`:529`).
- `:289` says "Re-queue the pbuf for receive". The pointer that is queued is the
  null result of `pbuf_alloc`; the pbuf is leaked and the slot empty.
  `BuffersAccounted` says that this is the price of each failed allocation, and that
  nothing else costs a buffer.
- `main.c:50` says "Semaphore for sync gs data". The handler goes on writing between
  the give and the moment the client disables the interrupt, and again before the
  EMAC has read the buffer (`net.c:250`); bytes of the next frame get into the
  packet. `FramesWhole` holds in a calm environment.
- The handler takes 0x55 in the data for a header when it begins the data or comes
  after 0xAA and any number of 0x55 (`uart.c:98`), and starts the frame again in its
  middle. `InStep` is stated from the last header on, true or not; `FramesWhole` and
  `Forwarded`, in a calm environment, are about data without headers. The format of the
  device is not in the repository.
- A failed or miswritten save leaves the sector erased or garbled while the device goes
  on with the new configuration (`flash.c:67`), and the next start takes what it finds:
  `failed` in `RamAgrees`, `garbled` in `IdentityKept`. Power has to fail for that: a save
  that `Compare` does not confirm never restarts the device.
- A short frame and then an error frame in a slot leave its descriptor too small,
  and a long frame is delivered in pieces (`freertos_lwip_mac.c:113`, `:266`): the
  action `More` of `LossyFifo`.
- A PHY that does not answer makes `low_level_init` return `false`, which is `ERR_OK`
  (`:598`): the condition of `ReadyWhenOk`. A frame during the start gives a null
  semaphore (`:653`): the `"fault"` in `InitEnds`.
- A failing read of the PHY leaves `PHY_LINK_CHANGED` up, and one change is handled
  twice (`phy_smsc87x0.c:168`); the `ERR_MEM` of the link callback is ignored
  (`net.c:321`): `dropped` in `LinkTracked`.
- `set_dev_net` returns -1 for this very device when the flash cannot be written
  (`net.c:90`).
- `vWDTFeed` waits up to 2.5 s, longer than the watchdog's 2 s: the wait can time
  out only while the watchdog is about to reset (`wdt.c:49`).
- UART0 is enabled before `xSemaphore` and before the watchdog: a whole frame in
  those lines can halt the device for good (`main.c:80`), hence `wdt # Off` in
  `StartsAgain`.
- A cyclic timer that gets no memory, at the start or later, ends silently
  (`timeouts.c:189`; the assertion is compiled out): `lost` in `NeitherStarves`.
- `len` is passed to `recvfrom` uninitialised (`net.c:215`): whether the echo server
  answers depends on the stack.
- `netif_add`, `netif_set_default` and `netif_set_up` run without the core lock
  (`net.c:286`), while the tcpip thread is already there.
- `malloc` of newlib is called from tasks of several priorities, and nothing in the
  repository defines `__malloc_lock` (`lwip/core/mem.c:209`).

### Bounds

The rings have 3 slots, so that every case of the circular comparisons occurs
(empty, partly full, wrapped, full); the transmit ring has exactly the code's
size. Two packets are enough for one to overtake, overwrite or free the other.
`MaxFrames = 7` in `rx_safe` is chosen so that the ring is gone round twice and a
slot can see a short frame, an error frame and a long frame; in `rx_nomem`, which
also checks liveness, frames have one length and 5 are enough for a frame to meet
a slot that lost its buffer. `MaxFlaps` allows a change in each of the three
reads of a round; `MaxReadFails` allows one in each of two states. Frames of
`GsUart` have a header of two bytes and one data byte of three values, which is enough for a
header to be read across the end of a frame or in its data; of 2 frames one can be torn or
lost while the other is in the buffer. `Crashes = 3` allows a crash in the erase, in the write and at the start after it.

`Watchdog` keeps the proportions of the code (2 s, 2.5 s, 250 ms); `MaxStart`,
`MaxBlock` and `MaxStall` are what a working system may take, and
`TimingAssumption` states how much of that the watchdog allows for; nobody
measured those times, so this is the condition under which `NotReset` holds.
`MaxSilent` only caps a history variable. In `KernelQueue` the task of high
priority receives with a limit of 2 ticks, one of the lower tasks sends and waits
for ever, and the other sends with a limit, receives without waiting and sleeps;
the tick count has 4 values (`MAX_DELAY = 3`), so that a wait of 2 crosses the
overflow in half of the cases, and overflows are counted modulo 2.
`MaxPended` allows a tick while the scheduler is suspended, `MaxLocked` two items of
an interrupt while the queue is locked. No task waits, or is kept from running
while it should wait, for a whole round of the tick count (50 days of ticks). In
`Timeouts` the time wraps round at 20, which is more than four of the longest
interval, as the code requires of a timeout, and more than eight of the longest
round of the loop (`TimeoutsAssumption`; on the board these are 49 days and some
milliseconds); the intervals (4, 3) and the time of a
timeout (4) make timers meet and overtake. `Tcpip` has the smallest mailboxes,
two packets and a ring of two descriptors, so that everything is full, or empty, at once:
two is the smallest ring in which `lpc_tx_ready` both makes a sender wait and, wrongly,
lets it go on. Frames are one descriptor long there; `EmacTx` has chains.
The server is the only application: it owns the socket, and it competes for the core
lock and sends like the client (`AppCall`), which has nothing else. `Owned` is proved for
any number of them.

`CHECK_DEADLOCK FALSE` is set for the drivers, which legitimately wait for ever
once the bounded traffic is over (or all references have been leaked by a reset),
for `EnetInit`, which ends, and for `Tcpip`, where after an overrun every thread may
come to wait for the sender that sleeps for ever; the other models never stop and are checked for
deadlock.

### Fairness

The driver tasks have the highest priority and wait only for semaphores, mutexes
and the handler's return; FreeRTOS gives a semaphore to the task that has waited
longest. The handler disables their steps again and again while it runs, so their
fairness is strong (`SF`). The handlers run whenever an enabled interrupt is
pending and the EMAC sends whatever is queued: weak fairness. In `PhyLink` and
`GsUart` the tasks' steps are weakly fair, since time slicing is on among the
tasks of priority 2. In `EnetInit` the start, the handler and the receive task are
weakly fair. In `Watchdog` and `Timeouts` time passes (`SF` of `Tick`: tasks run in
between again and again) and tasks that can run do. In `Tcpip` the tcpip thread has
the higher priority and goes on when it can again and again (`SF`): it gets the lock. So
do the daemon and the applications, which run whenever the tcpip thread waits: for
its mailbox, which it has then emptied, having given back the lock, or for a
descriptor. The steps of a sender, of `HwTransmit` and of `lpc_tx_reclaim` are weakly fair, which is what
`SenderNotStuck` and `EventuallyFreed` show of the driver while the ring is intact. That the higher threads do wait from time to time
is the one thing assumed of the load. `KernelQueue` has safety properties only:
`NoLostWakeup` and `WokenInTime` are the parts of progress that the kernel is
responsible for. Nothing is assumed of the environment: no frame, byte, request or
packet ever has to come, the PHY need not become ready.

## Proofs

`EmacTxProofs`, for every ring size from 2 to 128, any set of packets, chain
lengths up to 255, with or without errors:

- `TypeCorrect`: `Spec => []TypeOK`, from `TypeInv`, which adds to the types the
  mutual exclusion of the transmit mutex and what the sender's locals hold at
  each location.
- `NeverFreedTwice`: `Spec => []NoDoubleFree`, with no proviso: the defects found
  by the runs lead to leaks and early frees, but never to a double free. `OwnInv`
  adds that a packet that is not copied has no reference before `pbuf_ref`.
- `RingIsAccounted`, `NothingLeaks`, `InFlightIsLive`: from `RingInv`, which adds
  that every slot between `lasttxidx` and `TxProduceIndex` points to an owned
  packet, that nothing of a packet follows its last slot, and that the index the
  sender read before it had the mutex is not stale. The lemmas `RingGrow` to
  `RingInFlight` are the facts about circular intervals the steps need.

`GsUartProofs`, for every frame length up to 126 (the buffer has 128 bytes), FIFO
size, number of frames and device: `TypeCorrect` (the index stays inside the
buffer), `FallsIntoStep` (`InStep`) and `BufferIsHeld`, for any bytes in the data.
`InStep` is not inductive: `RunInv` adds that `prev`, `frame_flag` and `gs_data` are what the
bytes read in a row make of them (`HeaderAt`, `LastHeader`), and `FifoInv` what the
FIFO holds.

In a calm environment, which includes that the data holds no header,
`FramesStayWhole` (`FramesWhole`): a packet is read from the
buffer long after its frame was complete, so `CalmInv` says that device, FIFO,
handler, semaphore, client and EMAC are never at work on two frames at once
(`Gapless`, `ClientWaits`, `NotStoring`) and what has been stored of the current
one.

`PhyLinkProofs`, for every mailbox size and any number of cable events and
failing reads, with or without memory for the callbacks: `TypeCorrect` and
`LinkInSync`. The invariant adds that the changed bit is up only between two
rounds of reads and then stands for what `olddphysts` holds, and that the EMAC's
mode is set before the callback is posted. The module also extends
`EnetInit`: `StartReportsFailure` (`ReadyWhenOk`), for every number of tries.
`ReadyWhenOk` is about the end of the start only; `StartInv` says for each step what
must exist by then (`MadeBefore`), if the PHY has answered, and that `ERR_OK` is not
set before the end.

`EmacRxProofs`, for every ring size from 2 to 255, any number of frames of any
lengths, errors, overruns and recoveries:

- with and without memory: `NeverBackAgain` (`NeverBackwards`), `RecoveryIsSafe`
  (`RecoveryFreesOwned`) and `EveryBufferAccounted` (`BuffersAccounted`), which counts the
  slots with a buffer before and after each step. `RingInv` says that the cursors of driver and EMAC agree
  unless no slot has a buffer, that only slots between the two cursors hold a
  frame and a buffer, that these are in the order of their distance from
  `RxConsumeIndex`, and that none of them is older than what was delivered or copied.
- with the hypothesis `TRUE \notin AllocFails`, that `pbuf_alloc` succeeds:
  `SlotsInStep` (`SlotsAgree`) and `RxImplementsFifo`, the refinement of `LossyFifo`. Without memory they are false
  of the code (see above). After a recovery with the index registers not reset, the
  slots up to some distance report nothing; `QueueInv` adds that the slots from
  there to `RxProduceIndex` all hold frames (`EmptyFirst`), so that the queue of the
  abstract specification is one interval of the ring. There is a lemma for each of
  its actions: what a step of the driver or the EMAC does to that sequence.

`DeviceConfigProofs`, for any addresses and any number of crashes, with and
without IAP commands that fail or miswrite: `RamIsFlash` (`RamAgrees`) and `IdentitySurvives`
(`IdentityKept`), which needs that what is about to be written already has the
digits of the serial number (`SavesOwnMac`) and, for the garbled sector, that only a crash
restarts a device whose sector is garbled.

`WatchdogProofs`: `SilenceIsNoticed` (`SilenceNoticed`) and `WorkingIsNotReset`
(`NotReset`), for every choice of times that `TimingAssumption` allows. The first
needs that a bit that is set, and the last feed, are not much older than the
daemon's last sign (`BitIsFresh`, `FedFresh`). The second bounds, at each location
of the two tasks, the time since the last feed by what the rest of the round
leaves of `WDT_TIMEOUT` (`InTime`). The proof gave the assumption its present form:
a round that begins just before a tick costs one unit more than its parts, hence
the `+ 1`.

`TcpipProofs`, for any number of packets and applications, any sizes of the
mailboxes and of the ring of descriptors, intact or not, with and without memory:
`NothingLostOrFreedTwice` (`Owned`). The invariant adds that a thread has nothing in
its hands at the locations where it takes something (`HandsFree`); the lemmas
count the places of a packet in a sequence before and after `Append` and `Tail`.

The timers that this thread runs are in the same module, which extends
`Timeouts` as well: for any array of cyclic timers, any delays up to the limit that
`sys_timeout` asserts, any even width of the time and any number of messages, with
and without memory: `TimersStaySorted` (`ListSorted`) and `TimersOnTime` (`OnTime`).
Neither is inductive: `TIME_LESS_THAN` orders two times only while they are less than
half a round of the clock apart (`Compared`), so the order rests on how late a
timeout can be, and that on where the thread is. `TimersInv` bounds the time left at
each location (`Earliest`): it is at least minus the length of the round at `again`
and while a message is handled, at least the rest of the wait while the thread
waits, and a round earlier while timers are checked; and it says that the time
since `start` is no longer than the round, so that a handler that runs was due when
`sys_check_timeouts` read the time, and what stays in the list was not. The start,
a loop over the array, is proved by induction. The proof gave the assumption its
present form: with rounds of nearly a quarter of the clock, which the model did not
exclude before, a late timer that is started again would be put in the wrong place.

`KernelQueueProofs`, for any finite set of tasks with any priorities and calls, any
calls from interrupts, any length of the queue and any range of the tick count:

- `HighestAlwaysRuns` (`HighestRuns`). It is not inductive: whether a switch is due
  depends on what was recorded while the scheduler was suspended. `KernelInv` says
  what a task is about to do at each location (`InCall`), that only the current
  task has suspended the scheduler, and once (`SuspendedOnce`), and that a switch is
  pending, or recorded, or not needed (`SwitchKnown`). Each function of the kernel has
  a lemma on what it does to a kernel state: `vListInsert`, `uxListRemove`,
  `xTaskRemoveFromEventList`, `xTaskIncrementTick`, `xTaskResumeAll` and the loops of
  `prvUnlockQueue`. Loops are recursive functions; the facts about them are proved
  by induction over a set of numbers, from the theorem that a set of numbers that
  is not empty has a least one (`WellFoundedInduction`).
- `QueueImplementsFifo`, the refinement of `BoundedFifo`: from `KernelInv` and
  `QueueInv`, which relates the two cursors and the count by arithmetic modulo the
  length. Every critical section that stores or takes an item is a step of the
  abstract buffer, everything else a stutter.

- `NoWakeupIsLost` (`NoLostWakeup`). That one task is on its way to the queue says
  nothing about the next item, so the invariant counts: `CountInv` says that while
  tasks wait for items (room), there are at most as many of them as there are tasks
  that are certain to try again (`Sure`) and wakeups counted in the lock.
  `LockInv` says that the queue is locked while a task decides to wait, and that
  what has come since it looked has been counted, so that the step into the event
  list keeps `CountInv`; `WaitInv` that a waiting task is in one event list, once, is
  neither ready nor pended, and will look again when it is woken. The steps that
  matter are an interrupt's call on a locked queue, the loop of `prvUnlockQueue`,
  which wakes one task for each count, and a time-out that takes a task out of the
  list.
- `WokenWhenDue` (`WokenInTime`) and `NeverEarly` (`NotEarly`). `TimeInv` relates
  what the kernel keeps, wake times on a wrapping count in two lists, to the history
  variables: the distance from the count to a delayed task's wake time is what is
  left of its limit plus the pended ticks (`Remains`), and what a call still has to
  wait agrees with `xTimeOut` (`Counts`, `Limited`), also between
  `xTaskCheckForTimeOut` and the next wait. That the distance is positive for all
  tasks of the two lists comes from `KernelOk`, with `xNextTaskUnblockTime` not later
  than the first of them. `NotEarly` needs `QueueInv` too: a call is refused only
  after it has found the queue empty (full).

The invariants were model-checked on the instances of the runs before they were
proved. The only assumptions are the named `ASSUME`s of the constants, which TLC
evaluates in every run, and the hypothesis named for two theorems of
`EmacRxProofs`. tlapm 1.4.5 translates `Len` for SMT with an axiom that is not
restricted to sequences (`DOMAIN s = 1..n <=> Len(s) = n`); since the code's arrays
begin at 0, every obligation that mentions `Len` was proved a second time with
that axiom restricted to sequences, and none rests on it.

Only model-checked:

- liveness, which is out of the prover's reach: `SenderNotStuck`, `EventuallyFreed`,
  `FrameTaken`, `NextFrameRescues`, `InitEnds`, `LinkTracked`, `Forwarded`, `SetApplied`,
  `StartsAgain`, `NeitherStarves`, `GetsThrough`.

Every invariant, the refinements and the action properties of the passing runs are proved.

## Not modelled

- lwIP's protocols and applications, CMSIS, peripheral drivers, newlib: third-party
  or vendor code and by far the most of the repository's lines, of which the program
  uses a small part. They appear by what they promise.
- Allocators. `heap_4` serves tasks and queues, which are created at the start only;
  lwIP takes its memory from newlib. Every allocation may fail instead.
- Of FreeRTOS: mutexes with priority inheritance, queue sets, software timers,
  notifications, deletion of tasks. A mutex appears as a lock that a waiting task
  gets.
- TCP, `select` and socket options, which the program does not use.
- UART0's interrupt priority (5, above the level that critical sections mask): what
  a write in the middle of a list operation leaves behind depends on the
  instructions the compiler made of it.
- Register settings that only configure the MAC, UART and pins, statistics, traces.

## Plan

1. Done: all modules above, their runs, and the proofs listed under Proofs.
2. Mutexes with priority inheritance in `Scheduler`, for `tx_lock_mutex` and the core
   lock.
