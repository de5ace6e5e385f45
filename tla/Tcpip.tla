------------------------------- MODULE Tcpip --------------------------------
(***************************************************************************)
(* The threads around the lwIP core and what they wait for: the mailbox of  *)
(* the tcpip thread and the core lock (lwip/api/tcpip.c), the mailbox of a  *)
(* socket (recv_udp in lwip/api/api_msg.c, sockets.c), the descriptors of   *)
(* the driver (lwip/arch/freertos_lwip_mac.c), the daemon and the tasks     *)
(* that send and answer (app/src/net.c).                                    *)
(*                                                                         *)
(* A step is what happens between two points at which another thread may    *)
(* look: an allocation, an operation on a mailbox, the lock or a            *)
(* descriptor.  What the core makes of a packet is left open: it is         *)
(* dropped, answered or delivered to the socket.  Of the driver there are   *)
(* the indices and the semaphore that decide whether a sender goes on       *)
(* (TxRing), without the packets behind the descriptors, the interrupt and  *)
(* the wakeup of the cleanup task, which EmacTx has.  EmacRx, PhyLink and   *)
(* KernelQueue have the details of the rest.                                *)
(***************************************************************************)
EXTENDS TxRing, Sequences, FiniteSets

CONSTANTS
  Pbufs,                      \* packets received
  TCPIP_MBOX_SIZE,            \* messages the mailbox of the tcpip thread holds
  DEFAULT_UDP_RECVMBOX_SIZE,  \* datagrams the mailbox of the socket holds
  Clens,                      \* the lengths of the pbuf chains that are sent
  TxErrors,                   \* can a transmission end with an error? subset of BOOLEAN
  Apps,                       \* tasks that send
  Server,                     \* vUDPServer, one of them: it sends what it receives
  AllocFails,                 \* may memp_malloc fail? subset of BOOLEAN
  NULL

ASSUME TcpipAssumption ==
  /\ {TCPIP_MBOX_SIZE, DEFAULT_UDP_RECVMBOX_SIZE} \subseteq Nat \ {0}
  /\ Clens \subseteq 1 .. 255 /\ TxErrors \subseteq BOOLEAN /\ FALSE \in TxErrors
  /\ Server \in Apps /\ AllocFails \subseteq BOOLEAN /\ FALSE \in AllocFails
  /\ NULL \notin Pbufs

VARIABLES
  tcpip_mbox,       \* messages: [type, p]
  lock_tcpip_core,  \* its holder: "tcpip", an app or NULL
  recvmbox,         \* datagrams delivered to the socket of Server
  TxProduceIndex, TxConsumeIndex, lasttxidx,  \* the ring of descriptors, as in EmacTx
  xtx_count_sem,    \* its counting semaphore
  spc, dn, idx,     \* lpc_low_level_output, in the thread that holds the core lock
  intact,           \* history: the ring was never overrun and never reset
  rpc, rp,          \* lpc_enetif_input in vPacketReceiveTask: location, packet
  dpc,              \* vEthernetDaemon: location
  tpc, msg,         \* tcpip_thread: location, message
  apc,              \* the apps: location
  sp,               \* Server: the datagram it has received
  alive,            \* ghost: packets that are allocated
  msgs              \* ghost: the number of tcpip_msg that are allocated

ringVars == <<TxProduceIndex, TxConsumeIndex, lasttxidx, xtx_count_sem, intact>>
sendVars == <<spc, dn, idx>>
txVars == <<ringVars, sendVars>>
rxVars == <<rpc, rp>>
threadVars == <<tpc, msg>>
appVars == <<apc, sp>>
vars == <<tcpip_mbox, lock_tcpip_core, recvmbox, txVars, rxVars, dpc, threadVars, appVars,
          alive, msgs>>

None == [type |-> "none", p |-> NULL]

-----------------------------------------------------------------------------
Init ==
  /\ tcpip_mbox = <<>> /\ lock_tcpip_core = NULL /\ recvmbox = <<>>
  /\ TxProduceIndex = 0 /\ TxConsumeIndex = 0 /\ lasttxidx = 0
  /\ xtx_count_sem = EMAC_NUM_TX_FRAG /\ intact = TRUE
  /\ spc = "off" /\ dn = 0 /\ idx = 0
  /\ rpc = "idle" /\ rp = NULL /\ dpc = "poll" /\ tpc = "fetch" /\ msg = None
  /\ apc = [a \in Apps |-> "idle"] /\ sp = NULL
  /\ alive = {} /\ msgs = 0

-----------------------------------------------------------------------------
(* Posting *)

MutNotFreed(m) ==    \* the message is kept when there is no room for it
  IF Len(tcpip_mbox) < TCPIP_MBOX_SIZE
    THEN tcpip_mbox' = Append(tcpip_mbox, m) /\ UNCHANGED msgs
    ELSE UNCHANGED <<tcpip_mbox, msgs>>

\* sys_mbox_trypost with the memp_free of its caller, tcpip_inpkt.
TryPost(m) ==
  IF Len(tcpip_mbox) < TCPIP_MBOX_SIZE
    THEN tcpip_mbox' = Append(tcpip_mbox, m) /\ UNCHANGED msgs
    ELSE msgs' = msgs - 1 /\ UNCHANGED tcpip_mbox

\* lpc_enetif_input has a packet from lpc_low_level_input.
lpc_enetif_input(p) ==
  /\ rpc = "idle" /\ p \notin alive
  /\ alive' = alive \cup {p} /\ rpc' = "input" /\ rp' = p
  /\ UNCHANGED <<tcpip_mbox, lock_tcpip_core, recvmbox, txVars, dpc, threadVars, appVars, msgs>>

\* tcpip_inpkt: a message is allocated ...
tcpip_inpkt(fails) ==
  /\ rpc = "input"
  /\ IF fails THEN rpc' = "error" /\ UNCHANGED msgs ELSE rpc' = "post" /\ msgs' = msgs + 1
  /\ UNCHANGED <<tcpip_mbox, lock_tcpip_core, recvmbox, txVars, rp, dpc, threadVars, appVars, alive>>

\* ... and posted, if there is room.
InpktPost ==
  /\ rpc = "post" /\ TryPost([type |-> "INPKT", p |-> rp])
  /\ IF Len(tcpip_mbox) < TCPIP_MBOX_SIZE THEN rpc' = "idle" /\ rp' = NULL
                                          ELSE rpc' = "error" /\ UNCHANGED rp
  /\ UNCHANGED <<lock_tcpip_core, recvmbox, txVars, dpc, threadVars, appVars, alive>>

\* lpc_enetif_input: the packet was not taken, or is neither IP nor ARP.
InputError ==
  /\ rpc \in {"input", "error"}
  /\ alive' = alive \ {rp} /\ rpc' = "idle" /\ rp' = NULL
  /\ UNCHANGED <<tcpip_mbox, lock_tcpip_core, recvmbox, txVars, dpc, threadVars, appVars, msgs>>

\* vEthernetDaemon: the link has changed; tcpip_callback allocates a message.  Its
\* result is not looked at.
tcpip_callback(fails) ==
  /\ dpc = "poll"
  /\ IF fails THEN UNCHANGED <<dpc, msgs>> ELSE dpc' = "post" /\ msgs' = msgs + 1
  /\ UNCHANGED <<tcpip_mbox, lock_tcpip_core, recvmbox, txVars, rxVars, threadVars, appVars, alive>>

\* sys_mbox_post waits for room.
sys_mbox_post ==
  /\ dpc = "post" /\ Len(tcpip_mbox) < TCPIP_MBOX_SIZE /\ dpc' = "poll"
  /\ tcpip_mbox' = Append(tcpip_mbox, [type |-> "CALLBACK", p |-> NULL])
  /\ UNCHANGED <<lock_tcpip_core, recvmbox, txVars, rxVars, threadVars, appVars, alive, msgs>>

-----------------------------------------------------------------------------
(* Sending a frame *)

otherVars == <<tcpip_mbox, lock_tcpip_core, recvmbox, rxVars, dpc, threadVars, appVars, alive, msgs>>

\* A call of lpc_low_level_output with a packet of n fragments, by the thread that holds
\* the core lock, and keeps it until the call is done.
Output(n) == spc' = "ready" /\ dn' = n /\ UNCHANGED idx

OutputDone == spc = "setup" /\ dn = 0 /\ spc' = "off" /\ idx' = 0 /\ UNCHANGED dn

\* while (dn > lpc_tx_ready()) ...; idx = TxProduceIndex
SenderPoll ==
  /\ spc = "ready"
  /\ IF dn > lpc_tx_ready(TxConsumeIndex, TxProduceIndex)
       THEN spc' = "semwait" /\ UNCHANGED idx
       ELSE spc' = "lock" /\ idx' = TxProduceIndex
  /\ UNCHANGED <<ringVars, dn, otherVars>>

\* sys_arch_sem_wait(&xtx_count_sem, 0)
SenderSemWait ==
  /\ spc = "semwait" /\ xtx_count_sem > 0
  /\ xtx_count_sem' = xtx_count_sem - 1 /\ spc' = "ready"
  /\ UNCHANGED <<TxProduceIndex, TxConsumeIndex, lasttxidx, intact, dn, idx, otherVars>>

\* One turn of while (dn > 0), the first with sys_mutex_lock.
SenderSetup ==
  /\ spc \in {"lock", "setup"} /\ dn > 0 /\ spc' = "setup" /\ dn' = dn - 1
  /\ idx' = WrapInc(idx) /\ TxProduceIndex' = WrapInc(idx)
  /\ intact' = (intact /\ WrapInc(idx) # lasttxidx)
  /\ UNCHANGED <<TxConsumeIndex, lasttxidx, xtx_count_sem, otherVars>>

\* The EMAC sends what is queued.
HwTransmit ==
  /\ TxConsumeIndex # TxProduceIndex /\ TxConsumeIndex' = WrapInc(TxConsumeIndex)
  /\ UNCHANGED <<TxProduceIndex, lasttxidx, xtx_count_sem, intact, sendVars, otherVars>>

\* The cleanup task holds tx_lock_mutex: no sender sets up its descriptors.
NoSetup == spc # "setup"

\* One turn of while (TxConsumeIndex != lasttxidx)
lpc_tx_reclaim ==
  /\ NoSetup /\ TxConsumeIndex # lasttxidx
  /\ xtx_count_sem' = xtx_count_signal(xtx_count_sem) /\ lasttxidx' = WrapInc(lasttxidx)
  /\ UNCHANGED <<TxProduceIndex, TxConsumeIndex, intact, sendVars, otherVars>>

\* vTransmitCleanupTask finds the bit of an error before the interrupt handler clears it,
\* and resets the ring; what becomes of the two registers is the hardware's.  The bit is
\* not followed here (EmacTx does): an error may be found at any time.
CleanerReset ==
  /\ TRUE \in TxErrors /\ NoSetup
  /\ lasttxidx' = 0 /\ intact' = FALSE
  /\ \/ UNCHANGED <<TxProduceIndex, TxConsumeIndex>>
     \/ TxProduceIndex' = 0 /\ TxConsumeIndex' = 0
  /\ UNCHANGED <<xtx_count_sem, sendVars, otherVars>>

Ring == lpc_tx_reclaim \/ CleanerReset \/ HwTransmit

-----------------------------------------------------------------------------
(* The tcpip thread *)

\* sys_arch_mbox_fetch has a message, or a timer is due first.
Fetch ==
  /\ tpc = "fetch" /\ tcpip_mbox # <<>> /\ tpc' = "lock"
  /\ msg' = Head(tcpip_mbox) /\ tcpip_mbox' = Tail(tcpip_mbox)
  /\ UNCHANGED <<lock_tcpip_core, recvmbox, txVars, rxVars, dpc, appVars, alive, msgs>>

FetchTimeout ==
  /\ tpc = "fetch" /\ tcpip_mbox = <<>> /\ tpc' = "lock"
  /\ UNCHANGED <<tcpip_mbox, lock_tcpip_core, recvmbox, txVars, rxVars, dpc, msg, appVars, alive, msgs>>

\* LOCK_TCPIP_CORE
ThreadLock ==
  /\ tpc = "lock" /\ lock_tcpip_core = NULL
  /\ lock_tcpip_core' = "tcpip" /\ tpc' = "handle"
  /\ UNCHANGED <<tcpip_mbox, recvmbox, txVars, rxVars, dpc, msg, appVars, alive, msgs>>

\* A packet is dropped; a timer or a callback (netif_set_link_up, netif_set_link_down)
\* has nothing to send.
HandleQuietly ==
  /\ tpc = "handle" /\ tpc' = "done"
  /\ alive' = alive \ {msg.p} /\ msg' = [msg EXCEPT !.p = NULL]
  /\ UNCHANGED <<tcpip_mbox, lock_tcpip_core, recvmbox, txVars, rxVars, dpc, appVars, msgs>>

\* A datagram for the socket is delivered.
HandleDelivers ==
  /\ tpc = "handle" /\ tpc' = "deliver" /\ msg.type = "INPKT"
  /\ UNCHANGED <<tcpip_mbox, lock_tcpip_core, recvmbox, txVars, rxVars, dpc, msg, appVars, alive, msgs>>

MutWaits(p, fails) ==      \* sys_mbox_post instead of sys_mbox_trypost
  /\ Len(recvmbox) < DEFAULT_UDP_RECVMBOX_SIZE
  /\ recvmbox' = Append(recvmbox, p) /\ UNCHANGED alive

\* recv_udp: the datagram goes into the mailbox of the socket, or, without room or
\* memory for a netbuf, is freed.
Delivered(p, fails) ==
  IF ~fails /\ Len(recvmbox) < DEFAULT_UDP_RECVMBOX_SIZE
    THEN recvmbox' = Append(recvmbox, p) /\ UNCHANGED alive
    ELSE alive' = alive \ {p} /\ UNCHANGED recvmbox

recv_udp(fails) ==
  /\ tpc = "deliver" /\ tpc' = "done"
  /\ Delivered(msg.p, fails) /\ msg' = [msg EXCEPT !.p = NULL]
  /\ UNCHANGED <<tcpip_mbox, lock_tcpip_core, txVars, rxVars, dpc, appVars, msgs>>

\* It sends a frame: an answer to the packet, an ARP request, a report.
ThreadSends ==
  /\ tpc = "handle" /\ tpc' = "output" /\ \E n \in Clens : Output(n)
  /\ UNCHANGED <<tcpip_mbox, lock_tcpip_core, recvmbox, ringVars, rxVars, dpc, msg, appVars, alive, msgs>>

ThreadOutput ==
  /\ tpc = "output" /\ OutputDone /\ tpc' = "done"
  /\ alive' = alive \ {msg.p} /\ msg' = [msg EXCEPT !.p = NULL]
  /\ UNCHANGED <<tcpip_mbox, lock_tcpip_core, recvmbox, ringVars, rxVars, dpc, appVars, msgs>>

\* The message is freed, and UNLOCK_TCPIP_CORE before the next wait.
ThreadUnlock ==
  /\ tpc = "done" /\ tpc' = "fetch" /\ lock_tcpip_core' = NULL
  /\ msgs' = IF msg.type = "none" THEN msgs ELSE msgs - 1
  /\ msg' = None
  /\ UNCHANGED <<tcpip_mbox, recvmbox, txVars, rxVars, dpc, appVars, alive>>

-----------------------------------------------------------------------------
(* The tasks of the application *)

Goto(a, l) == apc' = [apc EXCEPT ![a] = l]

\* A call of the socket layer: socket, bind, connect, send.
AppCall(a) ==
  /\ apc[a] = "idle" /\ Goto(a, "lock")
  /\ UNCHANGED <<tcpip_mbox, lock_tcpip_core, recvmbox, txVars, rxVars, dpc, threadVars, sp, alive, msgs>>

\* recvfrom in vUDPServer: netconn_recv waits for a datagram ...
RecvFrom ==
  /\ apc[Server] = "idle" /\ recvmbox # <<>> /\ Goto(Server, "copy")
  /\ sp' = Head(recvmbox) /\ recvmbox' = Tail(recvmbox)
  /\ UNCHANGED <<tcpip_mbox, lock_tcpip_core, txVars, rxVars, dpc, threadVars, alive, msgs>>

\* ... which is copied and freed; sendto refuses an address of another length, and len is
\* not initialised.
RecvDone ==
  /\ apc[Server] = "copy" /\ \E l \in {"lock", "idle"} : Goto(Server, l)
  /\ alive' = alive \ {sp} /\ sp' = NULL
  /\ UNCHANGED <<tcpip_mbox, lock_tcpip_core, recvmbox, txVars, rxVars, dpc, threadVars, msgs>>

\* tcpip_send_msg_wait_sem with LWIP_TCPIP_CORE_LOCKING: the app runs the core itself,
\* which sends a frame or does not ...
AppLock(a) ==
  /\ apc[a] = "lock" /\ lock_tcpip_core = NULL
  /\ lock_tcpip_core' = a /\ Goto(a, "output")
  /\ UNCHANGED sendVars \/ \E n \in Clens : Output(n)
  /\ UNCHANGED <<tcpip_mbox, recvmbox, ringVars, rxVars, dpc, threadVars, sp, alive, msgs>>

\* ... before it gives the lock back.
AppOutput(a) ==
  /\ apc[a] = "output"
  /\ OutputDone \/ (spc = "off" /\ UNCHANGED sendVars)
  /\ lock_tcpip_core' = NULL /\ Goto(a, "idle")
  /\ UNCHANGED <<tcpip_mbox, recvmbox, ringVars, rxVars, dpc, threadVars, sp, alive, msgs>>

-----------------------------------------------------------------------------
Input == InpktPost \/ InputError \/ \E fails \in AllocFails : tcpip_inpkt(fails)

Handle == \/ HandleQuietly \/ HandleDelivers \/ ThreadSends \/ ThreadOutput \/ ThreadUnlock
          \/ \E fails \in AllocFails : recv_udp(fails)

Answers == RecvFrom \/ RecvDone

SenderStep == SenderPoll \/ SenderSemWait \/ SenderSetup

Next ==
  \/ \E p \in Pbufs : lpc_enetif_input(p)
  \/ Input \/ sys_mbox_post \/ \E fails \in AllocFails : tcpip_callback(fails)
  \/ Fetch \/ FetchTimeout \/ ThreadLock \/ Handle
  \/ Answers \/ SenderStep \/ Ring
  \/ \E a \in Apps : AppCall(a) \/ AppLock(a) \/ AppOutput(a)

Spec == Init /\ [][Next]_vars

AppStep(a) == AppLock(a) \/ AppOutput(a) \/ (a = Server /\ Answers)

\* Every thread that can go on again and again does: the tcpip thread, of higher
\* priority, gets the lock when it is free, and so do the tasks of lower priority, which
\* run only while the tcpip thread waits, and then it has emptied its mailbox and given
\* back the lock, or is waiting for a descriptor.  The EMAC sends, and the cleanup task
\* is woken to reclaim (EventuallyFreed of EmacTx).
FairSpec ==
  /\ Spec
  /\ WF_vars(Input) /\ SF_vars(Fetch \/ ThreadLock \/ Handle) /\ SF_vars(sys_mbox_post)
  /\ \A a \in Apps : SF_vars(AppStep(a))
  /\ WF_vars(SenderStep) /\ WF_vars(lpc_tx_reclaim) /\ WF_vars(HwTransmit)

-----------------------------------------------------------------------------
(* Properties *)

Count(s, q) == Cardinality({i \in DOMAIN s : s[i] = q})

\* In how many places a packet is held.
Holders(q) ==
  Cardinality({i \in DOMAIN tcpip_mbox : tcpip_mbox[i].p = q}) + Count(recvmbox, q)
    + (IF rp = q THEN 1 ELSE 0) + (IF msg.p = q THEN 1 ELSE 0) + (IF sp = q THEN 1 ELSE 0)

\* A packet that is allocated is held in exactly one place, and one that was freed in
\* none, whichever thread gave up on it; the same goes for messages.  So nothing is
\* freed twice, used after it was freed or lost (lines 172 to 269 of tcpip.c, 251 to
\* 282 of api_msg.c, 789 to 809 of freertos_lwip_mac.c).
Owned ==
  /\ \A q \in Pbufs : Holders(q) = (IF q \in alive THEN 1 ELSE 0)
  /\ msgs = Len(tcpip_mbox) + (IF rpc = "post" THEN 1 ELSE 0) + (IF dpc = "post" THEN 1 ELSE 0)
              + (IF msg.type = "none" THEN 0 ELSE 1)

\* While the ring of descriptors is intact nobody waits for ever: the daemon, which the
\* watchdog watches, gets its message into the mailbox, messages are handled, and an app
\* gets the core and its frame out, whatever the tcpip thread, the server and a sender
\* without descriptors wait for.  After an overrun (line 864 of freertos_lwip_mac.c
\* counts wrongly) or a reset a sender may sleep for ever at line 424 with the core lock
\* in its hands, and all of them with it: what is left then is the watchdog.
GetsThrough ==
  /\ []<>(dpc = "poll" \/ ~intact)
  /\ []<>(tcpip_mbox = <<>> \/ tpc = "done" \/ ~intact)
  /\ \A a \in Apps : []<>(apc[a] \notin {"lock", "output"} \/ ~intact)

=============================================================================
