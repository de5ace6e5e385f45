--------------------------- MODULE PhyLinkProofs ---------------------------
(***************************************************************************)
(* Proofs about link detection, for every size of the mailbox and every     *)
(* number of cable events and failing reads, and about the start of the     *)
(* interface before it (EnetInit), for every number of tries.              *)
(***************************************************************************)
EXTENDS PhyLink, EnetInit, TLAPS

\* The changed bit is only up between two rounds of reads, and what it reports is
\* what olddphysts holds; the daemon acts on it only while it is up.
ChangedInv ==
  /\ physts.changed => physts.bits = olddphysts /\ phyustate = 0
  /\ dpc \in {"set", "post"} => physts.changed

\* When the daemon is about to post, the EMAC has the mode of a connected link.
MacSet == dpc = "post" => (olddphysts.connected => mac = olddphysts.mode)

\* The inductive invariant.  InSync alone is not inductive: that the daemon posts
\* the last change depends on what the driver's bits are while it does so.
IInv == TypeOK /\ ChangedInv /\ MacSet /\ InSync

-----------------------------------------------------------------------------
\* The first message of a queue, the last one and the rest.
LEMMA QueueFacts ==
  ASSUME NEW S, NEW q \in Seq(S), q # <<>>
  PROVE  /\ Head(q) \in S /\ Tail(q) \in Seq(S)
         /\ Len(q) \in Nat /\ Len(Tail(q)) = Len(q) - 1
         /\ Tail(q) = <<>> => Head(q) = q[Len(q)]
         /\ Tail(q) # <<>> => Tail(q)[Len(Tail(q))] = q[Len(q)]
<1>1. /\ Head(q) \in S /\ Head(q) = q[1] /\ Tail(q) \in Seq(S)
      /\ Len(q) \in Nat /\ Len(Tail(q)) = Len(q) - 1
      /\ \A k \in 1..Len(Tail(q)) : Tail(q)[k] = q[k + 1]
  OBVIOUS
<1>2. Tail(q) = <<>> => Len(q) = 1
  <2>1. Len(<<>>) = 0
    OBVIOUS
  <2>2. Tail(q) = <<>> => Len(Tail(q)) = 0
    BY <2>1, Zenon
  <2> QED  BY <1>1, <2>2
<1>3. Tail(q) # <<>> => Len(Tail(q)) \in 1..Len(Tail(q))
  BY <1>1
<1>4. Tail(q) # <<>> => Tail(q)[Len(Tail(q))] = q[Len(Tail(q)) + 1]
  BY <1>1, <1>3
<1> QED  BY <1>1, <1>2, <1>4

\* A message that is posted is the last one of the queue.
LEMMA PostFacts ==
  ASSUME NEW q \in Seq(BOOLEAN), NEW m \in BOOLEAN
  PROVE  /\ Append(q, m) \in Seq(BOOLEAN) /\ Append(q, m) # <<>>
         /\ Len(q) \in Nat /\ Len(Append(q, m)) = Len(q) + 1
         /\ Append(q, m)[Len(Append(q, m))] = m
OBVIOUS

\* The initial states satisfy the inductive invariant.
LEMMA InitInv == Init => IInv
<1> SUFFICES ASSUME Init PROVE IInv
  OBVIOUS
<1>1. TypeOK
  <2>1. NoMode \in Modes /\ [speed100 |-> TRUE, fullduplx |-> TRUE] \in Modes
    BY DEF NoMode, Modes
  <2>2. Down \in Links
    BY <2>1 DEF Down, Links
  <2>3. physts \in [bits : Links, changed : BOOLEAN, busy : BOOLEAN]
    BY <2>2 DEF Init
  <2>4. mbox \in Seq(BOOLEAN) /\ Len(mbox) <= TCPIP_MBOX_SIZE
    BY PhyAssumption DEF Init
  <2>5. phyustate \in 0..2 /\ flaps \in 0..MaxFlaps /\ fails \in 0..MaxReadFails
    BY PhyAssumption DEF Init
  <2>6. sts \in BOOLEAN /\ link_up \in BOOLEAN /\ dropped \in BOOLEAN
    BY DEF Init
  <2>7. /\ link \in Links /\ olddphysts \in Links /\ temp \in Modes /\ mac \in Modes
        /\ dpc \in {"poll", "set", "post", "feed"}
    BY <2>1, <2>2, Zenon DEF Init
  <2> QED
    BY <2>3, <2>4, <2>5, <2>6, <2>7, Zenon DEF TypeOK
<1>2. /\ physts.changed = FALSE /\ dpc = "poll" /\ mbox = <<>> /\ link_up = FALSE
      /\ olddphysts.connected = FALSE
  BY DEF Init, Down
<1>3. InSync
  BY <1>2 DEF InSync, LinkFlagToBe
<1> QED
  BY <1>1, <1>2, <1>3 DEF IInv, ChangedInv, MacSet

\* A poll of the PHY keeps the inductive invariant.
LEMMA PollKeeps == ASSUME IInv, lpcPHYStsPoll PROVE IInv'
<1>1. /\ mac' = mac /\ mbox' = mbox /\ link_up' = link_up /\ link' = link /\ flaps' = flaps
      /\ dropped' = dropped
      /\ dpc = "poll" /\ dpc' = IF physts'.changed THEN "set" ELSE "feed"
  BY DEF lpcPHYStsPoll, PollBmsr, PollBmsrFails, PollMode, smsc_update_phy_sts, Returns
<1>2. LinkFlagToBe' = LinkFlagToBe
  BY <1>1 DEF LinkFlagToBe
<1>3. CASE PollBmsr
  <2>1. sts' = link.connected /\ physts' = [physts EXCEPT !.changed = FALSE, !.busy = TRUE]
    BY <1>3 DEF PollBmsr
  <2>2. /\ physts' \in [bits : Links, changed : BOOLEAN, busy : BOOLEAN]
        /\ physts'.changed = FALSE
    BY <2>1 DEF IInv, TypeOK
  <2>3. sts' \in BOOLEAN
    BY <2>1 DEF IInv, TypeOK, Links
  <2>4. /\ phyustate' = 1
        /\ olddphysts' = olddphysts /\ temp' = temp /\ fails' = fails
    BY <1>3 DEF PollBmsr
  <2>5. TypeOK'
    BY <1>1, <2>2, <2>3, <2>4 DEF IInv, TypeOK
  <2> QED
    BY <1>1, <1>2, <2>2, <2>4, <2>5 DEF IInv, ChangedInv, MacSet, InSync
<1>4. CASE PollBmsrFails
  BY <1>1, <1>2, <1>4, PhyAssumption
     DEF PollBmsrFails, IInv, TypeOK, ChangedInv, MacSet, InSync
<1>5. ASSUME NEW ok \in BOOLEAN, PollMode(ok) PROVE IInv'
  <2>1. temp' \in Modes /\ fails' \in 0..MaxReadFails
    <3>1. link.mode \in Modes /\ fails \in 0..MaxReadFails
      BY DEF IInv, TypeOK, Links
    <3>2. AllOnes \in Modes
      BY DEF AllOnes, Modes
    <3>3. \/ temp' = link.mode /\ fails' = fails
          \/ temp' = AllOnes /\ fails' = fails + 1 /\ fails < MaxReadFails
      BY <1>5 DEF PollMode
    <3> QED  BY <3>1, <3>2, <3>3, PhyAssumption
  <2> QED
    BY <1>1, <1>2, <1>5, <2>1 DEF PollMode, IInv, TypeOK, ChangedInv, MacSet, InSync
<1>6. CASE smsc_update_phy_sts
  <2> DEFINE new == [connected |-> sts, mode |-> temp]
  <2>1. /\ phyustate = 2 /\ phyustate' = 0 /\ sts' = sts /\ temp' = temp /\ fails' = fails
        /\ physts' = [bits |-> new, busy |-> FALSE,
                      changed |-> physts.changed \/ new # olddphysts]
        /\ olddphysts' = IF new # olddphysts THEN new ELSE olddphysts
    BY <1>6 DEF smsc_update_phy_sts, Changed
  <2>2. new \in Links /\ ~physts.changed
    BY <2>1 DEF IInv, TypeOK, ChangedInv, Links
  <2> HIDE DEF new
  <2>3. TypeOK'
    BY <1>1, <2>1, <2>2 DEF IInv, TypeOK
  <2> QED
    BY <1>1, <1>2, <2>1, <2>2, <2>3 DEF IInv, ChangedInv, MacSet, InSync
<1> QED
  BY <1>3, <1>4, <1>5, <1>6 DEF lpcPHYStsPoll

\* The daemon keeps the inductive invariant, with and without memory for its message.
LEMMA DaemonKeeps ==
  ASSUME IInv, DaemonSet \/ DaemonPost(FALSE) \/ DaemonPost(TRUE) \/ DaemonFeed
  PROVE  IInv'
<1>1. CASE DaemonSet
  <2>1. mac' \in Modes
    BY <1>1 DEF DaemonSet, IInv, TypeOK, Links
  <2> QED
    BY <1>1, <2>1 DEF DaemonSet, IInv, TypeOK, ChangedInv, MacSet, InSync, phyVars
<1>2. CASE DaemonPost(FALSE)
  <2>1. /\ mbox' = Append(mbox, physts.bits.connected) /\ Len(mbox) < TCPIP_MBOX_SIZE
        /\ dpc = "post" /\ dpc' = "feed"
        /\ dropped' = FALSE
        /\ UNCHANGED <<link, phyVars, mac, link_up, flaps, fails>>
    BY <1>2 DEF DaemonPost, HasRoom, Posted
  <2>2. mbox \in Seq(BOOLEAN) /\ physts.bits.connected \in BOOLEAN
    BY DEF IInv, TypeOK, Links
  <2>3. /\ mbox' \in Seq(BOOLEAN) /\ mbox' # <<>> /\ Len(mbox') <= TCPIP_MBOX_SIZE
        /\ mbox'[Len(mbox')] = physts.bits.connected
    BY <2>1, <2>2, PostFacts, PhyAssumption
  <2>4. LinkFlagToBe' = olddphysts.connected
    BY <2>1, <2>3 DEF LinkFlagToBe, IInv, ChangedInv
  <2> QED
    BY <2>1, <2>3, <2>4 DEF IInv, TypeOK, ChangedInv, MacSet, InSync, phyVars
<1>3. CASE DaemonFeed
  BY <1>3 DEF DaemonFeed, IInv, TypeOK, ChangedInv, MacSet, InSync, LinkFlagToBe, phyVars
<1>4. CASE DaemonPost(TRUE)
  <2>1. /\ dropped' = TRUE /\ dpc = "post" /\ dpc' = "feed"
        /\ UNCHANGED <<mbox, link, phyVars, mac, link_up, flaps, fails>>
    BY <1>4 DEF DaemonPost
  <2> QED
    BY <2>1 DEF IInv, TypeOK, ChangedInv, MacSet, InSync, phyVars
<1> QED  BY <1>1, <1>2, <1>3, <1>4

\* The tcpip thread and the cable keep the inductive invariant.
LEMMA OthersKeep ==
  ASSUME IInv, tcpip_thread \/ \E l \in Links : LinkChange(l)
  PROVE  IInv'
<1>1. CASE tcpip_thread
  <2>1. /\ mbox # <<>> /\ link_up' = Head(mbox) /\ mbox' = Tail(mbox)
        /\ UNCHANGED <<link, phyVars, mac, dpc, dropped, flaps, fails>>
    BY <1>1 DEF tcpip_thread
  <2>2. mbox \in Seq(BOOLEAN) /\ Len(mbox) <= TCPIP_MBOX_SIZE
    BY DEF IInv, TypeOK
  <2>3. /\ link_up' \in BOOLEAN /\ mbox' \in Seq(BOOLEAN) /\ Len(mbox') <= TCPIP_MBOX_SIZE
        /\ mbox' = <<>> => link_up' = mbox[Len(mbox)]
        /\ mbox' # <<>> => mbox'[Len(mbox')] = mbox[Len(mbox)]
    BY <2>1, <2>2, QueueFacts, PhyAssumption
  <2>4. LinkFlagToBe' = LinkFlagToBe
    BY <2>1, <2>3 DEF LinkFlagToBe
  <2> QED
    BY <2>1, <2>3, <2>4 DEF IInv, TypeOK, ChangedInv, MacSet, InSync, phyVars
<1>2. CASE \E l \in Links : LinkChange(l)
  BY <1>2, PhyAssumption
     DEF LinkChange, IInv, TypeOK, ChangedInv, MacSet, InSync, LinkFlagToBe, phyVars
<1> QED  BY <1>1, <1>2

\* Every step keeps the inductive invariant.
LEMMA NextKeeps == IInv /\ [Next]_vars => IInv'
<1> SUFFICES ASSUME IInv, [Next]_vars PROVE IInv'
  OBVIOUS
<1>1. CASE lpcPHYStsPoll
  BY <1>1, PollKeeps
<1>2. CASE DaemonSet \/ DaemonFeed \/ \E nomem \in NoMemory : DaemonPost(nomem)
  <2>1. DaemonSet \/ DaemonPost(FALSE) \/ DaemonPost(TRUE) \/ DaemonFeed
    <3>1. \A nomem \in NoMemory : nomem = TRUE \/ nomem = FALSE
      BY PhyAssumption
    <3> QED  BY <1>2, <3>1
  <2> QED  BY <2>1, DaemonKeeps
<1>3. CASE tcpip_thread \/ \E l \in Links : LinkChange(l)
  BY <1>3, OthersKeep
<1>4. CASE UNCHANGED vars
  BY <1>4 DEF vars, phyVars, IInv, TypeOK, ChangedInv, MacSet, InSync, LinkFlagToBe
<1> QED  BY <1>1, <1>2, <1>3, <1>4 DEF Next, vEthernetDaemon

-----------------------------------------------------------------------------
\* The driver's state machine, the mailbox and the daemon's variables stay within
\* their types; the mailbox is never overfilled.
THEOREM TypeCorrect == Spec => []TypeOK
<1>1. IInv => TypeOK
  BY DEF IInv
<1> QED  BY <1>1, NextKeeps, InitInv, PTL DEF Spec

\* No change of the link is lost or overtaken on the way to netif and EMAC, whatever
\* reads fail, unless the last callback got no memory (loop of vEthernetDaemon, net.c).
THEOREM LinkInSync == Spec => []InSync
<1>1. IInv => InSync
  BY DEF IInv
<1> QED  BY <1>1, NextKeeps, InitInv, PTL DEF Spec

-----------------------------------------------------------------------------
(* The start of the interface, which brings up the PHY before the link is    *)
(* watched (EnetInit)                                                        *)

\* What has been made when the start is at location l, if the PHY has answered; of what
\* lpc_enetif_init creates, xtx_count_sem is not checked.
MadeBefore(l) ==
  CASE l \in {"irq", "rxen", "xtx_count_sem", "tx_lock_mutex"} -> {"txring", "rxring"}
    [] l = "rx_lock_mutex" -> {"txring", "rxring", "tx_lock_mutex"}
    [] l = "rx_sem" -> {"txring", "rxring", "tx_lock_mutex", "rx_lock_mutex"}
    [] l \in {"take", "rx_task"} ->
         {"txring", "rxring", "tx_lock_mutex", "rx_lock_mutex", "rx_sem"}
    [] l = "tx_clean_sem" ->
         {"txring", "rxring", "tx_lock_mutex", "rx_lock_mutex", "rx_sem", "rx_task"}
    [] l = "tx_task" ->
         {"txring", "rxring", "tx_lock_mutex", "rx_lock_mutex", "rx_sem", "rx_task",
          "tx_clean_sem"}
    [] OTHER -> {}

\* ReadyWhenOk is about the end of the start: this is what it is at each step before.
StartInv ==
  /\ pc \in {"reset", "phywait"} => "phy" \notin made
  /\ "phy" \in made => MadeBefore(pc) \subseteq made
  /\ ret = "ERR_OK" => pc \in {"done", "fault"}
  /\ ReadyWhenOk

\* When the PHY answers, ERR_OK means that rings, locks, semaphores and tasks exist,
\* for every number of tries and whatever fails (lpc_enetif_init).
THEOREM StartReportsFailure == StartSpec => []ReadyWhenOk
<1>1. StartInit => StartInv
  BY DEF StartInit, StartInv, ReadyWhenOk
<1>2. StartInv /\ [StartNext]_startVars => StartInv'
  <2> SUFFICES ASSUME StartInv, [StartNext]_startVars PROVE StartInv'
    OBVIOUS
  <2>1. CASE UNCHANGED startVars
    BY <2>1 DEF StartInv, startVars, ReadyWhenOk, MadeBefore
  <2>2. CASE \E f \in PhyFails : PhyReset(f)
    BY <2>2 DEF StartInv, ReadyWhenOk, PhyReset, PhyError
  <2>3. CASE \E f \in PhyFails, ready \in BOOLEAN : PhyWait(f, ready)
    BY <2>3 DEF StartInv, ReadyWhenOk, PhyWait, PhyError
  <2>4. CASE PhyDone
    BY <2>4 DEF StartInv, ReadyWhenOk, PhyDone, PhyError, MadeBefore
  <2>5. CASE \E nomem \in CreateFails : SetupRings(nomem)
    BY <2>5 DEF StartInv, ReadyWhenOk, SetupRings, Return, MadeBefore
  <2>6. CASE EnableInterrupts \/ EnableReceiver \/ TakeNew
    BY <2>6 DEF StartInv, ReadyWhenOk, EnableInterrupts, EnableReceiver,
                TakeNew, NextObject, Order, MadeBefore
  <2>7. ASSUME NEW obj \in DOMAIN Order, NEW nomem \in CreateFails, Create(obj, nomem)
        PROVE  StartInv'
    BY <2>7 DEF StartInv, ReadyWhenOk, Create, Return, FailureOf,
                NextObject, Order, Objects, MadeBefore
  <2>8. CASE HwReceive \/ vPacketReceiveTask
    BY <2>8 DEF StartInv, ReadyWhenOk, HwReceive, vPacketReceiveTask
  <2>9. CASE ENET_IRQHandler
    BY <2>9 DEF StartInv, ReadyWhenOk, ENET_IRQHandler, MadeBefore
  <2> QED
    BY <2>1, <2>2, <2>3, <2>4, <2>5, <2>6, <2>7, <2>8, <2>9 DEF StartNext, StartStep
<1> QED  BY <1>1, <1>2, PTL DEF StartSpec, StartInv

=============================================================================
