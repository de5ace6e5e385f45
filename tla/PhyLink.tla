------------------------------ MODULE PhyLink ------------------------------
(***************************************************************************)
(* Link detection: lpcPHYStsPoll (lwip/arch/phy_smsc87x0.c) reads the PHY   *)
(* in three steps, one in each call; the loop of vEthernetDaemon            *)
(* (app/src/net.c) calls it, sets the EMAC to the speed and duplex mode of  *)
(* the link and asks the tcpip thread to set the netif's link flag          *)
(* (lwip/api/tcpip.c).                                                      *)
(*                                                                         *)
(* A mode is a record of speed and duplex.  The mailbox of the tcpip thread *)
(* holds the daemon's callbacks; packets in it only delay them.            *)
(***************************************************************************)
EXTENDS Integers, Sequences

CONSTANTS
  TCPIP_MBOX_SIZE,  \* messages the mailbox holds
  MaxFlaps,         \* bound: changes of the cable or of the negotiated mode
  MaxReadFails,     \* bound: reads of the PHY that time out
  NoMemory          \* can memp_malloc fail?  subset of BOOLEAN

ASSUME PhyAssumption == /\ TCPIP_MBOX_SIZE \in Nat \ {0}
                        /\ MaxFlaps \in Nat /\ MaxReadFails \in Nat
                        /\ FALSE \in NoMemory /\ NoMemory \subseteq BOOLEAN

VARIABLES
  link,              \* the cable: is it connected, the negotiated mode
  physts, olddphysts,\* the driver's status bits, and those of the last change
  phyustate,         \* the driver: what the next call does
  sts, temp,         \* the driver: what it has read of the PHY
  mac,               \* EMAC: the mode that is set
  dpc,               \* the daemon: location
  mbox,              \* callbacks that wait for the tcpip thread
  link_up,           \* NETIF_FLAG_LINK_UP
  dropped,           \* ghost: did the daemon's last callback get no memory?
  flaps, fails       \* counters for the bounds

phyVars == <<physts, olddphysts, phyustate, sts, temp>>
vars == <<link, phyVars, mac, dpc, mbox, link_up, dropped, flaps, fails>>

Modes == [speed100 : BOOLEAN, fullduplx : BOOLEAN]
Links == [connected : BOOLEAN, mode : Modes]

\* The mode of the mask LAN8_SPEEDMASK when readphy returned -1, all bits set.
AllOnes == [speed100 |-> FALSE, fullduplx |-> TRUE]
NoMode  == [speed100 |-> FALSE, fullduplx |-> FALSE]
Down    == [connected |-> FALSE, mode |-> NoMode]

-----------------------------------------------------------------------------
MutConnectedOnly(new, old) == new.connected # old.connected  \* the mode forgotten
MutOutOfTurn(q, m) == <<m>> \o q                             \* the newest first
MutOneTooMany(q) == Len(q) <= TCPIP_MBOX_SIZE                \* off by one

\* Do the bits SPEED100, FULLDUPLX and CONNECTED differ?
Changed(new, old) == new # old

\* The mailbox after m was posted.
Posted(q, m) == Append(q, m)

\* The mailbox is a queue of TCPIP_MBOX_SIZE messages.
HasRoom(q) == Len(q) < TCPIP_MBOX_SIZE

-----------------------------------------------------------------------------
(* After lpc_phy_init and low_level_init *)
Init ==
  /\ link \in Links
  /\ physts = [bits |-> Down, changed |-> FALSE, busy |-> FALSE]
  /\ olddphysts = Down
  /\ phyustate = 0 /\ sts = FALSE /\ temp = NoMode
  /\ mac = [speed100 |-> TRUE, fullduplx |-> TRUE]
  /\ dpc = "poll" /\ mbox = <<>> /\ link_up = FALSE /\ dropped = FALSE
  /\ flaps = 0 /\ fails = 0

-----------------------------------------------------------------------------
\* The cable is pulled, plugged in or negotiates another mode.
LinkChange(l) ==
  /\ flaps < MaxFlaps /\ flaps' = flaps + 1
  /\ l # link /\ link' = l
  /\ UNCHANGED <<phyVars, mac, dpc, mbox, link_up, dropped, fails>>

-----------------------------------------------------------------------------
(* lpcPHYStsPoll; the daemon goes on with what it returns, physts *)

\* if (physts & PHY_LINK_CHANGED)
Returns == dpc' = IF physts'.changed THEN "set" ELSE "feed"

\* case 0: read BMSR.  A read that fails leaves everything as it was.
PollBmsr ==
  /\ dpc = "poll" /\ phyustate = 0
  /\ sts' = link.connected
  /\ physts' = [physts EXCEPT !.changed = FALSE, !.busy = TRUE]
  /\ phyustate' = 1
  /\ Returns
  /\ UNCHANGED <<link, olddphysts, temp, mac, mbox, link_up, dropped, flaps, fails>>

PollBmsrFails ==
  /\ dpc = "poll" /\ phyustate = 0
  /\ fails < MaxReadFails /\ fails' = fails + 1
  /\ UNCHANGED physts /\ Returns
  /\ UNCHANGED <<link, olddphysts, phyustate, sts, temp, mac, mbox, link_up, dropped, flaps>>

\* case 1: read the PHY's status register.  A failure is not noticed.
PollMode(ok) ==
  /\ dpc = "poll" /\ phyustate = 1
  /\ \/ ok /\ temp' = link.mode /\ UNCHANGED fails
     \/ ~ok /\ fails < MaxReadFails /\ fails' = fails + 1 /\ temp' = AllOnes
  /\ phyustate' = 2
  /\ UNCHANGED physts /\ Returns
  /\ UNCHANGED <<link, olddphysts, sts, mac, mbox, link_up, dropped, flaps>>

\* case 2: smsc_update_phy_sts
smsc_update_phy_sts ==
  LET new == [connected |-> sts, mode |-> temp] IN
  /\ dpc = "poll" /\ phyustate = 2
  /\ physts' = [bits |-> new, busy |-> FALSE,
                changed |-> physts.changed \/ Changed(new, olddphysts)]
  /\ olddphysts' = IF Changed(new, olddphysts) THEN new ELSE olddphysts
  /\ phyustate' = 0
  /\ Returns
  /\ UNCHANGED <<link, sts, temp, mac, mbox, link_up, dropped, flaps, fails>>

-----------------------------------------------------------------------------
(* The daemon and the tcpip thread *)

\* lpc_emac_set_speed, lpc_emac_set_duplex
DaemonSet ==
  /\ dpc = "set" /\ dpc' = "post"
  /\ mac' = IF physts.bits.connected THEN physts.bits.mode ELSE mac
  /\ UNCHANGED <<link, phyVars, mbox, link_up, dropped, flaps, fails>>

\* tcpip_callback waits for room in the mailbox; without memory it returns
\* ERR_MEM, which the daemon does not look at.
DaemonPost(nomem) ==
  /\ dpc = "post" /\ dpc' = "feed"
  /\ \/ nomem /\ UNCHANGED mbox
     \/ /\ ~nomem /\ HasRoom(mbox)
        /\ mbox' = Posted(mbox, physts.bits.connected)
  /\ dropped' = nomem
  /\ UNCHANGED <<link, phyVars, mac, link_up, flaps, fails>>

\* vTaskDelay, xEventGroupSetBits; the loop starts again
DaemonFeed ==
  /\ dpc = "feed" /\ dpc' = "poll"
  /\ UNCHANGED <<link, phyVars, mac, mbox, link_up, dropped, flaps, fails>>

\* The tcpip thread calls netif_set_link_up (TRUE) or netif_set_link_down.
tcpip_thread ==
  /\ mbox # <<>>
  /\ link_up' = Head(mbox) /\ mbox' = Tail(mbox)
  /\ UNCHANGED <<link, phyVars, mac, dpc, dropped, flaps, fails>>

-----------------------------------------------------------------------------
lpcPHYStsPoll == \/ PollBmsr \/ PollBmsrFails \/ smsc_update_phy_sts
                 \/ \E ok \in BOOLEAN : PollMode(ok)

vEthernetDaemon == \/ lpcPHYStsPoll \/ DaemonSet \/ DaemonFeed
                   \/ \E nomem \in NoMemory : DaemonPost(nomem)

Next == \/ vEthernetDaemon \/ tcpip_thread
        \/ \E l \in Links : LinkChange(l)

Spec == Init /\ [][Next]_vars

\* Both tasks get the processor: the tcpip thread has the highest priority, the
\* daemon shares its priority with others and time slicing is on.
FairSpec == Spec /\ WF_vars(vEthernetDaemon) /\ WF_vars(tcpip_thread)

-----------------------------------------------------------------------------
(* Properties *)

\* Every variable has the type its declaration in the code gives it.
TypeOK ==
  /\ link \in Links
  /\ physts \in [bits : Links, changed : BOOLEAN, busy : BOOLEAN]
  /\ olddphysts \in Links
  /\ phyustate \in 0..2 /\ sts \in BOOLEAN /\ temp \in Modes
  /\ mac \in Modes
  /\ dpc \in {"poll", "set", "post", "feed"}
  /\ mbox \in Seq(BOOLEAN) /\ Len(mbox) <= TCPIP_MBOX_SIZE
  /\ link_up \in BOOLEAN /\ dropped \in BOOLEAN
  /\ flaps \in 0..MaxFlaps /\ fails \in 0..MaxReadFails

\* The link flag when all callbacks that wait have been called.
LinkFlagToBe == IF mbox = <<>> THEN link_up ELSE mbox[Len(mbox)]

\* No change is lost, doubled into its opposite or overtaken: whenever the daemon
\* is about to poll, the EMAC's mode of a connected link and, unless the last
\* callback got no memory, what the tcpip thread will end up with, are those of the
\* last change the driver reported.  Callbacks that were dropped before do not matter.
InSync ==
  dpc \in {"poll", "feed"} =>
    /\ ~dropped => LinkFlagToBe = olddphysts.connected
    /\ olddphysts.connected => mac = olddphysts.mode

\* Once the cable is left alone and the PHY answers, netif and EMAC come to agree
\* with it ("This loop monitors the PHY link and will handle cable events",
\* net.c:304), whatever was read half before and half after a change.  The link flag
\* stays wrong when the last callback was dropped: nobody looks at its ERR_MEM.
LinkTracked == <>[](/\ dropped \/ link_up = link.connected
                    /\ link.connected => mac = link.mode)

=============================================================================
