---------------------------- MODULE EmacTxProofs ----------------------------
(***************************************************************************)
(* Proofs about EmacTx, for every ring size, every set of packets and      *)
(* every chain length.                                                     *)
(***************************************************************************)
EXTENDS EmacTx, TLAPS

\* What the type invariant needs to know of the sender's local variables.
SenderLocals == spc # "idle" => sp \in Pbufs

TypeInv == TypeOK /\ SenderLocals

\* The successor of a slot is a slot.
LEMMA WrapIncType ==
  ASSUME NEW i \in Slots PROVE WrapInc(i) \in Slots
BY FragAssumption DEF Slots, WrapInc

\* Every step of the driver, the handler and the hardware keeps the types.
LEMMA TypeStep == TypeInv /\ [Next]_vars => TypeInv'
<1> SUFFICES ASSUME TypeInv, [Next]_vars PROVE TypeInv'
  OBVIOUS
<1> USE DEF TypeInv, TypeOK, SenderLocals
<1>1. ASSUME NEW p \in Pbufs, NEW n \in Clens, NEW bounce \in BOOLEAN,
             lpc_low_level_output(p, n, bounce)
      PROVE TypeInv'
  BY <1>1, ClenAssumption
     DEF lpc_low_level_output, hwVars, ringVars, semVars, isrVars, histVars
<1>2. CASE SenderPoll
  BY <1>2 DEF SenderPoll, hwVars, ringVars, semVars, isrVars, histVars
<1>3. CASE SenderSemWait
  BY <1>3, FragAssumption
     DEF SenderSemWait, hwVars, ringVars, isrVars, histVars
<1>4. CASE SenderLock
  BY <1>4 DEF SenderLock, RefTaken, hwVars, ringVars, isrVars, histVars
<1>5. CASE SenderSetup
  <2>1. WrapInc(idx) \in Slots
    BY WrapIncType
  <2>2. dn - 1 \in 0..255
    BY <1>5, ClenAssumption DEF SenderSetup
  <2>3. [pkt |-> sp, last |-> dn - 1 = 0] \in Descs
    BY <1>5 DEF SenderSetup, Descs
  <2>4. TxbEntry(sp, dn - 1) \in Pbufs \cup {NULL}
    BY DEF TxbEntry
  <2>5. ptxd' \in [Slots -> Descs] /\ txb' \in [Slots -> Pbufs \cup {NULL}]
    BY <1>5, <2>3, <2>4 DEF SenderSetup
  <2> QED
    BY <1>5, <2>1, <2>2, <2>5 DEF SenderSetup, semVars, isrVars
<1>6. CASE SenderUnlock
  <2>1. 0 \in Slots
    BY FragAssumption DEF Slots
  <2> QED
    BY <1>6, <2>1 DEF SenderUnlock, hwVars, ringVars, isrVars, histVars
<1>7. CASE CleanerSemWait
  BY <1>7 DEF CleanerSemWait, hwVars, ringVars, sndVars, isrVars, histVars
<1>8. CASE CleanerCheck
  BY <1>8 DEF CleanerCheck, hwVars, ringVars, semVars, sndVars, isrVars, histVars
<1>9. CASE CleanerReset
  <2>1. 0 \in Slots
    BY FragAssumption DEF Slots
  <2>2. ptxd' \in [Slots -> Descs]
    BY <1>9 DEF CleanerReset, Descs
  <2> QED
    BY <1>9, <2>1, <2>2 DEF CleanerReset, semVars, sndVars, isrVars
<1>10. CASE CleanerLock
  BY <1>10 DEF CleanerLock, hwVars, ringVars, sndVars, isrVars, histVars
<1>11. CASE lpc_tx_reclaim
  <2>1. WrapInc(lasttxidx) \in Slots
    BY WrapIncType
  <2>2. txb' \in [Slots -> Pbufs \cup {NULL}]
    BY <1>11 DEF lpc_tx_reclaim, TxbFreed
  <2>3. xtx_count_sem' \in 0..EMAC_NUM_TX_FRAG
    BY <1>11, FragAssumption DEF lpc_tx_reclaim, xtx_count_signal
  <2> QED
    BY <1>11, <2>1, <2>2, <2>3 DEF lpc_tx_reclaim, hwVars, sndVars, isrVars, histVars
<1>12. CASE CleanerUnlock
  BY <1>12 DEF CleanerUnlock, hwVars, ringVars, sndVars, isrVars, histVars
<1>13. CASE IsrEnter
  BY <1>13 DEF IsrEnter, hwVars, ringVars, sndVars, histVars
<1>14. CASE IsrExit
  BY <1>14 DEF IsrExit, ringVars, semVars, sndVars, histVars
<1>15. ASSUME NEW err \in TxErrors, HwTransmit(err) PROVE TypeInv'
  <2>1. WrapInc(TxConsumeIndex) \in Slots
    BY WrapIncType
  <2> QED
    BY <1>15, <2>1 DEF HwTransmit, TxBits, ringVars, semVars, sndVars, isrVars, histVars
<1>16. CASE UNCHANGED vars
  BY <1>16 DEF vars, hwVars, ringVars, semVars, sndVars, isrVars, histVars
<1> QED
  BY <1>1, <1>2, <1>3, <1>4, <1>5, <1>6, <1>7, <1>8, <1>9, <1>10, <1>11, <1>12,
     <1>13, <1>14, <1>15, <1>16 DEF Next, SenderStep, CleanerStep

\* The state after lpc_tx_setup has the right types.
LEMMA TypeInit == Init => TypeInv
<1> SUFFICES ASSUME Init PROVE TypeInv
  OBVIOUS
<1>1. 0 \in Slots /\ EMAC_NUM_TX_FRAG \in 0..EMAC_NUM_TX_FRAG /\ 0 \in 0..255
        /\ 0 \in 0..1
  BY FragAssumption, ClenAssumption DEF Slots
<1>2. ptxd \in [Slots -> Descs] /\ txb \in [Slots -> Pbufs \cup {NULL}]
  BY DEF Init, Descs
<1> QED
  BY <1>1, <1>2 DEF Init, TypeInv, TypeOK, SenderLocals, TxBits

\* The driver's variables keep their types in every behaviour.
THEOREM TypeCorrect == Spec => []TypeOK
<1>1. TypeInv => TypeOK
  BY DEF TypeInv
<1> QED
  BY <1>1, TypeInit, TypeStep, PTL DEF Spec

-----------------------------------------------------------------------------
(* No pbuf is freed twice *)

\* A packet that is not copied has no driver reference before pbuf_ref.
NotYetReferenced ==
  spc \in {"ready", "semwait", "lock"} /\ ~notdmasafe => sp \notin drvref

OwnInv == TypeInv /\ NoDoubleFree /\ NotYetReferenced

\* A step that leaves the references, txb and the sender alone keeps OwnInv.
LEMMA OwnUntouched ==
  ASSUME OwnInv, TypeInv', UNCHANGED <<drvref, txb, sndVars>>
  PROVE  OwnInv'
BY DEF OwnInv, NoDoubleFree, NotYetReferenced, SenderHolds, sndVars

\* Every step keeps OwnInv: a reference is freed only by the slot that holds it.
LEMMA OwnStep == OwnInv /\ [Next]_vars => OwnInv'
<1> SUFFICES ASSUME OwnInv, [Next]_vars PROVE OwnInv'
  OBVIOUS
<1>0. TypeInv' /\ TypeInv
  BY TypeStep DEF OwnInv
<1>00. NULL \notin drvref
  BY <1>0, NullAssumption DEF TypeInv, TypeOK
<1>1. ASSUME NEW p \in Pbufs, NEW n \in Clens, NEW bounce \in BOOLEAN,
             lpc_low_level_output(p, n, bounce)
      PROVE OwnInv'
  <2>1. \A i \in Slots : txb[i] # p
    BY <1>1, NullAssumption DEF lpc_low_level_output, OwnInv, NoDoubleFree
  <2> QED
    BY <1>1, <1>0, <2>1
       DEF lpc_low_level_output, OwnInv, NoDoubleFree, NotYetReferenced, SenderHolds,
           ringVars
<1>2. CASE SenderPoll
  BY <1>2, <1>0
     DEF SenderPoll, OwnInv, NoDoubleFree, NotYetReferenced, SenderHolds, ringVars
<1>3. CASE SenderSemWait
  BY <1>3, <1>0
     DEF SenderSemWait, OwnInv, NoDoubleFree, NotYetReferenced, SenderHolds, ringVars
<1>4. CASE SenderLock
  <2>1. sp \in Pbufs /\ notdmasafe \in BOOLEAN
    BY <1>4, <1>0 DEF SenderLock, TypeInv, TypeOK, SenderLocals
  <2>2. \A i \in Slots : txb[i] # sp
    BY <1>4, <2>1, NullAssumption
       DEF SenderLock, OwnInv, NoDoubleFree, NotYetReferenced, SenderHolds
  <2>3. sp \in drvref' /\ drvref \subseteq drvref'
    BY <1>4, <2>1 DEF SenderLock, RefTaken, OwnInv, NoDoubleFree, SenderHolds
  <2> QED
    BY <1>4, <1>0, <2>2, <2>3
       DEF SenderLock, OwnInv, NoDoubleFree, NotYetReferenced, SenderHolds, ringVars
<1>5. CASE SenderSetup
  <2>1. sp \in drvref /\ \A i \in Slots : txb[i] # sp
    BY <1>5 DEF SenderSetup, OwnInv, NoDoubleFree, SenderHolds
  <2>2. /\ idx \in Slots /\ dn \in 0..255
        /\ txb \in [Slots -> Pbufs \cup {NULL}]
    BY <1>0 DEF TypeInv, TypeOK
  <2>3. \A i \in Slots : txb'[i] = IF i = idx THEN TxbEntry(sp, dn - 1) ELSE txb[i]
    BY <1>5, <2>2 DEF SenderSetup
  <2>4. NoDoubleFree'
    <3>1. CASE dn - 1 = 0
      BY <1>5, <2>1, <2>2, <2>3, <3>1
         DEF SenderSetup, OwnInv, NoDoubleFree, SenderHolds, TxbEntry
    <3>2. CASE dn - 1 # 0
      <4>1. \A i \in Slots : txb'[i] # NULL => i # idx /\ txb'[i] = txb[i]
        BY <2>3, <3>2 DEF TxbEntry
      <4>2. \A i \in Slots : txb'[i] # sp
        BY <2>1, <4>1, <1>00
      <4> QED
        BY <1>5, <2>1, <4>1, <4>2 DEF SenderSetup, OwnInv, NoDoubleFree
    <3> QED
      BY <3>1, <3>2
  <2> QED
    BY <1>0, <1>5, <2>4 DEF SenderSetup, OwnInv, NotYetReferenced
<1>6. CASE SenderUnlock
  BY <1>6, <1>0
     DEF SenderUnlock, OwnInv, NoDoubleFree, NotYetReferenced, SenderHolds, ringVars
<1>7. CASE CleanerSemWait
  BY <1>7, <1>0, OwnUntouched DEF CleanerSemWait, ringVars
<1>8. CASE CleanerCheck
  BY <1>8, <1>0, OwnUntouched DEF CleanerCheck, ringVars
<1>9. CASE CleanerReset
  <2>1. \A i \in Slots : txb'[i] = NULL
    BY <1>9 DEF CleanerReset
  <2>2. SenderHolds => sp \in drvref'
    BY <1>9 DEF CleanerReset, OwnInv, NoDoubleFree
  <2>3. drvref' \subseteq drvref
    BY <1>9 DEF CleanerReset
  <2> QED
    BY <1>9, <1>0, <1>00, <2>1, <2>2, <2>3
       DEF CleanerReset, OwnInv, NoDoubleFree, NotYetReferenced, SenderHolds, sndVars
<1>10. CASE CleanerLock
  BY <1>10, <1>0, OwnUntouched DEF CleanerLock, ringVars
<1>11. CASE lpc_tx_reclaim
  <2>1. /\ lasttxidx \in Slots
        /\ txb \in [Slots -> Pbufs \cup {NULL}]
    BY <1>0 DEF TypeInv, TypeOK
  <2>2. \A i \in Slots : txb'[i] = IF i = lasttxidx THEN NULL ELSE txb[i]
    BY <1>11, <2>1 DEF lpc_tx_reclaim, TxbFreed
  <2>3. \A i \in Slots : txb'[i] # NULL => txb'[i] \in drvref'
    BY <1>11, <2>1, <2>2 DEF lpc_tx_reclaim, OwnInv, NoDoubleFree
  <2>4. SenderHolds' => sp' \in drvref' /\ \A i \in Slots : txb'[i] # sp'
    BY <1>11, <1>00, <2>1, <2>2
       DEF lpc_tx_reclaim, OwnInv, NoDoubleFree, SenderHolds, sndVars
  <2>5. NoDoubleFree'
    BY <2>1, <2>2, <2>3, <2>4 DEF OwnInv, NoDoubleFree
  <2> QED
    BY <1>11, <1>0, <2>5 DEF lpc_tx_reclaim, OwnInv, NotYetReferenced, sndVars
<1>12. CASE CleanerUnlock
  BY <1>12, <1>0, OwnUntouched DEF CleanerUnlock, ringVars
<1>13. CASE IsrEnter
  BY <1>13, <1>0, OwnUntouched DEF IsrEnter, ringVars
<1>14. CASE IsrExit
  BY <1>14, <1>0, OwnUntouched DEF IsrExit, ringVars
<1>15. ASSUME NEW err \in TxErrors, HwTransmit(err) PROVE OwnInv'
  BY <1>15, <1>0, OwnUntouched DEF HwTransmit, ringVars
<1>16. CASE UNCHANGED vars
  BY <1>16, <1>0, OwnUntouched DEF vars, ringVars
<1> QED
  BY <1>1, <1>2, <1>3, <1>4, <1>5, <1>6, <1>7, <1>8, <1>9, <1>10, <1>11, <1>12,
     <1>13, <1>14, <1>15, <1>16 DEF Next, SenderStep, CleanerStep

\* Initially the driver holds nothing.
LEMMA OwnInit == Init => OwnInv
BY TypeInit DEF Init, OwnInv, NoDoubleFree, NotYetReferenced, SenderHolds

\* No pbuf is freed twice, in any behaviour of the driver.
THEOREM NeverFreedTwice == Spec => []NoDoubleFree
<1>1. OwnInv => NoDoubleFree
  BY DEF OwnInv
<1> QED
  BY <1>1, OwnInit, OwnStep, PTL DEF Spec

-----------------------------------------------------------------------------
(* The ring: what the driver believes of it while it is intact *)

InRegion(i) == InRing(i, lasttxidx, TxProduceIndex)

\* Every slot that is not reclaimed points to a packet the driver still owns.
RegionLive == \A i \in Slots : InRegion(i) => ptxd[i].pkt \in drvref

\* No slot after the last one of a packet belongs to the same packet.
LastIsLast ==
  \A i, j \in Slots : InRegion(i) /\ InRegion(j) /\ InRing(i, lasttxidx, j)
                        /\ ptxd[i].last => ptxd[j].pkt # ptxd[i].pkt

\* The index the sender took before it had the mutex is not stale.
IdxIsProduce == spc \in {"lock", "setup"} => idx = TxProduceIndex

SenderHasFragments == spc \in {"ready", "semwait", "lock"} => dn > 0

RingInv ==
  /\ OwnInv
  /\ SenderHasFragments
  /\ RingAccounting
  /\ NoLeak
  /\ Intact => RegionLive /\ LastIsLast /\ IdxIsProduce

(* Circular intervals: l stands for lasttxidx, c for TxConsumeIndex, p for
   TxProduceIndex; the region is the interval from l to p *)

\* Handing over a slot adds exactly that slot to the region, unless it overruns.
LEMMA RingGrow ==
  ASSUME NEW i \in Slots, NEW l \in Slots, NEW p \in Slots, WrapInc(p) # l
  PROVE  InRing(i, l, WrapInc(p)) <=> InRing(i, l, p) \/ i = p
BY FragAssumption DEF InRing, WrapInc, Slots

\* Reclaiming the oldest slot takes exactly that slot out of the region.
LEMMA RingShrink ==
  ASSUME NEW i \in Slots, NEW l \in Slots, NEW p \in Slots, l # p
  PROVE  InRing(i, WrapInc(l), p) <=> InRing(i, l, p) /\ i # l
BY FragAssumption DEF InRing, WrapInc, Slots

\* The end of the region is outside it; its beginning is inside unless it is empty.
LEMMA RingEnds ==
  ASSUME NEW l \in Slots, NEW p \in Slots
  PROVE  ~InRing(p, l, p) /\ (l # p => InRing(l, l, p))
BY DEF InRing, Slots

\* The end of the region does not come before a slot of the region.
LEMMA RingOrder ==
  ASSUME NEW j \in Slots, NEW l \in Slots, NEW p \in Slots, InRing(j, l, p)
  PROVE  ~InRing(p, l, j)
BY DEF InRing, Slots

\* The hardware stays in the region, or reaches its end, when it has sent a slot.
LEMMA RingConsume ==
  ASSUME NEW c \in Slots, NEW l \in Slots, NEW p \in Slots, InRing(c, l, p)
  PROVE  WrapInc(c) = p \/ InRing(WrapInc(c), l, p)
BY FragAssumption DEF InRing, WrapInc, Slots

\* When the hardware is ahead of lasttxidx, reclaiming a slot does not overtake it.
LEMMA RingReclaim ==
  ASSUME NEW c \in Slots, NEW l \in Slots, NEW p \in Slots, c # l,
         c = p \/ InRing(c, l, p)
  PROVE  l # p /\ (c = p \/ InRing(c, WrapInc(l), p))
BY FragAssumption DEF InRing, WrapInc, Slots

\* What the hardware has still to send is part of the region.
LEMMA RingInFlight ==
  ASSUME NEW i \in Slots, NEW c \in Slots, NEW l \in Slots, NEW p \in Slots,
         c = p \/ InRing(c, l, p), InRing(i, c, p)
  PROVE  InRing(i, l, p)
BY DEF InRing, Slots

\* A step that leaves the ring, the references and the sender alone keeps RingInv.
LEMMA RingUntouched ==
  ASSUME RingInv, OwnInv',
         UNCHANGED <<TxProduceIndex, TxConsumeIndex, ringVars, sndVars, drvref, histVars>>
  PROVE  RingInv'
BY DEF RingInv, SenderHasFragments, RingAccounting, NoLeak, RegionLive, LastIsLast,
       IdxIsProduce, InRegion, SenderHolds, Intact, ringVars, sndVars, histVars

\* A step of the sender that does not touch the ring keeps RingInv when it keeps
\* what the sender itself knows and what it holds.
LEMMA RingSender ==
  ASSUME RingInv, OwnInv', SenderHasFragments', IdxIsProduce' \/ ~Intact,
         UNCHANGED <<TxProduceIndex, TxConsumeIndex, ringVars, histVars>>,
         drvref \subseteq drvref',
         \A p \in drvref' : p \in drvref \/ (SenderHolds' /\ sp' = p),
         SenderHolds => SenderHolds' /\ sp' = sp
  PROVE  RingInv'
BY DEF RingInv, RingAccounting, NoLeak, RegionLive, LastIsLast, InRegion, Intact,
       ringVars, histVars

\* The sender writes one descriptor and hands it to the hardware.
LEMMA RingSetup == ASSUME RingInv, OwnInv', SenderSetup PROVE RingInv'
<1>1. /\ idx \in Slots /\ lasttxidx \in Slots /\ TxProduceIndex \in Slots
      /\ TxConsumeIndex \in Slots /\ dn \in 0..255 /\ sp \in Pbufs
      /\ txb \in [Slots -> Pbufs \cup {NULL}] /\ ptxd \in [Slots -> Descs]
      /\ WrapInc(idx) \in Slots
  BY WrapIncType DEF RingInv, OwnInv, TypeInv, TypeOK, SenderLocals, SenderSetup
<1>2. SenderHasFragments'
  BY DEF SenderSetup, SenderHasFragments
<1>3. SUFFICES ASSUME Intact'
               PROVE  (RingAccounting /\ NoLeak /\ RegionLive /\ LastIsLast /\ IdxIsProduce)'
  BY <1>2 DEF RingInv, RingAccounting, NoLeak
<1>4. Intact /\ WrapInc(idx) # lasttxidx /\ idx = TxProduceIndex
  BY <1>3 DEF Intact, SenderSetup, RingInv, IdxIsProduce
<1>5. /\ RegionLive /\ LastIsLast
      /\ TxConsumeIndex = TxProduceIndex
           \/ InRing(TxConsumeIndex, lasttxidx, TxProduceIndex)
      /\ \A i \in Slots : txb[i] = IF InRegion(i) /\ ptxd[i].last THEN ptxd[i].pkt ELSE NULL
  BY <1>4 DEF RingInv, RingAccounting, InRegion
<1>6. sp \in drvref /\ \A i \in Slots : txb[i] # sp
  BY DEF RingInv, OwnInv, NoDoubleFree, SenderHolds, SenderSetup
<1>7. \A i \in Slots : InRegion(i)' <=> InRegion(i) \/ i = idx
  BY <1>1, <1>4, RingGrow DEF InRegion, SenderSetup
<1>8. ~InRegion(idx)
  BY <1>1, <1>4, RingEnds DEF InRegion
<1>9. \A i \in Slots : /\ i # idx => ptxd'[i] = ptxd[i] /\ txb'[i] = txb[i]
                       /\ i = idx => /\ ptxd'[i].pkt = sp
                                     /\ ptxd'[i].last <=> dn - 1 = 0
                                     /\ txb'[i] = TxbEntry(sp, dn - 1)
  BY <1>1 DEF SenderSetup
<1>10. RegionLive'
  BY <1>5, <1>6, <1>7, <1>9 DEF RegionLive, SenderSetup
<1>11. LastIsLast'
  <2> SUFFICES ASSUME NEW i \in Slots, NEW j \in Slots, InRegion(i)', InRegion(j)',
                      InRing(i, lasttxidx, j), ptxd'[i].last
               PROVE  ptxd'[j].pkt # ptxd'[i].pkt
    BY DEF LastIsLast, SenderSetup
  <2>1. CASE i = idx
    <3>1. j # idx
      BY <1>1, <2>1, RingEnds
    <3>2. InRegion(j)
      BY <1>7, <3>1
    <3> QED
      BY <1>1, <1>4, <2>1, <3>2, RingOrder DEF InRegion
  <2>2. CASE i # idx /\ j = idx
    <3>1. InRegion(i) /\ ptxd[i].last
      BY <1>7, <1>9, <2>2
    <3>2. txb[i] = ptxd[i].pkt
      BY <1>5, <3>1
    <3> QED
      BY <1>6, <1>9, <2>2, <3>2
  <2>3. CASE i # idx /\ j # idx
    <3>1. InRegion(i) /\ InRegion(j)
      BY <1>7, <2>3
    <3> QED
      BY <1>5, <1>9, <2>3, <3>1 DEF LastIsLast
  <2> QED
    BY <2>1, <2>2, <2>3
<1>12. RingAccounting'
  <2>1. TxConsumeIndex' = TxProduceIndex' \/ InRegion(TxConsumeIndex)'
    BY <1>1, <1>4, <1>5, <1>7 DEF SenderSetup, InRegion
  <2>2. ASSUME NEW i \in Slots
        PROVE  txb'[i] = IF InRegion(i)' /\ ptxd'[i].last THEN ptxd'[i].pkt ELSE NULL
    <3>1. CASE i = idx
      BY <1>7, <1>9, <3>1 DEF TxbEntry
    <3>2. CASE i # idx
      BY <1>5, <1>7, <1>9, <3>2
    <3> QED
      BY <3>1, <3>2
  <2> QED
    BY <2>1, <2>2 DEF RingAccounting, InRegion, SenderSetup
<1>13. NoLeak'
  <2> SUFFICES ASSUME NEW p \in drvref'
               PROVE  (\E i \in Slots : txb'[i] = p) \/ (SenderHolds' /\ sp' = p)
    BY DEF NoLeak
  <2>1. p \in drvref /\ p # NULL /\ sp' = sp
    BY NullAssumption DEF SenderSetup, RingInv, OwnInv, TypeInv, TypeOK
  <2>2. CASE p = sp
    <3>1. CASE dn - 1 = 0
      BY <1>1, <1>9, <2>2, <3>1 DEF TxbEntry
    <3>2. CASE dn - 1 # 0
      BY <1>1, <2>1, <2>2, <3>2 DEF SenderSetup, SenderHolds
    <3> QED
      BY <3>1, <3>2
  <2>3. CASE p # sp
    <3>1. PICK i \in Slots : txb[i] = p
      BY <1>4, <2>1, <2>3 DEF RingInv, NoLeak
    <3>2. i # idx
      BY <1>5, <1>8, <2>1, <3>1
    <3> QED
      BY <1>9, <3>1, <3>2
  <2> QED
    BY <2>2, <2>3
<1>14. IdxIsProduce'
  BY DEF IdxIsProduce, SenderSetup
<1> QED
  BY <1>10, <1>11, <1>12, <1>13, <1>14

\* The cleaner frees the oldest slot.
LEMMA RingReclaimStep == ASSUME RingInv, OwnInv', lpc_tx_reclaim PROVE RingInv'
<1>1. /\ lasttxidx \in Slots /\ TxProduceIndex \in Slots /\ TxConsumeIndex \in Slots
      /\ txb \in [Slots -> Pbufs \cup {NULL}]
  BY DEF RingInv, OwnInv, TypeInv, TypeOK
<1>2. SenderHasFragments'
  BY DEF lpc_tx_reclaim, RingInv, SenderHasFragments, sndVars
<1>3. SUFFICES ASSUME Intact'
               PROVE  (RingAccounting /\ NoLeak /\ RegionLive /\ LastIsLast /\ IdxIsProduce)'
  BY <1>2 DEF RingInv, RingAccounting, NoLeak
<1>4. Intact
  BY <1>3 DEF Intact, lpc_tx_reclaim, histVars
<1>5. /\ RegionLive /\ LastIsLast /\ IdxIsProduce
      /\ TxConsumeIndex = TxProduceIndex
           \/ InRing(TxConsumeIndex, lasttxidx, TxProduceIndex)
      /\ \A i \in Slots : txb[i] = IF InRegion(i) /\ ptxd[i].last THEN ptxd[i].pkt ELSE NULL
  BY <1>4 DEF RingInv, RingAccounting, InRegion
<1>6. /\ lasttxidx # TxProduceIndex
      /\ TxConsumeIndex = TxProduceIndex
           \/ InRing(TxConsumeIndex, WrapInc(lasttxidx), TxProduceIndex)
  BY <1>1, <1>5, RingReclaim DEF lpc_tx_reclaim, ReclaimLimit
<1>7. \A i \in Slots : InRegion(i)' <=> InRegion(i) /\ i # lasttxidx
  BY <1>1, <1>6, RingShrink DEF InRegion, lpc_tx_reclaim, hwVars
<1>8. InRegion(lasttxidx)
  BY <1>1, <1>6, RingEnds DEF InRegion
<1>9. \A i \in Slots : /\ i # lasttxidx => txb'[i] = txb[i]
                       /\ i = lasttxidx => txb'[i] = NULL
  BY <1>1 DEF lpc_tx_reclaim, TxbFreed
<1>10. ptxd' = ptxd /\ drvref' = drvref \ {txb[lasttxidx]} /\ lasttxidx' = WrapInc(lasttxidx)
  BY DEF lpc_tx_reclaim
<1>11. RegionLive'
  <2> SUFFICES ASSUME NEW j \in Slots, InRegion(j)' PROVE ptxd[j].pkt \in drvref'
    BY <1>10 DEF RegionLive
  <2>1. InRegion(j) /\ j # lasttxidx /\ ptxd[j].pkt \in drvref
    BY <1>5, <1>7 DEF RegionLive
  <2>2. InRing(lasttxidx, lasttxidx, j)
    BY <1>1, <2>1, RingEnds
  <2>3. ptxd[j].pkt # NULL
    BY <2>1, NullAssumption DEF RingInv, OwnInv, TypeInv, TypeOK
  <2>4. ptxd[j].pkt # txb[lasttxidx]
    BY <1>1, <1>5, <1>8, <2>1, <2>2, <2>3 DEF LastIsLast
  <2> QED
    BY <1>10, <2>1, <2>4
<1>12. LastIsLast'
  <2> SUFFICES ASSUME NEW i \in Slots, NEW j \in Slots, InRegion(i)', InRegion(j)',
                      InRing(i, WrapInc(lasttxidx), j), ptxd[i].last
               PROVE  ptxd[j].pkt # ptxd[i].pkt
    BY <1>10 DEF LastIsLast
  <2>1. InRegion(i) /\ InRegion(j) /\ j # lasttxidx
    BY <1>7
  <2>2. InRing(i, lasttxidx, j)
    BY <1>1, <2>1, RingShrink
  <2> QED
    BY <1>5, <2>1, <2>2 DEF LastIsLast
<1>13. RingAccounting'
  <2>1. TxConsumeIndex' = TxProduceIndex'
          \/ InRing(TxConsumeIndex', lasttxidx', TxProduceIndex')
    BY <1>6, <1>10 DEF lpc_tx_reclaim, hwVars
  <2>2. \A i \in Slots :
          txb'[i] = IF InRegion(i)' /\ ptxd'[i].last THEN ptxd'[i].pkt ELSE NULL
    BY <1>5, <1>7, <1>9, <1>10
  <2> QED
    BY <2>1, <2>2 DEF RingAccounting, InRegion
<1>14. NoLeak'
  <2> SUFFICES ASSUME NEW p \in drvref'
               PROVE  (\E i \in Slots : txb'[i] = p) \/ (SenderHolds' /\ sp' = p)
    BY DEF NoLeak
  <2>1. p \in drvref /\ p # txb[lasttxidx]
    BY <1>10
  <2>2. CASE SenderHolds /\ sp = p
    BY <2>2 DEF lpc_tx_reclaim, SenderHolds, sndVars
  <2>3. CASE \E i \in Slots : txb[i] = p
    BY <1>9, <2>1, <2>3
  <2> QED
    BY <1>4, <2>1, <2>2, <2>3 DEF RingInv, NoLeak
<1>15. IdxIsProduce'
  BY <1>5 DEF IdxIsProduce, lpc_tx_reclaim, hwVars, sndVars
<1> QED
  BY <1>11, <1>12, <1>13, <1>14, <1>15

\* Every step keeps RingInv.
LEMMA RingStep == RingInv /\ [Next]_vars => RingInv'
<1> SUFFICES ASSUME RingInv, [Next]_vars PROVE RingInv'
  OBVIOUS
<1>0. OwnInv'
  BY OwnStep DEF RingInv
<1>00. /\ notdmasafe \in BOOLEAN /\ dn \in 0..255
       /\ TxConsumeIndex \in Slots /\ TxProduceIndex \in Slots /\ lasttxidx \in Slots
  BY ClenAssumption DEF RingInv, OwnInv, TypeInv, TypeOK
<1>1. ASSUME NEW p \in Pbufs, NEW n \in Clens, NEW bounce \in BOOLEAN,
             lpc_low_level_output(p, n, bounce)
      PROVE RingInv'
  <2>1. SenderHasFragments' /\ IdxIsProduce' /\ ~SenderHolds
    BY <1>1, <1>00, ClenAssumption
       DEF lpc_low_level_output, SenderHasFragments, IdxIsProduce, SenderHolds
  <2>2. \A q \in drvref' : q \in drvref \/ (SenderHolds' /\ sp' = q)
    BY <1>1 DEF lpc_low_level_output, SenderHolds
  <2>3. drvref \subseteq drvref'
    BY <1>1 DEF lpc_low_level_output
  <2> QED
    BY <1>0, <1>1, <2>1, <2>2, <2>3, RingSender DEF lpc_low_level_output, hwVars
<1>2. CASE SenderPoll
  <2>1. SenderHasFragments' /\ IdxIsProduce' /\ (SenderHolds => SenderHolds' /\ sp' = sp)
    BY <1>2 DEF SenderPoll, RingInv, SenderHasFragments, IdxIsProduce, SenderHolds, hwVars
  <2> QED
    BY <1>0, <1>2, <2>1, RingSender DEF SenderPoll, hwVars
<1>3. CASE SenderSemWait
  <2>1. SenderHasFragments' /\ IdxIsProduce' /\ (SenderHolds => SenderHolds' /\ sp' = sp)
    BY <1>3 DEF SenderSemWait, RingInv, SenderHasFragments, IdxIsProduce, SenderHolds
  <2> QED
    BY <1>0, <1>3, <2>1, RingSender DEF SenderSemWait, hwVars
<1>4. CASE SenderLock
  <2>1. dn > 0
    BY <1>4 DEF SenderLock, RingInv, SenderHasFragments
  <2>2. SenderHasFragments' /\ SenderHolds' /\ sp' = sp
    BY <1>4, <2>1 DEF SenderLock, SenderHasFragments, SenderHolds
  <2>3. IdxIsProduce' \/ ~Intact
    BY <1>4 DEF SenderLock, RingInv, IdxIsProduce, hwVars
  <2>4. drvref \subseteq drvref' /\ \A q \in drvref' : q \in drvref \/ sp' = q
    BY <1>4 DEF SenderLock, RefTaken
  <2> QED
    BY <1>0, <1>4, <2>2, <2>3, <2>4, RingSender DEF SenderLock, hwVars
<1>5. CASE SenderSetup
  BY <1>0, <1>5, RingSetup
<1>6. CASE SenderUnlock
  <2>1. SenderHasFragments' /\ IdxIsProduce' /\ ~SenderHolds
    BY <1>6, <1>00 DEF SenderUnlock, SenderHasFragments, IdxIsProduce, SenderHolds
  <2> QED
    BY <1>0, <1>6, <2>1, RingSender DEF SenderUnlock, hwVars
<1>7. CASE CleanerSemWait
  BY <1>0, <1>7, RingUntouched DEF CleanerSemWait, hwVars
<1>8. CASE CleanerCheck
  BY <1>0, <1>8, RingUntouched DEF CleanerCheck, hwVars
<1>9. CASE CleanerReset
  BY <1>0, <1>9
     DEF CleanerReset, RingInv, RingAccounting, NoLeak, Intact, SenderHasFragments, sndVars
<1>10. CASE CleanerLock
  BY <1>0, <1>10, RingUntouched DEF CleanerLock, hwVars
<1>11. CASE lpc_tx_reclaim
  BY <1>0, <1>11, RingReclaimStep
<1>12. CASE CleanerUnlock
  BY <1>0, <1>12, RingUntouched DEF CleanerUnlock, hwVars
<1>13. CASE IsrEnter
  BY <1>0, <1>13, RingUntouched DEF IsrEnter, hwVars
<1>14. CASE IsrExit
  BY <1>0, <1>14, RingUntouched DEF IsrExit
<1>15. ASSUME NEW err \in TxErrors, HwTransmit(err) PROVE RingInv'
  <2>1. InRing(TxConsumeIndex, lasttxidx, TxProduceIndex)
          => WrapInc(TxConsumeIndex) = TxProduceIndex
               \/ InRing(WrapInc(TxConsumeIndex), lasttxidx, TxProduceIndex)
    BY <1>00, RingConsume
  <2>2. RingAccounting'
    BY <1>15, <2>1 DEF HwTransmit, RingInv, RingAccounting, Intact, ringVars, histVars
  <2> QED
    BY <1>0, <1>15, <2>2
       DEF HwTransmit, RingInv, NoLeak, RegionLive, LastIsLast, IdxIsProduce, InRegion,
           SenderHasFragments, SenderHolds, Intact, ringVars, sndVars, histVars
<1>16. CASE UNCHANGED vars
  BY <1>0, <1>16, RingUntouched DEF vars, hwVars
<1> QED
  BY <1>1, <1>2, <1>3, <1>4, <1>5, <1>6, <1>7, <1>8, <1>9, <1>10, <1>11, <1>12,
     <1>13, <1>14, <1>15, <1>16 DEF Next, SenderStep, CleanerStep

\* The empty ring is in order.
LEMMA RingInit == Init => RingInv
<1> SUFFICES ASSUME Init PROVE RingInv
  OBVIOUS
<1>1. \A i \in Slots : ~InRing(i, 0, 0)
  BY DEF Slots, InRing
<1> QED
  BY <1>1, OwnInit
     DEF Init, RingInv, RingAccounting, NoLeak, RegionLive, LastIsLast, IdxIsProduce,
         InRegion, SenderHasFragments

\* RingInv holds in every reachable state.
LEMMA RingAlways == Spec => []RingInv
BY RingInit, RingStep, PTL DEF Spec

\* While the ring is neither overrun nor reset, the three indices and txb agree.
THEOREM RingIsAccounted == Spec => []RingAccounting
<1>1. RingInv => RingAccounting
  BY DEF RingInv
<1> QED
  BY <1>1, RingAlways, PTL

\* While the ring is neither overrun nor reset, the driver leaks no reference.
THEOREM NothingLeaks == Spec => []NoLeak
<1>1. RingInv => NoLeak
  BY DEF RingInv
<1> QED
  BY <1>1, RingAlways, PTL

\* While the ring is neither overrun nor reset, the EMAC never reads freed memory.
THEOREM InFlightIsLive == Spec => []InFlightLive
<1>1. RingInv => InFlightLive
  <2> SUFFICES ASSUME RingInv, Intact, NEW i \in Slots,
                      InRing(i, TxConsumeIndex, TxProduceIndex)
               PROVE  ptxd[i].pkt \in drvref
    BY DEF InFlightLive
  <2>1. /\ TxConsumeIndex \in Slots /\ TxProduceIndex \in Slots /\ lasttxidx \in Slots
        /\ TxConsumeIndex = TxProduceIndex
             \/ InRing(TxConsumeIndex, lasttxidx, TxProduceIndex)
    BY DEF RingInv, OwnInv, TypeInv, TypeOK, RingAccounting
  <2>2. InRegion(i)
    BY <2>1, RingInFlight DEF InRegion
  <2> QED
    BY <2>2 DEF RingInv, RegionLive
<1> QED
  BY <1>1, RingAlways, PTL

=============================================================================
