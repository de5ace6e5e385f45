---------------------------- MODULE EmacRxProofs ----------------------------
(***************************************************************************)
(* Proofs about EmacRx, for every ring size, every number of frames and    *)
(* every frame length, with and without errors and memory.                 *)
(***************************************************************************)
EXTENDS EmacRx, FiniteSetTheorems, TLAPS

\* The status words of the slots.
Statuses == Reports \cup {Cleared}

\* The types of the variables.
RxTypes ==
  /\ RxProduceIndex \in Slots /\ RxConsumeIndex \in Slots /\ rxdescnextindex \in Slots
  /\ hwrem \in 0..MaxLen
  /\ prxd \in [Slots -> Lens] /\ prxs \in [Slots -> Statuses]
  /\ rxb \in [Slots -> Lens \cup {NULL}]
  /\ rxdescfree \in 0..255 /\ nbuf \in Int
  /\ rpc \in {"wait", "loop", "check", "reset", "frame", "input", "fault"}
  /\ p \in Reports \cup {NULL}
  /\ frames \in 0..MaxFrames /\ delivered \in 0..MaxFrames

\* The task has a copy in its hands only on its way to netif->input, and only a frame
\* that has arrived can have a rest.
Locals == /\ p # NULL <=> rpc = "input"
          /\ hwrem > 0 => frames > 0

TypeInv == RxTypes /\ Locals

\* How far slot i is behind slot c.
Dist(i, c) == IF i >= c THEN i - c ELSE i - c + EMAC_NUM_RX_FRAG

\* A slot that holds a frame, and a buffer the frame can be taken from.
Occupied(i) == prxs[i].info # "clear" /\ rxb[i] # NULL

\* The two cursors of the driver agree, but for a recovery that got no memory at all;
\* no slot has a buffer then.
CursorsAgree == rxdescnextindex = RxConsumeIndex \/ \A i \in Slots : rxb[i] = NULL

\* Occupied slots lie between the cursors of the driver and the EMAC, ...
InRange == \A i \in Slots : Occupied(i) =>
             Dist(i, RxConsumeIndex) < Dist(RxProduceIndex, RxConsumeIndex)

\* ... hold frames in the order of their arrival ...
InOrder == \A i, j \in Slots :
             Occupied(i) /\ Occupied(j) /\ Dist(i, RxConsumeIndex) < Dist(j, RxConsumeIndex)
               => prxs[i].id <= prxs[j].id

\* ... and none older than the ones the task has taken.
NotOlder ==
  /\ delivered <= frames
  /\ p # NULL => delivered <= p.id /\ p.id <= frames
  /\ \A i \in Slots : Occupied(i) => /\ prxs[i].id <= frames /\ delivered <= prxs[i].id
                                     /\ p # NULL => p.id <= prxs[i].id

RingInv == TypeInv /\ CursorsAgree /\ InRange /\ InOrder /\ NotOlder

-----------------------------------------------------------------------------
(* Slots and their distances *)

\* The successor of a slot is a slot, the same for the driver and the EMAC.
LEMMA Successor ==
  ASSUME NEW i \in Slots
  PROVE  WrapInc(i) \in Slots /\ HwInc(i) = WrapInc(i)
BY RxFragAssumption DEF Slots, WrapInc, HwInc

\* A sum of two slots wraps at most once.
LEMMA WrapsOnce ==
  ASSUME NEW i \in Slots
  PROVE  (i + EMAC_NUM_RX_FRAG) % EMAC_NUM_RX_FRAG = i
BY RxFragAssumption DEF Slots

\* Dist is the distance that the properties write with a remainder.
LEMMA DistIsRemainder ==
  ASSUME NEW i \in Slots, NEW c \in Slots
  PROVE  (i - c) % EMAC_NUM_RX_FRAG = Dist(i, c) /\ Dist(i, c) \in Slots
BY RxFragAssumption DEF Slots, Dist

\* Different slots have different distances.
LEMMA DistInjective ==
  ASSUME NEW i \in Slots, NEW j \in Slots, NEW c \in Slots, Dist(i, c) = Dist(j, c)
  PROVE  i = j
BY RxFragAssumption DEF Slots, Dist

\* When the EMAC has filled a slot and is not full, its cursor is one further.
LEMMA DistGrows ==
  ASSUME NEW q \in Slots, NEW c \in Slots, WrapInc(q) # c
  PROVE  Dist(WrapInc(q), c) = Dist(q, c) + 1
BY RxFragAssumption DEF Slots, Dist, WrapInc

\* When the driver gives slot c back, every other slot is one nearer.
LEMMA DistShrinks ==
  ASSUME NEW i \in Slots, NEW c \in Slots, i # c
  PROVE  Dist(i, WrapInc(c)) = Dist(i, c) - 1 /\ Dist(c, c) = 0 /\ Dist(i, c) > 0
BY RxFragAssumption DEF Slots, Dist, WrapInc

\* ... and slot c itself is the farthest.
LEMMA DistFarthest ==
  ASSUME NEW c \in Slots
  PROVE  Dist(c, WrapInc(c)) = EMAC_NUM_RX_FRAG - 1
BY RxFragAssumption DEF Slots, Dist, WrapInc

-----------------------------------------------------------------------------
(* Types *)

\* The constants are in the sets the types are made of.
LEMMA TypeFacts ==
  /\ 0 \in Slots /\ MaxLen \in Lens /\ Cleared \in Statuses /\ NULL \notin Lens
  /\ NULL \notin Reports /\ EMAC_NUM_RX_FRAG \in Nat /\ \A k : RxBufLen(k) = MaxLen
BY RxFragAssumption, LenAssumption, RxNullAssumption
   DEF Slots, Lens, Statuses, RxBufLen

\* The initial state has the types.
LEMMA TypeInit == Init => TypeInv
BY TypeFacts, LenAssumption, RxFragAssumption DEF Init, TypeInv, RxTypes, Locals

\* Storing a frame, or the rest of one, keeps the types and writes a report.
LEMMA StoreTypes ==
  ASSUME TypeInv, NEW id \in 1..MaxFrames, NEW len \in Lens, NEW err \in BOOLEAN,
         HwStore(id, len, err), frames' = id
  PROVE  /\ TypeInv'
         /\ prxs'[RxProduceIndex].id = id /\ prxs'[RxProduceIndex].info # "clear"
         /\ \A i \in Slots : i # RxProduceIndex => prxs'[i] = prxs[i]
<1> DEFINE n == IF len > prxd[RxProduceIndex] THEN prxd[RxProduceIndex] ELSE len
           r == [info |-> IF err THEN "err" ELSE "ok", id |-> id, len |-> n]
<1>1. RxProduceIndex \in Slots /\ prxd[RxProduceIndex] \in Lens /\ prxs \in [Slots -> Statuses]
  BY DEF TypeInv, RxTypes
<1>2. n \in Lens /\ len - n \in 0..MaxLen
  BY <1>1, LenAssumption DEF Lens
<1>3. r \in Reports
  BY <1>2 DEF Reports
<1>4. prxs' = [prxs EXCEPT ![RxProduceIndex] = r] /\ hwrem' = len - n
  BY DEF HwStore
<1> HIDE DEF n, r
<1>5. prxs' \in [Slots -> Statuses] /\ hwrem' \in 0..MaxLen
  BY <1>1, <1>2, <1>3, <1>4 DEF Statuses
<1>6. RxProduceIndex' \in Slots
  BY <1>1, Successor DEF HwStore
<1>7. TypeInv'
  BY <1>5, <1>6 DEF HwStore, TypeInv, RxTypes, Locals, taskVars
<1> QED  BY <1>1, <1>4, <1>7 DEF r

\* Queueing a buffer keeps the types of the ring.
LEMMA QueueTypes ==
  ASSUME RxTypes, NEW q \in Lens \cup {NULL}, NEW rxb0 \in [Slots -> Lens \cup {NULL}],
         NEW free \in 0..255, lpc_rxqueue_pbuf(q, rxb0, free)
  PROVE  /\ rxb' \in [Slots -> Lens \cup {NULL}] /\ prxd' \in [Slots -> Lens]
         /\ prxs' \in [Slots -> Statuses] /\ rxdescfree' \in 0..255
         /\ rxdescnextindex' \in Slots /\ RxConsumeIndex' \in Slots
<1>1. rxdescnextindex \in Slots /\ prxd \in [Slots -> Lens] /\ prxs \in [Slots -> Statuses]
  BY DEF RxTypes
<1>2. WrapInc(rxdescnextindex) \in Slots
  BY <1>1, Successor
<1>3. PICK size \in Lens : prxd' = [prxd EXCEPT ![rxdescnextindex] = size]
  BY TypeFacts DEF lpc_rxqueue_pbuf
<1>4. prxs' = [prxs EXCEPT ![rxdescnextindex] = Cleared]
  BY DEF lpc_rxqueue_pbuf, StatusCleared
<1>5. prxs' \in [Slots -> Statuses]
  BY <1>1, <1>4, TypeFacts
<1>6. rxdescfree' \in 0..255
  BY DEF lpc_rxqueue_pbuf, RxDescQueued
<1> QED  BY <1>1, <1>2, <1>3, <1>5, <1>6 DEF lpc_rxqueue_pbuf

\* The recovery keeps the types of the ring.
LEMMA ResetTypes ==
  ASSUME TypeInv, NEW k \in 0..EMAC_NUM_RX_FRAG, RxReset(k)
  PROVE  TypeInv'
<1>1. /\ prxd \in [Slots -> Lens] /\ prxs \in [Slots -> Statuses] /\ RxConsumeIndex \in Slots
      /\ RxProduceIndex \in Slots /\ nbuf \in Int
  BY DEF TypeInv, RxTypes
<1>2. k % EMAC_NUM_RX_FRAG \in Slots /\ EMAC_NUM_RX_FRAG - k \in 0..255
  BY RxFragAssumption DEF Slots
<1>3. IsFiniteSet(Buffered)
  <2>1. IsFiniteSet(Slots)
    BY FS_Interval, RxFragAssumption DEF Slots
  <2> QED  BY <2>1, FS_Subset DEF Buffered
<1>4. nbuf' \in Int
  <2>1. Cardinality(Buffered) \in Nat
    BY <1>3, FS_CardinalityType
  <2> QED  BY <1>1, <2>1 DEF RxReset
<1>5. rxb' \in [Slots -> Lens \cup {NULL}]
  BY TypeFacts DEF RxReset, RxbAfterReset
<1>6. prxd' \in [Slots -> Lens] /\ prxs' \in [Slots -> Statuses]
  BY <1>1, TypeFacts DEF RxReset
<1>7. p' = NULL /\ hwrem' = 0 /\ rpc' = "loop"
  BY DEF RxReset, TypeInv, Locals
<1> QED
  BY <1>1, <1>2, <1>4, <1>5, <1>6, <1>7, TypeFacts, LenAssumption
     DEF TypeInv, RxTypes, Locals, RxReset

\* Every step keeps the types.
LEMMA TypeStep == TypeInv /\ [Next]_vars => TypeInv'
<1> SUFFICES ASSUME TypeInv, [Next]_vars PROVE TypeInv'
  OBVIOUS
<1> USE DEF TypeInv, RxTypes, Locals
<1>1. CASE RxSemWait
  BY <1>1 DEF RxSemWait, hwVars, descVars
<1>2. CASE RxLoop
  BY <1>2 DEF RxLoop, hwVars, descVars
<1>3. CASE RxCheck
  BY <1>3 DEF RxCheck, hwVars, descVars
<1>4. CASE RxDropError
  <2>1. /\ rxb[RxConsumeIndex] \in Lens \cup {NULL}
        /\ [rxb EXCEPT ![RxConsumeIndex] = NULL] \in [Slots -> Lens \cup {NULL}]
        /\ (rxdescfree + 1) % 256 \in 0..255
    OBVIOUS
  <2>2. lpc_rxqueue_pbuf(rxb[RxConsumeIndex], [rxb EXCEPT ![RxConsumeIndex] = NULL],
                         (rxdescfree + 1) % 256)
    BY <1>4 DEF RxDropError
  <2>3. /\ rxb' \in [Slots -> Lens \cup {NULL}] /\ prxd' \in [Slots -> Lens]
        /\ prxs' \in [Slots -> Statuses] /\ rxdescfree' \in 0..255
        /\ rxdescnextindex' \in Slots /\ RxConsumeIndex' \in Slots
    BY <2>1, <2>2, QueueTypes
  <2> QED  BY <1>4, <2>3 DEF RxDropError, hwVars
<1>5. CASE RxNoMemory
  <2>0. prxs[RxConsumeIndex] \in Reports
    BY <1>5 DEF RxNoMemory, Statuses, Cleared
  <2>1. prxs[RxConsumeIndex].len \in Lens
    BY <2>0 DEF Reports
  <2>2. [rxb EXCEPT ![RxConsumeIndex] = prxs[RxConsumeIndex].len]
          \in [Slots -> Lens \cup {NULL}]
    BY <2>1
  <2>3. lpc_rxqueue_pbuf(NULL, [rxb EXCEPT ![RxConsumeIndex] = prxs[RxConsumeIndex].len],
                         rxdescfree)
    BY <1>5 DEF RxNoMemory
  <2>4. /\ rxb' \in [Slots -> Lens \cup {NULL}] /\ prxd' \in [Slots -> Lens]
        /\ prxs' \in [Slots -> Statuses] /\ rxdescfree' \in 0..255
        /\ rxdescnextindex' \in Slots /\ RxConsumeIndex' \in Slots
    BY <2>2, <2>3, QueueTypes
  <2> QED  BY <1>5, <2>4 DEF RxNoMemory, hwVars
<1>6. CASE RxCopy
  <2>1. prxs[RxConsumeIndex] \in Reports
    BY <1>6 DEF RxCopy, Statuses, Cleared
  <2>2. prxs[RxConsumeIndex].len \in Lens
    BY <2>1 DEF Reports
  <2>3. WrapInc(RxConsumeIndex) \in Slots
    BY Successor
  <2>4. prxs' \in [Slots -> Statuses]
    BY <1>6, TypeFacts DEF RxCopy, StatusCleared
  <2>5. p' \in Reports /\ p' # NULL
    BY <1>6, <2>1, TypeFacts DEF RxCopy
  <2>6. rxb' \in [Slots -> Lens \cup {NULL}]
    BY <1>6, <2>2 DEF RxCopy
  <2>7. /\ UNCHANGED <<hwVars, prxd, rxdescfree, nbuf, frames, delivered>>
        /\ rxdescnextindex' \in Slots /\ RxConsumeIndex' \in Slots /\ rpc' = "input"
    BY <1>6, <2>3 DEF RxCopy
  <2> QED  BY <2>4, <2>5, <2>6, <2>7 DEF hwVars
<1>7. CASE RxFault
  BY <1>7 DEF RxFault, hwVars, descVars
<1>8. ASSUME NEW k \in Queued, RxReset(k) PROVE TypeInv'
  <2>0. EMAC_NUM_RX_FRAG \in 0..EMAC_NUM_RX_FRAG
    BY RxFragAssumption
  <2>1. k \in 0..EMAC_NUM_RX_FRAG
    BY <2>0, Zenon DEF Queued
  <2> QED  BY <1>8, <2>1, ResetTypes
<1>9. ASSUME NEW ok \in BOOLEAN, RxInput(ok) PROVE TypeInv'
  <2>1. p \in Reports
    BY <1>9 DEF RxInput
  <2>2. delivered' \in 0..MaxFrames
    BY <1>9, <2>1, LenAssumption DEF RxInput, Reports
  <2> QED  BY <1>9, <2>2 DEF RxInput, hwVars, descVars
<1>10. ASSUME NEW len \in Lens, NEW err \in RxErrors, HwReceive(len, err) PROVE TypeInv'
  <2>1. frames + 1 \in 1..MaxFrames /\ err \in BOOLEAN
    BY <1>10, LenAssumption, ChoiceAssumption DEF HwReceive
  <2> QED  BY <1>10, <2>1, StoreTypes DEF HwReceive
<1>11. CASE HwContinue
  <2>1. frames \in 1..MaxFrames /\ hwrem \in Lens
    BY <1>11, LenAssumption DEF HwContinue, Lens
  <2>2. HwStore(frames, hwrem, FALSE) /\ frames' = frames /\ FALSE \in BOOLEAN
    BY <1>11 DEF HwContinue
  <2> HIDE DEF TypeInv
  <2> QED  BY <2>1, <2>2, StoreTypes, Zenon
<1>12. CASE HwNoDescriptor \/ HwOverrun
  BY <1>12, LenAssumption DEF HwNoDescriptor, HwOverrun, HwLose, descVars, taskVars
<1>13. CASE IsrEnter
  BY <1>13 DEF IsrEnter, hwVars, descVars, taskVars
<1>14. CASE IsrExit
  BY <1>14 DEF IsrExit, descVars, taskVars
<1>15. CASE UNCHANGED vars
  BY <1>15 DEF vars, hwVars, descVars, taskVars
<1> QED
  BY <1>1, <1>2, <1>3, <1>4, <1>5, <1>6, <1>7, <1>8, <1>9, <1>10, <1>11, <1>12, <1>13,
     <1>14, <1>15 DEF Next, TaskStep, RxFrame, HwStep

-----------------------------------------------------------------------------
(* The ring *)

\* A step that leaves the ring and what the task has in its hands alone.
LEMMA RingUntouched ==
  ASSUME RingInv, TypeInv', frames <= frames',
         UNCHANGED <<RxProduceIndex, descVars, p, delivered>>
  PROVE  RingInv'
BY DEF RingInv, TypeInv, RxTypes, CursorsAgree, InRange, InOrder, NotOlder, Occupied, Reports,
       Statuses, Cleared, descVars

\* A step after which no slot is occupied.
LEMMA RingVacant ==
  ASSUME RingInv, TypeInv', CursorsAgree', \A i \in Slots : ~Occupied(i)',
         UNCHANGED <<frames, p, delivered>>
  PROVE  RingInv'
BY DEF RingInv, InRange, InOrder, NotOlder

\* The EMAC fills the next slot.
LEMMA RingStore ==
  ASSUME RingInv, NEW id \in 1..MaxFrames, NEW len \in Lens, NEW err \in BOOLEAN,
         HwStore(id, len, err), frames' = id, frames <= id
  PROVE  RingInv'
<1> DEFINE P == RxProduceIndex
           C == RxConsumeIndex
<1>1. /\ TypeInv' /\ prxs'[P].id = id /\ prxs'[P].info # "clear"
      /\ \A i \in Slots : i # P => prxs'[i] = prxs[i]
  BY StoreTypes DEF RingInv
<1>2. /\ P \in Slots /\ C \in Slots /\ frames \in Nat /\ delivered \in Nat
      /\ p \in Reports \cup {NULL} /\ prxs \in [Slots -> Statuses]
  BY DEF RingInv, TypeInv, RxTypes
<1>3. /\ WrapInc(P) # C /\ P' = WrapInc(P)
      /\ UNCHANGED <<RxConsumeIndex, rxb, rxdescnextindex, p, delivered>>
  BY <1>2, Successor DEF HwStore, RxFull, taskVars
<1>4. \A i \in Slots : Dist(i, C) \in Nat
  BY <1>2, DistIsRemainder DEF Slots
<1>5. ~Occupied(P) /\ \A i \in Slots : i # P => (Occupied(i)' <=> Occupied(i))
  <2>1. ~Occupied(P)
    BY <1>2, <1>4 DEF RingInv, InRange
  <2> QED  BY <1>1, <1>3, <2>1 DEF Occupied
<1>6. Dist(P', C) = Dist(P, C) + 1
  BY <1>2, <1>3, DistGrows
<1>7. InRange'
  BY <1>2, <1>3, <1>5, <1>6, <1>4 DEF RingInv, InRange
<1>8. NotOlder'
  <2>1. ASSUME NEW i \in Slots, Occupied(i)'
        PROVE  prxs'[i].id <= frames' /\ delivered' <= prxs'[i].id
               /\ (p' # NULL => p'.id <= prxs'[i].id)
    <3>1. CASE i = P
      BY <1>1, <1>2, <1>3, <3>1 DEF RingInv, NotOlder, Reports
    <3>2. CASE i # P
      BY <1>1, <1>2, <1>3, <1>5, <2>1, <3>2 DEF RingInv, NotOlder, Reports, Statuses, Cleared
    <3> QED  BY <3>1, <3>2
  <2> QED  BY <1>2, <1>3, <2>1 DEF RingInv, NotOlder, Reports
<1>9. InOrder'
  <2> SUFFICES ASSUME NEW i \in Slots, NEW j \in Slots, Occupied(i)', Occupied(j)',
                      Dist(i, C) < Dist(j, C)
               PROVE  prxs'[i].id <= prxs'[j].id
    BY <1>3 DEF InOrder
  <2>1. i # P
    <3>1. CASE j # P
      BY <1>2, <1>5, <1>4, <3>1 DEF RingInv, InRange
    <3>2. CASE j = P
      BY <1>4, <3>2
    <3> QED  BY <3>1, <3>2
  <2>2. CASE j = P
    BY <1>1, <1>8, <2>1, <2>2 DEF NotOlder
  <2>3. CASE j # P
    BY <1>1, <1>5, <2>1, <2>3 DEF RingInv, InOrder
  <2> QED  BY <2>2, <2>3
<1>10. CursorsAgree'
  BY <1>3 DEF RingInv, CursorsAgree
<1> QED  BY <1>1, <1>7, <1>8, <1>9, <1>10 DEF RingInv

\* The task gives the slot at its cursor back, with the frame of the slot in its hands
\* or not.
LEMMA RingGiveBack ==
  ASSUME RingInv, TypeInv', RxProduceIndex # RxConsumeIndex, p = NULL,
         prxs' = [prxs EXCEPT ![RxConsumeIndex] = Cleared],
         \A i \in Slots : i # RxConsumeIndex => rxb'[i] = rxb[i],
         RxConsumeIndex' = WrapInc(RxConsumeIndex),
         rxdescnextindex' = WrapInc(RxConsumeIndex),
         p' = NULL \/ (p' = prxs[RxConsumeIndex] /\ Occupied(RxConsumeIndex)),
         UNCHANGED <<RxProduceIndex, frames, delivered>>
  PROVE  RingInv'
<1> DEFINE P == RxProduceIndex
           C == RxConsumeIndex
<1>1. P \in Slots /\ C \in Slots /\ prxs \in [Slots -> Statuses] /\ delivered \in Nat
      /\ frames \in Nat
  BY DEF RingInv, TypeInv, RxTypes
<1>2. \A i \in Slots : i # C => Dist(i, C') = Dist(i, C) - 1 /\ Dist(C, C) = 0 /\ Dist(i, C) > 0
  BY <1>1, DistShrinks
<1>3. \A i \in Slots : Dist(i, C) \in Nat
  BY <1>1, DistIsRemainder DEF Slots
<1>4. /\ prxs'[C].info = "clear"
      /\ \A i \in Slots : i # C => prxs'[i] = prxs[i]
  BY <1>1 DEF Cleared
<1>5. \A i \in Slots : Occupied(i)' => Occupied(i) /\ i # C /\ prxs'[i] = prxs[i]
  BY <1>4 DEF Occupied
<1>6. InRange'
  BY <1>1, <1>2, <1>3, <1>5 DEF RingInv, InRange
<1>7. InOrder'
  <2> SUFFICES ASSUME NEW i \in Slots, NEW j \in Slots, Occupied(i)', Occupied(j)',
                      Dist(i, C') < Dist(j, C')
               PROVE  prxs'[i].id <= prxs'[j].id
    BY DEF InOrder
  <2>1. Dist(i, C) < Dist(j, C)
    BY <1>2, <1>3, <1>5
  <2> QED  BY <1>5, <2>1 DEF RingInv, InOrder
<1>8. NotOlder'
  <2>1. CASE p' = NULL
    BY <1>5, <2>1 DEF RingInv, NotOlder
  <2>2. CASE p' = prxs[C] /\ Occupied(C)
    <3>1. \A i \in Slots : Occupied(i)' => prxs[C].id <= prxs[i].id
      BY <1>1, <1>2, <1>5, <2>2 DEF RingInv, InOrder
    <3> QED  BY <1>1, <1>5, <2>2, <3>1 DEF RingInv, NotOlder
  <2> QED  BY <2>1, <2>2
<1> QED  BY <1>6, <1>7, <1>8 DEF RingInv, CursorsAgree

\* The task drops a frame with an error.
LEMMA RingDrop == ASSUME RingInv, TypeInv', RxDropError PROVE RingInv'
<1> DEFINE C == RxConsumeIndex
           D == rxdescnextindex
<1>1. /\ C \in Slots /\ D \in Slots /\ rxb \in [Slots -> Lens \cup {NULL}] /\ p = NULL
      /\ prxs \in [Slots -> Statuses]
  BY DEF RingInv, TypeInv, RxTypes, Locals, RxDropError
<1>2. /\ rxb' = [[rxb EXCEPT ![C] = NULL] EXCEPT ![D] = rxb[C]]
      /\ prxs' = [prxs EXCEPT ![D] = Cleared] /\ D' = WrapInc(D) /\ C' = WrapInc(D)
      /\ RxProduceIndex # C /\ UNCHANGED <<RxProduceIndex, p, frames, delivered>>
  BY DEF RxDropError, lpc_rxqueue_pbuf, StatusCleared, hwVars, IsRxEmpty
<1>3. CASE D = C
  <2>1. \A i \in Slots : i # C => rxb'[i] = rxb[i]
    BY <1>1, <1>2, <1>3
  <2> QED  BY <1>1, <1>2, <1>3, <2>1, RingGiveBack
<1>4. CASE \A i \in Slots : rxb[i] = NULL
  <2>1. \A i \in Slots : rxb'[i] = NULL
    BY <1>1, <1>2, <1>4
  <2> QED  BY <1>2, <2>1, RingVacant DEF CursorsAgree, Occupied
<1> QED  BY <1>3, <1>4 DEF RingInv, CursorsAgree

\* There is no memory for the copy of a frame.
LEMMA RingNoMemory == ASSUME RingInv, TypeInv', RxNoMemory PROVE RingInv'
<1> DEFINE C == RxConsumeIndex
<1>1. /\ C \in Slots /\ rxb \in [Slots -> Lens \cup {NULL}] /\ p = NULL
      /\ rxdescnextindex = C /\ prxs \in [Slots -> Statuses]
  BY DEF RingInv, TypeInv, RxTypes, Locals, RxNoMemory, CursorsAgree
<1>2. /\ rxb' = [[rxb EXCEPT ![C] = prxs[C].len] EXCEPT ![C] = NULL]
      /\ prxs' = [prxs EXCEPT ![C] = Cleared] /\ rxdescnextindex' = WrapInc(C)
      /\ C' = WrapInc(C) /\ RxProduceIndex # C
      /\ UNCHANGED <<RxProduceIndex, p, frames, delivered>>
  BY <1>1 DEF RxNoMemory, lpc_rxqueue_pbuf, StatusCleared, hwVars, IsRxEmpty
<1>3. \A i \in Slots : i # C => rxb'[i] = rxb[i]
  BY <1>1, <1>2
<1> QED  BY <1>1, <1>2, <1>3, RingGiveBack

\* The task copies a good frame.
LEMMA RingCopy == ASSUME RingInv, TypeInv', RxCopy PROVE RingInv'
<1> DEFINE C == RxConsumeIndex
<1>1. C \in Slots /\ rxb \in [Slots -> Lens \cup {NULL}] /\ p = NULL
  BY DEF RingInv, TypeInv, RxTypes, Locals, RxCopy
<1>2. /\ \A i \in Slots : i # C => rxb'[i] = rxb[i]
      /\ prxs' = [prxs EXCEPT ![C] = Cleared] /\ rxdescnextindex' = WrapInc(C)
      /\ C' = WrapInc(C) /\ RxProduceIndex # C /\ p' = prxs[C]
      /\ Occupied(C) /\ UNCHANGED <<RxProduceIndex, frames, delivered>>
  BY <1>1 DEF RxCopy, StatusCleared, hwVars, IsRxEmpty, Occupied
<1> QED  BY <1>1, <1>2, RingGiveBack

\* The recovery.
LEMMA RingReset ==
  ASSUME RingInv, TypeInv', NEW k \in 0..EMAC_NUM_RX_FRAG, RxReset(k)
  PROVE  RingInv'
<1>1. \A i \in Slots : i < k => prxs'[i].info = "clear"
  BY DEF RxReset, Cleared
<1>2. \A i \in Slots : ~(i < k) => rxb'[i] = NULL
  BY DEF RxReset, RxbAfterReset
<1>3. k = 0 => \A i \in Slots : rxb'[i] = NULL
  BY <1>2 DEF Slots
<1>4. CursorsAgree'
  BY <1>3 DEF CursorsAgree, RxReset
<1> QED  BY <1>1, <1>2, <1>4, RingVacant DEF Occupied, RxReset

\* The initial state and every step keep the ring in order.
LEMMA RingInit == Init => RingInv
<1> SUFFICES ASSUME Init PROVE RingInv
  OBVIOUS
<1>1. TypeInv
  BY TypeInit
<1>2. \A i \in Slots : ~Occupied(i)
  BY DEF Init, Occupied, Cleared
<1> QED  BY <1>1, <1>2 DEF RingInv, CursorsAgree, InRange, InOrder, NotOlder, Init

LEMMA RingStep == RingInv /\ [Next]_vars => RingInv'
<1> SUFFICES ASSUME RingInv, [Next]_vars PROVE RingInv'
  OBVIOUS
<1>0. TypeInv /\ TypeInv'
  BY TypeStep DEF RingInv
<1>t. frames \in Nat
  BY <1>0 DEF TypeInv, RxTypes
<1>1. CASE RxSemWait \/ RxLoop \/ RxCheck \/ RxFault
  BY <1>0, <1>t, <1>1, RingUntouched DEF RxSemWait, RxLoop, RxCheck, RxFault, hwVars
<1>2. CASE RxDropError
  BY <1>0, <1>2, RingDrop
<1>3. CASE RxNoMemory
  BY <1>0, <1>3, RingNoMemory
<1>4. CASE RxCopy
  BY <1>0, <1>4, RingCopy
<1>5. ASSUME NEW k \in Queued, RxReset(k) PROVE RingInv'
  <2>1. EMAC_NUM_RX_FRAG \in 0..EMAC_NUM_RX_FRAG
    BY RxFragAssumption
  <2>2. k \in 0..EMAC_NUM_RX_FRAG
    BY <2>1, Zenon DEF Queued
  <2> QED  BY <1>0, <1>5, <2>2, RingReset
<1>6. ASSUME NEW ok \in BOOLEAN, RxInput(ok) PROVE RingInv'
  <2>1. /\ p \in Reports /\ p' = NULL /\ delivered' \in {p.id, delivered} /\ p # NULL
        /\ UNCHANGED <<RxProduceIndex, descVars, frames>>
    BY <1>0, <1>6, TypeFacts DEF TypeInv, RxTypes, Locals, RxInput, hwVars
  <2>2. NotOlder'
    BY <1>0, <2>1 DEF RingInv, NotOlder, Occupied, descVars
  <2> QED
    BY <1>0, <2>1, <2>2 DEF RingInv, CursorsAgree, InRange, InOrder, Occupied, descVars
<1>7. ASSUME NEW len \in Lens, NEW err \in RxErrors, HwReceive(len, err) PROVE RingInv'
  <2>1. frames + 1 \in 1..MaxFrames /\ err \in BOOLEAN /\ frames <= frames + 1
    BY <1>0, <1>7, LenAssumption, ChoiceAssumption DEF HwReceive, TypeInv, RxTypes
  <2> QED  BY <1>7, <2>1, RingStore DEF HwReceive
<1>8. CASE HwContinue
  <2>1. frames \in 1..MaxFrames /\ hwrem \in Lens /\ frames <= frames
    BY <1>0, <1>8, LenAssumption DEF HwContinue, Lens, TypeInv, RxTypes, Locals
  <2>2. HwStore(frames, hwrem, FALSE) /\ frames' = frames /\ FALSE \in BOOLEAN
    BY <1>8 DEF HwContinue
  <2> QED  BY <2>1, <2>2, RingStore, Zenon
<1>9. CASE HwNoDescriptor \/ HwOverrun
  BY <1>0, <1>t, <1>9, RingUntouched DEF HwNoDescriptor, HwOverrun, HwLose, taskVars
<1>10. CASE IsrEnter \/ IsrExit
  BY <1>0, <1>t, <1>10, RingUntouched DEF IsrEnter, IsrExit, hwVars, taskVars
<1>11. CASE UNCHANGED vars
  BY <1>0, <1>t, <1>11, RingUntouched DEF vars, hwVars, taskVars
<1> QED
  BY <1>1, <1>2, <1>3, <1>4, <1>5, <1>6, <1>7, <1>8, <1>9, <1>10, <1>11
     DEF Next, TaskStep, RxFrame, HwStep

LEMMA RingInductive == Spec => []RingInv
BY RingInit, RingStep, PTL DEF Spec

-----------------------------------------------------------------------------
\* No old frame is passed to the stack after a newer one, whatever was lost, dropped or
\* reset in between and also when memory has run out (lpc_enetif_input).
THEOREM NeverBackAgain == Spec => NeverBackwards
<1>1. RingInv /\ [Next]_vars => [delivered' >= delivered]_vars
  <2> SUFFICES ASSUME RingInv, [Next]_vars PROVE delivered' = delivered \/ delivered' >= delivered
    BY DEF RingInv, TypeInv, RxTypes
  <2>1. ASSUME NEW ok \in BOOLEAN, RxInput(ok) PROVE delivered' >= delivered
    BY <2>1, TypeFacts DEF RingInv, TypeInv, RxTypes, Locals, NotOlder, RxInput, Reports
  <2>2. CASE RxSemWait \/ RxLoop \/ RxCheck \/ RxFrame \/ \E k \in Queued : RxReset(k)
    BY <2>2 DEF RxSemWait, RxLoop, RxCheck, RxFrame, RxDropError, RxCopy, RxNoMemory, RxFault,
                RxReset
  <2>3. CASE HwStep \/ IsrEnter \/ IsrExit \/ UNCHANGED vars
    BY <2>3 DEF HwStep, HwReceive, HwContinue, HwStore, HwNoDescriptor, HwOverrun, HwLose,
                IsrEnter, IsrExit, vars
  <2> QED  BY <2>1, <2>2, <2>3 DEF Next, TaskStep
<1> QED  BY <1>1, RingInductive, PTL DEF Spec, NeverBackwards

-----------------------------------------------------------------------------
(* Buffers *)

\* There are as many slots as descriptors, and as many below k as k.
LEMMA SlotsFinite ==
  /\ IsFiniteSet(Slots) /\ Cardinality(Slots) = EMAC_NUM_RX_FRAG
  /\ \A k \in 0..EMAC_NUM_RX_FRAG : Cardinality({i \in Slots : i < k}) = k
<1>1. IsFiniteSet(Slots) /\ Cardinality(Slots) = EMAC_NUM_RX_FRAG
  BY FS_Interval, RxFragAssumption DEF Slots
<1>2. ASSUME NEW k \in 0..EMAC_NUM_RX_FRAG
      PROVE  Cardinality({i \in Slots : i < k}) = k
  <2>1. {i \in Slots : i < k} = 0..k - 1
    BY RxFragAssumption DEF Slots
  <2>2. Cardinality(0..k - 1) = k
    BY FS_Interval, RxFragAssumption
  <2> QED  BY <2>1, <2>2
<1> QED  BY <1>1, <1>2

\* A step that allocates nothing and puts no buffer into an empty slot.
LEMMA OwnedUntouched ==
  ASSUME RingInv, RecoveryFreesOwned, nbuf' = nbuf,
         \A i \in Slots : rxb'[i] # NULL => rxb[i] # NULL
  PROVE  RecoveryFreesOwned'
<1>1. Buffered' \subseteq Buffered /\ IsFiniteSet(Buffered)
  BY SlotsFinite, FS_Subset DEF Buffered
<1>2. Cardinality(Buffered') <= Cardinality(Buffered) /\ IsFiniteSet(Buffered')
  BY <1>1, FS_Subset
<1>3. Cardinality(Buffered) \in Nat /\ Cardinality(Buffered') \in Nat /\ nbuf \in Int
  BY <1>1, <1>2, FS_CardinalityType DEF RingInv, TypeInv, RxTypes
<1> QED  BY <1>2, <1>3 DEF RecoveryFreesOwned, Buffered

\* Every step but the recovery.
LEMMA BuffersKept ==
  ASSUME RingInv, RxDropError \/ RxCopy \/ RxNoMemory
  PROVE  /\ nbuf' = nbuf
         /\ \A i \in Slots : rxb'[i] # NULL => rxb[i] # NULL
         /\ ~RxNoMemory => \A i \in Slots : rxb[i] # NULL => rxb'[i] # NULL
<1>1. /\ RxConsumeIndex \in Slots /\ rxdescnextindex \in Slots /\ CursorsAgree
      /\ rxb \in [Slots -> Lens \cup {NULL}]
  BY DEF RingInv, TypeInv, RxTypes
<1>2. CASE RxDropError
  <2>1. rxb' = [[rxb EXCEPT ![RxConsumeIndex] = NULL] EXCEPT ![rxdescnextindex]
                  = rxb[RxConsumeIndex]] /\ nbuf' = nbuf
    BY <1>2 DEF RxDropError, lpc_rxqueue_pbuf
  <2>2. CASE rxdescnextindex = RxConsumeIndex
    BY <1>1, <2>1, <2>2
  <2>3. CASE \A i \in Slots : rxb[i] = NULL
    BY <1>1, <2>1, <2>3
  <2> QED  BY <1>1, <2>2, <2>3 DEF CursorsAgree
<1>3. CASE RxCopy
  <2>1. prxs[RxConsumeIndex] \in Reports
    BY <1>1, <1>3 DEF RxCopy, Statuses, Cleared, RingInv, TypeInv, RxTypes
  <2>2. prxs[RxConsumeIndex].len # NULL
    BY <2>1, TypeFacts DEF Reports
  <2> QED  BY <1>1, <1>3, <2>2 DEF RxCopy
<1>4. CASE RxNoMemory
  <2>1. rxb' = [[rxb EXCEPT ![RxConsumeIndex] = prxs[RxConsumeIndex].len]
                 EXCEPT ![rxdescnextindex] = NULL] /\ nbuf' = nbuf
    BY <1>4 DEF RxNoMemory, lpc_rxqueue_pbuf
  <2>2. rxdescnextindex = RxConsumeIndex
    BY <1>1, <1>4 DEF RxNoMemory, CursorsAgree
  <2> QED  BY <1>1, <1>4, <2>1, <2>2
<1> QED  BY <1>2, <1>3, <1>4

\* The recovery frees what is there and counts what it gets.
LEMMA OwnedReset ==
  ASSUME RingInv, RecoveryFreesOwned, NEW k \in 0..EMAC_NUM_RX_FRAG, RxReset(k)
  PROVE  /\ RecoveryFreesOwned'
         /\ Buffered' = {i \in Slots : i < k}
         /\ nbuf' = nbuf - Cardinality(Buffered) + k
<1>1. Buffered' = {i \in Slots : i < k}
  BY TypeFacts DEF Buffered, RxReset, RxbAfterReset
<1>2. Cardinality(Buffered') = k
  BY <1>1, SlotsFinite
<1>3. Cardinality(Buffered) \in Nat /\ nbuf \in Int /\ k \in Nat
  <2>1. IsFiniteSet(Buffered)
    BY SlotsFinite, FS_Subset DEF Buffered
  <2> QED  BY <2>1, FS_CardinalityType DEF RingInv, TypeInv, RxTypes
<1>4. nbuf' = nbuf - Cardinality(Buffered) + k
  BY DEF RxReset, Buffered
<1>5. Cardinality(Buffered') <= nbuf'
  BY <1>2, <1>3, <1>4 DEF RecoveryFreesOwned, Buffered
<1> QED  BY <1>1, <1>4, <1>5 DEF RecoveryFreesOwned, Buffered

\* Also when memory runs out, the recovery frees only buffers the driver has: rxb
\* never names more of them than were allocated (vPacketReceiveTask).
THEOREM RecoveryIsSafe == Spec => []RecoveryFreesOwned
<1>1. Init => RecoveryFreesOwned
  <2> SUFFICES ASSUME Init PROVE RecoveryFreesOwned
    OBVIOUS
  <2>1. Buffered = Slots
    BY TypeFacts DEF Init, Buffered
  <2> QED  BY <2>1, SlotsFinite, TypeFacts DEF RecoveryFreesOwned, Init
<1>2. RingInv /\ RecoveryFreesOwned /\ [Next]_vars => RecoveryFreesOwned'
  <2> SUFFICES ASSUME RingInv, RecoveryFreesOwned, [Next]_vars PROVE RecoveryFreesOwned'
    OBVIOUS
  <2>1. CASE RxDropError \/ RxCopy \/ RxNoMemory
    BY <2>1, BuffersKept, OwnedUntouched
  <2>2. ASSUME NEW k \in Queued, RxReset(k) PROVE RecoveryFreesOwned'
    <3>1. EMAC_NUM_RX_FRAG \in 0..EMAC_NUM_RX_FRAG
      BY RxFragAssumption
    <3>2. k \in 0..EMAC_NUM_RX_FRAG
      BY <3>1, Zenon DEF Queued
    <3> QED  BY <2>2, <3>2, OwnedReset
  <2>3. CASE RxSemWait \/ RxLoop \/ RxCheck \/ RxFault \/ \E ok \in BOOLEAN : RxInput(ok)
    BY <2>3 DEF RxSemWait, RxLoop, RxCheck, RxFault, RxInput, descVars, RecoveryFreesOwned,
                Buffered
  <2>4. CASE HwStep \/ IsrEnter \/ IsrExit \/ UNCHANGED vars
    BY <2>4 DEF HwStep, HwReceive, HwContinue, HwStore, HwNoDescriptor, HwOverrun, HwLose,
                IsrEnter, IsrExit, vars, descVars, RecoveryFreesOwned, Buffered
  <2> QED  BY <2>1, <2>2, <2>3, <2>4 DEF Next, TaskStep, RxFrame
<1> QED  BY <1>1, <1>2, RingInductive, PTL DEF Spec

-----------------------------------------------------------------------------
(* What a failed allocation costs *)

\* rxdescfree is a u8_t, counted up and down again.
LEMMA FreeCount ==
  ASSUME NEW free \in 0..255
  PROVE  RxDescQueued((free + 1) % 256) = free
BY DEF RxDescQueued

\* ... or only down.
LEMMA QueuedOnce ==
  ASSUME NEW n \in Int
  PROVE  RxDescQueued(n % 256) = (n - 1) % 256
BY DEF RxDescQueued

\* The buffers and the history, with its type.
Accounted == BuffersAccounted /\ leaked \in Nat /\ nocopy \in Nat /\ norefill \in Nat

\* The slots with a buffer and those without are all the slots.
LEMMA BufferedSplit ==
  /\ IsFiniteSet(Buffered) /\ Cardinality(Buffered) \in Nat
  /\ Cardinality(Slots \ Buffered) = EMAC_NUM_RX_FRAG - Cardinality(Buffered)
<1>1. Buffered \subseteq Slots
  BY DEF Buffered
<1>2. IsFiniteSet(Buffered) /\ Cardinality(Buffered) \in Nat
  BY <1>1, SlotsFinite, FS_Subset, FS_CardinalityType
<1>3. Cardinality(Slots \ Buffered) = Cardinality(Slots) - Cardinality(Slots \cap Buffered)
  BY SlotsFinite, FS_Difference
<1>4. Slots \cap Buffered = Buffered
  BY <1>1
<1> QED  BY <1>2, <1>3, <1>4, SlotsFinite

\* The same of the next state.
LEMMA BufferedSplitNext ==
  /\ IsFiniteSet(Buffered') /\ Cardinality(Buffered') \in Nat
  /\ Cardinality(Slots \ Buffered') = EMAC_NUM_RX_FRAG - Cardinality(Buffered')
<1>1. Buffered' \subseteq Slots
  BY DEF Buffered
<1>2. IsFiniteSet(Buffered') /\ Cardinality(Buffered') \in Nat
  BY <1>1, SlotsFinite, FS_Subset, FS_CardinalityType
<1>3. Cardinality(Slots \ Buffered') = Cardinality(Slots) - Cardinality(Slots \cap Buffered')
  BY SlotsFinite, FS_Difference
<1>4. Slots \cap Buffered' = Buffered'
  BY <1>1
<1> QED  BY <1>2, <1>3, <1>4, SlotsFinite

\* A step that fills no slot, empties none and counts nothing.
LEMMA AccountUntouched ==
  ASSUME Accounted, Buffered' = Buffered, UNCHANGED <<nbuf, lostVars, rxdescfree>>
  PROVE  Accounted'
BY DEF Accounted, BuffersAccounted, lostVars

\* No memory for a copy: one slot is emptied, nothing is freed.
LEMMA AccountNoMemory ==
  ASSUME RingInv, Accounted, RxNoMemory
  PROVE  Accounted'
<1> DEFINE C == RxConsumeIndex
<1>1. /\ C \in Slots /\ rxb \in [Slots -> Lens \cup {NULL}] /\ rxdescnextindex = C
      /\ rxb[C] # NULL
  BY DEF RingInv, TypeInv, RxTypes, CursorsAgree, RxNoMemory
<1>2. /\ rxb' = [[rxb EXCEPT ![C] = prxs[C].len] EXCEPT ![C] = NULL] /\ nbuf' = nbuf
      /\ leaked' = leaked + 1 /\ nocopy' = nocopy + 1 /\ norefill' = norefill
      /\ rxdescfree' = RxDescQueued(rxdescfree)
  BY <1>1 DEF RxNoMemory, lpc_rxqueue_pbuf
<1>3. Buffered' = Buffered \ {C} /\ C \in Buffered
  BY <1>1, <1>2 DEF Buffered
<1>4. Cardinality(Buffered') = Cardinality(Buffered) - 1
  BY <1>3, BufferedSplit, FS_RemoveElement
<1>5. nbuf' = Cardinality(Buffered') + leaked'
  BY <1>2, <1>4, BufferedSplit DEF Accounted, BuffersAccounted
<1>6. Cardinality(Slots \ Buffered') = nocopy' + norefill'
  BY <1>2, <1>4, BufferedSplit, BufferedSplitNext, TypeFacts DEF Accounted, BuffersAccounted
<1>7. rxdescfree' = (norefill' - nocopy') % 256
  <2>1. norefill - nocopy \in Int /\ norefill' - nocopy' = (norefill - nocopy) - 1
    BY <1>2 DEF Accounted
  <2>2. rxdescfree = (norefill - nocopy) % 256
    BY DEF Accounted, BuffersAccounted
  <2> QED  BY <1>2, <2>1, <2>2, QueuedOnce
<1> QED  BY <1>2, <1>5, <1>6, <1>7 DEF Accounted, BuffersAccounted

\* The recovery: all is freed that is in a slot, and k slots are filled again.
LEMMA AccountReset ==
  ASSUME RingInv, Accounted, NEW k \in 0..EMAC_NUM_RX_FRAG, RxReset(k)
  PROVE  Accounted'
<1>1. Buffered' = {i \in Slots : i < k}
  BY TypeFacts DEF Buffered, RxReset, RxbAfterReset
<1>2. Cardinality(Buffered') = k /\ k \in Nat
  BY <1>1, SlotsFinite
<1>3. /\ nbuf' = nbuf - Cardinality(Buffered) + k /\ leaked' = leaked
      /\ norefill' = EMAC_NUM_RX_FRAG - k /\ nocopy' = 0 /\ rxdescfree' = EMAC_NUM_RX_FRAG - k
  BY DEF RxReset
<1>4. nbuf' = Cardinality(Buffered') + leaked'
  BY <1>2, <1>3, BufferedSplit DEF Accounted, BuffersAccounted
<1>5. norefill' \in Nat /\ norefill' \in 0..255
  BY <1>3, RxFragAssumption
<1>6. Cardinality(Slots \ Buffered') = nocopy' + norefill'
  BY <1>2, <1>3, <1>5, BufferedSplitNext
<1>7. rxdescfree' = (norefill' - nocopy') % 256
  BY <1>3, <1>5
<1> QED  BY <1>3, <1>4, <1>5, <1>6, <1>7 DEF Accounted, BuffersAccounted

\* Every step keeps the account.
LEMMA AccountStep == RingInv /\ Accounted /\ [Next]_vars => Accounted'
<1> SUFFICES ASSUME RingInv, Accounted, [Next]_vars PROVE Accounted'
  OBVIOUS
<1>1. CASE RxDropError \/ RxCopy
  <2>1. nbuf' = nbuf /\ UNCHANGED lostVars /\ ~RxNoMemory
    BY <1>1, BuffersKept DEF RxDropError, RxCopy, RxNoMemory
  <2>2. Buffered' = Buffered
    BY <1>1, <2>1, BuffersKept DEF Buffered
  <2>3. rxdescfree' = rxdescfree
    BY <1>1, FreeCount
       DEF RxDropError, RxCopy, lpc_rxqueue_pbuf, RingInv, TypeInv, RxTypes
  <2> QED  BY <2>1, <2>2, <2>3, AccountUntouched
<1>2. CASE RxNoMemory
  BY <1>2, AccountNoMemory
<1>3. ASSUME NEW k \in Queued, RxReset(k) PROVE Accounted'
  <2>1. EMAC_NUM_RX_FRAG \in 0..EMAC_NUM_RX_FRAG
    BY RxFragAssumption
  <2>2. k \in 0..EMAC_NUM_RX_FRAG
    BY <2>1, Zenon DEF Queued
  <2> QED  BY <1>3, <2>2, AccountReset
<1>4. CASE RxSemWait \/ RxLoop \/ RxCheck \/ RxFault \/ \E ok \in BOOLEAN : RxInput(ok)
  <2>1. UNCHANGED descVars
    BY <1>4 DEF RxSemWait, RxLoop, RxCheck, RxFault, RxInput
  <2> QED  BY <2>1, AccountUntouched DEF descVars, Buffered
<1>5. CASE HwStep \/ IsrEnter \/ IsrExit \/ UNCHANGED vars
  <2>1. UNCHANGED <<rxb, nbuf, lostVars, rxdescfree>>
    BY <1>5 DEF HwStep, HwReceive, HwContinue, HwStore, HwNoDescriptor, HwOverrun, HwLose,
                IsrEnter, IsrExit, vars, descVars
  <2> QED  BY <2>1, AccountUntouched DEF Buffered
<1> QED  BY <1>1, <1>2, <1>3, <1>4, <1>5 DEF Next, TaskStep, RxFrame

\* Whatever fails, the buffers are accounted for: each failed allocation costs the ring
\* exactly one buffer, and nothing else costs one (lpc_low_level_input, lpc_rx_queue).
THEOREM EveryBufferAccounted == Spec => []BuffersAccounted
<1>1. Init => Accounted
  <2> SUFFICES ASSUME Init PROVE Accounted
    OBVIOUS
  <2>1. Buffered = Slots /\ Slots \ Buffered = {}
    BY TypeFacts DEF Init, Buffered
  <2>2. Cardinality(Slots \ Buffered) = 0
    BY <2>1, FS_EmptySet
  <2> QED  BY <2>1, <2>2, SlotsFinite, TypeFacts DEF Init, Accounted, BuffersAccounted
<1>2. Accounted => BuffersAccounted
  BY DEF Accounted
<1> QED  BY <1>1, <1>2, AccountStep, RingInductive, PTL DEF Spec

-----------------------------------------------------------------------------
(* With memory for every buffer *)

\* Every slot has its buffer and no descriptor is counted free.
BuffersInPlace ==
  /\ \A i \in Slots : rxb[i] # NULL
  /\ rxdescfree = 0
  /\ nbuf = EMAC_NUM_RX_FRAG

\* Every step keeps the buffers in place.
LEMMA BuffersStep ==
  ASSUME TRUE \notin AllocFails
  PROVE  RingInv /\ BuffersInPlace /\ [Next]_vars => BuffersInPlace'
<1> SUFFICES ASSUME RingInv, BuffersInPlace, [Next]_vars PROVE BuffersInPlace'
  OBVIOUS
<1>1. CASE RxDropError \/ RxCopy
  <2>1. nbuf' = nbuf /\ \A i \in Slots : rxb'[i] # NULL
    <3>1. CASE RxDropError
      BY <3>1, BuffersKept DEF BuffersInPlace, RxDropError, RxNoMemory
    <3>2. CASE RxCopy
      BY <3>2, BuffersKept, TypeFacts
         DEF BuffersInPlace, RxCopy, RxNoMemory, RingInv, TypeInv, RxTypes
    <3> QED  BY <1>1, <3>1, <3>2
  <2>2. rxdescfree' = rxdescfree
    BY <1>1, FreeCount DEF BuffersInPlace, RxDropError, RxCopy, lpc_rxqueue_pbuf
  <2> QED  BY <2>1, <2>2 DEF BuffersInPlace
<1>2. ASSUME NEW k \in Queued, RxReset(k) PROVE BuffersInPlace'
  <2>1. k = EMAC_NUM_RX_FRAG
    BY <1>2, Zenon DEF Queued
  <2>2. k \in 0..EMAC_NUM_RX_FRAG /\ {i \in Slots : i < k} = Slots
    BY <2>1, RxFragAssumption DEF Slots
  <2>3. Buffered = Slots
    BY DEF Buffered, BuffersInPlace
  <2>4. RecoveryFreesOwned
    BY <2>3, SlotsFinite, TypeFacts DEF RecoveryFreesOwned, BuffersInPlace, Buffered
  <2>5. Buffered' = Slots /\ nbuf' = nbuf - EMAC_NUM_RX_FRAG + k
    BY <1>2, <2>2, <2>3, <2>4, OwnedReset, SlotsFinite
  <2>6. nbuf' = EMAC_NUM_RX_FRAG /\ rxdescfree' = 0
    BY <1>2, <2>1, <2>5, TypeFacts DEF BuffersInPlace, RxReset
  <2> QED  BY <2>5, <2>6 DEF BuffersInPlace, Buffered
<1>3. CASE RxSemWait \/ RxLoop \/ RxCheck \/ RxFault \/ \E ok \in BOOLEAN : RxInput(ok)
  BY <1>3 DEF RxSemWait, RxLoop, RxCheck, RxFault, RxInput, descVars, BuffersInPlace
<1>4. CASE HwStep \/ IsrEnter \/ IsrExit \/ UNCHANGED vars
  BY <1>4 DEF HwStep, HwReceive, HwContinue, HwStore, HwNoDescriptor, HwOverrun, HwLose,
              IsrEnter, IsrExit, vars, descVars, BuffersInPlace
<1> QED  BY <1>1, <1>2, <1>3, <1>4, Zenon DEF Next, TaskStep, RxFrame

\* When pbuf_alloc always succeeds, every slot keeps its buffer, no descriptor is
\* counted free and nothing is allocated but the buffers of the ring.
LEMMA NoBufferLost ==
  ASSUME TRUE \notin AllocFails
  PROVE  Spec => []BuffersInPlace
<1>1. Init => BuffersInPlace
  BY TypeFacts DEF Init, BuffersInPlace
<1>2. RingInv /\ BuffersInPlace /\ [Next]_vars => BuffersInPlace'
  BY BuffersStep
<1> QED  BY <1>1, <1>2, RingInductive, PTL DEF Spec

\* The slot the task reads is the slot it gives back, and a slot the EMAC may still fill
\* reports nothing old: both cursors and the status words agree after every recovery.
THEOREM SlotsInStep ==
  ASSUME TRUE \notin AllocFails
  PROVE  Spec => []SlotsAgree
<1>1. RingInv /\ BuffersInPlace => SlotsAgree
  <2> SUFFICES ASSUME RingInv, BuffersInPlace PROVE SlotsAgree
    OBVIOUS
  <2>1. RxConsumeIndex \in Slots /\ RxProduceIndex \in Slots /\ 0 \in Slots
    BY TypeFacts DEF RingInv, TypeInv, RxTypes
  <2>2. rxdescnextindex = RxConsumeIndex
    BY <2>1 DEF RingInv, CursorsAgree, BuffersInPlace
  <2> QED
    BY <2>1, <2>2, DistIsRemainder DEF SlotsAgree, RingInv, InRange, Occupied, BuffersInPlace
<1> QED  BY <1>1, RingInductive, NoBufferLost, PTL

-----------------------------------------------------------------------------
(* The ring implements the queue LossyFifo *)

\* The slots that hold a frame are the last ones before the cursor of the EMAC: the
\* first m are empty, left behind by a recovery that kept RxProduceIndex.
EmptyFirst(m) ==
  /\ m \in 0..Dist(RxProduceIndex, RxConsumeIndex)
  /\ \A i \in Slots : prxs[i].info # "clear" <=>
       m <= Dist(i, RxConsumeIndex)
         /\ Dist(i, RxConsumeIndex) < Dist(RxProduceIndex, RxConsumeIndex)

QueueInv == RingInv /\ BuffersInPlace /\ \E m \in Slots : EmptyFirst(m)

\* The numbers of the frames from the m-th slot on.
Ids(m) == [j \in 1..Dist(RxProduceIndex, RxConsumeIndex) - m |-> prxs[SlotAt(m + j - 1)].id]

\* The queue of the refinement.
Waiting == (IF p = NULL THEN <<>> ELSE <<p.id>>) \o [j \in DOMAIN Pending |-> Pending[j].id]

\* The j-th slot is at distance j.
LEMMA SlotAtDist ==
  ASSUME RxConsumeIndex \in Slots, NEW j \in Slots
  PROVE  SlotAt(j) \in Slots /\ Dist(SlotAt(j), RxConsumeIndex) = j
BY RxFragAssumption DEF Slots, SlotAt, Dist

\* The queue of the refinement is made of the slots after the empty ones.
WaitingFacts ==
  RxTypes => \A m \in Slots : EmptyFirst(m) =>
               /\ Waiting = (IF p = NULL THEN <<>> ELSE <<p.id>>) \o Ids(m)
               /\ Ids(m) \in Seq(Nat)

LEMMA WaitingIs == WaitingFacts
<1> SUFFICES ASSUME RxTypes, NEW m \in Slots, EmptyFirst(m)
             PROVE  /\ Waiting = (IF p = NULL THEN <<>> ELSE <<p.id>>) \o Ids(m)
                    /\ Ids(m) \in Seq(Nat)
  BY DEF WaitingFacts
<1> DEFINE F == Dist(RxProduceIndex, RxConsumeIndex)
<1>1. /\ RxConsumeIndex \in Slots /\ RxProduceIndex \in Slots /\ prxs \in [Slots -> Statuses]
  BY DEF RxTypes
<1>2. Filled = F /\ F \in Slots /\ m \in 0..F
  BY <1>1, DistIsRemainder DEF Filled, EmptyFirst
<1>3. \A j \in 0..F - 1 : /\ j \in Slots /\ SlotAt(j) \in Slots
                          /\ prxs[SlotAt(j)].info = "clear" <=> j < m
  <2> TAKE j \in 0..F - 1
  <2>1. j \in Slots
    BY <1>2, RxFragAssumption DEF Slots
  <2>2. SlotAt(j) \in Slots /\ Dist(SlotAt(j), RxConsumeIndex) = j
    BY <1>1, <2>1, SlotAtDist
  <2> QED  BY <1>2, <2>1, <2>2, RxFragAssumption DEF EmptyFirst, Slots
<1>4. Skipped = m
  <2> DEFINE S(x) == /\ \A j \in 0..x - 1 : prxs[SlotAt(j)].info = "clear"
                     /\ x < F => prxs[SlotAt(x)].info # "clear"
  <2>1. S(m)
    BY <1>2, <1>3, RxFragAssumption DEF Slots
  <2>2. ASSUME NEW x \in 0..F, S(x) PROVE x = m
    <3>1. F \in Nat
      BY <1>2, RxFragAssumption DEF Slots
    <3>2. ~(x < m)
      BY <1>2, <1>3, <2>2, <3>1
    <3>3. ~(m < x)
      BY <1>2, <1>3, <2>2, <3>1
    <3> QED  BY <1>2, <3>1, <3>2, <3>3
  <2>3. Skipped = CHOOSE x \in 0..F : S(x)
    BY <1>2 DEF Skipped
  <2> HIDE DEF S
  <2> QED  BY <1>2, <2>1, <2>2, <2>3
<1>5. Pending = [j \in 1..F - m |-> prxs[SlotAt(m + j - 1)]]
  BY <1>2, <1>4 DEF Pending
<1>6. [j \in DOMAIN Pending |-> Pending[j].id] = Ids(m)
  BY <1>5 DEF Ids
<1>7. ASSUME NEW j \in 1..F - m PROVE prxs[SlotAt(m + j - 1)].id \in Nat
  <2>1. m + j - 1 \in 0..F - 1 /\ ~(m + j - 1 < m)
    BY <1>2, RxFragAssumption DEF Slots
  <2>2. prxs[SlotAt(m + j - 1)] \in Reports
    BY <1>1, <1>3, <2>1 DEF Statuses, Cleared
  <2> QED  BY <2>2 DEF Reports
<1>8. Ids(m) \in Seq(Nat)
  <2>1. F - m \in Nat
    BY <1>2, RxFragAssumption DEF Slots
  <2> QED  BY <1>7, <2>1 DEF Ids
<1> QED  BY <1>6, <1>8 DEF Waiting

LEMMA WaitingWillBe == WaitingFacts'
BY WaitingIs, PTL

\* The EMAC fills a slot: a frame joins the queue.
LEMMA QueueStore ==
  ASSUME QueueInv, RxTypes', NEW id \in 1..MaxFrames, NEW len \in Lens, NEW err \in BOOLEAN,
         HwStore(id, len, err), frames' = id
  PROVE  /\ \E m \in Slots : EmptyFirst(m)'
         /\ Waiting' = Append(Waiting, id)
<1> DEFINE P == RxProduceIndex
           C == RxConsumeIndex
           F == Dist(P, C)
<1>1. PICK m \in Slots : EmptyFirst(m)
  BY DEF QueueInv
<1>2. /\ P \in Slots /\ C \in Slots /\ RxTypes /\ TypeInv
  BY DEF QueueInv, RingInv, TypeInv, RxTypes
<1>3. /\ prxs'[P].id = id /\ prxs'[P].info # "clear"
      /\ \A i \in Slots : i # P => prxs'[i] = prxs[i]
  BY <1>2, StoreTypes
<1>4. WrapInc(P) # C /\ P' = WrapInc(P) /\ UNCHANGED <<RxConsumeIndex, p>>
  BY <1>2, Successor DEF HwStore, RxFull, taskVars
<1>5. Dist(P', C') = F + 1 /\ F \in Slots /\ m \in 0..F /\ F \in Nat
  BY <1>1, <1>2, <1>4, DistGrows, DistIsRemainder DEF EmptyFirst, Slots
<1>6. \A i \in Slots : Dist(i, C) \in Nat /\ (i # P => Dist(i, C) # F)
  BY <1>2, DistIsRemainder, DistInjective DEF Slots
<1>7. EmptyFirst(m)'
  <2>1. m \in 0..F + 1
    BY <1>5
  <2>2. ASSUME NEW i \in Slots
        PROVE  prxs'[i].info # "clear" <=> m <= Dist(i, C) /\ Dist(i, C) < F + 1
    <3>1. CASE i = P
      BY <1>3, <1>5, <3>1
    <3>2. CASE i # P
      BY <1>1, <1>3, <1>5, <1>6, <3>2 DEF EmptyFirst
    <3> QED  BY <3>1, <3>2
  <2> QED  BY <1>4, <1>5, <2>1, <2>2 DEF EmptyFirst
<1>8. Ids(m) \in Seq(Nat) /\ Len(Ids(m)) = F - m
  BY <1>1, <1>2, <1>5, WaitingIs DEF WaitingFacts, Ids
<1>9. Ids(m)' = Append(Ids(m), id)
  <2>1. Ids(m)' = [j \in 1..F + 1 - m |-> prxs'[SlotAt(m + j - 1)].id]
    BY <1>4, <1>5 DEF Ids, SlotAt
  <2>2. \A j \in 1..F - m : prxs'[SlotAt(m + j - 1)].id = Ids(m)[j]
    <3> TAKE j \in 1..F - m
    <3>1. m + j - 1 \in Slots /\ m + j - 1 # F
      BY <1>5, RxFragAssumption DEF Slots
    <3>2. SlotAt(m + j - 1) \in Slots /\ SlotAt(m + j - 1) # P
      BY <1>2, <3>1, SlotAtDist
    <3> QED  BY <1>3, <3>2 DEF Ids
  <2>3. prxs'[SlotAt(F)].id = id
    <3>1. SlotAt(F) \in Slots /\ Dist(SlotAt(F), C) = F
      BY <1>2, <1>5, SlotAtDist
    <3>2. SlotAt(F) = P
      BY <1>2, <3>1, DistInjective
    <3> QED  BY <1>3, <3>2
  <2>4. m + (F + 1 - m) - 1 = F /\ F + 1 - m \in Nat
    BY <1>5
  <2>5. Len(Ids(m)') = F + 1 - m /\ Ids(m)'[F + 1 - m] = id
        /\ \A j \in 1..F - m : Ids(m)'[j] = Ids(m)[j]
    BY <1>5, <2>1, <2>2, <2>3, <2>4
  <2>6. Ids(m)' \in Seq(Nat)
    BY <1>7, WaitingWillBe DEF WaitingFacts
  <2> QED  BY <1>5, <1>8, <2>5, <2>6
<1>10. /\ Waiting = (IF p = NULL THEN <<>> ELSE <<p.id>>) \o Ids(m)
       /\ Waiting' = (IF p = NULL THEN <<>> ELSE <<p.id>>) \o Ids(m)'
  BY <1>1, <1>2, <1>4, <1>7, WaitingIs, WaitingWillBe DEF WaitingFacts
<1> HIDE DEF F
<1> QED  BY <1>7, <1>8, <1>9, <1>10

\* The task gives the slot at its cursor back: the oldest frame leaves the ring, if the
\* slot holds one.
LEMMA QueueGiveBack ==
  ASSUME QueueInv, RxTypes', RxProduceIndex # RxConsumeIndex, p = NULL,
         prxs' = [prxs EXCEPT ![RxConsumeIndex] = Cleared],
         RxConsumeIndex' = WrapInc(RxConsumeIndex), UNCHANGED RxProduceIndex
  PROVE  /\ \E m \in Slots : EmptyFirst(m)'
         /\ prxs[RxConsumeIndex].info = "clear" /\ p' = NULL => Waiting' = Waiting
         /\ prxs[RxConsumeIndex].info # "clear" /\ p' = NULL
              => Waiting # <<>> /\ Waiting' = Tail(Waiting)
         /\ prxs[RxConsumeIndex].info # "clear" /\ p' # NULL /\ p' = prxs[RxConsumeIndex]
              => Waiting' = Waiting
<1> DEFINE P == RxProduceIndex
           C == RxConsumeIndex
           F == Dist(P, C)
<1>1. PICK m \in Slots : EmptyFirst(m)
  BY DEF QueueInv
<1>2. P \in Slots /\ C \in Slots /\ RxTypes /\ C' \in Slots /\ prxs \in [Slots -> Statuses]
  BY DEF QueueInv, RingInv, TypeInv, RxTypes
<1>3. F \in Slots /\ F \in Nat \ {0} /\ m \in 0..F /\ Dist(P', C') = F - 1 /\ Dist(C, C) = 0
  BY <1>1, <1>2, DistShrinks, DistIsRemainder DEF EmptyFirst, Slots
<1>4. \A i \in Slots : /\ Dist(i, C) \in Nat
                       /\ i # C => Dist(i, C') = Dist(i, C) - 1 /\ prxs'[i] = prxs[i]
  BY <1>2, DistShrinks, DistIsRemainder DEF Slots
<1>5. Dist(C, C') = EMAC_NUM_RX_FRAG - 1 /\ prxs'[C].info = "clear" /\ F < EMAC_NUM_RX_FRAG
  BY <1>2, <1>3, DistFarthest, RxFragAssumption DEF Slots, Cleared
<1>6. ASSUME NEW j \in 1..F - 1
      PROVE  SlotAt(j - 1)' = SlotAt(j) /\ prxs'[SlotAt(j)] = prxs[SlotAt(j)]
  <2>1. j \in Slots /\ j - 1 \in Slots /\ j > 0
    BY <1>3, RxFragAssumption DEF Slots
  <2>2. SlotAt(j) \in Slots /\ Dist(SlotAt(j), C) = j
    BY <1>2, <2>1, SlotAtDist
  <2>3. SlotAt(j) # C
    BY <1>3, <2>1, <2>2
  <2>4. SlotAt(j - 1)' = SlotAt(j)
    <3>1. CASE C = EMAC_NUM_RX_FRAG - 1
      <4>1. C' = 0
        BY <3>1, RxFragAssumption DEF WrapInc
      <4>2. 0 + (j - 1) = j - 1 /\ (j - 1) % EMAC_NUM_RX_FRAG = j - 1
        BY <2>1, RxFragAssumption DEF Slots
      <4>3. C + j = j - 1 + EMAC_NUM_RX_FRAG
        BY <2>1, <3>1, RxFragAssumption DEF Slots
      <4>4. (C + j) % EMAC_NUM_RX_FRAG = j - 1
        BY <2>1, <4>3, WrapsOnce
      <4> QED  BY <4>1, <4>2, <4>4 DEF SlotAt
    <3>2. CASE C # EMAC_NUM_RX_FRAG - 1
      <4>1. C' = C + 1 /\ (C + 1) + (j - 1) = C + j
        BY <1>2, <2>1, <3>2, RxFragAssumption DEF WrapInc, Slots
      <4> QED  BY <4>1 DEF SlotAt
    <3> QED  BY <3>1, <3>2
  <2> QED  BY <1>4, <2>2, <2>3, <2>4
<1>7. CASE m = 0
  <2>1. prxs[C].info # "clear"
    BY <1>1, <1>2, <1>3, <1>7 DEF EmptyFirst
  <2>2. EmptyFirst(0)' /\ 0 \in Slots
    <3>1. 0 \in 0..F - 1
      BY <1>3
    <3>2. ASSUME NEW i \in Slots
          PROVE  prxs'[i].info # "clear" <=> 0 <= Dist(i, C') /\ Dist(i, C') < F - 1
      <4>1. CASE i = C
        BY <1>3, <1>5, <4>1, RxFragAssumption
      <4>2. CASE i # C
        <5>1. Dist(i, C) > 0
          BY <1>2, <4>2, DistShrinks
        <5> QED  BY <1>1, <1>3, <1>4, <1>7, <4>2, <5>1 DEF EmptyFirst
      <4> QED  BY <4>1, <4>2
    <3> QED  BY <1>3, <3>1, <3>2, TypeFacts DEF EmptyFirst
  <2>3. /\ Waiting = <<>> \o Ids(0) /\ Ids(0) \in Seq(Nat) /\ Ids(0)' \in Seq(Nat)
        /\ Waiting' = (IF p' = NULL THEN <<>> ELSE <<p'.id>>) \o Ids(0)'
    BY <1>1, <1>2, <1>7, <2>2, WaitingIs, WaitingWillBe DEF WaitingFacts
  <2>4. Len(Ids(0)) = F /\ Len(Ids(0)') = F - 1 /\ Ids(0)[1] = prxs[C].id
    <3>1. SlotAt(0) = C
      BY <1>2, RxFragAssumption DEF SlotAt, Slots
    <3> QED  BY <1>3, <3>1 DEF Ids
  <2>5. \A j \in 1..F - 1 : Ids(0)'[j] = Ids(0)[j + 1]
    <3> TAKE j \in 1..F - 1
    <3>1. Ids(0)'[j] = prxs'[SlotAt(j - 1)'].id
      BY <1>3 DEF Ids
    <3>2. Ids(0)[j + 1] = prxs[SlotAt(j)].id
      BY <1>3 DEF Ids
    <3> QED  BY <1>6, <3>1, <3>2
  <2>6. Ids(0) # <<>> /\ Ids(0)' = Tail(Ids(0)) /\ Ids(0) = <<prxs[C].id>> \o Ids(0)'
    BY <1>3, <2>3, <2>4, <2>5
  <2>7. Waiting = Ids(0) /\ (p' = NULL => Waiting' = Ids(0)')
    BY <2>3
  <2>8. p' # NULL /\ p' = prxs[C] => Waiting' = Waiting
    BY <2>3, <2>6, <2>7
  <2> QED  BY <2>1, <2>2, <2>6, <2>7, <2>8
<1>8. CASE m > 0
  <2>1. prxs[C].info = "clear" /\ m - 1 \in Slots
    BY <1>1, <1>2, <1>3, <1>8, RxFragAssumption DEF EmptyFirst, Slots
  <2>2. EmptyFirst(m - 1)'
    <3>1. m - 1 \in 0..F - 1
      BY <1>3, <1>8
    <3>2. ASSUME NEW i \in Slots
          PROVE  prxs'[i].info # "clear" <=> m - 1 <= Dist(i, C') /\ Dist(i, C') < F - 1
      <4>1. CASE i = C
        BY <1>3, <1>5, <4>1, RxFragAssumption
      <4>2. CASE i # C
        BY <1>1, <1>3, <1>4, <4>2 DEF EmptyFirst
      <4> QED  BY <4>1, <4>2
    <3> QED  BY <1>3, <3>1, <3>2 DEF EmptyFirst
  <2>3. /\ Waiting = <<>> \o Ids(m) /\ Ids(m) \in Seq(Nat) /\ Ids(m - 1)' \in Seq(Nat)
        /\ Waiting' = (IF p' = NULL THEN <<>> ELSE <<p'.id>>) \o Ids(m - 1)'
    BY <1>1, <1>2, <2>1, <2>2, WaitingIs, WaitingWillBe DEF WaitingFacts
  <2>4. Len(Ids(m)) = F - m /\ Len(Ids(m - 1)') = F - m
    BY <1>3, <1>8 DEF Ids
  <2>5. \A j \in 1..F - m : Ids(m - 1)'[j] = Ids(m)[j]
    <3> TAKE j \in 1..F - m
    <3>1. Ids(m - 1)'[j] = prxs'[SlotAt(m - 1 + j - 1)'].id
      BY <1>3, <1>8 DEF Ids
    <3>2. Ids(m)[j] = prxs[SlotAt(m + j - 1)].id
      BY <1>3 DEF Ids
    <3>3. PICK k \in 1..F - 1 : k = m + j - 1 /\ k - 1 = m - 1 + j - 1
      BY <1>3, <1>8
    <3> QED  BY <1>6, <3>1, <3>2, <3>3
  <2>6. Ids(m - 1)' = Ids(m)
    BY <1>3, <2>3, <2>4, <2>5
  <2> QED  BY <2>1, <2>2, <2>3, <2>6
<1> QED  BY <1>3, <1>7, <1>8

\* The steps of LossyFifo, in terms of the queue of the refinement.
LEMMA FifoSteps ==
  [Fifo!Next]_(Fifo!vars) <=>
    \/ frames' = frames + 1 /\ Waiting' = Append(Waiting, frames + 1) /\ delivered' = delivered
    \/ frames > 0 /\ Waiting' = Append(Waiting, frames) /\ UNCHANGED <<frames, delivered>>
    \/ frames' = frames + 1 /\ UNCHANGED <<Waiting, delivered>>
    \/ Waiting # <<>> /\ delivered' = Head(Waiting) /\ Waiting' = Tail(Waiting)
         /\ UNCHANGED frames
    \/ Waiting # <<>> /\ Waiting' \in {Tail(Waiting), <<>>} /\ UNCHANGED <<frames, delivered>>
    \/ UNCHANGED <<Waiting, frames, delivered>>
BY DEF Fifo!Next, Fifo!vars, Fifo!Put, Fifo!More, Fifo!Miss, Fifo!Get, Fifo!Lose, Waiting

\* A step that does not touch the ring, the copy and what came out.
LEMMA QueueUntouched ==
  ASSUME QueueInv, RingInv', BuffersInPlace', UNCHANGED <<RxProduceIndex, descVars>>
  PROVE  QueueInv' /\ (p' = p => Waiting' = Waiting)
<1>1. UNCHANGED <<RxProduceIndex, RxConsumeIndex, prxs>>
  BY DEF descVars
<1>2. PICK m \in Slots : EmptyFirst(m)
  BY DEF QueueInv
<1>3. EmptyFirst(m)' /\ Ids(m)' = Ids(m)
  BY <1>1, <1>2 DEF EmptyFirst, Ids, SlotAt
<1>4. RxTypes /\ RxTypes'
  BY DEF QueueInv, RingInv, TypeInv
<1> QED  BY <1>2, <1>3, <1>4, WaitingIs, WaitingWillBe DEF WaitingFacts, QueueInv

\* Every step keeps QueueInv and is a step of LossyFifo, or leaves its queue alone.
LEMMA QueueStep ==
  ASSUME TRUE \notin AllocFails, QueueInv, [Next]_vars
  PROVE  QueueInv' /\ [Fifo!Next]_(Fifo!vars)
<1>0. RingInv /\ RingInv' /\ BuffersInPlace'
  BY RingStep, BuffersStep DEF QueueInv
<1>00. RxTypes /\ RxTypes' /\ TypeInv /\ frames \in 0..MaxFrames
  BY <1>0 DEF RingInv, TypeInv, RxTypes
<1>1. CASE RxSemWait \/ RxLoop \/ RxCheck \/ RxFault \/ IsrEnter \/ IsrExit \/ UNCHANGED vars
  <2>1. UNCHANGED <<RxProduceIndex, descVars, p, frames, delivered>>
    BY <1>1 DEF RxSemWait, RxLoop, RxCheck, RxFault, IsrEnter, IsrExit, vars, hwVars, taskVars
  <2>2. QueueInv' /\ Waiting' = Waiting
    BY <1>0, <2>1, QueueUntouched
  <2> QED  BY <2>1, <2>2, FifoSteps
<1>2. CASE RxDropError
  <2>1. /\ p = NULL /\ rxdescnextindex = RxConsumeIndex
        /\ RxProduceIndex # RxConsumeIndex
    BY <1>0, <1>2, TypeFacts
       DEF RxDropError, QueueInv, RingInv, CursorsAgree, BuffersInPlace, TypeInv, Locals, IsRxEmpty
  <2>2. /\ prxs' = [prxs EXCEPT ![RxConsumeIndex] = Cleared]
        /\ RxConsumeIndex' = WrapInc(RxConsumeIndex)
        /\ UNCHANGED <<RxProduceIndex, p, frames, delivered>>
    BY <1>2, <2>1 DEF RxDropError, lpc_rxqueue_pbuf, StatusCleared, hwVars
  <2>3. /\ \E m \in Slots : EmptyFirst(m)'
        /\ \/ Waiting' = Waiting
           \/ Waiting # <<>> /\ Waiting' = Tail(Waiting)
    BY <1>00, <2>1, <2>2, QueueGiveBack
  <2> QED  BY <1>0, <2>2, <2>3, FifoSteps DEF QueueInv
<1>3. CASE RxCopy
  <2>1. p = NULL /\ RxProduceIndex # RxConsumeIndex /\ prxs[RxConsumeIndex].info # "clear"
    BY <1>00, <1>3 DEF RxCopy, TypeInv, Locals, IsRxEmpty
  <2>2. /\ prxs' = [prxs EXCEPT ![RxConsumeIndex] = Cleared]
        /\ RxConsumeIndex' = WrapInc(RxConsumeIndex) /\ p' = prxs[RxConsumeIndex] /\ p' # NULL
        /\ UNCHANGED <<RxProduceIndex, frames, delivered>>
    BY <1>0, <1>3 DEF RxCopy, StatusCleared, hwVars, RingInv, TypeInv, Locals
  <2>3. (\E m \in Slots : EmptyFirst(m)') /\ Waiting' = Waiting
    BY <1>00, <2>1, <2>2, QueueGiveBack
  <2> QED  BY <1>0, <2>2, <2>3, FifoSteps DEF QueueInv
<1>4. ASSUME NEW k \in Queued, RxReset(k) PROVE QueueInv' /\ [Fifo!Next]_(Fifo!vars)
  <2>1. k = EMAC_NUM_RX_FRAG
    BY <1>4, Zenon DEF Queued
  <2>2. /\ \A i \in Slots : prxs'[i].info = "clear"
        /\ RxProduceIndex' \in Slots /\ RxConsumeIndex' \in Slots
        /\ p' = NULL /\ p = NULL /\ UNCHANGED <<frames, delivered>>
    BY <1>0, <1>00, <1>4, <2>1, RxFragAssumption
       DEF RxReset, Slots, Cleared, RingInv, TypeInv, RxTypes, Locals
  <2>3. PICK f \in Slots : f = Dist(RxProduceIndex', RxConsumeIndex')
    BY <2>2, DistIsRemainder
  <2>4. EmptyFirst(f)'
    <3>1. f \in 0..f /\ \A i \in Slots : Dist(i, RxConsumeIndex') \in Nat
      BY <2>2, DistIsRemainder DEF Slots
    <3> QED  BY <2>2, <2>3, <3>1 DEF EmptyFirst, Slots
  <2>5. Ids(f)' = <<>>
    <3>1. 1..f - f = {}
      BY DEF Slots
    <3> QED  BY <2>3, <3>1 DEF Ids
  <2>6. Waiting' = <<>>
    BY <1>00, <2>2, <2>3, <2>4, <2>5, WaitingWillBe DEF WaitingFacts
  <2>7. QueueInv'
    BY <1>0, <2>3, <2>4 DEF QueueInv
  <2> QED  BY <2>2, <2>6, <2>7, FifoSteps
<1>5. ASSUME NEW ok \in BOOLEAN, RxInput(ok) PROVE QueueInv' /\ [Fifo!Next]_(Fifo!vars)
  <2>1. /\ UNCHANGED <<RxProduceIndex, RxConsumeIndex, prxs, frames, descVars>> /\ p' = NULL
        /\ p # NULL /\ delivered' \in {p.id, delivered} /\ p \in Reports
    BY <1>00, <1>5 DEF RxInput, hwVars, descVars, TypeInv, Locals, RxTypes
  <2>2. PICK m \in Slots : EmptyFirst(m)
    BY DEF QueueInv
  <2>3. EmptyFirst(m)' /\ Ids(m)' = Ids(m)
    BY <2>1, <2>2 DEF EmptyFirst, Ids, SlotAt
  <2>4. Waiting = <<p.id>> \o Ids(m) /\ Waiting' = Ids(m) /\ Ids(m) \in Seq(Nat)
    BY <1>00, <2>1, <2>2, <2>3, WaitingIs, WaitingWillBe DEF WaitingFacts
  <2>5. Waiting # <<>> /\ Head(Waiting) = p.id /\ Waiting' = Tail(Waiting)
    BY <2>4
  <2>6. QueueInv'
    BY <1>0, <2>3 DEF QueueInv
  <2> QED  BY <2>1, <2>5, <2>6, FifoSteps
<1>6. ASSUME NEW len \in Lens, NEW err \in RxErrors, HwReceive(len, err)
      PROVE  QueueInv' /\ [Fifo!Next]_(Fifo!vars)
  <2>1. /\ frames + 1 \in 1..MaxFrames /\ err \in BOOLEAN
        /\ HwStore(frames + 1, len, err) /\ frames' = frames + 1
    BY <1>00, <1>6, LenAssumption, ChoiceAssumption DEF HwReceive
  <2>2. (\E m \in Slots : EmptyFirst(m)') /\ Waiting' = Append(Waiting, frames + 1)
    BY <1>00, <2>1, QueueStore
  <2>3. UNCHANGED delivered
    BY <2>1 DEF HwStore
  <2> QED  BY <1>0, <2>1, <2>2, <2>3, FifoSteps DEF QueueInv
<1>7. CASE HwContinue
  <2>1. frames \in 1..MaxFrames /\ hwrem \in Lens /\ frames > 0
    BY <1>00, <1>7, LenAssumption DEF HwContinue, Lens, TypeInv, RxTypes, Locals
  <2>2. HwStore(frames, hwrem, FALSE) /\ frames' = frames /\ FALSE \in BOOLEAN
    BY <1>7 DEF HwContinue
  <2>3. (\E m \in Slots : EmptyFirst(m)') /\ Waiting' = Append(Waiting, frames)
    BY <1>00, <2>1, <2>2, QueueStore, Zenon
  <2>4. UNCHANGED delivered
    BY <2>2 DEF HwStore
  <2> QED  BY <1>0, <2>1, <2>2, <2>3, <2>4, FifoSteps DEF QueueInv
<1>8. CASE HwNoDescriptor \/ HwOverrun
  <2>1. UNCHANGED <<RxProduceIndex, descVars, p, delivered>> /\ frames' \in {frames, frames + 1}
    BY <1>8 DEF HwNoDescriptor, HwOverrun, HwLose, taskVars
  <2>2. QueueInv' /\ Waiting' = Waiting
    BY <1>0, <2>1, QueueUntouched
  <2> QED  BY <2>1, <2>2, FifoSteps
<1> QED
  BY <1>1, <1>2, <1>3, <1>4, <1>5, <1>6, <1>7, <1>8, Zenon
     DEF Next, TaskStep, RxFrame, HwStep

\* The ring and the task start as the empty queue.
LEMMA QueueInit == Init => QueueInv /\ Fifo!Init
<1> SUFFICES ASSUME Init PROVE QueueInv /\ Fifo!Init
  OBVIOUS
<1>1. RingInv /\ BuffersInPlace /\ RxTypes
  BY RingInit, TypeFacts DEF Init, BuffersInPlace, RingInv, TypeInv
<1>2. RxProduceIndex = 0 /\ RxConsumeIndex = 0 /\ Dist(0, 0) = 0 /\ p = NULL
  BY DEF Init, Dist
<1>3. \A i \in Slots : prxs[i].info = "clear"
  BY DEF Init, Cleared
<1>4. \A i \in Slots : Dist(i, 0) \in Nat
  BY DistIsRemainder, TypeFacts DEF Slots
<1>5. EmptyFirst(0) /\ 0 \in Slots
  BY <1>2, <1>3, <1>4, TypeFacts DEF EmptyFirst
<1>6. Ids(0) = <<>>
  BY <1>2 DEF Ids
<1>7. Waiting = <<>>
  BY <1>1, <1>2, <1>5, <1>6, WaitingIs DEF WaitingFacts
<1>8. Fifo!Init
  BY <1>7 DEF Fifo!Init, Waiting, Init
<1> QED  BY <1>1, <1>5, <1>8 DEF QueueInv

\* Frames reach the stack in the order of their arrival, none that never arrived and
\* none again, through errors, overruns, lost frames and recoveries of the ring, as long
\* as there is memory: the receive side implements LossyFifo.
THEOREM RxImplementsFifo ==
  ASSUME TRUE \notin AllocFails
  PROVE  Spec => FifoSpec
<1>1. QueueInv /\ [Next]_vars => QueueInv' /\ [Fifo!Next]_(Fifo!vars)
  BY QueueStep
<1> QED  BY <1>1, QueueInit, PTL DEF Spec, FifoSpec, Fifo!Spec

=============================================================================
