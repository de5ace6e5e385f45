---------------------------- MODULE TcpipProofs -----------------------------
(***************************************************************************)
(* Proofs about Tcpip, for every number of packets and tasks, every size    *)
(* of the mailboxes and of the ring of descriptors, with and without        *)
(* failing allocations; and about the timers that its thread runs           *)
(* (Timeouts), for every array of cyclic timers, all delays and every       *)
(* width of the time.                                                       *)
(***************************************************************************)
EXTENDS Tcpip, Timeouts, FiniteSetTheorems, WellFoundedInduction, TLAPS

Slots == Pbufs \cup {NULL}
Messages == [type : {"INPKT", "CALLBACK"}, p : Slots]

\* The types of the variables that hold packets or count messages.
TcpipTypes ==
  /\ tcpip_mbox \in Seq(Messages) /\ recvmbox \in Seq(Slots)
  /\ rp \in Slots /\ sp \in Slots
  /\ msg \in [type : {"none", "INPKT", "CALLBACK"}, p : Slots]
  /\ msgs \in Int
  /\ apc \in [Apps -> {"idle", "lock", "output", "copy"}]

\* A thread that is about to take a packet, and the tcpip thread when it is done with a
\* message, holds none: otherwise the one it holds would be lost when its variable is
\* overwritten.
HandsFree ==
  /\ rpc = "idle" => rp = NULL
  /\ tpc = "fetch" => msg = None
  /\ tpc = "done" => msg.p = NULL
  /\ apc[Server] # "copy" => sp = NULL

OwnedInv == TcpipTypes /\ HandsFree /\ Owned

-----------------------------------------------------------------------------
(* Counting in a sequence *)

\* The places of s that hold a member of A.
At(s, A) == {i \in DOMAIN s : s[i] \in A}

One(b) == IF b THEN 1 ELSE 0

LEMMA AtIsFinite ==
  ASSUME NEW S, NEW s \in Seq(S), NEW A
  PROVE  IsFiniteSet(At(s, A)) /\ Cardinality(At(s, A)) \in Nat
<1>1. At(s, A) \in SUBSET (1 .. Len(s)) /\ 1 \in Int /\ Len(s) \in Int
  BY DEF At
<1> QED
  BY <1>1, FS_Interval, FS_Subset, FS_CardinalityType

\* An element that is appended counts once more if it is in A.
LEMMA AtAppend ==
  ASSUME NEW S, NEW s \in Seq(S), NEW e \in S, NEW A
  PROVE  Cardinality(At(Append(s, e), A)) = Cardinality(At(s, A)) + One(e \in A)
<1>1. CASE e \in A
  <2>1. At(Append(s, e), A) = At(s, A) \cup {Len(s) + 1} /\ Len(s) + 1 \notin At(s, A)
    BY <1>1 DEF At
  <2> QED
    BY <1>1, <2>1, AtIsFinite, FS_AddElement DEF One
<1>2. CASE e \notin A
  <2>1. At(Append(s, e), A) = At(s, A)
    BY <1>2 DEF At
  <2> QED
    BY <1>2, <2>1, AtIsFinite DEF One
<1> QED
  BY <1>1, <1>2

\* The places of the tail are those of s without the first, shifted by one.
LEMMA AtTail ==
  ASSUME NEW S, NEW s \in Seq(S), s # <<>>, NEW A
  PROVE  /\ Head(s) \in S /\ Tail(s) \in Seq(S) /\ Len(Tail(s)) = Len(s) - 1
         /\ Cardinality(At(s, A)) = Cardinality(At(Tail(s), A)) + One(Head(s) \in A)
<1> DEFINE R == At(s, A) \ {1}
           T == At(Tail(s), A)
           f == [i \in T |-> i + 1]
<1>1. Head(s) \in S /\ Tail(s) \in Seq(S) /\ Len(Tail(s)) = Len(s) - 1 /\ Len(s) \in Nat \ {0}
  OBVIOUS
<1>2. \A i \in 1 .. Len(s) - 1 : Tail(s)[i] = s[i + 1]
  OBVIOUS
<1>3. T \subseteq Int /\ \A i \in T : f[i] \in R /\ f[i] = i + 1
  BY <1>1, <1>2 DEF At
<1>4. \A k \in R : k - 1 \in T /\ k - 1 + 1 = k
  BY <1>1, <1>2 DEF At
<1>5. f \in Bijection(T, R)
  <2>1. f \in [T -> R]
    BY <1>3
  <2>2. \A a, b \in T : f[a] = f[b] => a = b
    BY <1>3
  <2>3. \A k \in R : \E i \in T : f[i] = k
    BY <1>3, <1>4
  <2> HIDE DEF f, R, T
  <2> QED
    BY <2>1, <2>2, <2>3 DEF Bijection, Injection, Surjection, IsInjective
<1>6. Cardinality(R) = Cardinality(T)
  <2>1. IsFiniteSet(T)
    BY <1>1, AtIsFinite
  <2> HIDE DEF f, R, T
  <2>2. ExistsBijection(T, R)
    BY <1>5 DEF ExistsBijection
  <2> QED
    BY <2>1, <2>2, FS_Bijection
<1>7. 1 \in At(s, A) <=> Head(s) \in A
  BY <1>1 DEF At
<1>8. Cardinality(R) = IF 1 \in At(s, A) THEN Cardinality(At(s, A)) - 1 ELSE Cardinality(At(s, A))
  BY AtIsFinite, FS_RemoveElement
<1> QED
  BY <1>1, <1>6, <1>7, <1>8, AtIsFinite DEF One

-----------------------------------------------------------------------------
(* Counting the holders of a packet *)

\* How often a mailbox of messages, and one of datagrams, holds packet q.
InMessages(s, q) == Cardinality(At(s, {m \in Messages : m.p = q}))
InDatagrams(s, q) == Cardinality(At(s, {q}))

LEMMA MessagesAppend ==
  ASSUME NEW s \in Seq(Messages), NEW m \in Messages, NEW q
  PROVE  InMessages(Append(s, m), q) = InMessages(s, q) + One(m.p = q)
BY AtAppend DEF InMessages, One

LEMMA MessagesTail ==
  ASSUME NEW s \in Seq(Messages), s # <<>>, NEW q
  PROVE  /\ Head(s) \in Messages /\ Tail(s) \in Seq(Messages) /\ Len(Tail(s)) = Len(s) - 1
         /\ InMessages(s, q) = InMessages(Tail(s), q) + One(Head(s).p = q)
<1>1. Head(s) \in Messages /\ Tail(s) \in Seq(Messages) /\ Len(Tail(s)) = Len(s) - 1
  OBVIOUS
<1> QED
  BY <1>1, AtTail DEF InMessages, One

LEMMA DatagramsAppend ==
  ASSUME NEW s \in Seq(Slots), NEW p \in Slots, NEW q
  PROVE  InDatagrams(Append(s, p), q) = InDatagrams(s, q) + One(p = q)
BY AtAppend DEF InDatagrams, One

LEMMA DatagramsTail ==
  ASSUME NEW s \in Seq(Slots), s # <<>>, NEW q
  PROVE  /\ Head(s) \in Slots /\ Tail(s) \in Seq(Slots)
         /\ InDatagrams(s, q) = InDatagrams(Tail(s), q) + One(Head(s) = q)
<1>1. Head(s) \in Slots /\ Tail(s) \in Seq(Slots)
  OBVIOUS
<1> QED
  BY <1>1, AtTail DEF InDatagrams, One

\* Holders is the sum over the two mailboxes and the three threads.
HoldersSum ==
  TcpipTypes => \A q \in Pbufs :
    /\ Holders(q) = InMessages(tcpip_mbox, q) + InDatagrams(recvmbox, q)
                      + One(rp = q) + One(msg.p = q) + One(sp = q)
    /\ InMessages(tcpip_mbox, q) \in Nat /\ InDatagrams(recvmbox, q) \in Nat

LEMMA HoldersAdd == HoldersSum
<1> SUFFICES ASSUME TcpipTypes, NEW q \in Pbufs
             PROVE  /\ Holders(q) = InMessages(tcpip_mbox, q) + InDatagrams(recvmbox, q)
                                      + One(rp = q) + One(msg.p = q) + One(sp = q)
                    /\ InMessages(tcpip_mbox, q) \in Nat /\ InDatagrams(recvmbox, q) \in Nat
  BY DEF HoldersSum
<1>1. {i \in DOMAIN tcpip_mbox : tcpip_mbox[i].p = q} = At(tcpip_mbox, {m \in Messages : m.p = q})
  BY DEF At, TcpipTypes
<1>2. {i \in DOMAIN recvmbox : recvmbox[i] = q} = At(recvmbox, {q})
  BY DEF At
<1>3. InMessages(tcpip_mbox, q) \in Nat /\ InDatagrams(recvmbox, q) \in Nat
  BY AtIsFinite DEF TcpipTypes, InMessages, InDatagrams
<1> QED
  BY <1>1, <1>2, <1>3 DEF Holders, Count, InMessages, InDatagrams, One

LEMMA HoldersAddNext == HoldersSum'
BY HoldersAdd, PTL

-----------------------------------------------------------------------------
(* Types, and threads whose hands are free *)

\* The steps that neither hold, take nor give a packet or a message.
Aside == \/ FetchTimeout \/ ThreadLock \/ HandleDelivers \/ ThreadSends \/ SenderStep \/ Ring
         \/ \E a \in Apps : AppCall(a) \/ AppLock(a) \/ AppOutput(a)

\* What such a step leaves alone, and where it may send an app.
LEMMA AsideStep ==
  ASSUME TcpipTypes, HandsFree, Aside
  PROVE  /\ UNCHANGED <<tcpip_mbox, recvmbox, rp, sp, msg, msgs, rpc, dpc, alive>>
         /\ apc' \in [Apps -> {"idle", "lock", "output", "copy"}]
         /\ apc'[Server] = "copy" <=> apc[Server] = "copy"
         /\ tpc' \notin {"fetch", "done"} \/ tpc' = tpc
<1> USE TcpipAssumption DEF TcpipTypes, rxVars, threadVars, appVars
<1>1. CASE FetchTimeout \/ ThreadLock \/ HandleDelivers \/ ThreadSends
  BY <1>1 DEF FetchTimeout, ThreadLock, HandleDelivers, ThreadSends
<1>2. CASE SenderStep \/ Ring
  <2>1. UNCHANGED otherVars
    BY <1>2 DEF SenderStep, SenderPoll, SenderSemWait, SenderSetup,
                Ring, lpc_tx_reclaim, CleanerReset, HwTransmit
  <2> QED
    BY <2>1 DEF otherVars
<1>3. ASSUME NEW a \in Apps, AppCall(a) \/ AppLock(a) \/ AppOutput(a)
      PROVE  /\ UNCHANGED <<tcpip_mbox, recvmbox, rp, sp, msg, msgs, rpc, dpc, alive, tpc>>
             /\ apc' = apc \/ \E l \in {"idle", "lock", "output"} : apc' = [apc EXCEPT ![a] = l]
             /\ apc[a] # "copy"
  BY <1>3 DEF AppCall, AppLock, AppOutput, Goto
<1> QED
  BY <1>1, <1>2, <1>3 DEF Aside

LEMMA TypeStep == TcpipTypes /\ HandsFree /\ [Next]_vars => TcpipTypes' /\ HandsFree'
<1> SUFFICES ASSUME TcpipTypes, HandsFree, [Next]_vars PROVE TcpipTypes' /\ HandsFree'
  OBVIOUS
<1> USE TcpipAssumption DEF TcpipTypes, HandsFree, Slots, None, rxVars, threadVars, appVars
<1>1. CASE \E p \in Pbufs : lpc_enetif_input(p)
  BY <1>1 DEF lpc_enetif_input
<1>2. CASE Input
  <2>1. CASE InpktPost
    <3>1. [type |-> "INPKT", p |-> rp] \in Messages
      BY DEF Messages
    <3>2. Append(tcpip_mbox, [type |-> "INPKT", p |-> rp]) \in Seq(Messages)
      BY <3>1
    <3>3. tcpip_mbox' \in Seq(Messages) /\ msgs' \in Int
      <4>1. msgs' = msgs \/ msgs' = msgs - 1
        BY <2>1 DEF InpktPost, TryPost
      <4>2. \/ tcpip_mbox' = tcpip_mbox
            \/ tcpip_mbox' = Append(tcpip_mbox, [type |-> "INPKT", p |-> rp])
        BY <2>1 DEF InpktPost, TryPost
      <4>3. msgs' \in Int
        BY <4>1
      <4>4. tcpip_mbox' \in Seq(Messages)
        BY <3>2, <4>2, Zenon
      <4> QED
        BY <4>3, <4>4
    <3> QED
      BY <2>1, <3>3 DEF InpktPost
  <2>2. CASE InputError
    BY <2>2 DEF InputError
  <2>3. CASE \E fails \in AllocFails : tcpip_inpkt(fails)
    BY <2>3 DEF tcpip_inpkt
  <2> QED
    BY <1>2, <2>1, <2>2, <2>3 DEF Input
<1>3. CASE sys_mbox_post
  BY <1>3 DEF sys_mbox_post, Messages
<1>4. CASE \E fails \in AllocFails : tcpip_callback(fails)
  BY <1>4 DEF tcpip_callback
<1>5. CASE Fetch
  <2>1. Head(tcpip_mbox) \in Messages /\ Tail(tcpip_mbox) \in Seq(Messages)
    BY <1>5 DEF Fetch
  <2> QED
    BY <1>5, <2>1 DEF Fetch, Messages
<1>6. CASE HandleQuietly \/ ThreadOutput
  BY <1>6 DEF HandleQuietly, ThreadOutput
<1>7. CASE \E fails \in AllocFails : recv_udp(fails)
  <2>1. Append(recvmbox, msg.p) \in Seq(Slots)
    OBVIOUS
  <2>2. recvmbox' \in Seq(Slots)
    BY <1>7, <2>1 DEF recv_udp, Delivered
  <2> QED
    BY <1>7, <2>2 DEF recv_udp
<1>8. CASE ThreadUnlock
  BY <1>8 DEF ThreadUnlock
<1>9. CASE Answers
  <2>1. CASE RecvFrom
    <3>1. Head(recvmbox) \in Slots /\ Tail(recvmbox) \in Seq(Slots)
      BY <2>1 DEF RecvFrom
    <3> QED
      BY <2>1, <3>1 DEF RecvFrom, Goto
  <2>2. CASE RecvDone
    BY <2>2 DEF RecvDone, Goto
  <2> QED
    BY <1>9, <2>1, <2>2 DEF Answers
<1>10. CASE Aside
  BY <1>10, AsideStep
<1>11. CASE UNCHANGED vars
  BY <1>11 DEF vars
<1> QED
  BY <1>1, <1>2, <1>3, <1>4, <1>5, <1>6, <1>7, <1>8, <1>9, <1>10, <1>11 DEF Next, Handle, Aside

-----------------------------------------------------------------------------
(* Ownership *)

\* The two parts of Owned, the first with the sum written out.
PacketsOwned ==
  \A q \in Pbufs :
    InMessages(tcpip_mbox, q) + InDatagrams(recvmbox, q)
      + One(rp = q) + One(msg.p = q) + One(sp = q) = One(q \in alive)

MsgsOwned ==
  msgs = Len(tcpip_mbox) + One(rpc = "post") + One(dpc = "post") + One(msg.type # "none")

OwnedParts == TcpipTypes => (Owned <=> PacketsOwned /\ MsgsOwned)

LEMMA OwnedSplit == OwnedParts
BY HoldersAdd DEF OwnedParts, HoldersSum, Owned, PacketsOwned, MsgsOwned, One

LEMMA OwnedSplitNext == OwnedParts'
BY OwnedSplit, PTL

\* Every step moves a packet from one holder to another, or frees it where it is held.
LEMMA PacketStep == TcpipTypes /\ HandsFree /\ PacketsOwned /\ [Next]_vars => PacketsOwned'
<1> SUFFICES ASSUME TcpipTypes, HandsFree, PacketsOwned, [Next]_vars, NEW q \in Pbufs
             PROVE  InMessages(tcpip_mbox, q)' + InDatagrams(recvmbox, q)'
                      + One(rp' = q) + One(msg'.p = q) + One(sp' = q) = One(q \in alive')
  BY DEF PacketsOwned
<1> DEFINE M == InMessages(tcpip_mbox, q)
           D == InDatagrams(recvmbox, q)
<1>0. M \in Nat /\ D \in Nat /\ M + D + One(rp = q) + One(msg.p = q) + One(sp = q) = One(q \in alive)
  BY HoldersAdd DEF HoldersSum, PacketsOwned
<1>q. q # NULL
  BY TcpipAssumption
<1> HIDE DEF M, D
<1> USE DEF One, rxVars, threadVars, appVars
<1>1. CASE \E p \in Pbufs : lpc_enetif_input(p)
  <2>1. M' = M /\ D' = D
    BY <1>1 DEF lpc_enetif_input, M, D
  <2> QED
    BY <1>0, <1>1, <1>q, <2>1 DEF lpc_enetif_input, HandsFree, M, D
<1>2. CASE Input
  <2>1. CASE InpktPost
    <3>1. CASE Len(tcpip_mbox) < TCPIP_MBOX_SIZE
      <4> DEFINE m == [type |-> "INPKT", p |-> rp]
      <4>1. m \in Messages /\ m.p = rp
        BY DEF Messages, TcpipTypes
      <4>2. tcpip_mbox' = Append(tcpip_mbox, m) /\ rp' = NULL
            /\ UNCHANGED <<recvmbox, msg, sp, alive>>
        BY <2>1, <3>1 DEF InpktPost, TryPost
      <4>3. M' = M + One(rp = q) /\ D' = D
        BY <4>1, <4>2, MessagesAppend DEF M, D, TcpipTypes
      <4> QED
        BY <1>0, <1>q, <4>2, <4>3 DEF M, D
    <3>2. CASE ~(Len(tcpip_mbox) < TCPIP_MBOX_SIZE)
      BY <1>0, <2>1, <3>2 DEF InpktPost, TryPost, M, D
    <3> QED
      BY <3>1, <3>2
  <2>2. CASE InputError
    <3>1. M' = M /\ D' = D /\ rp' = NULL /\ alive' = alive \ {rp} /\ UNCHANGED <<msg, sp>>
      BY <2>2 DEF InputError, M, D
    <3> QED
      BY <1>0, <1>q, <3>1 DEF M, D
  <2>3. CASE \E fails \in AllocFails : tcpip_inpkt(fails)
    BY <1>0, <2>3 DEF tcpip_inpkt, M, D
  <2> QED
    BY <1>2, <2>1, <2>2, <2>3 DEF Input
<1>3. CASE sys_mbox_post
  <2> DEFINE m == [type |-> "CALLBACK", p |-> NULL]
  <2>1. m \in Messages /\ m.p = NULL
    BY DEF Messages, Slots
  <2>2. tcpip_mbox' = Append(tcpip_mbox, m) /\ UNCHANGED <<recvmbox, rp, msg, sp, alive>>
    BY <1>3 DEF sys_mbox_post
  <2>3. M' = M /\ D' = D
    BY <1>0, <1>q, <2>1, <2>2, MessagesAppend DEF M, D, TcpipTypes
  <2> QED
    BY <1>0, <2>2, <2>3 DEF M, D
<1>4. CASE \E fails \in AllocFails : tcpip_callback(fails)
  BY <1>0, <1>4 DEF tcpip_callback, M, D
<1>5. CASE Fetch
  <2>1. tcpip_mbox \in Seq(Messages) /\ tcpip_mbox # <<>> /\ tcpip_mbox' = Tail(tcpip_mbox)
        /\ msg.p = NULL /\ msg' = Head(tcpip_mbox) /\ UNCHANGED <<recvmbox, rp, sp, alive>>
    BY <1>5 DEF Fetch, HandsFree, TcpipTypes, None
  <2>2. M = M' + One(msg'.p = q) /\ D' = D /\ M' \in Nat
    BY <1>0, <2>1, MessagesTail, AtIsFinite DEF M, D, InMessages
  <2> QED
    BY <1>0, <1>q, <2>1, <2>2 DEF M, D
<1>6. CASE HandleQuietly \/ ThreadOutput
  <2>1. M' = M /\ D' = D /\ alive' = alive \ {msg.p} /\ msg'.p = NULL /\ UNCHANGED <<rp, sp>>
    BY <1>6 DEF HandleQuietly, ThreadOutput, M, D, TcpipTypes
  <2> QED
    BY <1>0, <1>q, <2>1 DEF M, D
<1>7. CASE \E fails \in AllocFails : recv_udp(fails)
  <2>1. M' = M /\ msg'.p = NULL /\ UNCHANGED <<rp, sp>>
    BY <1>7 DEF recv_udp, M, TcpipTypes
  <2>2. CASE recvmbox' = Append(recvmbox, msg.p) /\ alive' = alive
    <3>1. D' = D + One(msg.p = q)
      BY <2>2, DatagramsAppend DEF D, TcpipTypes
    <3> QED
      BY <1>0, <1>q, <2>1, <2>2, <3>1 DEF M, D
  <2>3. CASE recvmbox' = recvmbox /\ alive' = alive \ {msg.p}
    BY <1>0, <1>q, <2>1, <2>3 DEF M, D
  <2> QED
    BY <1>7, <2>2, <2>3 DEF recv_udp, Delivered
<1>8. CASE ThreadUnlock
  <2>1. M' = M /\ D' = D /\ alive' = alive /\ msg'.p = NULL /\ UNCHANGED <<rp, sp>>
    BY <1>8 DEF ThreadUnlock, M, D, None
  <2>2. msg.p = NULL
    BY <1>8 DEF ThreadUnlock, HandsFree
  <2> QED
    BY <1>0, <1>q, <2>1, <2>2 DEF M, D
<1>9. CASE Answers
  <2>1. CASE RecvFrom
    <3>1. recvmbox \in Seq(Slots) /\ recvmbox # <<>> /\ recvmbox' = Tail(recvmbox)
          /\ sp = NULL /\ sp' = Head(recvmbox) /\ UNCHANGED <<tcpip_mbox, rp, msg, alive>>
      BY <2>1 DEF RecvFrom, HandsFree, TcpipTypes
    <3>2. D = D' + One(sp' = q) /\ M' = M /\ D' \in Nat
      BY <1>0, <3>1, DatagramsTail, AtIsFinite DEF M, D, InDatagrams
    <3> QED
      BY <1>0, <1>q, <3>1, <3>2 DEF M, D
  <2>2. CASE RecvDone
    <3>1. M' = M /\ D' = D /\ alive' = alive \ {sp} /\ sp' = NULL /\ UNCHANGED <<rp, msg>>
      BY <2>2 DEF RecvDone, M, D
    <3> QED
      BY <1>0, <1>q, <3>1 DEF M, D
  <2> QED
    BY <1>9, <2>1, <2>2 DEF Answers
<1>10. CASE Aside
  BY <1>0, <1>10, AsideStep DEF M, D
<1>11. CASE UNCHANGED vars
  BY <1>0, <1>11 DEF vars, M, D
<1> QED
  BY <1>1, <1>2, <1>3, <1>4, <1>5, <1>6, <1>7, <1>8, <1>9, <1>10, <1>11 DEF Next, Handle, Aside

\* Every step moves a message from the thread that posts it through the mailbox to the
\* tcpip thread, or frees it.
LEMMA MessageStep == TcpipTypes /\ HandsFree /\ MsgsOwned /\ [Next]_vars => MsgsOwned'
<1> SUFFICES ASSUME TcpipTypes, HandsFree, MsgsOwned, [Next]_vars PROVE MsgsOwned'
  OBVIOUS
<1> DEFINE L == Len(tcpip_mbox)
<1>0. L \in Nat /\ msgs \in Int
      /\ msgs = L + One(rpc = "post") + One(dpc = "post") + One(msg.type # "none")
  BY DEF MsgsOwned, TcpipTypes
<1> SUFFICES msgs' = L' + One(rpc' = "post") + One(dpc' = "post") + One(msg'.type # "none")
  BY DEF MsgsOwned
<1> HIDE DEF L
<1> USE DEF One, rxVars, threadVars, appVars
<1>1. CASE \E p \in Pbufs : lpc_enetif_input(p)
  BY <1>0, <1>1 DEF lpc_enetif_input, L
<1>2. CASE Input
  <2>1. CASE InpktPost
    <3>1. CASE L < TCPIP_MBOX_SIZE
      <4>1. L' = L + 1 /\ rpc = "post" /\ rpc' = "idle" /\ UNCHANGED <<msgs, dpc, msg>>
        BY <2>1, <3>1 DEF InpktPost, TryPost, L, TcpipTypes
      <4> QED
        BY <1>0, <4>1
    <3>2. CASE ~(L < TCPIP_MBOX_SIZE)
      <4>1. tcpip_mbox' = tcpip_mbox /\ msgs' = msgs - 1
        BY <2>1, <3>2, Zenon DEF InpktPost, TryPost, L
      <4>2. rpc = "post" /\ rpc' = "error" /\ UNCHANGED <<dpc, msg>>
        BY <2>1, <3>2, Zenon DEF InpktPost, TryPost, L
      <4>3. L' = L
        BY <4>1 DEF L
      <4> QED
        BY <1>0, <4>1, <4>2, <4>3
    <3> QED
      BY <3>1, <3>2
  <2>2. CASE InputError
    BY <1>0, <2>2 DEF InputError, L
  <2>3. CASE \E fails \in AllocFails : tcpip_inpkt(fails)
    <3>1. L' = L /\ rpc = "input" /\ UNCHANGED <<dpc, msg>>
          /\ ((rpc' = "error" /\ msgs' = msgs) \/ (rpc' = "post" /\ msgs' = msgs + 1))
      BY <2>3 DEF tcpip_inpkt, L
    <3> QED
      BY <1>0, <3>1
  <2> QED
    BY <1>2, <2>1, <2>2, <2>3 DEF Input
<1>3. CASE sys_mbox_post
  <2>1. L' = L + 1 /\ dpc = "post" /\ dpc' = "poll" /\ UNCHANGED <<msgs, rpc, msg>>
    BY <1>3 DEF sys_mbox_post, L, TcpipTypes
  <2> QED
    BY <1>0, <2>1
<1>4. CASE \E fails \in AllocFails : tcpip_callback(fails)
  <2>1. L' = L /\ dpc = "poll" /\ UNCHANGED <<rpc, msg>>
        /\ ((dpc' = "poll" /\ msgs' = msgs) \/ (dpc' = "post" /\ msgs' = msgs + 1))
    BY <1>4 DEF tcpip_callback, L
  <2> QED
    BY <1>0, <2>1
<1>5. CASE Fetch
  <2>1. L' = L - 1 /\ msg' \in Messages /\ msg = None /\ UNCHANGED <<msgs, rpc, dpc>>
    BY <1>5, MessagesTail DEF Fetch, HandsFree, TcpipTypes, L
  <2> QED
    BY <1>0, <2>1 DEF None, Messages
<1>6. CASE HandleQuietly \/ ThreadOutput
  <2>1. msg'.type = msg.type /\ L' = L /\ UNCHANGED <<msgs, rpc, dpc>>
    BY <1>6 DEF HandleQuietly, ThreadOutput, TcpipTypes, L
  <2> QED
    BY <1>0, <2>1
<1>7. CASE \E fails \in AllocFails : recv_udp(fails)
  <2>1. msg'.type = msg.type /\ L' = L /\ UNCHANGED <<msgs, rpc, dpc>>
    BY <1>7 DEF recv_udp, TcpipTypes, L
  <2> QED
    BY <1>0, <2>1
<1>8. CASE ThreadUnlock
  <2>1. L' = L /\ msg'.type = "none" /\ UNCHANGED <<rpc, dpc>>
        /\ msgs' = (IF msg.type = "none" THEN msgs ELSE msgs - 1)
    BY <1>8 DEF ThreadUnlock, None, L
  <2> QED
    BY <1>0, <2>1
<1>9. CASE Answers
  BY <1>0, <1>9 DEF Answers, RecvFrom, RecvDone, L
<1>10. CASE Aside
  BY <1>0, <1>10, AsideStep DEF L
<1>11. CASE UNCHANGED vars
  BY <1>0, <1>11 DEF vars, L
<1> QED
  BY <1>1, <1>2, <1>3, <1>4, <1>5, <1>6, <1>7, <1>8, <1>9, <1>10, <1>11 DEF Next, Handle, Aside

-----------------------------------------------------------------------------
\* The invariant holds at the start: nothing is allocated and nobody holds anything.
LEMMA OwnedAtStart == Init => OwnedInv
<1> SUFFICES ASSUME Init PROVE OwnedInv
  OBVIOUS
<1>1. TcpipTypes /\ HandsFree
  BY TcpipAssumption DEF Init, TcpipTypes, HandsFree, None, Slots
<1>2. \A A : Cardinality(At(<<>>, A)) = 0
  <2>1. \A A : At(<<>>, A) = {}
    BY DEF At
  <2> QED
    BY <2>1, FS_EmptySet
<1>3. PacketsOwned /\ MsgsOwned
  BY <1>2, TcpipAssumption
     DEF Init, PacketsOwned, MsgsOwned, InMessages, InDatagrams, One, None
<1> QED
  BY <1>1, <1>3, OwnedSplit DEF OwnedInv, OwnedParts

\* Every packet that is allocated has exactly one holder and every packet that was freed
\* has none, among the driver's input, the two mailboxes, the tcpip thread and the
\* server, and the messages that are allocated are those that are posted, waiting or
\* being handled: whichever of them finds a mailbox full or no memory, it frees what
\* it holds, once.
THEOREM NothingLostOrFreedTwice == Spec => []Owned
<1>1. OwnedInv /\ [Next]_vars => OwnedInv'
  <2> SUFFICES ASSUME OwnedInv, [Next]_vars PROVE OwnedInv'
    OBVIOUS
  <2>1. TcpipTypes' /\ HandsFree'
    BY TypeStep DEF OwnedInv
  <2>2. PacketsOwned /\ MsgsOwned
    BY OwnedSplit DEF OwnedInv, OwnedParts
  <2>3. PacketsOwned' /\ MsgsOwned'
    BY <2>2, PacketStep, MessageStep DEF OwnedInv
  <2> QED
    BY <2>1, <2>3, OwnedSplitNext DEF OwnedInv, OwnedParts
<1>2. OwnedInv => Owned
  BY DEF OwnedInv
<1> QED
  BY <1>1, <1>2, OwnedAtStart, PTL DEF Spec

-----------------------------------------------------------------------------
(* The timers that the tcpip thread runs between messages (Timeouts), for every   *)
(* array of cyclic timers, every width of the time and all sets of delays         *)

\* What is assumed of the numbers.
Sizes == Wrap \in Nat /\ Wrap >= 4 /\ Wrap % 2 = 0 /\ MaxBusy \in Nat /\ 8 * MaxBusy < Wrap

-----------------------------------------------------------------------------
(* Numbers, counted round *)

\* Quotient and remainder, and that the remainder is the only number in its range that
\* differs from n by a multiple.
LEMMA Quotient ==
  ASSUME NEW W \in Nat \ {0}, NEW n \in Int
  PROVE  n % W \in 0 .. W - 1 /\ n \div W \in Int /\ n = W * (n \div W) + (n % W)
<1>1. n % W \in 0 .. W - 1
  OBVIOUS
<1>2. n \div W \in Int
  OBVIOUS
<1>3. n = W * (n \div W) + (n % W)
  OBVIOUS
<1> QED BY <1>1, <1>2, <1>3

LEMMA Multiple ==
  ASSUME NEW W \in Nat \ {0}, NEW d \in Int, W * d < W, -W < W * d
  PROVE  d = 0
<1>1. d >= 1 => W * d >= W
  OBVIOUS
<1>2. d <= -1 => W * d <= -W
  OBVIOUS
<1> QED BY <1>1, <1>2

LEMMA Remainder ==
  ASSUME NEW W \in Nat \ {0}, NEW n \in Int, NEW q \in Int, NEW r \in 0 .. W - 1, n = W * q + r
  PROVE  n % W = r
<1>1. PICK p \in Int, s \in 0 .. W - 1 : n = W * p + s /\ s = n % W
  BY Quotient
<1>2. W * (q - p) = W * q - W * p
  OBVIOUS
<1>3. W * (q - p) = s - r
  BY <1>1, <1>2
<1>4. q - p \in Int /\ s - r < W /\ -W < s - r
  BY <1>1
<1>5. q - p = 0
  BY <1>3, <1>4, Multiple
<1>6. q = p
  BY <1>5
<1>7. W * q = W * p /\ W * q \in Int
  BY <1>6
<1>8. r = s
  BY <1>1, <1>7
<1> QED BY <1>1, <1>8

LEMMA Shifted ==
  ASSUME NEW W \in Nat \ {0}, NEW n \in Int, NEW q \in Int
  PROVE  (n + W * q) % W = n % W
<1>1. PICK p \in Int, s \in 0 .. W - 1 : n = W * p + s /\ s = n % W
  BY Quotient
<1>2. W * (p + q) = W * p + W * q
  OBVIOUS
<1>3. n + W * q = W * (p + q) + s
  BY <1>1, <1>2
<1>4. n + W * q \in Int /\ p + q \in Int
  OBVIOUS
<1> QED BY <1>1, <1>3, <1>4, Remainder

\* u32 of a number, up to one round away from its range.
LEMMA InRange ==
  ASSUME Wrap \in Nat \ {0}
  PROVE  /\ \A n \in Int : u32(n) \in 0 .. Wrap - 1
         /\ \A n \in 0 .. Wrap - 1 : u32(n) = n
         /\ \A n \in -Wrap .. -1 : u32(n) = n + Wrap
<1>1. ASSUME NEW n \in Int PROVE u32(n) \in 0 .. Wrap - 1
  BY <1>1, Quotient DEF u32
<1>2. ASSUME NEW n \in 0 .. Wrap - 1 PROVE u32(n) = n
  <2>1. n = Wrap * 0 + n
    OBVIOUS
  <2> QED  BY <2>1, Remainder DEF u32
<1>3. ASSUME NEW n \in -Wrap .. -1 PROVE u32(n) = n + Wrap
  <2>1. n = Wrap * (-1) + (n + Wrap) /\ n \in Int /\ n + Wrap \in 0 .. Wrap - 1 /\ -1 \in Int
    OBVIOUS
  <2> QED  BY <2>1, Remainder DEF u32
<1> QED  BY <1>1, <1>2, <1>3

\* Sums and differences may be reduced before or after.
LEMMA Sums ==
  ASSUME Wrap \in Nat \ {0}, NEW a \in Int, NEW b \in Int
  PROVE  u32(u32(a) + b) = u32(a + b)
<1>1. PICK p \in Int, s \in 0 .. Wrap - 1 : a = Wrap * p + s /\ s = a % Wrap
  BY Quotient
<1>2. a + b = (s + b) + Wrap * p /\ s + b \in Int
  BY <1>1
<1>3. ((s + b) + Wrap * p) % Wrap = (s + b) % Wrap
  BY <1>2, Shifted
<1> QED  BY <1>1, <1>2, <1>3, Zenon DEF u32

LEMMA Differences ==
  ASSUME Wrap \in Nat \ {0}, NEW s \in Int, NEW a \in Int, NEW b \in Int
  PROVE  u32(u32(s + a) - u32(s + b)) = u32(a - b)
<1>0. s + a \in Int /\ s + b \in Int
  OBVIOUS
<1>1. PICK p \in Int, x \in 0 .. Wrap - 1 : s + a = Wrap * p + x /\ x = (s + a) % Wrap
  BY <1>0, Quotient
<1>2. PICK q \in Int, y \in 0 .. Wrap - 1 : s + b = Wrap * q + y /\ y = (s + b) % Wrap
  BY <1>0, Quotient
<1>3. Wrap * (p - q) = Wrap * p - Wrap * q /\ p - q \in Int
  OBVIOUS
<1>4. a - b = (x - y) + Wrap * (p - q) /\ x - y \in Int
  BY <1>1, <1>2, <1>3
<1>5. ((x - y) + Wrap * (p - q)) % Wrap = (x - y) % Wrap
  BY <1>3, <1>4, Shifted
<1> QED  BY <1>1, <1>2, <1>4, <1>5, Zenon DEF u32

\* TIME_LESS_THAN compares the real times when they are less than half a round apart.
LEMMA Compared ==
  ASSUME Sizes, NEW s \in Int, NEW a \in Int, NEW b \in Int,
         a - b < Wrap \div 2, b - a <= Wrap \div 2
  PROVE  TIME_LESS_THAN(u32(s + a), u32(s + b)) <=> a < b
<1>1. PICK d \in Int : d = a - b
  OBVIOUS
<1>2. Wrap \in Nat \ {0} /\ 2 * (Wrap \div 2) = Wrap /\ Wrap \div 2 \in Nat
  BY DEF Sizes
<1>3. d < Wrap \div 2 /\ -d <= Wrap \div 2 /\ (a < b <=> d < 0)
  BY <1>1, <1>2
<1>4. u32(u32(s + a) - u32(s + b)) = u32(d)
  BY <1>1, <1>2, Differences
<1>5. CASE d >= 0
  <2>1. u32(d) = d
    BY <1>2, <1>3, <1>5, InRange
  <2> QED  BY <1>2, <1>3, <1>4, <1>5, <2>1 DEF TIME_LESS_THAN, LWIP_MAX_TIMEOUT
<1>6. CASE d < 0
  <2>1. u32(d) = d + Wrap
    BY <1>2, <1>3, <1>6, InRange
  <2> QED  BY <1>2, <1>3, <1>4, <1>6, <2>1 DEF TIME_LESS_THAN, LWIP_MAX_TIMEOUT
<1> QED  BY <1>5, <1>6

-----------------------------------------------------------------------------
(* Induction, recursion and lists *)

\* A set of numbers that is not empty has a smallest member.
LEMMA LeastNumber ==
  ASSUME NEW T, T \subseteq Nat, T # {}
  PROVE  \E x \in T : \A y \in T : x <= y
<1>1. PICK R : R = OpToRel(<, Nat)
  BY Zenon
<1>2. IsWellFoundedOn(R, Nat)
  BY <1>1, NatLessThanWellFounded, Zenon
<1>3. \A y, x \in Nat : y < x => <<y, x>> \in R
  BY <1>1 DEF OpToRel
<1>4. PICK x \in T : \A y \in T : ~(<<y, x>> \in R)
  BY <1>2, WFMin
<1>5. \A y \in T : x <= y
  <2> SUFFICES ASSUME NEW y \in T PROVE x <= y
    OBVIOUS
  <2>1. x \in Nat /\ y \in Nat /\ ~(y < x)
    BY <1>3, <1>4
  <2> QED
    BY <2>1
<1> QED
  BY <1>5


\* A set that contains 0 and with each number the next one contains all numbers.
LEMMA Induction ==
  ASSUME NEW S, 0 \in S, \A n \in Nat : n \in S => n + 1 \in S
  PROVE  \A n \in Nat : n \in S
<1> SUFFICES ASSUME Nat \ S # {} PROVE FALSE
  OBVIOUS
<1>1. PICK x \in Nat \ S : \A y \in Nat \ S : x <= y
  BY LeastNumber
<1>2. x # 0
  OBVIOUS
<1>3. x - 1 \in Nat /\ x - 1 \in S
  BY <1>1, <1>2
<1> QED
  BY <1>3

\* What n steps make of x, each step a function from S to S.
Steps(n, S) == [1 .. n -> [S -> S]]

Iterated(f, n, S, g, x) ==
  f \in [0 .. n -> S] /\ f[0] = x /\ \A i \in 1 .. n : f[i] = g[i][f[i - 1]]

LEMMA Iterates ==
  ASSUME NEW S, NEW n \in Nat, NEW g \in Steps(n, S), NEW x \in S
  PROVE  \E f : Iterated(f, n, S, g, x)
<1> DEFINE Good == {m \in Nat : m <= n =>
                      \E f \in [0 .. m -> S] : f[0] = x /\ \A i \in 1 .. m : f[i] = g[i][f[i - 1]]}
<1>1. 0 \in Good
  <2> DEFINE f0 == [i \in 0 .. 0 |-> x]
  <2>1. f0 \in [0 .. 0 -> S] /\ f0[0] = x /\ \A i \in 1 .. 0 : f0[i] = g[i][f0[i - 1]]
    OBVIOUS
  <2> QED
    BY <2>1
<1>2. ASSUME NEW m \in Nat, m \in Good, m + 1 <= n PROVE m + 1 \in Good
  <2>1. PICK f \in [0 .. m -> S] : f[0] = x /\ \A i \in 1 .. m : f[i] = g[i][f[i - 1]]
    BY <1>2
  <2>2. g[m + 1] \in [S -> S] /\ f[m] \in S
    BY <1>2 DEF Steps
  <2> DEFINE e == [i \in 0 .. m + 1 |-> IF i = m + 1 THEN g[m + 1][f[m]] ELSE f[i]]
  <2>3. e \in [0 .. m + 1 -> S] /\ e[0] = x
    BY <2>1, <2>2
  <2>4. ASSUME NEW i \in 1 .. m + 1 PROVE e[i] = g[i][e[i - 1]]
    <3>1. CASE i = m + 1
      <4>1. e[i] = g[i][f[m]] /\ e[i - 1] = f[m]
        BY <3>1
      <4> QED
        BY <4>1
    <3>2. CASE i \in 1 .. m
      <4>1. e[i] = f[i] /\ e[i - 1] = f[i - 1]
        BY <3>2
      <4> QED
        BY <2>1, <3>2, <4>1
    <3> QED
      BY <3>1, <3>2
  <2> HIDE DEF e
  <2>5. m + 1 \in Nat
    OBVIOUS
  <2>6. \E f1 \in [0 .. m + 1 -> S] : f1[0] = x /\ \A i \in 1 .. m + 1 : f1[i] = g[i][f1[i - 1]]
    BY <2>3, <2>4
  <2> QED
    BY <2>5, <2>6
<1>3. ASSUME NEW m \in Nat, m \in Good, ~(m + 1 <= n) PROVE m + 1 \in Good
  BY <1>3
<1>4. n \in Good
  <2> HIDE DEF Good
  <2> QED
    BY <1>1, <1>2, <1>3, Induction
<1> QED
  BY <1>4 DEF Iterated


LEMMA Joined ==
  ASSUME NEW S, NEW x \in Seq(S), NEW v \in Seq(S)
  PROVE  x \o v \in Seq(S) /\ Len(x \o v) = Len(x) + Len(v)
OBVIOUS

\* A list into which t is inserted at a place, and one from which an entry is removed.
IsInserted(w, s, t, at) ==
  /\ Len(w) = Len(s) + 1 /\ w[at] = t
  /\ \A i \in 1 .. at - 1 : w[i] = s[i]
  /\ \A i \in at + 1 .. Len(s) + 1 : w[i] = s[i - 1]

LEMMA InsertAt ==
  ASSUME NEW S, NEW s \in Seq(S), NEW t \in S, NEW at \in 1 .. Len(s) + 1
  PROVE  LET w == SubSeq(s, 1, at - 1) \o <<t>> \o SubSeq(s, at, Len(s))
         IN  w \in Seq(S) /\ IsInserted(w, s, t, at)
<1>1. PICK n \in Nat : n = Len(s) /\ DOMAIN s = 1 .. n
  OBVIOUS
<1>2. PICK u : u = SubSeq(s, 1, at - 1)
  OBVIOUS
<1>3. PICK v : v = SubSeq(s, at, Len(s))
  OBVIOUS
<1>4. u \in Seq(S) /\ Len(u) = at - 1 /\ \A i \in 1 .. at - 1 : u[i] = s[i]
  BY <1>2
<1>5. v \in Seq(S) /\ Len(v) = (n + 1) - at /\ \A i \in 1 .. (n + 1) - at : v[i] = s[i + at - 1]
  BY <1>1, <1>3
<1>6. PICK x : x = u \o <<t>>
  OBVIOUS
<1>7. x \in Seq(S) /\ Len(x) = at /\ x[at] = t /\ \A i \in 1 .. at - 1 : x[i] = s[i]
  <2>1. x \in Seq(S) /\ Len(x) = at /\ x[at] = t
    BY <1>4, <1>6
  <2>2. \A i \in 1 .. at - 1 : x[i] = u[i]
    BY <1>4, <1>6
  <2> QED
    BY <1>4, <2>1, <2>2
<1>8. PICK w : w = x \o v
  OBVIOUS
<1>9. w \in Seq(S) /\ Len(w) = n + 1
  <2>1. x \in Seq(S) /\ v \in Seq(S) /\ Len(x) = at /\ Len(v) = (n + 1) - at
    BY <1>5, <1>7
  <2>2. w \in Seq(S) /\ Len(w) = Len(x) + Len(v)
    BY <1>8, <2>1, Joined, Zenon
  <2>3. at + ((n + 1) - at) = n + 1
    BY <1>1
  <2> QED
    BY <2>1, <2>2, <2>3
<1>10. \A i \in 1 .. at : w[i] = x[i]
  BY <1>5, <1>7, <1>8
<1>11. \A i \in at + 1 .. n + 1 : w[i] = v[i - at]
  BY <1>1, <1>5, <1>7, <1>8
<1>12. ASSUME NEW i \in at + 1 .. n + 1 PROVE w[i] = s[i - 1]
  <2>1. i - at \in 1 .. (n + 1) - at /\ (i - at) + at - 1 = i - 1
    BY <1>1
  <2>2. v[i - at] = s[i - 1]
    BY <1>5, <2>1
  <2> QED
    BY <1>11, <2>2
<1>13. w[at] = t /\ \A i \in 1 .. at - 1 : w[i] = s[i]
  BY <1>1, <1>7, <1>10
<1>14. w = SubSeq(s, 1, at - 1) \o <<t>> \o SubSeq(s, at, Len(s))
  BY <1>2, <1>3, <1>6, <1>8, Zenon
<1>15. IsInserted(w, s, t, at)
  BY <1>1, <1>9, <1>12, <1>13 DEF IsInserted
<1> QED
  BY <1>9, <1>14, <1>15, Zenon

IsRemoved(w, s, at) ==
  /\ Len(w) = Len(s) - 1
  /\ \A i \in 1 .. at - 1 : w[i] = s[i]
  /\ \A i \in at .. Len(s) - 1 : w[i] = s[i + 1]

LEMMA RemoveAt ==
  ASSUME NEW S, NEW s \in Seq(S), NEW at \in 1 .. Len(s)
  PROVE  LET w == SubSeq(s, 1, at - 1) \o SubSeq(s, at + 1, Len(s))
         IN  w \in Seq(S) /\ IsRemoved(w, s, at)
<1>1. PICK n \in Nat : n = Len(s) /\ DOMAIN s = 1 .. n
  OBVIOUS
<1>2. PICK u : u = SubSeq(s, 1, at - 1)
  OBVIOUS
<1>3. PICK v : v = SubSeq(s, at + 1, Len(s))
  OBVIOUS
<1>4. u \in Seq(S) /\ Len(u) = at - 1 /\ \A i \in 1 .. at - 1 : u[i] = s[i]
  BY <1>2
<1>5. v \in Seq(S) /\ Len(v) = n - at /\ \A i \in 1 .. n - at : v[i] = s[i + at]
  BY <1>1, <1>3
<1>6. PICK w : w = u \o v
  OBVIOUS
<1>7. w \in Seq(S) /\ Len(w) = n - 1
  <2>1. u \in Seq(S) /\ v \in Seq(S) /\ Len(u) = at - 1 /\ Len(v) = n - at
    BY <1>4, <1>5
  <2>2. w \in Seq(S) /\ Len(w) = Len(u) + Len(v)
    BY <1>6, <2>1, Joined, Zenon
  <2>3. (at - 1) + (n - at) = n - 1
    BY <1>1
  <2> QED
    BY <2>1, <2>2, <2>3
<1>8. \A i \in 1 .. at - 1 : w[i] = u[i]
  BY <1>4, <1>5, <1>6
<1>9. \A i \in at .. n - 1 : w[i] = v[i - (at - 1)]
  BY <1>1, <1>4, <1>5, <1>6
<1>10. ASSUME NEW i \in at .. n - 1 PROVE w[i] = s[i + 1]
  <2>1. i - (at - 1) \in 1 .. n - at /\ (i - (at - 1)) + at = i + 1
    BY <1>1
  <2>2. v[i - (at - 1)] = s[i + 1]
    BY <1>5, <2>1
  <2> QED
    BY <1>9, <2>2
<1>11. \A i \in 1 .. at - 1 : w[i] = s[i]
  BY <1>4, <1>8
<1>12. w = SubSeq(s, 1, at - 1) \o SubSeq(s, at + 1, Len(s))
  BY <1>2, <1>3, <1>6, Zenon
<1>13. IsRemoved(w, s, at)
  BY <1>1, <1>7, <1>10, <1>11 DEF IsRemoved
<1> QED
  BY <1>7, <1>12, <1>13, Zenon

-----------------------------------------------------------------------------
(* The list of timeouts *)

Ms == 0 .. Wrap - 1
Entries == [h : Cyclic \cup OneShots, time : Ms, left : Int]

\* What ListSorted says of a list at the time now, and that all of it is due within a
\* range of time.
Sorted(list, now) ==
  /\ \A i \in DOMAIN list : list[i].time = u32(now + list[i].left)
  /\ \A i, j \in DOMAIN list : i < j => list[i].left <= list[j].left
Within(list, lo, hi) == \A i \in DOMAIN list : list[i].left \in lo .. hi

LEMMA DomainOf ==
  ASSUME NEW S, NEW s \in Seq(S)
  PROVE  Len(s) \in Nat /\ DOMAIN s = 1 .. Len(s) /\ \A i \in 1 .. Len(s) : s[i] \in S
OBVIOUS

\* A timeout that is put behind those that are not later leaves the list sorted, as long
\* as no two times are half a round of the clock apart.
LEMMA InsertKeeps ==
  ASSUME Sizes, NEW list \in Seq(Entries), NEW now \in Ms, Sorted(list, now),
         NEW t \in Entries, t.time = u32(now + t.left),
         NEW lo \in Int, NEW hi \in Int, hi - lo < Wrap \div 2,
         Within(list, lo, hi), t.left \in lo .. hi
  PROVE  LET w == sys_timeout_abs(list, t)
         IN  w \in Seq(Entries) /\ Sorted(w, now) /\ Within(w, lo, hi)
<1>1. PICK n \in Nat : n = Len(list) /\ DOMAIN list = 1 .. n /\ \A i \in 1 .. n : list[i] \in Entries
  BY DomainOf
<1> DEFINE later == {i \in DOMAIN list : TIME_LESS_THAN(t.time, list[i].time)}
           at == IF later = {} THEN Len(list) + 1 ELSE CHOOSE i \in later : \A j \in later : i <= j
<1>2. \A i \in 1 .. n : list[i].left \in lo .. hi /\ list[i].left \in Int /\ t.left \in Int
  BY <1>1 DEF Within, Entries
<1>3. ASSUME NEW i \in 1 .. n PROVE i \in later <=> t.left < list[i].left
  <2>1. PICK a \in Int, b \in Int : a = t.left /\ b = list[i].left
    BY <1>2
  <2>2. a - b < Wrap \div 2 /\ b - a <= Wrap \div 2
    <3>1. a \in lo .. hi /\ b \in lo .. hi
      BY <1>2, <2>1
    <3>2. Wrap \div 2 \in Int
      BY DEF Sizes
    <3> QED
      BY <3>1, <3>2
  <2>3. list[i].time = u32(now + b) /\ t.time = u32(now + a)
    BY <1>1, <2>1 DEF Sorted
  <2>4. now \in Int
    BY DEF Ms
  <2>5. TIME_LESS_THAN(u32(now + a), u32(now + b)) <=> a < b
    BY <2>2, <2>4, Compared
  <2> QED
    BY <1>1, <2>1, <2>3, <2>5
<1>4. later \subseteq 1 .. n
  BY <1>1
<1>5. at \in 1 .. n + 1 /\ \A i \in 1 .. n : IF i < at THEN i \notin later ELSE at \in later
  <2>1. CASE later = {}
    BY <1>1, <2>1
  <2>2. CASE later # {}
    <3>1. later \subseteq Nat
      BY <1>1, <1>4
    <3>2. \E i \in later : \A j \in later : i <= j
      <4> HIDE DEF later
      <4> QED  BY <2>2, <3>1, LeastNumber
    <3>3. at \in later /\ \A j \in later : at <= j
      BY <2>2, <3>2
    <3> QED
      <4> HIDE DEF later, at
      <4> QED  BY <1>1, <1>4, <3>1, <3>3
  <2> QED
    BY <2>1, <2>2
<1>6. sys_timeout_abs(list, t) = SubSeq(list, 1, at - 1) \o <<t>> \o SubSeq(list, at, Len(list))
  BY Zenon DEF sys_timeout_abs
<1> HIDE DEF at, later
<1>7. PICK w : w = sys_timeout_abs(list, t)
  OBVIOUS
<1>8. w \in Seq(Entries) /\ IsInserted(w, list, t, at)
  <2>1. at \in 1 .. Len(list) + 1
    BY <1>1, <1>5
  <2> QED
    BY <1>6, <1>7, <2>1, InsertAt, Zenon
<1>9. /\ DOMAIN w = 1 .. n + 1 /\ w[at] = t /\ \A i \in 1 .. at - 1 : w[i] = list[i]
      /\ \A i \in at + 1 .. n + 1 : w[i] = list[i - 1]
  BY <1>1, <1>8, DomainOf DEF IsInserted
<1> DEFINE from(i) == IF i < at THEN i ELSE i - 1
<1>10. \A i \in 1 .. n + 1 : i # at => from(i) \in 1 .. n /\ w[i] = list[from(i)]
  <2> SUFFICES ASSUME NEW i \in 1 .. n + 1, i # at PROVE from(i) \in 1 .. n /\ w[i] = list[from(i)]
    OBVIOUS
  <2>1. CASE i < at
    <3>1. i \in 1 .. at - 1 /\ from(i) = i /\ i \in 1 .. n
      BY <1>5, <2>1
    <3> QED
      BY <1>9, <3>1
  <2>2. CASE ~(i < at)
    <3>1. i \in at + 1 .. n + 1 /\ from(i) = i - 1 /\ i - 1 \in 1 .. n
      BY <1>5, <2>2
    <3> QED
      BY <1>9, <3>1
  <2> QED
    BY <2>1, <2>2
<1>11. Within(w, lo, hi) /\ \A i \in 1 .. n + 1 : w[i].time = u32(now + w[i].left)
  <2>1. \A i \in 1 .. n : list[i].time = u32(now + list[i].left) /\ list[i].left \in lo .. hi
    BY <1>1 DEF Sorted, Within
  <2> HIDE DEF from
  <2>2. ASSUME NEW i \in 1 .. n + 1 PROVE w[i].left \in lo .. hi /\ w[i].time = u32(now + w[i].left)
    <3>1. CASE i = at
      BY <1>9, <3>1
    <3>2. CASE i # at
      <4>1. from(i) \in 1 .. n /\ w[i] = list[from(i)]
        BY <1>10, <3>2
      <4> QED
        BY <2>1, <4>1, Zenon
    <3> QED
      BY <3>1, <3>2
  <2> QED
    BY <1>9, <2>2 DEF Within
<1>12. ASSUME NEW i \in 1 .. n + 1, NEW j \in 1 .. n + 1, i < j PROVE w[i].left <= w[j].left
  <2>1. \A k, l \in 1 .. n : k < l => list[k].left <= list[l].left
    BY <1>1 DEF Sorted
  <2>2. CASE i # at /\ j # at
    <3>1. from(i) \in 1 .. n /\ from(j) \in 1 .. n /\ from(i) < from(j)
      BY <1>5, <1>12, <2>2
    <3> QED
      BY <1>10, <2>1, <2>2, <3>1
  <2>3. CASE j = at
    <3>1. i \in 1 .. n /\ i < at /\ w[i] = list[i] /\ w[j] = t
      BY <1>5, <1>9, <1>12, <2>3
    <3>2. ~(t.left < list[i].left)
      BY <1>3, <1>5, <3>1
    <3> QED
      BY <1>2, <3>1, <3>2
  <2>4. CASE i = at
    <3>1. j - 1 \in 1 .. n /\ w[j] = list[j - 1] /\ w[i] = t /\ ~(j - 1 < at) /\ (at = j - 1 \/ at < j - 1)
      BY <1>5, <1>9, <1>12, <2>4
    <3>2. at \in later /\ at \in 1 .. n
      BY <1>4, <1>5, <3>1
    <3>3. t.left < list[at].left /\ list[at].left <= list[j - 1].left
      BY <1>2, <1>3, <2>1, <3>1, <3>2
    <3> QED
      BY <1>2, <3>1, <3>2, <3>3
  <2> QED
    BY <2>2, <2>3, <2>4
<1>13. Sorted(w, now)
  BY <1>9, <1>11, <1>12 DEF Sorted
<1> QED
  BY <1>7, <1>8, <1>11, <1>13, Zenon

\* A list from which an entry is removed.
LEMMA RemoveKeeps ==
  ASSUME NEW list \in Seq(Entries), NEW w \in Seq(Entries), NEW at \in 1 .. Len(list),
         IsRemoved(w, list, at), NEW now, Sorted(list, now)
  PROVE  Sorted(w, now) /\ \A lo, hi : Within(list, lo, hi) => Within(w, lo, hi)
<1>1. PICK n \in Nat : n = Len(list) /\ DOMAIN list = 1 .. n
  BY DomainOf
<1>2. /\ DOMAIN w = 1 .. n - 1 /\ \A i \in 1 .. at - 1 : w[i] = list[i]
      /\ \A i \in at .. n - 1 : w[i] = list[i + 1]
  BY <1>1, DomainOf DEF IsRemoved
<1> DEFINE from(i) == IF i < at THEN i ELSE i + 1
<1>3. \A i \in 1 .. n - 1 : from(i) \in 1 .. n /\ w[i] = list[from(i)]
  BY <1>1, <1>2
<1>4. \A i, j \in 1 .. n - 1 : i < j => from(i) < from(j)
  BY <1>1
<1> HIDE DEF from
<1>5. Sorted(w, now)
  <2>1. ASSUME NEW i \in 1 .. n - 1 PROVE w[i].time = u32(now + w[i].left)
    <3>1. PICK k \in DOMAIN list : w[i] = list[k]
      BY <1>1, <1>3
    <3>2. list[k].time = u32(now + list[k].left)
      BY DEF Sorted
    <3> QED
      BY <3>1, <3>2, Zenon
  <2>2. ASSUME NEW i \in 1 .. n - 1, NEW j \in 1 .. n - 1, i < j PROVE w[i].left <= w[j].left
    <3>1. PICK k \in DOMAIN list, l \in DOMAIN list : w[i] = list[k] /\ w[j] = list[l] /\ k < l
      BY <1>1, <1>3, <1>4, <2>2
    <3>2. list[k].left <= list[l].left
      BY <3>1 DEF Sorted
    <3> QED
      BY <3>1, <3>2, Zenon
  <2> QED
    BY <1>2, <2>1, <2>2 DEF Sorted
<1>6. ASSUME NEW lo, NEW hi, Within(list, lo, hi) PROVE Within(w, lo, hi)
  BY <1>1, <1>2, <1>3, <1>6, Zenon DEF Within
<1> QED
  BY <1>5, <1>6

\* sys_untimeout: what is left keeps its order.
LEMMA UntimeoutKeeps ==
  ASSUME NEW list \in Seq(Entries), NEW now, Sorted(list, now), NEW o
  PROVE  LET w == sys_untimeout(list, o)
         IN  w \in Seq(Entries) /\ Sorted(w, now) /\ \A lo, hi : Within(list, lo, hi) => Within(w, lo, hi)
<1> DEFINE matches == {i \in DOMAIN list : list[i].h = o}
           at == CHOOSE i \in matches : \A j \in matches : i <= j
<1>1. CASE matches = {}
  <2>1. sys_untimeout(list, o) = list
    BY <1>1, Zenon DEF sys_untimeout
  <2> QED
    BY <2>1, Zenon
<1>2. CASE matches # {}
  <2>1. matches \subseteq 1 .. Len(list) /\ matches \subseteq Nat
    BY DomainOf
  <2>2. \E i \in matches : \A j \in matches : i <= j
    <3> HIDE DEF matches
    <3> QED  BY <1>2, <2>1, LeastNumber
  <2>3. at \in 1 .. Len(list)
    BY <2>1, <2>2
  <2>4. sys_untimeout(list, o) = SubSeq(list, 1, at - 1) \o SubSeq(list, at + 1, Len(list))
    BY <1>2, Zenon DEF sys_untimeout
  <2> HIDE DEF at, matches
  <2>5. PICK w : w = sys_untimeout(list, o)
    OBVIOUS
  <2>6. w \in Seq(Entries) /\ IsRemoved(w, list, at)
    BY <2>3, <2>4, <2>5, RemoveAt, Zenon
  <2>7. Sorted(w, now) /\ \A lo, hi : Within(list, lo, hi) => Within(w, lo, hi)
    BY <2>3, <2>6, RemoveKeeps, Zenon
  <2> QED
    BY <2>5, <2>6, <2>7, Zenon
<1> QED
  BY <1>1, <1>2

\* The first of a sorted list is the earliest, and the rest is sorted.
LEMMA TailKeeps ==
  ASSUME NEW list \in Seq(Entries), list # <<>>, NEW now, Sorted(list, now)
  PROVE  /\ Tail(list) \in Seq(Entries) /\ Sorted(Tail(list), now)
         /\ \A lo, hi : Within(list, lo, hi) => Within(Tail(list), lo, hi)
         /\ Head(list) \in Entries /\ Head(list).time = u32(now + Head(list).left)
         /\ \A lo, hi : Within(list, lo, hi) => Head(list).left \in lo .. hi
         /\ \A i \in DOMAIN list : Head(list).left <= list[i].left
<1>1. PICK n \in Nat : n = Len(list) /\ DOMAIN list = 1 .. n /\ n >= 1
  BY DomainOf
<1>2. PICK w : w = Tail(list)
  OBVIOUS
<1>3. w \in Seq(Entries) /\ Len(w) = n - 1 /\ \A i \in 1 .. n - 1 : w[i] = list[i + 1]
  BY <1>1, <1>2
<1>4. 1 \in 1 .. Len(list) /\ IsRemoved(w, list, 1)
  BY <1>1, <1>3 DEF IsRemoved
<1>5. Sorted(w, now) /\ \A lo, hi : Within(list, lo, hi) => Within(w, lo, hi)
  BY <1>3, <1>4, RemoveKeeps, Zenon
<1>6. PICK f : f = Head(list) /\ f = list[1] /\ f \in Entries
  BY <1>1
<1>7. 1 \in DOMAIN list
  BY <1>1
<1>8. f.time = u32(now + f.left) /\ \A lo, hi : Within(list, lo, hi) => f.left \in lo .. hi
  BY <1>6, <1>7, Zenon DEF Sorted, Within
<1>9. ASSUME NEW i \in DOMAIN list PROVE f.left <= list[i].left
  <2>1. i = 1 \/ 1 < i
    BY <1>1
  <2>2. f.left \in Int
    BY <1>6 DEF Entries
  <2>3. CASE i = 1
    BY <1>6, <2>2, <2>3
  <2>4. CASE 1 < i
    BY <1>6, <1>7, <2>4 DEF Sorted
  <2> QED
    BY <2>1, <2>3, <2>4
<1> QED
  BY <1>2, <1>3, <1>5, <1>6, <1>8, <1>9, Zenon

LEMMA SizesHold ==
  /\ Sizes /\ Wrap \in Nat \ {0} /\ MaxBusy \in Nat
  /\ LimitMs \in Nat /\ LimitMs \in Int /\ 4 * LimitMs < Wrap
<1>1. Sizes
  BY TimeoutsAssumption DEF Sizes
<1>2. /\ Wrap \in Nat \ {0} /\ MaxBusy \in Nat
      /\ LimitMs \in Nat /\ LimitMs \in Int /\ 4 * LimitMs < Wrap
  BY <1>1 DEF Sizes, LimitMs
<1> QED
  BY <1>1, <1>2

\* A range of times no two of which are half a round of the clock apart.
LEMMA NotHalfRound ==
  ASSUME Sizes, LimitMs \in Nat, 4 * LimitMs < Wrap
  PROVE  \A lo \in Int : lo >= -2 * MaxBusy => LimitMs - lo < Wrap \div 2
BY DEF Sizes

\* sys_timeout: as long as the time is within the limit.
LEMMA TimeoutKeeps ==
  ASSUME NEW list \in Seq(Entries), NEW now \in Ms, Sorted(list, now),
         NEW ms \in 1 .. LimitMs, NEW o \in Cyclic \cup OneShots,
         NEW lo \in Int, lo >= -2 * MaxBusy, lo <= 1, Within(list, lo, LimitMs)
  PROVE  LET w == sys_timeout(list, now, ms, o)
         IN  w \in Seq(Entries) /\ Sorted(w, now) /\ Within(w, lo, LimitMs)
<1>1. Sizes /\ LimitMs \in Nat /\ 4 * LimitMs < Wrap
  BY SizesHold
<1>2. LimitMs \in Int /\ LimitMs - lo < Wrap \div 2
  BY <1>1, NotHalfRound
<1>3. PICK t : t = Timeout(o, u32(now + ms), ms)
  OBVIOUS
<1>4. u32(now + ms) \in Ms /\ ms \in Int
  <2>1. now + ms \in Int /\ Wrap \in Nat \ {0}
    BY <1>1 DEF Ms, Sizes
  <2> QED
    BY <2>1, InRange DEF Ms
<1>5. t \in Entries /\ t.time = u32(now + t.left) /\ t.left = ms
  <2>1. PICK u \in Ms : u = u32(now + ms)
    BY <1>4
  <2>2. t = [h |-> o, time |-> u, left |-> ms]
    BY <1>3, <2>1 DEF Timeout
  <2>3. t \in Entries /\ t.left = ms /\ t.time = u
    BY <1>4, <2>2 DEF Entries
  <2> QED
    BY <2>1, <2>3
<1>6. t.left \in lo .. LimitMs
  BY <1>1, <1>5
<1>7. sys_timeout(list, now, ms, o) = sys_timeout_abs(list, t)
  BY <1>3, Zenon DEF sys_timeout
<1>8. PICK w : w = sys_timeout_abs(list, t)
  OBVIOUS
<1>9. w \in Seq(Entries) /\ Sorted(w, now) /\ Within(w, lo, LimitMs)
  <2>1. t \in Entries /\ t.time = u32(now + t.left) /\ Sizes
    BY <1>1, <1>5
  <2> QED
    BY <1>2, <1>6, <1>8, <2>1, InsertKeeps, ZenonT(30)
<1> QED
  BY <1>7, <1>8, <1>9, Zenon

\* The lists to which the cyclic timers are added one after the other.
Started(f, failed) ==
  [i \in 0 .. Len(lwip_cyclic_timers) |->
     IF i = 0 THEN <<>>
     ELSE IF i \in failed THEN f[i - 1]
     ELSE sys_timeout(f[i - 1], 0, lwip_cyclic_timers[i].interval_ms, lwip_cyclic_timers[i].h)]

\* sys_timeouts_init: the cyclic timers are in order, whatever their order in the array,
\* and whichever of them get no memory.
LEMMA InitKeeps ==
  ASSUME NEW failed
  PROVE  LET w == sys_timeouts_init(failed)
         IN  w \in Seq(Entries) /\ Sorted(w, 0) /\ Within(w, 0, LimitMs)
<1> DEFINE S == {q \in Seq(Entries) : Sorted(q, 0) /\ Within(q, 0, LimitMs)}
<1>1. PICK n \in Nat : n = Len(lwip_cyclic_timers)
  BY DomainOf, TimeoutsAssumption
<1>2. ASSUME NEW i \in 1 .. n
      PROVE  /\ lwip_cyclic_timers[i].interval_ms \in 1 .. LimitMs
             /\ lwip_cyclic_timers[i].h \in Cyclic \cup OneShots
  <2>1. lwip_cyclic_timers \in Seq([h : Cyclic, interval_ms : 1 .. LimitMs])
    BY TimeoutsAssumption, Zenon
  <2>2. PICK r : r = lwip_cyclic_timers[i] /\ r \in [h : Cyclic, interval_ms : 1 .. LimitMs]
    BY <1>1, <2>1, DomainOf
  <2> QED
    BY <2>2
<1> DEFINE add(q, i) ==
             IF i \in failed THEN q
             ELSE sys_timeout(q, 0, lwip_cyclic_timers[i].interval_ms, lwip_cyclic_timers[i].h)
<1>3. ASSUME NEW i \in 1 .. n, NEW q \in S PROVE add(q, i) \in S
  <2>1. 0 \in Ms /\ 0 \in Int /\ 0 >= -2 * MaxBusy /\ 0 <= 1
    BY SizesHold DEF Sizes, Ms
  <2>2. PICK ms \in 1 .. LimitMs : ms = lwip_cyclic_timers[i].interval_ms
    BY <1>2
  <2>3. PICK o \in Cyclic \cup OneShots : o = lwip_cyclic_timers[i].h
    BY <1>2
  <2>4. PICK w : w = sys_timeout(q, 0, ms, o)
    OBVIOUS
  <2>5. w \in Seq(Entries) /\ Sorted(w, 0) /\ Within(w, 0, LimitMs)
    BY <2>1, <2>4, TimeoutKeeps, Zenon
  <2> QED
    BY <2>2, <2>3, <2>4, <2>5, Zenon
<1>4. <<>> \in S
  <2>0. <<>> \in Seq(Entries) /\ DOMAIN <<>> = {}
    OBVIOUS
  <2>1. PICK q : q = <<>> /\ q \in Seq(Entries) /\ DOMAIN q = {}
    BY <2>0, Zenon
  <2>2. Sorted(q, 0) /\ Within(q, 0, LimitMs)
    BY <2>1 DEF Sorted, Within
  <2> QED
    BY <2>1, <2>2, Zenon
<1> HIDE DEF S
<1>5. \E f : f = Started(f, failed)
  <2> DEFINE g == [i \in 1 .. n |-> [q \in S |-> add(q, i)]]
  <2>1. g \in Steps(n, S)
    BY <1>3, Zenon DEF Steps
  <2>2. \A i \in 1 .. n : \A q \in S : g[i][q] = add(q, i)
    BY Zenon
  <2> HIDE DEF g
  <2>3. PICK f : Iterated(f, n, S, g, <<>>)
    BY <1>4, <2>1, Iterates, Zenon
  <2>4. \A i \in 1 .. n : i - 1 \in 0 .. n
    OBVIOUS
  <2>5. \A i \in 1 .. n : f[i] = add(f[i - 1], i)
    BY <2>2, <2>3, <2>4, Zenon DEF Iterated
  <2>6. f = [i \in 0 .. n |-> f[i]]
    BY <2>3, Zenon DEF Iterated
  <2>7. \A i \in 0 .. n : i # 0 => i \in 1 .. n
    OBVIOUS
  <2>8. \A i \in 0 .. n : f[i] = IF i = 0 THEN <<>> ELSE add(f[i - 1], i)
    BY <2>3, <2>5, <2>7, Zenon DEF Iterated
  <2>9. f = Started(f, failed)
    BY <1>1, <2>6, <2>8, Zenon DEF Started
  <2> QED
    BY <2>9, Zenon
<1> DEFINE started == CHOOSE f : f = Started(f, failed)
<1>6. sys_timeouts_init(failed) = started[n]
  BY <1>1, Zenon DEF sys_timeouts_init, Started
<1>7. started = Started(started, failed)
  BY <1>5, Zenon
<1> HIDE DEF started
<1> DEFINE Good == {m \in Nat : m <= n => started[m] \in S}
<1>8. 0 \in Good
  <2>1. 0 \in 0 .. n
    OBVIOUS
  <2>2. started[0] = <<>>
    BY <1>1, <1>7, <2>1, Zenon DEF Started
  <2> QED
    BY <1>4, <2>2
<1>9. ASSUME NEW m \in Nat, m \in Good PROVE m + 1 \in Good
  <2> SUFFICES ASSUME m + 1 <= n PROVE started[m + 1] \in S
    OBVIOUS
  <2>1. started[m] \in S
    BY <1>9
  <2>2. m + 1 \in 0 .. n /\ m + 1 # 0 /\ (m + 1) - 1 = m /\ m + 1 \in 1 .. n
    OBVIOUS
  <2> HIDE DEF add
  <2>3. started[m + 1] = add(started[m], m + 1)
    BY <1>1, <1>7, <2>2, Zenon DEF Started, add
  <2> QED
    BY <1>3, <2>1, <2>2, <2>3, Zenon
<1>10. started[n] \in S
  <2>1. n \in Good
    <3> HIDE DEF Good
    <3> QED  BY <1>8, <1>9, Induction
  <2> QED
    BY <2>1
<1> QED
  BY <1>6, <1>10, Zenon DEF S

-----------------------------------------------------------------------------
(* The steps of the loop *)

\* Time since sys_check_timeouts began, and how early the timeouts of the list are due at
\* each location: after Again they were not due, and the thread has not waited for
\* longer than the first of them; a round later those that were due have been handled.
Elapsed == u32(sys_now - start)
Earliest == IF pc \in {"again", "handle"} THEN -busy
            ELSE IF pc = "fetch" THEN sleep - busy
            ELSE -MaxBusy - busy

TimerTypes ==
  /\ sys_now \in Ms /\ start \in Ms /\ next_timeout \in Seq(Entries)
  /\ sleep \in Int /\ sleep >= -1 /\ busy \in 0 .. MaxBusy /\ late \in Int
  /\ pc \in {"again", "fetch", "handle", "check", "fire", "handler"}

TimersInv ==
  /\ TimerTypes
  /\ Sorted(next_timeout, sys_now)
  /\ Within(next_timeout, Earliest, LimitMs)
  /\ pc = "fetch" /\ sleep < 0 => next_timeout = <<>>
  /\ pc \in {"fire", "handler"} => Elapsed <= busy
  /\ pc = "handler" => /\ current_timeout_due_time = u32(sys_now + late)
                        /\ late \in -MaxBusy - busy .. -Elapsed

LEMMA Wider ==
  ASSUME NEW list \in Seq(Entries), NEW lo \in Int, NEW hi \in Int, NEW lo1 \in Int, lo1 <= lo,
         Within(list, lo, hi)
  PROVE  Within(list, lo1, hi)
<1>1. ASSUME NEW x \in lo .. hi PROVE x \in lo1 .. hi
  OBVIOUS
<1> QED
  BY <1>1, Zenon DEF Within

LEMMA EmptyWithin ==
  ASSUME NEW list, list = <<>>, NEW lo, NEW hi
  PROVE  Within(list, lo, hi)
<1>1. DOMAIN <<>> = {}
  OBVIOUS
<1> QED
  BY <1>1 DEF Within

\* One lemma for each step: a message, or the end of the wait ...
LEMMA FetchKeeps ==
  ASSUME TimersInv, FetchMsg
  PROVE  TimersInv'
<1>1. /\ pc = "fetch" /\ pc' = "handle" /\ sleep' = 0
      /\ UNCHANGED <<sys_now, next_timeout, start, busy, late>>
  BY DEF FetchMsg
<1>2. TimerTypes /\ TimerTypes' /\ next_timeout \in Seq(Entries) /\ busy \in Int /\ sleep \in Int
  BY <1>1 DEF TimersInv, TimerTypes
<1>3. LimitMs \in Int
  BY SizesHold, Zenon
<1>4. Earliest = sleep - busy /\ Earliest' = -busy
  BY <1>1 DEF Earliest
<1>5. Within(next_timeout, -busy, LimitMs)
  <2>1. CASE sleep < 0
    BY <1>1, <2>1, EmptyWithin DEF TimersInv
  <2>2. CASE sleep >= 0
    <3>1. sleep - busy \in Int /\ -busy \in Int /\ -busy <= sleep - busy
      BY <1>2, <2>2
    <3>2. Within(next_timeout, sleep - busy, LimitMs)
      BY <1>4 DEF TimersInv
    <3> QED
      BY <1>2, <1>3, <3>1, <3>2, Wider
  <2> QED
    BY <1>2, <2>1, <2>2
<1>6. Within(next_timeout, Earliest, LimitMs)'
  BY <1>1, <1>4, <1>5, Zenon DEF Within
<1>7. Sorted(next_timeout, sys_now)'
  BY <1>1, Zenon DEF TimersInv, Sorted
<1> QED
  BY <1>1, <1>2, <1>6, <1>7 DEF TimersInv

LEMMA FetchTimedOutKeeps ==
  ASSUME TimersInv, FetchTimedOut
  PROVE  TimersInv'
<1>1. /\ pc = "fetch" /\ pc' = "check" /\ sleep = 0
      /\ UNCHANGED <<sys_now, next_timeout, start, busy, late, sleep>>
  BY DEF FetchTimedOut
<1>2. TimerTypes /\ TimerTypes' /\ next_timeout \in Seq(Entries) /\ busy \in Int
  BY <1>1 DEF TimersInv, TimerTypes
<1>3. LimitMs \in Int /\ MaxBusy \in Nat
  BY SizesHold, Zenon
<1>4. Earliest = sleep - busy /\ Earliest' = -MaxBusy - busy
  BY <1>1 DEF Earliest
<1>5. Within(next_timeout, -MaxBusy - busy, LimitMs)
  <2>1. sleep - busy \in Int /\ -MaxBusy - busy \in Int /\ -MaxBusy - busy <= sleep - busy
    BY <1>1, <1>2, <1>3
  <2>2. Within(next_timeout, sleep - busy, LimitMs)
    BY <1>4 DEF TimersInv
  <2> QED
    BY <1>2, <1>3, <2>1, <2>2, Wider
<1>6. Within(next_timeout, Earliest, LimitMs)'
  BY <1>1, <1>4, <1>5, Zenon DEF Within
<1>7. Sorted(next_timeout, sys_now)'
  BY <1>1, Zenon DEF TimersInv, Sorted
<1> QED
  BY <1>1, <1>2, <1>6, <1>7 DEF TimersInv

\* What sys_timeouts_sleeptime is for a list that is sorted.
LEMMA SleepTime ==
  ASSUME TimersInv, pc = "again", next_timeout # <<>>
  PROVE  LET left == Head(next_timeout).left
         IN  left \in Int /\ left <= LimitMs /\ sys_timeouts_sleeptime = IF left < 0 THEN 0 ELSE left
<1>1. Sizes /\ LimitMs \in Nat /\ 4 * LimitMs < Wrap /\ Wrap \in Nat \ {0} /\ MaxBusy \in Nat
  BY SizesHold, Zenon
<1>2. PICK f : f = Head(next_timeout) /\ f \in Entries /\ f.time = u32(sys_now + f.left)
               /\ f.left \in Earliest .. LimitMs
  BY TailKeeps, Zenon DEF TimersInv, TimerTypes
<1>3. PICK a \in Int : a = f.left
  BY <1>2 DEF Entries
<1>4. Earliest = -busy /\ busy \in 0 .. MaxBusy /\ sys_now \in Ms /\ sys_now \in Int
  BY DEF Earliest, TimersInv, TimerTypes, Ms
<1>5. a - 0 < Wrap \div 2 /\ 0 - a <= Wrap \div 2 /\ a <= LimitMs
  <2>1. a \in -busy .. LimitMs
    BY <1>2, <1>3, <1>4
  <2> QED
    BY <1>1, <1>4, <2>1 DEF Sizes
<1>6. sys_now = u32(sys_now + 0)
  BY <1>1, <1>4, InRange DEF Ms
<1>7. TIME_LESS_THAN(f.time, sys_now) <=> a < 0
  <2>1. 0 \in Int
    OBVIOUS
  <2>2. TIME_LESS_THAN(u32(sys_now + a), u32(sys_now + 0)) <=> a < 0
    BY <1>1, <1>4, <1>5, <2>1, Compared
  <2> QED
    BY <1>2, <1>3, <1>6, <2>2, Zenon
<1>8. a >= 0 => u32(f.time - sys_now) = a
  <2> SUFFICES ASSUME a >= 0 PROVE u32(f.time - sys_now) = a
    OBVIOUS
  <2>1. 0 \in Int /\ a - 0 = a /\ a \in 0 .. Wrap - 1
    BY <1>1, <1>5
  <2>2. u32(u32(sys_now + a) - u32(sys_now + 0)) = u32(a - 0)
    BY <1>1, <1>4, <2>1, Differences
  <2>3. u32(a) = a
    BY <1>1, <2>1, InRange
  <2> QED
    BY <1>2, <1>3, <1>6, <2>1, <2>2, <2>3, Zenon
<1>9. sys_timeouts_sleeptime =
        IF TIME_LESS_THAN(f.time, sys_now) THEN 0 ELSE u32(f.time - sys_now)
  BY <1>2, Zenon DEF sys_timeouts_sleeptime
<1>10. sys_timeouts_sleeptime = IF a < 0 THEN 0 ELSE a
  BY <1>7, <1>8, <1>9
<1> QED
  BY <1>2, <1>3, <1>5, <1>10

\* ... the next round ...
LEMMA AgainKeeps ==
  ASSUME TimersInv, Again
  PROVE  TimersInv'
<1>1. /\ pc = "again" /\ busy' = 0 /\ sleep' = sys_timeouts_sleeptime
      /\ pc' = (IF sleep' = 0 THEN "check" ELSE "fetch")
      /\ UNCHANGED <<sys_now, next_timeout, start, late>>
  BY DEF Again
<1>2. TimerTypes /\ next_timeout \in Seq(Entries) /\ busy \in 0 .. MaxBusy
  BY DEF TimersInv, TimerTypes
<1>3. LimitMs \in Int /\ MaxBusy \in Nat
  BY SizesHold, Zenon
<1>4. Within(next_timeout, -busy, LimitMs)
  BY <1>1 DEF TimersInv, Earliest
<1>5. Sorted(next_timeout, sys_now)'
  BY <1>1, Zenon DEF TimersInv, Sorted
<1>6. CASE next_timeout = <<>>
  <2>1. sleep' = -1
    BY <1>1, <1>6 DEF sys_timeouts_sleeptime, Forever
  <2>2. pc' = "fetch"
    BY <1>1, <2>1
  <2>3. TimerTypes'
    BY <1>1, <1>2, <1>3, <2>1, <2>2 DEF TimerTypes
  <2>4. next_timeout' = <<>>
    BY <1>1, <1>6
  <2>5. Within(next_timeout', Earliest', LimitMs)
    BY <2>4, EmptyWithin
  <2> QED
    BY <1>5, <2>2, <2>3, <2>4, <2>5 DEF TimersInv
<1>7. CASE next_timeout # <<>>
  <2>1. PICK a \in Int : a = Head(next_timeout).left /\ a <= LimitMs /\ sleep' = IF a < 0 THEN 0 ELSE a
    BY <1>1, <1>7, SleepTime
  <2>2. TimerTypes'
    BY <1>1, <1>2, <1>3, <2>1 DEF TimerTypes
  <2>3. CASE sleep' = 0
    <3>1. pc' = "check" /\ Earliest' = -MaxBusy - busy'
      BY <1>1, <2>3 DEF Earliest
    <3>2. Earliest' = -MaxBusy /\ -MaxBusy <= -busy /\ -MaxBusy \in Int /\ -busy \in Int
      BY <1>1, <1>2, <1>3, <3>1
    <3>3. Within(next_timeout, -MaxBusy, LimitMs)
      BY <1>2, <1>3, <1>4, <3>2, Wider
    <3>4. Within(next_timeout', Earliest', LimitMs)
      BY <1>1, <3>2, <3>3, Zenon
    <3> QED
      BY <1>5, <2>2, <3>1, <3>4 DEF TimersInv
  <2>4. CASE sleep' # 0
    <3>1. pc' = "fetch" /\ sleep' = a /\ a > 0
      BY <1>1, <2>1, <2>4
    <3>2. Earliest' = a
      BY <1>1, <3>1 DEF Earliest
    <3>3. \A i \in DOMAIN next_timeout : a <= next_timeout[i].left
      BY <1>2, <1>7, <2>1, TailKeeps DEF TimersInv
    <3>4. Within(next_timeout, a, LimitMs)
      <4> SUFFICES ASSUME NEW i \in DOMAIN next_timeout PROVE next_timeout[i].left \in a .. LimitMs
        BY DEF Within
      <4>1. PICK x : x = next_timeout[i].left
        OBVIOUS
      <4>2. x \in -busy .. LimitMs /\ a <= x
        BY <1>4, <3>3, <4>1 DEF Within
      <4>3. x \in a .. LimitMs
        BY <1>2, <1>3, <4>2
      <4> QED
        BY <4>1, <4>3
    <3>5. Within(next_timeout', Earliest', LimitMs)
      BY <1>1, <3>2, <3>4, Zenon
    <3> QED
      BY <1>5, <2>2, <3>1, <3>5 DEF TimersInv
  <2> QED
    BY <2>3, <2>4
<1> QED
  BY <1>6, <1>7

\* A message changes the list: none of the three ways disturbs the order.
LEMMA HandleKeeps ==
  ASSUME TimersInv, HandleMsg
  PROVE  TimersInv'
<1>1. TimerTypes /\ next_timeout \in Seq(Entries) /\ sys_now \in Ms /\ busy \in 0 .. MaxBusy
  BY DEF TimersInv, TimerTypes
<1>2. MaxBusy \in Nat
  BY SizesHold, Zenon
<1>3. PICK list : /\ MsgHandled(list)
                  /\ \/ list = next_timeout
                     \/ \E o \in OneShots, d \in Delays : list = sys_timeout(next_timeout, sys_now, d, o)
                     \/ \E o \in OneShots : list = sys_untimeout(next_timeout, o)
  BY Zenon DEF HandleMsg
<1>4. /\ pc = "handle" /\ pc' = "again" /\ next_timeout' = list
      /\ UNCHANGED <<sys_now, start, sleep, busy, late>>
  BY <1>3 DEF MsgHandled
<1>5. Within(next_timeout, -busy, LimitMs) /\ Sorted(next_timeout, sys_now) /\ Earliest' = -busy
  BY <1>4 DEF TimersInv, Earliest
<1>6. list \in Seq(Entries) /\ Sorted(list, sys_now) /\ Within(list, -busy, LimitMs)
  <2>1. CASE list = next_timeout
    BY <1>1, <1>5, <2>1
  <2>2. CASE \E o \in OneShots, d \in Delays : list = sys_timeout(next_timeout, sys_now, d, o)
    <3>1. PICK o \in OneShots, d \in Delays : list = sys_timeout(next_timeout, sys_now, d, o)
      BY <2>2
    <3>2. d \in 1 .. LimitMs
      BY TimeoutsAssumption
    <3>3. o \in Cyclic \cup OneShots
      OBVIOUS
    <3>4. PICK lo : lo = -busy
      OBVIOUS
    <3>5. lo \in Int /\ lo >= -2 * MaxBusy /\ lo <= 1
      BY <1>1, <1>2, <3>4
    <3>6. Within(next_timeout, lo, LimitMs)
      BY <1>5, <3>4
    <3>7. list \in Seq(Entries) /\ Sorted(list, sys_now) /\ Within(list, lo, LimitMs)
      <4>1. PICK q \in Seq(Entries) : q = next_timeout
        BY <1>1
      <4>2. PICK now \in Ms : now = sys_now
        BY <1>1
      <4>3. Sorted(q, now) /\ Within(q, lo, LimitMs)
        BY <1>5, <3>6, <4>1, <4>2
      <4>4. PICK w : w = sys_timeout(q, now, d, o)
        OBVIOUS
      <4>5. w \in Seq(Entries) /\ Sorted(w, now) /\ Within(w, lo, LimitMs)
        BY <3>2, <3>3, <3>5, <4>3, <4>4, TimeoutKeeps, ZenonT(30)
      <4> QED
        BY <3>1, <4>1, <4>2, <4>4, <4>5
    <3> QED
      BY <3>4, <3>7
  <2>3. CASE \E o \in OneShots : list = sys_untimeout(next_timeout, o)
    <3>1. PICK o \in OneShots : list = sys_untimeout(next_timeout, o)
      BY <2>3
    <3> QED
      BY <1>1, <1>5, <3>1, UntimeoutKeeps, Zenon
  <2> QED
    BY <1>3, <2>1, <2>2, <2>3
<1>7. Sorted(next_timeout', sys_now') /\ Within(next_timeout', Earliest', LimitMs)
  BY <1>4, <1>5, <1>6, Zenon
<1>8. TimerTypes'
  BY <1>1, <1>4, <1>6 DEF TimerTypes
<1> QED
  BY <1>4, <1>7, <1>8 DEF TimersInv

\* ... and the calls of the handlers that are due.
LEMMA CheckKeeps ==
  ASSUME TimersInv, sys_check_timeouts
  PROVE  TimersInv'
<1>1. /\ pc = "check" /\ pc' = "fire" /\ start' = sys_now
      /\ UNCHANGED <<sys_now, next_timeout, sleep, busy, late>>
  BY DEF sys_check_timeouts
<1>2. TimerTypes /\ TimerTypes' /\ sys_now \in Ms /\ busy \in 0 .. MaxBusy
  BY <1>1 DEF TimersInv, TimerTypes
<1>3. Wrap \in Nat \ {0} /\ MaxBusy \in Nat
  BY SizesHold, Zenon
<1>4. Earliest' = Earliest
  BY <1>1 DEF Earliest
<1>5. Elapsed' = 0
  <2>1. sys_now - sys_now = 0 /\ 0 \in 0 .. Wrap - 1
    BY <1>2, <1>3 DEF Ms
  <2>2. u32(0) = 0
    BY <1>3, <2>1, InRange
  <2>3. Elapsed' = u32(sys_now - sys_now)
    BY <1>1 DEF Elapsed, u32
  <2> QED
    BY <2>1, <2>2, <2>3
<1>6. Elapsed' <= busy'
  BY <1>1, <1>2, <1>3, <1>5
<1>7. Sorted(next_timeout', sys_now') /\ Within(next_timeout', Earliest', LimitMs)
  BY <1>1, <1>4, Zenon DEF TimersInv
<1> QED
  BY <1>1, <1>2, <1>6, <1>7 DEF TimersInv

\* When the first timeout had expired at start.
LEMMA ExpiredIs ==
  ASSUME TimersInv, pc = "fire", next_timeout # <<>>
  PROVE  /\ Head(next_timeout).left \in Int /\ Elapsed \in Nat
         /\ Expired <=> Head(next_timeout).left <= -Elapsed
<1>1. Sizes /\ LimitMs \in Nat /\ 4 * LimitMs < Wrap /\ Wrap \in Nat \ {0} /\ MaxBusy \in Nat
  BY SizesHold, Zenon
<1>2. PICK f : f = Head(next_timeout) /\ f \in Entries /\ f.time = u32(sys_now + f.left)
               /\ f.left \in Earliest .. LimitMs
  BY TailKeeps, Zenon DEF TimersInv, TimerTypes
<1>3. PICK a \in Int : a = f.left
  BY <1>2 DEF Entries
<1>4. Earliest = -MaxBusy - busy /\ busy \in 0 .. MaxBusy /\ sys_now \in Ms /\ start \in Ms
  BY DEF Earliest, TimersInv, TimerTypes
<1>5. PICK e \in 0 .. Wrap - 1 : e = Elapsed
  <2>1. sys_now - start \in Int
    BY <1>1, <1>4 DEF Ms
  <2> QED
    BY <1>1, <2>1, InRange DEF Elapsed
<1>6. e <= busy
  BY <1>5 DEF TimersInv
<1>7. start = u32(sys_now + (-e))
  <2>1. sys_now \in Int /\ start \in Int /\ e \in Int /\ 0 \in Int /\ start \in 0 .. Wrap - 1
    BY <1>1, <1>4, <1>5 DEF Ms
  <2>2. PICK x \in Int : x = sys_now - start
    BY <2>1
  <2>4. PICK p \in Int, s \in 0 .. Wrap - 1 : x = Wrap * p + s /\ s = x % Wrap
    BY <1>1, Quotient
  <2>5. s = e
    BY <1>5, <2>2, <2>4 DEF Elapsed, u32
  <2>6. sys_now + (-e) = start + Wrap * p
    <3>1. PICK y \in Int : y = Wrap * p
      BY <1>1
    <3>2. sys_now - start = y + e
      BY <2>2, <2>4, <2>5, <3>1
    <3>3. sys_now + (-e) = start + y
      BY <2>1, <3>2
    <3> QED
      BY <3>1, <3>3
  <2>7. (start + Wrap * p) % Wrap = start % Wrap
    BY <1>1, <2>1, Shifted
  <2>8. u32(start) = start
    BY <1>1, <2>1, InRange
  <2> QED
    BY <2>6, <2>7, <2>8, Zenon DEF u32
<1>8. (-e) - a < Wrap \div 2 /\ a - (-e) <= Wrap \div 2 /\ -e \in Int /\ sys_now \in Int
  <2>1. a \in -MaxBusy - busy .. LimitMs
    BY <1>2, <1>3, <1>4
  <2> QED
    BY <1>1, <1>4, <1>5, <1>6, <2>1 DEF Sizes, Ms
<1>9. TIME_LESS_THAN(start, f.time) <=> -e < a
  <2>1. TIME_LESS_THAN(u32(sys_now + (-e)), u32(sys_now + a)) <=> -e < a
    BY <1>1, <1>8, Compared
  <2> QED
    BY <1>2, <1>3, <1>7, <2>1, Zenon
<1>10. Expired <=> ~TIME_LESS_THAN(start, f.time)
  BY <1>2, Zenon DEF Expired
<1> QED
  BY <1>1, <1>2, <1>3, <1>5, <1>9, <1>10

LEMMA FireKeeps ==
  ASSUME TimersInv, Fire
  PROVE  TimersInv'
<1>1. /\ pc = "fire" /\ pc' = "handler" /\ Expired /\ next_timeout # <<>>
      /\ next_timeout' = Tail(next_timeout)
      /\ current_timeout_due_time' = Head(next_timeout).time /\ late' = Head(next_timeout).left
      /\ UNCHANGED <<sys_now, start, sleep, busy>>
  BY DEF Fire, Expired
<1>2. PICK list \in Seq(Entries) : list = next_timeout
  BY DEF TimersInv, TimerTypes
<1>3. Sorted(list, sys_now) /\ Within(list, Earliest, LimitMs) /\ list # <<>>
  BY <1>1, <1>2 DEF TimersInv
<1>4. Earliest = -MaxBusy - busy /\ Earliest' = Earliest
  BY <1>1 DEF Earliest
<1>5. Elapsed' = Elapsed
  BY <1>1 DEF Elapsed, u32
<1>6. PICK f : /\ f = Head(list) /\ f.time = u32(sys_now + f.left) /\ f.left \in Earliest .. LimitMs
               /\ Tail(list) \in Seq(Entries) /\ Sorted(Tail(list), sys_now) /\ Within(Tail(list), Earliest, LimitMs)
  BY <1>3, TailKeeps, Zenon
<1>7. f.left \in Int /\ Elapsed \in Nat /\ f.left <= -Elapsed
  BY <1>1, <1>2, <1>6, ExpiredIs, Zenon
<1>8. TimerTypes'
  BY <1>1, <1>2, <1>6, <1>7 DEF TimersInv, TimerTypes
<1>9. Sorted(next_timeout', sys_now') /\ Within(next_timeout', Earliest', LimitMs)
  BY <1>1, <1>2, <1>4, <1>6, Zenon
<1>10. current_timeout_due_time' = u32(sys_now' + late')
  BY <1>1, <1>2, <1>6, Zenon
<1>11. late' \in -MaxBusy - busy' .. -Elapsed'
  <2>1. LimitMs \in Int /\ MaxBusy \in Nat /\ busy \in 0 .. MaxBusy
    BY SizesHold, Zenon DEF TimersInv, TimerTypes
  <2>2. late' = f.left
    BY <1>1, <1>2, <1>6, Zenon
  <2>3. f.left \in -MaxBusy - busy .. LimitMs
    BY <1>4, <1>6
  <2>4. f.left \in -MaxBusy - busy .. -Elapsed
    BY <1>7, <2>1, <2>3
  <2> QED
    BY <1>1, <1>5, <2>2, <2>4, Zenon
<1>12. Elapsed' <= busy'
  BY <1>1, <1>5 DEF TimersInv
<1> QED
  BY <1>1, <1>8, <1>9, <1>10, <1>11, <1>12 DEF TimersInv

LEMMA CheckDoneKeeps ==
  ASSUME TimersInv, CheckDone
  PROVE  TimersInv'
<1>1. /\ pc = "fire" /\ pc' = "again" /\ ~Expired /\ start' = 0
      /\ UNCHANGED <<sys_now, next_timeout, sleep, busy, late>>
  BY DEF CheckDone
<1>2. LimitMs \in Int /\ MaxBusy \in Nat /\ Wrap \in Nat \ {0}
  BY SizesHold, Zenon
<1>3. TimerTypes /\ TimerTypes' /\ busy \in 0 .. MaxBusy /\ next_timeout \in Seq(Entries)
  BY <1>1, <1>2 DEF TimersInv, TimerTypes, Ms
<1>4. Earliest' = -busy /\ Earliest = -MaxBusy - busy
  BY <1>1 DEF Earliest
<1>5. Within(next_timeout, -busy, LimitMs)
  <2>1. CASE next_timeout = <<>>
    BY <2>1, EmptyWithin
  <2>2. CASE next_timeout # <<>>
    <3>1. PICK a \in Int : a = Head(next_timeout).left /\ -Elapsed < a /\ Elapsed \in Nat
      <4>1. PICK a : a = Head(next_timeout).left
        OBVIOUS
      <4>2. a \in Int /\ Elapsed \in Nat /\ ~(a <= -Elapsed)
        BY <1>1, <2>2, <4>1, ExpiredIs, Zenon
      <4> QED
        BY <4>1, <4>2
    <3>2. -busy <= a
      BY <1>1, <1>3, <3>1 DEF TimersInv
    <3>3. \A i \in DOMAIN next_timeout : a <= next_timeout[i].left
      BY <1>3, <2>2, <3>1, TailKeeps DEF TimersInv
    <3> SUFFICES ASSUME NEW i \in DOMAIN next_timeout PROVE next_timeout[i].left \in -busy .. LimitMs
      BY DEF Within
    <3>4. PICK x : x = next_timeout[i].left
      OBVIOUS
    <3>5. x \in -MaxBusy - busy .. LimitMs /\ a <= x
      BY <1>4, <3>3, <3>4 DEF TimersInv, Within
    <3>6. x \in -busy .. LimitMs
      BY <1>2, <1>3, <3>2, <3>5
    <3> QED
      BY <3>4, <3>6
  <2> QED
    BY <2>1, <2>2
<1>6. Sorted(next_timeout', sys_now') /\ Within(next_timeout', Earliest', LimitMs)
  BY <1>1, <1>4, <1>5, Zenon DEF TimersInv
<1> QED
  BY <1>1, <1>3, <1>6 DEF TimersInv

\* The interval of a cyclic timer is one of those of the array.
LEMMA IntervalIs ==
  ASSUME NEW c \in Cyclic
  PROVE  Interval(c) \in 1 .. LimitMs
<1>1. lwip_cyclic_timers \in Seq([h : Cyclic, interval_ms : 1 .. LimitMs])
  BY TimeoutsAssumption, Zenon
<1>2. \E i \in DOMAIN lwip_cyclic_timers : lwip_cyclic_timers[i].h = c
  BY Zenon DEF Cyclic
<1>3. PICK k : k = CHOOSE i \in DOMAIN lwip_cyclic_timers : lwip_cyclic_timers[i].h = c
  OBVIOUS
<1>4. k \in DOMAIN lwip_cyclic_timers
  BY <1>2, <1>3, Zenon
<1>5. PICK r : r = lwip_cyclic_timers[k] /\ r \in [h : Cyclic, interval_ms : 1 .. LimitMs]
  <2>1. PICK R : R = [h : Cyclic, interval_ms : 1 .. LimitMs]
    OBVIOUS
  <2>2. PICK q \in Seq(R) : q = lwip_cyclic_timers
    BY <1>1, <2>1
  <2>3. q[k] \in R
    BY <1>4, <2>2
  <2> QED
    BY <2>1, <2>2, <2>3
<1>6. Interval(c) = r.interval_ms
  BY <1>3, <1>5, Zenon DEF Interval
<1> QED
  BY <1>5, <1>6

\* A cyclic timer is started again for a time that is not in the past.
LEMMA RearmedIs ==
  ASSUME TimersInv, pc = "handler", NEW c \in Cyclic
  PROVE  LET t == Rearmed(c)
         IN  t \in Entries /\ t.time = u32(sys_now + t.left) /\ t.left \in 0 .. LimitMs
<1>1. Sizes /\ LimitMs \in Nat /\ 4 * LimitMs < Wrap /\ Wrap \in Nat \ {0} /\ MaxBusy \in Nat
  BY SizesHold, Zenon
<1>2. PICK I \in 1 .. LimitMs : I = Interval(c)
  BY IntervalIs
<1>3. sys_now \in Int /\ late \in Int /\ busy \in 0 .. MaxBusy /\ start \in Int /\ sys_now \in 0 .. Wrap - 1
  BY <1>1 DEF TimersInv, TimerTypes, Ms
<1>4. late \in -MaxBusy - busy .. 0
  <2>1. sys_now - start \in Int
    BY <1>3
  <2>2. Elapsed \in 0 .. Wrap - 1
    BY <1>1, <2>1, InRange DEF Elapsed
  <2> QED
    BY <1>1, <1>3, <2>2 DEF TimersInv
<1>5. PICK a \in Int : a = late + I
  BY <1>3
<1>6. a - 0 < Wrap \div 2 /\ 0 - a <= Wrap \div 2 /\ a <= LimitMs /\ 0 \in Int /\ I \in Int
  BY <1>1, <1>3, <1>4, <1>5 DEF Sizes
<1>7. PICK next : next = u32(current_timeout_due_time + I)
  OBVIOUS
<1>8. next = u32(sys_now + a) /\ next \in Ms
  <2>1. current_timeout_due_time = u32(sys_now + late)
    BY DEF TimersInv
  <2>2. PICK b \in Int : b = sys_now + late
    BY <1>3
  <2>3. u32(u32(b) + I) = u32(b + I)
    BY <1>1, <1>6, Sums
  <2>4. b + I = sys_now + a /\ sys_now + a \in Int
    BY <1>3, <1>5, <1>6, <2>2
  <2>5. next = u32(sys_now + a)
    BY <1>7, <2>1, <2>2, <2>3, <2>4, Zenon
  <2> QED
    BY <1>1, <2>4, <2>5, InRange DEF Ms
<1>9. TIME_LESS_THAN(next, sys_now) <=> a < 0
  <2>1. TIME_LESS_THAN(u32(sys_now + a), u32(sys_now + 0)) <=> a < 0
    BY <1>1, <1>3, <1>6, Compared
  <2>2. sys_now + 0 = sys_now /\ u32(sys_now) = sys_now
    BY <1>1, <1>3, InRange
  <2> QED
    BY <1>8, <2>1, <2>2, Zenon
<1>10. Rearmed(c) = IF TIME_LESS_THAN(next, sys_now)
                             THEN Timeout(c, u32(sys_now + I), I)
                             ELSE Timeout(c, next, a)
  BY <1>2, <1>5, <1>7, Zenon DEF Rearmed
<1>11. CASE a < 0
  <2>1. PICK u \in Ms : u = u32(sys_now + I)
    <3>1. sys_now + I \in Int
      BY <1>3, <1>6
    <3> QED
      BY <1>1, <3>1, InRange DEF Ms
  <2>2. Rearmed(c) = [h |-> c, time |-> u, left |-> I]
    BY <1>9, <1>10, <1>11, <2>1 DEF Timeout
  <2>3. PICK t : t = [h |-> c, time |-> u, left |-> I]
    OBVIOUS
  <2>4. t \in Entries /\ t.time = u /\ t.left = I
    BY <1>6, <2>3 DEF Entries
  <2>5. I \in 0 .. LimitMs
    BY <1>1
  <2> QED
    BY <2>1, <2>2, <2>3, <2>4, <2>5, Zenon
<1>12. CASE ~(a < 0)
  <2>1. Rearmed(c) = [h |-> c, time |-> next, left |-> a]
    BY <1>9, <1>10, <1>12 DEF Timeout
  <2>2. PICK t : t = [h |-> c, time |-> next, left |-> a]
    OBVIOUS
  <2>3. t \in Entries /\ t.time = next /\ t.left = a
    BY <1>8, <2>2 DEF Entries
  <2>4. a \in 0 .. LimitMs
    BY <1>1, <1>6, <1>12
  <2> QED
    BY <1>8, <2>1, <2>2, <2>3, <2>4, Zenon
<1> QED
  BY <1>11, <1>12

\* The end of a handler, which leaves the list alone or starts a timer.
LEMMA HandlerKeeps ==
  ASSUME TimersInv,
         pc = "handler", HandlerReturns, UNCHANGED <<sys_now, start, sleep, busy>>,
         \/ next_timeout' = next_timeout
         \/ \E c \in Cyclic : next_timeout' = sys_timeout_abs(next_timeout, Rearmed(c))
  PROVE  TimersInv'
<1>1. pc' = "fire" /\ late' = 0
  BY DEF HandlerReturns
<1>2. Sizes /\ LimitMs \in Nat /\ 4 * LimitMs < Wrap /\ MaxBusy \in Nat /\ LimitMs \in Int
  BY SizesHold, Zenon
<1>3. PICK q \in Seq(Entries) : q = next_timeout
  BY DEF TimersInv, TimerTypes
<1>4. PICK now \in Ms : now = sys_now
  BY DEF TimersInv, TimerTypes
<1>5. PICK lo : lo = Earliest
  OBVIOUS
<1>6. lo = -MaxBusy - busy /\ Earliest' = lo /\ busy \in 0 .. MaxBusy
  BY <1>1, <1>5 DEF Earliest, TimersInv, TimerTypes
<1>7. lo \in Int /\ lo >= -2 * MaxBusy /\ lo <= 0
  BY <1>2, <1>6
<1>8. LimitMs - lo < Wrap \div 2
  BY <1>2, <1>7, NotHalfRound
<1>9. Sorted(q, now) /\ Within(q, lo, LimitMs)
  BY <1>3, <1>4, <1>5 DEF TimersInv
<1>10. /\ next_timeout' \in Seq(Entries) /\ Sorted(next_timeout', now)
       /\ Within(next_timeout', lo, LimitMs)
  <2>1. CASE next_timeout' = next_timeout
    BY <1>3, <1>9, <2>1
  <2>2. CASE \E c \in Cyclic : next_timeout' = sys_timeout_abs(next_timeout, Rearmed(c))
    <3>1. PICK c \in Cyclic : next_timeout' = sys_timeout_abs(next_timeout, Rearmed(c))
      BY <2>2
    <3>2. PICK t : t = Rearmed(c)
      OBVIOUS
    <3>3. t \in Entries /\ t.time = u32(now + t.left) /\ t.left \in 0 .. LimitMs
      BY <1>4, <3>2, RearmedIs, Zenon
    <3>4. t.left \in lo .. LimitMs
      BY <1>2, <1>7, <3>3
    <3>5. PICK w : w = sys_timeout_abs(q, t)
      OBVIOUS
    <3>6. w \in Seq(Entries) /\ Sorted(w, now) /\ Within(w, lo, LimitMs)
      BY <1>2, <1>7, <1>8, <1>9, <3>3, <3>4, <3>5, InsertKeeps, ZenonT(30)
    <3> QED
      BY <1>3, <3>1, <3>2, <3>5, <3>6
  <2> QED
    BY <2>1, <2>2
<1>11. Sorted(next_timeout', sys_now') /\ Within(next_timeout', Earliest', LimitMs)
  BY <1>4, <1>6, <1>10, Zenon
<1>12. TimerTypes'
  BY <1>1, <1>10 DEF TimersInv, TimerTypes
<1>13. Elapsed' = Elapsed
  BY DEF Elapsed, u32
<1>14. Elapsed' <= busy'
  BY <1>13 DEF TimersInv
<1> QED
  BY <1>1, <1>11, <1>12, <1>14 DEF TimersInv

\* A millisecond brings every timeout one nearer, and the time that was measured grows.
LEMMA TickKeeps ==
  ASSUME TimersInv, Tick
  PROVE  TimersInv'
<1>1. /\ Waits \/ busy < MaxBusy
      /\ sys_now' = u32(sys_now + 1)
      /\ late' = (IF pc = "handler" THEN late - 1 ELSE late)
      /\ sleep' = (IF pc = "fetch" /\ sleep > 0 THEN sleep - 1 ELSE sleep)
      /\ busy' = (IF Waits THEN busy ELSE busy + 1)
      /\ UNCHANGED <<current_timeout_due_time, pc, start>>
  BY DEF Tick
<1>0. next_timeout' = [i \in DOMAIN next_timeout |-> [next_timeout[i] EXCEPT !.left = @ - 1]]
  BY DEF Tick
<1>2. LimitMs \in Int /\ MaxBusy \in Nat /\ Wrap \in Nat \ {0} /\ Sizes
  BY SizesHold, Zenon
<1>3. /\ TimerTypes /\ sys_now \in Ms /\ sys_now \in Int /\ start \in Int /\ busy \in 0 .. MaxBusy
      /\ sleep \in Int /\ sleep >= -1 /\ late \in Int
  BY <1>2 DEF TimersInv, TimerTypes, Ms
<1>4. Waits => pc = "fetch" /\ sleep # 0
  BY DEF Waits
<1>5. PICK n \in Nat : /\ DOMAIN next_timeout = 1 .. n /\ \A i \in 1 .. n : next_timeout[i] \in Entries
                       /\ n = Len(next_timeout)
  BY DomainOf DEF TimersInv, TimerTypes
<1>6. ASSUME NEW i \in 1 .. n
      PROVE  /\ next_timeout'[i] \in Entries
             /\ next_timeout'[i].left = next_timeout[i].left - 1
             /\ next_timeout'[i].time = next_timeout[i].time
  <2>1. PICK r : r = next_timeout[i] /\ r \in Entries
    BY <1>5
  <2>2. next_timeout'[i] = [r EXCEPT !.left = @ - 1]
    BY <1>0, <1>5, <2>1, Zenon
  <2>3. PICK z : z = [r EXCEPT !.left = @ - 1]
    OBVIOUS
  <2>4. z \in Entries /\ z.left = r.left - 1 /\ z.time = r.time
    <3>1. r.left \in Int /\ r = [h |-> r.h, time |-> r.time, left |-> r.left]
      BY <2>1 DEF Entries
    <3>2. z = [h |-> r.h, time |-> r.time, left |-> r.left - 1]
      BY <2>1, <2>3 DEF Entries
    <3>3. PICK a \in Int : a = r.left - 1
      BY <3>1
    <3>4. z = [h |-> r.h, time |-> r.time, left |-> a]
      BY <3>2, <3>3, Zenon
    <3>5. r.h \in Cyclic \cup OneShots /\ r.time \in Ms
      BY <2>1 DEF Entries
    <3>6. z \in Entries /\ z.left = a /\ z.time = r.time
      BY <3>4, <3>5 DEF Entries
    <3> QED
      BY <3>3, <3>6
  <2> QED
    BY <2>1, <2>2, <2>3, <2>4, Zenon
<1>7. DOMAIN next_timeout' = 1 .. n /\ next_timeout' \in Seq(Entries)
  <2>1. next_timeout' = [i \in 1 .. n |-> next_timeout'[i]]
    BY <1>0, <1>5, Zenon
  <2>2. PICK w : w = next_timeout'
    OBVIOUS
  <2>3. w = [i \in 1 .. n |-> w[i]] /\ \A i \in 1 .. n : w[i] \in Entries
    BY <1>6, <2>1, <2>2
  <2>4. w \in [1 .. n -> Entries]
    BY <2>3, Zenon
  <2>5. w \in Seq(Entries) /\ DOMAIN w = 1 .. n
    BY <2>4
  <2> QED
    BY <2>2, <2>5
<1>8. \A i \in 1 .. n : /\ next_timeout[i].left \in Int
                        /\ next_timeout[i].left \in Earliest .. LimitMs
                        /\ next_timeout[i].time = u32(sys_now + next_timeout[i].left)
  BY <1>5 DEF TimersInv, Within, Sorted, Entries
<1>9. Sorted(next_timeout', sys_now')
  <2>1. ASSUME NEW i \in 1 .. n PROVE next_timeout'[i].time = u32(sys_now' + next_timeout'[i].left)
    <3>1. PICK a \in Int : a = next_timeout[i].left
      BY <1>8
    <3>2. sys_now + 1 \in Int /\ a - 1 \in Int /\ (sys_now + 1) + (a - 1) = sys_now + a
      BY <1>3
    <3>3. u32(u32(sys_now + 1) + (a - 1)) = u32(sys_now + a)
      <4>1. PICK b \in Int : b = sys_now + 1
        BY <3>2
      <4>2. PICK c \in Int : c = a - 1
        BY <3>2
      <4>3. u32(u32(b) + c) = u32(b + c)
        BY <1>2, Sums
      <4> QED
        BY <3>2, <4>1, <4>2, <4>3, Zenon
    <3>4. next_timeout'[i].left = a - 1 /\ next_timeout'[i].time = u32(sys_now + a)
      BY <1>6, <1>8, <3>1
    <3> QED
      BY <1>1, <3>3, <3>4
  <2>2. ASSUME NEW i \in 1 .. n, NEW j \in 1 .. n, i < j
        PROVE  next_timeout'[i].left <= next_timeout'[j].left
    <3>1. next_timeout[i].left <= next_timeout[j].left
      BY <1>5, <2>2 DEF TimersInv, Sorted
    <3>2. PICK a \in Int, b \in Int : a = next_timeout[i].left /\ b = next_timeout[j].left
      BY <1>8
    <3>3. a - 1 <= b - 1
      BY <3>1, <3>2
    <3> QED
      BY <1>6, <3>2, <3>3
  <2> QED
    BY <1>7, <2>1, <2>2 DEF Sorted
<1>10. TimerTypes'
  <2>1. sys_now' \in Ms
    <3>1. sys_now + 1 \in Int
      BY <1>3
    <3> QED
      BY <1>1, <1>2, <3>1, InRange DEF Ms
  <2>2. busy' \in 0 .. MaxBusy /\ sleep' \in Int /\ sleep' >= -1 /\ late' \in Int
    BY <1>1, <1>2, <1>3
  <2> QED
    BY <1>1, <1>7, <2>1, <2>2 DEF TimersInv, TimerTypes
<1>11. pc = "fetch" /\ sleep < 0 => next_timeout = <<>>
  BY DEF TimersInv
<1>12. next_timeout = <<>> => next_timeout' = <<>>
  <2> SUFFICES ASSUME next_timeout = <<>> PROVE next_timeout' = <<>>
    OBVIOUS
  <2>1. n = 0
    BY <1>5
  <2>2. PICK w \in Seq(Entries) : w = next_timeout' /\ DOMAIN w = 1 .. 0
    BY <1>7, <2>1
  <2>3. w = <<>>
    BY <2>2
  <2> QED
    BY <2>2, <2>3
<1>13. Within(next_timeout', Earliest', LimitMs)
  <2>1. CASE next_timeout = <<>>
    BY <1>12, <2>1, EmptyWithin
  <2>2. CASE next_timeout # <<>>
    <3>1. pc = "fetch" => sleep >= 0
      BY <1>3, <1>11, <2>2
    <3>2. Earliest \in Int /\ Earliest' \in Int /\ Earliest' <= Earliest - 1
      <4>1. CASE pc = "fetch"
        <5>1. Earliest = sleep - busy /\ Earliest' = sleep' - busy'
          BY <1>1, <4>1 DEF Earliest
        <5>2. sleep' - busy' <= (sleep - busy) - 1 /\ sleep' - busy' \in Int
          <6>1. CASE Waits
            BY <1>1, <1>3, <1>4, <3>1, <4>1, <6>1
          <6>2. CASE ~Waits
            BY <1>1, <1>3, <3>1, <4>1, <6>2
          <6> QED
            BY <6>1, <6>2
        <5> QED
          BY <1>3, <5>1, <5>2
      <4>2. CASE pc # "fetch"
        <5>1. busy' = busy + 1
          BY <1>1, <1>4, <4>2
        <5>2. CASE pc \in {"again", "handle"}
          BY <1>1, <1>3, <5>1, <5>2 DEF Earliest
        <5>3. CASE pc \notin {"again", "handle"}
          BY <1>1, <1>2, <1>3, <4>2, <5>1, <5>3 DEF Earliest
        <5> QED
          BY <5>2, <5>3
      <4> QED
        BY <4>1, <4>2
    <3>3. ASSUME NEW i \in 1 .. n PROVE next_timeout'[i].left \in Earliest' .. LimitMs
      <4>1. PICK a \in Int : a = next_timeout[i].left /\ a \in Earliest .. LimitMs
        BY <1>8
      <4>2. a - 1 \in Earliest' .. LimitMs
        <5>1. PICK e \in Int, f \in Int, l \in Int : e = Earliest /\ f = Earliest' /\ l = LimitMs
          BY <1>2, <3>2
        <5>2. f <= e - 1 /\ a \in e .. l
          BY <3>2, <4>1, <5>1
        <5>3. a - 1 \in f .. l
          BY <5>2
        <5> QED
          BY <5>1, <5>3
      <4> QED
        BY <1>6, <4>1, <4>2
    <3> QED
      BY <1>7, <3>3 DEF Within
  <2> QED
    BY <2>1, <2>2
<1>14. ASSUME pc \in {"fire", "handler"}
       PROVE  Elapsed' = Elapsed + 1 /\ Elapsed' <= busy' /\ busy' = busy + 1 /\ Elapsed \in Int
  <2>1. PICK x \in Int : x = sys_now - start
    BY <1>3
  <2>2. Elapsed = u32(x) /\ u32(x) \in 0 .. Wrap - 1
    BY <1>2, <2>1, InRange DEF Elapsed
  <2>3. Elapsed' = u32(sys_now' - start)
    BY <1>1 DEF Elapsed, u32
  <2>4. sys_now' - start = u32(sys_now + 1) + (-start)
    <3>1. sys_now' \in Int
      BY <1>10 DEF TimerTypes, Ms
    <3> QED
      BY <1>1, <1>3, <3>1
  <2>5. u32(u32(sys_now + 1) + (-start)) = u32(x + 1)
    <3>1. PICK b \in Int : b = sys_now + 1
      BY <1>3
    <3>2. PICK c \in Int : c = -start
      BY <1>3
    <3>3. u32(u32(b) + c) = u32(b + c)
      BY <1>2, Sums
    <3>4. b + c = x + 1
      BY <1>3, <2>1, <3>1, <3>2
    <3> QED
      BY <3>1, <3>2, <3>3, <3>4, Zenon
  <2>6. u32(x + 1) = u32(u32(x) + 1)
    BY <1>2, Sums
  <2>7. ~Waits /\ busy < MaxBusy /\ busy' = busy + 1
    BY <1>1, <1>4, <1>14
  <2>8. Elapsed <= busy
    BY <1>14 DEF TimersInv
  <2>9. Elapsed + 1 \in 0 .. Wrap - 1
    BY <1>2, <1>3, <2>2, <2>7, <2>8 DEF Sizes
  <2>10. u32(Elapsed + 1) = Elapsed + 1
    BY <1>2, <2>9, InRange
  <2>11. Elapsed' = Elapsed + 1
    BY <2>2, <2>3, <2>4, <2>5, <2>6, <2>10
  <2> QED
    BY <1>2, <1>3, <2>2, <2>7, <2>8, <2>11
<1>15. ASSUME pc = "handler"
       PROVE  /\ current_timeout_due_time' = u32(sys_now' + late')
              /\ late' \in -MaxBusy - busy' .. -Elapsed'
  <2>1. late' = late - 1
    BY <1>1, <1>15
  <2>2. PICK b \in Int : b = sys_now + 1
    BY <1>3
  <2>3. PICK c \in Int : c = late - 1
    BY <1>3
  <2>4. u32(u32(b) + c) = u32(b + c)
    BY <1>2, Sums
  <2>5. b + c = sys_now + late
    BY <1>3, <2>2, <2>3
  <2>6. current_timeout_due_time = u32(sys_now + late)
    BY <1>15 DEF TimersInv
  <2>7. current_timeout_due_time' = u32(sys_now' + late')
    BY <1>1, <2>1, <2>2, <2>3, <2>4, <2>5, <2>6
  <2>8. Elapsed' = Elapsed + 1 /\ busy' = busy + 1 /\ Elapsed \in Int
    BY <1>14, <1>15
  <2>9. late \in -MaxBusy - busy .. -Elapsed
    BY <1>15 DEF TimersInv
  <2>10. late' \in -MaxBusy - busy' .. -Elapsed'
    BY <1>2, <1>3, <2>1, <2>8, <2>9
  <2> QED
    BY <2>7, <2>10
<1>16. pc' = "fetch" /\ sleep' < 0 => next_timeout' = <<>>
  BY <1>1, <1>3, <1>11, <1>12
<1>17. pc' = pc
  BY <1>1
<1> QED
  BY <1>9, <1>10, <1>13, <1>14, <1>15, <1>16, <1>17 DEF TimersInv

LEMMA TimersInvInit == TimersInit => TimersInv
<1> SUFFICES ASSUME TimersInit PROVE TimersInv
  OBVIOUS
<1>1. PICK failed : /\ sys_now = 0 /\ next_timeout = sys_timeouts_init(failed)
                    /\ pc = "again" /\ start = 0 /\ sleep = 0 /\ busy = 0 /\ late = 0
  BY DEF TimersInit
<1>2. MaxBusy \in Nat /\ Wrap \in Nat \ {0}
  BY SizesHold, Zenon
<1>3. PICK w : w = sys_timeouts_init(failed)
  OBVIOUS
<1>4. w \in Seq(Entries) /\ Sorted(w, 0) /\ Within(w, 0, LimitMs)
  BY <1>3, InitKeeps, Zenon
<1>5. TimerTypes
  BY <1>1, <1>2, <1>3, <1>4 DEF TimerTypes, Ms
<1>6. Earliest = 0
  <2>1. Earliest = -busy
    BY <1>1 DEF Earliest
  <2>2. busy = 0
    BY <1>1
  <2>3. 0 \in Int /\ \A x \in Int : x = 0 => -x = 0
    OBVIOUS
  <2> QED
    BY <2>1, <2>2, <2>3, Zenon
<1>7. Sorted(next_timeout, sys_now) /\ Within(next_timeout, Earliest, LimitMs)
  BY <1>1, <1>3, <1>4, <1>6, Zenon
<1> QED
  BY <1>1, <1>5, <1>7 DEF TimersInv

LEMMA TimersInvNext == TimersInv /\ [TimersNext]_timerVars => TimersInv'
<1> SUFFICES ASSUME TimersInv, [TimersNext]_timerVars PROVE TimersInv'
  OBVIOUS
<1>1. CASE Again
  BY <1>1, AgainKeeps, Zenon
<1>2. CASE FetchMsg
  BY <1>2, FetchKeeps, Zenon
<1>3. CASE FetchTimedOut
  BY <1>3, FetchTimedOutKeeps, Zenon
<1>4. CASE HandleMsg
  BY <1>4, HandleKeeps, Zenon
<1>5. CASE sys_check_timeouts
  BY <1>5, CheckKeeps, Zenon
<1>6. CASE Fire
  BY <1>6, FireKeeps, Zenon
<1>7. CASE CheckDone
  BY <1>7, CheckDoneKeeps, Zenon
<1>8. CASE OneShotDone
  <2>1. /\ pc = "handler" /\ HandlerReturns
        /\ UNCHANGED <<sys_now, start, sleep, busy>> /\ next_timeout' = next_timeout
    BY <1>8 DEF OneShotDone
  <2> QED
    BY <2>1, HandlerKeeps, Zenon
<1>9. ASSUME NEW fails \in MempFails, lwip_cyclic_timer(fails) PROVE TimersInv'
  <2>1. /\ pc = "handler" /\ HandlerReturns /\ h \in Cyclic
        /\ UNCHANGED <<sys_now, start, sleep, busy>>
        /\ next_timeout' = (IF fails THEN next_timeout
                            ELSE sys_timeout_abs(next_timeout, Rearmed(h)))
    BY <1>9, Zenon DEF lwip_cyclic_timer
  <2>2. \/ next_timeout' = next_timeout
        \/ \E c \in Cyclic : next_timeout' = sys_timeout_abs(next_timeout, Rearmed(c))
    BY <2>1, Zenon
  <2> QED
    BY <2>1, <2>2, HandlerKeeps, Zenon
<1>10. CASE Tick
  BY <1>10, TickKeeps, Zenon
<1>11. CASE Post \/ UNCHANGED timerVars
  <2>1. UNCHANGED <<sys_now, next_timeout, current_timeout_due_time, pc, start, sleep, busy, late>>
    BY <1>11 DEF Post, timerVars
  <2>2. Elapsed' = Elapsed /\ Earliest' = Earliest /\ TimerTypes'
    BY <2>1 DEF Elapsed, Earliest, TimersInv, TimerTypes, u32
  <2>3. Sorted(next_timeout', sys_now') /\ Within(next_timeout', Earliest', LimitMs)
    BY <2>1, <2>2, Zenon DEF TimersInv
  <2>4. pc = "handler" => current_timeout_due_time' = u32(sys_now' + late')
    BY <2>1, Zenon DEF TimersInv
  <2>5. /\ pc' = "handler" => late' \in -MaxBusy - busy' .. -Elapsed'
        /\ pc' \in {"fire", "handler"} => Elapsed' <= busy'
        /\ pc' = "fetch" /\ sleep' < 0 => next_timeout' = <<>>
    BY <2>1, <2>2 DEF TimersInv
  <2> QED
    BY <2>1, <2>2, <2>3, <2>4, <2>5 DEF TimersInv
<1> QED
  BY <1>1, <1>2, <1>3, <1>4, <1>5, <1>6, <1>7, <1>8, <1>9, <1>10, <1>11, Zenon
     DEF TimersNext, Thread

\* The invariant gives both properties.
LEMMA TimersInvImplies == TimersInv => ListSorted /\ OnTime
<1> SUFFICES ASSUME TimersInv PROVE ListSorted /\ OnTime
  OBVIOUS
<1>1. ListSorted
  BY Zenon DEF TimersInv, Sorted, ListSorted
<1>2. MaxBusy \in Nat /\ Wrap \in Nat \ {0} /\ LimitMs \in Int
  BY SizesHold, Zenon
<1>3. busy \in 0 .. MaxBusy /\ sleep \in Int /\ sys_now - start \in Int /\ TimerTypes
  BY <1>2 DEF TimersInv, TimerTypes, Ms
<1>4. ASSUME pc = "handler" PROVE late <= 0
  <2>1. Elapsed \in 0 .. Wrap - 1
    BY <1>2, <1>3, InRange DEF Elapsed
  <2> QED
    BY <1>2, <1>3, <1>4, <2>1 DEF TimersInv
<1>5. ASSUME NEW i \in DOMAIN next_timeout PROVE next_timeout[i].left >= -2 * MaxBusy
  <2>1. pc = "fetch" => sleep >= 0
    <3>1. next_timeout # <<>>
      BY <1>5
    <3> QED
      BY <1>3, <3>1 DEF TimersInv
  <2>2. Earliest \in Int /\ Earliest >= -2 * MaxBusy
    BY <1>2, <1>3, <2>1 DEF Earliest
  <2>3. next_timeout[i].left \in Earliest .. LimitMs
    BY <1>5 DEF TimersInv, Within
  <2> QED
    BY <1>2, <2>2, <2>3
<1> QED
  BY <1>1, <1>4, <1>5 DEF OnTime

-----------------------------------------------------------------------------
\* The list of timeouts stays in the order of the real times, and its u32_t times stand
\* for them, whatever is set, removed and started again, and wherever the time wraps
\* around (TIME_LESS_THAN, sys_timeout_abs, lwip_cyclic_timer).
THEOREM TimersStaySorted == TimersSpec => []ListSorted
<1>1. TimersInv => ListSorted
  BY TimersInvImplies
<1> QED  BY <1>1, TimersInvInit, TimersInvNext, PTL DEF TimersSpec

\* No handler is called before its time, and no timeout is left in the list for more
\* than two rounds of the loop after it (sys_check_timeouts, tcpip_timeouts_mbox_fetch).
THEOREM TimersOnTime == TimersSpec => []OnTime
<1>1. TimersInv => OnTime
  BY TimersInvImplies
<1> QED  BY <1>1, TimersInvInit, TimersInvNext, PTL DEF TimersSpec

=============================================================================
