---------------------------- MODULE GsUartProofs ----------------------------
(***************************************************************************)
(* Proofs about the serial to UDP bridge, for every frame length, FIFO size *)
(* and number of frames.                                                   *)
(***************************************************************************)
EXTENDS GsUart, TLAPS

\* The bytes of the header have their values in the UART's FIFO.
FifoInv ==
  \A k \in 1..Len(fifo) : /\ fifo[k].i = 0 => fifo[k].v = "AA"
                          /\ fifo[k].i = 1 => fifo[k].v = "55"

\* The bytes of s after place k are 0x55s.
Only55After(s, k) == \A m \in k + 1..Len(s) : s[m].v = "55"

\* The bytes that were read in a row are the first ones of one frame, and prev remembers
\* the last of them that is not a 0x55.
RunInv ==
  run # <<>> =>
    /\ run[1].v = "AA"
    /\ \A j \in 1..Len(run) : run[j].f = run[1].f /\ run[j].i = j - 1
    /\ \E k \in 1..Len(run) : run[k].v = prev /\ Only55After(run, k)

\* The inductive invariant.  InStep alone is not inductive: that a header is taken for
\* one depends on prev.
IInv == TypeOK /\ FifoInv /\ RunInv /\ InStep

-----------------------------------------------------------------------------
\* Taking the first byte of the FIFO keeps the rest of it as it was.
LEMMA TailFacts ==
  ASSUME NEW S, NEW s \in Seq(S), s # <<>>
  PROVE  /\ Head(s) \in S /\ Head(s) = s[1] /\ Tail(s) \in Seq(S)
         /\ Len(Tail(s)) = Len(s) - 1 /\ Len(s) >= 1
         /\ \A k \in 1..Len(Tail(s)) : Tail(s)[k] = s[k + 1]
OBVIOUS

\* Appending a byte keeps the FIFO as it was and puts the byte at its end.
LEMMA AppendFacts ==
  ASSUME NEW S, NEW s \in Seq(S), NEW e \in S
  PROVE  /\ Append(s, e) \in Seq(S) /\ Len(Append(s, e)) = Len(s) + 1
         /\ \A k \in 1..Len(s) : Append(s, e)[k] = s[k]
         /\ Append(s, e)[Len(s) + 1] = e
OBVIOUS

\* A byte appended to a run that ends with pr and 0x55s ends a header exactly when
\* uart_receive_int takes it for one, and the headers before it stay what they were.
LEMMA AppendHeaders ==
  ASSUME NEW s \in Seq(Bytes), NEW e \in Bytes, NEW k \in 1..Len(s),
         s[k].v # "55", Only55After(s, k)
  PROVE  /\ HeaderAt(Append(s, e), Len(s) + 1) <=> e.v = "55" /\ s[k].v = "AA"
         /\ \A h \in 1..Len(s) : HeaderAt(Append(s, e), h) <=> HeaderAt(s, h)
<1> DEFINE t == Append(s, e)
<1>1. /\ Len(t) = Len(s) + 1 /\ t[Len(s) + 1] = e /\ Len(s) \in Nat
      /\ \A j \in 1..Len(s) : t[j] = s[j]
  BY AppendFacts
<1> HIDE DEF t
<1>2. \A h \in 1..Len(s) : HeaderAt(t, h) <=> HeaderAt(s, h)
  BY <1>1 DEF HeaderAt
<1>3. ASSUME e.v = "55", s[k].v = "AA" PROVE HeaderAt(t, Len(s) + 1)
  BY <1>1, <1>3 DEF HeaderAt, Only55After
<1>4. ASSUME HeaderAt(t, Len(s) + 1) PROVE e.v = "55" /\ s[k].v = "AA"
  <2>1. PICK j \in 1..Len(s) : s[j].v = "AA" /\ \A m \in j + 1..Len(s) : s[m].v = "55"
    BY <1>1, <1>4 DEF HeaderAt
  <2>2. j = k
    BY <2>1 DEF Only55After
  <2> QED  BY <1>1, <1>4, <2>1, <2>2 DEF HeaderAt
<1> QED  BY <1>2, <1>3, <1>4 DEF t

\* So the last header is the new byte, or the last one there was.
LEMMA AppendLastHeader ==
  ASSUME NEW s \in Seq(Bytes), NEW e \in Bytes, NEW k \in 1..Len(s),
         s[k].v # "55", Only55After(s, k)
  PROVE  \A h \in 1..Len(s) + 1 :
           LastHeader(Append(s, e), h) <=>
             IF e.v = "55" /\ s[k].v = "AA" THEN h = Len(s) + 1
             ELSE h \in 1..Len(s) /\ LastHeader(s, h)
<1> DEFINE t == Append(s, e)
<1>1. /\ Len(t) = Len(s) + 1 /\ Len(s) \in Nat
      /\ HeaderAt(t, Len(s) + 1) <=> e.v = "55" /\ s[k].v = "AA"
      /\ \A h \in 1..Len(s) : HeaderAt(t, h) <=> HeaderAt(s, h)
  BY AppendFacts, AppendHeaders
<1> HIDE DEF t
<1>2. CASE e.v = "55" /\ s[k].v = "AA"
  BY <1>1, <1>2 DEF LastHeader, t
<1>3. CASE ~(e.v = "55" /\ s[k].v = "AA")
  BY <1>1, <1>3 DEF LastHeader, t
<1> QED  BY <1>2, <1>3

\* The initial state satisfies the inductive invariant.
LEMMA InitInv == Init => IInv
<1> SUFFICES ASSUME Init PROVE IInv
  OBVIOUS
<1>1. calm \in BOOLEAN
  BY GsAssumption DEF Init
<1>2. TypeOK
  <2>1. Zero \in Bytes /\ 0 \in Places
    BY GsAssumption DEF Zero, Bytes, Places, GS_PACK_LEN
  <2>2. buffer \in [Places -> Bytes] /\ wire \in [Places -> Bytes]
    BY <2>1 DEF Init
  <2>3. run \in Seq(Bytes) /\ Len(run) <= GS_PACK_LEN
    BY GsAssumption DEF Init, GS_PACK_LEN
  <2>4. fifo \in Seq(Bytes) /\ Len(fifo) <= FifoSize
    BY GsAssumption DEF Init
  <2>5. devf \in 1..MaxFrames + 1 /\ devi \in Places /\ gs_data \in 0..GS_DATA_LEN - 1
        /\ devprev \in {"00", "AA", "dd"}
    BY <2>1, GsAssumption DEF Init
  <2>6. /\ LSR_OE \in BOOLEAN /\ irq \in BOOLEAN /\ prev \in {"00", "AA", "dd"}
        /\ frame_flag \in BOOLEAN /\ queued \in BOOLEAN
        /\ cpc \in {"enable", "take", "disable", "connect", "send"}
    BY Zenon DEF Init
  <2>7. xSemaphore \in 0..1
    BY DEF Init
  <2> QED  BY <1>1, <2>2, <2>3, <2>4, <2>5, <2>6, <2>7, Zenon DEF TypeOK
<1>3. FifoInv /\ RunInv /\ InStep
  BY DEF Init, FifoInv, RunInv, InStep
<1> QED  BY <1>2, <1>3 DEF IInv

\* A byte of the device keeps the inductive invariant.
LEMMA DevKeeps == ASSUME IInv, NEW v \in {"AA", "55", "dd"}, DevSend(v)
                  PROVE  IInv'
<1> USE GsAssumption
<1> DEFINE b == [v |-> v, f |-> devf, i |-> devi]
<1>1. /\ b \in Bytes
      /\ b.i = 0 => b.v = "AA"
      /\ b.i = 1 => b.v = "55"
  <2>1. /\ devf \in 1..MaxFrames + 1 /\ devi \in Places /\ devf <= MaxFrames
        /\ devi = 0 => v = "AA"
        /\ devi = 1 => v = "55"
    BY DEF DevSend, IInv, TypeOK
  <2>2. devf \in 0..MaxFrames
    BY <2>1
  <2> QED  BY <2>1, <2>2 DEF Bytes
<1>2. UNCHANGED <<calm, irq, isrVars, xSemaphore, cpc, queued, wire>>
  BY DEF DevSend
<1>3. /\ fifo' \in Seq(Bytes) /\ Len(fifo') <= FifoSize /\ LSR_OE' \in BOOLEAN
      /\ FifoInv'
  <2>1. CASE Len(fifo) < FifoSize
    <3>1. fifo' = Append(fifo, b) /\ LSR_OE' = LSR_OE
      BY <1>1, <2>1 DEF DevSend
    <3>2. fifo \in Seq(Bytes) /\ LSR_OE \in BOOLEAN
      BY DEF IInv, TypeOK
    <3>b. b \in Bytes
      BY <1>1
    <3> HIDE DEF b
    <3>3. /\ fifo' \in Seq(Bytes) /\ Len(fifo') = Len(fifo) + 1
          /\ \A k \in 1..Len(fifo) : fifo'[k] = fifo[k]
          /\ fifo'[Len(fifo) + 1] = b
      BY <3>1, <3>2, <3>b, AppendFacts
    <3>4. Len(fifo) \in Nat
      BY <3>2
    <3> QED  BY <1>1, <2>1, <3>1, <3>2, <3>3, <3>4 DEF IInv, FifoInv
  <2>2. CASE ~(Len(fifo) < FifoSize)
    BY <2>2 DEF DevSend, IInv, TypeOK, FifoInv
  <2> QED  BY <2>1, <2>2
<1>4. devf' \in 1..MaxFrames + 1 /\ devi' \in Places /\ devprev' \in {"00", "AA", "dd"}
  BY DEF DevSend, IInv, TypeOK, Places, GS_PACK_LEN
<1>5. TypeOK'
  BY <1>2, <1>3, <1>4 DEF IInv, TypeOK, isrVars
<1>6. RunInv' /\ InStep'
  BY <1>2 DEF IInv, RunInv, Only55After, InStep, isrVars
<1> QED  BY <1>3, <1>5, <1>6 DEF IInv

\* What uart_receive_int does to the run it has read.
LEMMA RunKeeps ==
  ASSUME IInv, uart_receive_int, NEW b \in Bytes, b = Head(fifo),
         b.i = 0 => b.v = "AA"
  PROVE  /\ run' \in Seq(Bytes) /\ Len(run') <= GS_PACK_LEN
         /\ prev' \in {"00", "AA", "dd"} /\ RunInv'
         /\ \/ Len(run') <= 1
            \/ /\ run' = Append(run, b) /\ Len(run) = b.i /\ run # <<>>
               /\ Len(run') = Len(run) + 1 /\ run'[Len(run) + 1] = b
               /\ \A j \in 1..Len(run) : run'[j] = run[j]
<1> USE GsAssumption
<1>1. /\ b.v \in {"00", "AA", "55", "dd"} /\ b.i \in 0..GS_PACK_LEN - 1
      /\ GS_PACK_LEN \in Nat /\ GS_PACK_LEN > 2 /\ run \in Seq(Bytes) /\ Len(run) \in Nat
      /\ prev \in {"00", "AA", "dd"}
  <2>1. b.v \in {"00", "AA", "55", "dd"} /\ b.i \in 0..GS_PACK_LEN - 1
    BY DEF Bytes, Places
  <2>2. run \in Seq(Bytes) /\ prev \in {"00", "AA", "dd"}
    BY DEF IInv, TypeOK
  <2>3. GS_PACK_LEN \in Nat /\ GS_PACK_LEN > 2
    BY DEF GS_PACK_LEN
  <2> QED  BY <2>1, <2>2, <2>3
<1>2. run' = RunWith(b) /\ prev' = IF b.v = "55" THEN prev ELSE b.v
  BY DEF uart_receive_int
<1>3. prev' \in {"00", "AA", "dd"}
  BY <1>1, <1>2
<1>4. CASE b.i = 0
  <2>1. run' = <<b>>
    BY <1>2, <1>4 DEF RunWith
  <2>2. /\ run' \in Seq(Bytes) /\ Len(run') = 1 /\ run'[1] = b /\ b.v = "AA" /\ prev' = "AA"
    <3>1. b.v = "AA" /\ prev' = "AA"
      BY <1>2, <1>4
    <3> QED  BY <2>1, <3>1
  <2>3. RunInv'
    BY <1>4, <2>2 DEF RunInv, Only55After
  <2> QED  BY <1>1, <1>3, <2>2, <2>3
<1>5. CASE b.i # 0 /\ Len(run) = b.i /\ run[1].f = b.f
  <2>1. run' = Append(run, b)
    BY <1>2, <1>5 DEF RunWith
  <2>2. /\ run' \in Seq(Bytes) /\ Len(run') = Len(run) + 1 /\ run'[Len(run) + 1] = b
        /\ \A j \in 1..Len(run) : run'[j] = run[j]
    BY <1>1, <2>1, AppendFacts
  <2>3. run # <<>> /\ Len(run) >= 1
    BY <1>1, <1>5
  <2>4. /\ run[1].v = "AA"
        /\ \A j \in 1..Len(run) : run[j].f = run[1].f /\ run[j].i = j - 1
    BY <2>3 DEF IInv, RunInv
  <2>5. /\ run'[1].v = "AA"
        /\ \A j \in 1..Len(run') : run'[j].f = run'[1].f /\ run'[j].i = j - 1
    <3>1. 1 \in 1..Len(run) /\ run'[1] = run[1]
      BY <1>1, <2>2, <2>3
    <3>2. ASSUME NEW j \in 1..Len(run') PROVE run'[j].f = run[1].f /\ run'[j].i = j - 1
      <4>1. CASE j \in 1..Len(run)
        BY <2>2, <2>4, <4>1
      <4>2. CASE j = Len(run) + 1
        BY <1>1, <1>5, <2>2, <4>2
      <4> QED  BY <1>1, <2>2, <4>1, <4>2
    <3> QED  BY <2>4, <3>1, <3>2
  <2>6. \E k \in 1..Len(run') : run'[k].v = prev' /\ Only55After(run', k)
    <3>1. PICK k \in 1..Len(run) : run[k].v = prev /\ Only55After(run, k)
      BY <2>3 DEF IInv, RunInv
    <3>2. CASE b.v = "55"
      <4>1. k \in 1..Len(run') /\ run'[k].v = prev'
        BY <1>1, <1>2, <2>2, <3>1, <3>2
      <4>2. Only55After(run', k)
        BY <1>1, <2>2, <3>1, <3>2 DEF Only55After
      <4> QED  BY <4>1, <4>2
    <3>3. CASE b.v # "55"
      <4>1. Len(run) + 1 \in 1..Len(run') /\ run'[Len(run) + 1].v = prev'
        BY <1>1, <1>2, <2>2, <3>3
      <4>2. Only55After(run', Len(run) + 1)
        BY <1>1, <2>2 DEF Only55After
      <4> QED  BY <4>1, <4>2
    <3> QED  BY <3>2, <3>3
  <2>7. RunInv'
    BY <2>5, <2>6 DEF RunInv
  <2> QED  BY <1>1, <1>3, <1>5, <2>1, <2>2, <2>3, <2>7
<1>6. CASE b.i # 0 /\ ~(Len(run) = b.i /\ run[1].f = b.f)
  <2>1. run' = <<>>
    BY <1>2, <1>6 DEF RunWith
  <2>2. run' \in Seq(Bytes) /\ Len(run') = 0 /\ RunInv'
    BY <2>1 DEF RunInv
  <2> QED  BY <1>1, <1>3, <2>2
<1> QED  BY <1>4, <1>5, <1>6

\* A byte that uart_receive_int reads keeps the inductive invariant.
LEMMA IsrKeeps == ASSUME IInv, uart_receive_int
                  PROVE  IInv'
<1> USE GsAssumption
<1> DEFINE b == Head(fifo)
           header == b.v = "55" /\ prev = "AA"
<1>1. /\ b \in Bytes /\ fifo' \in Seq(Bytes) /\ Len(fifo') <= FifoSize /\ FifoInv'
      /\ b.i = 0 => b.v = "AA"
  <2>1. fifo \in Seq(Bytes) /\ fifo # <<>> /\ Len(fifo) <= FifoSize /\ fifo' = Tail(fifo)
    BY DEF uart_receive_int, IInv, TypeOK
  <2>2. /\ b \in Bytes /\ b = fifo[1] /\ fifo' \in Seq(Bytes)
        /\ Len(fifo') = Len(fifo) - 1 /\ Len(fifo) >= 1 /\ Len(fifo) \in Nat
        /\ \A k \in 1..Len(fifo') : fifo'[k] = fifo[k + 1]
    BY <2>1, TailFacts
  <2> QED  BY <2>1, <2>2 DEF IInv, FifoInv
<1>2. /\ b.v \in {"00", "AA", "55", "dd"} /\ b.f \in 0..MaxFrames /\ b.i \in Places
  BY <1>1 DEF Bytes
<1>3. /\ run' \in Seq(Bytes) /\ Len(run') <= GS_PACK_LEN
      /\ prev' \in {"00", "AA", "dd"} /\ RunInv'
      /\ \/ Len(run') <= 1
         \/ /\ run' = Append(run, b) /\ Len(run) = b.i /\ run # <<>>
            /\ Len(run') = Len(run) + 1 /\ run'[Len(run) + 1] = b
            /\ \A j \in 1..Len(run) : run'[j] = run[j]
  BY <1>1, RunKeeps
<1>5. /\ frame_flag' \in BOOLEAN /\ gs_data' \in 0..GS_DATA_LEN - 1
      /\ buffer' \in [Places -> Bytes] /\ xSemaphore' \in 0..1
  <2>1. CASE header
    <3>1. /\ buffer' = [buffer EXCEPT ![0] = [b EXCEPT !.v = prev, !.i = 0], ![1] = b]
          /\ frame_flag' = TRUE /\ gs_data' = 0 /\ xSemaphore' = xSemaphore
      BY <2>1 DEF uart_receive_int, GsRestart
    <3>2. [b EXCEPT !.v = prev, !.i = 0] \in Bytes
      <4>1. prev \in {"00", "AA", "dd"} /\ 0 \in Places
        BY DEF IInv, TypeOK, Places, GS_PACK_LEN
      <4> HIDE DEF b
      <4> QED  BY <1>1, <4>1 DEF Bytes
    <3>3. /\ buffer \in [Places -> Bytes] /\ xSemaphore \in 0..1
          /\ 0 \in 0..GS_DATA_LEN - 1
      BY DEF IInv, TypeOK
    <3> HIDE DEF b
    <3> QED  BY <1>1, <3>1, <3>2, <3>3
  <2>2. CASE ~header /\ frame_flag
    <3>1. /\ buffer' = [buffer EXCEPT ![2 + gs_data] = b]
          /\ gs_data' = IF gs_data + 1 >= GS_DATA_LEN THEN 0 ELSE gs_data + 1
          /\ frame_flag' = ~(gs_data + 1 >= GS_DATA_LEN)
          /\ xSemaphore' = IF gs_data + 1 >= GS_DATA_LEN THEN 1 ELSE xSemaphore
      BY <2>2 DEF uart_receive_int, FrameDone, Given
    <3>2. /\ buffer \in [Places -> Bytes] /\ xSemaphore \in 0..1
          /\ gs_data \in 0..GS_DATA_LEN - 1
      BY DEF IInv, TypeOK
    <3> HIDE DEF b
    <3>3. buffer' \in [Places -> Bytes]
      BY <1>1, <3>1, <3>2
    <3>4. gs_data' \in 0..GS_DATA_LEN - 1 /\ xSemaphore' \in 0..1
      BY <3>1, <3>2
    <3>5. frame_flag' \in BOOLEAN
      BY <3>1
    <3> QED  BY <3>3, <3>4, <3>5
  <2>3. CASE ~header /\ ~frame_flag
    BY <2>3 DEF uart_receive_int, IInv, TypeOK
  <2> QED  BY <2>1, <2>2, <2>3
<1>6. TypeOK'
  BY <1>1, <1>3, <1>5 DEF uart_receive_int, IInv, TypeOK, devVars
<1>7. InStep'
  <2> SUFFICES ASSUME NEW h \in 1..Len(run'), LastHeader(run', h)
               PROVE  /\ buffer'[0].v = "AA" /\ \A j \in h..Len(run') : buffer'[1 + j - h] = run'[j]
                      /\ Len(run') - h < GS_DATA_LEN => frame_flag' /\ gs_data' = Len(run') - h
    BY DEF InStep
  <2>1. h > 1 /\ Len(run') \in Nat /\ h \in Nat
    BY <1>3 DEF LastHeader, HeaderAt
  <2>2. /\ run' = Append(run, b) /\ Len(run) = b.i /\ run # <<>> /\ run \in Seq(Bytes)
        /\ Len(run') = Len(run) + 1 /\ run'[Len(run) + 1] = b /\ Len(run) \in Nat
        /\ \A j \in 1..Len(run) : run'[j] = run[j]
    BY <1>3, <2>1 DEF IInv, TypeOK
  <2>3. PICK k \in 1..Len(run) : run[k].v = prev /\ Only55After(run, k)
    BY <2>2 DEF IInv, RunInv
  <2>4. run[k].v # "55"
    BY <2>3 DEF IInv, TypeOK
  <2>5. IF header THEN h = Len(run) + 1 ELSE h \in 1..Len(run) /\ LastHeader(run, h)
    <3> HIDE DEF b
    <3> QED  BY <1>1, <2>2, <2>3, <2>4, AppendLastHeader
  <2>6. /\ buffer \in [Places -> Bytes] /\ 0 \in Places /\ 1 \in Places
        /\ Places = 0..GS_DATA_LEN + 1 /\ GS_PACK_LEN = GS_DATA_LEN + 2
    BY DEF IInv, TypeOK, Places, GS_PACK_LEN
  <2>7. CASE header
    <3> DEFINE c == [b EXCEPT !.v = prev, !.i = 0]
    <3>1. /\ buffer' = [buffer EXCEPT ![0] = c, ![1] = b]
          /\ frame_flag' = TRUE /\ gs_data' = 0
      BY <2>7 DEF uart_receive_int, GsRestart
    <3>2. h = Len(run) + 1 /\ prev = "AA"
      BY <2>5, <2>7
    <3> HIDE DEF b
    <3>3. c.v = "AA"
      BY <1>1, <3>2 DEF Bytes
    <3> HIDE DEF c
    <3>4. buffer'[0] = c /\ buffer'[1] = b
      BY <2>6, <3>1
    <3>5. \A j \in h..Len(run') : j = h /\ 1 + j - h = 1 /\ run'[j] = b
      BY <2>1, <2>2, <3>2
    <3>6. Len(run') - h = 0
      BY <2>2, <3>2
    <3>7. \A j \in h..Len(run') : buffer'[1 + j - h] = run'[j]
      BY <3>4, <3>5
    <3> QED  BY <3>1, <3>3, <3>4, <3>6, <3>7
  <2>8. CASE ~header
    <3>1. h \in 1..Len(run) /\ LastHeader(run, h)
      BY <2>5, <2>8
    <3>2. Len(run) - h < GS_DATA_LEN /\ Len(run) - h \in Nat
      <4>1. Len(run) + 1 <= GS_DATA_LEN + 2
        BY <1>3, <2>2, <2>6
      <4> QED  BY <2>1, <2>2, <3>1, <4>1
    <3>3. /\ buffer[0].v = "AA" /\ \A j \in h..Len(run) : buffer[1 + j - h] = run[j]
          /\ frame_flag /\ gs_data = Len(run) - h
      BY <3>1, <3>2 DEF IInv, InStep
    <3>4. /\ buffer' = [buffer EXCEPT ![2 + gs_data] = b]
          /\ gs_data' = IF gs_data + 1 >= GS_DATA_LEN THEN 0 ELSE gs_data + 1
          /\ frame_flag' = ~(gs_data + 1 >= GS_DATA_LEN)
      BY <2>8, <3>3 DEF uart_receive_int, FrameDone
    <3> HIDE DEF b
    <3>n. PICK n \in Nat : n = Len(run) /\ h \in 1..n /\ gs_data = n - h /\ Len(run') = n + 1
      BY <2>2, <3>1, <3>3
    <3>5. 2 + gs_data = 2 + n - h /\ 2 + gs_data \in Places /\ 2 + gs_data # 0
      BY <2>1, <2>6, <3>2, <3>n
    <3>6. buffer'[2 + gs_data] = b /\ \A i \in Places : i # 2 + gs_data => buffer'[i] = buffer[i]
      BY <2>6, <3>4, <3>5
    <3>7. \A j \in h..Len(run') : buffer'[1 + j - h] = run'[j]
      <4> SUFFICES ASSUME NEW j \in h..Len(run') PROVE buffer'[1 + j - h] = run'[j]
        OBVIOUS
      <4>1. CASE j = Len(run) + 1
        <5>1. 1 + j - h = 2 + gs_data
          BY <2>1, <3>n, <4>1
        <5> QED  BY <2>2, <3>6, <4>1, <5>1
      <4>2. CASE j \in h..Len(run)
        <5>1. 1 + j - h \in Places /\ 1 + j - h # 2 + gs_data /\ j \in 1..Len(run)
          BY <2>1, <2>6, <3>2, <3>n, <4>2
        <5>2. buffer'[1 + j - h] = buffer[1 + j - h] /\ buffer[1 + j - h] = run[j]
          BY <3>3, <3>6, <4>2, <5>1
        <5> QED  BY <2>2, <5>1, <5>2
      <4> QED  BY <2>1, <3>n, <4>1, <4>2
    <3>8. Len(run') - h < GS_DATA_LEN => frame_flag' /\ gs_data' = Len(run') - h
      <4>1. SUFFICES ASSUME Len(run') - h < GS_DATA_LEN
                     PROVE  frame_flag' /\ gs_data' = Len(run') - h
        OBVIOUS
      <4>2. gs_data + 1 = Len(run') - h /\ ~(gs_data + 1 >= GS_DATA_LEN)
        BY <2>1, <3>n, <4>1
      <4>3. frame_flag' = TRUE /\ gs_data' = gs_data + 1
        BY <3>4, <4>2
      <4> QED  BY <4>2, <4>3
    <3>9. buffer'[0] = buffer[0]
      BY <2>6, <3>5, <3>6
    <3> QED  BY <3>3, <3>7, <3>8, <3>9
  <2> QED  BY <2>7, <2>8
<1> QED  BY <1>1, <1>3, <1>6, <1>7 DEF IInv

\* The steps of the client and of the EMAC do not touch what the invariant is about.
LEMMA OthersKeep ==
  ASSUME IInv, LineStatus \/ vUDPClient \/ EmacSend
  PROVE  IInv'
<1>1. UNCHANGED <<devVars, fifo, isrVars>>
  BY DEF LineStatus, vUDPClient, EmacSend, ClientEnable, ClientTake, ClientTimeout,
         ClientDisable, ClientConnect, ClientSend
<1>2. FifoInv' /\ RunInv' /\ InStep'
  BY <1>1 DEF IInv, FifoInv, RunInv, Only55After, InStep, isrVars
<1>3. TypeOK'
  <2>1. CASE LineStatus
    BY <2>1 DEF LineStatus, IInv, TypeOK, devVars, isrVars
  <2>2. CASE vUDPClient
    <3>1. /\ LSR_OE' = LSR_OE /\ wire' = wire
          /\ irq' \in {irq, TRUE, FALSE} /\ xSemaphore' \in {xSemaphore, 0}
          /\ cpc' \in {"enable", "take", "disable", "connect", "send"}
      BY <2>2 DEF vUDPClient, ClientEnable, ClientTake, ClientTimeout, ClientDisable,
                  ClientConnect, ClientSend, NVIC_DisableIRQ
    <3>2. queued' = queued \/ \E fails \in CanFail : queued' = ~fails
      BY <2>2, GsAssumption, Zenon DEF vUDPClient, ClientEnable, ClientTake, ClientTimeout, ClientDisable,
                  ClientConnect, ClientSend
    <3>3. queued' \in BOOLEAN
      BY <3>2, GsAssumption DEF IInv, TypeOK
    <3>4. xSemaphore' \in 0..1
      BY <3>1 DEF IInv, TypeOK
    <3>5. irq' \in BOOLEAN
      BY <3>1, Zenon DEF IInv, TypeOK
    <3>6. LSR_OE' \in BOOLEAN /\ wire' \in [Places -> Bytes]
      BY <3>1 DEF IInv, TypeOK
    <3>7. /\ calm' \in BOOLEAN /\ devf' \in 1..MaxFrames + 1 /\ devi' \in Places
          /\ devprev' \in {"00", "AA", "dd"}
          /\ fifo' \in Seq(Bytes) /\ Len(fifo') <= FifoSize
          /\ prev' \in {"00", "AA", "dd"} /\ frame_flag' \in BOOLEAN
          /\ gs_data' \in 0..GS_DATA_LEN - 1 /\ buffer' \in [Places -> Bytes]
          /\ run' \in Seq(Bytes) /\ Len(run') <= GS_PACK_LEN
      BY <1>1 DEF IInv, TypeOK, devVars, isrVars
    <3> QED  BY <3>1, <3>3, <3>4, <3>5, <3>6, <3>7, Zenon DEF TypeOK
  <2>3. CASE EmacSend
    BY <2>3 DEF EmacSend, IInv, TypeOK, devVars, isrVars
  <2> QED  BY <2>1, <2>2, <2>3
<1> QED  BY <1>2, <1>3 DEF IInv

\* Every step keeps the inductive invariant.
LEMMA NextKeeps == IInv /\ [Next]_vars => IInv'
<1> SUFFICES ASSUME IInv, [Next]_vars
             PROVE  IInv'
  OBVIOUS
<1>1. CASE DevStep
  BY <1>1, DevKeeps DEF DevStep
<1>2. CASE IsrStep
  BY <1>2, IsrKeeps, OthersKeep DEF IsrStep
<1>3. CASE vUDPClient \/ EmacSend
  BY <1>3, OthersKeep
<1>4. CASE UNCHANGED vars
  BY <1>4 DEF vars, devVars, isrVars, IInv, TypeOK, FifoInv, RunInv, Only55After, InStep
<1> QED  BY <1>1, <1>2, <1>3, <1>4 DEF Next

\* The inductive invariant holds in every reachable state.
LEMMA Inductive == Spec => []IInv
  BY InitInv, NextKeeps, PTL DEF Spec

-----------------------------------------------------------------------------
\* gs_data never leaves the buffer, the FIFO and the semaphore keep their bounds,
\* for every length of a frame (uart_receive_int).
THEOREM TypeCorrect == Spec => []TypeOK
<1>1. IInv => TypeOK
  BY DEF IInv
<1> QED  BY <1>1, Inductive, PTL

\* Whatever the bytes are and whatever was lost before, uart_receive_int stores the
\* bytes of a frame that it reads in a row from their last header on, each in its
\* place.  A frame with no header in its data is stored whole.
THEOREM FallsIntoStep == Spec => []InStep
<1>1. IInv => InStep
  BY DEF IInv
<1> QED  BY <1>1, Inductive, PTL

\* While the client has the interrupt disabled the buffer does not change.
THEOREM BufferIsHeld == Spec => BufferHeld
<1> DEFINE Masked == (cpc \in {"connect", "send"}) => ~irq
<1>1. Init => Masked
  BY DEF Init
<1>2. Masked /\ [Next]_vars => Masked'
  <2> SUFFICES ASSUME Masked, [Next]_vars
               PROVE  Masked'
    OBVIOUS
  <2>1. CASE DevStep
    BY <2>1 DEF DevStep, DevSend
  <2>2. CASE IsrStep
    BY <2>2 DEF IsrStep, LineStatus, uart_receive_int
  <2>3. CASE vUDPClient
    BY <2>3 DEF vUDPClient, ClientEnable, ClientTake, ClientTimeout, ClientDisable,
                ClientConnect, ClientSend, NVIC_DisableIRQ
  <2>4. CASE EmacSend
    BY <2>4 DEF EmacSend
  <2>5. CASE UNCHANGED vars
    BY <2>5 DEF vars
  <2> QED  BY <2>1, <2>2, <2>3, <2>4, <2>5 DEF Next
<1>3. Masked /\ [Next]_vars => [(cpc \in {"connect", "send"}) => (buffer' = buffer)]_vars
  <2> SUFFICES ASSUME Masked, [Next]_vars, cpc \in {"connect", "send"}
               PROVE  buffer' = buffer
    OBVIOUS
  <2>1. CASE DevStep
    BY <2>1 DEF DevStep, DevSend, isrVars
  <2>2. CASE IsrStep
    BY <2>2 DEF IsrStep, LineStatus, uart_receive_int
  <2>3. CASE vUDPClient
    BY <2>3 DEF vUDPClient, ClientEnable, ClientTake, ClientTimeout, ClientDisable,
                ClientConnect, ClientSend, isrVars
  <2>4. CASE EmacSend
    BY <2>4 DEF EmacSend, isrVars
  <2>5. CASE UNCHANGED vars
    BY <2>5 DEF vars, isrVars
  <2> QED  BY <2>1, <2>2, <2>3, <2>4, <2>5 DEF Next
<1> QED  BY <1>1, <1>2, <1>3, PTL DEF Spec, BufferHeld

-----------------------------------------------------------------------------
(* A calm environment *)

\* The frame the device has sent bytes of last, how many of them it has sent, and how
\* many of those uart_receive_int has read: the others are in the FIFO.
LastFrame == IF devi > 0 THEN devf ELSE devf - 1
SentBytes == IF devi > 0 THEN devi ELSE GS_PACK_LEN
ReadBytes == SentBytes - Len(fifo)

\* Nothing was lost: the FIFO holds the rest of the last frame, and what was read of it
\* was read in a row.
Gapless ==
  /\ ~LSR_OE /\ Len(fifo) <= SentBytes
  /\ \A k \in 1..Len(fifo) : fifo[k].f = LastFrame /\ fifo[k].i = ReadBytes + k - 1
  /\ LastFrame > 0 /\ ReadBytes > 0 => Len(run) = ReadBytes /\ run[1].f = LastFrame

\* When uart_receive_int comes to place k of the FIFO, prev is 0xAA.
AaBefore(k) ==
  \/ \E j \in 1..k - 1 : fifo[j].v = "AA" /\ \A m \in j + 1..k - 1 : fifo[m].v = "55"
  \/ prev = "AA" /\ \A m \in 1..k - 1 : fifo[m].v = "55"

\* The data have no header: neither what was read of them, nor what is in the FIFO, nor
\* will the device's next byte make one.
NoHeaderInData ==
  /\ LastFrame > 0 /\ ReadBytes > 1 => LastHeader(run, 2)
  /\ \A k \in 1..Len(fifo) : fifo[k].i > 1 /\ fifo[k].v = "55" => ~AaBefore(k)
  /\ devi > 0 /\ AaBefore(Len(fifo) + 1) => devprev = "AA"

\* From the first byte of a frame to the last one the client waits, the interrupt is
\* enabled and the EMAC has no packet.
ClientWaits ==
  ReadBytes < GS_PACK_LEN =>
    LastFrame > 0 /\ irq /\ xSemaphore = 0 /\ cpc \in {"take", "enable"} /\ ~queued

\* Between frames and before the header is complete uart_receive_int stores nothing.
NotStoring == ReadBytes \in {0, 1, GS_PACK_LEN} => ~frame_flag

\* A packet as FramesWhole allows it.
Intact(pkt) == pkt[2].f > 0 => Whole(pkt)

\* A header is in the buffer from the moment it was read, and a frame that was read to
\* its end is there until the next one begins.
HeaderStored ==
  /\ ReadBytes \in 2..GS_PACK_LEN - 1 => buffer[0].v = "AA" /\ buffer[1].v = "55"
  /\ ReadBytes = GS_PACK_LEN => Intact(buffer)

\* The inductive invariant of a calm environment.  FramesWhole speaks of the wire, which
\* is a copy of the buffer taken long after the frame was complete: what keeps the two
\* apart is that the device, the FIFO, the semaphore, the client and the EMAC are never
\* at work on two frames at once.
CalmParts == /\ Gapless /\ NoHeaderInData
             /\ ClientWaits /\ NotStoring /\ HeaderStored /\ Intact(wire)
CalmInv == calm => CalmParts

\* The ranges of the three numbers.
Ranges ==
  TypeOK => /\ LastFrame \in 0..MaxFrames + 1 /\ SentBytes \in 1..GS_PACK_LEN
            /\ Len(fifo) \in Nat /\ ReadBytes \in Int /\ ReadBytes <= SentBytes
            /\ GS_PACK_LEN \in Nat /\ GS_PACK_LEN = 2 + GS_DATA_LEN /\ GS_PACK_LEN > 2
            /\ 0 \in Places /\ 1 \in Places /\ 2 \in Places

LEMMA InRanges == Ranges
<1> SUFFICES ASSUME TypeOK
             PROVE  /\ LastFrame \in 0..MaxFrames + 1 /\ SentBytes \in 1..GS_PACK_LEN
                    /\ Len(fifo) \in Nat /\ ReadBytes \in Int /\ ReadBytes <= SentBytes
                    /\ GS_PACK_LEN \in Nat /\ GS_PACK_LEN = 2 + GS_DATA_LEN /\ GS_PACK_LEN > 2
                    /\ 0 \in Places /\ 1 \in Places /\ 2 \in Places
  BY DEF Ranges
<1>1. GS_PACK_LEN \in Nat /\ GS_PACK_LEN = 2 + GS_DATA_LEN /\ GS_PACK_LEN > 2
  BY GsAssumption DEF GS_PACK_LEN
<1>2. devf \in 1..MaxFrames + 1 /\ devi \in 0..GS_PACK_LEN - 1 /\ Len(fifo) \in Nat
  BY DEF TypeOK, Places
<1>3. LastFrame \in 0..MaxFrames + 1 /\ SentBytes \in 1..GS_PACK_LEN
  BY <1>1, <1>2, GsAssumption DEF LastFrame, SentBytes
<1> QED
  BY <1>1, <1>2, <1>3 DEF ReadBytes, Places

\* What a byte that the device sends is to those after it.
LEMMA AaSent ==
  ASSUME NEW n \in Nat, n = Len(fifo), Len(fifo') = n + 1, UNCHANGED prev,
         \A k \in 1..n : fifo'[k] = fifo[k]
  PROVE  /\ \A k \in 1..n + 1 : AaBefore(k)' <=> AaBefore(k)
         /\ AaBefore(n + 2)' => IF fifo'[n + 1].v = "55" THEN AaBefore(n + 1)
                               ELSE fifo'[n + 1].v = "AA"
<1>1. \A k \in 1..n + 1 : AaBefore(k)' <=> AaBefore(k)
  BY DEF AaBefore
<1>2. ASSUME AaBefore(n + 2)', fifo'[n + 1].v = "55" PROVE AaBefore(n + 1)
  <2>1. CASE prev' = "AA" /\ \A m \in 1..n + 2 - 1 : fifo'[m].v = "55"
    BY <2>1 DEF AaBefore
  <2>2. ASSUME NEW j \in 1..n + 2 - 1, fifo'[j].v = "AA",
               \A m \in j + 1..n + 2 - 1 : fifo'[m].v = "55"
        PROVE  AaBefore(n + 1)
    <3>1. j # n + 1
      BY <1>2, <2>2
    <3> QED  BY <2>2, <3>1 DEF AaBefore
  <2> QED  BY <1>2, <2>1, <2>2 DEF AaBefore
<1>3. ASSUME AaBefore(n + 2)', fifo'[n + 1].v # "55" PROVE fifo'[n + 1].v = "AA"
  BY <1>3 DEF AaBefore
<1> QED  BY <1>1, <1>2, <1>3

\* Reading a byte changes nothing for those after it.
LEMMA AaRead ==
  ASSUME NEW n \in Nat, n + 1 = Len(fifo), Len(fifo') = n,
         \A k \in 1..n : fifo'[k] = fifo[k + 1],
         prev' = IF fifo[1].v = "55" THEN prev ELSE fifo[1].v
  PROVE  \A k \in 1..n + 1 : AaBefore(k)' => AaBefore(k + 1)
<1> SUFFICES ASSUME NEW k \in 1..n + 1, AaBefore(k)' PROVE AaBefore(k + 1)
  OBVIOUS
<1>1. ASSUME NEW j \in 1..k - 1, fifo'[j].v = "AA", \A m \in j + 1..k - 1 : fifo'[m].v = "55"
      PROVE  AaBefore(k + 1)
  <2>1. j + 1 \in 1..k + 1 - 1 /\ fifo[j + 1].v = "AA"
    BY <1>1
  <2>2. ASSUME NEW m \in j + 1 + 1..k + 1 - 1 PROVE fifo[m].v = "55"
    <3>1. m - 1 \in j + 1..k - 1 /\ m - 1 \in 1..n /\ m - 1 + 1 = m
      OBVIOUS
    <3> QED  BY <1>1, <3>1
  <2> QED  BY <2>1, <2>2 DEF AaBefore
<1>2. ASSUME prev' = "AA", \A m \in 1..k - 1 : fifo'[m].v = "55" PROVE AaBefore(k + 1)
  <2>1. ASSUME NEW m \in 2..k PROVE fifo[m].v = "55"
    <3>1. m - 1 \in 1..k - 1 /\ m - 1 \in 1..n /\ m - 1 + 1 = m
      OBVIOUS
    <3> QED  BY <1>2, <3>1
  <2>2. k + 1 - 1 = k /\ \A m \in 1..k : m = 1 \/ m \in 2..k
    OBVIOUS
  <2>3. CASE fifo[1].v = "55"
    BY <1>2, <2>1, <2>2, <2>3 DEF AaBefore
  <2>4. CASE fifo[1].v # "55"
    <3>1. fifo[1].v = "AA" /\ 1 \in 1..k
      BY <1>2, <2>4
    <3> QED  BY <2>1, <2>2, <3>1 DEF AaBefore
  <2> QED  BY <2>3, <2>4
<1> QED  BY <1>1, <1>2 DEF AaBefore

\* A byte of the device: the first of a frame comes when the last frame has gone, and
\* the others find room in the FIFO.
LEMMA CalmDev ==
  ASSUME IInv, CalmInv, NEW v \in {"AA", "55", "dd"}, DevSend(v)
  PROVE  CalmInv'
<1> SUFFICES ASSUME calm PROVE CalmParts'
  BY DEF CalmInv, DevSend
<1> USE GsAssumption
<1> DEFINE b == [v |-> v, f |-> devf, i |-> devi]
<1>1. /\ fifo \in Seq(Bytes) /\ devi \in 0..GS_PACK_LEN - 1 /\ devf \in 1..MaxFrames
      /\ Len(fifo) \in Nat /\ GS_PACK_LEN \in Nat /\ GS_PACK_LEN > 2 /\ b \in Bytes
  BY InRanges DEF IInv, TypeOK, DevSend, Ranges, Places, Bytes
<1>2. Gapless /\ NoHeaderInData /\ ClientWaits /\ NotStoring /\ HeaderStored /\ Intact(wire)
  BY DEF CalmInv, CalmParts
<1>3. devi = 0 => Idle
  BY DEF DevSend
<1>4. devi > 0 => ReadBytes < GS_PACK_LEN /\ LastFrame = devf /\ ReadBytes = devi - Len(fifo)
  BY <1>1 DEF ReadBytes, SentBytes, LastFrame
<1>5. Len(fifo) < FifoSize
  <2>1. CASE devi = 0
    BY <1>3, <2>1 DEF Idle
  <2>2. CASE devi > 0
    BY <1>2, <1>4, <2>2 DEF ClientWaits, DevSend
  <2> QED
    BY <1>1, <2>1, <2>2
<1>6. /\ fifo' = Append(fifo, b)
      /\ UNCHANGED <<LSR_OE, irq, xSemaphore, cpc, queued, wire, buffer, frame_flag, run, prev>>
  BY <1>5 DEF DevSend, isrVars
<1>7. /\ Len(fifo') = Len(fifo) + 1 /\ fifo'[Len(fifo) + 1] = b
      /\ \A k \in 1..Len(fifo) : fifo'[k] = fifo[k]
  <2> HIDE DEF b
  <2> QED
    BY <1>1, <1>6, AppendFacts
<1>8. LastFrame' = devf /\ SentBytes' = devi + 1
  BY <1>1 DEF DevSend, LastFrame, SentBytes
<1>9. ReadBytes' = devi - Len(fifo)
  BY <1>1, <1>7, <1>8 DEF ReadBytes
<1>10. b.f = devf /\ b.i = devi /\ b.v = v
  OBVIOUS
<1> HIDE DEF b
<1>n. PICK n \in Nat : n = Len(fifo)
  BY <1>1
<1>13. /\ \A k \in 1..n + 1 : fifo'[k].i > 1 /\ fifo'[k].v = "55" => ~AaBefore(k)'
       /\ AaBefore(n + 2)' => devprev' = "AA"
  <2>1. /\ \A k \in 1..n + 1 : AaBefore(k)' <=> AaBefore(k)
        /\ AaBefore(n + 2)' => IF b.v = "55" THEN AaBefore(n + 1) ELSE b.v = "AA"
    BY <1>1, <1>6, <1>7, <1>n, AaSent
  <2>2. /\ devi > 1 => ~(v = "55" /\ devprev = "AA")
        /\ devprev' = IF v = "55" THEN devprev ELSE v
        /\ devi = 0 => v = "AA"
    BY DEF DevSend
  <2>3. /\ \A k \in 1..n : fifo[k].i > 1 /\ fifo[k].v = "55" => ~AaBefore(k)
        /\ devi > 0 /\ AaBefore(n + 1) => devprev = "AA"
    BY <1>2, <1>n DEF NoHeaderInData
  <2>4. ASSUME NEW k \in 1..n + 1, fifo'[k].i > 1, fifo'[k].v = "55"
        PROVE  ~AaBefore(k)'
    <3>1. CASE k \in 1..n
      BY <1>7, <1>n, <2>1, <2>3, <2>4, <3>1
    <3>2. CASE k = n + 1
      <4>1. fifo'[k] = b /\ devi > 1 /\ v = "55"
        BY <1>7, <1>10, <1>n, <2>4, <3>2
      <4>2. ~AaBefore(n + 1)
        BY <1>1, <2>2, <2>3, <4>1
      <4> QED  BY <2>1, <3>2, <4>2
    <3> QED  BY <3>1, <3>2
  <2>5. ASSUME AaBefore(n + 2)' PROVE devprev' = "AA"
    <3>1. CASE v = "55"
      <4>1. AaBefore(n + 1) /\ devi > 0
        BY <1>1, <1>10, <2>1, <2>2, <2>5, <3>1
      <4> QED  BY <2>2, <2>3, <3>1, <4>1
    <3>2. CASE v # "55"
      BY <1>10, <2>1, <2>2, <2>5, <3>2
    <3> QED  BY <3>1, <3>2
  <2> QED  BY <2>4, <2>5
<1>14. (LastFrame' > 0 /\ ReadBytes' > 1 => LastHeader(run', 2)) => NoHeaderInData'
  <2> SUFFICES ASSUME AaBefore(Len(fifo) + 1)' PROVE AaBefore(n + 2)'
    <3>1. Len(fifo') = n + 1
      BY <1>7, <1>n
    <3> QED  BY <1>13, <3>1 DEF NoHeaderInData
  <2>1. Len(fifo') + 1 = n + 2
    BY <1>7, <1>n
  <2> QED  BY <2>1 DEF AaBefore
<1>11. CASE devi = 0
  <2>1. Len(fifo) = 0 /\ ReadBytes' = 0 /\ ReadBytes = GS_PACK_LEN
    BY <1>1, <1>3, <1>9, <1>11 DEF Idle, ReadBytes, SentBytes
  <2>2. ~frame_flag
    BY <1>2, <2>1 DEF NotStoring
  <2>3. Gapless' /\ NoHeaderInData'
    BY <1>1, <1>2, <1>6, <1>7, <1>8, <1>10, <1>11, <1>14, <2>1 DEF Gapless
  <2>4. ClientWaits'
    BY <1>1, <1>3, <1>6, <1>8, <1>11 DEF Idle, ClientWaits
  <2>5. NotStoring' /\ HeaderStored' /\ Intact(wire)'
    BY <1>1, <1>2, <1>6, <2>1, <2>2 DEF NotStoring, HeaderStored, Intact, Whole
  <2> QED
    BY <2>3, <2>4, <2>5 DEF CalmParts
<1>12. CASE devi > 0
  <2>1. ReadBytes' = ReadBytes /\ LastFrame' = LastFrame /\ ReadBytes = devi - Len(fifo)
    BY <1>4, <1>8, <1>9, <1>12
  <2>2. Gapless'
    <3>1. \A k \in 1..Len(fifo) : fifo[k].f = LastFrame /\ fifo[k].i = ReadBytes + k - 1
      BY <1>2 DEF Gapless
    <3>2. \A k \in 1..Len(fifo') : fifo'[k].f = LastFrame' /\ fifo'[k].i = ReadBytes' + k - 1
      <4> SUFFICES ASSUME NEW k \in 1..Len(fifo')
                   PROVE  fifo'[k].f = LastFrame' /\ fifo'[k].i = ReadBytes' + k - 1
        OBVIOUS
      <4>1. CASE k \in 1..Len(fifo)
        BY <1>7, <2>1, <3>1, <4>1
      <4>2. CASE k = Len(fifo) + 1
        <5>1. fifo'[k] = b /\ LastFrame = devf /\ devi = ReadBytes + k - 1
          BY <1>1, <1>4, <1>7, <1>12, <2>1, <4>2
        <5> QED
          BY <1>10, <2>1, <5>1
      <4> QED
        BY <1>1, <1>7, <4>1, <4>2
    <3>3. ~LSR_OE' /\ Len(fifo') <= SentBytes'
      BY <1>1, <1>2, <1>6, <1>7, <1>8, <1>12 DEF Gapless, SentBytes
    <3>4. LastFrame' > 0 /\ ReadBytes' > 0 => Len(run') = ReadBytes' /\ run'[1].f = LastFrame'
      BY <1>2, <1>6, <2>1 DEF Gapless
    <3> QED
      BY <3>2, <3>3, <3>4 DEF Gapless
  <2>4. NoHeaderInData'
    BY <1>2, <1>6, <1>14, <2>1 DEF NoHeaderInData
  <2>3. ClientWaits' /\ NotStoring' /\ HeaderStored' /\ Intact(wire)'
    BY <1>2, <1>6, <2>1 DEF ClientWaits, NotStoring, HeaderStored, Intact, Whole
  <2> QED
    BY <2>2, <2>3, <2>4 DEF CalmParts
<1> QED
  BY <1>1, <1>11, <1>12

\* A byte that uart_receive_int reads is the next one of the frame.
LEMMA CalmIsr ==
  ASSUME IInv, IInv', CalmInv, uart_receive_int
  PROVE  CalmInv'
<1> SUFFICES ASSUME calm PROVE CalmParts'
  BY DEF CalmInv, uart_receive_int, devVars
<1> USE GsAssumption
<1> DEFINE b == Head(fifo)
           R == ReadBytes
           F == LastFrame
<1>1. /\ fifo \in Seq(Bytes) /\ fifo # <<>> /\ Len(fifo) \in Nat /\ R \in Int /\ F \in Int
      /\ GS_PACK_LEN \in Nat /\ GS_PACK_LEN = 2 + GS_DATA_LEN /\ GS_PACK_LEN > 2
      /\ SentBytes \in 1..GS_PACK_LEN /\ R = SentBytes - Len(fifo)
      /\ {0, 1, 2} \subseteq Places /\ buffer \in [Places -> Bytes]
  BY InRanges DEF IInv, TypeOK, uart_receive_int, Ranges, ReadBytes
<1>2. Gapless /\ NoHeaderInData /\ ClientWaits /\ NotStoring /\ HeaderStored /\ Intact(wire)
  BY DEF CalmInv, CalmParts
<1>3. /\ b \in Bytes /\ b = fifo[1] /\ Len(fifo') = Len(fifo) - 1 /\ Len(fifo) >= 1
      /\ \A k \in 1..Len(fifo') : fifo'[k] = fifo[k + 1]
  BY <1>1, TailFacts DEF uart_receive_int
<1>4. /\ UNCHANGED <<calm, devf, devi, LSR_OE, irq, cpc, queued, wire>>
      /\ devprev' = devprev /\ prev' = IF b.v = "55" THEN prev ELSE b.v
  BY DEF uart_receive_int, devVars
<1>5. LastFrame' = F /\ SentBytes' = SentBytes /\ ReadBytes' = R + 1
  BY <1>1, <1>3, <1>4 DEF LastFrame, SentBytes, ReadBytes
<1>6. b.f = F /\ b.i = R /\ R \in 0..GS_PACK_LEN - 1
  BY <1>1, <1>2, <1>3 DEF Gapless
<1>7. F > 0 /\ irq /\ xSemaphore = 0 /\ cpc \in {"take", "enable"} /\ ~queued
  BY <1>1, <1>2, <1>6 DEF ClientWaits
<1>e. R > 0 => Len(run) = R /\ run[1].f = F /\ run # <<>> /\ run \in Seq(Bytes)
  BY <1>1, <1>2, <1>7 DEF Gapless, IInv, TypeOK
<1>r. /\ run' = IF R = 0 THEN <<b>> ELSE Append(run, b)
      /\ Len(run') = R + 1 /\ run'[1].f = F
  <2>0. run' = RunWith(b)
    BY DEF uart_receive_int
  <2>1. CASE R = 0
    BY <1>6, <2>0, <2>1 DEF RunWith
  <2>2. CASE R > 0
    <3>1. run' = Append(run, b)
      BY <1>6, <1>e, <2>0, <2>2 DEF RunWith
    <3> HIDE DEF b, R, F
    <3>2. Len(run') = Len(run) + 1 /\ run'[1] = run[1]
      BY <1>3, <1>6, <1>e, <2>2, <3>1, AppendFacts
    <3> QED  BY <1>6, <1>e, <2>2, <3>1, <3>2
  <2> QED  BY <1>6, <2>1, <2>2
<1>8. /\ R = 0 => b.v = "AA"
      /\ R = 1 => b.v = "55" /\ prev = "AA"
      /\ R > 1 => ~(b.v = "55" /\ prev = "AA") /\ frame_flag /\ gs_data = R - 2
  <2>1. 1 \in 1..Len(fifo)
    BY <1>1, <1>3
  <2>2. R = 1 => prev = "AA"
    <3> SUFFICES ASSUME R = 1 PROVE prev = "AA"
      OBVIOUS
    <3>1. run # <<>> /\ Len(run) = 1
      BY <1>e
    <3>2. PICK k \in 1..Len(run) : run[k].v = prev
      BY <3>1 DEF IInv, RunInv
    <3> QED  BY <3>1, <3>2 DEF IInv, RunInv
  <2>3. R > 1 => frame_flag /\ gs_data = R - 2
    <3> SUFFICES ASSUME R > 1 PROVE frame_flag /\ gs_data = R - 2
      OBVIOUS
    <3>1. Len(run) = R /\ 2 \in 1..Len(run) /\ Len(run) - 2 < GS_DATA_LEN
      BY <1>1, <1>6, <1>e
    <3>2. LastHeader(run, 2)
      BY <1>2, <1>7 DEF NoHeaderInData
    <3> QED
      BY <3>1, <3>2 DEF IInv, InStep
  <2>4. R > 1 => ~(b.v = "55" /\ prev = "AA")
    <3>1. fifo[1].i > 1 /\ fifo[1].v = "55" => ~AaBefore(1)
      BY <1>2, <2>1 DEF NoHeaderInData
    <3>2. prev = "AA" => AaBefore(1)
      BY DEF AaBefore
    <3> QED  BY <1>3, <1>6, <3>1, <3>2
  <2> QED
    <3>1. /\ b.i = 0 => b.v = "AA"
          /\ b.i = 1 => b.v = "55"
      BY <1>3, <2>1 DEF IInv, FifoInv
    <3> HIDE DEF b, R, F
    <3> QED
      BY <1>6, <2>2, <2>3, <2>4, <3>1
<1>9. Gapless'
  <2>2. \A k \in 1..Len(fifo') : fifo'[k].f = F /\ fifo'[k].i = R + 1 + k - 1
    <3> SUFFICES ASSUME NEW k \in 1..Len(fifo')
                 PROVE  fifo'[k].f = F /\ fifo'[k].i = R + 1 + k - 1
      OBVIOUS
    <3>1. k + 1 \in 1..Len(fifo) /\ fifo'[k] = fifo[k + 1]
      BY <1>1, <1>3
    <3>2. fifo[k + 1].f = F /\ fifo[k + 1].i = R + (k + 1) - 1
      BY <1>2, <3>1 DEF Gapless
    <3> QED
      BY <1>1, <3>1, <3>2
  <2>3. ~LSR_OE' /\ Len(fifo') <= SentBytes'
    BY <1>1, <1>2, <1>3, <1>4, <1>5 DEF Gapless
  <2> QED
    BY <1>5, <1>r, <2>2, <2>3 DEF Gapless
<1>n. NoHeaderInData'
  <2>1. PICK n \in Nat : n = Len(fifo') /\ n + 1 = Len(fifo)
    BY <1>1, <1>3
  <2>2. \A k \in 1..n + 1 : AaBefore(k)' => AaBefore(k + 1)
    <3>1. prev' = IF fifo[1].v = "55" THEN prev ELSE fifo[1].v
      BY <1>3, <1>4
    <3>2. \A k \in 1..n : fifo'[k] = fifo[k + 1]
      BY <1>3, <2>1
    <3> QED  BY <2>1, <3>1, <3>2, AaRead
  <2>3. ASSUME NEW k \in 1..n, fifo'[k].i > 1, fifo'[k].v = "55" PROVE ~AaBefore(k)'
    <3>1. k + 1 \in 1..Len(fifo) /\ fifo'[k] = fifo[k + 1] /\ k \in 1..n + 1
      BY <1>3, <2>1
    <3>2. ~AaBefore(k + 1)
      BY <1>2, <2>3, <3>1 DEF NoHeaderInData
    <3> QED  BY <2>2, <3>1, <3>2
  <2>4. ASSUME devi' > 0, AaBefore(Len(fifo) + 1)' PROVE devprev' = "AA"
    <3>1. AaBefore(n + 1)'
      BY <2>1, <2>4 DEF AaBefore
    <3>2. AaBefore(n + 1 + 1) /\ n + 1 + 1 = Len(fifo) + 1
      BY <2>1, <2>2, <3>1
    <3>3. AaBefore(Len(fifo) + 1)
      BY <3>2
    <3> QED  BY <1>2, <1>4, <2>4, <3>3 DEF NoHeaderInData
  <2>5. ReadBytes' > 1 => LastHeader(run', 2)
    <3> SUFFICES ASSUME R > 0 PROVE LastHeader(run', 2)
      BY <1>1, <1>5
    <3>1. PICK k \in 1..Len(run) : run[k].v = prev /\ Only55After(run, k)
      BY <1>e DEF IInv, RunInv
    <3>2. run[k].v # "55"
      BY <3>1 DEF IInv, TypeOK
    <3>3. run' = Append(run, b) /\ run \in Seq(Bytes) /\ Len(run) = R
      BY <1>e, <1>r
    <3>4. 2 \in 1..Len(run) + 1
      BY <1>1, <3>3
    <3>5. R > 1 => LastHeader(run, 2)
      BY <1>2, <1>7 DEF NoHeaderInData
    <3> HIDE DEF b, R, F
    <3>6. LastHeader(run', 2) <=> IF b.v = "55" /\ prev = "AA" THEN 2 = Len(run) + 1
                                 ELSE 2 \in 1..Len(run) /\ LastHeader(run, 2)
      BY <1>3, <3>1, <3>2, <3>3, <3>4, AppendLastHeader
    <3> QED  BY <1>1, <1>6, <1>8, <3>3, <3>5, <3>6
  <2> QED  BY <2>1, <2>3, <2>4, <2>5 DEF NoHeaderInData
<1>10. Intact(wire)'
  BY <1>2, <1>4 DEF Intact, Whole
<1> HIDE DEF b, R, F
<1>11. CASE R = 0
  <2>1. UNCHANGED <<buffer, frame_flag, xSemaphore>>
    BY <1>2, <1>8, <1>11 DEF uart_receive_int, NotStoring, b, R
  <2>2. ReadBytes' = 1 /\ ~frame_flag
    BY <1>1, <1>2, <1>5, <1>11 DEF NotStoring, R
  <2> QED
    BY <1>1, <1>4, <1>5, <1>7, <1>9, <1>10, <1>n, <2>1, <2>2 DEF CalmParts, ClientWaits, NotStoring, HeaderStored
<1>12. CASE R = 1
  <2> DEFINE c == [b EXCEPT !.v = prev, !.i = 0]
  <2>1. /\ buffer' = [buffer EXCEPT ![0] = c, ![1] = b] /\ UNCHANGED xSemaphore
    BY <1>8, <1>12 DEF uart_receive_int, b
  <2>2. c.v = "AA" /\ b.v = "55"
    BY <1>3, <1>8, <1>12 DEF Bytes
  <2> HIDE DEF c
  <2>3. buffer'[0] = c /\ buffer'[1] = b
    BY <1>1, <2>1
  <2>4. ReadBytes' = 2
    BY <1>5, <1>12
  <2> QED
    BY <1>1, <1>4, <1>5, <1>7, <1>9, <1>10, <1>n, <2>1, <2>2, <2>3, <2>4
       DEF CalmParts, ClientWaits, NotStoring, HeaderStored
<1>13. CASE R > 1
  <2>1. /\ buffer' = [buffer EXCEPT ![2 + gs_data] = b] /\ 2 + gs_data = R /\ gs_data + 1 = R - 1
        /\ frame_flag' = ~(gs_data + 1 >= GS_DATA_LEN)
        /\ xSemaphore' = IF gs_data + 1 >= GS_DATA_LEN THEN 1 ELSE xSemaphore
    BY <1>1, <1>8, <1>13 DEF uart_receive_int, FrameDone, Given, b
  <2>2. buffer' = [buffer EXCEPT ![R] = b]
    BY <2>1
  <2>3. buffer'[0].v = "AA" /\ buffer'[1].v = "55"
    <3>1. buffer'[0] = buffer[0] /\ buffer'[1] = buffer[1]
      BY <1>1, <1>13, <2>2
    <3>2. R \in 2..GS_PACK_LEN - 1
      BY <1>6, <1>13
    <3> QED
      BY <1>2, <3>1, <3>2 DEF HeaderStored, R
  <2>4. CASE R + 1 < GS_PACK_LEN
    <3>1. xSemaphore' = xSemaphore
      BY <1>1, <1>6, <2>1, <2>4
    <3> QED
      BY <1>1, <1>4, <1>5, <1>6, <1>7, <1>9, <1>10, <1>13, <1>n, <2>3, <2>4, <3>1
         DEF CalmParts, ClientWaits, NotStoring, HeaderStored
  <2>5. CASE R + 1 = GS_PACK_LEN
    <3>1. frame_flag' = FALSE
      <4>1. gs_data + 1 >= GS_DATA_LEN
        BY <1>1, <2>1, <2>5
      <4> QED  BY <2>1, <4>1
    <3>2. Len(run') = GS_PACK_LEN /\ LastHeader(run', 2) /\ 2 \in 1..Len(run')
      BY <1>1, <1>5, <1>7, <1>13, <1>n, <1>r, <2>5 DEF NoHeaderInData, F
    <3>3. \A j \in 2..GS_PACK_LEN : buffer'[1 + j - 2] = run'[j]
      BY <3>2 DEF IInv, InStep
    <3>4. \A j \in 1..GS_PACK_LEN : run'[j].f = F /\ run'[j].i = j - 1
      <4>1. run' # <<>> /\ run'[1].f = F
        BY <1>1, <1>r, <3>2
      <4> QED  BY <3>2, <4>1 DEF IInv, RunInv
    <3>5. \A i \in Places \ {0, 1} : buffer'[i].f = F /\ buffer'[i].i = i
      <4> SUFFICES ASSUME NEW i \in Places \ {0, 1} PROVE buffer'[i].f = F /\ buffer'[i].i = i
        OBVIOUS
      <4>1. i + 1 \in 2..GS_PACK_LEN /\ i + 1 \in 1..GS_PACK_LEN /\ 1 + (i + 1) - 2 = i
            /\ (i + 1) - 1 = i
        BY <1>1 DEF Places
      <4> QED  BY <3>3, <3>4, <4>1
    <3>6. Whole(buffer)'
      BY <1>1, <2>3, <3>5 DEF Whole, Places
    <3> QED
      BY <1>1, <1>5, <1>9, <1>10, <1>n, <2>5, <3>1, <3>6
         DEF CalmParts, ClientWaits, NotStoring, HeaderStored, Intact
  <2> QED
    BY <1>1, <1>6, <2>4, <2>5
<1> QED
  BY <1>6, <1>11, <1>12, <1>13 DEF R

\* The client leaves its wait, and the EMAC has a packet, only when the frame was read
\* to its end: what the EMAC then reads is that frame.
LEMMA CalmOthers ==
  ASSUME IInv, CalmInv, LineStatus \/ vUDPClient \/ EmacSend
  PROVE  CalmInv'
<1> SUFFICES ASSUME calm' PROVE CalmParts'
  BY DEF CalmInv
<1>1. UNCHANGED <<devVars, fifo, isrVars>>
  BY DEF LineStatus, vUDPClient, EmacSend, ClientEnable, ClientTake, ClientTimeout,
         ClientDisable, ClientConnect, ClientSend
<1>2. Gapless /\ NoHeaderInData /\ ClientWaits /\ NotStoring /\ HeaderStored /\ Intact(wire)
  BY <1>1 DEF CalmInv, CalmParts, devVars
<1>3. /\ UNCHANGED <<LastFrame, SentBytes, ReadBytes, buffer, frame_flag, run, fifo>>
      /\ UNCHANGED <<devi, devprev, prev>>
  BY <1>1 DEF devVars, isrVars, LastFrame, SentBytes, ReadBytes
<1>4. NotStoring' /\ HeaderStored' /\ NoHeaderInData'
  <2>1. NotStoring' /\ HeaderStored'
    BY <1>2, <1>3 DEF NotStoring, HeaderStored, Intact, Whole
  <2>2. NoHeaderInData'
    BY <1>2, <1>3 DEF NoHeaderInData, AaBefore
  <2> QED  BY <2>1, <2>2
<1>5. CASE LineStatus
  BY <1>2, <1>5 DEF LineStatus, Gapless
<1>6. CASE vUDPClient
  <2>1. LSR_OE' = LSR_OE /\ wire' = wire
    BY <1>6 DEF vUDPClient, ClientEnable, ClientTake, ClientTimeout, ClientDisable,
                ClientConnect, ClientSend
  <2>2. Gapless' /\ Intact(wire)'
    BY <1>2, <1>3, <2>1 DEF Gapless, Intact, Whole
  <2>3. ASSUME ReadBytes < GS_PACK_LEN
        PROVE  irq' /\ xSemaphore' = 0 /\ cpc' \in {"take", "enable"} /\ ~queued'
    <3>1. irq /\ xSemaphore = 0 /\ cpc \in {"take", "enable"} /\ ~queued
      BY <1>2, <2>3 DEF ClientWaits
    <3>2. ClientEnable \/ ClientTimeout
      <4>1. cpc \notin {"disable", "connect", "send"} /\ xSemaphore # 1
        BY <3>1
      <4> QED
        BY <1>6, <4>1 DEF vUDPClient, ClientEnable, ClientTake, ClientTimeout, ClientDisable,
                          ClientConnect, ClientSend
    <3> QED
      <4>1. /\ irq' = TRUE \/ irq' = irq
            /\ xSemaphore' = xSemaphore /\ queued' = queued /\ (cpc' = "take" \/ cpc' = "enable")
        BY <3>2, Zenon DEF ClientEnable, ClientTimeout
      <4>2. irq'
        BY <3>1, <4>1, Zenon
      <4> QED
        BY <3>1, <4>1, <4>2
  <2>4. ClientWaits'
    BY <1>2, <1>3, <2>3 DEF ClientWaits
  <2> QED
    BY <1>4, <2>2, <2>4 DEF CalmParts
<1>7. CASE EmacSend
  <2>1. ReadBytes = GS_PACK_LEN
    <3>1. ReadBytes \in Int /\ SentBytes \in 1..GS_PACK_LEN /\ ReadBytes <= SentBytes
          /\ GS_PACK_LEN \in Nat
      BY InRanges DEF Ranges, IInv
    <3>2. ~(ReadBytes < GS_PACK_LEN)
      BY <1>2, <1>7 DEF ClientWaits, EmacSend
    <3> QED
      BY <3>1, <3>2
  <2>2. Intact(wire)'
    BY <1>2, <1>7, <2>1 DEF EmacSend, HeaderStored, Intact, Whole
  <2>3. Gapless' /\ ClientWaits'
    BY <1>2, <1>3, <1>7, <2>1 DEF EmacSend, Gapless, ClientWaits
  <2> QED
    BY <1>4, <2>2, <2>3 DEF CalmParts
<1> QED
  BY <1>5, <1>6, <1>7

LEMMA CalmAtStart == Init => CalmInv
<1> SUFFICES ASSUME Init PROVE CalmInv
  OBVIOUS
<1>1. GS_PACK_LEN \in Nat /\ GS_PACK_LEN > 2 /\ 2 \in Places
  BY GsAssumption DEF GS_PACK_LEN, Places
<1>2. LastFrame = 0 /\ SentBytes = GS_PACK_LEN /\ Len(fifo) = 0 /\ ReadBytes = GS_PACK_LEN
  BY <1>1 DEF Init, LastFrame, SentBytes, ReadBytes
<1>3. buffer[2].f = 0 /\ wire[2].f = 0
  BY <1>1 DEF Init, Zero
<1> QED
  BY <1>1, <1>2, <1>3 DEF Init, CalmInv, CalmParts, Gapless, NoHeaderInData, ClientWaits,
                          NotStoring, HeaderStored, Intact

\* In a calm environment (a gap after each frame, no header in the data, no byte lost)
\* every packet on the wire is one whole frame of the device, for every frame length,
\* FIFO size and number of frames: the gap the device leaves is all that the semaphore,
\* the disabled interrupt and the EMAC's late read of the buffer need.
THEOREM FramesStayWhole == Spec => []FramesWhole
<1>1. IInv /\ IInv' /\ CalmInv /\ [Next]_vars => CalmInv'
  <2> SUFFICES ASSUME IInv, IInv', CalmInv, [Next]_vars PROVE CalmInv'
    OBVIOUS
  <2>1. CASE DevStep
    BY <2>1, CalmDev DEF DevStep
  <2>2. CASE IsrStep
    BY <2>2, CalmIsr, CalmOthers DEF IsrStep
  <2>3. CASE vUDPClient \/ EmacSend
    BY <2>3, CalmOthers
  <2>4. CASE UNCHANGED vars
    <3>1. /\ UNCHANGED <<calm, LSR_OE, fifo, run, irq, xSemaphore, cpc, queued, frame_flag, buffer,
                         wire, LastFrame, SentBytes, ReadBytes>>
          /\ UNCHANGED <<devi, devprev, prev>>
      BY <2>4 DEF vars, devVars, isrVars, LastFrame, SentBytes, ReadBytes
    <3>2. CalmParts => CalmParts'
      BY <3>1 DEF CalmParts, Gapless, NoHeaderInData, AaBefore, ClientWaits, NotStoring,
                  HeaderStored, Intact, Whole
    <3> QED
      BY <3>1, <3>2 DEF CalmInv
  <2> QED
    BY <2>1, <2>2, <2>3, <2>4 DEF Next
<1>2. CalmInv => FramesWhole
  BY DEF CalmInv, CalmParts, Intact, FramesWhole
<1> QED
  BY <1>1, <1>2, CalmAtStart, Inductive, PTL DEF Spec

=============================================================================
