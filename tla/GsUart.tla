------------------------------- MODULE GsUart -------------------------------
(***************************************************************************)
(* The serial to UDP bridge: uart_receive_int and UART0_IRQHandler          *)
(* (app/src/uart.c) find frames in the byte stream of UART0 and store them  *)
(* in net_gs_data.buffer; vUDPClient (app/src/net.c) waits for a frame and  *)
(* sends the buffer to a server.  The two share the buffer, the semaphore   *)
(* xSemaphore and the interrupt enable bit of UART0.                        *)
(*                                                                         *)
(* A frame is 0xAA 0x55 and GS_DATA_LEN bytes of data.  A byte is its value *)
(* (one of the two header values or another one, "dd") with the number of   *)
(* its frame and its place there, which the code cannot see.  The data may  *)
(* be any bytes, the values of the header among them.                      *)
(*                                                                         *)
(* send() does not copy: lwip_sendto makes a pbuf that refers to the        *)
(* caller's buffer, and the driver passes it to the EMAC, which reads the   *)
(* buffer when the packet's turn comes.                                    *)
(***************************************************************************)
EXTENDS Integers, Sequences

CONSTANTS
  GS_DATA_LEN,  \* data bytes of a frame (98 in uart.h)
  FifoSize,     \* bytes the UART holds (16)
  MaxFrames,    \* bound: frames the device sends
  Calms,        \* is the environment calm (see calm)?  subset of BOOLEAN
  CanFail       \* can connect() and send() fail?  subset of BOOLEAN

ASSUME GsAssumption == /\ GS_DATA_LEN \in 1..126 /\ FifoSize \in Nat \ {0}
                       /\ MaxFrames \in Nat /\ Calms \subseteq BOOLEAN
                       /\ FALSE \in CanFail /\ CanFail \subseteq BOOLEAN

\* In a calm environment the device waits after a frame until it was forwarded and
\* puts no header into its data, the handler, when enabled, is never FifoSize bytes
\* behind, and the network takes every packet.  Nothing in the code or its documents
\* promises any of this.  It is calm or not for a whole behaviour.
VARIABLES
  calm,                  \* is the environment calm?
  devf, devi,            \* the device: current frame, place of its next byte
  devprev,               \* the device: the last byte of the frame but for 0x55s
  fifo,                  \* the UART's receive FIFO
  LSR_OE,                \* the UART's overrun bit, which raises an RLS interrupt
  irq,                   \* is the interrupt of UART0 enabled?
  prev, frame_flag, gs_data,  \* the static variables of uart_receive_int
  buffer,                \* net_gs_data.buffer
  xSemaphore,            \* binary semaphore
  cpc,                   \* the client: location
  queued,                \* is a packet that refers to buffer with the EMAC?
  wire,                  \* the packet sent last
  run                    \* history: the bytes of one frame that were read in a row

isrVars == <<prev, frame_flag, gs_data, buffer, run>>
devVars == <<calm, devf, devi, devprev>>
vars == <<devVars, fifo, LSR_OE, irq, isrVars, xSemaphore, cpc, queued, wire>>

GS_PACK_LEN == 2 + GS_DATA_LEN
Places == 0 .. GS_PACK_LEN - 1
Bytes  == [v : {"00", "AA", "55", "dd"}, f : 0..MaxFrames, i : Places]
Zero   == [v |-> "00", f |-> 0, i |-> 0]

-----------------------------------------------------------------------------
MutNoRestart(n) == n                      \* the count goes on after a header
MutDoneEarly(n) == n >= GS_DATA_LEN - 1   \* one byte short
MutDoneLate(n) == n > GS_DATA_LEN         \* one byte too many
MutNotMasked(e) == e                      \* the interrupt stays enabled
MutNoGive(s) == s                         \* the give forgotten

\* gs_data after a header.
GsRestart(n) == 0

\* gs_data >= GS_DATA_LEN
FrameDone(n) == n >= GS_DATA_LEN

\* The enable bit after NVIC_DisableIRQ(UART0_IRQn).
NVIC_DisableIRQ(e) == FALSE

\* The binary semaphore after xSemaphoreGiveFromISR.
Given(s) == 1

-----------------------------------------------------------------------------
(* After main has created the semaphore; the tasks are about to run *)
Init ==
  /\ calm \in Calms
  /\ devf = 1 /\ devi = 0 /\ devprev = "00"
  /\ fifo = <<>> /\ LSR_OE = FALSE
  /\ irq = TRUE
  /\ prev = "00" /\ frame_flag = FALSE /\ gs_data = 0
  /\ buffer = [i \in Places |-> Zero]
  /\ xSemaphore = 0
  /\ cpc = "enable"
  /\ queued = FALSE /\ wire = buffer
  /\ run = <<>>

-----------------------------------------------------------------------------
(* The device and the UART *)

\* The last frame has been dealt with.
Idle == /\ irq /\ fifo = <<>> /\ ~LSR_OE /\ xSemaphore = 0 /\ cpc = "take" /\ ~queued

\* The next byte arrives.  A full FIFO loses it and raises the overrun bit.
DevSend(v) ==
  /\ devf <= MaxFrames
  /\ devi = 0 => v = "AA" /\ (calm => Idle)
  /\ calm /\ irq => Len(fifo) < FifoSize
  /\ devi = 1 => v = "55"
  /\ calm /\ devi > 1 => ~(v = "55" /\ devprev = "AA")
  /\ devprev' = IF v = "55" THEN devprev ELSE v
  /\ IF Len(fifo) < FifoSize
       THEN fifo' = Append(fifo, [v |-> v, f |-> devf, i |-> devi]) /\ UNCHANGED LSR_OE
       ELSE LSR_OE' = TRUE /\ UNCHANGED fifo
  /\ IF devi = GS_PACK_LEN - 1
       THEN devf' = devf + 1 /\ devi' = 0
       ELSE devi' = devi + 1 /\ UNCHANGED devf
  /\ UNCHANGED <<calm, irq, isrVars, xSemaphore, cpc, queued, wire>>

-----------------------------------------------------------------------------
(* The interrupt handler.  It runs to its end before the client goes on. *)

\* UART0_IRQHandler, receive line status: reading LSR clears it.
LineStatus ==
  /\ irq /\ LSR_OE
  /\ LSR_OE' = FALSE
  /\ UNCHANGED <<devVars, fifo, irq, isrVars, xSemaphore, cpc, queued, wire>>

\* The run of bytes that byte b belongs to.
RunWith(b) ==
  IF b.i = 0 THEN <<b>>
  ELSE IF Len(run) = b.i /\ run[1].f = b.f THEN Append(run, b)
  ELSE <<>>

\* UART0_IRQHandler, receive data available: uart_receive_int takes one byte.  The
\* first byte of the header is written from prev; it counts as one of b's frame.
uart_receive_int ==
  LET b == Head(fifo)
      header == b.v = "55" /\ prev = "AA"
      n == gs_data + 1 IN
  /\ irq /\ ~LSR_OE /\ fifo # <<>>
  /\ fifo' = Tail(fifo)
  /\ run' = RunWith(b)
  /\ prev' = IF b.v = "55" THEN prev ELSE b.v
  /\ IF header
       THEN /\ buffer' = [buffer EXCEPT ![0] = [b EXCEPT !.v = prev, !.i = 0], ![1] = b]
            /\ frame_flag' = TRUE /\ gs_data' = GsRestart(gs_data)
            /\ UNCHANGED xSemaphore
       ELSE IF frame_flag
       THEN /\ buffer' = [buffer EXCEPT ![2 + gs_data] = b]
            /\ gs_data' = IF FrameDone(n) THEN 0 ELSE n
            /\ frame_flag' = ~FrameDone(n)
            /\ xSemaphore' = IF FrameDone(n) THEN Given(xSemaphore) ELSE xSemaphore
       ELSE UNCHANGED <<buffer, frame_flag, gs_data, xSemaphore>>
  /\ UNCHANGED <<devVars, LSR_OE, irq, cpc, queued, wire>>

-----------------------------------------------------------------------------
(* The client *)

\* NVIC_EnableIRQ(UART0_IRQn)
ClientEnable ==
  /\ cpc = "enable" /\ cpc' = "take"
  /\ irq' = TRUE
  /\ UNCHANGED <<devVars, fifo, LSR_OE, isrVars, xSemaphore, queued, wire>>

\* xSemaphoreTake(xSemaphore, SEMAPHORE_TIME) == pdTRUE
ClientTake ==
  /\ cpc = "take" /\ xSemaphore = 1
  /\ xSemaphore' = 0 /\ cpc' = "disable"
  /\ UNCHANGED <<devVars, fifo, LSR_OE, irq, isrVars, queued, wire>>

\* ... the time is over
ClientTimeout ==
  /\ cpc = "take" /\ xSemaphore = 0
  /\ cpc' = "enable"
  /\ UNCHANGED <<devVars, fifo, LSR_OE, irq, isrVars, xSemaphore, queued, wire>>

\* NVIC_DisableIRQ(UART0_IRQn)
ClientDisable ==
  /\ cpc = "disable" /\ cpc' = "connect"
  /\ irq' = NVIC_DisableIRQ(irq)
  /\ UNCHANGED <<devVars, fifo, LSR_OE, isrVars, xSemaphore, queued, wire>>

\* connect()
ClientConnect(fails) ==
  /\ cpc = "connect"
  /\ cpc' = IF fails THEN "enable" ELSE "send"
  /\ UNCHANGED <<devVars, fifo, LSR_OE, irq, isrVars, xSemaphore, queued, wire>>

\* send(): the packet is with the EMAC, which had room, or an error.  The result is
\* tested and either way the loop starts again.
ClientSend(fails) ==
  /\ cpc = "send" /\ ~queued
  /\ queued' = ~fails
  /\ cpc' = "enable"
  /\ UNCHANGED <<devVars, fifo, LSR_OE, irq, isrVars, xSemaphore, wire>>

\* The EMAC reads the buffer and sends the packet.
EmacSend ==
  /\ queued
  /\ queued' = FALSE /\ wire' = buffer
  /\ UNCHANGED <<devVars, fifo, LSR_OE, irq, isrVars, xSemaphore, cpc>>

-----------------------------------------------------------------------------
IsrStep == LineStatus \/ uart_receive_int

vUDPClient == \/ ClientEnable \/ ClientTake \/ ClientTimeout \/ ClientDisable
              \/ \E fails \in (IF calm THEN {FALSE} ELSE CanFail) : ClientConnect(fails) \/ ClientSend(fails)

DevStep == \E v \in {"AA", "55", "dd"} : DevSend(v)

Next == DevStep \/ IsrStep \/ vUDPClient \/ EmacSend

Spec == Init /\ [][Next]_vars

\* An enabled interrupt is taken, the EMAC sends what it is given, and the client
\* gets the processor.  The device need not send.
FairSpec == Spec /\ WF_vars(IsrStep) /\ WF_vars(vUDPClient) /\ WF_vars(EmacSend)

-----------------------------------------------------------------------------
(* Properties *)

\* Every variable has the type its declaration in the code gives it; gs_data is an
\* index of the data in the buffer.
TypeOK ==
  /\ calm \in BOOLEAN
  /\ devf \in 1..MaxFrames + 1 /\ devi \in Places /\ devprev \in {"00", "AA", "dd"}
  /\ fifo \in Seq(Bytes) /\ Len(fifo) <= FifoSize /\ LSR_OE \in BOOLEAN
  /\ irq \in BOOLEAN
  /\ prev \in {"00", "AA", "dd"} /\ frame_flag \in BOOLEAN
  /\ gs_data \in 0..GS_DATA_LEN - 1
  /\ buffer \in [Places -> Bytes] /\ wire \in [Places -> Bytes]
  /\ xSemaphore \in 0..1 /\ queued \in BOOLEAN
  /\ cpc \in {"enable", "take", "disable", "connect", "send"}
  /\ run \in Seq(Bytes) /\ Len(run) <= GS_PACK_LEN

\* A header ends at place h of a sequence of bytes: a 0x55, and the last byte before it
\* that is not a 0x55 is a 0xAA.  It is the last one there.
HeaderAt(s, h) ==
  /\ s[h].v = "55"
  /\ \E k \in 1..h - 1 : s[k].v = "AA" /\ \A m \in k + 1..h - 1 : s[m].v = "55"
LastHeader(s, h) == HeaderAt(s, h) /\ \A m \in h + 1..Len(s) : ~HeaderAt(s, m)

\* Whatever bytes were lost before and whatever was stored, uart_receive_int falls into
\* step with the last header in the bytes of a frame that it has read in a row: they
\* are in the buffer from there on, each in its place.  A frame without a header in its
\* data is thus stored whole; the bytes before a header in the data are given up
\* (uart.c:98 cannot tell it from the beginning of a frame).
InStep ==
  \A h \in 1..Len(run) : LastHeader(run, h) =>
    /\ buffer[0].v = "AA" /\ \A j \in h..Len(run) : buffer[1 + j - h] = run[j]
    /\ Len(run) - h < GS_DATA_LEN => frame_flag /\ gs_data = Len(run) - h

\* A packet whose data bytes are all of one frame, in order.
Whole(pkt) == /\ pkt[0].v = "AA" /\ pkt[1].v = "55"
              /\ \A i \in Places \ {0, 1} : pkt[i].i = i /\ pkt[i].f = pkt[2].f

\* In a calm environment (a gap after each frame, no header in the data, no byte lost)
\* every packet that vUDPClient sends is one frame of the device: the gap is long
\* enough for the semaphore, the disabled interrupt and the EMAC's late read of the
\* buffer.
FramesWhole == calm /\ wire[2].f > 0 => Whole(wire)

\* From the moment the client has disabled the interrupt until it enables it again
\* the buffer does not change under its feet, whatever arrives.
BufferHeld == [][(cpc \in {"connect", "send"}) => (buffer' = buffer)]_vars

\* In a calm environment (as for FramesWhole) every frame the device has sent is
\* forwarded by vUDPClient, however the give, the take and its timeout fall.
Forwarded == \A f \in 1..MaxFrames : (calm /\ devf > f) ~> (wire[2].f >= f)

=============================================================================
