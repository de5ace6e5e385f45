-------------------------------- MODULE TxRing --------------------------------
(***************************************************************************)
(* What lwip/arch/freertos_lwip_mac.c computes about the ring of transmit   *)
(* descriptors, from its indices alone.  EmacTx has the driver that works   *)
(* on the ring, Tcpip the threads that wait for it.                         *)
(***************************************************************************)
EXTENDS Integers

CONSTANT EMAC_NUM_TX_FRAG  \* descriptors in the ring (lpc17xx_emac.h:83)

ASSUME FragAssumption == EMAC_NUM_TX_FRAG \in 2..128

MutNoWrap(i) == i + 1                         \* the wrap forgotten

\* idx++; if (idx > TxDescriptorNumber) idx = 0;
WrapInc(i) == IF i + 1 > EMAC_NUM_TX_FRAG - 1 THEN 0 ELSE i + 1

\* The number of descriptors the driver believes to be free (a u8_t).  It is too large
\* when cidx < pidx, and when the ring is full, which looks like empty.
lpc_tx_ready(cidx, pidx) ==
  ( IF pidx = cidx THEN EMAC_NUM_TX_FRAG
    ELSE IF cidx > pidx
    THEN (EMAC_NUM_TX_FRAG - 1) - ((pidx + EMAC_NUM_TX_FRAG) - cidx)
    ELSE (EMAC_NUM_TX_FRAG - 1) - (cidx - pidx) ) % 256

MutNoSignal(n) == n                           \* the semaphore is not given

\* xtx_count_sem after sys_sem_signal: a counting semaphore with a maximum.
xtx_count_signal(n) == IF n < EMAC_NUM_TX_FRAG THEN n + 1 ELSE n

=============================================================================
