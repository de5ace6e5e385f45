----------------------------- MODULE MCTimeouts -----------------------------
(* Two cyclic timers, as in this build, and a timeout of a message.           *)
EXTENDS Timeouts

MCTimers == <<[h |-> "etharp_tmr", interval_ms |-> 4], [h |-> "igmp_tmr", interval_ms |-> 3]>>

=============================================================================
