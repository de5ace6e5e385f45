--------------------------- MODULE MCKernelQueue ---------------------------
(* Three tasks share a queue: one of high priority that receives, and two of  *)
(* the same lower priority that send, receive and sleep.                      *)
EXTENDS KernelQueue

CONSTANTS hi, mid, lo, idle, a, b

MCTasks == {hi, mid, lo, idle}
MCPriority == [t \in MCTasks |-> CASE t = hi -> 2 [] t = idle -> 0 [] OTHER -> 1]
MCItems == {a, b}
MCEvents == {"send", "receive"}

Of(kind, item, ticks) == [kind |-> kind, item |-> item, ticks |-> ticks]

MCCalls == [t \in MCTasks |->
  CASE t = hi  -> {Of("receive", a, 2)}
    [] t = mid -> {Of("send", b, MAX_DELAY)}
    [] t = lo  -> {Of("send", a, 1), Of("receive", a, 0), Of("delay", a, 2)}
    [] OTHER   -> {}]

=============================================================================
