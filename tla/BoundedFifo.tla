---------------------------- MODULE BoundedFifo ----------------------------
(***************************************************************************)
(* What a queue of the kernel promises its callers: a first-in first-out    *)
(* buffer of bounded length that takes an item or gives one in one step.    *)
(* A call that may not wait for ever can be refused; a receive is refused   *)
(* only while the queue is empty.                                           *)
(***************************************************************************)
EXTENDS Integers, Sequences

CONSTANTS Callers, Items, Length, NoCall, Nothing

VARIABLES contents, call, ret

fifo == <<contents, call, ret>>

Init == /\ contents = <<>>
        /\ call = [t \in Callers |-> NoCall]
        /\ ret = [t \in Callers |-> Nothing]

Return(t, v) == /\ call' = [call EXCEPT ![t] = NoCall]
                /\ ret' = [ret EXCEPT ![t] = v]

Begin(t) == /\ call[t] = NoCall
            /\ call'[t].kind \in {"send", "receive"}
            /\ call'[t].item \in Items
            /\ call' = [call EXCEPT ![t] = call'[t]]
            /\ ret' = [ret EXCEPT ![t] = Nothing]
            /\ UNCHANGED contents

Put(t) == /\ call[t] # NoCall /\ call[t].kind = "send" /\ Len(contents) < Length
          /\ contents' = Append(contents, call[t].item)
          /\ Return(t, "ok")

Get(t) == /\ call[t] # NoCall /\ call[t].kind = "receive" /\ contents # <<>>
          /\ contents' = Tail(contents)
          /\ Return(t, Head(contents))

Refuse(t) == /\ call[t] # NoCall /\ ~call[t].forever
             /\ call[t].kind = "receive" => contents = <<>>
             /\ Return(t, "refused")
             /\ UNCHANGED contents

\* An interrupt handler puts or takes an item.
PutFromISR == /\ Len(contents) < Length
              /\ \E v \in Items : contents' = Append(contents, v)
              /\ UNCHANGED <<call, ret>>

GetFromISR == /\ contents # <<>> /\ contents' = Tail(contents)
              /\ UNCHANGED <<call, ret>>

Next == \/ \E t \in Callers : Begin(t) \/ Put(t) \/ Get(t) \/ Refuse(t)
        \/ PutFromISR \/ GetFromISR

Spec == Init /\ [][Next]_fifo

=============================================================================
