----------------------------- MODULE LossyFifo -----------------------------
(***************************************************************************)
(* What a network device promises its stack: frames come out in the order  *)
(* in which they went in and none that never went in.  Frames may be lost, *)
(* anywhere in the queue and at any time, and a frame may come in pieces,  *)
(* but none comes again.                                                   *)
(***************************************************************************)
EXTENDS Naturals, Sequences

VARIABLES q,     \* frames that wait, by their serial numbers
          sent,  \* the serial number of the newest frame that went in
          out    \* the serial number of the frame that came out last

vars == <<q, sent, out>>

Init == q = <<>> /\ sent = 0 /\ out = 0

\* The next frame goes in.
Put == sent' = sent + 1 /\ q' = Append(q, sent + 1) /\ UNCHANGED out

\* A further piece of the newest frame goes in.
More == sent > 0 /\ q' = Append(q, sent) /\ UNCHANGED <<sent, out>>

\* The next frame never makes it into the queue.
Miss == sent' = sent + 1 /\ UNCHANGED <<q, out>>

\* The oldest frame comes out.
Get == q # <<>> /\ out' = Head(q) /\ q' = Tail(q) /\ UNCHANGED sent

\* The oldest frame, or all of them, are lost.
Lose == q # <<>> /\ q' \in {Tail(q), <<>>} /\ UNCHANGED <<sent, out>>

Next == Put \/ More \/ Miss \/ Get \/ Lose

Spec == Init /\ [][Next]_vars
=============================================================================
