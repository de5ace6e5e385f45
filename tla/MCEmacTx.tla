------------------------------ MODULE MCEmacTx ------------------------------
(* Model checking of EmacTx: references to packets are interchangeable. *)
EXTENDS EmacTx, TLC

PbufSymmetry == Permutations(Pbufs)
=============================================================================
