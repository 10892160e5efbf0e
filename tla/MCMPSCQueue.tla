---------------------------- MODULE MCMPSCQueue ----------------------------
(***************************************************************************)
(* MPSCQueue with three producers on a ring of two or four slots.          *)
(* Producers are interchangeable, so they are a symmetry set in the safety *)
(* runs.                                                                   *)
(***************************************************************************)
EXTENDS MPSCQueue, TLC

ProducerSymmetry == Permutations(Producers)
=============================================================================
