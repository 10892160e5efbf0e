----------------------------- MODULE MCTickPath -----------------------------
(***************************************************************************)
(* Two feed threads are interchangeable, so they are a symmetry set.       *)
(***************************************************************************)
EXTENDS TickPath, TLC

FeedSymmetry == Permutations(Feeds)
=============================================================================
