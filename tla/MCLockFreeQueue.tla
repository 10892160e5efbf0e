-------------------------- MODULE MCLockFreeQueue --------------------------
(***************************************************************************)
(* LockFreeQueue with one producer, the SPSC contract of the type.  With   *)
(* Capacity 4 the ring holds three items, so six pushes go once and a half *)
(* round it: every slot is reused and both indices wrap.  Two values are   *)
(* enough to tell a reordered, lost or duplicated item: the histories are  *)
(* compared for every choice of values.                                    *)
(***************************************************************************)
EXTENDS LockFreeQueue

ASSUME SingleProducer
=============================================================================
