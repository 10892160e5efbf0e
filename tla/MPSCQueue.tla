----------------------------- MODULE MPSCQueue -----------------------------
(***************************************************************************)
(* MPSCQueue<T> (src/utils/lockfree_queue.rs): several producers take      *)
(* turns at the ring of LockFreeQueue under the spin lock enqueue_lock.    *)
(* The consumer takes no lock.                                             *)
(*                                                                         *)
(* A compare_exchange reads the newest value of the lock, so the lock      *)
(* needs no modification order; lockView holds the positions its last      *)
(* holder released with it.  A failed or spurious compare_exchange_weak    *)
(* goes round the loop and changes nothing: it is a stuttering step.       *)
(***************************************************************************)
EXTENDS LockFreeQueue

VARIABLES
  enqueue_lock,  \* 0 free, 1 held
  lockView,      \* the view released by the last store to enqueue_lock
  mpc            \* per producer: "idle", "locked" (inner.try_push), "unlock"

lockVars == <<enqueue_lock, lockView, mpc>>
mpscVars == <<vars, lockVars>>

Max2(a, b) == IF a >= b THEN a ELSE b
Join(v, w) == [t |-> Max2(v.t, w.t), h |-> Max2(v.h, w.h)]

MpscInit ==
  /\ Init
  /\ enqueue_lock = 0
  /\ lockView = [t |-> 1, h |-> 1]
  /\ mpc = [p \in Producers |-> "idle"]

\* Success ordering Acquire; with Relaxed the thread would learn nothing.
LockOrderRelaxed(v, w) == v
LockOrder(v, w) == Join(v, w)

\* The compare-and-exchange tests for 0; a plain store would not.
LockFreeUntested == TRUE
LockFree == enqueue_lock = 0

\* compare_exchange_weak(0, 1, Acquire, Relaxed) succeeds
AcquireLock(p) ==
  /\ Live
  /\ mpc[p] = "idle"
  /\ Len(accepted) < MaxPush
  /\ LockFree
  /\ enqueue_lock' = 1
  /\ view' = [view EXCEPT ![p] = LockOrder(view[p], lockView)]
  /\ mpc' = [mpc EXCEPT ![p] = "locked"]
  /\ UNCHANGED <<buffer, heads, tails, cview, wroteAt, readAt, pushVars, popVars,
                 sawItem, sawRoom, life, accepted, released, lockView>>

\* inner.try_push(item): the steps before its last one, and its last one.
PushBegins(p) ==
  /\ mpc[p] = "locked"
  /\ (\E item \in Items : LoadTail(p, item)) \/ FindRoom(p) \/ WriteSlot(p)
  /\ UNCHANGED lockVars

PushReturnsLeaking(p) ==     \* Err is returned with the lock still held
  /\ mpc[p] = "locked"
  /\ \/ RefuseFull(p) /\ mpc' = [mpc EXCEPT ![p] = "idle"]
     \/ Publish(p) /\ mpc' = [mpc EXCEPT ![p] = "unlock"]
  /\ UNCHANGED <<enqueue_lock, lockView>>

PushReturns(p) ==
  /\ mpc[p] = "locked"
  /\ RefuseFull(p) \/ Publish(p)
  /\ mpc' = [mpc EXCEPT ![p] = "unlock"]
  /\ UNCHANGED <<enqueue_lock, lockView>>

\* What enqueue_lock.store(0, Release) hands to the next holder.
ReleasedNothing(p) == lockView
ReleasedView(p) == view[p]

\* enqueue_lock.store(0, Release); return result
ReleaseLock(p) ==
  /\ mpc[p] = "unlock"
  /\ enqueue_lock' = 0
  /\ lockView' = ReleasedView(p)
  /\ mpc' = [mpc EXCEPT ![p] = "idle"]
  /\ UNCHANGED vars

\* try_pop and is_empty go straight to the ring.
ConsumerStep == (PopStep \/ IsEmpty) /\ UNCHANGED lockVars

MpscDrop ==
  /\ \A p \in Producers : mpc[p] = "idle"
  /\ DropStep
  /\ UNCHANGED lockVars

ProducerStep(p) ==
  AcquireLock(p) \/ PushBegins(p) \/ PushReturns(p) \/ ReleaseLock(p)

MpscNext ==
  \/ \E p \in Producers : ProducerStep(p)
  \/ ConsumerStep
  \/ MpscDrop

MpscSpec == MpscInit /\ [][MpscNext]_mpscVars

(***************************************************************************)
(* Fairness.  A thread inside try_push or try_pop keeps running, and both  *)
(* sides call again after a refusal (the retry loops of the tests, the     *)
(* benches and main).  A store becomes visible to the loads of the other   *)
(* thread after a finite time, so a load that is tried for ever does not   *)
(* read a stale position for ever: weak fairness of FindItem, which stays  *)
(* enabled between two calls, strong fairness of FindRoom, which is        *)
(* enabled again in every call.  The lock is not fair: a producer only     *)
(* gets it for sure when it stays free.                                    *)
(***************************************************************************)
ProducerFairness(p) ==
  /\ WF_mpscVars(AcquireLock(p))
  /\ WF_mpscVars(PushBegins(p) \/ PushReturns(p))
  /\ SF_mpscVars(FindRoom(p) /\ PushBegins(p))
  /\ WF_mpscVars(ReleaseLock(p))

\* The owner keeps the queue alive: without drop, and with is_empty left out.
MpscLiveNext ==
  \/ \E p \in Producers : ProducerStep(p)
  \/ PopStep /\ UNCHANGED lockVars

MpscFairSpec ==
  /\ MpscInit /\ [][MpscLiveNext]_mpscVars
  /\ \A p \in Producers : ProducerFairness(p)
  /\ WF_mpscVars(FindItem /\ UNCHANGED lockVars)
  /\ WF_mpscVars((ReadSlot \/ Advance) /\ UNCHANGED lockVars)

-----------------------------------------------------------------------------
(***************************************************************************)
(* Properties.  NoDataRace and FifoDelivery of LockFreeQueue are checked   *)
(* of MpscSpec as well; SlotsOwned and DropReleasesAll are proved of it.   *)
(***************************************************************************)

\* Every variable has its type.
MpscTypeOK ==
  /\ TypeOK
  /\ enqueue_lock \in {0, 1}
  /\ lockView \in [t : 1..Len(tails), h : 1..Len(heads)]
  /\ mpc \in [Producers -> {"idle", "locked", "unlock"}]

\* At most one producer is between its compare_exchange and its store of 0,
\* the lock is held exactly then, and only that producer is inside
\* inner.try_push, which is written for a single producer.
MutualExclusion ==
  /\ \A p, q \in Producers : mpc[p] # "idle" /\ mpc[q] # "idle" => p = q
  /\ enqueue_lock = 1 <=> \E p \in Producers : mpc[p] # "idle"
  /\ \A p \in Producers : ppc[p] # "idle" => mpc[p] = "locked"

\* The Acquire/Release pair on the lock hands the ring over: a producer that
\* holds it cannot load a stale tail and write over another producer's item.
HolderSeesTail ==
  \A p \in Producers : mpc[p] = "locked" => TailReads(p) = {Len(tails)}
=============================================================================
