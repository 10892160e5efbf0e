-------------------------- MODULE MPSCQueueProofs --------------------------
(***************************************************************************)
(* The safety of the MPSC queue for every set of producers: the spin lock  *)
(* gives the ring one producer at a time, and that producer an up-to-date  *)
(* view, which is all that the lemmas about the ring's steps ask for.      *)
(***************************************************************************)
EXTENDS MPSCQueue, LockFreeQueueProofs

\* Whoever releases the lock leaves an up-to-date view in it, and whoever
\* holds it has one.
LockSynced ==
  /\ enqueue_lock = 0 => Synced(lockView)
  /\ \A p \in Producers : mpc[p] # "idle" => Synced(view[p])

MpscInv ==
  /\ RingInv
  /\ MpscTypeOK
  /\ MutualExclusion
  /\ LockSynced

\* The lock is free exactly when no producer is past its compare_exchange.
LEMMA LockFacts ==
  ASSUME MpscInv
  PROVE  /\ TypeOK /\ Indices /\ Pushing
         /\ Len(tails) \in Nat \ {0} /\ Len(heads) \in Nat \ {0}
         /\ mpc \in [Producers -> {"idle", "locked", "unlock"}]
         /\ enqueue_lock \in {0, 1}
         /\ lockView \in [t : 1..Len(tails), h : 1..Len(heads)]
         /\ view \in [Producers -> [t : 1..Len(tails), h : 1..Len(heads)]]
         /\ ppc \in [Producers -> {"idle", "head", "write", "publish"}]
<1>1. TypeOK /\ Indices /\ Pushing
  BY DEF MpscInv, RingInv
<1>2. QED
  BY <1>1, RingFacts DEF MpscInv, MpscTypeOK, TypeOK

LEMMA MpscInitInv ==
  ASSUME MpscInit
  PROVE  MpscInv
<1>1. Init
  BY DEF MpscInit
<1>2. RingInv
  BY <1>1, InitInv DEF IInv
<1>3. Len(tails) = 1 /\ Len(heads) = 1 /\ ppc = [p \in Producers |-> "idle"]
  BY <1>1 DEF Init
<1>4. MpscTypeOK
  BY <1>2, <1>3 DEF MpscInit, MpscTypeOK, RingInv
<1>5. MutualExclusion
  BY <1>3 DEF MpscInit, MutualExclusion
<1>6. LockSynced
  BY <1>3, CapacityAssumption DEF MpscInit, LockSynced, Synced
<1>7. QED
  BY <1>2, <1>4, <1>5, <1>6 DEF MpscInv

\* Taking the lock joins the view left in it.
LEMMA AcquireLockStep ==
  ASSUME MpscInv, NEW p \in Producers, AcquireLock(p)
  PROVE  MpscInv'
<1> USE DEF AcquireLock, pushVars, popVars
<1> DEFINE T == Len(tails)
           v == Join(view[p], lockView)
<1>0. RingInv /\ MutualExclusion /\ LockSynced /\ MpscTypeOK
  BY DEF MpscInv
<1>1. /\ T \in Nat \ {0} /\ Len(heads) \in Nat \ {0} /\ Capacity \in Nat \ {0}
      /\ mpc \in [Producers -> {"idle", "locked", "unlock"}]
      /\ lockView \in [t : 1..T, h : 1..Len(heads)]
      /\ view \in [Producers -> [t : 1..T, h : 1..Len(heads)]]
  BY LockFacts, CapacityAssumption
<1>2. (\A q \in Producers : mpc[q] = "idle") /\ Synced(lockView)
  BY <1>0 DEF MutualExclusion, LockSynced, LockFree
<1>3. \A q \in Producers : ppc[q] = "idle"
  BY <1>0, <1>2 DEF MutualExclusion
<1>4. v \in [t : 1..T, h : 1..Len(heads)]
  BY <1>1 DEF Join, Max2
<1>5. v.t = T /\ T < v.h + Capacity
  BY <1>1, <1>2 DEF Join, Max2, Synced
<1>6. view' = [view EXCEPT ![p] = v] /\ view'[p] = v
  BY <1>1 DEF LockOrder
<1>7. view' \in [Producers -> [t : 1..T, h : 1..Len(heads)]]
  BY <1>1, <1>4, <1>6
<1>8. RingInv'
  <2>0. /\ TypeOK /\ Indices /\ Pushing /\ Popping /\ Contents /\ Epochs
        /\ Histories /\ ItemSeen
    BY <1>0 DEF RingInv
  <2>1. TypeOK'
    BY <2>0, <1>7 DEF TypeOK
  <2>2. Pushing'
    BY <1>3 DEF Pushing, Active
  <2>3. Indices' /\ Popping' /\ ItemSeen'
    BY <2>0 DEF Indices, Popping, ItemSeen, Live
  <2>4. Contents' /\ Epochs' /\ Histories'
    BY <2>0 DEF Contents, Epochs, Histories, Filled, Live
  <2>5. QED
    BY <2>1, <2>2, <2>3, <2>4 DEF RingInv
<1>9. MpscTypeOK'
  BY <1>0, <1>1, <1>8 DEF MpscTypeOK, RingInv
<1>10. MutualExclusion'
  BY <1>1, <1>2, <1>3 DEF MutualExclusion
<1>11. LockSynced'
  BY <1>1, <1>2, <1>5, <1>6 DEF LockSynced, Synced
<1>12. QED
  BY <1>8, <1>9, <1>10, <1>11 DEF MpscInv

\* inner.try_push runs with the ring to itself.
LEMMA PushBeginsStep ==
  ASSUME MpscInv, NEW p \in Producers, PushBegins(p)
  PROVE  MpscInv'
<1> USE DEF PushBegins, lockVars
<1>0. RingInv /\ MutualExclusion /\ LockSynced /\ MpscTypeOK
  BY DEF MpscInv
<1>1. /\ TypeOK /\ Indices /\ Pushing
      /\ Len(tails) \in Nat \ {0} /\ Len(heads) \in Nat \ {0}
      /\ view \in [Producers -> [t : 1..Len(tails), h : 1..Len(heads)]]
      /\ ppc \in [Producers -> {"idle", "head", "write", "publish"}]
      /\ lockView \in [t : 1..Len(tails), h : 1..Len(heads)]
  BY LockFacts
<1>2. /\ Synced(view[p]) /\ enqueue_lock = 1
      /\ \A q \in Producers : mpc[q] # "idle" => q = p
  BY <1>0 DEF MutualExclusion, LockSynced
<1>3. RingInv' /\ tails' = tails /\ heads' = heads /\ Synced(view[p])'
      /\ \A q \in Producers : q # p => ppc'[q] = ppc[q]
  <2>1. CASE \E item \in Items : LoadTail(p, item)
    <3>1. PICK item \in Items : LoadTail(p, item)
      BY <2>1
    <3>2. \A q \in Producers : ~Active(q)
      BY <3>1, <1>0, <1>2 DEF MutualExclusion, Active, LoadTail
    <3>3. RingInv'
      BY <3>1, <3>2, <1>0, <1>2, LoadTailStep
    <3>4. QED
      BY <3>1, <3>3, <1>1, <1>2 DEF LoadTail, Synced
  <2>2. CASE FindRoom(p)
    <3>1. RingInv'
      BY <2>2, <1>0, FindRoomStep
    <3>2. PICK h \in HeadReads(p) :
            view' = [view EXCEPT ![p] = [t |-> view[p].t, h |-> h]]
      BY <2>2 DEF FindRoom, AcquireHead
    <3>3. view'[p].t = view[p].t /\ view'[p].h = h
      BY <3>2, <1>1
    <3>4. Len(tails) < h + Capacity
      BY <1>1, <1>2, CapacityAssumption DEF HeadReads, Synced
    <3>5. QED
      BY <2>2, <3>1, <3>3, <3>4, <1>1, <1>2 DEF FindRoom, Synced
  <2>3. CASE WriteSlot(p)
    <3>1. RingInv'
      BY <2>3, <1>0, WriteSlotStep
    <3>2. QED
      BY <2>3, <3>1, <1>1, <1>2 DEF WriteSlot, Synced
  <2>4. QED
    BY <2>1, <2>2, <2>3
<1>4. MpscTypeOK'
  BY <1>0, <1>1, <1>3 DEF MpscTypeOK, RingInv
<1>5. MutualExclusion'
  BY <1>0, <1>3 DEF MutualExclusion
<1>6. LockSynced'
  BY <1>2, <1>3 DEF LockSynced
<1>7. QED
  BY <1>3, <1>4, <1>5, <1>6 DEF MpscInv

LEMMA PushReturnsStep ==
  ASSUME MpscInv, NEW p \in Producers, PushReturns(p)
  PROVE  MpscInv'
<1> USE DEF PushReturns
<1>0. RingInv /\ MutualExclusion /\ LockSynced /\ MpscTypeOK
  BY DEF MpscInv
<1>1. /\ TypeOK /\ Indices /\ Pushing
      /\ Len(tails) \in Nat \ {0} /\ Len(heads) \in Nat \ {0}
      /\ view \in [Producers -> [t : 1..Len(tails), h : 1..Len(heads)]]
      /\ ppc \in [Producers -> {"idle", "head", "write", "publish"}]
      /\ mpc \in [Producers -> {"idle", "locked", "unlock"}]
      /\ lockView \in [t : 1..Len(tails), h : 1..Len(heads)]
  BY LockFacts
<1>2. /\ Synced(view[p]) /\ enqueue_lock = 1
      /\ \A q \in Producers : mpc[q] # "idle" => q = p
  BY <1>0 DEF MutualExclusion, LockSynced
<1>3. /\ RingInv' /\ heads' = heads /\ Synced(view[p])'
      /\ lockView' \in [t : 1..Len(tails'), h : 1..Len(heads')]
      /\ ppc' = [ppc EXCEPT ![p] = "idle"]
  <2>1. CASE RefuseFull(p)
    <3>1. RingInv'
      BY <2>1, <1>0, RefuseFullStep
    <3>2. PICK h \in HeadReads(p) :
            view' = [view EXCEPT ![p] = [t |-> view[p].t, h |-> h]]
      BY <2>1 DEF RefuseFull, AcquireHead
    <3>3. view'[p].t = view[p].t /\ view'[p].h = h
      BY <3>2, <1>1
    <3>4. Len(tails) < h + Capacity
      BY <1>1, <1>2, CapacityAssumption DEF HeadReads, Synced
    <3>5. QED
      BY <2>1, <3>1, <3>3, <3>4, <1>1, <1>2 DEF RefuseFull, Synced
  <2>2. CASE Publish(p)
    <3>1. RingInv'
      BY <2>2, <1>0, PublishStep
    <3>2. /\ tails' = Append(tails, NextIndex(ptail[p])) /\ heads' = heads
          /\ view' = [view EXCEPT ![p] = [t |-> Len(tails) + 1, h |-> view[p].h]]
          /\ ppc[p] = "publish" /\ ppc' = [ppc EXCEPT ![p] = "idle"]
      BY <2>2 DEF Publish
    <3>3. Len(tails') = Len(tails) + 1
      BY <3>2, <1>1 DEF TypeOK
    <3>4. view'[p].t = Len(tails) + 1 /\ view'[p].h = view[p].h
      BY <3>2, <1>1
    <3>5. Len(tails) + 1 < view[p].h + Capacity
      BY <3>2, <1>1, ActiveFacts
    <3>6. 1..Len(tails) \subseteq 1..(Len(tails) + 1)
      BY <1>1
    <3>7. lockView' \in [t : 1..Len(tails'), h : 1..Len(heads')]
      BY <3>2, <3>3, <3>6, <1>1
    <3>8. QED
      BY <3>1, <3>2, <3>3, <3>4, <3>5, <3>7 DEF Synced
  <2>3. QED
    BY <2>1, <2>2
<1>4. MpscTypeOK'
  BY <1>0, <1>1, <1>3 DEF MpscTypeOK, RingInv
<1>5. mpc'[p] = "unlock" /\ \A q \in Producers : q # p => mpc'[q] = mpc[q]
  BY <1>1
<1>6. MutualExclusion'
  <2>1. ppc'[p] = "idle" /\ \A q \in Producers : q # p => ppc'[q] = ppc[q]
    BY <1>1, <1>3
  <2>2. QED
    BY <2>1, <1>0, <1>2, <1>5 DEF MutualExclusion
<1>7. LockSynced'
  BY <1>2, <1>3, <1>5 DEF LockSynced
<1>8. QED
  BY <1>3, <1>4, <1>6, <1>7 DEF MpscInv

LEMMA ReleaseLockStep ==
  ASSUME MpscInv, NEW p \in Producers, ReleaseLock(p)
  PROVE  MpscInv'
<1> USE DEF ReleaseLock, ReleasedView
<1>0. RingInv /\ MutualExclusion /\ LockSynced /\ MpscTypeOK
  BY DEF MpscInv
<1>1. /\ mpc \in [Producers -> {"idle", "locked", "unlock"}]
      /\ view \in [Producers -> [t : 1..Len(tails), h : 1..Len(heads)]]
  BY LockFacts
<1>2. /\ Synced(view[p]) /\ ppc[p] = "idle"
      /\ \A q \in Producers : mpc[q] # "idle" => q = p
  BY <1>0 DEF MutualExclusion, LockSynced
<1>3. RingInv' /\ UNCHANGED <<tails, heads, view, ppc>>
  BY <1>0, StutterStep DEF vars, pushVars
<1>4. \A q \in Producers : mpc'[q] = "idle"
  BY <1>1, <1>2
<1>5. MpscTypeOK'
  BY <1>0, <1>1, <1>3 DEF MpscTypeOK, RingInv
<1>6. MutualExclusion'
  BY <1>0, <1>2, <1>3, <1>4 DEF MutualExclusion
<1>7. LockSynced'
  BY <1>2, <1>3, <1>4 DEF LockSynced, Synced
<1>8. QED
  BY <1>3, <1>5, <1>6, <1>7 DEF MpscInv

\* The consumer, drop and stuttering leave the producers and the lock alone.
LEMMA OtherStep ==
  ASSUME MpscInv, RingInv', UNCHANGED <<tails, view, ppc, lockVars>>,
         Len(heads) <= Len(heads')
  PROVE  MpscInv'
<1> USE DEF lockVars
<1>0. MutualExclusion /\ LockSynced /\ MpscTypeOK
  BY DEF MpscInv
<1>1. /\ lockView \in [t : 1..Len(tails), h : 1..Len(heads)]
      /\ Len(heads) \in Nat
  BY LockFacts
<1>2. Len(heads') \in Nat
  BY DEF RingInv, TypeOK
<1>3. 1..Len(heads) \subseteq 1..Len(heads')
  BY <1>1, <1>2
<1>4. lockView' \in [t : 1..Len(tails'), h : 1..Len(heads')]
  BY <1>1, <1>3
<1>5. MpscTypeOK'
  BY <1>0, <1>4 DEF MpscTypeOK, RingInv
<1>6. MutualExclusion' /\ LockSynced'
  BY <1>0 DEF MutualExclusion, LockSynced, Synced
<1>7. QED
  BY <1>5, <1>6 DEF MpscInv

LEMMA MpscNextInv ==
  ASSUME MpscInv, [MpscNext]_mpscVars
  PROVE  MpscInv'
<1>0. RingInv /\ Len(heads) \in Nat /\ heads \in Seq(Slots)
  BY LockFacts DEF MpscInv, TypeOK
<1>1. CASE \E p \in Producers : ProducerStep(p)
  BY <1>1, AcquireLockStep, PushBeginsStep, PushReturnsStep, ReleaseLockStep
     DEF ProducerStep
<1>2. CASE ConsumerStep
  <2>1. RingInv'
    BY <1>0, <1>2, FindEmptyStep, FindItemStep, ReadSlotStep, AdvanceStep, IsEmptyStep
       DEF ConsumerStep, PopStep
  <2>2. UNCHANGED <<tails, view, ppc, lockVars>>
    BY <1>2 DEF ConsumerStep, PopStep, IsEmpty, FindEmpty, FindItem, ReadSlot, Advance,
                pushVars
  <2>3. heads' = heads \/ heads' = Append(heads, NextIndex(CurHead))
    BY <1>2 DEF ConsumerStep, PopStep, IsEmpty, FindEmpty, FindItem, ReadSlot, Advance
  <2>4. Len(heads) <= Len(heads')
    BY <2>3, <1>0
  <2>5. QED
    BY <2>1, <2>2, <2>4, OtherStep
<1>3. CASE MpscDrop
  <2>1. RingInv'
    BY <1>0, <1>3, BeginDropStep, DropItemStep, EndDropStep DEF MpscDrop, DropStep
  <2>2. UNCHANGED <<tails, view, ppc, lockVars>>
    BY <1>3 DEF MpscDrop, DropStep, BeginDrop, DropItem, EndDrop, pushVars
  <2>3. heads' = heads \/ heads' = Append(heads, NextIndex(CurHead))
    BY <1>3 DEF MpscDrop, DropStep, BeginDrop, DropItem, EndDrop
  <2>4. Len(heads) <= Len(heads')
    BY <2>3, <1>0
  <2>5. QED
    BY <2>1, <2>2, <2>4, OtherStep
<1>4. CASE UNCHANGED mpscVars
  <2>1. RingInv'
    BY <1>0, <1>4, StutterStep DEF mpscVars
  <2>2. QED
    BY <2>1, <1>0, <1>4, OtherStep DEF mpscVars, vars, pushVars, lockVars
<1>5. QED
  BY <1>1, <1>2, <1>3, <1>4 DEF MpscNext

LEMMA MpscInvariance == MpscSpec => []MpscInv
<1>1. MpscInit => MpscInv
  BY MpscInitInv
<1>2. MpscInv /\ [MpscNext]_mpscVars => MpscInv'
  BY MpscNextInv
<1>3. QED
  BY <1>1, <1>2, PTL DEF MpscSpec

-----------------------------------------------------------------------------
(***************************************************************************)
(* Theorems about MPSCQueue, for every set of producers, capacity, set of  *)
(* items and number of pushes.                                             *)
(***************************************************************************)

\* MpscTypeOK is an invariant.
THEOREM MpscTypeCorrect == MpscSpec => []MpscTypeOK
<1>1. MpscInv => MpscTypeOK
  BY DEF MpscInv
<1>2. QED
  BY <1>1, MpscInvariance, PTL

\* MutualExclusion: the spin lock admits one producer to inner.try_push.
THEOREM MutualExclusionHolds == MpscSpec => []MutualExclusion
<1>1. MpscInv => MutualExclusion
  BY DEF MpscInv
<1>2. QED
  BY <1>1, MpscInvariance, PTL

\* HolderSeesTail: the lock hands the newest tail to its next holder.
THEOREM HolderSeesTailHolds == MpscSpec => []HolderSeesTail
<1>1. ASSUME MpscInv PROVE HolderSeesTail
  <2>1. SUFFICES ASSUME NEW p \in Producers, mpc[p] = "locked"
                 PROVE  TailReads(p) = {Len(tails)}
    BY DEF HolderSeesTail
  <2>2. view[p].t = Len(tails) /\ Len(tails) \in Nat
    BY <1>1, <2>1, LockFacts DEF MpscInv, LockSynced, Synced
  <2>3. QED
    BY <2>2 DEF TailReads
<1>2. QED
  BY <1>1, MpscInvariance, PTL

\* NoDataRace of the ring, with several producers.
THEOREM MpscNoDataRace == MpscSpec => []NoDataRace
<1>1. MpscInv => NoDataRace
  BY RingNoDataRace DEF MpscInv
<1>2. QED
  BY <1>1, MpscInvariance, PTL

\* SlotsOwned of the ring, with several producers.
THEOREM MpscSlotsOwned == MpscSpec => []SlotsOwned
<1>1. MpscInv => SlotsOwned
  BY RingSlotsOwned DEF MpscInv
<1>2. QED
  BY <1>1, MpscInvariance, PTL

\* FifoDelivery of the ring, with several producers.
THEOREM MpscFifo == MpscSpec => []FifoDelivery
<1>1. MpscInv => FifoDelivery
  BY RingFifo DEF MpscInv
<1>2. QED
  BY <1>1, MpscInvariance, PTL

\* DropReleasesAll of the ring, with several producers.
THEOREM MpscDropHolds == MpscSpec => []DropReleasesAll
<1>1. MpscInv => DropReleasesAll
  BY RingDrop DEF MpscInv
<1>2. QED
  BY <1>1, MpscInvariance, PTL

\* ImplementsFifo with several producers.
THEOREM MpscImplementsFifo == MpscSpec => ImplementsFifo
<1>1. MpscInit => Fifo!Init
  BY InitRefines DEF MpscInit
<1>2. MpscInv => RingInv /\ QueuedIsPending
  BY RingHoldsPending DEF MpscInv
<1>3. ASSUME RingInv, RingInv', QueuedIsPending, QueuedIsPending', [MpscNext]_mpscVars
      PROVE  [Fifo!Next]_(Fifo!fifoVars)
  <2>1. ASSUME NEW p \in Producers, AcquireLock(p) \/ ReleaseLock(p) \/ UNCHANGED mpscVars
        PROVE  [Fifo!Next]_(Fifo!fifoVars)
    <3>1. UNCHANGED <<heads, tails, accepted, got, Live>>
      BY <2>1 DEF AcquireLock, ReleaseLock, mpscVars, vars, popVars, Live
    <3>2. QED
      BY <1>3, <3>1, StutterRefines
  <2>2. ASSUME NEW p \in Producers, PushBegins(p) \/ PushReturns(p)
        PROVE  [Fifo!Next]_(Fifo!fifoVars)
    BY <1>3, <2>2, PushRefines DEF PushBegins, PushReturns, PushStep
  <2>3. CASE UNCHANGED mpscVars
    <3>1. UNCHANGED <<heads, tails, accepted, got, Live>>
      BY <2>3 DEF mpscVars, vars, popVars, Live
    <3>2. QED
      BY <1>3, <3>1, StutterRefines
  <2>4. QED
    BY <1>3, <2>1, <2>2, <2>3, PopRefines, DropRefines
       DEF MpscNext, ProducerStep, ConsumerStep, MpscDrop
<1>4. QED
  BY <1>1, <1>2, <1>3, MpscInvariance, PTL DEF MpscSpec, ImplementsFifo, Fifo!Spec
=============================================================================
