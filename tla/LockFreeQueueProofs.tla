------------------------ MODULE LockFreeQueueProofs ------------------------
(***************************************************************************)
(* The safety of the ring for every power-of-two capacity, every set of    *)
(* items and every number of pushes.                                       *)
(***************************************************************************)
EXTENDS LockFreeQueue, SequenceTheorems, TLAPS

\* The slot of the k-th item, counting from 1: the k-th value of an index.
Slot(k) == (k - 1) % Capacity

-----------------------------------------------------------------------------
(***************************************************************************)
(* Arithmetic of the ring                                                  *)
(***************************************************************************)

\* A number has one remainder: the masked index is determined by the number
\* of whole turns round the buffer.
LEMMA UniqueRemainder ==
  ASSUME NEW q \in Nat, NEW r \in 0..(Capacity - 1)
  PROVE  (Capacity * q + r) % Capacity = r
<1> DEFINE x == Capacity * q + r
           d == x \div Capacity
           m == x % Capacity
<1>0. Capacity \in Nat \ {0}
  BY CapacityAssumption
<1>1. x \in Nat
  BY <1>0
<1>2. d \in Nat /\ m \in 0..(Capacity - 1) /\ x = Capacity * d + m
  BY <1>0, <1>1
<1> DEFINE Q == Capacity * q
           D == Capacity * d
<1>a. Q \in Nat /\ D \in Nat /\ Q + r = D + m
  BY <1>0, <1>2
<1>3. CASE d = q
  BY <1>2, <1>3, <1>0
<1>4. CASE d < q
  <2>1. q - d - 1 \in Nat
    BY <1>4, <1>2
  <2>2. Capacity * (q - d - 1) \in Nat
    BY <2>1, <1>0
  <2>3. Capacity * (q - d - 1) = Capacity * q - Capacity * d - Capacity
    BY <1>0, <1>2
  <2>4. Q - D = m - r
    <3> HIDE DEF Q, D, m
    <3> QED  BY <1>a, <1>2
  <2>5. QED
    BY <2>2, <2>3, <2>4, <1>2, <1>0
<1>5. CASE d > q
  <2>1. d - q - 1 \in Nat
    BY <1>5, <1>2
  <2>2. Capacity * (d - q - 1) \in Nat
    BY <2>1, <1>0
  <2>3. Capacity * (d - q - 1) = Capacity * d - Capacity * q - Capacity
    BY <1>0, <1>2
  <2>4. D - Q = r - m
    <3> HIDE DEF Q, D, m
    <3> QED  BY <1>a, <1>2
  <2>5. QED
    BY <2>2, <2>3, <2>4, <1>2, <1>0
<1>6. QED
  BY <1>2, <1>3, <1>4, <1>5

\* Every position is so many turns plus its slot.
LEMMA SlotDecomposition ==
  ASSUME NEW k \in Nat \ {0}
  PROVE  /\ Slot(k) \in Slots
         /\ \E q \in Nat : k - 1 = Capacity * q + Slot(k)
<1>0. Capacity \in Nat \ {0} /\ k - 1 \in Nat
  BY CapacityAssumption
<1>1. Slot(k) \in Slots
  BY <1>0 DEF Slot, Slots
<1>2. /\ (k - 1) \div Capacity \in Nat
      /\ k - 1 = Capacity * ((k - 1) \div Capacity) + ((k - 1) % Capacity)
  BY <1>0
<1>3. QED
  BY <1>1, <1>2 DEF Slot

\* (i + 1) & mask takes the slot of one item to the slot of the next.
LEMMA SlotNext ==
  ASSUME NEW k \in Nat \ {0}
  PROVE  NextIndex(Slot(k)) = Slot(k + 1)
<1>0. Capacity \in Nat \ {0}
  BY CapacityAssumption
<1>1. PICK q \in Nat : k - 1 = Capacity * q + Slot(k)
  BY SlotDecomposition
<1>2. Slot(k) \in 0..(Capacity - 1)
  BY SlotDecomposition DEF Slots
<1>3. CASE Slot(k) + 1 < Capacity
  <2>1. Slot(k) + 1 \in 0..(Capacity - 1)
    BY <1>2, <1>3, <1>0
  <2>2. (Capacity * q + (Slot(k) + 1)) % Capacity = Slot(k) + 1
    BY <2>1, UniqueRemainder
  <2>3. k = Capacity * q + (Slot(k) + 1)
    BY <1>1, <1>2, <1>0
  <2>4. Slot(k + 1) = Slot(k) + 1
    BY <2>2, <2>3 DEF Slot
  <2>5. NextIndex(Slot(k)) = Slot(k) + 1
    BY <2>1, <1>0 DEF NextIndex
  <2>6. QED
    BY <2>4, <2>5
<1>4. CASE Slot(k) + 1 = Capacity
  <2>1. (Capacity * (q + 1) + 0) % Capacity = 0
    BY UniqueRemainder, <1>0
  <2>2. k = Capacity * (q + 1) + 0
    BY <1>1, <1>2, <1>4, <1>0
  <2>3. Slot(k + 1) = 0
    BY <2>1, <2>2 DEF Slot
  <2>4. NextIndex(Slot(k)) = 0
    BY <1>4, <1>0 DEF NextIndex
  <2>5. QED
    BY <2>3, <2>4
<1>5. QED
  BY <1>2, <1>3, <1>4, <1>0

\* One turn later the slot is the same.
LEMMA SlotLap ==
  ASSUME NEW k \in Nat \ {0}
  PROVE  Slot(k + Capacity) = Slot(k)
<1>0. Capacity \in Nat \ {0}
  BY CapacityAssumption
<1>1. PICK q \in Nat : k - 1 = Capacity * q + Slot(k)
  BY SlotDecomposition
<1>2. Slot(k) \in 0..(Capacity - 1)
  BY SlotDecomposition DEF Slots
<1>3. (Capacity * (q + 1) + Slot(k)) % Capacity = Slot(k)
  BY <1>2, UniqueRemainder
<1>4. (k + Capacity) - 1 = Capacity * (q + 1) + Slot(k)
  BY <1>1, <1>2, <1>0
<1>5. Slot(k + Capacity) = ((k + Capacity) - 1) % Capacity
  BY DEF Slot
<1>6. QED
  BY <1>3, <1>4, <1>5, Zenon

\* Positions less than a turn apart have different slots.
LEMMA SlotInjective ==
  ASSUME NEW j \in Nat \ {0}, NEW k \in Nat \ {0}, j < k, k < j + Capacity
  PROVE  Slot(j) # Slot(k)
<1>0. Capacity \in Nat \ {0}
  BY CapacityAssumption
<1>1. PICK q \in Nat : j - 1 = Capacity * q + Slot(j)
  BY SlotDecomposition
<1>2. PICK r \in Nat : k - 1 = Capacity * r + Slot(k)
  BY SlotDecomposition
<1>3. Slot(j) \in 0..(Capacity - 1) /\ Slot(k) \in 0..(Capacity - 1)
  BY SlotDecomposition DEF Slots
<1>4. SUFFICES ASSUME Slot(j) = Slot(k) PROVE FALSE
  OBVIOUS
<1>5. k - j = Capacity * r - Capacity * q
  BY <1>0, <1>1, <1>2, <1>3, <1>4
<1>6. CASE r <= q
  <2>1. q - r \in Nat
    BY <1>6
  <2>2. Capacity * (q - r) \in Nat
    BY <2>1, <1>0
  <2>3. Capacity * (q - r) = Capacity * q - Capacity * r
    BY <1>0
  <2>4. QED
    BY <2>2, <2>3, <1>5, <1>0
<1>7. CASE r > q
  <2>1. r - q - 1 \in Nat
    BY <1>7
  <2>2. Capacity * (r - q - 1) \in Nat
    BY <2>1, <1>0
  <2>3. Capacity * (r - q - 1) = Capacity * r - Capacity * q - Capacity
    BY <1>0
  <2>4. QED
    BY <2>2, <2>3, <1>5, <1>0
<1>8. QED
  BY <1>6, <1>7

\* The positions of one turn reach every slot.
LEMMA SlotOnto ==
  ASSUME NEW j \in Nat \ {0}, NEW s \in Slots
  PROVE  \E k \in j..(j + Capacity - 1) : Slot(k) = s
<1>0. Capacity \in Nat \ {0}
  BY CapacityAssumption
<1>1. PICK q \in Nat : j - 1 = Capacity * q + Slot(j)
  BY SlotDecomposition
<1>2. Slot(j) \in 0..(Capacity - 1) /\ s \in 0..(Capacity - 1)
  BY SlotDecomposition DEF Slots
<1>3. CASE s >= Slot(j)
  <2> DEFINE k == j + (s - Slot(j))
  <2>1. k \in j..(j + Capacity - 1)
    BY <1>0, <1>2, <1>3
  <2>2. k - 1 = Capacity * q + s
    BY <1>0, <1>1, <1>2
  <2>3. Slot(k) = s
    BY <2>2, <1>2, UniqueRemainder DEF Slot
  <2>4. QED
    BY <2>1, <2>3
<1>4. CASE s < Slot(j)
  <2> DEFINE k == j + (Capacity - Slot(j)) + s
  <2>1. k \in j..(j + Capacity - 1)
    BY <1>0, <1>2, <1>4
  <2>2. k - 1 = Capacity * (q + 1) + s
    BY <1>0, <1>1, <1>2
  <2>3. Slot(k) = s
    BY <2>2, <1>2, UniqueRemainder DEF Slot
  <2>4. QED
    BY <2>1, <2>3
<1>5. QED
  BY <1>2, <1>3, <1>4
-----------------------------------------------------------------------------
(***************************************************************************)
(* The inductive invariant.  Positions count from 1: item k is published   *)
(* by position k + 1 of tail and released by position k + 1 of head, so    *)
(* items Len(heads) .. Len(tails) - 1 are in the ring, and the slots of    *)
(* items Len(tails) .. Len(heads) + Capacity - 1 are free.                 *)
(***************************************************************************)
Active(p) == ppc[p] # "idle"
Filled == \E p \in Producers : ppc[p] = "publish"

\* Both indices walk round the buffer, the consumer knows the position that
\* published the last item it took, and the ring never fills up entirely.
Indices ==
  /\ \A k \in 1..Len(tails) : tails[k] = Slot(k)
  /\ \A k \in 1..Len(heads) : heads[k] = Slot(k)
  /\ Len(heads) <= cview
  /\ Len(tails) < Len(heads) + Capacity
  /\ ~Live => cview = Len(tails)

\* A producer with view v would load the newest tail, and no head so old that
\* the items since then would not fit in the ring.
Synced(v) == v.t = Len(tails) /\ Len(tails) < v.h + Capacity

\* One producer at a time is inside try_push; when it found room there is
\* room as far as the head it acquired tells.
Pushing ==
  \A p \in Producers : Active(p) =>
    /\ Live
    /\ Synced(view[p])
    /\ ptail[p] = Slot(Len(tails))
    /\ pitem[p] \in Items
    /\ ppc[p] # "head" => Len(tails) + 1 < view[p].h + Capacity
    /\ ppc[p] = "publish" => buffer[Slot(Len(tails))] = pitem[p]
    /\ \A q \in Producers : Active(q) => q = p

\* The consumer that found an item acquired the position that published it.
Popping ==
  cpc # "idle" =>
    /\ Live
    /\ ~sawItem
    /\ Len(heads) < cview
    /\ cpc = "advance" => /\ citem = accepted[Len(heads)]
                          /\ buffer[Slot(Len(heads))] = Uninit

\* The ring holds the accepted items not yet taken, and nothing else.
Contents ==
  /\ \A k \in Len(heads)..(Len(tails) - 1) :
       (k = Len(heads) /\ cpc = "advance") \/ buffer[Slot(k)] = accepted[k]
  /\ \A k \in Len(tails)..(Len(heads) + Capacity - 1) :
       (k = Len(tails) /\ Filled) \/ buffer[Slot(k)] = Uninit

\* Which positions publish the last write and the last read of a slot.
Epochs ==
  /\ \A k \in Len(heads)..(Len(tails) - 1) : wroteAt[Slot(k)] = k + 1
  /\ \A k \in Len(tails)..(Len(heads) + Capacity - 1) :
       (k = Len(tails) /\ Filled) \/ wroteAt[Slot(k)] <= Len(tails)
  /\ Filled => wroteAt[Slot(Len(tails))] = Len(tails) + 1
  /\ \A k \in Len(heads)..(Len(heads) + Capacity - 1) :
       \/ k = Len(heads) /\ cpc = "advance"
       \/ readAt[Slot(k)] = 1
       \/ readAt[Slot(k)] + Capacity <= k + 1
  /\ cpc = "advance" => readAt[Slot(Len(heads))] = Len(heads) + 1

\* The histories record what the indices count.
Histories ==
  /\ Len(accepted) + 1 = Len(tails)
  /\ Len(got) + Len(released) + 1 = Len(heads)
  /\ \A i \in 1..Len(got) : got[i] = accepted[i]
  /\ \A i \in 1..Len(released) : released[i] = accepted[Len(got) + i]
  /\ Live => released = << >>
  /\ life = "dropped" => Len(heads) = Len(tails)

\* What is_empty() == false tells the consumer.
ItemSeen == Live /\ sawItem => Len(heads) < cview

RingInv ==
  /\ TypeOK
  /\ Indices
  /\ Pushing
  /\ Popping
  /\ Contents
  /\ Epochs
  /\ Histories
  /\ ItemSeen

\* What is_full() == false tells the producer.
RoomSeen ==
  \A p \in Producers : sawRoom[p] =>
    /\ ppc[p] \in {"idle", "head"}
    /\ Len(tails) + 1 < view[p].h + Capacity

\* With a single producer, its view is always up to date.
IInv == RingInv /\ RoomSeen /\ \A p \in Producers : Synced(view[p])

-----------------------------------------------------------------------------
(***************************************************************************)
(* Facts about slots and sequences, in the form the steps use              *)
(***************************************************************************)

\* The lemmas above, quantified.
LEMMA SlotFacts ==
  /\ Capacity \in Nat \ {0}
  /\ \A k \in Nat \ {0} :
       /\ Slot(k) \in Slots
       /\ NextIndex(Slot(k)) = Slot(k + 1)
       /\ Slot(k + Capacity) = Slot(k)
  /\ \A j, k \in Nat \ {0} : j < k /\ k < j + Capacity => Slot(j) # Slot(k)
BY CapacityAssumption, SlotDecomposition, SlotNext, SlotLap, SlotInjective

\* Within one turn every position has a slot of its own.
LEMMA OtherSlots ==
  ASSUME NEW a \in Nat \ {0},
         NEW j \in a..(a + Capacity - 1), NEW k \in a..(a + Capacity - 1), j # k
  PROVE  Slot(j) # Slot(k)
<1>1. j \in Nat \ {0} /\ k \in Nat \ {0} /\ Capacity \in Nat \ {0}
  BY CapacityAssumption
<1>2. CASE j < k
  <2>1. k < j + Capacity
    BY <1>1
  <2>2. QED
    BY <1>1, <1>2, <2>1, SlotInjective
<1>3. CASE k < j
  <2>1. j < k + Capacity
    BY <1>1
  <2>2. QED
    BY <1>1, <1>3, <2>1, SlotInjective
<1>4. QED
  BY <1>1, <1>2, <1>3

\* The last position of a turn that starts one later.
LEMMA TurnEnd ==
  ASSUME NEW a \in Nat, NEW b \in Nat
  PROVE  /\ \A k \in b..(a + Capacity) : k \in b..(a + Capacity - 1) \/ k = a + Capacity
         /\ \A k \in (a + 1)..(a + Capacity) :
              k = a + Capacity \/ (k \in a..(a + Capacity - 1) /\ k # a)
<1>1. Capacity \in Nat \ {0}
  BY CapacityAssumption
<1>2. ASSUME NEW k \in b..(a + Capacity), k # a + Capacity
      PROVE  k \in b..(a + Capacity - 1)
  BY <1>1, <1>2
<1>3. ASSUME NEW k \in (a + 1)..(a + Capacity), k # a + Capacity
      PROVE  k \in a..(a + Capacity - 1) /\ k # a
  BY <1>1, <1>3
<1>4. QED
  BY <1>2, <1>3

\* Appending keeps the elements that were there and adds one.
LEMMA AppendFacts ==
  ASSUME NEW S, NEW s \in Seq(S), NEW e \in S
  PROVE  /\ Append(s, e) \in Seq(S)
         /\ Append(s, e) # << >>
         /\ Len(s) \in Nat
         /\ Len(Append(s, e)) = Len(s) + 1
         /\ \A i \in 1..Len(s) : Append(s, e)[i] = s[i]
         /\ Append(s, e)[Len(s) + 1] = e
OBVIOUS

\* Neither modification order is empty, and the last value of each is the slot
\* of the next item to come.
LEMMA RingFacts ==
  ASSUME TypeOK, Indices
  PROVE  /\ Len(heads) \in Nat \ {0} /\ Len(tails) \in Nat \ {0}
         /\ Len(heads) <= Len(tails)
         /\ cview \in 1..Len(tails)
         /\ Len(accepted) \in Nat /\ Len(got) \in Nat /\ Len(released) \in Nat
         /\ CurHead = Slot(Len(heads))
         /\ CurTail = Slot(Len(tails))
<1>1. Len(heads) \in Nat \ {0} /\ Len(tails) \in Nat \ {0}
  BY SMTT(30) DEF TypeOK
<1>2. cview \in 1..Len(tails) /\ Len(heads) <= cview
  BY DEF TypeOK, Indices
<1>3. CurHead = Slot(Len(heads))
  BY <1>1 DEF Indices, CurHead
<1>4. CurTail = Slot(Len(tails))
  BY <1>1 DEF Indices, CurTail
<1>5. Len(accepted) \in Nat /\ Len(got) \in Nat /\ Len(released) \in Nat
  BY SMTT(30) DEF TypeOK
<1>6. QED
  BY <1>1, <1>2, <1>3, <1>4, <1>5

\* A head that try_push or is_full does not find next to tail is less than a
\* turn behind it, once the view is synchronised: the load proves there is room.
LEMMA RoomFromLoad ==
  ASSUME TypeOK, Indices, NEW p \in Producers, Synced(view[p]),
         NEW h \in HeadReads(p), NextIndex(CurTail) # heads[h]
  PROVE  /\ h \in 1..Len(heads) /\ view[p].h <= h
         /\ Len(tails) + 1 < h + Capacity
<1>1. /\ view[p] \in [t : 1..Len(tails), h : 1..Len(heads)]
      /\ Len(heads) \in Nat \ {0} /\ Len(tails) \in Nat \ {0}
      /\ CurTail = Slot(Len(tails)) /\ Capacity \in Nat \ {0}
  BY RingFacts, CapacityAssumption DEF TypeOK
<1>2. h \in 1..Len(heads) /\ view[p].h <= h
  BY <1>1 DEF HeadReads
<1>3. Len(tails) < h + Capacity
  BY <1>1, <1>2 DEF Synced
<1>4. Len(tails) + 1 # h + Capacity
  <2>1. SUFFICES ASSUME Len(tails) + 1 = h + Capacity PROVE FALSE
    OBVIOUS
  <2>2. NextIndex(CurTail) = Slot(Len(tails) + 1)
    BY <1>1, SlotFacts
  <2>3. Slot(h + Capacity) = Slot(h)
    BY <1>2, SlotFacts
  <2>4. heads[h] = Slot(h)
    BY <1>2 DEF Indices
  <2>5. QED
    BY <2>1, <2>2, <2>3, <2>4
<1>5. QED
  BY <1>1, <1>2, <1>3, <1>4

\* What Pushing says of the one producer inside try_push.
LEMMA ActiveFacts ==
  ASSUME TypeOK, Pushing, NEW p \in Producers, ppc[p] # "idle"
  PROVE  /\ Live
         /\ view[p] \in [t : 1..Len(tails), h : 1..Len(heads)]
         /\ Synced(view[p])
         /\ ptail[p] = Slot(Len(tails))
         /\ pitem[p] \in Items
         /\ ppc[p] # "head" => Len(tails) + 1 < view[p].h + Capacity
         /\ ppc[p] = "publish" => buffer[Slot(Len(tails))] = pitem[p]
         /\ \A q \in Producers : ppc[q] # "idle" => q = p
<1>1. Active(p)
  BY DEF Active
<1>2. view[p] \in [t : 1..Len(tails), h : 1..Len(heads)]
  BY DEF TypeOK
<1>3. QED
  BY <1>1, <1>2 DEF Pushing, Active

\* Pushing holds when no producer is inside try_push.
LEMMA NoneActive ==
  ASSUME \A q \in Producers : ppc[q] = "idle"
  PROVE  Pushing /\ ~Filled
BY DEF Pushing, Active, Filled

-----------------------------------------------------------------------------
(***************************************************************************)
(* Every step preserves RingInv: one lemma per action.                     *)
(***************************************************************************)

\* The load of tail: allowed to a producer with an up-to-date view while no
\* other is inside try_push.
LEMMA LoadTailStep ==
  ASSUME RingInv, NEW p \in Producers, NEW item \in Items, LoadTail(p, item),
         Synced(view[p]), \A q \in Producers : ~Active(q)
  PROVE  RingInv'
<1> USE DEF LoadTail, popVars
<1>0. /\ TypeOK /\ Indices /\ Pushing /\ Popping /\ Contents /\ Epochs
      /\ Histories /\ ItemSeen /\ Live
  BY DEF RingInv
<1>1. /\ Len(tails) \in Nat \ {0} /\ CurTail = Slot(Len(tails))
      /\ Slot(Len(tails)) \in Slots
  BY <1>0, RingFacts, SlotFacts
<1>2. ptail' = [ptail EXCEPT ![p] = Slot(Len(tails))]
  <2>1. PICK t \in TailReads(p) : ptail' = [ptail EXCEPT ![p] = tails[t]]
    OBVIOUS
  <2>2. t = Len(tails)
    BY <2>1, <1>1 DEF TailReads, Synced
  <2>3. QED
    BY <2>1, <2>2, <1>1 DEF CurTail
<1>3. TypeOK'
  BY <1>0, <1>1, <1>2 DEF TypeOK
<1>4. Indices'
  BY <1>0 DEF Indices, Live
<1>5. Pushing'
  BY <1>0, <1>2, SMTT(30) DEF Pushing, Active, Synced, Live, TypeOK
<1>6. Popping'
  BY <1>0 DEF Popping, Live
<1>7. ~Filled /\ ~Filled'
  BY <1>0 DEF Filled, Active, TypeOK
<1>8. Contents'
  BY <1>0, <1>7 DEF Contents
<1>9. Epochs'
  BY <1>0, <1>7 DEF Epochs
<1>10. Histories' /\ ItemSeen'
  BY <1>0 DEF Histories, ItemSeen, Live
<1>11. QED
  BY <1>3, <1>4, <1>5, <1>6, <1>8, <1>9, <1>10 DEF RingInv

\* try_push gives up: nothing but the view and the pc changed.
LEMMA RefuseFullStep ==
  ASSUME RingInv, NEW p \in Producers, RefuseFull(p)
  PROVE  RingInv'
<1> USE DEF RefuseFull, popVars
<1>0. /\ TypeOK /\ Indices /\ Pushing /\ Popping /\ Contents /\ Epochs
      /\ Histories /\ ItemSeen
  BY DEF RingInv
<1>1. PICK h \in HeadReads(p) : view' = [view EXCEPT ![p] = [t |-> view[p].t, h |-> h]]
  BY DEF AcquireHead
<1>c. /\ view[p] \in [t : 1..Len(tails), h : 1..Len(heads)]
      /\ Len(heads) \in Nat \ {0} /\ Len(tails) \in Nat \ {0}
  BY <1>0, ActiveFacts, RingFacts
<1>d. h \in 1..Len(heads)
  BY <1>1, <1>c DEF HeadReads
<1>2. TypeOK'
  BY <1>0, <1>1, <1>c, <1>d DEF TypeOK
<1>3. Indices'
  BY <1>0 DEF Indices, Live
<1>a. \A q \in Producers : ppc[q] # "idle" => q = p
  BY <1>0, ActiveFacts
<1>b. \A q \in Producers : ppc'[q] = "idle"
  BY <1>0, <1>a DEF TypeOK
<1>4. Pushing' /\ ~Filled'
  BY <1>b DEF Pushing, Active, Filled
<1>5. Popping'
  BY <1>0 DEF Popping, Live
<1>6. ~Filled
  BY <1>a DEF Filled
<1>7. Contents'
  BY <1>0, <1>4, <1>6 DEF Contents
<1>8. Epochs'
  BY <1>0, <1>4, <1>6 DEF Epochs
<1>9. Histories' /\ ItemSeen'
  BY <1>0 DEF Histories, ItemSeen, Live
<1>10. QED
  BY <1>2, <1>3, <1>4, <1>5, <1>7, <1>8, <1>9 DEF RingInv

\* The acquired head leaves room: by the ring arithmetic a head that is not
\* next to tail is less than a turn behind it.
LEMMA FindRoomStep ==
  ASSUME RingInv, NEW p \in Producers, FindRoom(p)
  PROVE  RingInv'
<1> USE DEF FindRoom, popVars
<1>0. /\ TypeOK /\ Indices /\ Pushing /\ Popping /\ Contents /\ Epochs
      /\ Histories /\ ItemSeen
  BY DEF RingInv
<1>1. PICK h \in HeadReads(p) : /\ NextIndex(ptail[p]) # heads[h]
                              /\ view' = [view EXCEPT ![p] = [t |-> view[p].t, h |-> h]]
  BY DEF AcquireHead, IsFullAt
<1>2. /\ Active(p) /\ Synced(view[p]) /\ ptail[p] = Slot(Len(tails))
      /\ \A q \in Producers : Active(q) => q = p
  BY <1>0, ActiveFacts DEF Active
<1>a. /\ view[p] \in [t : 1..Len(tails), h : 1..Len(heads)]
      /\ Len(heads) \in Nat \ {0} /\ Len(tails) \in Nat \ {0}
  BY <1>0, ActiveFacts, RingFacts
<1>b. CurTail = Slot(Len(tails)) /\ Len(tails) < h + Capacity
      /\ h \in 1..Len(heads) /\ view[p].h <= h /\ Len(tails) + 1 < h + Capacity
  <2>1. CurTail = Slot(Len(tails))
    BY <1>0, RingFacts
  <2>2. h \in 1..Len(heads) /\ view[p].h <= h /\ Len(tails) + 1 < h + Capacity
    BY <2>1, <1>0, <1>1, <1>2, RoomFromLoad
  <2>3. Len(tails) < h + Capacity
    BY <2>2, <1>a, CapacityAssumption
  <2>4. QED
    BY <2>1, <2>2, <2>3
<1>5. TypeOK'
  BY <1>0, <1>1, <1>a, <1>b DEF TypeOK
<1>6. Indices'
  BY <1>0 DEF Indices, Live
<1>c. /\ ppc' = [ppc EXCEPT ![p] = "write"]
      /\ view'[p].t = Len(tails) /\ view'[p].h = h
      /\ Live /\ pitem[p] \in Items
  BY <1>0, <1>1, <1>2, ActiveFacts DEF Synced, TypeOK
<1>7. Pushing'
  <2>1. \A q \in Producers : Active(q)' => q = p
    BY <1>0, <1>2 DEF Active, TypeOK
  <2>2. Synced(view[p])'
    BY <1>c, <1>b DEF Synced
  <2>3. ppc'[p] = "write"
    BY <1>0 DEF TypeOK
  <2>4. Len(tails') + 1 < view'[p].h + Capacity
    BY <1>c, <1>b
  <2>5. QED
    BY <1>c, <1>2, <2>1, <2>2, <2>3, <2>4 DEF Pushing, Live
<1>8. Popping'
  BY <1>0 DEF Popping, Live
<1>9. ~Filled /\ ~Filled'
  BY <1>0, <1>2 DEF Filled, Active, TypeOK
<1>10. Contents'
  BY <1>0, <1>9 DEF Contents
<1>11. Epochs'
  BY <1>0, <1>9 DEF Epochs
<1>12. Histories' /\ ItemSeen'
  BY <1>0 DEF Histories, ItemSeen, Live
<1>13. QED
  BY <1>5, <1>6, <1>7, <1>8, <1>10, <1>11, <1>12 DEF RingInv

\* The slot that is written is nobody else's: it is that of the next item, and
\* the ring is not full.
LEMMA WriteSlotStep ==
  ASSUME RingInv, NEW p \in Producers, WriteSlot(p)
  PROVE  RingInv'
<1> USE DEF WriteSlot, popVars
<1>0. /\ TypeOK /\ Indices /\ Pushing /\ Popping /\ Contents /\ Epochs
      /\ Histories /\ ItemSeen
  BY DEF RingInv
<1>1. /\ Live /\ Synced(view[p]) /\ ptail[p] = Slot(Len(tails))
      /\ pitem[p] \in Items /\ Len(tails) + 1 < view[p].h + Capacity
      /\ \A q \in Producers : ppc[q] # "idle" => q = p
  BY <1>0, ActiveFacts
<1>2. /\ Len(heads) \in Nat \ {0} /\ Len(tails) \in Nat \ {0}
      /\ Len(heads) <= Len(tails) /\ cview \in 1..Len(tails)
      /\ Len(tails) < Len(heads) + Capacity
      /\ Capacity \in Nat \ {0} /\ Slot(Len(tails)) \in Slots
  BY <1>0, RingFacts, SlotFacts DEF Indices
<1>3. \A k \in Len(heads)..(Len(heads) + Capacity - 1) :
        k # Len(tails) => Slot(k) # Slot(Len(tails))
  <2>1. Len(tails) \in Len(heads)..(Len(heads) + Capacity - 1)
    BY <1>2
  <2>2. QED
    BY <1>2, <2>1, OtherSlots
<1>4. \A k \in Len(heads)..(Len(heads) + Capacity - 1) : Slot(k) \in Slots
  BY <1>2, SlotFacts
<1>5. /\ buffer' = [buffer EXCEPT ![Slot(Len(tails))] = pitem[p]]
      /\ wroteAt' = [wroteAt EXCEPT ![Slot(Len(tails))] = Len(tails) + 1]
      /\ buffer'[Slot(Len(tails))] = pitem[p]
      /\ wroteAt'[Slot(Len(tails))] = Len(tails) + 1
  BY <1>0, <1>1, <1>2 DEF TypeOK
<1>6. \A k \in Len(heads)..(Len(heads) + Capacity - 1) : k # Len(tails) =>
        buffer'[Slot(k)] = buffer[Slot(k)] /\ wroteAt'[Slot(k)] = wroteAt[Slot(k)]
  BY <1>0, <1>3, <1>4, <1>5 DEF TypeOK
<1>7. ppc'[p] = "publish" /\ Filled' /\ ~Filled
  BY <1>0, <1>1 DEF Filled, TypeOK
<1>8. TypeOK'
  <2>1. buffer' \in [Slots -> Items \cup {Uninit}]
    BY <1>0, <1>1, <1>2, <1>5 DEF TypeOK
  <2>2. wroteAt' \in [Slots -> Nat]
    <3>1. Len(tails) + 1 \in Nat
      BY <1>2
    <3>2. wroteAt \in [Slots -> Nat]
      BY <1>0 DEF TypeOK
    <3>3. QED
      BY <3>1, <3>2, <1>5
  <2>3. ppc' \in [Producers -> {"idle", "head", "write", "publish"}]
    BY <1>0 DEF TypeOK
  <2>4. QED
    BY <1>0, <2>1, <2>2, <2>3 DEF TypeOK
<1>9. Indices'
  BY <1>0 DEF Indices, Live
<1>10. Pushing'
  <2>1. \A q \in Producers : Active(q)' => q = p
    BY <1>0, <1>1 DEF Active, TypeOK
  <2>2. QED
    BY <1>1, <1>5, <1>7, <2>1 DEF Pushing, Live, Synced
<1>11. Popping'
  <2>1. SUFFICES ASSUME cpc = "advance"
                 PROVE  buffer'[Slot(Len(heads))] = Uninit
    BY <1>0 DEF Popping, Live
  <2>2. Len(heads) < Len(tails) /\ buffer[Slot(Len(heads))] = Uninit
    BY <2>1, <1>0, <1>2 DEF Popping
  <2>3. QED
    BY <2>2, <1>2, <1>6
<1>12. Contents'
  <2>1. \A k \in Len(heads)..(Len(tails) - 1) :
          (k = Len(heads) /\ cpc = "advance") \/ buffer'[Slot(k)] = accepted[k]
    BY <1>0, <1>2, <1>6 DEF Contents
  <2>2. \A k \in Len(tails)..(Len(heads) + Capacity - 1) :
          k = Len(tails) \/ buffer'[Slot(k)] = Uninit
    BY <1>0, <1>2, <1>6, <1>7 DEF Contents
  <2>3. QED
    BY <2>1, <2>2, <1>7 DEF Contents
<1>13. Epochs'
  <2>1. \A k \in Len(heads)..(Len(tails) - 1) : wroteAt'[Slot(k)] = k + 1
    BY <1>0, <1>2, <1>6 DEF Epochs
  <2>2. \A k \in Len(tails)..(Len(heads) + Capacity - 1) :
          k = Len(tails) \/ wroteAt'[Slot(k)] <= Len(tails)
    BY <1>0, <1>2, <1>6, <1>7 DEF Epochs
  <2>3. QED
    BY <2>1, <2>2, <1>0, <1>5, <1>7 DEF Epochs
<1>14. Histories' /\ ItemSeen'
  BY <1>0 DEF Histories, ItemSeen, Live
<1>15. QED
  BY <1>8, <1>9, <1>10, <1>11, <1>12, <1>13, <1>14 DEF RingInv

\* Publishing item Len(tails) makes it the last of the ring's items.
LEMMA PublishStep ==
  ASSUME RingInv, NEW p \in Producers, Publish(p)
  PROVE  RingInv'
<1> USE DEF Publish, popVars
<1> DEFINE T == Len(tails)
           H == Len(heads)
<1>0. /\ TypeOK /\ Indices /\ Pushing /\ Popping /\ Contents /\ Epochs
      /\ Histories /\ ItemSeen
  BY DEF RingInv
<1>1. /\ Live /\ ptail[p] = Slot(T) /\ pitem[p] \in Items
      /\ view[p] \in [t : 1..T, h : 1..H]
      /\ T + 1 < view[p].h + Capacity
      /\ buffer[Slot(T)] = pitem[p]
      /\ \A q \in Producers : ppc[q] # "idle" => q = p
  BY <1>0, ActiveFacts
<1>2. /\ H \in Nat \ {0} /\ T \in Nat \ {0} /\ H <= T /\ cview \in 1..T
      /\ Capacity \in Nat \ {0}
      /\ Slot(T + 1) \in Slots /\ NextIndex(Slot(T)) = Slot(T + 1)
  <2>1. H \in Nat \ {0} /\ T \in Nat \ {0} /\ H <= T /\ cview \in 1..T
    BY <1>0, RingFacts
  <2>2. T + 1 \in Nat \ {0}
    BY <2>1
  <2>3. QED
    BY <2>1, <2>2, SlotFacts
<1>3. /\ tails' \in Seq(Slots) /\ tails' # << >> /\ Len(tails') = T + 1
      /\ \A k \in 1..T : tails'[k] = tails[k]
      /\ tails'[T + 1] = Slot(T + 1)
  <2>1. tails \in Seq(Slots) /\ tails' = Append(tails, Slot(T + 1))
    BY <1>0, <1>1, <1>2 DEF TypeOK
  <2>2. QED
    BY <2>1, <1>2, AppendFacts
<1>4. /\ accepted' \in Seq(Items) /\ Len(accepted) + 1 = T
      /\ Len(accepted') = T
      /\ \A k \in 1..(T - 1) : accepted'[k] = accepted[k]
      /\ accepted'[T] = pitem[p]
  <2>1. accepted \in Seq(Items) /\ accepted' = Append(accepted, pitem[p])
        /\ Len(accepted) + 1 = T
    BY <1>0 DEF TypeOK, Histories
  <2>2. QED
    BY <2>1, <1>1, <1>2, AppendFacts
<1>5. Filled /\ (\A q \in Producers : ppc'[q] = "idle")
  BY <1>0, <1>1 DEF Filled, TypeOK
<1>6. ~Filled' /\ Pushing'
  BY <1>5 DEF Filled, Pushing, Active
<1>7. TypeOK'
  <2>1. view' \in [Producers -> [t : 1..Len(tails'), h : 1..Len(heads)]]
    BY <1>0, <1>1, <1>2, <1>3, SMTT(30) DEF TypeOK
  <2>2. cview' \in 1..Len(tails')
    BY <1>2, <1>3
  <2>3. QED
    BY <1>0, <2>1, <2>2, <1>3, <1>4 DEF TypeOK
<1>8. Indices'
  <2>1. \A k \in 1..(T + 1) : tails'[k] = Slot(k)
    BY <1>0, <1>2, <1>3 DEF Indices
  <2>2. T + 1 < H + Capacity
    BY <1>1, <1>2
  <2>3. QED
    BY <2>1, <2>2, <1>0, <1>1, <1>3 DEF Indices, Live
<1>9. Popping'
  <2>1. SUFFICES ASSUME cpc # "idle"
                 PROVE  /\ H < cview
                        /\ cpc = "advance" => /\ citem = accepted'[H]
                                              /\ buffer[Slot(H)] = Uninit
    BY <1>0, <1>1 DEF Popping, Live
  <2>2. H \in 1..(T - 1)
    BY <2>1, <1>0, <1>2 DEF Popping
  <2>3. QED
    BY <2>1, <2>2, <1>0, <1>4 DEF Popping
<1>10. Contents'
  <2>1. \A k \in H..T : (k = H /\ cpc = "advance") \/ buffer[Slot(k)] = accepted'[k]
    <3>1. \A k \in H..(T - 1) :
            (k = H /\ cpc = "advance") \/ buffer[Slot(k)] = accepted'[k]
      BY <1>0, <1>2, <1>4 DEF Contents
    <3>2. buffer[Slot(T)] = accepted'[T]
      BY <1>1, <1>4
    <3>3. \A k \in H..T : k = T \/ k \in H..(T - 1)
      BY <1>2
    <3>4. QED
      BY <3>1, <3>2, <3>3
  <2>2. \A k \in (T + 1)..(H + Capacity - 1) : buffer[Slot(k)] = Uninit
    BY <1>0, <1>2 DEF Contents
  <2>3. buffer' = buffer /\ heads' = heads /\ cpc' = cpc /\ T = Len(tails') - 1
    BY <1>2, <1>3
  <2>4. QED
    BY <2>1, <2>2, <2>3, <1>3 DEF Contents
<1>11. Epochs'
  <2>1. \A k \in H..T : wroteAt[Slot(k)] = k + 1
    <3>1. \A k \in H..(T - 1) : wroteAt[Slot(k)] = k + 1
      BY <1>0 DEF Epochs
    <3>2. wroteAt[Slot(T)] = T + 1
      BY <1>0, <1>5 DEF Epochs
    <3>3. \A k \in H..T : k = T \/ k \in H..(T - 1)
      BY <1>2
    <3>4. QED
      BY <3>1, <3>2, <3>3
  <2>2. \A k \in (T + 1)..(H + Capacity - 1) : wroteAt[Slot(k)] <= T + 1
    <3>1. \A k \in (T + 1)..(H + Capacity - 1) : wroteAt[Slot(k)] <= T
      BY <1>0, <1>2 DEF Epochs
    <3>2. \A k \in (T + 1)..(H + Capacity - 1) : wroteAt[Slot(k)] \in Nat
      <4>0. \A k \in (T + 1)..(H + Capacity - 1) : k \in Nat \ {0}
        BY <1>2
      <4>1. \A k \in (T + 1)..(H + Capacity - 1) : Slot(k) \in Slots
        BY <4>0, SlotFacts
      <4>2. QED
        BY <4>1, <1>0 DEF TypeOK
    <3>3. QED
      BY <3>1, <3>2, <1>2
  <2>3. QED
    BY <2>1, <2>2, <1>0, <1>2, <1>3, <1>6 DEF Epochs
<1>12. Histories'
  <2>1. \A i \in 1..Len(got) : got[i] = accepted'[i]
    <3>1. Len(got) \in Nat /\ Len(released) \in Nat
      BY <1>0, RingFacts
    <3>2. Len(got) + Len(released) + 1 = H
      BY <1>0 DEF Histories
    <3>3. \A i \in 1..Len(got) : i \in 1..(T - 1) /\ got[i] = accepted[i]
      BY <3>1, <3>2, <1>0, <1>2 DEF Histories
    <3>4. QED
      BY <3>3, <1>4
  <2>2. released = << >>
    BY <1>0, <1>1 DEF Histories
  <2>3. QED
    <3>1. \A i \in 1..Len(released) : released[i] = accepted'[Len(got) + i]
      BY <2>2
    <3>2. Len(accepted') + 1 = Len(tails')
      BY <1>2, <1>3, <1>4
    <3>3. QED
      BY <2>1, <2>2, <3>1, <3>2, <1>0, <1>1 DEF Histories, Live
<1>13. ItemSeen'
  BY <1>0 DEF ItemSeen, Live
<1>14. QED
  BY <1>6, <1>7, <1>8, <1>9, <1>10, <1>11, <1>12, <1>13 DEF RingInv

\* The consumer's loads of tail: whatever position it acquires, the ring is
\* unchanged and the position is not behind its own head.
LEMMA FindEmptyStep ==
  ASSUME RingInv, FindEmpty
  PROVE  RingInv'
<1> USE DEF FindEmpty, pushVars, popVars
<1>0. /\ TypeOK /\ Indices /\ Pushing /\ Popping /\ Contents /\ Epochs
      /\ Histories /\ ItemSeen /\ Live
  BY DEF RingInv
<1>1. /\ Len(tails) \in Nat \ {0} /\ cview \in 1..Len(tails)
      /\ Len(heads) \in Nat \ {0}
  BY <1>0, RingFacts
<1>2. cview' \in cview..Len(tails)
  BY DEF ConsumerReads
<1>3. cview' \in 1..Len(tails) /\ cview <= cview'
  BY <1>1, <1>2
<1>4. TypeOK'
  BY <1>0, <1>3 DEF TypeOK
<1>5. Len(heads) <= cview'
  BY <1>0, <1>1, <1>3 DEF Indices
<1>6. Indices'
  BY <1>0, <1>5 DEF Indices, Live
<1>7. Pushing' /\ Popping' /\ ItemSeen'
  BY <1>0 DEF Pushing, Popping, ItemSeen, Active, Synced, Live
<1>8. Contents' /\ Epochs' /\ Histories'
  BY <1>0 DEF Contents, Epochs, Histories, Filled, Live
<1>9. QED
  BY <1>4, <1>6, <1>7, <1>8 DEF RingInv

LEMMA FindItemStep ==
  ASSUME RingInv, FindItem
  PROVE  RingInv'
<1> USE DEF FindItem, pushVars
<1>0. /\ TypeOK /\ Indices /\ Pushing /\ Popping /\ Contents /\ Epochs
      /\ Histories /\ ItemSeen /\ Live
  BY DEF RingInv
<1>1. /\ Len(tails) \in Nat \ {0} /\ cview \in 1..Len(tails)
      /\ Len(heads) \in Nat \ {0} /\ CurHead = Slot(Len(heads))
  BY <1>0, RingFacts
<1>2. cview' \in cview..Len(tails) /\ tails[cview'] # CurHead
  BY DEF ConsumerReads, IsEmptyAt
<1>3. cview' \in 1..Len(tails) /\ cview <= cview'
  BY <1>1, <1>2
<1>4. Len(heads) < cview'
  <2>1. Len(heads) <= cview'
    BY <1>0, <1>1, <1>3 DEF Indices
  <2>2. cview' # Len(heads)
    BY <1>0, <1>1, <1>2, <1>3 DEF Indices
  <2>3. QED
    BY <1>1, <1>3, <2>1, <2>2
<1>5. TypeOK'
  BY <1>0, <1>3 DEF TypeOK
<1>6. Indices'
  BY <1>0, <1>1, <1>3, <1>4 DEF Indices, Live
<1>7. Pushing'
  BY <1>0 DEF Pushing, Active, Synced, Live
<1>8. Popping' /\ ItemSeen'
  BY <1>0, <1>4 DEF Popping, ItemSeen, Live
<1>9. Contents' /\ Epochs' /\ Histories'
  BY <1>0 DEF Contents, Epochs, Histories, Filled, Live
<1>10. QED
  BY <1>5, <1>6, <1>7, <1>8, <1>9 DEF RingInv

LEMMA IsEmptyStep ==
  ASSUME RingInv, IsEmpty
  PROVE  RingInv'
<1> USE DEF IsEmpty, pushVars, popVars
<1>0. /\ TypeOK /\ Indices /\ Pushing /\ Popping /\ Contents /\ Epochs
      /\ Histories /\ ItemSeen /\ Live
  BY DEF RingInv
<1>1. /\ Len(tails) \in Nat \ {0} /\ cview \in 1..Len(tails)
      /\ Len(heads) \in Nat \ {0} /\ CurHead = Slot(Len(heads))
  BY <1>0, RingFacts
<1>2. /\ cview' \in cview..Len(tails)
      /\ sawItem' = (tails[cview'] # CurHead)
  BY DEF ConsumerReads, IsEmptyAt
<1>3. cview' \in 1..Len(tails) /\ cview <= cview'
  BY <1>1, <1>2
<1>4. Len(heads) <= cview'
  BY <1>0, <1>1, <1>3 DEF Indices
<1>5. ASSUME sawItem' PROVE Len(heads) < cview'
  <2>1. cview' # Len(heads)
    BY <1>0, <1>1, <1>2, <1>3, <1>5 DEF Indices
  <2>2. QED
    BY <1>1, <1>3, <1>4, <2>1
<1>6. TypeOK'
  BY <1>0, <1>2, <1>3 DEF TypeOK
<1>7. Indices'
  BY <1>0, <1>4 DEF Indices, Live
<1>8. Pushing' /\ Popping'
  BY <1>0 DEF Pushing, Popping, Active, Synced, Live
<1>9. ItemSeen'
  BY <1>0, <1>5 DEF ItemSeen, Live
<1>10. Contents' /\ Epochs' /\ Histories'
  BY <1>0 DEF Contents, Epochs, Histories, Filled, Live
<1>11. QED
  BY <1>6, <1>7, <1>8, <1>9, <1>10 DEF RingInv

\* The consumer takes item Len(heads) out of its slot.
LEMMA ReadSlotStep ==
  ASSUME RingInv, ReadSlot
  PROVE  RingInv'
<1> USE DEF ReadSlot, pushVars
<1> DEFINE T == Len(tails)
           H == Len(heads)
           Turn == H..(H + Capacity - 1)
<1>0. /\ TypeOK /\ Indices /\ Pushing /\ Popping /\ Contents /\ Epochs
      /\ Histories /\ ItemSeen /\ Live
  BY DEF RingInv, Popping
<1>1. /\ T \in Nat \ {0} /\ H \in Nat \ {0} /\ CurHead = Slot(H)
      /\ cview \in 1..T /\ Capacity \in Nat \ {0}
  BY <1>0, RingFacts, CapacityAssumption
<1>2. H < cview /\ T < H + Capacity
  BY <1>0 DEF Popping, Indices
<1>3. H < T /\ H \in Turn /\ T \in Turn /\ H \in H..(T - 1)
  BY <1>1, <1>2
<1>4. \A k \in Turn : Slot(k) \in Slots /\ (k # H => Slot(k) # Slot(H))
  <2>1. \A k \in Turn : Slot(k) \in Slots
    BY <1>1, SlotFacts
  <2>2. \A k \in Turn : k # H => Slot(k) # Slot(H)
    BY <1>1, <1>3, OtherSlots
  <2>3. QED
    BY <2>1, <2>2
<1>5. citem' = accepted[H] /\ accepted[H] \in Items
  <2>1. buffer[Slot(H)] = accepted[H]
    BY <1>0, <1>3 DEF Contents
  <2>2. H \in 1..Len(accepted) /\ accepted \in Seq(Items)
    <3>1. Len(accepted) + 1 = T /\ accepted \in Seq(Items)
      BY <1>0 DEF Histories, TypeOK
    <3>2. Len(accepted) \in Nat
      BY <1>0, RingFacts
    <3>3. QED
      BY <3>1, <3>2, <1>1, <1>3
  <2>3. QED
    BY <2>1, <2>2, <1>1
<1>6. /\ buffer' = [buffer EXCEPT ![Slot(H)] = Uninit]
      /\ readAt' = [readAt EXCEPT ![Slot(H)] = H + 1]
  BY <1>1
<1>7. buffer'[Slot(H)] = Uninit /\ readAt'[Slot(H)] = H + 1
  BY <1>0, <1>3, <1>4, <1>6 DEF TypeOK
<1>8. \A k \in Turn : k # H =>
        buffer'[Slot(k)] = buffer[Slot(k)] /\ readAt'[Slot(k)] = readAt[Slot(k)]
  BY <1>0, <1>4, <1>6 DEF TypeOK
<1>9. TypeOK'
  <2>1. buffer' \in [Slots -> Items \cup {Uninit}]
    BY <1>0, <1>6 DEF TypeOK
  <2>2. readAt' \in [Slots -> Nat]
    <3>1. H + 1 \in Nat
      BY <1>1
    <3>2. readAt \in [Slots -> Nat]
      BY <1>0 DEF TypeOK
    <3>3. QED
      BY <3>1, <3>2, <1>6
  <2>3. QED
    BY <1>0, <1>5, <2>1, <2>2 DEF TypeOK
<1>10. Indices'
  BY <1>0 DEF Indices, Live
<1>11. Pushing'
  <2>1. buffer'[Slot(T)] = buffer[Slot(T)]
    BY <1>1, <1>3, <1>8
  <2>2. QED
    BY <2>1, <1>0 DEF Pushing, Active, Synced, Live
<1>12. Popping'
  BY <1>0, <1>2, <1>5, <1>7 DEF Popping, Live
<1>13. Contents'
  <2>1. \A k \in H..(T - 1) : k = H \/ buffer'[Slot(k)] = accepted[k]
    BY <1>0, <1>1, <1>2, <1>8 DEF Contents
  <2>2. \A k \in T..(H + Capacity - 1) :
          (k = T /\ Filled) \/ buffer'[Slot(k)] = Uninit
    BY <1>0, <1>1, <1>3, <1>8 DEF Contents
  <2>3. QED
    BY <2>1, <2>2 DEF Contents, Filled
<1>14. Epochs'
  <2>1. \A k \in Turn : \/ k = H
                        \/ readAt'[Slot(k)] = 1
                        \/ readAt'[Slot(k)] + Capacity <= k + 1
    BY <1>0, <1>8 DEF Epochs
  <2>2. QED
    BY <2>1, <1>0, <1>7 DEF Epochs, Filled
<1>15. Histories' /\ ItemSeen'
  BY <1>0 DEF Histories, ItemSeen, Live
<1>16. QED
  BY <1>9, <1>10, <1>11, <1>12, <1>13, <1>14, <1>15 DEF RingInv

\* head moves on: the slot of item Len(heads) becomes that of the last item of
\* the next turn.
LEMMA AdvanceStep ==
  ASSUME RingInv, Advance
  PROVE  RingInv'
<1> USE DEF Advance, pushVars
<1> DEFINE T == Len(tails)
           H == Len(heads)
<1>0. /\ TypeOK /\ Indices /\ Pushing /\ Popping /\ Contents /\ Epochs
      /\ Histories /\ ItemSeen /\ Live
  BY DEF RingInv, Popping
<1>1. /\ T \in Nat \ {0} /\ H \in Nat \ {0} /\ CurHead = Slot(H)
      /\ cview \in 1..T /\ Capacity \in Nat \ {0}
      /\ Len(accepted) \in Nat /\ Len(got) \in Nat
  BY <1>0, RingFacts, CapacityAssumption
<1>2. H < cview /\ T < H + Capacity /\ citem = accepted[H]
      /\ buffer[Slot(H)] = Uninit /\ readAt[Slot(H)] = H + 1
  BY <1>0 DEF Popping, Indices, Epochs
<1>3. H < T
  BY <1>1, <1>2
<1>4. NextIndex(Slot(H)) = Slot(H + 1) /\ Slot(H + 1) \in Slots
      /\ Slot(H + Capacity) = Slot(H)
  <2>1. H + 1 \in Nat \ {0}
    BY <1>1
  <2>2. QED
    BY <2>1, <1>1, SlotFacts
<1>5. /\ heads' \in Seq(Slots) /\ heads' # << >> /\ Len(heads') = H + 1
      /\ \A k \in 1..H : heads'[k] = heads[k]
      /\ heads'[H + 1] = Slot(H + 1)
  <2>1. heads \in Seq(Slots) /\ heads' = Append(heads, Slot(H + 1))
    BY <1>0, <1>1, <1>4 DEF TypeOK
  <2>2. QED
    BY <2>1, <1>4, AppendFacts
<1>6. /\ Len(accepted) + 1 = T /\ Len(got) + 1 = H /\ released = << >>
      /\ accepted \in Seq(Items) /\ got \in Seq(Items)
  <2>1. /\ Len(accepted) + 1 = T /\ released = << >>
        /\ accepted \in Seq(Items) /\ got \in Seq(Items)
        /\ Len(got) + Len(released) + 1 = H
    BY <1>0 DEF Histories, TypeOK
  <2>2. Len(released) = 0
    BY <2>1
  <2>3. QED
    BY <2>1, <2>2, <1>1
<1>7. accepted[H] \in Items
  BY <1>1, <1>3, <1>6
<1>8. /\ got' \in Seq(Items) /\ Len(got') = H
      /\ \A k \in 1..(H - 1) : got'[k] = got[k]
      /\ got'[H] = accepted[H]
  <2>1. got' = Append(got, accepted[H]) /\ Len(got) = H - 1
    BY <1>1, <1>2, <1>6
  <2>2. QED
    BY <2>1, <1>1, <1>6, <1>7, AppendFacts
<1>9. TypeOK'
  <2>1. view' \in [Producers -> [t : 1..Len(tails), h : 1..Len(heads')]]
    <3>1. 1..H \subseteq 1..(H + 1)
      BY <1>1
    <3>2. QED
      BY <3>1, <1>0, <1>5 DEF TypeOK
  <2>2. QED
    BY <1>0, <1>5, <1>8, <2>1 DEF TypeOK
<1>10. Indices'
  <2>1. \A k \in 1..(H + 1) : heads'[k] = Slot(k)
    BY <1>0, <1>1, <1>5 DEF Indices
  <2>2. H + 1 <= cview /\ T < H + 1 + Capacity
    BY <1>1, <1>2
  <2>3. QED
    BY <2>1, <2>2, <1>0, <1>5 DEF Indices, Live
<1>11. Pushing'
  BY <1>0 DEF Pushing, Active, Synced, Live
<1>12. Popping'
  BY DEF Popping
<1>13. Contents'
  <2>1. \A k \in (H + 1)..(T - 1) : buffer[Slot(k)] = accepted[k]
    BY <1>0, <1>1, SMTT(30) DEF Contents
  <2>2. \A k \in T..(H + Capacity) :
          (k = T /\ Filled) \/ buffer[Slot(k)] = Uninit
    <3>1. \A k \in T..(H + Capacity) : k \in T..(H + Capacity - 1) \/ k = H + Capacity
      BY <1>1, TurnEnd
    <3>2. buffer[Slot(H + Capacity)] = Uninit
      BY <1>2, <1>4
    <3>3. QED
      BY <3>1, <3>2, <1>0 DEF Contents
  <2>3. (H + 1) + Capacity - 1 = H + Capacity
    BY <1>1
  <2>4. QED
    BY <2>1, <2>2, <2>3, <1>5 DEF Contents, Filled
<1>14. Epochs'
  <2>1. \A k \in (H + 1)..(T - 1) : wroteAt[Slot(k)] = k + 1
    BY <1>0, <1>1 DEF Epochs
  <2>2. \A k \in T..(H + Capacity) :
          (k = T /\ Filled) \/ wroteAt[Slot(k)] <= T
    <3>1. \A k \in T..(H + Capacity) : k \in T..(H + Capacity - 1) \/ k = H + Capacity
      BY <1>1, TurnEnd
    <3>2. wroteAt[Slot(H + Capacity)] <= T
      <4>1. H \in H..(T - 1)
        BY <1>1, <1>3
      <4>2. wroteAt[Slot(H)] = H + 1
        BY <4>1, <1>0 DEF Epochs
      <4>3. QED
        BY <4>2, <1>1, <1>3, <1>4
    <3>3. QED
      BY <3>1, <3>2, <1>0 DEF Epochs
  <2>3. \A k \in (H + 1)..(H + Capacity) :
          readAt[Slot(k)] = 1 \/ readAt[Slot(k)] + Capacity <= k + 1
    <3>1. \A k \in (H + 1)..(H + Capacity) :
            k = H + Capacity \/ (k \in H..(H + Capacity - 1) /\ k # H)
      BY <1>1, TurnEnd
    <3>2. readAt[Slot(H + Capacity)] + Capacity <= (H + Capacity) + 1
      BY <1>1, <1>2, <1>4
    <3>3. QED
      BY <3>1, <3>2, <1>0 DEF Epochs
  <2>4. (H + 1) + Capacity - 1 = H + Capacity
    BY <1>1
  <2>5. Filled' = Filled /\ (Filled => wroteAt[Slot(T)] = T + 1)
    BY <1>0 DEF Filled, Epochs
  <2>6. QED
    BY <2>1, <2>2, <2>3, <2>4, <2>5, <1>5 DEF Epochs
<1>15. Histories'
  <2>1. \A i \in 1..Len(got') : got'[i] = accepted[i]
    <3>1. \A i \in 1..(H - 1) : got[i] = accepted[i]
      BY <1>0, <1>1, <1>6 DEF Histories
    <3>2. \A i \in 1..H : i \in 1..(H - 1) \/ i = H
      BY <1>1
    <3>3. QED
      BY <3>1, <3>2, <1>8
  <2>2. Len(got') + Len(released) + 1 = Len(heads')
    BY <1>1, <1>5, <1>6, <1>8
  <2>3. \A i \in 1..Len(released) : released[i] = accepted[Len(got') + i]
    BY <1>6
  <2>4. QED
    BY <2>1, <2>2, <2>3, <1>0, <1>6 DEF Histories, Live
<1>16. ItemSeen'
  BY <1>0 DEF ItemSeen, Popping, Live
<1>17. QED
  BY <1>9, <1>10, <1>11, <1>12, <1>13, <1>14, <1>15, <1>16 DEF RingInv

\* is_full() only moves a view forward.
LEMMA IsFullStep ==
  ASSUME RingInv, NEW p \in Producers, IsFull(p)
  PROVE  RingInv'
<1> USE DEF IsFull, pushVars, popVars
<1>0. /\ TypeOK /\ Indices /\ Pushing /\ Popping /\ Contents /\ Epochs
      /\ Histories /\ ItemSeen
  BY DEF RingInv
<1>1. PICK h \in HeadReads(p) :
        /\ view' = [view EXCEPT ![p] = [t |-> view[p].t, h |-> h]]
        /\ \E b \in BOOLEAN : sawRoom' = [sawRoom EXCEPT ![p] = b]
  BY DEF AcquireHead, IsFullAt
<1>2. /\ Len(heads) \in Nat \ {0} /\ Len(tails) \in Nat \ {0}
      /\ view[p] \in [t : 1..Len(tails), h : 1..Len(heads)]
  BY <1>0, RingFacts DEF TypeOK
<1>3. h \in 1..Len(heads)
  BY <1>1, <1>2 DEF HeadReads
<1>4. TypeOK'
  <2>1. view' \in [Producers -> [t : 1..Len(tails), h : 1..Len(heads)]]
    BY <1>0, <1>1, <1>2, <1>3 DEF TypeOK
  <2>2. sawRoom' \in [Producers -> BOOLEAN]
    BY <1>0, <1>1 DEF TypeOK
  <2>3. QED
    BY <2>1, <2>2, <1>0 DEF TypeOK
<1>5. Indices'
  BY <1>0 DEF Indices, Live
<1>6. Pushing'
  <2>1. \A q \in Producers : ppc[q] # "idle" => view'[q] = view[q]
    BY <1>0, <1>1 DEF TypeOK
  <2>2. QED
    BY <2>1, <1>0 DEF Pushing, Active, Synced, Live
<1>7. Popping' /\ ItemSeen'
  BY <1>0 DEF Popping, ItemSeen, Live
<1>8. Contents' /\ Epochs' /\ Histories'
  BY <1>0 DEF Contents, Epochs, Histories, Filled, Live
<1>9. QED
  BY <1>4, <1>5, <1>6, <1>7, <1>8 DEF RingInv

\* drop() starts when no call is running; its owner is synchronised.
LEMMA BeginDropStep ==
  ASSUME RingInv, BeginDrop
  PROVE  RingInv'
<1> USE DEF BeginDrop, pushVars, popVars
<1>0. /\ TypeOK /\ Indices /\ Contents /\ Epochs /\ Histories /\ Live
  BY DEF RingInv
<1>1. Len(tails) \in Nat \ {0} /\ cview \in 1..Len(tails) /\ Len(heads) \in Nat
  BY <1>0, RingFacts
<1>2. TypeOK'
  <2>1. cview' \in 1..Len(tails) /\ life' \in {"live", "dropping", "dropped"}
    BY <1>1
  <2>2. QED
    BY <2>1, <1>0 DEF TypeOK
<1>3. Indices'
  <2>1. Len(heads) <= Len(tails)
    BY <1>0, RingFacts
  <2>2. QED
    BY <2>1, <1>0 DEF Indices, Live
<1>4. Pushing' /\ Popping'
  BY DEF Pushing, Popping, Active
<1>5. Contents' /\ Epochs'
  BY <1>0 DEF Contents, Epochs, Filled
<1>6. Histories' /\ ItemSeen'
  BY <1>0 DEF Histories, ItemSeen, Live
<1>7. QED
  BY <1>2, <1>3, <1>4, <1>5, <1>6 DEF RingInv

\* drop() releases the oldest item of the ring.
LEMMA DropItemStep ==
  ASSUME RingInv, DropItem
  PROVE  RingInv'
<1> USE DEF DropItem, pushVars, popVars
<1> DEFINE T == Len(tails)
           H == Len(heads)
           Turn == H..(H + Capacity - 1)
<1>0. /\ TypeOK /\ Indices /\ Pushing /\ Popping /\ Contents /\ Epochs
      /\ Histories /\ ItemSeen /\ ~Live
  BY DEF RingInv, Live
<1>1. /\ T \in Nat \ {0} /\ H \in Nat \ {0} /\ CurHead = Slot(H)
      /\ CurTail = Slot(T) /\ H <= T /\ Capacity \in Nat \ {0}
      /\ Len(accepted) \in Nat /\ Len(got) \in Nat /\ Len(released) \in Nat
  BY <1>0, RingFacts, CapacityAssumption
<1>2. (\A q \in Producers : ppc[q] = "idle") /\ cpc = "idle" /\ ~Filled
  <2>1. \A q \in Producers : ppc[q] = "idle"
    BY <1>0 DEF Pushing, Active
  <2>2. QED
    BY <2>1, <1>0 DEF Popping, Filled
<1>3. H < T /\ T < H + Capacity /\ cview = T
  <2>1. H # T
    BY <1>1 DEF IsEmptyAt
  <2>2. QED
    BY <2>1, <1>0, <1>1 DEF Indices
<1>4. H \in Turn /\ H \in H..(T - 1)
  BY <1>1, <1>3
<1>5. \A k \in Turn : Slot(k) \in Slots /\ (k # H => Slot(k) # Slot(H))
  <2>1. \A k \in Turn : Slot(k) \in Slots
    BY <1>1, SlotFacts
  <2>2. \A k \in Turn : k # H => Slot(k) # Slot(H)
    BY <1>1, <1>4, OtherSlots
  <2>3. QED
    BY <2>1, <2>2
<1>6. /\ buffer[Slot(H)] = accepted[H] /\ wroteAt[Slot(H)] = H + 1
      /\ Len(accepted) + 1 = T /\ Len(got) + Len(released) + 1 = H
      /\ accepted \in Seq(Items) /\ released \in Seq(Items)
  BY <1>0, <1>2, <1>4 DEF Contents, Epochs, Histories, TypeOK
<1>7. accepted[H] \in Items
  BY <1>1, <1>3, <1>6
<1>8. NextIndex(Slot(H)) = Slot(H + 1) /\ Slot(H + 1) \in Slots
      /\ Slot(H + Capacity) = Slot(H)
  <2>1. H + 1 \in Nat \ {0}
    BY <1>1
  <2>2. QED
    BY <2>1, <1>1, SlotFacts
<1>9. /\ heads' \in Seq(Slots) /\ heads' # << >> /\ Len(heads') = H + 1
      /\ \A k \in 1..H : heads'[k] = heads[k]
      /\ heads'[H + 1] = Slot(H + 1)
  <2>1. heads \in Seq(Slots) /\ heads' = Append(heads, Slot(H + 1))
    BY <1>0, <1>1, <1>8 DEF TypeOK
  <2>2. QED
    BY <2>1, <1>8, AppendFacts
<1>10. /\ released' \in Seq(Items) /\ Len(released') = Len(released) + 1
       /\ \A i \in 1..Len(released) : released'[i] = released[i]
       /\ released'[Len(released) + 1] = accepted[H]
  <2>1. released' = Append(released, accepted[H])
    BY <1>1, <1>6
  <2>2. QED
    BY <2>1, <1>6, <1>7, AppendFacts
<1>11. /\ buffer' = [buffer EXCEPT ![Slot(H)] = Uninit]
       /\ readAt' = [readAt EXCEPT ![Slot(H)] = H + 1]
  BY <1>1
<1>12. buffer'[Slot(H)] = Uninit /\ readAt'[Slot(H)] = H + 1
  BY <1>0, <1>4, <1>5, <1>11 DEF TypeOK
<1>13. \A k \in Turn : k # H =>
         buffer'[Slot(k)] = buffer[Slot(k)] /\ readAt'[Slot(k)] = readAt[Slot(k)]
  BY <1>0, <1>5, <1>11 DEF TypeOK
<1>14. TypeOK'
  <2>1. buffer' \in [Slots -> Items \cup {Uninit}]
    BY <1>0, <1>11 DEF TypeOK
  <2>2. readAt' \in [Slots -> Nat]
    <3>1. H + 1 \in Nat
      BY <1>1
    <3>2. readAt \in [Slots -> Nat]
      BY <1>0 DEF TypeOK
    <3>3. QED
      BY <3>1, <3>2, <1>11
  <2>3. view' \in [Producers -> [t : 1..Len(tails), h : 1..Len(heads')]]
    <3>1. 1..H \subseteq 1..(H + 1)
      BY <1>1
    <3>2. QED
      BY <3>1, <1>0, <1>9 DEF TypeOK
  <2>4. QED
    BY <1>0, <1>9, <1>10, <2>1, <2>2, <2>3 DEF TypeOK
<1>15. Indices'
  <2>1. \A k \in 1..(H + 1) : heads'[k] = Slot(k)
    BY <1>0, <1>1, <1>9 DEF Indices
  <2>2. H + 1 <= cview /\ T < H + 1 + Capacity
    BY <1>1, <1>3
  <2>3. QED
    BY <2>1, <2>2, <1>0, <1>9 DEF Indices, Live
<1>16. Pushing' /\ Popping' /\ ItemSeen' /\ ~Filled'
  BY <1>0, <1>2 DEF Pushing, Popping, ItemSeen, Active, Filled, Live
<1>17. \A k \in (H + 1)..(H + Capacity) : k = H + Capacity \/ (k \in Turn /\ k # H)
  BY <1>1, TurnEnd
<1>18. (H + 1) + Capacity - 1 = H + Capacity
  BY <1>1
<1>19. Contents'
  <2>1. \A k \in (H + 1)..(T - 1) : buffer'[Slot(k)] = accepted[k]
    BY <1>0, <1>1, <1>2, <1>3, <1>13 DEF Contents
  <2>2. \A k \in T..(H + Capacity) : buffer'[Slot(k)] = Uninit
    <3>1. \A k \in T..(H + Capacity) :
            k = H + Capacity \/ (k \in T..(H + Capacity - 1) /\ k \in Turn /\ k # H)
      <4>1. \A k \in T..(H + Capacity) : k \in T..(H + Capacity - 1) \/ k = H + Capacity
        BY <1>1, TurnEnd
      <4>2. \A k \in T..(H + Capacity - 1) : k \in Turn /\ k # H
        BY <1>1, <1>3
      <4>3. QED
        BY <4>1, <4>2
    <3>2. buffer'[Slot(H + Capacity)] = Uninit
      BY <1>8, <1>12
    <3>3. QED
      BY <3>1, <3>2, <1>0, <1>2, <1>13 DEF Contents
  <2>3. QED
    BY <2>1, <2>2, <1>9, <1>18 DEF Contents
<1>20. Epochs'
  <2>1. \A k \in (H + 1)..(T - 1) : wroteAt[Slot(k)] = k + 1
    <3>1. \A k \in (H + 1)..(T - 1) : k \in H..(T - 1)
      BY <1>1
    <3>2. QED
      BY <3>1, <1>0 DEF Epochs
  <2>2. \A k \in T..(H + Capacity) : wroteAt[Slot(k)] <= T
    <3>1. \A k \in T..(H + Capacity) : k \in T..(H + Capacity - 1) \/ k = H + Capacity
      BY <1>1, TurnEnd
    <3>2. wroteAt[Slot(H + Capacity)] <= T
      BY <1>1, <1>3, <1>6, <1>8
    <3>3. QED
      BY <3>1, <3>2, <1>0, <1>2 DEF Epochs
  <2>3. \A k \in (H + 1)..(H + Capacity) :
          readAt'[Slot(k)] = 1 \/ readAt'[Slot(k)] + Capacity <= k + 1
    <3>1. readAt'[Slot(H + Capacity)] + Capacity <= (H + Capacity) + 1
      BY <1>1, <1>8, <1>12
    <3>2. QED
      BY <3>1, <1>0, <1>2, <1>13, <1>17 DEF Epochs
  <2>4. QED
    BY <2>1, <2>2, <2>3, <1>2, <1>9, <1>16, <1>18 DEF Epochs
<1>21. Histories'
  <2>1. \A i \in 1..Len(released') : released'[i] = accepted[Len(got) + i]
    <3>1. \A i \in 1..(Len(released) + 1) : i \in 1..Len(released) \/ i = Len(released) + 1
      BY <1>1
    <3>2. Len(got) + (Len(released) + 1) = H
      BY <1>1, <1>6
    <3>3. \A i \in 1..Len(released) : released[i] = accepted[Len(got) + i]
      BY <1>0 DEF Histories
    <3>4. QED
      BY <3>1, <3>2, <3>3, <1>10
  <2>2. Len(got) + Len(released') + 1 = Len(heads')
    <3>1. Len(released') = Len(released) + 1 /\ Len(heads') = H + 1
      BY <1>9, <1>10
    <3>2. Len(got) + Len(released) + 1 = H
      BY <1>6
    <3>3. H \in Nat /\ Len(got) \in Nat /\ Len(released) \in Nat
      BY <1>1
    <3>4. QED
      BY ONLY <3>1, <3>2, <3>3
  <2>3. life' = "dropping"
    OBVIOUS
  <2>4. QED
    BY <2>1, <2>2, <2>3, <1>0 DEF Histories, Live
<1>22. QED
  BY <1>14, <1>15, <1>16, <1>19, <1>20, <1>21 DEF RingInv

\* drop() stops where head meets tail, that is when the ring is empty.
LEMMA EndDropStep ==
  ASSUME RingInv, EndDrop
  PROVE  RingInv'
<1> USE DEF EndDrop, pushVars, popVars
<1>0. /\ TypeOK /\ Indices /\ Pushing /\ Popping /\ Contents /\ Epochs
      /\ Histories /\ ItemSeen /\ ~Live
  BY DEF RingInv, Live
<1>1. /\ Len(tails) \in Nat \ {0} /\ Len(heads) \in Nat \ {0}
      /\ CurHead = Slot(Len(heads)) /\ CurTail = Slot(Len(tails))
      /\ Len(heads) <= Len(tails) /\ Len(tails) < Len(heads) + Capacity
  BY <1>0, RingFacts DEF Indices
<1>2. Len(heads) = Len(tails)
  <2>1. Slot(Len(heads)) = Slot(Len(tails))
    BY <1>1 DEF IsEmptyAt
  <2>2. QED
    BY <2>1, <1>1, SlotInjective
<1>3. TypeOK'
  BY <1>0 DEF TypeOK
<1>4. Indices'
  BY <1>0 DEF Indices, Live
<1>5. Pushing' /\ Popping' /\ ItemSeen'
  BY <1>0 DEF Pushing, Popping, ItemSeen, Active, Live
<1>6. Contents' /\ Epochs'
  BY <1>0 DEF Contents, Epochs, Filled
<1>7. Histories'
  BY <1>0, <1>2 DEF Histories, Live
<1>8. QED
  BY <1>3, <1>4, <1>5, <1>6, <1>7 DEF RingInv

LEMMA StutterStep ==
  ASSUME RingInv, UNCHANGED vars
  PROVE  RingInv'
<1> USE DEF vars, pushVars, popVars
<1>0. /\ TypeOK /\ Indices /\ Pushing /\ Popping /\ Contents /\ Epochs
      /\ Histories /\ ItemSeen
  BY DEF RingInv
<1>1. TypeOK'
  BY <1>0 DEF TypeOK
<1>2. Indices' /\ Pushing' /\ Popping' /\ ItemSeen'
  BY <1>0 DEF Indices, Pushing, Popping, ItemSeen, Active, Synced, Live
<1>3. Contents' /\ Epochs' /\ Histories'
  BY <1>0 DEF Contents, Epochs, Histories, Filled, Live
<1>4. QED
  BY <1>1, <1>2, <1>3 DEF RingInv

-----------------------------------------------------------------------------
(***************************************************************************)
(* The invariant of the SPSC queue                                         *)
(***************************************************************************)

LEMMA InitInv ==
  ASSUME Init
  PROVE  IInv
<1> USE DEF Init
<1>1. Capacity \in Nat \ {0} /\ 0 \in Slots /\ Slot(1) = 0
  BY CapacityAssumption DEF Slots, Slot
<1>2. Len(heads) = 1 /\ Len(tails) = 1 /\ heads[1] = 0 /\ tails[1] = 0
  OBVIOUS
<1>3. TypeOK
  <2>1. heads \in Seq(Slots) /\ heads # << >> /\ tails \in Seq(Slots) /\ tails # << >>
    BY <1>1
  <2>2. view \in [Producers -> [t : 1..Len(tails), h : 1..Len(heads)]]
    BY <1>2
  <2>3. accepted \in Seq(Items) /\ got \in Seq(Items) /\ released \in Seq(Items)
    OBVIOUS
  <2>4. /\ buffer \in [Slots -> Items \cup {Uninit}]
        /\ wroteAt \in [Slots -> Nat] /\ readAt \in [Slots -> Nat]
    OBVIOUS
  <2>5. /\ ppc \in [Producers -> {"idle", "head", "write", "publish"}]
        /\ pitem \in [Producers -> Items \cup {Uninit}]
        /\ ptail \in [Producers -> Slots]
        /\ sawRoom \in [Producers -> BOOLEAN]
    BY <1>1
  <2>6. cview \in 1..Len(tails)
    BY <1>2
  <2>7. QED
    BY <2>1, <2>2, <2>3, <2>4, <2>5, <2>6 DEF TypeOK
<1>4. Indices
  BY <1>1, <1>2 DEF Indices, Live
<1>5. Pushing /\ Popping /\ ItemSeen /\ ~Filled
  BY DEF Pushing, Popping, ItemSeen, Active, Filled
<1>6. \A k \in 1..Capacity : Slot(k) \in Slots
  BY <1>1, SlotFacts
<1>7. Contents
  BY <1>1, <1>2, <1>6 DEF Contents
<1>8. Epochs
  BY <1>1, <1>2, <1>5, <1>6 DEF Epochs
<1>9. Histories
  BY <1>2 DEF Histories
<1>10. RoomSeen /\ \A p \in Producers : Synced(view[p])
  BY <1>1, <1>2 DEF RoomSeen, Synced
<1>11. QED
  BY <1>3, <1>4, <1>5, <1>7, <1>8, <1>9, <1>10 DEF IInv, RingInv

LEMMA NextRingInv ==
  ASSUME SingleProducer, IInv, [Next]_vars
  PROVE  RingInv'
<1>0. RingInv /\ \A p \in Producers : Synced(view[p])
  BY DEF IInv
<1>1. ASSUME NEW p \in Producers, PushStep(p) PROVE RingInv'
  <2>1. ASSUME NEW item \in Items, LoadTail(p, item) PROVE RingInv'
    <3>1. \A q \in Producers : ~Active(q)
      BY <2>1 DEF SingleProducer, LoadTail, Active
    <3>2. QED
      BY <1>0, <2>1, <3>1, LoadTailStep
  <2>2. QED
    BY <1>0, <1>1, <2>1, RefuseFullStep, FindRoomStep, WriteSlotStep, PublishStep
       DEF PushStep
<1>2. CASE \E p \in Producers : IsFull(p)
  BY <1>0, <1>2, IsFullStep
<1>3. CASE PopStep
  BY <1>0, <1>3, FindEmptyStep, FindItemStep, ReadSlotStep, AdvanceStep DEF PopStep
<1>4. CASE IsEmpty
  BY <1>0, <1>4, IsEmptyStep
<1>5. CASE DropStep
  BY <1>0, <1>5, BeginDropStep, DropItemStep, EndDropStep DEF DropStep
<1>6. CASE UNCHANGED vars
  BY <1>0, <1>6, StutterStep
<1>7. QED
  BY <1>1, <1>2, <1>3, <1>4, <1>5, <1>6 DEF Next

\* What a single producer knows stays true: only it stores tail.
LEMMA NextViews ==
  ASSUME SingleProducer, IInv, [Next]_vars
  PROVE  RoomSeen' /\ \A p \in Producers : Synced(view[p])'
<1> DEFINE T == Len(tails)
<1>0. /\ TypeOK /\ Indices /\ Pushing /\ RoomSeen
      /\ \A p \in Producers : Synced(view[p])
      /\ Capacity \in Nat \ {0} /\ T \in Nat \ {0} /\ CurTail = Slot(T)
  BY RingFacts, CapacityAssumption DEF IInv, RingInv
<1>1. ASSUME UNCHANGED <<tails, view, ppc, sawRoom>> PROVE RoomSeen' /\ \A r \in Producers : Synced(view[r])'
  BY <1>0, <1>1 DEF RoomSeen, Synced
<1>2. ASSUME NEW p \in Producers, PushStep(p) \/ IsFull(p) PROVE RoomSeen' /\ \A r \in Producers : Synced(view[r])'
  <2>0. /\ \A q \in Producers : q = p
        /\ Synced(view[p])
        /\ p \in Producers
        /\ view \in [Producers -> [t : 1..T, h : 1..Len(heads)]]
        /\ ppc \in [Producers -> {"idle", "head", "write", "publish"}]
        /\ sawRoom \in [Producers -> BOOLEAN]
    BY <1>0 DEF SingleProducer, TypeOK
  <2>1. CASE \E item \in Items : LoadTail(p, item)
    <3>1. /\ tails' = tails /\ view' = view /\ sawRoom' = sawRoom
          /\ ppc'[p] = "head"
      BY <2>1, <2>0 DEF LoadTail
    <3>2. QED
      BY <3>1, <2>0, <1>0 DEF RoomSeen, Synced
  <2>2. CASE RefuseFull(p)
    <3>1. PICK h \in HeadReads(p) : view' = [view EXCEPT ![p] = [t |-> view[p].t, h |-> h]]
      BY <2>2 DEF RefuseFull, AcquireHead
    <3>2. tails' = tails /\ sawRoom'[p] = FALSE
      BY <2>2, <2>0 DEF RefuseFull
    <3>3. view'[p].t = view[p].t /\ view'[p].h = h
      BY <3>1, <2>0
    <3>4. Len(heads) \in Nat
      BY <1>0, RingFacts
    <3>5. T < h + Capacity
      BY <3>4, <2>0, <1>0 DEF Synced, HeadReads
    <3>6. QED
      BY <3>2, <3>3, <3>5, <2>0 DEF RoomSeen, Synced
  <2>3. CASE FindRoom(p)
    <3>1. PICK h \in HeadReads(p) : view' = [view EXCEPT ![p] = [t |-> view[p].t, h |-> h]]
      BY <2>3 DEF FindRoom, AcquireHead
    <3>2. tails' = tails /\ sawRoom'[p] = FALSE
      BY <2>3, <2>0 DEF FindRoom
    <3>3. view'[p].t = view[p].t /\ view'[p].h = h
      BY <3>1, <2>0
    <3>4. Len(heads) \in Nat
      BY <1>0, RingFacts
    <3>5. T < h + Capacity
      BY <3>4, <2>0, <1>0 DEF Synced, HeadReads
    <3>6. QED
      BY <3>2, <3>3, <3>5, <2>0 DEF RoomSeen, Synced
  <2>4. CASE WriteSlot(p)
    <3>1. /\ tails' = tails /\ view' = view /\ sawRoom' = sawRoom
          /\ ppc[p] = "write"
      BY <2>4 DEF WriteSlot
    <3>2. ~sawRoom[p]
      BY <3>1, <1>0 DEF RoomSeen
    <3>3. QED
      BY <3>1, <3>2, <2>0 DEF RoomSeen, Synced
  <2>5. CASE Publish(p)
    <3>1. /\ tails' = Append(tails, NextIndex(ptail[p]))
          /\ view' = [view EXCEPT ![p] = [t |-> T + 1, h |-> view[p].h]]
          /\ sawRoom' = sawRoom /\ ppc[p] = "publish"
      BY <2>5 DEF Publish
    <3>2. ~sawRoom[p]
      BY <3>1, <1>0 DEF RoomSeen
    <3>3. T + 1 < view[p].h + Capacity
      BY <3>1, <1>0, ActiveFacts
    <3>4. Len(tails') = T + 1
      BY <3>1, <1>0 DEF TypeOK
    <3>5. view'[p].t = T + 1 /\ view'[p].h = view[p].h
      BY <3>1, <2>0
    <3>6. QED
      BY <3>1, <3>2, <3>3, <3>4, <3>5, <2>0 DEF RoomSeen, Synced
  <2>6. CASE IsFull(p)
    <3>1. PICK t \in TailReads(p), h \in HeadReads(p) :
            /\ view' = [view EXCEPT ![p] = [t |-> view[p].t, h |-> h]]
            /\ sawRoom' = [sawRoom EXCEPT ![p] = NextIndex(tails[t]) # heads[h]]
      BY <2>6 DEF IsFull, AcquireHead, IsFullAt
    <3>2. tails' = tails /\ ppc' = ppc /\ ppc[p] = "idle"
      BY <2>6 DEF IsFull, pushVars
    <3>3. /\ view'[p].t = view[p].t /\ view'[p].h = h
          /\ sawRoom'[p] = (NextIndex(tails[t]) # heads[h])
      BY <3>1, <2>0
    <3>4. Len(heads) \in Nat
      BY <1>0, RingFacts
    <3>5. T < h + Capacity
      BY <3>4, <2>0, <1>0 DEF Synced, HeadReads
    <3>6. tails[t] = CurTail
      BY <2>0, <1>0 DEF TailReads, Synced, CurTail
    <3>7. ASSUME sawRoom'[p] PROVE T + 1 < h + Capacity
      BY <3>3, <3>6, <3>7, <2>0, <1>0, RoomFromLoad
    <3>8. QED
      BY <3>2, <3>3, <3>5, <3>7, <2>0 DEF RoomSeen, Synced
  <2>7. QED
    BY <1>2, <2>1, <2>2, <2>3, <2>4, <2>5, <2>6 DEF PushStep
<1>3. CASE PopStep \/ IsEmpty \/ DropStep
  <2>1. UNCHANGED <<tails, view, ppc, sawRoom>>
    BY <1>3 DEF PopStep, FindEmpty, FindItem, ReadSlot, Advance, IsEmpty, DropStep,
                BeginDrop, DropItem, EndDrop, pushVars
  <2>2. QED
    BY <2>1, <1>1
<1>4. CASE UNCHANGED vars
  BY <1>4, <1>1 DEF vars, pushVars
<1>5. QED
  BY <1>2, <1>3, <1>4 DEF Next

LEMMA Invariance ==
  ASSUME SingleProducer
  PROVE  Spec => []IInv
<1>1. Init => IInv
  BY InitInv
<1>2. IInv /\ [Next]_vars => IInv'
  <2>1. ASSUME IInv, [Next]_vars PROVE IInv'
    BY <2>1, NextRingInv, NextViews DEF IInv
  <2>2. QED
    BY <2>1
<1>3. QED
  BY <1>1, <1>2, PTL DEF Spec

-----------------------------------------------------------------------------
(***************************************************************************)
(* What follows from RingInv, whoever the producers are                    *)
(***************************************************************************)

\* The two unsafe blocks have exclusive access to their slot.
LEMMA RingNoDataRace ==
  ASSUME RingInv
  PROVE  NoDataRace
<1>0. TypeOK /\ Indices /\ Pushing /\ Popping /\ Epochs
  BY DEF RingInv
<1>1. /\ Len(tails) \in Nat \ {0} /\ Len(heads) \in Nat \ {0}
      /\ Len(heads) <= Len(tails) /\ Len(tails) < Len(heads) + Capacity
      /\ CurHead = Slot(Len(heads)) /\ Capacity \in Nat \ {0}
      /\ cview \in 1..Len(tails)
  BY <1>0, RingFacts, CapacityAssumption DEF Indices
<1>2. ASSUME NEW p \in Producers, ppc[p] = "write"
      PROVE  /\ wroteAt[ptail[p]] <= view[p].t
             /\ readAt[ptail[p]] <= view[p].h
  <2>1. /\ view[p] \in [t : 1..Len(tails), h : 1..Len(heads)]
        /\ view[p].t = Len(tails) /\ ptail[p] = Slot(Len(tails))
        /\ Len(tails) + 1 < view[p].h + Capacity
        /\ \A q \in Producers : ppc[q] # "idle" => q = p
    BY <1>0, <1>2, ActiveFacts DEF Synced
  <2>2. ~Filled
    BY <2>1, <1>2 DEF Filled
  <2>3. Len(tails) \in Len(tails)..(Len(heads) + Capacity - 1)
    BY <1>1
  <2>4. wroteAt[Slot(Len(tails))] <= Len(tails)
    BY <2>2, <2>3, <1>0 DEF Epochs
  <2>5. Len(tails) \in Len(heads)..(Len(heads) + Capacity - 1)
    BY <1>1
  <2>6. ~(Len(tails) = Len(heads) /\ cpc = "advance")
    BY <1>0, <1>1 DEF Popping
  <2>7. \/ readAt[Slot(Len(tails))] = 1
        \/ readAt[Slot(Len(tails))] + Capacity <= Len(tails) + 1
    BY <2>5, <2>6, <1>0 DEF Epochs
  <2>8. readAt[Slot(Len(tails))] \in Nat
    BY <1>0, <1>1, SlotFacts DEF TypeOK
  <2>9. readAt[Slot(Len(tails))] <= view[p].h
    BY <2>1, <2>7, <2>8, <1>1
  <2>10. QED
    BY <2>1, <2>4, <2>9
<1>3. ASSUME cpc = "read" PROVE wroteAt[CurHead] <= cview
  <2>1. Len(heads) < cview
    BY <1>0, <1>3 DEF Popping
  <2>2. Len(heads) \in Len(heads)..(Len(tails) - 1)
    BY <2>1, <1>1
  <2>3. wroteAt[Slot(Len(heads))] = Len(heads) + 1
    BY <2>2, <1>0 DEF Epochs
  <2>4. QED
    BY <2>1, <2>3, <1>1
<1>4. QED
  BY <1>2, <1>3 DEF NoDataRace

\* Reads find an item, writes find none.
LEMMA RingSlotsOwned ==
  ASSUME RingInv
  PROVE  SlotsOwned
<1>0. TypeOK /\ Indices /\ Pushing /\ Popping /\ Contents /\ Histories
  BY DEF RingInv
<1>1. /\ Len(tails) \in Nat \ {0} /\ Len(heads) \in Nat \ {0}
      /\ Len(heads) <= Len(tails) /\ Len(tails) < Len(heads) + Capacity
      /\ CurHead = Slot(Len(heads)) /\ CurTail = Slot(Len(tails))
      /\ cview \in 1..Len(tails) /\ Capacity \in Nat \ {0}
  BY <1>0, RingFacts, CapacityAssumption DEF Indices
<1>2. ASSUME Len(heads) < Len(tails), cpc # "advance"
      PROVE  buffer[CurHead] # Uninit
  <2>1. Len(heads) \in Len(heads)..(Len(tails) - 1)
    BY <1>1, <1>2
  <2>2. buffer[Slot(Len(heads))] = accepted[Len(heads)]
    BY <2>1, <1>0, <1>2 DEF Contents
  <2>3. accepted \in Seq(Items) /\ Len(accepted) + 1 = Len(tails)
    BY <1>0 DEF Histories, TypeOK
  <2>4. Len(heads) \in 1..Len(accepted)
    BY <2>3, <1>1, <1>2
  <2>5. accepted[Len(heads)] \in Items
    BY <2>3, <2>4
  <2>6. QED
    BY <2>2, <2>5, <1>1, ItemsAssumption
<1>3. ASSUME cpc = "read" PROVE buffer[CurHead] # Uninit
  <2>1. Len(heads) < Len(tails)
    BY <1>0, <1>1, <1>3 DEF Popping
  <2>2. QED
    BY <2>1, <1>2, <1>3
<1>4. ASSUME life = "dropping", CurHead # CurTail PROVE buffer[CurHead] # Uninit
  <2>1. Len(heads) < Len(tails)
    BY <1>1, <1>4
  <2>2. cpc # "advance"
    BY <1>0, <1>4 DEF Popping, Live
  <2>3. QED
    BY <2>1, <2>2, <1>2
<1>5. ASSUME NEW p \in Producers, ppc[p] = "write" PROVE buffer[ptail[p]] = Uninit
  <2>1. ptail[p] = Slot(Len(tails)) /\ \A q \in Producers : ppc[q] # "idle" => q = p
    BY <1>0, <1>5, ActiveFacts
  <2>2. ~Filled
    BY <2>1, <1>5 DEF Filled
  <2>3. Len(tails) \in Len(tails)..(Len(heads) + Capacity - 1)
    BY <1>1
  <2>4. QED
    BY <2>1, <2>2, <2>3, <1>0 DEF Contents
<1>6. QED
  BY <1>3, <1>4, <1>5 DEF SlotsOwned

\* What came out is a prefix of what went in.
LEMMA RingFifo ==
  ASSUME RingInv
  PROVE  FifoDelivery
<1> DEFINE out == got \o released
<1>0. TypeOK /\ Indices /\ Histories
  BY DEF RingInv
<1>1. /\ accepted \in Seq(Items) /\ got \in Seq(Items) /\ released \in Seq(Items)
      /\ Len(accepted) + 1 = Len(tails)
      /\ Len(got) + Len(released) + 1 = Len(heads)
      /\ \A i \in 1..Len(got) : got[i] = accepted[i]
      /\ \A i \in 1..Len(released) : released[i] = accepted[Len(got) + i]
  BY <1>0 DEF Histories, TypeOK
<1>2. /\ Len(heads) <= Len(tails) /\ Len(heads) \in Nat /\ Len(tails) \in Nat
      /\ Len(accepted) \in Nat /\ Len(got) \in Nat /\ Len(released) \in Nat
  BY <1>0, RingFacts
<1>3. /\ out \in Seq(Items) /\ Len(out) = Len(got) + Len(released)
      /\ \A i \in 1..Len(out) :
           out[i] = IF i <= Len(got) THEN got[i] ELSE released[i - Len(got)]
  BY <1>1
<1>4. Len(out) <= Len(accepted)
  BY <1>1, <1>2, <1>3
<1>5. \A i \in 1..Len(out) : out[i] = accepted[i]
  <2>1. SUFFICES ASSUME NEW i \in 1..Len(out) PROVE out[i] = accepted[i]
    OBVIOUS
  <2>2. CASE i <= Len(got)
    BY <2>2, <1>1, <1>2, <1>3
  <2>3. CASE Len(got) < i
    <3>1. i - Len(got) \in 1..Len(released) /\ Len(got) + (i - Len(got)) = i
      BY <2>3, <1>2, <1>3
    <3>2. out[i] = released[i - Len(got)]
      BY <2>3, <1>2, <1>3
    <3>3. QED
      BY <3>1, <3>2, <1>1
  <2>4. QED
    BY <2>2, <2>3, <1>2, <1>3
<1>6. out = SubSeq(accepted, 1, Len(out))
  BY <1>1, <1>2, <1>3, <1>4, <1>5
<1>7. QED
  BY <1>4, <1>6 DEF FifoDelivery

\* Once dropped, the ring is empty.
LEMMA RingDrop ==
  ASSUME RingInv
  PROVE  DropReleasesAll
<1>0. TypeOK /\ Indices /\ Pushing /\ Contents /\ Histories /\ FifoDelivery
  BY RingFifo DEF RingInv
<1>1. SUFFICES ASSUME life = "dropped"
               PROVE  /\ got \o released = accepted
                      /\ \A s \in Slots : buffer[s] = Uninit
  BY DEF DropReleasesAll
<1>2. /\ Len(heads) = Len(tails) /\ Len(tails) \in Nat \ {0}
      /\ ~Filled
  <2>1. Len(heads) = Len(tails) /\ Len(tails) \in Nat \ {0}
    BY <1>0, <1>1, RingFacts DEF Histories
  <2>2. ~Filled
    BY <1>0, <1>1 DEF Pushing, Active, Filled, Live
  <2>3. QED
    BY <2>1, <2>2
<1>3. got \o released = accepted
  <2>1. /\ accepted \in Seq(Items) /\ got \in Seq(Items) /\ released \in Seq(Items)
        /\ Len(accepted) + 1 = Len(tails)
        /\ Len(got) + Len(released) + 1 = Len(heads)
    BY <1>0 DEF Histories, TypeOK
  <2>2. Len(got \o released) = Len(got) + Len(released)
    BY <2>1
  <2>3. Len(accepted) \in Nat /\ Len(got) \in Nat /\ Len(released) \in Nat
    BY <1>0, RingFacts
  <2>4. Len(got \o released) = Len(accepted)
    BY <2>1, <2>2, <2>3, <1>2
  <2>5. got \o released = SubSeq(accepted, 1, Len(accepted))
    BY <2>4, <1>0 DEF FifoDelivery
  <2>6. QED
    BY <2>1, <2>5
<1>4. ASSUME NEW s \in Slots PROVE buffer[s] = Uninit
  <2>1. PICK k \in Len(tails)..(Len(tails) + Capacity - 1) : Slot(k) = s
    BY <1>2, SlotOnto
  <2>2. QED
    BY <2>1, <1>0, <1>2 DEF Contents
<1>5. QED
  BY <1>3, <1>4

\* A non-empty answer of is_empty() lasts until the next try_pop.
LEMMA RingEmptyCheck ==
  ASSUME RingInv
  PROVE  EmptyCheckStable
<1>0. TypeOK /\ Indices /\ ItemSeen
  BY DEF RingInv
<1>1. /\ Len(tails) \in Nat \ {0} /\ Len(heads) \in Nat \ {0}
      /\ Len(tails) < Len(heads) + Capacity /\ CurHead = Slot(Len(heads))
      /\ cview \in 1..Len(tails)
  BY <1>0, RingFacts DEF Indices
<1>2. SUFFICES ASSUME Live, sawItem, NEW t \in ConsumerReads
               PROVE  tails[t] # CurHead
  BY DEF EmptyCheckStable
<1>3. Len(heads) < cview
  BY <1>0, <1>2 DEF ItemSeen
<1>4. t \in 1..Len(tails) /\ Len(heads) < t /\ t < Len(heads) + Capacity
  BY <1>1, <1>2, <1>3, CapacityAssumption DEF ConsumerReads
<1>5. tails[t] = Slot(t)
  BY <1>0, <1>4 DEF Indices
<1>6. QED
  BY <1>1, <1>4, <1>5, SlotInjective

-----------------------------------------------------------------------------
(***************************************************************************)
(* Theorems about the SPSC queue: src/utils/lockfree_queue.rs, for every   *)
(* capacity, set of items and number of pushes.                            *)
(***************************************************************************)

\* TypeOK is an invariant: in particular no index ever leaves the buffer.
THEOREM TypeCorrect ==
  ASSUME SingleProducer
  PROVE  Spec => []TypeOK
<1>1. IInv => TypeOK
  BY DEF IInv, RingInv
<1>2. QED
  BY <1>1, Invariance, PTL

\* NoDataRace: both unsafe blocks always have exclusive access to their slot.
THEOREM NoDataRaceHolds ==
  ASSUME SingleProducer
  PROVE  Spec => []NoDataRace
<1>1. IInv => NoDataRace
  BY RingNoDataRace DEF IInv
<1>2. QED
  BY <1>1, Invariance, PTL

\* SlotsOwned: no read of an uninitialised slot, no item overwritten.
THEOREM SlotsOwnedHolds ==
  ASSUME SingleProducer
  PROVE  Spec => []SlotsOwned
<1>1. IInv => SlotsOwned
  BY RingSlotsOwned DEF IInv
<1>2. QED
  BY <1>1, Invariance, PTL

\* FifoDelivery: items come out once each, in the order they went in.
THEOREM FifoHolds ==
  ASSUME SingleProducer
  PROVE  Spec => []FifoDelivery
<1>1. IInv => FifoDelivery
  BY RingFifo DEF IInv
<1>2. QED
  BY <1>1, Invariance, PTL

\* DropReleasesAll: drop releases exactly what was never popped.
THEOREM DropHolds ==
  ASSUME SingleProducer
  PROVE  Spec => []DropReleasesAll
<1>1. IInv => DropReleasesAll
  BY RingDrop DEF IInv
<1>2. QED
  BY <1>1, Invariance, PTL

\* EmptyCheckStable: is_empty() == false promises the next try_pop an item.
THEOREM EmptyCheckHolds ==
  ASSUME SingleProducer
  PROVE  Spec => []EmptyCheckStable
<1>1. IInv => EmptyCheckStable
  BY RingEmptyCheck DEF IInv
<1>2. QED
  BY <1>1, Invariance, PTL

\* FullCheckStable: is_full() == false promises the next try_push a slot.
THEOREM FullCheckHolds ==
  ASSUME SingleProducer
  PROVE  Spec => []FullCheckStable
<1>1. ASSUME IInv PROVE FullCheckStable
  <2>1. TypeOK /\ Indices /\ RoomSeen
    BY <1>1 DEF IInv, RingInv
  <2>2. /\ Len(tails) \in Nat \ {0} /\ Len(heads) \in Nat \ {0}
        /\ Len(heads) <= Len(tails) /\ CurTail = Slot(Len(tails))
    BY <2>1, RingFacts
  <2>3. SUFFICES ASSUME NEW p \in Producers, sawRoom[p], NEW h \in HeadReads(p)
                 PROVE  NextIndex(CurTail) # heads[h]
    BY DEF FullCheckStable
  <2>4. /\ Len(tails) + 1 < view[p].h + Capacity
        /\ view[p] \in [t : 1..Len(tails), h : 1..Len(heads)]
    BY <2>1, <2>3 DEF RoomSeen, TypeOK
  <2>5. h \in 1..Len(heads) /\ view[p].h <= h
    BY <2>2, <2>4 DEF HeadReads
  <2>6. h < Len(tails) + 1 /\ Len(tails) + 1 < h + Capacity
    BY <2>2, <2>4, <2>5, CapacityAssumption
  <2>7. heads[h] = Slot(h) /\ NextIndex(CurTail) = Slot(Len(tails) + 1)
    BY <2>1, <2>2, <2>5, SlotFacts DEF Indices
  <2>8. QED
    BY <2>2, <2>5, <2>6, <2>7, SlotInjective
<1>2. QED
  BY <1>1, Invariance, PTL

\* ChecksStable: both promises.
THEOREM ChecksStableHolds ==
  ASSUME SingleProducer
  PROVE  Spec => []ChecksStable
<1>1. EmptyCheckStable /\ FullCheckStable => ChecksStable
  BY DEF ChecksStable
<1>2. QED
  BY <1>1, EmptyCheckHolds, FullCheckHolds, PTL

\* len() computes the distance of two positions less than a turn apart, on
\* either side of the end of the buffer.
LEMMA LenExact ==
  ASSUME NEW a \in Nat \ {0}, NEW b \in Nat \ {0}, a <= b, b < a + Capacity
  PROVE  LenOf(Slot(b), Slot(a)) = b - a
<1>0. Capacity \in Nat \ {0}
  BY CapacityAssumption
<1>1. PICK q \in Nat : a - 1 = Capacity * q + Slot(a)
  BY SlotDecomposition
<1>2. Slot(a) \in 0..(Capacity - 1) /\ Slot(b) \in 0..(Capacity - 1)
  BY SlotDecomposition DEF Slots
<1>3. CASE Slot(a) + (b - a) < Capacity
  <2> DEFINE r == Slot(a) + (b - a)
  <2>1. r \in 0..(Capacity - 1)
    BY <1>0, <1>2, <1>3
  <2>2. b - 1 = Capacity * q + r
    BY <1>0, <1>1, <1>2
  <2>3. Slot(b) = r
    BY <2>1, <2>2, UniqueRemainder DEF Slot
  <2>4. QED
    BY <2>3, <1>0, <1>2 DEF LenOf
<1>4. CASE Slot(a) + (b - a) >= Capacity
  <2> DEFINE r == Slot(a) + (b - a) - Capacity
  <2>1. r \in 0..(Capacity - 1) /\ r < Slot(a)
    BY <1>0, <1>2, <1>4
  <2>2. b - 1 = Capacity * (q + 1) + r
    BY <1>0, <1>1, <1>2
  <2>3. Slot(b) = r
    BY <2>1, <2>2, UniqueRemainder DEF Slot
  <2>4. QED
    BY <2>1, <2>3, <1>0, <1>2 DEF LenOf
<1>5. QED
  BY <1>0, <1>2, <1>3, <1>4

\* LenBrackets: len() is within the usable capacity, an upper bound for the
\* producer and a lower bound for the consumer.
THEOREM LenHolds ==
  ASSUME SingleProducer
  PROVE  Spec => []LenBrackets
<1>1. ASSUME IInv PROVE LenBrackets
  <2>1. TypeOK /\ Indices
    BY <1>1 DEF IInv, RingInv
  <2>2. /\ Len(tails) \in Nat \ {0} /\ Len(heads) \in Nat \ {0}
        /\ Len(heads) <= cview /\ Len(tails) < Len(heads) + Capacity
        /\ CurTail = Slot(Len(tails)) /\ CurHead = Slot(Len(heads))
        /\ cview \in 1..Len(tails) /\ Capacity \in Nat \ {0}
    BY <2>1, RingFacts, CapacityAssumption DEF Indices
  <2>3. ASSUME NEW p \in Producers, NEW h \in HeadReads(p)
        PROVE  LenOf(CurTail, heads[h]) \in (Len(tails) - Len(heads))..(Capacity - 1)
    <3>1. /\ view[p] \in [t : 1..Len(tails), h : 1..Len(heads)]
          /\ Len(tails) < view[p].h + Capacity
      BY <1>1, <2>1, <2>3 DEF TypeOK, IInv, Synced
    <3>2. h \in 1..Len(heads) /\ view[p].h <= h
      BY <2>2, <2>3, <3>1 DEF HeadReads
    <3>3. h <= Len(tails) /\ Len(tails) < h + Capacity
      BY <2>2, <3>1, <3>2
    <3>4. heads[h] = Slot(h)
      BY <2>1, <3>2 DEF Indices
    <3>5. LenOf(Slot(Len(tails)), Slot(h)) = Len(tails) - h
      BY <2>2, <3>2, <3>3, LenExact
    <3>6. QED
      BY <2>2, <3>2, <3>3, <3>4, <3>5
  <2>4. ASSUME NEW t \in ConsumerReads
        PROVE  LenOf(tails[t], CurHead) \in 0..(Len(tails) - Len(heads))
    <3>1. t \in 1..Len(tails) /\ Len(heads) <= t /\ t < Len(heads) + Capacity
      BY <2>2, <2>4 DEF ConsumerReads
    <3>2. tails[t] = Slot(t)
      BY <2>1, <3>1 DEF Indices
    <3>3. LenOf(Slot(t), Slot(Len(heads))) = t - Len(heads)
      BY <2>2, <3>1, LenExact
    <3>4. QED
      BY <2>2, <3>1, <3>2, <3>3
  <2>5. QED
    BY <2>3, <2>4 DEF LenBrackets
<1>2. QED
  BY <1>1, Invariance, PTL

-----------------------------------------------------------------------------
(***************************************************************************)
(* The ring implements BoundedFifo: a push takes effect when tail is       *)
(* stored, a pop when head is stored.                                      *)
(***************************************************************************)

\* The items accepted and neither taken nor released yet.
Pending == [i \in 1..(Len(tails) - Len(heads)) |-> accepted[Len(heads) + i - 1]]
QueuedIsPending == Queued = Pending

\* Walking on from a slot is walking on from the position.
LEMMA SlotAhead ==
  ASSUME NEW k \in Nat \ {0}, NEW i \in Nat
  PROVE  (Slot(k) + i) % Capacity = Slot(k + i)
<1> DEFINE x == Slot(k) + i
           d == x \div Capacity
           m == x % Capacity
<1>0. Capacity \in Nat \ {0}
  BY CapacityAssumption
<1>1. PICK q \in Nat : k - 1 = Capacity * q + Slot(k)
  BY SlotDecomposition
<1>2. Slot(k) \in 0..(Capacity - 1)
  BY SlotDecomposition DEF Slots
<1>3. x \in Nat
  BY <1>2, <1>0
<1>4. d \in Nat /\ m \in 0..(Capacity - 1) /\ x = Capacity * d + m
  BY <1>0, <1>3
<1>5. (Capacity * (q + d) + m) % Capacity = m
  BY <1>4, UniqueRemainder
<1>6. (k + i) - 1 = Capacity * (q + d) + m
  <2>1. Capacity * (q + d) = Capacity * q + Capacity * d
    BY <1>0, <1>1, <1>4
  <2> DEFINE Q == Capacity * q
             D == Capacity * d
  <2>2. Q \in Nat /\ D \in Nat /\ k - 1 = Q + Slot(k) /\ Slot(k) + i = D + m
    BY <1>0, <1>1, <1>4
  <2>3. (k + i) - 1 = Q + D + m
    <3> HIDE DEF Q, D, x, d, m
    <3> QED  BY <2>2, <1>2, <1>4
  <2>4. QED
    BY <2>1, <2>3
<1>7. QED
  BY <1>5, <1>6 DEF Slot

\* The ring holds what is pending, in the order in which it was accepted.
LEMMA RingHoldsPending ==
  ASSUME RingInv
  PROVE  QueuedIsPending
<1> DEFINE H == Len(heads)
           T == Len(tails)
<1>0. TypeOK /\ Indices /\ Popping /\ Contents
  BY DEF RingInv
<1>1. /\ H \in Nat \ {0} /\ T \in Nat \ {0} /\ H <= T
      /\ CurHead = Slot(H)
  BY <1>0, RingFacts
<1>2. ASSUME NEW i \in 1..(T - H)
      PROVE  (IF i = 1 /\ cpc = "advance" THEN citem
              ELSE buffer[(CurHead + i - 1) % Capacity]) = accepted[H + i - 1]
  <2>1. CASE i = 1 /\ cpc = "advance"
    BY <1>0, <1>1, <2>1 DEF Popping
  <2>2. CASE ~(i = 1 /\ cpc = "advance")
    <3>1. i - 1 \in Nat /\ H + (i - 1) \in H..(T - 1) /\ H + (i - 1) = H + i - 1
      BY <1>1
    <3>2. (Slot(H) + (i - 1)) % Capacity = Slot(H + (i - 1))
      BY <1>1, <3>1, SlotAhead
    <3>3. Slot(H) \in Nat
      BY <1>1, SlotDecomposition, CapacityAssumption DEF Slots
    <3>4. (CurHead + i - 1) % Capacity = Slot(H + (i - 1))
      BY <1>1, <3>1, <3>2, <3>3
    <3>5. buffer[Slot(H + (i - 1))] = accepted[H + (i - 1)]
      <4>1. ~(H + (i - 1) = H /\ cpc = "advance")
        BY <1>1, <2>2
      <4>2. QED
        BY <1>0, <3>1, <4>1 DEF Contents
    <3>6. QED
      BY <2>2, <3>1, <3>4, <3>5
  <2>3. QED
    BY <2>1, <2>2
<1>3. QED
  BY <1>2 DEF QueuedIsPending, Queued, Pending

\* The pending items as a sequence.
LEMMA PendingFacts ==
  ASSUME RingInv
  PROVE  /\ Len(tails) - Len(heads) \in Nat
         /\ Pending \in Seq(Items)
         /\ Len(Pending) = Len(tails) - Len(heads)
         /\ \A i \in 1..Len(Pending) : Pending[i] = accepted[Len(heads) + i - 1]
<1> DEFINE H == Len(heads)
           T == Len(tails)
<1>0. TypeOK /\ Indices /\ Histories
  BY DEF RingInv
<1>1. /\ H \in Nat \ {0} /\ T \in Nat \ {0} /\ H <= T
      /\ accepted \in Seq(Items) /\ Len(accepted) + 1 = T /\ Len(accepted) \in Nat
  BY <1>0, RingFacts DEF TypeOK, Histories
<1>2. T - H \in Nat
  BY <1>1
<1>3. \A i \in 1..(T - H) : accepted[H + i - 1] \in Items
  <2>1. \A i \in 1..(T - H) : H + i - 1 \in 1..Len(accepted)
    BY <1>1
  <2>2. QED
    BY <1>1, <2>1
<1>4. QED
  BY <1>2, <1>3 DEF Pending

\* A function on 1..n that agrees with a sequence is the sequence.
LEMMA SameItems ==
  ASSUME NEW t \in Seq(Items), NEW f,
         f = [i \in 1..Len(t) |-> f[i]], \A i \in 1..Len(t) : f[i] = t[i]
  PROVE  f = t
<1>1. t = [i \in 1..Len(t) |-> t[i]]
  OBVIOUS
<1>2. QED
  BY <1>1

\* A step that stores neither index nor anything else the FIFO knows.
LEMMA StutterRefines ==
  ASSUME QueuedIsPending, QueuedIsPending',
         UNCHANGED <<heads, tails, accepted, got, Live>>
  PROVE  UNCHANGED Fifo!fifoVars
BY DEF QueuedIsPending, Pending, Fifo!fifoVars

\* The Release store of tail is the push.
LEMMA PublishRefines ==
  ASSUME RingInv, RingInv', QueuedIsPending, QueuedIsPending', NEW p \in Producers, Publish(p)
  PROVE  Fifo!Next
<1> DEFINE H == Len(heads)
           T == Len(tails)
<1>0. TypeOK /\ Indices /\ Pushing /\ Histories /\ ppc[p] # "idle"
  BY DEF RingInv, Publish
<1>1. /\ Live /\ pitem[p] \in Items
      /\ T + 1 < view[p].h + Capacity
      /\ view[p] \in [t : 1..T, h : 1..H]
      /\ H \in Nat \ {0} /\ T \in Nat \ {0} /\ H <= T
      /\ accepted \in Seq(Items) /\ Len(accepted) + 1 = T
  BY <1>0, RingFacts, ActiveFacts DEF TypeOK, Histories, Publish
<1>2. /\ heads' = heads /\ got' = got /\ life' = life
      /\ tails' = Append(tails, NextIndex(ptail[p]))
      /\ accepted' = Append(accepted, pitem[p])
  BY DEF Publish, popVars
<1>3. Len(tails') = T + 1 /\ Len(heads') = H
  BY <1>0, <1>2 DEF TypeOK
<1>4. /\ Pending \in Seq(Items) /\ Len(Pending) = T - H
      /\ \A i \in 1..Len(Pending) : Pending[i] = accepted[H + i - 1]
  BY PendingFacts
<1>5. Pending' = [i \in 1..((T + 1) - H) |-> accepted'[H + i - 1]]
  BY <1>3 DEF Pending
<1>6. Pending' = Append(Pending, pitem[p])
  <2> DEFINE s == [i \in 1..((T + 1) - H) |-> accepted'[H + i - 1]]
             t == Append(Pending, pitem[p])
  <2>1. /\ t \in Seq(Items) /\ Len(t) = (T - H) + 1
        /\ \A i \in 1..(T - H) : t[i] = accepted[H + i - 1]
        /\ t[(T - H) + 1] = pitem[p]
    BY <1>1, <1>4, AppendProperties
  <2>2. /\ \A i \in 1..(T - 1) : accepted'[i] = accepted[i] /\ accepted[i] \in Items
        /\ accepted'[T] = pitem[p]
    BY <1>1, <1>2, AppendProperties
  <2>3. \A i \in 1..((T + 1) - H) : accepted'[H + i - 1] = t[i]
    <3>1. TAKE i \in 1..((T + 1) - H)
    <3>2. CASE i = (T + 1) - H
      BY <1>1, <2>1, <2>2, <3>2
    <3>3. CASE i # (T + 1) - H
      <4>1. i \in 1..(T - H) /\ H + i - 1 \in 1..(T - 1)
        BY <1>1, <3>3
      <4>2. QED
        BY <2>1, <2>2, <4>1
    <3>4. QED
      BY <3>2, <3>3
  <2>4. (T + 1) - H \in Nat /\ (T + 1) - H = Len(t)
    BY <1>1, <2>1
  <2>5. t \in Seq(Items) /\ s = [i \in 1..Len(t) |-> s[i]] /\ \A i \in 1..Len(t) : s[i] = t[i]
    <3>1. DOMAIN s = 1..Len(t) /\ \A i \in 1..Len(t) : s[i] = accepted'[H + i - 1]
      BY <2>4
    <3>2. \A i \in 1..Len(t) : accepted'[H + i - 1] = t[i]
      BY <2>3, <2>4
    <3>3. s = [i \in DOMAIN s |-> s[i]]
      OBVIOUS
    <3>4. t \in Seq(Items)
      BY <2>1
    <3> HIDE DEF s, t, H
    <3>5. QED
      BY <3>1, <3>2, <3>3, <3>4
  <2>6. s = t
    <3> HIDE DEF s, t
    <3> QED  BY <2>5, SameItems
  <2>7. QED
    BY <1>5, <2>6
<1>7. Queued' = Append(Queued, pitem[p]) /\ Len(Queued) < Capacity - 1
  <2>1. T - H < Capacity - 1
    BY <1>1, CapacityAssumption
  <2>2. QED
    BY <1>4, <1>6, <2>1 DEF QueuedIsPending
<1>8. Fifo!Push(pitem[p])
  BY <1>1, <1>2, <1>7 DEF Fifo!Push, Live
<1>9. QED
  BY <1>1, <1>8 DEF Fifo!Next

\* One item less at the head.
LEMMA HeadLeaves ==
  ASSUME RingInv, RingInv', QueuedIsPending, QueuedIsPending',
         UNCHANGED <<tails, accepted>>, Len(heads') = Len(heads) + 1
  PROVE  /\ Queued # << >> /\ Queued' = Tail(Queued)
         /\ Head(Queued) = accepted[Len(heads)]
<1> DEFINE H == Len(heads)
           T == Len(tails)
<1>1. /\ T - H \in Nat /\ Pending \in Seq(Items) /\ Len(Pending) = T - H
      /\ \A i \in 1..Len(Pending) : Pending[i] = accepted[H + i - 1]
  BY PendingFacts
<1>2. /\ H \in Nat \ {0} /\ T \in Nat \ {0}
      /\ accepted \in Seq(Items) /\ Len(accepted) + 1 = T
  BY RingFacts DEF RingInv, TypeOK, Histories
<1>3. Len(heads') <= Len(tails')
  <2>1. TypeOK' /\ Indices'
    BY DEF RingInv
  <2>2. tails' \in Seq(Slots) /\ heads' \in Seq(Slots)
    BY <2>1 DEF TypeOK
  <2>3. Len(heads') <= cview' /\ cview' \in 1..Len(tails')
    BY <2>1 DEF TypeOK, Indices
  <2>4. Len(tails') \in Nat /\ Len(heads') \in Nat
    BY <2>2
  <2>5. QED
    BY <2>3, <2>4
<1>4. H + 1 <= T
  BY <1>2, <1>3
<1>5. Len(Pending) > 0 /\ Pending # << >> /\ Head(Pending) = accepted[H]
  BY <1>1, <1>2, <1>4
<1>6. Pending' = [i \in 1..(T - (H + 1)) |-> accepted[(H + 1) + i - 1]]
  BY DEF Pending
<1>7. Pending' = Tail(Pending)
  <2> DEFINE s == [i \in 1..(T - (H + 1)) |-> accepted[(H + 1) + i - 1]]
             t == Tail(Pending)
  <2>1. /\ t \in Seq(Items) /\ Len(t) = (T - H) - 1
        /\ \A i \in 1..Len(t) : t[i] = Pending[i + 1]
    BY <1>1, <1>5, HeadTailProperties
  <2>2. T - (H + 1) \in Nat /\ T - (H + 1) = Len(t)
    BY <1>2, <1>4, <2>1
  <2>3. \A i \in 1..(T - (H + 1)) : accepted[(H + 1) + i - 1] = t[i]
    <3>1. TAKE i \in 1..(T - (H + 1))
    <3>2. i + 1 \in 1..Len(Pending) /\ H + (i + 1) - 1 = (H + 1) + i - 1 /\ i \in 1..Len(t)
      BY <1>1, <1>2, <2>2
    <3>3. Pending[i + 1] = accepted[H + (i + 1) - 1]
      BY <1>1, <3>2
    <3>4. QED
      BY <2>1, <3>2, <3>3
  <2>4. t \in Seq(Items) /\ s = [i \in 1..Len(t) |-> s[i]] /\ \A i \in 1..Len(t) : s[i] = t[i]
    <3>1. DOMAIN s = 1..Len(t) /\ \A i \in 1..Len(t) : s[i] = accepted[(H + 1) + i - 1]
      BY <2>2
    <3>2. \A i \in 1..Len(t) : accepted[(H + 1) + i - 1] = t[i]
      BY <2>3, <2>2
    <3>3. s = [i \in DOMAIN s |-> s[i]]
      OBVIOUS
    <3>4. t \in Seq(Items)
      BY <2>1
    <3> HIDE DEF s, t, H
    <3>5. QED
      BY <3>1, <3>2, <3>3, <3>4
  <2>5. s = t
    <3> HIDE DEF s, t
    <3> QED  BY <2>4, SameItems
  <2>6. QED
    BY <1>6, <2>5
<1>8. QED
  BY <1>5, <1>7 DEF QueuedIsPending

\* The Release store of head is the pop.
LEMMA AdvanceRefines ==
  ASSUME RingInv, RingInv', QueuedIsPending, QueuedIsPending', Advance
  PROVE  Fifo!Next
<1>1. Live /\ citem = accepted[Len(heads)] /\ heads \in Seq(Slots)
  BY DEF RingInv, Popping, Advance, TypeOK
<1>2. /\ UNCHANGED <<tails, accepted, life>>
      /\ heads' = Append(heads, NextIndex(CurHead)) /\ got' = Append(got, citem)
  BY DEF Advance
<1>3. Len(heads') = Len(heads) + 1
  BY <1>1, <1>2
<1>4. /\ Queued # << >> /\ Queued' = Tail(Queued) /\ Head(Queued) = citem
  BY <1>1, <1>2, <1>3, HeadLeaves
<1>5. QED
  BY <1>1, <1>2, <1>4 DEF Fifo!Next, Fifo!Pop, Live

\* drop closes the queue and then discards from its head.
LEMMA DropRefines ==
  ASSUME RingInv, RingInv', QueuedIsPending, QueuedIsPending', DropStep
  PROVE  [Fifo!Next]_(Fifo!fifoVars)
<1>1. CASE BeginDrop
  <2>1. UNCHANGED <<heads, tails, accepted, got>> /\ Live /\ ~Live'
    BY <1>1 DEF BeginDrop, popVars, Live
  <2>2. Queued' = Queued
    BY <2>1 DEF QueuedIsPending, Pending
  <2>3. QED
    BY <2>1, <2>2 DEF Fifo!Next, Fifo!Close
<1>2. CASE DropItem
  <2>1. /\ UNCHANGED <<tails, accepted, got, life>> /\ ~Live
        /\ heads' = Append(heads, NextIndex(CurHead)) /\ heads \in Seq(Slots)
    BY <1>2 DEF DropItem, popVars, Live, RingInv, TypeOK
  <2>2. Len(heads') = Len(heads) + 1
    BY <2>1
  <2>3. Queued # << >> /\ Queued' = Tail(Queued)
    BY <2>1, <2>2, HeadLeaves
  <2>4. QED
    BY <2>1, <2>3 DEF Fifo!Next, Fifo!Discard, Live
<1>3. CASE EndDrop
  <2>1. UNCHANGED <<heads, tails, accepted, got>> /\ (Live' = Live)
    BY <1>3 DEF EndDrop, popVars, Live
  <2>2. UNCHANGED Fifo!fifoVars
    BY <2>1, StutterRefines
  <2>3. QED
    BY <2>2
<1>4. QED
  BY <1>1, <1>2, <1>3 DEF DropStep

\* try_push refines Push at its store of tail and stutters before it.
LEMMA PushRefines ==
  ASSUME RingInv, RingInv', QueuedIsPending, QueuedIsPending',
         NEW p \in Producers, PushStep(p)
  PROVE  [Fifo!Next]_(Fifo!fifoVars)
<1>1. CASE Publish(p)
  BY <1>1, PublishRefines
<1>2. CASE (\E item \in Items : LoadTail(p, item)) \/ RefuseFull(p) \/ FindRoom(p) \/ WriteSlot(p)
  <2>1. UNCHANGED <<heads, tails, accepted, got, Live>>
    BY <1>2 DEF LoadTail, RefuseFull, FindRoom, WriteSlot, popVars, Live
  <2>2. QED
    BY <2>1, StutterRefines
<1>3. QED
  BY <1>1, <1>2 DEF PushStep

\* try_pop refines Pop at its store of head and stutters before it, as is_empty does.
LEMMA PopRefines ==
  ASSUME RingInv, RingInv', QueuedIsPending, QueuedIsPending', PopStep \/ IsEmpty
  PROVE  [Fifo!Next]_(Fifo!fifoVars)
<1>1. CASE Advance
  BY <1>1, AdvanceRefines
<1>2. CASE FindEmpty \/ FindItem \/ ReadSlot \/ IsEmpty
  <2>1. UNCHANGED <<heads, tails, accepted, got, Live>>
    BY <1>2 DEF FindEmpty, FindItem, ReadSlot, IsEmpty, popVars, Live
  <2>2. QED
    BY <2>1, StutterRefines
<1>3. QED
  BY <1>1, <1>2 DEF PopStep

\* A new ring is an empty, open queue.
LEMMA InitRefines ==
  ASSUME Init
  PROVE  Fifo!Init
<1>1. heads = <<0>> /\ tails = <<0>> /\ got = << >> /\ Live
  BY DEF Init, Live
<1>2. Len(tails) - Len(heads) = 0
  BY <1>1
<1>3. Queued = << >>
  BY <1>2 DEF Queued
<1>4. QED
  BY <1>1, <1>3 DEF Fifo!Init

\* ImplementsFifo: the ring is a bounded first-in first-out queue.
THEOREM ImplementsFifoHolds ==
  ASSUME SingleProducer
  PROVE  Spec => ImplementsFifo
<1>1. Init => Fifo!Init
  BY InitRefines
<1>2. IInv => RingInv /\ QueuedIsPending
  BY RingHoldsPending DEF IInv
<1>3. ASSUME RingInv, RingInv', QueuedIsPending, QueuedIsPending', [Next]_vars
      PROVE  [Fifo!Next]_(Fifo!fifoVars)
  <2>1. ASSUME NEW p \in Producers, IsFull(p) PROVE [Fifo!Next]_(Fifo!fifoVars)
    <3>1. UNCHANGED <<heads, tails, accepted, got, Live>>
      BY <2>1 DEF IsFull, popVars, Live
    <3>2. QED
      BY <1>3, <3>1, StutterRefines
  <2>2. ASSUME UNCHANGED vars PROVE [Fifo!Next]_(Fifo!fifoVars)
    <3>1. UNCHANGED <<heads, tails, accepted, got, Live>>
      BY <2>2 DEF vars, popVars, Live
    <3>2. QED
      BY <1>3, <3>1, StutterRefines
  <2>3. QED
    BY <1>3, <2>1, <2>2, PushRefines, PopRefines, DropRefines DEF Next
<1>4. QED
  BY <1>1, <1>2, <1>3, Invariance, PTL DEF Spec, ImplementsFifo, Fifo!Spec
=============================================================================
