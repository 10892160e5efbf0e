--------------------------- MODULE LockFreeQueue ---------------------------
(***************************************************************************)
(* The ring of LockFreeQueue<T> (src/utils/lockfree_queue.rs): try_push by *)
(* a producer, try_pop by the consumer, is_empty, is_full, len and Drop.   *)
(* Every access to shared memory is a step of its own.                     *)
(*                                                                         *)
(* Memory model.  `head' and `tail' are atomics, so each is kept as its    *)
(* modification order, the sequence of the values stored in it, and a      *)
(* thread may load any value that is not older than one it has already     *)
(* synchronised with: loads can be stale.  A Release store followed by the *)
(* Acquire load that reads it orders everything before the store ahead of  *)
(* everything after the load; a position in the modification order that a  *)
(* thread has acquired therefore stands for all the slot accesses that     *)
(* preceded the store at that position.  The positions a producer p has    *)
(* acquired are view[p]; the consumer has acquired tail position cview     *)
(* (and knows every head position: it alone stores head).  Slot accesses   *)
(* are plain memory: wroteAt and readAt record the position that publishes *)
(* the last write and the last read of each slot, and an access that is    *)
(* not ordered after them is a data race.                                  *)
(*                                                                         *)
(* The module has a set of producers so that MPSCQueue can reuse it; the   *)
(* SPSC queue is Spec, under SingleProducer.                               *)
(***************************************************************************)
EXTENDS Naturals, Sequences

CONSTANTS
  Capacity,   \* number of slots, the argument of new()
  Items,      \* the values that are queued
  Producers,  \* the threads that call try_push
  MaxPush,    \* bound on the number of accepted items
  Uninit      \* MaybeUninit::uninit(): no value in the slot

\* new() asserts capacity.is_power_of_two().
ASSUME CapacityAssumption == Capacity \in Nat \ {0}
ASSUME PowerOfTwo == \E n \in 0..63 : Capacity = 2^n
ASSUME ItemsAssumption == Uninit \notin Items
ASSUME BoundAssumption == MaxPush \in Nat

VARIABLES
  buffer,    \* the slots
  heads,     \* modification order of head
  tails,     \* modification order of tail
  view,      \* per producer, the positions of tail (t) and head (h) acquired
  cview,     \* the position of tail the consumer has acquired
  wroteAt,   \* per slot, the tail position that publishes its last write
  readAt,    \* per slot, the head position that publishes its last read
  ppc,       \* per producer, where it is in try_push
  pitem,     \* per producer, the argument of try_push
  ptail,     \* per producer, the local `tail' of try_push
  cpc,       \* where the consumer is in try_pop
  citem,     \* the consumer's local `item'
  sawItem,   \* is_empty() returned false and no try_pop followed
  sawRoom,   \* per producer, is_full() returned false and no try_push followed
  life,      \* "live", "dropping" (inside Drop::drop), "dropped"
  accepted,  \* history: the items whose try_push returned Ok, in that order
  got,       \* history: the items try_pop returned, in order
  released   \* history: the items drop() released, in order

pushVars == <<ppc, pitem, ptail>>
popVars  == <<cpc, citem, got>>
vars == <<buffer, heads, tails, view, cview, wroteAt, readAt, pushVars, popVars,
          sawItem, sawRoom, life, accepted, released>>

Slots == 0..(Capacity - 1)
Live == life = "live"

\* The values the two atomics hold, as their only writer sees them.
CurHead == heads[Len(heads)]
CurTail == tails[Len(tails)]

(***************************************************************************)
(* (i + 1) & mask.  For a power of two, and-ing with capacity - 1 is the   *)
(* remainder.                                                              *)
(***************************************************************************)
NextIndex(i) == (i + 1) % Capacity

\* The test of try_push: `next_tail == head'.
IsFullAllSlots(tail, head) == FALSE          \* the check is missing
IsFullAt(tail, head) == NextIndex(tail) = head

\* The test of try_pop: `head == tail'.
IsEmptyOneLate(head, tail) == NextIndex(head) = tail
IsEmptyAt(head, tail) == head = tail

\* The positions a load of tail, or of head, may read: nothing older than
\* what the thread has acquired.
TailReads(p) == view[p].t .. Len(tails)
HeadReads(p) == view[p].h .. Len(heads)
ConsumerReads == cview .. Len(tails)

Init ==
  /\ buffer = [s \in Slots |-> Uninit]
  /\ heads = <<0>>
  /\ tails = <<0>>
  /\ view = [p \in Producers |-> [t |-> 1, h |-> 1]]
  /\ cview = 1
  /\ wroteAt = [s \in Slots |-> 1]
  /\ readAt = [s \in Slots |-> 1]
  /\ ppc = [p \in Producers |-> "idle"]
  /\ pitem = [p \in Producers |-> Uninit]
  /\ ptail = [p \in Producers |-> 0]
  /\ cpc = "idle"
  /\ citem = Uninit
  /\ sawItem = FALSE
  /\ sawRoom = [p \in Producers |-> FALSE]
  /\ life = "live"
  /\ accepted = << >>
  /\ got = << >>
  /\ released = << >>

-----------------------------------------------------------------------------
(***************************************************************************)
(* try_push                                                                *)
(***************************************************************************)

\* The call, and `tail.load(Relaxed)'.
LoadTail(p, item) ==
  /\ Live
  /\ ppc[p] = "idle"
  /\ Len(accepted) < MaxPush
  /\ \E t \in TailReads(p) : ptail' = [ptail EXCEPT ![p] = tails[t]]
  /\ pitem' = [pitem EXCEPT ![p] = item]
  /\ ppc' = [ppc EXCEPT ![p] = "head"]
  /\ UNCHANGED <<buffer, heads, tails, view, cview, wroteAt, readAt, popVars,
                 sawItem, sawRoom, life, accepted, released>>

\* `head.load(Acquire)' reads position h.
AcquireHeadNot(p, h) == UNCHANGED view     \* a Relaxed load orders nothing
AcquireHead(p, h) == 
  view' = [view EXCEPT ![p] = [t |-> view[p].t, h |-> h]]

\* The load finds the queue full: try_push returns Err(item).
RefuseFull(p) ==
  /\ ppc[p] = "head"
  /\ \E h \in HeadReads(p) :
       /\ IsFullAt(ptail[p], heads[h])
       /\ AcquireHead(p, h)
  /\ ppc' = [ppc EXCEPT ![p] = "idle"]
  /\ pitem' = [pitem EXCEPT ![p] = Uninit]
  /\ sawRoom' = [sawRoom EXCEPT ![p] = FALSE]
  /\ UNCHANGED <<buffer, heads, tails, cview, wroteAt, readAt, ptail, popVars,
                 sawItem, life, accepted, released>>

\* The load finds a free slot.
FindRoom(p) ==
  /\ ppc[p] = "head"
  /\ \E h \in HeadReads(p) :
       /\ ~IsFullAt(ptail[p], heads[h])
       /\ AcquireHead(p, h)
  /\ ppc' = [ppc EXCEPT ![p] = "write"]
  /\ sawRoom' = [sawRoom EXCEPT ![p] = FALSE]
  /\ UNCHANGED <<buffer, heads, tails, cview, wroteAt, readAt, pitem, ptail,
                 popVars, sawItem, life, accepted, released>>

\* `buffer[tail].write(item)'
WriteSlot(p) ==
  /\ ppc[p] = "write"
  /\ buffer' = [buffer EXCEPT ![ptail[p]] = pitem[p]]
  /\ wroteAt' = [wroteAt EXCEPT ![ptail[p]] = Len(tails) + 1]
  /\ ppc' = [ppc EXCEPT ![p] = "publish"]
  /\ UNCHANGED <<heads, tails, view, cview, readAt, pitem, ptail, popVars,
                 sawItem, sawRoom, life, accepted, released>>

\* `tail.store(next_tail, Release)': try_push returns Ok.
Publish(p) ==
  /\ ppc[p] = "publish"
  /\ tails' = Append(tails, NextIndex(ptail[p]))
  /\ view' = [view EXCEPT ![p] = [t |-> Len(tails) + 1, h |-> view[p].h]]
  /\ accepted' = Append(accepted, pitem[p])
  /\ pitem' = [pitem EXCEPT ![p] = Uninit]
  /\ ppc' = [ppc EXCEPT ![p] = "idle"]
  /\ UNCHANGED <<buffer, heads, cview, wroteAt, readAt, ptail, popVars,
                 sawItem, sawRoom, life, released>>

-----------------------------------------------------------------------------
(***************************************************************************)
(* try_pop.  The consumer's own load of head is exact.                     *)
(***************************************************************************)

\* `tail.load(Acquire)' finds the queue empty: try_pop returns None.
FindEmpty ==
  /\ Live
  /\ cpc = "idle"
  /\ \E t \in ConsumerReads : IsEmptyAt(CurHead, tails[t]) /\ cview' = t
  /\ sawItem' = FALSE
  /\ UNCHANGED <<buffer, heads, tails, view, wroteAt, readAt, pushVars, popVars,
                 sawRoom, life, accepted, released>>

\* The load finds an item.
FindItem ==
  /\ Live
  /\ cpc = "idle"
  /\ \E t \in ConsumerReads : ~IsEmptyAt(CurHead, tails[t]) /\ cview' = t
  /\ sawItem' = FALSE
  /\ cpc' = "read"
  /\ UNCHANGED <<buffer, heads, tails, view, wroteAt, readAt, pushVars, citem, got,
                 sawRoom, life, accepted, released>>

\* `buffer[head].assume_init_read()' moves the item out of the slot.
ReadSlot ==
  /\ cpc = "read"
  /\ citem' = buffer[CurHead]
  /\ buffer' = [buffer EXCEPT ![CurHead] = Uninit]
  /\ readAt' = [readAt EXCEPT ![CurHead] = Len(heads) + 1]
  /\ cpc' = "advance"
  /\ UNCHANGED <<heads, tails, view, cview, wroteAt, pushVars, got,
                 sawItem, sawRoom, life, accepted, released>>

\* `head.store(next_head, Release)': try_pop returns Some(item).
Advance ==
  /\ cpc = "advance"
  /\ heads' = Append(heads, NextIndex(CurHead))
  /\ got' = Append(got, citem)
  /\ citem' = Uninit
  /\ cpc' = "idle"
  /\ UNCHANGED <<buffer, tails, view, cview, wroteAt, readAt, pushVars,
                 sawItem, sawRoom, life, accepted, released>>

-----------------------------------------------------------------------------
(***************************************************************************)
(* Queries                                                                 *)
(***************************************************************************)

\* is_empty(), called by the consumer between two try_pops.
IsEmpty ==
  /\ Live
  /\ cpc = "idle"
  /\ \E t \in ConsumerReads :
       /\ cview' = t
       /\ sawItem' = ~IsEmptyAt(CurHead, tails[t])
  /\ UNCHANGED <<buffer, heads, tails, view, wroteAt, readAt, pushVars, popVars,
                 sawRoom, life, accepted, released>>

\* is_full(), called by the producer between two try_pushes.
IsFull(p) ==
  /\ Live
  /\ ppc[p] = "idle"
  /\ \E t \in TailReads(p), h \in HeadReads(p) :
       /\ AcquireHead(p, h)
       /\ sawRoom' = [sawRoom EXCEPT ![p] = ~IsFullAt(tails[t], heads[h])]
  /\ UNCHANGED <<buffer, heads, tails, cview, wroteAt, readAt, pushVars, popVars,
                 sawItem, life, accepted, released>>

\* len() of the two values it loaded.
LenNoWrap(tail, head) == IF tail >= head THEN tail - head ELSE head - tail
LenOf(tail, head) ==
  IF tail >= head THEN tail - head ELSE Capacity - head + tail

-----------------------------------------------------------------------------
(***************************************************************************)
(* Drop.  drop(&mut self) runs when no other thread can reach the queue,   *)
(* so it has synchronised with all of them: its loads are exact.           *)
(***************************************************************************)
BeginDrop ==
  /\ Live
  /\ \A p \in Producers : ppc[p] = "idle"
  /\ cpc = "idle"
  /\ life' = "dropping"
  /\ cview' = Len(tails)
  /\ UNCHANGED <<buffer, heads, tails, view, wroteAt, readAt, pushVars, popVars,
                 sawItem, sawRoom, accepted, released>>

\* One turn of `while self.try_pop().is_some() {}'.
DropItem ==
  /\ life = "dropping"
  /\ ~IsEmptyAt(CurHead, CurTail)
  /\ released' = Append(released, buffer[CurHead])
  /\ buffer' = [buffer EXCEPT ![CurHead] = Uninit]
  /\ readAt' = [readAt EXCEPT ![CurHead] = Len(heads) + 1]
  /\ heads' = Append(heads, NextIndex(CurHead))
  /\ UNCHANGED <<tails, view, cview, wroteAt, pushVars, popVars,
                 sawItem, sawRoom, life, accepted>>

EndDrop ==
  /\ life = "dropping"
  /\ IsEmptyAt(CurHead, CurTail)
  /\ life' = "dropped"
  /\ UNCHANGED <<buffer, heads, tails, view, cview, wroteAt, readAt, pushVars,
                 popVars, sawItem, sawRoom, accepted, released>>

-----------------------------------------------------------------------------
PushStep(p) ==
  \/ \E item \in Items : LoadTail(p, item)
  \/ RefuseFull(p)
  \/ FindRoom(p)
  \/ WriteSlot(p)
  \/ Publish(p)

PopStep == FindEmpty \/ FindItem \/ ReadSlot \/ Advance
DropStep == BeginDrop \/ DropItem \/ EndDrop

Next ==
  \/ \E p \in Producers : PushStep(p) \/ IsFull(p)
  \/ PopStep
  \/ IsEmpty
  \/ DropStep

\* The contract of the type: at most one thread produces.
SingleProducer == \A p, q \in Producers : p = q

Spec == Init /\ [][Next]_vars

-----------------------------------------------------------------------------
(***************************************************************************)
(* Properties                                                              *)
(***************************************************************************)

\* Every variable has its type; indices stay inside the buffer.
TypeOK ==
  /\ buffer \in [Slots -> Items \cup {Uninit}]
  /\ heads \in Seq(Slots) /\ heads # << >>
  /\ tails \in Seq(Slots) /\ tails # << >>
  /\ view \in [Producers -> [t : 1..Len(tails), h : 1..Len(heads)]]
  /\ cview \in 1..Len(tails)
  /\ wroteAt \in [Slots -> Nat]
  /\ readAt \in [Slots -> Nat]
  /\ ppc \in [Producers -> {"idle", "head", "write", "publish"}]
  /\ pitem \in [Producers -> Items \cup {Uninit}]
  /\ ptail \in [Producers -> Slots]
  /\ cpc \in {"idle", "read", "advance"}
  /\ citem \in Items \cup {Uninit}
  /\ sawItem \in BOOLEAN
  /\ sawRoom \in [Producers -> BOOLEAN]
  /\ life \in {"live", "dropping", "dropped"}
  /\ accepted \in Seq(Items)
  /\ got \in Seq(Items)
  /\ released \in Seq(Items)

\* "Safe: we have exclusive access to this slot" (both unsafe blocks): when
\* try_push is about to write a slot, or try_pop to read one, every earlier
\* access of that slot by another thread happens before it.
NoDataRace ==
  /\ \A p \in Producers : ppc[p] = "write" =>
       /\ wroteAt[ptail[p]] <= view[p].t
       /\ readAt[ptail[p]] <= view[p].h
  /\ cpc = "read" => wroteAt[CurHead] <= cview

\* assume_init_read is only applied to a slot that holds an item, by try_pop
\* and by drop, and try_push never overwrites an item nobody has taken.
SlotsOwned ==
  /\ cpc = "read" => buffer[CurHead] # Uninit
  /\ life = "dropping" /\ CurHead # CurTail => buffer[CurHead] # Uninit
  /\ \A p \in Producers : ppc[p] = "write" => buffer[ptail[p]] = Uninit

\* try_pop returns the accepted items, each once and in the order in which
\* their try_push returned, and drop releases the ones that follow.
FifoDelivery ==
  LET out == got \o released
  IN /\ Len(out) <= Len(accepted)
     /\ out = SubSeq(accepted, 1, Len(out))

\* After drop every accepted item was popped or released, none twice, and no
\* slot still owns one: nothing leaks.
DropReleasesAll ==
  life = "dropped" =>
    /\ got \o released = accepted
    /\ \A s \in Slots : buffer[s] = Uninit

\* After is_empty() returned false the consumer's next try_pop returns Some,
\* whichever value its load of tail reads.
EmptyCheckStable ==
  Live /\ sawItem /\ cpc = "idle" =>
    \A t \in ConsumerReads : tails[t] # CurHead

\* After is_full() returned false the producer's next try_push returns Ok,
\* whichever value its load of head reads.
FullCheckStable ==
  \A p \in Producers : sawRoom[p] /\ ppc[p] = "idle" =>
    \A h \in HeadReads(p) : NextIndex(CurTail) # heads[h]

\* What is_empty() and is_full() have denied stays so until the caller's own next call.
ChecksStable == EmptyCheckStable /\ FullCheckStable

\* What len() can return: never more than the usable capacity - 1, never less
\* than the number of queued items when the producer asks, never more than it
\* when the consumer asks, whatever the Relaxed load of the other index reads.
LenBrackets ==
  LET queued == Len(tails) - Len(heads)
  IN /\ \A p \in Producers : \A h \in HeadReads(p) :
          LenOf(CurTail, heads[h]) \in queued .. (Capacity - 1)
     /\ \A t \in ConsumerReads : LenOf(tails[t], CurHead) \in 0 .. queued

\* The queue implements the bounded FIFO of capacity - 1 items: an item joins
\* it when tail is stored and leaves it when head is stored.
Queued ==
  [i \in 1..(Len(tails) - Len(heads)) |->
     IF i = 1 /\ cpc = "advance" THEN citem
     ELSE buffer[(CurHead + i - 1) % Capacity]]

Fifo == INSTANCE BoundedFifo WITH
          Bound <- Capacity - 1, queue <- Queued, delivered <- got, open <- Live

ImplementsFifo == Fifo!Spec

\* Under MpscFairSpec: producers that keep retrying get every item in, and the consumer gets
\* them all out again: neither side is stuck on a stale index, or on the lock.
AllDelivered == <>(Len(got) = MaxPush)
=============================================================================
