---------------------------- MODULE BoundedFifo ----------------------------
(***************************************************************************)
(* What a queue of src/utils/lockfree_queue.rs promises its callers: a     *)
(* first-in first-out queue of at most Bound items.  A push may be refused *)
(* (a step that changes nothing), and once the queue is closed, that is    *)
(* being dropped, the items it still holds are discarded in order.         *)
(***************************************************************************)
EXTENDS Naturals, Sequences

CONSTANTS Bound, Items

VARIABLES
  queue,      \* the items pushed and not yet popped, oldest first
  delivered,  \* every item popped so far, in order
  open        \* FALSE once the owner started to drop the queue

fifoVars == <<queue, delivered, open>>

Init ==
  /\ queue = << >>
  /\ delivered = << >>
  /\ open = TRUE

Push(item) ==
  /\ open
  /\ Len(queue) < Bound
  /\ queue' = Append(queue, item)
  /\ UNCHANGED <<delivered, open>>

Pop ==
  /\ open
  /\ queue # << >>
  /\ queue' = Tail(queue)
  /\ delivered' = Append(delivered, Head(queue))
  /\ UNCHANGED open

Close ==
  /\ open
  /\ open' = FALSE
  /\ UNCHANGED <<queue, delivered>>

Discard ==
  /\ ~open
  /\ queue # << >>
  /\ queue' = Tail(queue)
  /\ UNCHANGED <<delivered, open>>

Next ==
  \/ \E item \in Items : Push(item)
  \/ Pop
  \/ Close
  \/ Discard

Spec == Init /\ [][Next]_fifoVars
=============================================================================
