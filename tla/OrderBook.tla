----------------------------- MODULE OrderBook -----------------------------
(***************************************************************************)
(* OrderBook (src/market_data/orderbook.rs): update_bid and update_ask     *)
(* store a level's price, then its size, then the book's timestamp, each   *)
(* with Release, and count the update with a fetch_add; the read           *)
(* operations load one atomic after the other with Acquire.  Nothing makes *)
(* the four stores, or two loads, one step.                                *)
(*                                                                         *)
(* Every location is kept as its modification order, a sequence of         *)
(* messages.  A message says which update stored it and, because the store *)
(* is a Release, up to where its writer had seen every location; a thread  *)
(* that loads it sees at least as much afterwards.  Loads may return any   *)
(* message that is not older than what the thread has seen.  What is       *)
(* stored does not matter: the number of the update stands for it.         *)
(***************************************************************************)
EXTENDS Naturals, Sequences

CONSTANTS
  Writers,    \* threads that update the book
  Levels,     \* the levels that callers pass
  MaxUpdates, \* bound on the number of updates
  MaxReads    \* bound on the number of the reader's calls

ASSUME LevelsAssumption == Levels \subseteq Nat
ASSUME BoundsAssumption == MaxUpdates \in Nat /\ MaxReads \in Nat

Sides == {"bid", "ask"}
Price(s, l) == <<"price", s, l>>
Size(s, l) == <<"size", s, l>>
LastUpdate == <<"last_update_ns">>
SequenceNo == <<"sequence">>
\* The arrays have ten entries; the best quotes are read from entry 0,
\* whichever levels the callers pass.
BookLevels == (Levels \union {0}) \intersect 0..9
Prices == {Price(s, l) : s \in Sides, l \in BookLevels}
Sizes == {Size(s, l) : s \in Sides, l \in BookLevels}
Locations == Prices \union Sizes \union {LastUpdate, SequenceNo}

VARIABLES
  mem,      \* per location, its modification order: messages that say
            \* which update stored them, or for the sequence the number
  wview,    \* per writer and location, the position it has seen
  wtodo,    \* per writer, the stores its update has still to make
  wupd,     \* per writer, the number of its update
  targets,  \* history: writer, side and level of each update, in order of the calls
  counted,  \* history: the updates in the order in which they were counted
  rview,    \* per location, the position the reader has seen
  rtodo,    \* the loads the reader's calls have still to make
  reads,    \* the number of calls the reader has begun
  results   \* what these calls have loaded: location, position and update

writerVars == <<wview, wtodo, wupd, targets, counted>>
readerVars == <<rview, rtodo, reads, results>>
vars == <<mem, writerVars, readerVars>>

\* The stores of update_bid/update_ask, in program order.
StoresSizeLast(s, l) == <<Price(s, l), LastUpdate, SequenceNo, Size(s, l)>>
StoresTimeFirst(s, l) == <<LastUpdate, Price(s, l), Size(s, l), SequenceNo>>
StoresNoSize(s, l) == <<Price(s, l), LastUpdate, SequenceNo>>
Stores(s, l) == <<Price(s, l), Size(s, l), LastUpdate, SequenceNo>>

(***************************************************************************)
(* The loads, in program order: best_bid and best_ask; mid_price and       *)
(* spread_bps, which call both; get_bids and get_asks over all levels;     *)
(* and the calls of a reader that looks at sequence() before and after a   *)
(* quote, or at last_update_ns() first.                                    *)
(***************************************************************************)
Quote(s, l) == <<Price(s, l), Size(s, l)>>
Mid == Quote("bid", 0) \o Quote("ask", 0)
Depth(s) == IF 1 \notin BookLevels THEN Quote(s, 0) ELSE Quote(s, 0) \o Quote(s, 1)
Calls == {Quote(s, 0) : s \in Sides} \union {Mid} \union {Depth(s) : s \in Sides}
         \union {<<SequenceNo>> \o Depth(s) \o <<SequenceNo>> : s \in Sides}
         \union {<<LastUpdate>> \o Mid}

\* The view a message carries: everything its writer has seen (Release),
\* or its own location only (a Relaxed store).
MessageViewRelaxed(view, loc) == [x \in Locations |-> IF x = loc THEN view[x] ELSE 1]
MessageView(view, loc) == view

Join(v, w) == [x \in Locations |-> IF v[x] >= w[x] THEN v[x] ELSE w[x]]

Latest(loc) == mem[loc][Len(mem[loc])]
StartView == [x \in Locations |-> 1]

Init ==
  /\ mem = [x \in Locations |-> <<[upd |-> 0, view |-> StartView]>>]
  /\ wview = [w \in Writers |-> StartView]
  /\ wtodo = [w \in Writers |-> << >>]
  /\ wupd = [w \in Writers |-> 0]
  /\ targets = << >>
  /\ counted = << >>
  /\ rview = StartView
  /\ rtodo = << >>
  /\ reads = 0
  /\ results = << >>

(***************************************************************************)
(* update_bid, update_ask                                                  *)
(***************************************************************************)
Update(w, s, l) ==
  /\ wtodo[w] = << >>
  /\ l < 10                       \* otherwise the call returns at once
  /\ Len(targets) < MaxUpdates
  /\ targets' = Append(targets, [writer |-> w, side |-> s, level |-> l])
  /\ wupd' = [wupd EXCEPT ![w] = Len(targets) + 1]
  /\ wtodo' = [wtodo EXCEPT ![w] = Stores(s, l)]
  /\ UNCHANGED <<mem, wview, counted, readerVars>>

\* A writer that has seen `seen' adds a message n to a location.
Write(w, loc, n, seen) ==
  LET view == [seen EXCEPT ![loc] = Len(mem[loc]) + 1]
  IN /\ mem' = [mem EXCEPT ![loc] = Append(@, [upd |-> n,
                                               view |-> MessageView(view, loc)])]
     /\ wview' = [wview EXCEPT ![w] = view]
     /\ wtodo' = [wtodo EXCEPT ![w] = Tail(@)]

\* store(.., Release).
StoreNext(w) ==
  /\ wtodo[w] # << >>
  /\ Head(wtodo[w]) # SequenceNo
  /\ Write(w, Head(wtodo[w]), wupd[w], wview[w])
  /\ UNCHANGED <<wupd, targets, counted, readerVars>>

\* sequence.fetch_add(1, AcqRel) reads the latest message; a load and a
\* store would read any that the writer may still see.
CountedLoad(w) == mem[SequenceNo][wview[w][SequenceNo]]
CountedLast(w) == Latest(SequenceNo)

CountUpdate(w) ==
  /\ wtodo[w] # << >>
  /\ Head(wtodo[w]) = SequenceNo
  /\ Write(w, SequenceNo, CountedLast(w).upd + 1, Join(wview[w], CountedLast(w).view))
  /\ counted' = Append(counted, wupd[w])
  /\ UNCHANGED <<wupd, targets, readerVars>>

(***************************************************************************)
(* The read operations                                                     *)
(***************************************************************************)
Read(call) ==
  /\ rtodo = << >>
  /\ reads < MaxReads
  /\ reads' = reads + 1
  /\ rtodo' = call
  /\ results' = << >>
  /\ UNCHANGED <<mem, writerVars, rview>>

\* load(Acquire).
LoadNext ==
  /\ rtodo # << >>
  /\ LET loc == Head(rtodo)
     IN \E p \in rview[loc]..Len(mem[loc]) :
          /\ results' = Append(results, [loc |-> loc, pos |-> p, upd |-> mem[loc][p].upd])
          /\ rview' = Join([rview EXCEPT ![loc] = p], mem[loc][p].view)
  /\ rtodo' = Tail(rtodo)
  /\ UNCHANGED <<mem, writerVars, reads>>

WriterStep(w) ==
  \/ \E s \in Sides, l \in Levels : Update(w, s, l)
  \/ StoreNext(w)
  \/ CountUpdate(w)

Next ==
  \/ \E w \in Writers : WriterStep(w)
  \/ \E call \in Calls : Read(call)
  \/ LoadNext

Spec == Init /\ [][Next]_vars

-----------------------------------------------------------------------------
Views == [Locations -> Nat \ {0}]

\* Type correctness: no view points past the end of a location, and the
\* sequence number counts every update.
TypeOK ==
  /\ \A x \in Locations : \A p \in 1..Len(mem[x]) :
       mem[x][p].upd \in 0..MaxUpdates /\ mem[x][p].view \in Views
  /\ wview \in [Writers -> Views]
  /\ rview \in Views
  /\ reads \in 0..MaxReads
  /\ \A x \in Locations : rview[x] <= Len(mem[x])
  /\ \A w \in Writers, x \in Locations : wview[w][x] <= Len(mem[x])
  /\ Len(targets) <= MaxUpdates
  /\ Len(counted) <= Len(targets)
  /\ Latest(SequenceNo).upd = Len(counted)

\* Update u stored location loc.
Stored(u, loc) == loc = Price(targets[u].side, targets[u].level)
                  \/ loc = Size(targets[u].side, targets[u].level)

\* A load returned the value of update u or a later one.
Reflects(r, u) == \E p \in 1..r.pos : mem[r.loc][p].upd = u

\* All updates of a side came from one thread, as where each side has its
\* own feed.
SoleWriter(s) ==
  \A u, v \in 1..Len(targets) :
    targets[u].side = s /\ targets[v].side = s => targets[u].writer = targets[v].writer

(***************************************************************************)
(* A quote is torn by one update at most: on a side with a single writer   *)
(* the size is that of the same update as the price, of a later one, or of *)
(* the one just before, never older.                                       *)
(***************************************************************************)
TornByOneUpdate ==
  \A i \in 1..(Len(results) - 1) :
    results[i].loc \in Prices /\ SoleWriter(results[i].loc[2])
      => results[i + 1].pos + 1 >= results[i].pos

(***************************************************************************)
(* sequence() covers what is read after it: a reader that got n sees the   *)
(* price and the size of each of the n updates counted, or later ones,     *)
(* with any number of writers.                                             *)
(***************************************************************************)
SequenceCovers ==
  \A i, j \in 1..Len(results) :
    i < j /\ results[i].loc = SequenceNo =>
      \A k \in 1..results[i].upd :
        Stored(counted[k], results[j].loc) => Reflects(results[j], counted[k])

(***************************************************************************)
(* sequence() read after a quote lags it by the update in progress at      *)
(* most: every earlier update of the writer whose value the reader saw is  *)
(* counted, with any number of writers.                                    *)
(***************************************************************************)
SequenceCountsEarlier ==
  \A i, j \in 1..Len(results) :
    i < j /\ results[j].loc = SequenceNo /\ results[i].loc # SequenceNo =>
      \A v \in 1..(results[i].upd - 1) :
        targets[v].writer = targets[results[i].upd].writer
          => \E k \in 1..results[j].upd : counted[k] = v

\* last_update_ns() covers what is read after it: the update that stored the
\* timestamp has stored its price and its size before.
TimestampCovers ==
  \A i, j \in 1..Len(results) :
    i < j /\ results[i].loc = LastUpdate /\ results[i].upd # 0
      /\ Stored(results[i].upd, results[j].loc) => Reflects(results[j], results[i].upd)

(***************************************************************************)
(* A book at rest is whole: when no update is under way, price and size of *)
(* every level of a side with a single writer come from the same update.   *)
(***************************************************************************)
BookAtRestIsWhole ==
  (\A w \in Writers : wtodo[w] = << >>) =>
    \A s \in Sides, l \in BookLevels :
      SoleWriter(s) => Latest(Price(s, l)).upd = Latest(Size(s, l)).upd
=============================================================================
