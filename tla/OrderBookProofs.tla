-------------------------- MODULE OrderBookProofs --------------------------
(***************************************************************************)
(* The guarantees of the order book's read operations for any number of    *)
(* writers, levels, updates and calls.                                     *)
(***************************************************************************)
EXTENDS OrderBook, FiniteSetTheorems, TLAPS

Messages == [upd : Nat, view : Views]
Targets == [writer : Writers, side : Sides, level : BookLevels]
Readings == [loc : Locations, pos : Nat \ {0}, upd : Nat]
Updates == 1..Len(targets)

\* A view that points past the end of no location.
Within(m, v) == v \in Views /\ \A x \in Locations : v[x] <= Len(m[x])

\* Who has the view v has seen the store of update u to x, and the counting
\* of u.
Knows(m, v, u, x) == \E p \in 1..v[x] : m[x][p].upd = u
KnowsCounted(c, v, u) == \E k \in 1..(v[SequenceNo] - 1) : c[k] = u

KnowsPrice(m, v, u) == Knows(m, v, u, Price(targets[u].side, targets[u].level))
KnowsSize(m, v, u) == Knows(m, v, u, Size(targets[u].side, targets[u].level))

Memory ==
  /\ mem \in [Locations -> Seq(Messages)]
  /\ \A x \in Locations : mem[x] # << >>
  /\ \A x \in Locations : \A p \in 1..Len(mem[x]) : Within(mem, mem[x][p].view)

Threads ==
  /\ wview \in [Writers -> Views] /\ \A w \in Writers : Within(mem, wview[w])
  /\ wtodo \in [Writers -> Seq(Locations)]
  /\ wupd \in [Writers -> Nat]
  /\ targets \in Seq(Targets) /\ Len(targets) <= MaxUpdates
  /\ Within(mem, rview)
  /\ rtodo \in Seq(Locations) /\ reads \in 0..MaxReads
  /\ results \in Seq(Readings)

\* An update under way, what it has stored and what it has still to store.
Writing(w) ==
  /\ wupd[w] \in Updates /\ targets[wupd[w]].writer = w
  /\ \A k \in 1..Len(counted) : counted[k] # wupd[w]
  /\ \/ wtodo[w] = Stores(targets[wupd[w]].side, targets[wupd[w]].level)
     \/ /\ wtodo[w] = <<Size(targets[wupd[w]].side, targets[wupd[w]].level), LastUpdate, SequenceNo>>
        /\ KnowsPrice(mem, wview[w], wupd[w])
     \/ /\ wtodo[w] \in {<<LastUpdate, SequenceNo>>, <<SequenceNo>>}
        /\ KnowsPrice(mem, wview[w], wupd[w]) /\ KnowsSize(mem, wview[w], wupd[w])

Writings == \A w \in Writers : wtodo[w] # << >> => Writing(w)

\* Who stored a message, and what he had stored before.
Origin(x, u) ==
  \/ u \in Updates /\ Stored(u, x)
  \/ x = LastUpdate /\ u \in Updates

Origins ==
  \A x \in Locations \ {SequenceNo} : \A p \in 1..Len(mem[x]) :
    /\ p = 1 => mem[x][p].upd = 0
    /\ p # 1 => Origin(x, mem[x][p].upd)

Stamps ==
  \A p \in 2..Len(mem[LastUpdate]) :
    LET m == mem[LastUpdate][p] IN KnowsPrice(mem, m.view, m.upd) /\ KnowsSize(mem, m.view, m.upd)

\* The sequence number counts the updates, each once, and only after their
\* stores.
Counting ==
  /\ counted \in Seq(Updates)
  /\ \A k, n \in 1..Len(counted) : counted[k] = counted[n] => k = n
  /\ Len(mem[SequenceNo]) = Len(counted) + 1
  /\ \A p \in 1..Len(mem[SequenceNo]) :
       LET m == mem[SequenceNo][p]
       IN /\ m.upd = p - 1
          /\ \A k \in 1..(p - 1) : KnowsPrice(mem, m.view, counted[k]) /\ KnowsSize(mem, m.view, counted[k])

\* A thread has seen its finished updates counted, and says so in what it
\* stores.
Finished ==
  /\ \A u \in Updates :
       wtodo[targets[u].writer] = << >> \/ wupd[targets[u].writer] # u
         => KnowsCounted(counted, wview[targets[u].writer], u)
  /\ \A x \in Locations \ {SequenceNo} : \A p \in 2..Len(mem[x]) : \A u \in 1..(mem[x][p].upd - 1) :
       targets[u].writer = targets[mem[x][p].upd].writer => KnowsCounted(counted, mem[x][p].view, u)

\* What the reader's call has loaded so far.
Loaded ==
  /\ \A i \in 1..Len(results) :
       /\ results[i].pos <= Len(mem[results[i].loc])
       /\ results[i].upd = mem[results[i].loc][results[i].pos].upd
       /\ \A x \in Locations : mem[results[i].loc][results[i].pos].view[x] <= rview[x]
  /\ \A i, j \in 1..Len(results) : i < j =>
       mem[results[i].loc][results[i].pos].view[results[j].loc] <= results[j].pos

\* A price is followed by its size.
SizeOf(x) == Size(x[2], x[3])
Paired(s) == \A i \in 1..Len(s) : s[i] \in Prices => i < Len(s) /\ s[i + 1] = SizeOf(s[i])

Pairing ==
  /\ Paired(rtodo)
  /\ \A i \in 1..Len(results) : results[i].loc \in Prices =>
       IF i < Len(results) THEN results[i + 1].loc = SizeOf(results[i].loc)
       ELSE rtodo # << >> /\ Head(rtodo) = SizeOf(results[i].loc)

\* On a side with a single writer prices and sizes alternate.
Alternating(s, l) ==
  /\ \A u \in Updates : targets[u].side = s =>
       /\ wview[targets[u].writer][Price(s, l)] = Len(mem[Price(s, l)])
       /\ wview[targets[u].writer][Size(s, l)] = Len(mem[Size(s, l)])
  /\ \A p \in 1..Len(mem[Price(s, l)]) : p <= mem[Price(s, l)][p].view[Size(s, l)] + 1
  /\ \A p \in 1..Len(mem[Size(s, l)]) :
       p <= Len(mem[Price(s, l)]) /\ mem[Size(s, l)][p].upd = mem[Price(s, l)][p].upd
  /\ \/ /\ Len(mem[Price(s, l)]) = Len(mem[Size(s, l)])
        /\ \A w \in Writers : wtodo[w] # << >> => Head(wtodo[w]) # Size(s, l)
     \/ /\ Len(mem[Price(s, l)]) = Len(mem[Size(s, l)]) + 1
        /\ \E w \in Writers : /\ wtodo[w] # << >> /\ Head(wtodo[w]) = Size(s, l)
                              /\ wupd[w] = Latest(Price(s, l)).upd

Alternation == \A s \in Sides, l \in BookLevels : SoleWriter(s) => Alternating(s, l)

BInv ==
  /\ Memory /\ Threads /\ Writings /\ Origins /\ Stamps /\ Counting
  /\ Finished /\ Loaded /\ Pairing /\ Alternation

-----------------------------------------------------------------------------
(***************************************************************************)
(* Locations                                                               *)
(***************************************************************************)

\* The locations are told apart by their names.
LEMMA LocationFacts ==
  /\ LastUpdate \in Locations /\ SequenceNo \in Locations /\ LastUpdate # SequenceNo
  /\ \A s \in Sides, l \in BookLevels :
       /\ Price(s, l) \in Locations /\ Size(s, l) \in Locations
       /\ Price(s, l) \in Prices /\ Size(s, l) \notin Prices
       /\ Price(s, l) # LastUpdate /\ Price(s, l) # SequenceNo
       /\ Size(s, l) # LastUpdate /\ Size(s, l) # SequenceNo
       /\ SizeOf(Price(s, l)) = Size(s, l) /\ Price(s, l)[2] = s
  /\ \A s, t \in Sides, l, k \in BookLevels :
       /\ Price(s, l) # Size(t, k)
       /\ Price(s, l) = Price(t, k) => s = t /\ l = k
       /\ Size(s, l) = Size(t, k) => s = t /\ l = k
  /\ LastUpdate \notin Prices /\ SequenceNo \notin Prices
<1>1. LastUpdate[1] = "last_update_ns" /\ SequenceNo[1] = "sequence"
  BY DEF LastUpdate, SequenceNo
<1>2. \A s, l : /\ Price(s, l)[1] = "price" /\ Price(s, l)[2] = s /\ Price(s, l)[3] = l
                /\ Size(s, l)[1] = "size" /\ Size(s, l)[2] = s /\ Size(s, l)[3] = l
  BY DEF Price, Size
<1>3. LastUpdate \in Locations /\ SequenceNo \in Locations
  BY DEF Locations
<1>4. \A s \in Sides, l \in BookLevels :
        /\ Price(s, l) \in Locations /\ Size(s, l) \in Locations /\ Price(s, l) \in Prices
  BY DEF Locations, Prices, Sizes
<1>5. \A x \in Prices : x[1] = "price"
  BY <1>2 DEF Prices
<1>6. \A s, l : SizeOf(Price(s, l)) = Size(s, l)
  BY <1>2 DEF SizeOf
<1>7. LastUpdate # SequenceNo
  BY <1>1
<1>8. LastUpdate \notin Prices /\ SequenceNo \notin Prices
  BY <1>1, <1>5
<1>9. \A s, l : Size(s, l) \notin Prices
  BY <1>2, <1>5
<1>10. \A s, l : /\ Price(s, l) # LastUpdate /\ Price(s, l) # SequenceNo
                 /\ Size(s, l) # LastUpdate /\ Size(s, l) # SequenceNo
  BY <1>1, <1>2
<1>11. \A s, t, l, k : /\ Price(s, l) # Size(t, k)
                       /\ Price(s, l) = Price(t, k) => s = t /\ l = k
                       /\ Size(s, l) = Size(t, k) => s = t /\ l = k
  BY <1>2
<1> QED BY <1>2, <1>3, <1>4, <1>6, <1>7, <1>8, <1>9, <1>10, <1>11

\* Side and level of an update.
LEMMA TargetFacts ==
  ASSUME Threads, NEW u \in Updates
  PROVE  /\ targets[u] \in Targets
         /\ targets[u].writer \in Writers /\ targets[u].side \in Sides
         /\ targets[u].level \in BookLevels
<1>1. targets[u] \in Targets
  BY DEF Threads, Updates
<1> QED BY <1>1 DEF Targets

\* What an update stores, in a sequence.
LEMMA StoresFacts ==
  ASSUME NEW s \in Sides, NEW l \in BookLevels
  PROVE  /\ Stores(s, l) \in Seq(Locations) /\ Stores(s, l) # << >>
         /\ Head(Stores(s, l)) = Price(s, l)
         /\ Tail(Stores(s, l)) = <<Size(s, l), LastUpdate, SequenceNo>>
         /\ LET t == <<Size(s, l), LastUpdate, SequenceNo>>
            IN t \in Seq(Locations) /\ t # << >> /\ Head(t) = Size(s, l)
               /\ Tail(t) = <<LastUpdate, SequenceNo>>
         /\ LET t == <<LastUpdate, SequenceNo>>
            IN t \in Seq(Locations) /\ t # << >> /\ Head(t) = LastUpdate
               /\ Tail(t) = <<SequenceNo>>
         /\ LET t == <<SequenceNo>>
            IN t \in Seq(Locations) /\ t # << >> /\ Head(t) = SequenceNo /\ Tail(t) = << >>
<1>1. Price(s, l) \in Locations /\ Size(s, l) \in Locations
      /\ LastUpdate \in Locations /\ SequenceNo \in Locations
  BY LocationFacts
<1> QED BY <1>1 DEF Stores

-----------------------------------------------------------------------------
(***************************************************************************)
(* Views and stores                                                        *)
(***************************************************************************)

\* A view and a location have their types.
LEMMA ViewFacts ==
  ASSUME Memory, NEW v, Within(mem, v), NEW x \in Locations
  PROVE  /\ v[x] \in Nat \ {0} /\ Len(mem[x]) \in Nat \ {0}
         /\ v[x] \in 1..Len(mem[x]) /\ mem[x] \in Seq(Messages)
<1>1. mem[x] \in Seq(Messages) /\ mem[x] # << >>
  BY DEF Memory
<1>2. v[x] \in Nat \ {0} /\ v[x] <= Len(mem[x])
  BY DEF Within, Views
<1> QED BY <1>1, <1>2

LEMMA MessageFacts ==
  ASSUME Memory, NEW x \in Locations, NEW p \in 1..Len(mem[x])
  PROVE  /\ mem[x][p] \in Messages /\ mem[x][p].upd \in Nat
         /\ Within(mem, mem[x][p].view) /\ mem[x][p].view \in Views
<1>1. mem[x] \in Seq(Messages)
  BY DEF Memory
<1>2. mem[x][p] \in Messages
  BY <1>1
<1> QED BY <1>2 DEF Messages, Memory

LEMMA NotEmpty ==
  ASSUME Memory, NEW x \in Locations
  PROVE  Len(mem[x]) \in Nat \ {0} /\ mem[x] \in Seq(Messages)
<1>1. mem[x] \in Seq(Messages) /\ mem[x] # << >>
  BY DEF Memory
<1> QED BY <1>1

\* The pointwise maximum.
LEMMA JoinFacts ==
  ASSUME NEW v \in Views, NEW w \in Views
  PROVE  /\ Join(v, w) \in Views
         /\ \A x \in Locations : /\ v[x] <= Join(v, w)[x] /\ w[x] <= Join(v, w)[x]
                                 /\ Join(v, w)[x] = v[x] \/ Join(v, w)[x] = w[x]
<1>1. \A x \in Locations : v[x] \in Nat \ {0} /\ w[x] \in Nat \ {0}
  BY DEF Views
<1>2. \A x \in Locations : Join(v, w)[x] = IF v[x] >= w[x] THEN v[x] ELSE w[x]
  BY DEF Join
<1>3. Join(v, w) = [x \in Locations |-> Join(v, w)[x]]
  BY DEF Join
<1>4. \A x \in Locations : Join(v, w)[x] \in Nat \ {0}
  BY <1>1, <1>2
<1>5. Join(v, w) \in Views
  BY <1>3, <1>4 DEF Views
<1> QED BY <1>1, <1>2, <1>5

LEMMA JoinWithin ==
  ASSUME NEW v, NEW w, Within(mem, v), Within(mem, w)
  PROVE  Within(mem, Join(v, w))
<1>1. v \in Views /\ w \in Views
  BY DEF Within
<1> QED BY <1>1, JoinFacts DEF Within

\* What w's store of message n to x, made with the view `seen', changes.
Written(w, x, n, seen) ==
  /\ mem' \in [Locations -> Seq(Messages)]
  /\ Len(mem'[x]) = Len(mem[x]) + 1
  /\ \A y \in Locations : y # x => mem'[y] = mem[y]
  /\ \A p \in 1..Len(mem[x]) : mem'[x][p] = mem[x][p]
  /\ mem'[x][Len(mem[x]) + 1].upd = n
  /\ mem'[x][Len(mem[x]) + 1].view = wview'[w]
  /\ wview' \in [Writers -> Views] /\ wtodo' \in [Writers -> Seq(Locations)]
  /\ wview'[w][x] = Len(mem[x]) + 1
  /\ \A y \in Locations : y # x => wview'[w][y] = seen[y]
  /\ \A g \in Writers : g # w => wview'[g] = wview[g] /\ wtodo'[g] = wtodo[g]
  /\ wtodo'[w] = Tail(wtodo[w])

LEMMA WriteWritten ==
  ASSUME Memory, Threads, NEW w \in Writers, NEW x \in Locations, NEW n \in Nat,
         NEW seen, Within(mem, seen), wtodo[w] # << >>, Write(w, x, n, seen)
  PROVE  Written(w, x, n, seen)
<1> DEFINE new == [seen EXCEPT ![x] = Len(mem[x]) + 1]
           m == [upd |-> n, view |-> new]
<1>1. /\ mem' = [mem EXCEPT ![x] = Append(mem[x], m)]
      /\ wview' = [wview EXCEPT ![w] = new]
      /\ wtodo' = [wtodo EXCEPT ![w] = Tail(wtodo[w])]
  BY DEF Write, MessageView
<1>2. /\ mem \in [Locations -> Seq(Messages)] /\ mem[x] \in Seq(Messages)
      /\ Len(mem[x]) \in Nat
  BY DEF Memory
<1>3. new \in Views /\ new[x] = Len(mem[x]) + 1 /\ \A y \in Locations : y # x => new[y] = seen[y]
  BY <1>2 DEF Within, Views
<1>4. m \in Messages /\ m.upd = n /\ m.view = new
  BY <1>3 DEF Messages
<1> HIDE DEF m, new
<1>5. /\ wview'[w] = new /\ wtodo'[w] = Tail(wtodo[w])
      /\ \A g \in Writers : g # w => wview'[g] = wview[g] /\ wtodo'[g] = wtodo[g]
  BY <1>1 DEF Threads
<1>6. Append(mem[x], m) \in Seq(Messages)
  BY <1>2, <1>4
<1>7. /\ mem' \in [Locations -> Seq(Messages)] /\ mem'[x] = Append(mem[x], m)
      /\ \A y \in Locations : y # x => mem'[y] = mem[y]
  BY <1>1, <1>2, <1>6
<1>8. /\ Len(mem'[x]) = Len(mem[x]) + 1
      /\ \A p \in 1..Len(mem[x]) : mem'[x][p] = mem[x][p]
      /\ mem'[x][Len(mem[x]) + 1] = m
  BY <1>2, <1>4, <1>7
<1>9. wview' \in [Writers -> Views]
  BY <1>1, <1>3 DEF Threads
<1>10. wtodo' \in [Writers -> Seq(Locations)]
  <2>1. wtodo[w] \in Seq(Locations)
    BY DEF Threads
  <2>2. Tail(wtodo[w]) \in Seq(Locations)
    BY <2>1
  <2> QED BY <1>1, <2>2 DEF Threads
<1> QED BY <1>3, <1>4, <1>5, <1>7, <1>8, <1>9, <1>10 DEF Written

\* Messages stay where they are.
LEMMA OldMessages ==
  ASSUME Memory, NEW w, NEW x \in Locations, NEW n, NEW seen, Written(w, x, n, seen)
  PROVE  /\ \A y \in Locations : /\ Len(mem[y]) \in Nat /\ Len(mem'[y]) \in Nat
                                 /\ Len(mem[y]) <= Len(mem'[y])
                                 /\ \A p \in 1..Len(mem[y]) : mem'[y][p] = mem[y][p]
         /\ \A y \in Locations : \A p \in 1..Len(mem'[y]) :
              p \in 1..Len(mem[y]) \/ (y = x /\ p = Len(mem[x]) + 1)
         /\ \A v : Within(mem, v) => Within(mem', v)
         /\ \A v, u : \A y \in Locations : Within(mem, v) /\ Knows(mem, v, u, y) => Knows(mem', v, u, y)
<1>1. \A y \in Locations : /\ mem[y] \in Seq(Messages) /\ Len(mem[y]) \in Nat
                           /\ mem'[y] \in Seq(Messages) /\ Len(mem'[y]) \in Nat
  BY DEF Memory, Written
<1>2. \A y \in Locations : Len(mem'[y]) = IF y = x THEN Len(mem[x]) + 1 ELSE Len(mem[y])
  BY DEF Written
<1>3. \A y \in Locations : Len(mem[y]) <= Len(mem'[y])
  BY <1>1, <1>2
<1>4. \A y \in Locations : \A p \in 1..Len(mem[y]) : mem'[y][p] = mem[y][p]
  BY DEF Written
<1>5. \A y \in Locations : \A p \in 1..Len(mem'[y]) :
        p \in 1..Len(mem[y]) \/ (y = x /\ p = Len(mem[x]) + 1)
  BY <1>1, <1>2
<1>6. ASSUME NEW v, Within(mem, v) PROVE Within(mem', v)
  <2>1. v \in Views /\ \A y \in Locations : v[y] \in Nat /\ v[y] <= Len(mem[y])
    BY <1>6 DEF Within, Views
  <2> QED BY <1>1, <1>3, <2>1 DEF Within
<1>7. ASSUME NEW v, NEW u, NEW y \in Locations, Within(mem, v), Knows(mem, v, u, y)
      PROVE  Knows(mem', v, u, y)
  <2>1. PICK p \in 1..v[y] : mem[y][p].upd = u
    BY <1>7 DEF Knows
  <2>2. p \in 1..Len(mem[y])
    BY <1>7, <1>1 DEF Within, Views
  <2> QED BY <1>4, <2>1, <2>2 DEF Knows
<1> QED BY <1>1, <1>3, <1>4, <1>5, <1>6, <1>7

-----------------------------------------------------------------------------
(***************************************************************************)
(* A step of an update                                                     *)
(***************************************************************************)

\* Where a writer is, by the location that comes next.
LEMMA NextStore ==
  ASSUME Threads, Writings, NEW w \in Writers, wtodo[w] # << >>,
         NEW u, u = wupd[w], NEW s, s = targets[u].side, NEW l, l = targets[u].level,
         NEW x, x = Head(wtodo[w])
  PROVE  /\ u \in Updates /\ s \in Sides /\ l \in BookLevels /\ targets[u].writer = w
         /\ x \in Locations /\ x \in {Price(s, l), Size(s, l), LastUpdate, SequenceNo}
         /\ x = Price(s, l) => Tail(wtodo[w]) = <<Size(s, l), LastUpdate, SequenceNo>>
         /\ x = Size(s, l) => /\ Tail(wtodo[w]) = <<LastUpdate, SequenceNo>>
                              /\ KnowsPrice(mem, wview[w], u)
         /\ x = LastUpdate => /\ Tail(wtodo[w]) = <<SequenceNo>>
                              /\ KnowsPrice(mem, wview[w], u) /\ KnowsSize(mem, wview[w], u)
         /\ x = SequenceNo => /\ Tail(wtodo[w]) = << >>
                              /\ KnowsPrice(mem, wview[w], u) /\ KnowsSize(mem, wview[w], u)
<1>1. Writing(w)
  BY DEF Writings
<1>2. u \in Updates /\ targets[u].writer = w
  BY <1>1 DEF Writing
<1>3. s \in Sides /\ l \in BookLevels
  BY <1>2, TargetFacts
<1>4. \/ wtodo[w] = Stores(s, l)
      \/ wtodo[w] = <<Size(s, l), LastUpdate, SequenceNo>> /\ KnowsPrice(mem, wview[w], u)
      \/ /\ wtodo[w] \in {<<LastUpdate, SequenceNo>>, <<SequenceNo>>}
         /\ KnowsPrice(mem, wview[w], u) /\ KnowsSize(mem, wview[w], u)
  BY <1>1 DEF Writing
<1>5. /\ Price(s, l) \in Locations /\ Size(s, l) \in Locations
      /\ LastUpdate \in Locations /\ SequenceNo \in Locations
      /\ Price(s, l) # Size(s, l) /\ LastUpdate # SequenceNo
      /\ Price(s, l) # LastUpdate /\ Price(s, l) # SequenceNo
      /\ Size(s, l) # LastUpdate /\ Size(s, l) # SequenceNo
  BY <1>3, LocationFacts
<1>6. CASE wtodo[w] = Stores(s, l)
  <2>1. x = Price(s, l) /\ Tail(wtodo[w]) = <<Size(s, l), LastUpdate, SequenceNo>>
    BY <1>3, <1>6, StoresFacts
  <2> QED BY <1>2, <1>3, <1>5, <2>1
<1>7. CASE wtodo[w] = <<Size(s, l), LastUpdate, SequenceNo>> /\ KnowsPrice(mem, wview[w], u)
  <2>1. x = Size(s, l) /\ Tail(wtodo[w]) = <<LastUpdate, SequenceNo>>
    BY <1>3, <1>7, StoresFacts
  <2> QED BY <1>2, <1>3, <1>5, <1>7, <2>1
<1>8. CASE /\ wtodo[w] = <<LastUpdate, SequenceNo>>
           /\ KnowsPrice(mem, wview[w], u) /\ KnowsSize(mem, wview[w], u)
  <2>1. x = LastUpdate /\ Tail(wtodo[w]) = <<SequenceNo>>
    BY <1>3, <1>8, StoresFacts
  <2> QED BY <1>2, <1>3, <1>5, <1>8, <2>1
<1>9. CASE /\ wtodo[w] = <<SequenceNo>>
           /\ KnowsPrice(mem, wview[w], u) /\ KnowsSize(mem, wview[w], u)
  <2>1. x = SequenceNo /\ Tail(wtodo[w]) = << >>
    BY <1>3, <1>9, StoresFacts
  <2> QED BY <1>2, <1>3, <1>5, <1>9, <2>1
<1> QED BY <1>4, <1>6, <1>7, <1>8, <1>9

\* Writer w stores message n to the location x that comes next in its
\* update, with a view that it had, or that it got from the message before.
Storing(w, x, n, seen) ==
  /\ wtodo[w] # << >> /\ x = Head(wtodo[w])
  /\ n \in Nat
  /\ Within(mem, seen) /\ \A y \in Locations : wview[w][y] <= seen[y]
  /\ Written(w, x, n, seen)
  /\ IF x = SequenceNo
     THEN /\ n = Len(counted) + 1 /\ counted' = Append(counted, wupd[w])
          /\ \A y \in Locations : Latest(SequenceNo).view[y] <= seen[y]
     ELSE n = wupd[w] /\ seen = wview[w] /\ counted' = counted
  /\ UNCHANGED <<wupd, targets, readerVars>>

LEMMA StoringMemory ==
  ASSUME Memory, Threads, Writings, NEW w \in Writers, NEW x, NEW n, NEW seen,
         Storing(w, x, n, seen)
  PROVE  /\ x \in Locations /\ Memory' /\ Threads'
         /\ Within(mem', wview'[w])
<1>1. x \in Locations
  BY NextStore DEF Storing
<1>2. Written(w, x, n, seen) /\ Within(mem, seen)
  BY DEF Storing
<1>3. /\ \A v : Within(mem, v) => Within(mem', v)
      /\ \A y \in Locations : Len(mem'[y]) \in Nat /\ Len(mem[y]) <= Len(mem'[y])
      /\ \A y \in Locations : \A p \in 1..Len(mem[y]) : mem'[y][p] = mem[y][p]
      /\ \A y \in Locations : \A p \in 1..Len(mem'[y]) :
           p \in 1..Len(mem[y]) \/ (y = x /\ p = Len(mem[x]) + 1)
  BY <1>1, <1>2, OldMessages
<1>4. Within(mem', wview'[w])
  <2>1. Within(mem', seen)
    BY <1>2, <1>3
  <2>2. ASSUME NEW y \in Locations PROVE wview'[w][y] <= Len(mem'[y])
    <3>1. CASE y = x
      BY <3>1, <1>2, <1>3 DEF Written
    <3>2. CASE y # x
      <4>1. wview'[w][y] = seen[y]
        BY <1>2, <3>2 DEF Written
      <4> QED BY <4>1, <2>1 DEF Within
    <3> QED BY <3>1, <3>2
  <2>3. wview'[w] \in Views
    BY <1>2 DEF Written
  <2> QED BY <2>2, <2>3 DEF Within
<1>5. Memory'
  <2>1. mem' \in [Locations -> Seq(Messages)]
    BY <1>2 DEF Written
  <2>2. \A y \in Locations : mem'[y] # << >>
    <3> TAKE y \in Locations
    <3>1. Len(mem[y]) \in Nat \ {0} /\ mem'[y] \in Seq(Messages)
      BY <2>1 DEF Memory
    <3>2. Len(mem'[y]) # 0
      BY <3>1, <1>3
    <3> QED BY <3>1, <3>2
  <2>3. ASSUME NEW y \in Locations, NEW p \in 1..Len(mem'[y])
        PROVE  Within(mem', mem'[y][p].view)
    <3>1. CASE p \in 1..Len(mem[y])
      <4>1. Within(mem, mem[y][p].view)
        BY <3>1 DEF Memory
      <4> QED BY <4>1, <3>1, <1>3
    <3>2. CASE y = x /\ p = Len(mem[x]) + 1
      BY <3>2, <1>2, <1>4 DEF Written
    <3> QED BY <2>3, <1>3, <3>1, <3>2
  <2> QED BY <2>1, <2>2, <2>3 DEF Memory
<1>6. Threads'
  <2>1. wview' \in [Writers -> Views] /\ wtodo' \in [Writers -> Seq(Locations)]
    BY <1>2 DEF Written
  <2>2. \A g \in Writers : Within(mem', wview'[g])
    <3> TAKE g \in Writers
    <3>1. CASE g # w
      <4>1. wview'[g] = wview[g] /\ Within(mem, wview[g])
        BY <1>2, <3>1 DEF Written, Threads
      <4> QED BY <4>1, <1>3
    <3> QED BY <1>4, <3>1
  <2>3. /\ wupd' = wupd /\ targets' = targets /\ rview' = rview /\ rtodo' = rtodo
        /\ reads' = reads /\ results' = results
    BY DEF Storing, readerVars
  <2>4. Within(mem', rview')
    BY <1>3, <2>3 DEF Threads
  <2> QED BY <2>1, <2>2, <2>3, <2>4 DEF Threads
<1> QED BY <1>1, <1>4, <1>5, <1>6

\* The writer keeps what it knew, and knows its own store.
LEMMA StoringKnows ==
  ASSUME Memory, Threads, Writings, NEW w \in Writers, NEW x, NEW n, NEW seen,
         Storing(w, x, n, seen)
  PROVE  /\ \A y \in Locations : wview[w][y] <= wview'[w][y]
         /\ \A y \in Locations : \A u :
              Knows(mem, wview[w], u, y) => Knows(mem', wview'[w], u, y)
         /\ \A v : Within(mem, v) => \A y \in Locations : \A u :
              Knows(mem, v, u, y) => Knows(mem', v, u, y)
         /\ Knows(mem', wview'[w], n, x)
<1>1. /\ x \in Locations /\ Written(w, x, n, seen) /\ Within(mem, wview[w]) /\ Within(mem, seen)
      /\ \A y \in Locations : wview[w][y] <= seen[y]
  BY StoringMemory DEF Storing, Threads
<1>2. \A y \in Locations : /\ wview[w][y] \in Nat /\ seen[y] \in Nat /\ Len(mem[y]) \in Nat
                           /\ wview[w][y] <= Len(mem[y])
  BY <1>1 DEF Within, Views, Memory
<1>3. ASSUME NEW y \in Locations PROVE wview[w][y] <= wview'[w][y]
  <2>1. CASE y = x
    BY <2>1, <1>1, <1>2 DEF Written
  <2>2. CASE y # x
    BY <2>2, <1>1, <1>2 DEF Written
  <2> QED BY <2>1, <2>2
<1>4. \A v, u : \A y \in Locations : Within(mem, v) /\ Knows(mem, v, u, y) => Knows(mem', v, u, y)
  BY <1>1, OldMessages
<1>5. ASSUME NEW y \in Locations, NEW u, Knows(mem, wview[w], u, y)
      PROVE  Knows(mem', wview'[w], u, y)
  <2>1. PICK p \in 1..wview[w][y] : mem'[y][p].upd = u
    BY <1>1, <1>4, <1>5 DEF Knows
  <2>2. wview'[w][y] \in Nat
    BY <1>1 DEF Written, Views
  <2>3. p \in 1..wview'[w][y]
    BY <1>2, <1>3, <2>2
  <2> QED BY <2>1, <2>3 DEF Knows
<1>6. Knows(mem', wview'[w], n, x)
  <2>1. wview'[w][x] = Len(mem[x]) + 1 /\ mem'[x][Len(mem[x]) + 1].upd = n
    BY <1>1 DEF Written
  <2>2. Len(mem[x]) + 1 \in 1..wview'[w][x]
    BY <1>1, <1>2, <2>1
  <2> QED BY <2>1, <2>2 DEF Knows
<1> QED BY <1>3, <1>4, <1>5, <1>6

LEMMA StoringWritings ==
  ASSUME Memory, Threads, Writings, Counting, NEW w \in Writers, NEW x, NEW n, NEW seen,
         Storing(w, x, n, seen)
  PROVE  Writings'
<1>1. /\ Written(w, x, n, seen) /\ wtodo[w] # << >> /\ x = Head(wtodo[w])
      /\ wupd' = wupd /\ targets' = targets
  BY DEF Storing
<1>2. ASSUME NEW g \in Writers, wtodo'[g] # << >>, g # w PROVE Writing(g)'
  <2>1. wtodo'[g] = wtodo[g] /\ wview'[g] = wview[g]
    BY <1>1, <1>2 DEF Written
  <2>2. Writing(g) /\ Writing(w)
    BY <1>1, <1>2, <2>1 DEF Writings
  <2>3. \A k \in 1..Len(counted') : counted'[k] # wupd[g]
    <3>1. wupd[w] # wupd[g]
      BY <1>2, <2>2 DEF Writing
    <3>2. counted \in Seq(Updates) /\ wupd[w] \in Updates
      BY <2>2 DEF Counting, Writing
    <3>3. \A k \in 1..Len(counted) : counted[k] # wupd[g]
      BY <2>2 DEF Writing
    <3>4. counted' = counted \/ counted' = Append(counted, wupd[w])
      BY DEF Storing
    <3> QED BY <3>1, <3>2, <3>3, <3>4
  <2>4. \A y \in Locations : \A u : Knows(mem, wview[g], u, y) => Knows(mem', wview[g], u, y)
    BY StoringKnows DEF Threads
  <2> DEFINE u == wupd[g]
             s == targets[u].side
             l == targets[u].level
  <2>5. Price(s, l) \in Locations /\ Size(s, l) \in Locations
    BY <2>2, TargetFacts, LocationFacts DEF Writing
  <2>6. /\ KnowsPrice(mem, wview[g], u) => KnowsPrice(mem', wview[g], u)
        /\ KnowsSize(mem, wview[g], u) => KnowsSize(mem', wview[g], u)
    BY <2>4, <2>5 DEF KnowsPrice, KnowsSize
  <2>7. /\ KnowsPrice(mem, wview[g], u)' <=> KnowsPrice(mem', wview[g], u)
        /\ KnowsSize(mem, wview[g], u)' <=> KnowsSize(mem', wview[g], u)
    BY <1>1, <2>1 DEF KnowsPrice, KnowsSize
  <2> QED BY <1>1, <2>1, <2>2, <2>3, <2>6, <2>7 DEF Writing, Updates
<1>3. ASSUME wtodo'[w] # << >> PROVE Writing(w)'
  <2> DEFINE u == wupd[w]
             s == targets[u].side
             l == targets[u].level
  <2>1. wtodo'[w] = Tail(wtodo[w])
    BY <1>1 DEF Written
  <2>2. /\ u \in Updates /\ s \in Sides /\ l \in BookLevels /\ targets[u].writer = w
        /\ x \in {Price(s, l), Size(s, l), LastUpdate, SequenceNo}
        /\ x = Price(s, l) => Tail(wtodo[w]) = <<Size(s, l), LastUpdate, SequenceNo>>
        /\ x = Size(s, l) => /\ Tail(wtodo[w]) = <<LastUpdate, SequenceNo>>
                             /\ KnowsPrice(mem, wview[w], u)
        /\ x = LastUpdate => /\ Tail(wtodo[w]) = <<SequenceNo>>
                             /\ KnowsPrice(mem, wview[w], u) /\ KnowsSize(mem, wview[w], u)
        /\ x = SequenceNo => Tail(wtodo[w]) = << >>
    BY <1>1, NextStore
  <2>3. x # SequenceNo
    BY <1>3, <2>1, <2>2
  <2>4. n = u /\ counted' = counted
    BY <2>3 DEF Storing
  <2>5. \A k \in 1..Len(counted) : counted[k] # u
    BY <1>1 DEF Writings, Writing
  <2>6. /\ Price(s, l) \in Locations /\ Size(s, l) \in Locations
        /\ Price(s, l) # Size(s, l) /\ Price(s, l) # LastUpdate /\ Size(s, l) # LastUpdate
    BY <2>2, LocationFacts
  <2>7. /\ KnowsPrice(mem, wview[w], wupd[w])' <=> Knows(mem', wview'[w], u, Price(s, l))
        /\ KnowsSize(mem, wview[w], wupd[w])' <=> Knows(mem', wview'[w], u, Size(s, l))
    BY <1>1 DEF KnowsPrice, KnowsSize
  <2>8. \A y \in Locations : Knows(mem, wview[w], u, y) => Knows(mem', wview'[w], u, y)
    BY StoringKnows
  <2>9. Knows(mem', wview'[w], u, x)
    BY StoringKnows, <2>4
  <2>10. /\ KnowsPrice(mem, wview[w], u) => Knows(mem', wview'[w], u, Price(s, l))
         /\ KnowsSize(mem, wview[w], u) => Knows(mem', wview'[w], u, Size(s, l))
    BY <2>6, <2>8 DEF KnowsPrice, KnowsSize
  <2>11. /\ wupd'[w] = u /\ targets'[u].side = s /\ targets'[u].level = l
         /\ Updates' = Updates /\ targets'[u].writer = w
         /\ \A k \in 1..Len(counted') : counted'[k] # u
    BY <1>1, <2>2, <2>4, <2>5 DEF Updates
  <2>12. CASE x = Price(s, l)
    BY <2>1, <2>2, <2>7, <2>9, <2>11, <2>12 DEF Writing
  <2>13. CASE x = Size(s, l)
    BY <2>1, <2>2, <2>7, <2>9, <2>10, <2>11, <2>13 DEF Writing
  <2>14. CASE x = LastUpdate
    BY <2>1, <2>2, <2>7, <2>10, <2>11, <2>14 DEF Writing
  <2> QED BY <2>2, <2>3, <2>12, <2>13, <2>14
<1> QED BY <1>2, <1>3 DEF Writings

LEMMA StoringOrigins ==
  ASSUME Memory, Threads, Writings, Origins, Stamps, NEW w \in Writers, NEW x, NEW n, NEW seen,
         Storing(w, x, n, seen)
  PROVE  Origins' /\ Stamps'
<1>1. /\ x \in Locations /\ Written(w, x, n, seen) /\ targets' = targets
      /\ wtodo[w] # << >> /\ x = Head(wtodo[w])
  BY StoringMemory DEF Storing
<1>2. /\ \A y \in Locations : Len(mem[y]) \in Nat \ {0} /\ Len(mem'[y]) \in Nat
      /\ \A y \in Locations : \A p \in 1..Len(mem[y]) : mem'[y][p] = mem[y][p]
      /\ \A y \in Locations : \A p \in 1..Len(mem'[y]) :
           p \in 1..Len(mem[y]) \/ (y = x /\ p = Len(mem[x]) + 1)
  <2>1. \A y \in Locations : Len(mem[y]) \in Nat \ {0}
    BY NotEmpty
  <2> QED BY <1>1, <2>1, OldMessages
<1> DEFINE u == wupd[w]
           s == targets[u].side
           l == targets[u].level
<1>3. /\ u \in Updates /\ s \in Sides /\ l \in BookLevels
      /\ x \in {Price(s, l), Size(s, l), LastUpdate, SequenceNo}
      /\ x = LastUpdate => KnowsPrice(mem, wview[w], u) /\ KnowsSize(mem, wview[w], u)
  BY <1>1, NextStore
<1>4. x # SequenceNo => n = u
  BY DEF Storing
<1>5. \A y, v : Origin(y, v)' <=> Origin(y, v)
  BY <1>1 DEF Origin, Updates, Stored
<1>6. Origins'
  <2>1. ASSUME NEW y \in Locations \ {SequenceNo}, NEW p \in 1..Len(mem'[y])
        PROVE  (p = 1 => mem'[y][p].upd = 0) /\ (p # 1 => Origin(y, mem'[y][p].upd))
    <3>1. CASE p \in 1..Len(mem[y])
      BY <3>1, <1>2 DEF Origins
    <3>2. CASE y = x /\ p = Len(mem[x]) + 1
      <4>1. mem'[y][p].upd = u /\ p # 1
        BY <3>2, <2>1, <1>1, <1>2, <1>4 DEF Written
      <4>2. Origin(y, u)
        BY <3>2, <2>1, <1>3 DEF Origin, Stored
      <4> QED BY <4>1, <4>2
    <3> QED BY <2>1, <1>2, <3>1, <3>2
  <2> QED BY <2>1, <1>5 DEF Origins
<1>7. Stamps'
  <2>1. LastUpdate \in Locations
    BY LocationFacts
  <2>2. ASSUME NEW p \in 2..Len(mem'[LastUpdate])
        PROVE  LET m == mem'[LastUpdate][p]
               IN Knows(mem', m.view, m.upd, Price(targets[m.upd].side, targets[m.upd].level))
                  /\ Knows(mem', m.view, m.upd, Size(targets[m.upd].side, targets[m.upd].level))
    <3> DEFINE m == mem'[LastUpdate][p]
               P == Price(targets[m.upd].side, targets[m.upd].level)
               S == Size(targets[m.upd].side, targets[m.upd].level)
    <3>0. p \in 1..Len(mem'[LastUpdate])
      BY <2>2, <2>1, <1>2
    <3>1. CASE p \in 1..Len(mem[LastUpdate])
      <4>1. m = mem[LastUpdate][p] /\ p \in 2..Len(mem[LastUpdate])
        BY <2>1, <2>2, <3>1, <1>2
      <4>2. Knows(mem, m.view, m.upd, P) /\ Knows(mem, m.view, m.upd, S)
        BY <4>1 DEF Stamps, KnowsPrice, KnowsSize
      <4>3. Within(mem, m.view)
        BY <2>1, <3>1, <4>1 DEF Memory
      <4>4. Origin(LastUpdate, m.upd)
        BY <2>1, <3>1, <4>1, LocationFacts DEF Origins
      <4>5. m.upd \in Updates
        BY <4>4 DEF Origin
      <4>6. P \in Locations /\ S \in Locations
        BY <4>5, TargetFacts, LocationFacts
      <4>7. Knows(mem', m.view, m.upd, P) /\ Knows(mem', m.view, m.upd, S)
        BY <4>2, <4>3, <4>6, StoringKnows
      <4> QED BY <4>7
    <3>2. CASE LastUpdate = x /\ p = Len(mem[x]) + 1
      <4>1. m.upd = u /\ m.view = wview'[w]
        BY <3>2, <1>1, <1>4, LocationFacts DEF Written
      <4>2. Knows(mem, wview[w], u, P) /\ Knows(mem, wview[w], u, S)
        BY <1>3, <3>2, <4>1 DEF KnowsPrice, KnowsSize
      <4>3. P \in Locations /\ S \in Locations
        BY <1>3, <4>1, LocationFacts
      <4>4. Knows(mem', wview'[w], u, P) /\ Knows(mem', wview'[w], u, S)
        BY <4>2, <4>3, StoringKnows
      <4> QED BY <4>1, <4>4
    <3> QED BY <2>1, <3>0, <1>2, <3>1, <3>2
  <2> QED BY <2>2, <1>1 DEF Stamps, KnowsPrice, KnowsSize
<1> QED BY <1>6, <1>7

\* What a view knows a larger one knows.
LEMMA KnowsMore ==
  ASSUME Memory, Threads, Writings, NEW w \in Writers, NEW x, NEW n, NEW seen,
         Storing(w, x, n, seen), NEW v, Within(mem, v), \A y \in Locations : v[y] <= seen[y]
  PROVE  /\ \A y \in Locations : v[y] <= wview'[w][y]
         /\ \A u : \A y \in Locations : Knows(mem, v, u, y) => Knows(mem', wview'[w], u, y)
<1>0. x \in Locations /\ Written(w, x, n, seen) /\ Within(mem, seen)
  BY StoringMemory DEF Storing
<1>1. wview'[w] \in Views /\ seen \in Views /\ v \in Views
  BY <1>0 DEF Written, Within
<1>2. \A y \in Locations : /\ v[y] \in Nat /\ seen[y] \in Nat /\ Len(mem[y]) \in Nat
                           /\ seen[y] <= Len(mem[y]) /\ v[y] <= seen[y]
                           /\ wview'[w][y] \in Nat
  <2>1. \A y \in Locations : Len(mem[y]) \in Nat
    BY NotEmpty
  <2>2. \A y \in Locations : v[y] \in Nat /\ seen[y] \in Nat /\ wview'[w][y] \in Nat
    BY <1>1 DEF Views
  <2> QED BY <1>0, <2>1, <2>2 DEF Within
<1>3. ASSUME NEW y \in Locations PROVE seen[y] <= wview'[w][y]
  <2>1. CASE y = x
    BY <2>1, <1>0, <1>2 DEF Written
  <2>2. CASE y # x
    BY <2>2, <1>0, <1>2 DEF Written
  <2> QED BY <2>1, <2>2
<1>4. \A y \in Locations : v[y] <= wview'[w][y]
  BY <1>2, <1>3
<1>5. ASSUME NEW y \in Locations, NEW u, Knows(mem, v, u, y)
      PROVE  Knows(mem', wview'[w], u, y)
  <2>1. Knows(mem', v, u, y)
    BY <1>5, StoringKnows
  <2>2. PICK p \in 1..v[y] : mem'[y][p].upd = u
    BY <2>1 DEF Knows
  <2>3. p \in 1..wview'[w][y]
    BY <1>2, <1>4
  <2> QED BY <2>2, <2>3 DEF Knows
<1> QED BY <1>4, <1>5

LEMMA StoringCounting ==
  ASSUME Memory, Threads, Writings, Counting, NEW w \in Writers, NEW x, NEW n, NEW seen,
         Storing(w, x, n, seen)
  PROVE  Counting'
<1> DEFINE Q == SequenceNo
           P(u) == Price(targets[u].side, targets[u].level)
           S(u) == Size(targets[u].side, targets[u].level)
<1>1. /\ x \in Locations /\ Written(w, x, n, seen) /\ targets' = targets
      /\ wtodo[w] # << >> /\ x = Head(wtodo[w]) /\ Q \in Locations
  BY StoringMemory, LocationFacts DEF Storing
<1>2. /\ counted \in Seq(Updates) /\ Len(counted) \in Nat /\ Updates' = Updates
      /\ Len(mem[Q]) = Len(counted) + 1
  BY <1>1 DEF Counting, Updates
<1>3. \A u \in Updates : P(u) \in Locations /\ S(u) \in Locations
  BY TargetFacts, LocationFacts
<1>4. ASSUME NEW p \in 1..Len(mem[Q])
      PROVE  /\ mem'[Q][p] = mem[Q][p] /\ mem[Q][p].upd = p - 1
             /\ \A k \in 1..(p - 1) : /\ Knows(mem', mem[Q][p].view, counted[k], P(counted[k]))
                                      /\ Knows(mem', mem[Q][p].view, counted[k], S(counted[k]))
  <2>1. /\ mem[Q][p].upd = p - 1
        /\ \A k \in 1..(p - 1) : /\ Knows(mem, mem[Q][p].view, counted[k], P(counted[k]))
                                 /\ Knows(mem, mem[Q][p].view, counted[k], S(counted[k]))
    BY DEF Counting, KnowsPrice, KnowsSize
  <2>2. mem'[Q][p] = mem[Q][p]
    BY <1>1 DEF Written
  <2>3. Within(mem, mem[Q][p].view)
    BY <1>1 DEF Memory
  <2>4. \A k \in 1..(p - 1) : counted[k] \in Updates
    BY <1>2
  <2>5. \A v, u : \A y \in Locations : Within(mem, v) /\ Knows(mem, v, u, y) => Knows(mem', v, u, y)
    BY StoringKnows
  <2> HIDE DEF P, S, Q
  <2> QED BY <1>3, <2>1, <2>2, <2>3, <2>4, <2>5
<1>5. CASE x # Q
  <2>1. counted' = counted /\ mem'[Q] = mem[Q]
    BY <1>1, <1>5 DEF Storing, Written
  <2>2. \A p \in 1..Len(mem'[Q]) :
          /\ mem'[Q][p].upd = p - 1
          /\ \A k \in 1..(p - 1) : /\ Knows(mem', mem'[Q][p].view, counted[k], P(counted[k]))
                                   /\ Knows(mem', mem'[Q][p].view, counted[k], S(counted[k]))
    BY <2>1, <1>4
  <2> QED BY <1>1, <1>2, <2>1, <2>2 DEF Counting, KnowsPrice, KnowsSize
<1>6. CASE x = Q
  <2> DEFINE u == wupd[w]
             z == Len(mem[Q]) + 1
  <2>1. /\ n = Len(counted) + 1 /\ counted' = Append(counted, u)
        /\ \A y \in Locations : Latest(Q).view[y] <= seen[y]
    BY <1>6 DEF Storing
  <2>2. /\ u \in Updates /\ KnowsPrice(mem, wview[w], u) /\ KnowsSize(mem, wview[w], u)
    BY <1>1, <1>6, NextStore
  <2>3. \A k \in 1..Len(counted) : counted[k] # u
    BY <1>1 DEF Writings, Writing
  <2>4. /\ counted' \in Seq(Updates) /\ Len(counted') = Len(counted) + 1
        /\ \A k \in 1..Len(counted) : counted'[k] = counted[k]
        /\ counted'[Len(counted) + 1] = u
    BY <1>2, <2>1, <2>2
  <2>5. \A k, m \in 1..Len(counted') : counted'[k] = counted'[m] => k = m
    <3>1. \A k, m \in 1..Len(counted) : counted[k] = counted[m] => k = m
      BY DEF Counting
    <3> QED BY <1>2, <2>3, <2>4, <3>1
  <2>6. Len(mem'[Q]) = z /\ z = Len(counted') + 1 /\ mem'[Q][z].upd = z - 1
        /\ mem'[Q][z].view = wview'[w]
    BY <1>1, <1>2, <1>6, <2>1, <2>4 DEF Written
  <2>7. ASSUME NEW k \in 1..(z - 1)
        PROVE  /\ Knows(mem', wview'[w], counted'[k], P(counted'[k]))
               /\ Knows(mem', wview'[w], counted'[k], S(counted'[k]))
    <3>1. CASE k = Len(counted) + 1
      <4>1. P(u) \in Locations /\ S(u) \in Locations
        BY <1>3, <2>2
      <4>2. Knows(mem, wview[w], u, P(u)) /\ Knows(mem, wview[w], u, S(u))
        BY <2>2 DEF KnowsPrice, KnowsSize
      <4>3. Knows(mem', wview'[w], u, P(u)) /\ Knows(mem', wview'[w], u, S(u))
        BY <4>1, <4>2, StoringKnows
      <4> QED BY <3>1, <2>4, <4>3
    <3>2. CASE k # Len(counted) + 1
      <4> DEFINE c == counted[k]
                 v == mem[Q][Len(mem[Q])].view
      <4>1. k \in 1..Len(counted) /\ counted'[k] = c /\ c \in Updates
        BY <1>2, <2>4, <2>7, <3>2
      <4>2. Len(mem[Q]) \in 1..Len(mem[Q]) /\ k \in 1..(Len(mem[Q]) - 1)
        BY <1>2, <4>1
      <4>3. Knows(mem, v, c, P(c)) /\ Knows(mem, v, c, S(c))
        BY <4>2 DEF Counting, KnowsPrice, KnowsSize
      <4>4. Within(mem, v)
        BY <1>1, <4>2 DEF Memory
      <4>5. \A y \in Locations : v[y] <= seen[y]
        BY <2>1 DEF Latest
      <4>6. P(c) \in Locations /\ S(c) \in Locations
        BY <1>3, <4>1
      <4> HIDE DEF P, S, Q, v, c
      <4>7. Knows(mem', wview'[w], c, P(c)) /\ Knows(mem', wview'[w], c, S(c))
        BY <4>3, <4>4, <4>5, <4>6, KnowsMore
      <4> QED BY <4>1, <4>7
    <3> QED BY <3>1, <3>2
  <2>8. ASSUME NEW p \in 1..Len(mem'[Q])
        PROVE  /\ mem'[Q][p].upd = p - 1
               /\ \A k \in 1..(p - 1) : /\ Knows(mem', mem'[Q][p].view, counted'[k], P(counted'[k]))
                                        /\ Knows(mem', mem'[Q][p].view, counted'[k], S(counted'[k]))
    <3>1. CASE p = z
      BY <2>6, <2>7, <3>1
    <3>2. CASE p # z
      <4>1. p \in 1..Len(mem[Q]) /\ \A k \in 1..(p - 1) : counted'[k] = counted[k]
        BY <1>2, <2>4, <2>6, <2>8, <3>2
      <4> HIDE DEF P, S, Q
      <4> QED BY <1>4, <4>1
    <3> QED BY <3>1, <3>2
  <2>9. Len(mem'[Q]) = Len(counted') + 1 /\ counted' \in Seq(Updates')
    BY <1>2, <2>4, <2>6
  <2> QED BY <2>5, <2>8, <2>9, <1>1 DEF Counting, KnowsPrice, KnowsSize
<1> QED BY <1>5, <1>6

\* What has been counted stays known.
LEMMA CountedStays ==
  ASSUME Memory, Threads, Writings, Counting, NEW w \in Writers, NEW x, NEW n, NEW seen,
         Storing(w, x, n, seen), NEW v, Within(mem, v), NEW v2 \in Views,
         v[SequenceNo] <= v2[SequenceNo], NEW u, KnowsCounted(counted, v, u)
  PROVE  KnowsCounted(counted', v2, u)
<1>1. PICK k \in 1..(v[SequenceNo] - 1) : counted[k] = u
  BY DEF KnowsCounted
<1>2. SequenceNo \in Locations
  BY LocationFacts
<1>3. /\ v[SequenceNo] \in Nat /\ v2[SequenceNo] \in Nat
      /\ v[SequenceNo] <= Len(mem[SequenceNo]) /\ Len(mem[SequenceNo]) = Len(counted) + 1
      /\ counted \in Seq(Updates)
  BY <1>2 DEF Within, Views, Counting
<1>4. k \in 1..Len(counted) /\ k \in 1..(v2[SequenceNo] - 1)
  BY <1>3
<1>5. counted' = counted \/ (counted' = Append(counted, wupd[w]) /\ wupd[w] \in Updates)
  <2>1. wupd[w] \in Updates
    BY NextStore DEF Storing
  <2> QED BY <2>1 DEF Storing
<1>6. counted'[k] = counted[k]
  BY <1>3, <1>4, <1>5
<1> QED BY <1>1, <1>4, <1>6 DEF KnowsCounted

LEMMA StoringFinished ==
  ASSUME Memory, Threads, Writings, Origins, Counting, Finished,
         NEW w \in Writers, NEW x, NEW n, NEW seen, Storing(w, x, n, seen)
  PROVE  Finished'
<1> DEFINE Q == SequenceNo
<1>1. /\ x \in Locations /\ Written(w, x, n, seen) /\ targets' = targets /\ wupd' = wupd
      /\ wtodo[w] # << >> /\ x = Head(wtodo[w]) /\ Q \in Locations /\ Updates' = Updates
  BY StoringMemory, LocationFacts DEF Storing, Updates
<1>2. /\ \A y \in Locations : Len(mem[y]) \in Nat /\ Len(mem'[y]) \in Nat
      /\ \A y \in Locations : \A p \in 1..Len(mem[y]) : mem'[y][p] = mem[y][p]
      /\ \A y \in Locations : \A p \in 1..Len(mem'[y]) :
           p \in 1..Len(mem[y]) \/ (y = x /\ p = Len(mem[x]) + 1)
  BY <1>1, OldMessages
<1>3. \A g \in Writers : Within(mem, wview[g]) /\ wview[g] \in Views /\ wview'[g] \in Views
  BY <1>1 DEF Threads, Written
<1>4. wview[w][Q] <= wview'[w][Q]
  BY <1>1, StoringKnows
<1>5. ASSUME NEW u, KnowsCounted(counted, wview[w], u)
      PROVE  KnowsCounted(counted', wview'[w], u)
  BY <1>3, <1>4, <1>5, CountedStays
<1>6. ASSUME NEW u \in Updates,
             wtodo'[targets[u].writer] = << >> \/ wupd[targets[u].writer] # u
      PROVE  KnowsCounted(counted', wview'[targets[u].writer], u)
  <2> DEFINE g == targets[u].writer
  <2>0. g \in Writers
    BY TargetFacts
  <2>1. CASE g # w
    <3>1. wtodo'[g] = wtodo[g] /\ wview'[g] = wview[g]
      BY <2>0, <2>1, <1>1 DEF Written
    <3>2. KnowsCounted(counted, wview[g], u)
      BY <1>6, <3>1 DEF Finished
    <3>3. wview[g][Q] <= wview[g][Q]
      BY <1>1, <1>3, <2>0 DEF Views
    <3>4. KnowsCounted(counted', wview[g], u)
      BY <1>3, <2>0, <3>2, <3>3, CountedStays
    <3> QED BY <3>1, <3>4
  <2>2. CASE g = w /\ wupd[w] # u
    <3>1. KnowsCounted(counted, wview[w], u)
      BY <2>2 DEF Finished
    <3> QED BY <2>2, <3>1, <1>5
  <2>3. CASE g = w /\ wupd[w] = u
    <3>1. wtodo'[w] = << >> /\ wtodo'[w] = Tail(wtodo[w])
      BY <1>6, <2>3, <1>1 DEF Written
    <3>2. x = Q
      <4> DEFINE s == targets[wupd[w]].side
                 l == targets[wupd[w]].level
      <4>1. /\ s \in Sides /\ l \in BookLevels
            /\ x \in {Price(s, l), Size(s, l), LastUpdate, Q}
            /\ x = Price(s, l) => Tail(wtodo[w]) = <<Size(s, l), LastUpdate, Q>>
            /\ x = Size(s, l) => Tail(wtodo[w]) = <<LastUpdate, Q>>
            /\ x = LastUpdate => Tail(wtodo[w]) = <<Q>>
        BY <1>1, NextStore
      <4> HIDE DEF s, l
      <4>2. <<Size(s, l), LastUpdate, Q>> # << >> /\ <<LastUpdate, Q>> # << >> /\ <<Q>> # << >>
        BY <4>1, StoresFacts
      <4> QED BY <3>1, <4>1, <4>2
    <3>3. counted' = Append(counted, u) /\ wview'[w][Q] = Len(mem[Q]) + 1
      BY <3>2, <2>3, <1>1 DEF Storing, Written
    <3>4. Len(mem[Q]) = Len(counted) + 1 /\ counted \in Seq(Updates)
      BY DEF Counting
    <3>5. counted'[Len(counted) + 1] = u /\ Len(counted) + 1 \in 1..(wview'[w][Q] - 1)
      BY <3>3, <3>4
    <3> QED BY <2>3, <3>5 DEF KnowsCounted
  <2> QED BY <2>1, <2>2, <2>3
<1>7. ASSUME NEW y \in Locations \ {Q}, NEW p \in 2..Len(mem'[y]), NEW u \in 1..(mem'[y][p].upd - 1),
             targets[u].writer = targets[mem'[y][p].upd].writer
      PROVE  KnowsCounted(counted', mem'[y][p].view, u)
  <2>0. p \in 1..Len(mem'[y])
    BY <1>7, <1>2
  <2>1. CASE p \in 1..Len(mem[y])
    <3>1. mem'[y][p] = mem[y][p] /\ p \in 2..Len(mem[y])
      BY <2>1, <1>2, <1>7
    <3>2. KnowsCounted(counted, mem[y][p].view, u)
      BY <1>7, <3>1 DEF Finished
    <3>3. Within(mem, mem[y][p].view) /\ mem[y][p].view \in Views
      BY <2>1, MessageFacts
    <3>4. mem[y][p].view[Q] <= mem[y][p].view[Q]
      BY <3>3, <1>1 DEF Views
    <3> QED BY <3>1, <3>2, <3>3, <3>4, CountedStays
  <2>2. CASE y = x /\ p = Len(mem[x]) + 1
    <3>1. mem'[y][p].view = wview'[w] /\ mem'[y][p].upd = wupd[w]
      BY <2>2, <1>1, <1>7 DEF Written, Storing
    <3>2. wupd[w] \in Updates /\ targets[wupd[w]].writer = w
      BY <1>1, NextStore
    <3>3. u \in Updates /\ u # wupd[w] /\ targets[u].writer = w
      BY <1>7, <3>1, <3>2 DEF Updates
    <3>4. KnowsCounted(counted, wview[w], u)
      BY <3>3 DEF Finished
    <3> QED BY <3>1, <3>4, <1>5
  <2> QED BY <2>0, <1>2, <2>1, <2>2
<1> QED BY <1>1, <1>6, <1>7 DEF Finished

LEMMA StoringReader ==
  ASSUME Memory, Threads, Writings, Loaded, Pairing,
         NEW w \in Writers, NEW x, NEW n, NEW seen, Storing(w, x, n, seen)
  PROVE  Loaded' /\ Pairing'
<1>1. /\ x \in Locations /\ Written(w, x, n, seen)
      /\ results' = results /\ rview' = rview /\ rtodo' = rtodo
  BY StoringMemory DEF Storing, readerVars
<1>2. /\ \A y \in Locations : Len(mem[y]) \in Nat /\ Len(mem'[y]) \in Nat /\ Len(mem[y]) <= Len(mem'[y])
      /\ \A y \in Locations : \A p \in 1..Len(mem[y]) : mem'[y][p] = mem[y][p]
  BY <1>1, OldMessages
<1>3. ASSUME NEW i \in 1..Len(results)
      PROVE  /\ results[i].loc \in Locations
             /\ results[i].pos \in 1..Len(mem[results[i].loc])
             /\ results[i].pos <= Len(mem'[results[i].loc])
             /\ mem'[results[i].loc][results[i].pos] = mem[results[i].loc][results[i].pos]
  <2>1. results[i] \in Readings
    BY DEF Threads
  <2>2. results[i].loc \in Locations /\ results[i].pos \in Nat \ {0}
        /\ results[i].pos <= Len(mem[results[i].loc])
    BY <2>1 DEF Readings, Loaded
  <2> QED BY <1>2, <2>2
<1>4. Loaded'
  BY <1>1, <1>3 DEF Loaded
<1>5. Pairing'
  BY <1>1 DEF Pairing, Paired
<1> QED BY <1>4, <1>5
\* On a side with a single writer, only he is about to store a price or a size.
LEMMA SoleStorer ==
  ASSUME Threads, Writings, NEW s \in Sides, NEW l \in BookLevels, SoleWriter(s),
         NEW w \in Writers, wtodo[w] # << >>, Head(wtodo[w]) \in {Price(s, l), Size(s, l)}
  PROVE  /\ wupd[w] \in Updates /\ targets[wupd[w]].side = s /\ targets[wupd[w]].writer = w
         /\ targets[wupd[w]].level = l
         /\ \A u \in Updates : targets[u].side = s => targets[u].writer = w
<1> DEFINE u == wupd[w]
           t == targets[u].side
           k == targets[u].level
<1>1. /\ u \in Updates /\ t \in Sides /\ k \in BookLevels /\ targets[u].writer = w
      /\ Head(wtodo[w]) \in {Price(t, k), Size(t, k), LastUpdate, SequenceNo}
  BY NextStore
<1>2. t = s /\ k = l
  BY <1>1, LocationFacts
<1>3. \A v \in Updates : targets[v].side = s => targets[v].writer = w
  BY <1>1, <1>2 DEF SoleWriter, Updates
<1> QED BY <1>1, <1>2, <1>3

\* What comes after a store is a size only after the price.
LEMMA NextAfter ==
  ASSUME Threads, Writings, NEW w \in Writers, wtodo[w] # << >>,
         NEW s \in Sides, NEW l \in BookLevels
  PROVE  /\ Head(wtodo[w]) = Price(s, l) =>
              Tail(wtodo[w]) # << >> /\ Head(Tail(wtodo[w])) = Size(s, l)
         /\ Tail(wtodo[w]) # << >> /\ Head(Tail(wtodo[w])) = Size(s, l)
              => Head(wtodo[w]) = Price(s, l)
<1> DEFINE t == targets[wupd[w]].side
           k == targets[wupd[w]].level
           x == Head(wtodo[w])
<1>1. /\ t \in Sides /\ k \in BookLevels
      /\ x \in {Price(t, k), Size(t, k), LastUpdate, SequenceNo}
      /\ x = Price(t, k) => Tail(wtodo[w]) = <<Size(t, k), LastUpdate, SequenceNo>>
      /\ x = Size(t, k) => Tail(wtodo[w]) = <<LastUpdate, SequenceNo>>
      /\ x = LastUpdate => Tail(wtodo[w]) = <<SequenceNo>>
      /\ x = SequenceNo => Tail(wtodo[w]) = << >>
  BY NextStore
<1> HIDE DEF t, k, x
<1>2. /\ <<Size(t, k), LastUpdate, SequenceNo>> # << >>
      /\ Head(<<Size(t, k), LastUpdate, SequenceNo>>) = Size(t, k)
      /\ Head(<<LastUpdate, SequenceNo>>) = LastUpdate /\ Head(<<SequenceNo>>) = SequenceNo
  BY <1>1, StoresFacts
<1>3. /\ Size(s, l) # LastUpdate /\ Size(s, l) # SequenceNo
      /\ Price(s, l) # LastUpdate /\ Price(s, l) # SequenceNo /\ Price(s, l) # Size(t, k)
      /\ (Price(s, l) = Price(t, k) \/ Size(s, l) = Size(t, k)) => s = t /\ l = k
  BY <1>1, LocationFacts
<1>4. x = Price(s, l) => Tail(wtodo[w]) # << >> /\ Head(Tail(wtodo[w])) = Size(s, l)
  BY <1>1, <1>2, <1>3
<1>5. Tail(wtodo[w]) # << >> /\ Head(Tail(wtodo[w])) = Size(s, l) => x = Price(s, l)
  BY <1>1, <1>2, <1>3
<1> QED BY <1>4, <1>5 DEF x

LEMMA StoringAlternating ==
  ASSUME Memory, Threads, Writings, NEW w \in Writers, NEW x, NEW n, NEW seen,
         Storing(w, x, n, seen), NEW s \in Sides, NEW l \in BookLevels,
         SoleWriter(s), Alternating(s, l)
  PROVE  Alternating(s, l)'
<1> DEFINE P == Price(s, l)
           S == Size(s, l)
<1>1. /\ x \in Locations /\ Written(w, x, n, seen) /\ targets' = targets /\ wupd' = wupd
      /\ wtodo[w] # << >> /\ x = Head(wtodo[w]) /\ Updates' = Updates
      /\ Within(mem, seen) /\ \A y \in Locations : wview[w][y] <= seen[y]
  BY StoringMemory DEF Storing, Updates
<1>2. P \in Locations /\ S \in Locations /\ P # S /\ P # SequenceNo /\ S # SequenceNo
  BY LocationFacts
<1>3. x \in {P, S} => /\ n = wupd[w] /\ seen = wview[w]
  BY <1>2 DEF Storing
<1>4. /\ \A y \in {P, S} : /\ mem[y] \in Seq(Messages) /\ Len(mem[y]) \in Nat \ {0}
                           /\ mem'[y] \in Seq(Messages) /\ Len(mem'[y]) \in Nat
                           /\ \A p \in 1..Len(mem[y]) : mem'[y][p] = mem[y][p]
                           /\ seen[y] \in Nat /\ seen[y] <= Len(mem[y])
                           /\ y # x => mem'[y] = mem[y]
  <2>1. \A y \in Locations : Len(mem[y]) \in Nat \ {0} /\ mem[y] \in Seq(Messages)
    BY NotEmpty
  <2>2. \A y \in Locations : mem'[y] \in Seq(Messages) /\ (y # x => mem'[y] = mem[y])
    BY <1>1 DEF Written
  <2>3. \A y \in Locations : Len(mem'[y]) \in Nat
    BY <2>2
  <2>4. \A y \in Locations : seen[y] \in Nat /\ seen[y] <= Len(mem[y])
    BY <1>1, <2>1, ViewFacts
  <2>5. \A y \in Locations : \A p \in 1..Len(mem[y]) : mem'[y][p] = mem[y][p]
    BY <1>1, OldMessages
  <2> QED BY <1>2, <2>1, <2>2, <2>3, <2>4, <2>5
<1>5. /\ Len(mem'[x]) = Len(mem[x]) + 1 /\ mem'[x][Len(mem[x]) + 1].upd = n
      /\ mem'[x][Len(mem[x]) + 1].view = wview'[w] /\ wview'[w][x] = Len(mem[x]) + 1
      /\ \A y \in Locations : y # x => wview'[w][y] = seen[y]
      /\ \A g \in Writers : g # w => wview'[g] = wview[g] /\ wtodo'[g] = wtodo[g]
      /\ wtodo'[w] = Tail(wtodo[w])
  BY <1>1 DEF Written
<1>6. /\ \A u \in Updates : targets[u].side = s =>
           /\ wview[targets[u].writer][P] = Len(mem[P])
           /\ wview[targets[u].writer][S] = Len(mem[S])
      /\ \A p \in 1..Len(mem[P]) : p <= mem[P][p].view[S] + 1
      /\ \A p \in 1..Len(mem[S]) : p <= Len(mem[P]) /\ mem[S][p].upd = mem[P][p].upd
  BY DEF Alternating
<1>7. x \in {P, S} => /\ wupd[w] \in Updates /\ targets[wupd[w]].side = s
                      /\ targets[wupd[w]].writer = w
                      /\ \A u \in Updates : targets[u].side = s => targets[u].writer = w
  BY <1>1, SoleStorer
<1>8. \A g \in Writers : wtodo[g] # << >> /\ Head(wtodo[g]) = S /\ x \in {P, S} => g = w
  <2> SUFFICES ASSUME NEW g \in Writers, wtodo[g] # << >>, Head(wtodo[g]) = S, x \in {P, S}
               PROVE  g = w
    OBVIOUS
  <2>1. wupd[g] \in Updates /\ targets[wupd[g]].side = s /\ targets[wupd[g]].writer = g
    BY SoleStorer
  <2> QED BY <2>1, <1>7
<1> DEFINE Even == /\ Len(mem[P]) = Len(mem[S])
                   /\ \A g \in Writers : wtodo[g] # << >> => Head(wtodo[g]) # S
           Odd == /\ Len(mem[P]) = Len(mem[S]) + 1
                  /\ \E g \in Writers : /\ wtodo[g] # << >> /\ Head(wtodo[g]) = S
                                        /\ wupd[g] = mem[P][Len(mem[P])].upd
<1>9. Even \/ Odd
  BY DEF Alternating, Latest
<1>10. x = P => Even
  BY <1>1, <1>2, <1>8, <1>9
<1>11. x = S => Odd /\ wupd[w] = mem[P][Len(mem[P])].upd
  BY <1>1, <1>8, <1>9
<1>12. /\ Tail(wtodo[w]) # << >> /\ Head(Tail(wtodo[w])) = S => x = P
       /\ x = P => Tail(wtodo[w]) # << >> /\ Head(Tail(wtodo[w])) = S
  BY <1>1, NextAfter
<1>20. ASSUME NEW u \in Updates, targets[u].side = s
       PROVE  /\ wview'[targets[u].writer][P] = Len(mem'[P])
              /\ wview'[targets[u].writer][S] = Len(mem'[S])
  <2> DEFINE g == targets[u].writer
  <2>1. g \in Writers
    BY TargetFacts
  <2>2. wview[g][P] = Len(mem[P]) /\ wview[g][S] = Len(mem[S])
    BY <1>6, <1>20
  <2> HIDE DEF P, S, g
  <2>3. CASE g # w
    <3>1. mem'[P] = mem[P] /\ mem'[S] = mem[S]
      BY <2>3, <1>20, <1>4, <1>7 DEF g
    <3> QED BY <2>1, <2>2, <2>3, <3>1, <1>5 DEF g
  <2>4. CASE g = w
    <3>1. seen[P] = Len(mem[P]) /\ seen[S] = Len(mem[S])
      BY <2>2, <2>4, <1>1, <1>2, <1>4
    <3>2. \A y \in {P, S} : wview'[w][y] = Len(mem'[y])
      BY <3>1, <1>2, <1>4, <1>5
    <3> QED BY <3>2, <2>4 DEF g
  <2> QED BY <2>3, <2>4
<1>21. ASSUME NEW p \in 1..Len(mem'[P]) PROVE p <= mem'[P][p].view[S] + 1
  <2>1. CASE p \in 1..Len(mem[P])
    BY <2>1, <1>4, <1>6
  <2>2. CASE p \notin 1..Len(mem[P])
    <3> HIDE DEF P, S
    <3>1. x = P
      BY <2>2, <1>4
    <3>2. p = Len(mem[P]) + 1
      BY <2>2, <3>1, <1>4, <1>5
    <3>3. mem'[P][p].view[S] = wview[w][S]
      BY <3>1, <3>2, <1>2, <1>3, <1>5
    <3>4. wview[w][S] = Len(mem[S])
      BY <3>1, <1>6, <1>7
    <3>5. Len(mem[P]) = Len(mem[S])
      BY <1>10, <3>1
    <3> QED BY <3>2, <3>3, <3>4, <3>5, <1>4
  <2> QED BY <2>1, <2>2
<1>22. ASSUME NEW p \in 1..Len(mem'[S])
       PROVE  p <= Len(mem'[P]) /\ mem'[S][p].upd = mem'[P][p].upd
  <2> HIDE DEF P, S
  <2>0. Len(mem[P]) <= Len(mem'[P])
    <3>1. CASE P = x
      BY <3>1, <1>4, <1>5
    <3>2. CASE P # x
      BY <3>2, <1>4
    <3> QED BY <3>1, <3>2
  <2>1. CASE p \in 1..Len(mem[S])
    <3>1. p <= Len(mem[P]) /\ mem[S][p].upd = mem[P][p].upd
      BY <2>1, <1>6
    <3>2. p \in 1..Len(mem[P])
      BY <3>1, <2>1, <1>4
    <3>3. mem'[P][p] = mem[P][p] /\ mem'[S][p] = mem[S][p]
      BY <2>1, <3>2, <1>4
    <3>4. p <= Len(mem'[P])
      <4>1. Len(mem[P]) \in Nat /\ Len(mem'[P]) \in Nat /\ p \in Nat
        BY <3>2, <1>4
      <4> QED BY <4>1, <2>0, <3>1
    <3> QED BY <3>1, <3>3, <3>4
  <2>2. CASE p \notin 1..Len(mem[S])
    <3>1. x = S
      BY <2>2, <1>4
    <3>2. p = Len(mem[S]) + 1
      BY <2>2, <3>1, <1>4, <1>5
    <3>3. mem'[S][p].upd = wupd[w]
      BY <3>1, <3>2, <1>3, <1>5
    <3>4. Len(mem[P]) = p /\ wupd[w] = mem[P][p].upd
      BY <3>1, <3>2, <1>11
    <3>5. mem'[P][p] = mem[P][p]
      BY <3>1, <1>2, <1>4
    <3> QED BY <2>0, <3>3, <3>4, <3>5, <1>4
  <2> QED BY <2>1, <2>2
<1>23. \/ /\ Len(mem'[P]) = Len(mem'[S])
          /\ \A g \in Writers : wtodo'[g] # << >> => Head(wtodo'[g]) # S
       \/ /\ Len(mem'[P]) = Len(mem'[S]) + 1
          /\ \E g \in Writers : /\ wtodo'[g] # << >> /\ Head(wtodo'[g]) = S
                                /\ wupd[g] = mem'[P][Len(mem'[P])].upd
  <2> HIDE DEF P, S
  <2>1. CASE x = P
    <3>1. Len(mem'[P]) = Len(mem'[S]) + 1
      BY <2>1, <1>2, <1>4, <1>5, <1>10
    <3>2. wtodo'[w] # << >> /\ Head(wtodo'[w]) = S
      BY <2>1, <1>5, <1>12
    <3>3. wupd[w] = mem'[P][Len(mem'[P])].upd
      BY <2>1, <1>3, <1>5
    <3> QED BY <3>1, <3>2, <3>3
  <2>2. CASE x = S
    <3>1. Len(mem'[P]) = Len(mem'[S])
      BY <2>2, <1>2, <1>4, <1>5, <1>11
    <3>2. ASSUME NEW g \in Writers, wtodo'[g] # << >>, Head(wtodo'[g]) = S PROVE FALSE
      <4>1. g # w
        BY <3>2, <2>2, <1>2, <1>5, <1>12
      <4> QED BY <4>1, <3>2, <2>2, <1>5, <1>8
    <3> QED BY <3>1, <3>2
  <2>3. CASE x \notin {P, S}
    <3>1. mem'[P] = mem[P] /\ mem'[S] = mem[S]
      BY <2>3, <1>4
    <3>2. CASE Even
      <4>1. ASSUME NEW g \in Writers, wtodo'[g] # << >>, Head(wtodo'[g]) = S PROVE FALSE
        <5>1. CASE g = w
          BY <5>1, <4>1, <2>3, <1>5, <1>12
        <5>2. CASE g # w
          BY <5>2, <4>1, <3>2, <1>5
        <5> QED BY <5>1, <5>2
      <4> QED BY <4>1, <3>1, <3>2
    <3>3. CASE Odd
      <4>1. PICK g \in Writers : /\ wtodo[g] # << >> /\ Head(wtodo[g]) = S
                                 /\ wupd[g] = mem[P][Len(mem[P])].upd
        BY <3>3
      <4>2. g # w
        BY <4>1, <2>3, <1>1
      <4>3. wtodo'[g] = wtodo[g]
        BY <4>2, <1>5
      <4> QED BY <4>1, <4>3, <3>1, <3>3
    <3> QED BY <1>9, <3>2, <3>3
  <2> QED BY <2>1, <2>2, <2>3
<1> QED BY <1>1, <1>20, <1>21, <1>22, <1>23 DEF Alternating, Latest
LEMMA StoringStep ==
  ASSUME BInv, NEW w \in Writers, NEW x, NEW n, NEW seen, Storing(w, x, n, seen)
  PROVE  BInv'
<1>1. /\ Memory /\ Threads /\ Writings /\ Origins /\ Stamps /\ Counting
      /\ Finished /\ Loaded /\ Pairing /\ Alternation
  BY DEF BInv
<1>2. Memory' /\ Threads'
  BY <1>1, StoringMemory
<1>3. Writings'
  BY <1>1, StoringWritings
<1>4. Origins' /\ Stamps'
  BY <1>1, StoringOrigins
<1>5. Counting'
  BY <1>1, StoringCounting
<1>6. Finished'
  BY <1>1, StoringFinished
<1>7. Loaded' /\ Pairing'
  BY <1>1, StoringReader
<1>8. Alternation'
  <2> SUFFICES ASSUME NEW s \in Sides, NEW l \in BookLevels, SoleWriter(s)'
               PROVE  Alternating(s, l)'
    BY DEF Alternation
  <2>1. SoleWriter(s)
    BY DEF SoleWriter, Storing
  <2> QED BY <1>1, <2>1, StoringAlternating DEF Alternation
<1> QED BY <1>2, <1>3, <1>4, <1>5, <1>6, <1>7, <1>8 DEF BInv

\* A store and the counting are such steps.
LEMMA StoreNextStep ==
  ASSUME BInv, NEW w \in Writers, StoreNext(w)
  PROVE  BInv'
<1>1. Memory /\ Threads /\ Writings
  BY DEF BInv
<1> DEFINE x == Head(wtodo[w])
<1>2. x \in Locations /\ wupd[w] \in Nat /\ Within(mem, wview[w])
      /\ wtodo[w] # << >> /\ x # SequenceNo
  BY <1>1, NextStore DEF StoreNext, Threads
<1>3. Written(w, x, wupd[w], wview[w])
  BY <1>1, <1>2, WriteWritten DEF StoreNext
<1>4. \A y \in Locations : wview[w][y] <= wview[w][y]
  BY <1>2 DEF Within, Views
<1>5. Storing(w, x, wupd[w], wview[w])
  BY <1>2, <1>3, <1>4 DEF Storing, StoreNext
<1> QED BY <1>5, StoringStep

LEMMA CountUpdateStep ==
  ASSUME BInv, NEW w \in Writers, CountUpdate(w)
  PROVE  BInv'
<1>1. Memory /\ Threads /\ Writings /\ Counting
  BY DEF BInv
<1> DEFINE q == Len(mem[SequenceNo])
           last == mem[SequenceNo][q]
           seen == Join(wview[w], last.view)
           n == last.upd + 1
<1>2. /\ SequenceNo \in Locations /\ wtodo[w] # << >> /\ SequenceNo = Head(wtodo[w])
      /\ Latest(SequenceNo) = last
  BY LocationFacts DEF CountUpdate, Latest
<1>3. q \in Nat \ {0}
  BY <1>1, <1>2, NotEmpty
<1>4. n = Len(counted) + 1 /\ n \in Nat
  <2>1. q \in 1..Len(mem[SequenceNo])
    BY <1>3
  <2>2. last.upd = q - 1 /\ q = Len(counted) + 1 /\ counted \in Seq(Updates)
    BY <1>1, <2>1 DEF Counting
  <2> QED BY <2>2, <1>3
<1>5. Within(mem, wview[w]) /\ Within(mem, last.view)
  BY <1>1, <1>2, <1>3 DEF Threads, Memory
<1>6. /\ Within(mem, seen)
      /\ \A y \in Locations : wview[w][y] <= seen[y] /\ last.view[y] <= seen[y]
  BY <1>5, JoinWithin, JoinFacts DEF Within
<1>7. Write(w, SequenceNo, n, seen) /\ counted' = Append(counted, wupd[w])
      /\ UNCHANGED <<wupd, targets, readerVars>>
  BY <1>2 DEF CountUpdate, CountedLast
<1> HIDE DEF seen, n
<1>8. Written(w, SequenceNo, n, seen)
  BY <1>1, <1>2, <1>4, <1>6, <1>7, WriteWritten
<1>9. Storing(w, SequenceNo, n, seen)
  BY <1>2, <1>4, <1>6, <1>7, <1>8 DEF Storing
<1> QED BY <1>9, StoringStep

-----------------------------------------------------------------------------
(***************************************************************************)
(* The beginning of an update                                              *)
(***************************************************************************)

LEMMA UpdateStep ==
  ASSUME BInv, NEW w \in Writers, NEW s \in Sides, NEW l \in Levels, Update(w, s, l)
  PROVE  BInv'
<1> DEFINE N == Len(targets) + 1
<1>1. /\ Memory /\ Threads /\ Writings /\ Origins /\ Stamps /\ Counting
      /\ Finished /\ Loaded /\ Pairing /\ Alternation
  BY DEF BInv
<1>2. /\ mem' = mem /\ wview' = wview /\ counted' = counted /\ rview' = rview
      /\ rtodo' = rtodo /\ reads' = reads /\ results' = results
      /\ wtodo[w] = << >> /\ Len(targets) < MaxUpdates
  BY DEF Update, readerVars
<1>3. l \in BookLevels
  BY LevelsAssumption DEF Update, BookLevels
<1>4. /\ targets' \in Seq(Targets) /\ Len(targets') = N /\ N \in Nat
      /\ \A u \in Updates : targets'[u] = targets[u]
      /\ targets'[N] = [writer |-> w, side |-> s, level |-> l]
  <2>1. [writer |-> w, side |-> s, level |-> l] \in Targets
    BY <1>3 DEF Targets
  <2>2. targets' = Append(targets, [writer |-> w, side |-> s, level |-> l])
    BY DEF Update
  <2>3. targets \in Seq(Targets)
    BY <1>1 DEF Threads
  <2> QED BY <2>1, <2>2, <2>3 DEF Updates
<1>5. /\ wupd' \in [Writers -> Nat] /\ wupd'[w] = N
      /\ \A g \in Writers : g # w => wupd'[g] = wupd[g]
  BY <1>1, <1>4 DEF Update, Threads
<1>6. /\ wtodo' \in [Writers -> Seq(Locations)] /\ wtodo'[w] = Stores(s, l)
      /\ \A g \in Writers : g # w => wtodo'[g] = wtodo[g]
      /\ Stores(s, l) # << >> /\ Head(Stores(s, l)) = Price(s, l)
  BY <1>1, <1>3, StoresFacts DEF Update, Threads
<1>7. Len(targets) \in Nat /\ Updates' = 1..N /\ Updates = 1..(N - 1) /\ Updates \subseteq Updates'
  <2>1. Len(targets) \in Nat
    BY <1>1 DEF Threads
  <2> QED BY <2>1, <1>4 DEF Updates
<1>8. \A x \in Locations \ {SequenceNo} : \A p \in 1..Len(mem[x]) :
        /\ p = 1 => mem[x][p].upd = 0
        /\ p # 1 => mem[x][p].upd \in Updates
  BY <1>1 DEF Origins, Origin
<1>9. Memory'
  BY <1>1, <1>2 DEF Memory
<1>10. Threads'
  <2>1. Len(targets') <= MaxUpdates
    BY <1>2, <1>4, <1>7, BoundsAssumption
  <2> QED BY <1>1, <1>2, <1>4, <1>5, <1>6, <2>1 DEF Threads
<1>11. Writings'
  <2>1. ASSUME NEW g \in Writers, wtodo'[g] # << >>, g # w PROVE Writing(g)'
    <3>1. Writing(g) /\ wtodo'[g] = wtodo[g] /\ wupd'[g] = wupd[g]
      BY <2>1, <1>1, <1>5, <1>6 DEF Writings
    <3>2. wupd[g] \in Updates /\ targets'[wupd[g]] = targets[wupd[g]]
      BY <3>1, <1>4 DEF Writing
    <3>3. wupd[g] \in Updates'
      BY <3>2, <1>7
    <3>4. /\ targets'[wupd'[g]] = targets[wupd[g]] /\ wupd'[g] \in Updates'
          /\ targets[wupd[g]].writer = g
          /\ \A k \in 1..Len(counted) : counted[k] # wupd'[g]
      BY <3>1, <3>2, <3>3 DEF Writing
    <3>5. /\ KnowsPrice(mem, wview[g], wupd[g])' <=> KnowsPrice(mem, wview[g], wupd[g])
          /\ KnowsSize(mem, wview[g], wupd[g])' <=> KnowsSize(mem, wview[g], wupd[g])
      BY <1>2, <3>1, <3>2 DEF KnowsPrice, KnowsSize
    <3>6. \/ wtodo'[g] = Stores(targets[wupd[g]].side, targets[wupd[g]].level)
          \/ /\ wtodo'[g] = <<Size(targets[wupd[g]].side, targets[wupd[g]].level),
                              LastUpdate, SequenceNo>>
             /\ KnowsPrice(mem, wview[g], wupd[g])
          \/ /\ wtodo'[g] \in {<<LastUpdate, SequenceNo>>, <<SequenceNo>>}
             /\ KnowsPrice(mem, wview[g], wupd[g]) /\ KnowsSize(mem, wview[g], wupd[g])
      BY <3>1 DEF Writing
    <3> QED BY <1>2, <3>4, <3>5, <3>6 DEF Writing
  <2>2. Writing(w)'
    <3>1. counted \in Seq(Updates)
      BY <1>1 DEF Counting
    <3>2. \A k \in 1..Len(counted) : counted[k] # N
      BY <3>1, <1>7
    <3>3. N \in Updates'
      BY <1>4, <1>7
    <3>4. targets'[N].writer = w /\ targets'[N].side = s /\ targets'[N].level = l
      BY <1>4
    <3> QED BY <1>2, <1>5, <1>6, <3>2, <3>3, <3>4 DEF Writing
  <2> QED BY <2>1, <2>2 DEF Writings
<1>12. Origins'
  <2>1. ASSUME NEW x \in Locations \ {SequenceNo}, NEW p \in 1..Len(mem[x])
        PROVE  (p = 1 => mem[x][p].upd = 0) /\ (p # 1 => Origin(x, mem[x][p].upd)')
    <3>1. p # 1 => Origin(x, mem[x][p].upd) /\ mem[x][p].upd \in Updates
      BY <1>1, <1>8 DEF Origins
    <3>2. p # 1 => targets'[mem[x][p].upd] = targets[mem[x][p].upd] /\ mem[x][p].upd \in Updates'
      BY <3>1, <1>4, <1>7
    <3> QED BY <1>2, <1>8, <3>1, <3>2 DEF Origin, Stored
  <2> QED BY <1>2, <2>1 DEF Origins, Origin, Stored
<1>13. Stamps'
  <2>1. ASSUME NEW p \in 2..Len(mem[LastUpdate])
        PROVE  targets'[mem[LastUpdate][p].upd] = targets[mem[LastUpdate][p].upd]
    <3>1. LastUpdate \in Locations \ {SequenceNo}
      BY LocationFacts
    <3>2. p \in 1..Len(mem[LastUpdate]) /\ p # 1
      BY <3>1, <1>1, NotEmpty
    <3> QED BY <3>1, <3>2, <1>4, <1>8
  <2> QED BY <1>1, <1>2, <2>1 DEF Stamps, KnowsPrice, KnowsSize
<1>14. Counting'
  <2>1. counted \in Seq(Updates) /\ counted \in Seq(Updates')
    BY <1>1, <1>7 DEF Counting
  <2>2. ASSUME NEW p \in 1..Len(mem[SequenceNo]), NEW k \in 1..(p - 1)
        PROVE  targets'[counted[k]] = targets[counted[k]]
    <3>1. Len(mem[SequenceNo]) = Len(counted) + 1
      BY <1>1 DEF Counting
    <3>2. k \in 1..Len(counted)
      BY <2>1, <3>1
    <3> QED BY <2>1, <3>2, <1>4
  <2> QED BY <1>1, <1>2, <2>1, <2>2 DEF Counting, KnowsPrice, KnowsSize
<1>15. Finished'
  <2>1. ASSUME NEW u \in Updates', wtodo'[targets'[u].writer] = << >> \/ wupd'[targets'[u].writer] # u
        PROVE  KnowsCounted(counted, wview[targets'[u].writer], u)
    <3>1. u # N
      BY <2>1, <1>4, <1>5, <1>6
    <3>2. u \in Updates /\ targets'[u] = targets[u]
      BY <2>1, <3>1, <1>4, <1>7
    <3>3. CASE targets[u].writer = w
      BY <3>2, <3>3, <1>1, <1>2 DEF Finished
    <3>4. CASE targets[u].writer # w
      <4>1. targets[u].writer \in Writers
        BY <3>2, <1>1, TargetFacts
      <4> QED BY <4>1, <2>1, <3>2, <3>4, <1>1, <1>5, <1>6 DEF Finished
    <3> QED BY <3>3, <3>4
  <2>2. ASSUME NEW x \in Locations \ {SequenceNo}, NEW p \in 2..Len(mem[x]),
               NEW u \in 1..(mem[x][p].upd - 1),
               targets'[u].writer = targets'[mem[x][p].upd].writer
        PROVE  KnowsCounted(counted, mem[x][p].view, u)
    <3>1. p \in 1..Len(mem[x]) /\ p # 1
      BY <1>1, NotEmpty
    <3>2. mem[x][p].upd \in Updates
      BY <3>1, <1>8
    <3>3. u \in Updates
      BY <3>2, <1>7
    <3> QED BY <2>2, <3>2, <3>3, <1>1, <1>4 DEF Finished
  <2> QED BY <1>2, <2>1, <2>2 DEF Finished
<1>16. Loaded' /\ Pairing'
  BY <1>1, <1>2 DEF Loaded, Pairing, Paired
<1>17. Alternation'
  <2> SUFFICES ASSUME NEW t \in Sides, NEW k \in BookLevels, SoleWriter(t)'
               PROVE  Alternating(t, k)'
    BY DEF Alternation
  <2> DEFINE P == Price(t, k)
             S == Size(t, k)
  <2>1. \A u, v \in Updates' :
          targets'[u].side = t /\ targets'[v].side = t => targets'[u].writer = targets'[v].writer
    BY DEF SoleWriter, Updates
  <2>2. SoleWriter(t)
    <3>1. \A u, v \in Updates :
            targets[u].side = t /\ targets[v].side = t => targets[u].writer = targets[v].writer
      BY <2>1, <1>4, <1>7
    <3> QED BY <3>1 DEF SoleWriter, Updates
  <2>3. Alternating(t, k)
    BY <1>1, <2>2 DEF Alternation
  <2>4. P \in Locations /\ S \in Locations /\ P # SequenceNo /\ S # SequenceNo /\ Price(s, l) # S
        /\ P # LastUpdate /\ S # LastUpdate
    BY <1>3, LocationFacts
  <2>5. /\ Len(mem[P]) \in Nat \ {0} /\ wview[w][P] \in 1..Len(mem[P])
        /\ Len(mem[S]) \in Nat \ {0} /\ wview[w][S] \in 1..Len(mem[S])
    BY <1>1, <2>4, ViewFacts DEF Threads
  <2>6. ASSUME NEW u \in Updates', targets'[u].side = t
        PROVE  /\ wview[targets'[u].writer][P] = Len(mem[P])
               /\ wview[targets'[u].writer][S] = Len(mem[S])
    <3>1. CASE \E v \in Updates : targets[v].side = t
      <4>1. PICK v \in Updates : targets[v].side = t
        BY <3>1
      <4>2. targets'[u].writer = targets[v].writer
        BY <2>1, <2>6, <4>1, <1>4, <1>7
      <4> QED BY <2>3, <4>1, <4>2 DEF Alternating
    <3>2. CASE ~ \E v \in Updates : targets[v].side = t
      <4>1. u = N
        BY <2>6, <3>2, <1>4, <1>7
      <4>2. targets'[u].writer = w
        BY <4>1, <1>4
      <4>3. ASSUME NEW y \in {P, S}, NEW p \in 1..Len(mem[y]), p # 1 PROVE FALSE
        <5>1. Origin(y, mem[y][p].upd)
          BY <1>1, <2>4, <4>3 DEF Origins
        <5>2. PICK v \in Updates : Stored(v, y)
          BY <5>1, <2>4 DEF Origin
        <5>3. targets[v].side \in Sides /\ targets[v].level \in BookLevels
          BY <1>1, TargetFacts
        <5>4. y = Price(targets[v].side, targets[v].level) \/ y = Size(targets[v].side, targets[v].level)
          BY <5>2 DEF Stored
        <5>5. targets[v].side = t
          BY <5>3, <5>4, <4>3, LocationFacts
        <5> QED BY <3>2, <5>5
      <4>4. Len(mem[P]) = 1 /\ Len(mem[S]) = 1
        <5> HIDE DEF P, S
        <5>1. Len(mem[P]) \in 1..Len(mem[P]) /\ Len(mem[S]) \in 1..Len(mem[S])
          BY <2>5
        <5>2. Len(mem[P]) = 1
          BY <4>3, <5>1
        <5>3. Len(mem[S]) = 1
          BY <4>3, <5>1
        <5> QED BY <5>2, <5>3
      <4> QED BY <2>5, <4>2, <4>4
    <3> QED BY <3>1, <3>2
  <2>7. /\ \A p \in 1..Len(mem[P]) : p <= mem[P][p].view[S] + 1
        /\ \A p \in 1..Len(mem[S]) : p <= Len(mem[P]) /\ mem[S][p].upd = mem[P][p].upd
    BY <2>3 DEF Alternating
  <2>8. \/ /\ Len(mem[P]) = Len(mem[S])
           /\ \A g \in Writers : wtodo'[g] # << >> => Head(wtodo'[g]) # S
        \/ /\ Len(mem[P]) = Len(mem[S]) + 1
           /\ \E g \in Writers : /\ wtodo'[g] # << >> /\ Head(wtodo'[g]) = S
                                 /\ wupd'[g] = mem[P][Len(mem[P])].upd
    <3>1. CASE /\ Len(mem[P]) = Len(mem[S])
               /\ \A g \in Writers : wtodo[g] # << >> => Head(wtodo[g]) # S
      BY <3>1, <1>6, <2>4
    <3>2. CASE /\ Len(mem[P]) = Len(mem[S]) + 1
               /\ \E g \in Writers : /\ wtodo[g] # << >> /\ Head(wtodo[g]) = S
                                     /\ wupd[g] = mem[P][Len(mem[P])].upd
      BY <3>2, <1>2, <1>5, <1>6
    <3> QED BY <2>3, <3>1, <3>2 DEF Alternating, Latest
  <2> QED BY <1>2, <2>6, <2>7, <2>8 DEF Alternating, Latest
<1> QED BY <1>9, <1>10, <1>11, <1>12, <1>13, <1>14, <1>15, <1>16, <1>17 DEF BInv
-----------------------------------------------------------------------------
(***************************************************************************)
(* The reader                                                              *)
(***************************************************************************)

\* Sequences in which every price is followed by its size can be joined.
LEMMA PairedConcat ==
  ASSUME NEW s \in Seq(Locations), NEW t \in Seq(Locations), Paired(s), Paired(t)
  PROVE  Paired(s \o t) /\ s \o t \in Seq(Locations)
<1> DEFINE r == s \o t
<1>1. /\ r \in Seq(Locations) /\ Len(r) = Len(s) + Len(t)
      /\ \A i \in 1..Len(s) : r[i] = s[i]
      /\ \A i \in 1..Len(t) : r[Len(s) + i] = t[i]
      /\ Len(s) \in Nat /\ Len(t) \in Nat
  OBVIOUS
<1> HIDE DEF r
<1>2. ASSUME NEW i \in 1..Len(r), r[i] \in Prices PROVE i < Len(r) /\ r[i + 1] = SizeOf(r[i])
  <2>1. CASE i \in 1..Len(s)
    <3>1. i < Len(s) /\ s[i + 1] = SizeOf(s[i]) /\ r[i] = s[i]
      BY <1>1, <1>2, <2>1 DEF Paired
    <3>2. i + 1 \in 1..Len(s)
      BY <1>1, <2>1, <3>1
    <3> QED BY <1>1, <2>1, <3>1, <3>2
  <2>2. CASE i \notin 1..Len(s)
    <3> DEFINE j == i - Len(s)
    <3>1. j \in 1..Len(t) /\ i = Len(s) + j
      BY <1>1, <1>2, <2>2
    <3>2. r[i] = t[j]
      BY <1>1, <3>1
    <3>3. j < Len(t) /\ t[j + 1] = SizeOf(t[j])
      BY <1>2, <3>1, <3>2 DEF Paired
    <3>4. j + 1 \in 1..Len(t) /\ Len(s) + (j + 1) = i + 1
      BY <1>1, <3>1, <3>3
    <3>5. r[i + 1] = t[j + 1]
      BY <1>1, <3>4
    <3> QED BY <1>1, <3>1, <3>2, <3>3, <3>5
  <2> QED BY <2>1, <2>2
<1> QED BY <1>1, <1>2 DEF Paired, r

\* The calls load the size right after the price.
LEMMA CallFacts ==
  ASSUME NEW call \in Calls
  PROVE  call \in Seq(Locations) /\ Paired(call)
<1> DEFINE Good(c) == c \in Seq(Locations) /\ Paired(c)
<1>1. ASSUME NEW s \in Sides, NEW l \in BookLevels PROVE Good(Quote(s, l))
  <2> DEFINE q == <<Price(s, l), Size(s, l)>>
  <2>1. /\ Price(s, l) \in Locations /\ Size(s, l) \in Locations
        /\ Price(s, l) \in Prices /\ Size(s, l) \notin Prices
        /\ SizeOf(Price(s, l)) = Size(s, l)
    BY LocationFacts
  <2>2. q \in Seq(Locations) /\ Len(q) = 2 /\ q[1] = Price(s, l) /\ q[2] = Size(s, l)
    BY <2>1
  <2> HIDE DEF q
  <2>3. ASSUME NEW i \in 1..Len(q), q[i] \in Prices PROVE i < Len(q) /\ q[i + 1] = SizeOf(q[i])
    <3>1. i = 1
      BY <2>1, <2>2, <2>3
    <3> QED BY <2>1, <2>2, <3>1
  <2> QED BY <2>2, <2>3 DEF Paired, Quote, q
<1>2. ASSUME NEW x \in {LastUpdate, SequenceNo} PROVE Good(<<x>>)
  <2>1. x \in Locations /\ x \notin Prices
    BY LocationFacts
  <2>2. <<x>> \in Seq(Locations) /\ Len(<<x>>) = 1 /\ <<x>>[1] = x
    BY <2>1
  <2> QED BY <2>1, <2>2 DEF Paired
<1>3. ASSUME NEW a, NEW b, Good(a), Good(b) PROVE Good(a \o b)
  BY <1>3, PairedConcat
<1>4. 0 \in BookLevels
  BY DEF BookLevels
<1>5. \A s \in Sides : Good(Depth(s))
  BY <1>1, <1>3, <1>4 DEF Depth
<1>6. Good(Mid)
  BY <1>1, <1>3, <1>4 DEF Mid, Sides
<1>7. \A s \in Sides : Good(<<SequenceNo>> \o Depth(s) \o <<SequenceNo>>)
  BY <1>2, <1>3, <1>5
<1>8. Good(<<LastUpdate>> \o Mid)
  BY <1>2, <1>3, <1>6
<1>9. \A s \in Sides : Good(Quote(s, 0))
  BY <1>1, <1>4
<1> HIDE DEF Good
<1>10. Good(call)
  BY <1>5, <1>6, <1>7, <1>8, <1>9 DEF Calls
<1> QED BY <1>10 DEF Good

LEMMA ReadStep ==
  ASSUME BInv, NEW call \in Calls, Read(call)
  PROVE  BInv'
<1>1. /\ Memory /\ Threads /\ Writings /\ Origins /\ Stamps /\ Counting
      /\ Finished /\ Loaded /\ Pairing /\ Alternation
  BY DEF BInv
<1>2. /\ mem' = mem /\ wview' = wview /\ wtodo' = wtodo /\ wupd' = wupd /\ targets' = targets
      /\ counted' = counted /\ rview' = rview /\ rtodo' = call /\ results' = << >>
      /\ reads' \in 0..MaxReads
  <2>1. reads \in Nat /\ MaxReads \in Nat
    BY <1>1, BoundsAssumption DEF Threads
  <2> QED BY <2>1 DEF Read, writerVars
<1>3. call \in Seq(Locations) /\ Paired(call)
  BY CallFacts
<1>4. Memory' /\ Origins'
  BY <1>1, <1>2 DEF Memory, Origins, Origin, Updates, Stored
<1>5. Threads'
  BY <1>1, <1>2, <1>3 DEF Threads
<1>6. Writings'
  BY <1>1, <1>2 DEF Writings, Writing, Updates, KnowsPrice, KnowsSize
<1>7. Stamps' /\ Counting'
  BY <1>1, <1>2 DEF Stamps, Counting, Updates, KnowsPrice, KnowsSize
<1>8. Finished'
  BY <1>1, <1>2 DEF Finished, Updates
<1>9. Loaded' /\ Pairing'
  BY <1>2, <1>3 DEF Loaded, Pairing, Paired
<1>10. Alternation'
  BY <1>1, <1>2 DEF Alternation, Alternating, SoleWriter, Updates, Latest
<1> QED BY <1>4, <1>5, <1>6, <1>7, <1>8, <1>9, <1>10 DEF BInv

LEMMA LoadNextStep ==
  ASSUME BInv, LoadNext
  PROVE  BInv'
<1>1. /\ Memory /\ Threads /\ Writings /\ Origins /\ Stamps /\ Counting
      /\ Finished /\ Loaded /\ Pairing /\ Alternation
  BY DEF BInv
<1> DEFINE loc == Head(rtodo)
           r == Len(results)
<1>2. PICK p \in rview[loc]..Len(mem[loc]) :
        /\ results' = Append(results, [loc |-> loc, pos |-> p, upd |-> mem[loc][p].upd])
        /\ rview' = Join([rview EXCEPT ![loc] = p], mem[loc][p].view)
  BY DEF LoadNext
<1>3. /\ mem' = mem /\ wview' = wview /\ wtodo' = wtodo /\ wupd' = wupd /\ targets' = targets
      /\ counted' = counted /\ reads' = reads /\ rtodo' = Tail(rtodo) /\ rtodo # << >>
  BY DEF LoadNext, writerVars
<1>4. /\ rtodo \in Seq(Locations) /\ loc \in Locations /\ Tail(rtodo) \in Seq(Locations)
      /\ Len(rtodo) \in Nat \ {0} /\ loc = rtodo[1] /\ Len(Tail(rtodo)) = Len(rtodo) - 1
      /\ \A i \in 1..(Len(rtodo) - 1) : Tail(rtodo)[i] = rtodo[i + 1]
  <2>1. rtodo \in Seq(Locations) /\ rtodo # << >>
    BY <1>1, <1>3 DEF Threads
  <2> QED BY <2>1
<1> DEFINE view == mem[loc][p].view
           got == [rview EXCEPT ![loc] = p]
           m == [loc |-> loc, pos |-> p, upd |-> mem[loc][p].upd]
<1>5. /\ rview \in Views /\ Within(mem, rview) /\ rview[loc] \in Nat \ {0} /\ Len(mem[loc]) \in Nat
      /\ \A x \in Locations : rview[x] \in Nat
  BY <1>1, <1>4, ViewFacts DEF Threads, Within
<1>6. p \in 1..Len(mem[loc]) /\ p \in Nat \ {0} /\ rview[loc] <= p
  BY <1>2, <1>5
<1>7. Within(mem, view) /\ mem[loc][p].upd \in Nat /\ view \in Views
  BY <1>1, <1>4, <1>6, MessageFacts
<1>8. got \in Views /\ got[loc] = p /\ \A x \in Locations : x # loc => got[x] = rview[x]
  BY <1>4, <1>5, <1>6 DEF Views
<1>9. Within(mem, got)
  BY <1>4, <1>5, <1>6, <1>8 DEF Within
<1> HIDE DEF loc, view, got
<1>10. \A x \in Locations : rview[x] <= got[x] /\ got[x] \in Nat /\ view[x] \in Nat
  BY <1>5, <1>6, <1>7, <1>8 DEF Views
<1>11. rview' = Join(got, view)
  BY <1>2 DEF got, view
<1>12. Within(mem, rview')
  BY <1>7, <1>9, <1>11, JoinWithin
<1>13. \A x \in Locations : got[x] <= rview'[x] /\ view[x] <= rview'[x] /\ rview'[x] \in Nat
  BY <1>7, <1>8, <1>11, <1>12, JoinFacts DEF Within, Views
<1>14. m \in Readings
  BY <1>4, <1>6, <1>7 DEF Readings
<1>15. /\ results \in Seq(Readings) /\ r \in Nat /\ results' \in Seq(Readings) /\ Len(results') = r + 1
       /\ results'[r + 1] = m
       /\ \A i \in 1..r : results'[i] = results[i]
  BY <1>1, <1>2, <1>14 DEF Threads, loc
<1>16. m.loc = loc /\ m.pos = p /\ m.upd = mem[loc][p].upd
  OBVIOUS
<1>17. \A i \in 1..r : results[i].loc \in Locations /\ results[i].pos \in 1..Len(mem[results[i].loc])
  <2> TAKE i \in 1..r
  <2>1. results[i] \in Readings
    BY <1>15
  <2>2. results[i].loc \in Locations /\ results[i].pos \in Nat \ {0}
        /\ results[i].pos <= Len(mem[results[i].loc])
    BY <2>1, <1>1 DEF Readings, Loaded
  <2>3. Len(mem[results[i].loc]) \in Nat
    BY <2>2, <1>1, NotEmpty
  <2> QED BY <2>2, <2>3
<1> HIDE DEF m, r
<1>18. Threads'
  BY <1>1, <1>3, <1>4, <1>12, <1>15 DEF Threads
<1>19. Loaded'
  <2>1. ASSUME NEW i \in 1..(r + 1)
        PROVE  /\ results'[i].pos <= Len(mem[results'[i].loc])
               /\ results'[i].upd = mem[results'[i].loc][results'[i].pos].upd
               /\ \A x \in Locations : mem[results'[i].loc][results'[i].pos].view[x] <= rview'[x]
    <3>1. CASE i = r + 1
      BY <3>1, <1>5, <1>6, <1>13, <1>15, <1>16 DEF view
    <3>2. CASE i # r + 1
      <4>1. i \in 1..r /\ results'[i] = results[i]
        BY <2>1, <3>2, <1>15
      <4>2. /\ results[i].pos <= Len(mem[results[i].loc])
            /\ results[i].upd = mem[results[i].loc][results[i].pos].upd
            /\ \A x \in Locations : mem[results[i].loc][results[i].pos].view[x] <= rview[x]
        BY <4>1, <1>1 DEF Loaded, r
      <4>3. mem[results[i].loc][results[i].pos].view \in Views
        BY <4>1, <1>1, <1>17, MessageFacts
      <4>4. \A x \in Locations : mem[results[i].loc][results[i].pos].view[x] \in Nat
        BY <4>3 DEF Views
      <4>5. \A x \in Locations : mem[results[i].loc][results[i].pos].view[x] <= rview'[x]
        BY <4>2, <4>4, <1>5, <1>10, <1>13
      <4> QED BY <4>1, <4>2, <4>5
    <3> QED BY <3>1, <3>2
  <2>2. ASSUME NEW i \in 1..(r + 1), NEW j \in 1..(r + 1), i < j
        PROVE  mem[results'[i].loc][results'[i].pos].view[results'[j].loc] <= results'[j].pos
    <3>1. i \in 1..r /\ results'[i] = results[i]
      BY <2>2, <1>15
    <3>2. CASE j = r + 1
      <4>1. mem[results[i].loc][results[i].pos].view[loc] <= rview[loc]
        BY <3>1, <1>1, <1>4 DEF Loaded, r, loc
      <4>2. mem[results[i].loc][results[i].pos].view \in Views
        BY <3>1, <1>1, <1>17, MessageFacts
      <4>3. mem[results[i].loc][results[i].pos].view[loc] \in Nat
        BY <4>2, <1>4 DEF Views, loc
      <4>4. mem[results[i].loc][results[i].pos].view[loc] <= p
        BY <4>1, <4>3, <1>5, <1>6
      <4> QED BY <3>1, <3>2, <4>4, <1>15, <1>16
    <3>3. CASE j # r + 1
      <4>1. j \in 1..r /\ results'[j] = results[j]
        BY <2>2, <3>3, <1>15
      <4>2. mem[results[i].loc][results[i].pos].view[results[j].loc] <= results[j].pos
        BY <2>2, <3>1, <4>1, <1>1 DEF Loaded, r
      <4> QED BY <3>1, <4>1, <4>2
    <3> QED BY <3>2, <3>3
  <2> QED BY <1>3, <1>15, <2>1, <2>2 DEF Loaded
<1>20. Pairing'
  <2>1. Paired(rtodo')
    <3> SUFFICES ASSUME NEW i \in 1..Len(rtodo'), rtodo'[i] \in Prices
                 PROVE  i < Len(rtodo') /\ rtodo'[i + 1] = SizeOf(rtodo'[i])
      BY DEF Paired
    <3>1. i \in 1..(Len(rtodo) - 1) /\ rtodo'[i] = rtodo[i + 1] /\ i + 1 \in 1..Len(rtodo)
      BY <1>3, <1>4
    <3>2. i + 1 < Len(rtodo) /\ rtodo[(i + 1) + 1] = SizeOf(rtodo[i + 1])
      BY <3>1, <1>1 DEF Pairing, Paired
    <3>3. i + 1 \in 1..(Len(rtodo) - 1)
      BY <3>1, <3>2, <1>4
    <3> QED BY <3>1, <3>2, <3>3, <1>3, <1>4
  <2>2. ASSUME NEW i \in 1..(r + 1), results'[i].loc \in Prices
        PROVE  IF i < r + 1 THEN results'[i + 1].loc = SizeOf(results'[i].loc)
               ELSE rtodo' # << >> /\ Head(rtodo') = SizeOf(results'[i].loc)
    <3>1. CASE i = r + 1
      <4>1. loc \in Prices /\ results'[i].loc = loc
        BY <2>2, <3>1, <1>15, <1>16
      <4>2. 1 \in 1..Len(rtodo)
        BY <1>4
      <4>3. 1 < Len(rtodo) /\ rtodo[1 + 1] = SizeOf(rtodo[1])
        BY <4>1, <4>2, <1>1, <1>4 DEF Pairing, Paired
      <4>4. 1 \in 1..(Len(rtodo) - 1)
        BY <4>3, <1>4
      <4>5. rtodo' \in Seq(Locations) /\ Len(rtodo') # 0 /\ rtodo'[1] = rtodo[1 + 1]
        BY <4>3, <4>4, <1>3, <1>4
      <4>6. rtodo' # << >> /\ Head(rtodo') = rtodo'[1]
        BY <4>5
      <4> QED BY <3>1, <4>1, <4>3, <4>5, <4>6, <1>4, <1>15
    <3>2. CASE i # r + 1
      <4>1. i \in 1..r /\ results'[i] = results[i]
        BY <2>2, <3>2, <1>15
      <4>2. CASE i < r
        <5>1. results[i + 1].loc = SizeOf(results[i].loc)
          BY <2>2, <4>1, <4>2, <1>1 DEF Pairing, r
        <5>2. i + 1 \in 1..r /\ i < r + 1
          BY <4>1, <4>2, <1>15
        <5> QED BY <4>1, <5>1, <5>2, <1>15
      <4>3. CASE ~ (i < r)
        <5>1. i = r
          BY <4>1, <4>3, <1>15
        <5>2. loc = SizeOf(results[i].loc)
          BY <2>2, <4>1, <4>3, <1>1 DEF Pairing, r, loc
        <5> QED BY <4>1, <5>1, <5>2, <1>15, <1>16
      <4> QED BY <4>2, <4>3
    <3> QED BY <3>1, <3>2
  <2> QED BY <1>15, <2>1, <2>2 DEF Pairing
<1>21. Memory' /\ Origins'
  BY <1>1, <1>3 DEF Memory, Origins, Origin, Updates, Stored
<1>22. Writings'
  BY <1>1, <1>3 DEF Writings, Writing, Updates, KnowsPrice, KnowsSize
<1>23. Stamps' /\ Counting'
  BY <1>1, <1>3 DEF Stamps, Counting, Updates, KnowsPrice, KnowsSize
<1>24. Finished'
  BY <1>1, <1>3 DEF Finished, Updates
<1>25. Alternation'
  BY <1>1, <1>3 DEF Alternation, Alternating, SoleWriter, Updates, Latest
<1> QED BY <1>18, <1>19, <1>20, <1>21, <1>22, <1>23, <1>24, <1>25 DEF BInv
-----------------------------------------------------------------------------
(***************************************************************************)
(* The invariant                                                           *)
(***************************************************************************)

\* The empty book satisfies the invariant.
LEMMA InitInv == Init => BInv
<1> SUFFICES ASSUME Init PROVE BInv
  OBVIOUS
<1> DEFINE m == [upd |-> 0, view |-> StartView]
<1>1. StartView \in Views /\ \A x \in Locations : StartView[x] = 1
  BY DEF StartView, Views
<1>2. m \in Messages /\ m.upd = 0 /\ m.view = StartView
  BY <1>1 DEF Messages
<1> HIDE DEF m
<1>3. /\ mem \in [Locations -> Seq(Messages)]
      /\ \A x \in Locations : mem[x] = <<m>>
  BY <1>2 DEF Init, m
<1>4. <<m>> # << >> /\ Len(<<m>>) = 1 /\ <<m>>[1] = m
  BY <1>2
<1>5. \A x \in Locations : mem[x] # << >> /\ Len(mem[x]) = 1 /\ mem[x][1] = m
  BY <1>3, <1>4
<1>6. Within(mem, StartView)
  BY <1>1, <1>5 DEF Within
<1>7. \A x \in Locations : \A p \in 1..Len(mem[x]) : p = 1 /\ mem[x][p] = m
  <2> TAKE x \in Locations
  <2>1. Len(mem[x]) = 1 /\ mem[x][1] = m
    BY <1>5
  <2>2. 1..1 = {1}
    OBVIOUS
  <2> QED BY <2>1, <2>2
<1>8. targets = << >> /\ Len(targets) = 0 /\ Updates = {} /\ counted = << >> /\ Len(counted) = 0
      /\ rtodo = << >> /\ Len(rtodo) = 0 /\ results = << >> /\ Len(results) = 0
      /\ \A w \in Writers : wtodo[w] = << >> /\ wview[w] = StartView
  BY DEF Init, Updates
<1>9. Memory
  BY <1>2, <1>3, <1>5, <1>6, <1>7 DEF Memory
<1>10. Threads
  <2>1. targets \in Seq(Targets) /\ Len(targets) <= MaxUpdates
    BY <1>8, BoundsAssumption
  <2>2. rtodo \in Seq(Locations) /\ results \in Seq(Readings) /\ reads \in 0..MaxReads
    BY <1>8, BoundsAssumption DEF Init
  <2>3. wview \in [Writers -> Views] /\ wtodo \in [Writers -> Seq(Locations)]
        /\ wupd \in [Writers -> Nat]
    BY <1>1 DEF Init
  <2> QED BY <1>6, <1>8, <2>1, <2>2, <2>3 DEF Threads, Init
<1>11. Writings /\ Origins
  BY <1>2, <1>7, <1>8 DEF Writings, Origins
<1>12. Stamps
  BY <1>5, LocationFacts DEF Stamps
<1>13. Counting
  <2>1. \A p \in 1..Len(mem[SequenceNo]) : p = 1 /\ mem[SequenceNo][p].upd = 0
    BY <1>2, <1>7, LocationFacts
  <2>2. Len(mem[SequenceNo]) = 1
    BY <1>5, LocationFacts
  <2>3. counted \in Seq(Updates)
    BY <1>8
  <2> QED BY <1>8, <2>1, <2>2, <2>3 DEF Counting
<1>14. Finished
  BY <1>5, <1>8 DEF Finished
<1>15. Loaded /\ Pairing
  BY <1>8 DEF Loaded, Pairing, Paired
<1>16. Alternation
  <2> SUFFICES ASSUME NEW s \in Sides, NEW l \in BookLevels PROVE Alternating(s, l)
    BY DEF Alternation
  <2> DEFINE P == Price(s, l)
             S == Size(s, l)
  <2>1. P \in Locations /\ S \in Locations
    BY LocationFacts
  <2> HIDE DEF P, S
  <2>2. Len(mem[P]) = 1 /\ Len(mem[S]) = 1 /\ m.view[S] = 1
    BY <1>1, <1>2, <1>5, <2>1
  <2>3. \A p \in 1..Len(mem[P]) : p <= mem[P][p].view[S] + 1
    BY <1>7, <2>1, <2>2
  <2>4. \A p \in 1..Len(mem[S]) : p <= Len(mem[P]) /\ mem[S][p].upd = mem[P][p].upd
    BY <1>5, <1>7, <2>1, <2>2
  <2> QED BY <1>8, <2>2, <2>3, <2>4 DEF Alternating, P, S
<1> QED BY <1>9, <1>10, <1>11, <1>12, <1>13, <1>14, <1>15, <1>16 DEF BInv

LEMMA IdleStep == BInv /\ UNCHANGED vars => BInv'
<1> SUFFICES ASSUME BInv, UNCHANGED vars PROVE BInv'
  OBVIOUS
<1>1. /\ Memory /\ Threads /\ Writings /\ Origins /\ Stamps /\ Counting
      /\ Finished /\ Loaded /\ Pairing /\ Alternation
  BY DEF BInv
<1>2. /\ mem' = mem /\ wview' = wview /\ wtodo' = wtodo /\ wupd' = wupd /\ targets' = targets
      /\ counted' = counted /\ rview' = rview /\ rtodo' = rtodo /\ reads' = reads
      /\ results' = results
  BY DEF vars, writerVars, readerVars
<1>3. Memory' /\ Threads' /\ Origins' /\ Loaded' /\ Pairing'
  BY <1>1, <1>2 DEF Memory, Threads, Origins, Origin, Updates, Stored, Loaded, Pairing, Paired
<1>4. Writings' /\ Stamps' /\ Counting' /\ Finished'
  BY <1>1, <1>2
     DEF Writings, Writing, Stamps, Counting, Finished, Updates, KnowsPrice, KnowsSize
<1>5. Alternation'
  BY <1>1, <1>2 DEF Alternation, Alternating, SoleWriter, Updates, Latest
<1> QED BY <1>3, <1>4, <1>5 DEF BInv

\* The invariant holds in every reachable state.
THEOREM Invariance == Spec => []BInv
<1>1. BInv /\ [Next]_vars => BInv'
  <2> SUFFICES ASSUME BInv, [Next]_vars PROVE BInv'
    OBVIOUS
  <2>1. ASSUME NEW w \in Writers, WriterStep(w) PROVE BInv'
    <3>1. CASE \E s \in Sides, l \in Levels : Update(w, s, l)
      BY <3>1, UpdateStep
    <3>2. CASE StoreNext(w)
      BY <3>2, StoreNextStep
    <3>3. CASE CountUpdate(w)
      BY <3>3, CountUpdateStep
    <3> QED BY <2>1, <3>1, <3>2, <3>3 DEF WriterStep
  <2>2. ASSUME NEW call \in Calls, Read(call) PROVE BInv'
    BY <2>2, ReadStep
  <2>3. CASE LoadNext
    BY <2>3, LoadNextStep
  <2>4. CASE UNCHANGED vars
    BY <2>4, IdleStep
  <2> QED BY <2>1, <2>2, <2>3, <2>4 DEF Next
<1> QED BY InitInv, <1>1, PTL DEF Spec

-----------------------------------------------------------------------------
(***************************************************************************)
(* What it says to those who call                                          *)
(***************************************************************************)

\* What has been loaded is a message of the book.
LEMMA LoadedFacts ==
  ASSUME BInv, NEW i \in 1..Len(results)
  PROVE  /\ results[i].loc \in Locations
         /\ results[i].pos \in 1..Len(mem[results[i].loc])
         /\ results[i].pos \in Nat \ {0}
         /\ results[i].upd = mem[results[i].loc][results[i].pos].upd
         /\ mem[results[i].loc][results[i].pos].view \in Views
         /\ Within(mem, mem[results[i].loc][results[i].pos].view)
<1>1. Memory /\ Threads /\ Loaded
  BY DEF BInv
<1>2. results[i] \in Readings
  BY <1>1 DEF Threads
<1>3. results[i].loc \in Locations /\ results[i].pos \in Nat \ {0}
      /\ results[i].pos <= Len(mem[results[i].loc])
      /\ results[i].upd = mem[results[i].loc][results[i].pos].upd
  BY <1>1, <1>2 DEF Readings, Loaded
<1>4. Len(mem[results[i].loc]) \in Nat
  BY <1>1, <1>3, NotEmpty
<1>5. results[i].pos \in 1..Len(mem[results[i].loc])
  BY <1>3, <1>4
<1> QED BY <1>1, <1>3, <1>5, MessageFacts

\* A later load reflects what the message loaded before knows.
LEMMA KnownIsReflected ==
  ASSUME BInv, NEW i \in 1..Len(results), NEW j \in 1..Len(results), i < j, NEW u,
         Knows(mem, mem[results[i].loc][results[i].pos].view, u, results[j].loc)
  PROVE  Reflects(results[j], u)
<1> DEFINE v == mem[results[i].loc][results[i].pos].view
           x == results[j].loc
<1>1. x \in Locations /\ v \in Views /\ results[j].pos \in Nat \ {0}
  BY LoadedFacts
<1>2. v[x] <= results[j].pos /\ v[x] \in Nat
  BY <1>1 DEF BInv, Loaded, Views
<1>3. PICK p \in 1..v[x] : mem[x][p].upd = u
  BY DEF Knows
<1>4. p \in 1..results[j].pos
  <2> HIDE DEF v, x
  <2>1. \A a, b \in Nat : a <= b => 1..a \subseteq 1..b
    OBVIOUS
  <2> QED BY <1>1, <1>2, <2>1
<1> QED BY <1>3, <1>4 DEF Reflects

\* The types of the variables; no view is past a location's end, and the
\* sequence number is the number of updates counted.
LEMMA InvTypeOK == BInv => TypeOK
<1> SUFFICES ASSUME BInv PROVE TypeOK
  OBVIOUS
<1>1. Memory /\ Threads /\ Origins /\ Counting
  BY DEF BInv
<1>2. Len(counted) <= Len(targets) /\ Len(counted) \in Nat /\ Len(targets) \in Nat
  <2>1. counted \in Seq(Updates) /\ Len(targets) \in Nat /\ Len(counted) \in Nat
    BY <1>1 DEF Counting, Threads
  <2>2. counted \in Injection(1..Len(counted), 1..Len(targets))
    <3>1. counted \in [1..Len(counted) -> 1..Len(targets)]
      BY <2>1 DEF Updates
    <3>2. \A k, n \in 1..Len(counted) : counted[k] = counted[n] => k = n
      BY <1>1 DEF Counting
    <3>3. DOMAIN counted = 1..Len(counted)
      BY <2>1
    <3> QED BY <3>1, <3>2, <3>3 DEF Injection, IsInjective
  <2>3. /\ IsFiniteSet(1..Len(targets)) /\ Cardinality(1..Len(targets)) = Len(targets)
        /\ Cardinality(1..Len(counted)) = Len(counted)
    <3>1. ASSUME NEW n \in Nat PROVE IsFiniteSet(1..n) /\ Cardinality(1..n) = n
      <4>1. Cardinality(1..n) = IF 1 > n THEN 0 ELSE n - 1 + 1
        BY FS_Interval
      <4>2. (IF 1 > n THEN 0 ELSE n - 1 + 1) = n
        OBVIOUS
      <4> QED BY <4>1, <4>2, FS_Interval
    <3> QED BY <2>1, <3>1
  <2> QED BY <2>1, <2>2, <2>3, FS_Injection
<1>3. ASSUME NEW x \in Locations, NEW p \in 1..Len(mem[x])
      PROVE  mem[x][p].upd \in 0..MaxUpdates /\ mem[x][p].view \in Views
  <2>1. mem[x][p].view \in Views
    BY <1>1, MessageFacts
  <2>2. Len(targets) <= MaxUpdates /\ MaxUpdates \in Nat
    BY <1>1, BoundsAssumption DEF Threads
  <2>3. CASE x = SequenceNo
    <3>1. mem[x][p].upd = p - 1 /\ Len(mem[x]) = Len(counted) + 1
      BY <1>1, <2>3 DEF Counting
    <3> QED BY <1>2, <2>1, <2>2, <3>1
  <2>4. CASE x # SequenceNo
    <3>1. mem[x][p].upd = 0 \/ mem[x][p].upd \in Updates
      BY <1>1, <2>4 DEF Origins, Origin
    <3>2. mem[x][p].upd \in 0..MaxUpdates
      BY <3>1, <1>2, <2>2 DEF Updates
    <3> QED BY <2>1, <3>2
  <2> QED BY <2>3, <2>4
<1>4. Latest(SequenceNo).upd = Len(counted)
  <2>1. Len(mem[SequenceNo]) = Len(counted) + 1
    BY <1>1 DEF Counting
  <2>2. Len(mem[SequenceNo]) \in 1..Len(mem[SequenceNo])
    BY <1>2, <2>1
  <2>3. mem[SequenceNo][Len(mem[SequenceNo])].upd = Len(mem[SequenceNo]) - 1
    BY <1>1, <2>2 DEF Counting
  <2> QED BY <1>2, <2>1, <2>3 DEF Latest
<1>5. /\ wview \in [Writers -> Views] /\ rview \in Views /\ reads \in 0..MaxReads
      /\ \A x \in Locations : rview[x] <= Len(mem[x])
      /\ \A w \in Writers, x \in Locations : wview[w][x] <= Len(mem[x])
      /\ Len(targets) <= MaxUpdates
  BY <1>1 DEF Threads, Within
<1> QED BY <1>2, <1>3, <1>4, <1>5 DEF TypeOK

LEMMA InvTornByOneUpdate == BInv => TornByOneUpdate
<1> SUFFICES ASSUME BInv, NEW i \in 1..(Len(results) - 1),
                    results[i].loc \in Prices, SoleWriter(results[i].loc[2])
             PROVE  results[i + 1].pos + 1 >= results[i].pos
  BY DEF TornByOneUpdate
<1>1. PICK s \in Sides, l \in BookLevels : results[i].loc = Price(s, l)
  BY DEF Prices
<1>2. results[i].loc[2] = s /\ SizeOf(Price(s, l)) = Size(s, l)
      /\ Price(s, l) \in Locations /\ Size(s, l) \in Locations
  BY <1>1, LocationFacts
<1>3. Alternating(s, l)
  BY <1>2 DEF BInv, Alternation
<1>4. Len(results) \in Nat
  BY DEF BInv, Threads
<1>5. i \in 1..Len(results) /\ i + 1 \in 1..Len(results) /\ i < i + 1 /\ i < Len(results)
  BY <1>4
<1>6. results[i + 1].loc = Size(s, l)
  BY <1>1, <1>2, <1>5 DEF BInv, Pairing
<1> DEFINE v == mem[results[i].loc][results[i].pos].view
<1>7. /\ results[i].pos \in 1..Len(mem[Price(s, l)]) /\ results[i].pos \in Nat
      /\ results[i + 1].pos \in Nat /\ v \in Views
  BY <1>1, <1>5, LoadedFacts
<1>8. v[Size(s, l)] <= results[i + 1].pos /\ v[Size(s, l)] \in Nat
  BY <1>2, <1>5, <1>6, <1>7 DEF BInv, Loaded, Views
<1>9. results[i].pos <= v[Size(s, l)] + 1
  BY <1>1, <1>3, <1>7 DEF Alternating
<1>10. \A a, b, c \in Nat : c <= b /\ a <= c + 1 => b + 1 >= a
  OBVIOUS
<1> HIDE DEF v
<1> QED BY <1>7, <1>8, <1>9, <1>10

LEMMA InvSequenceCovers == BInv => SequenceCovers
<1> SUFFICES ASSUME BInv, NEW i \in 1..Len(results), NEW j \in 1..Len(results),
                    i < j, results[i].loc = SequenceNo, NEW k \in 1..results[i].upd,
                    Stored(counted[k], results[j].loc)
             PROVE  Reflects(results[j], counted[k])
  BY DEF SequenceCovers
<1> DEFINE p == results[i].pos
           v == mem[SequenceNo][p].view
<1>1. p \in 1..Len(mem[SequenceNo]) /\ results[i].upd = mem[SequenceNo][p].upd
  BY LoadedFacts
<1>2. results[i].upd = p - 1 /\ KnowsPrice(mem, v, counted[k]) /\ KnowsSize(mem, v, counted[k])
  BY <1>1 DEF BInv, Counting
<1>3. Knows(mem, v, counted[k], results[j].loc)
  BY <1>2 DEF KnowsPrice, KnowsSize, Stored
<1> QED BY <1>3, KnownIsReflected

LEMMA InvSequenceCountsEarlier == BInv => SequenceCountsEarlier
<1> SUFFICES ASSUME BInv, NEW i \in 1..Len(results), NEW j \in 1..Len(results),
                    i < j, results[j].loc = SequenceNo, results[i].loc # SequenceNo,
                    NEW v \in 1..(results[i].upd - 1),
                    targets[v].writer = targets[results[i].upd].writer
             PROVE  \E k \in 1..results[j].upd : counted[k] = v
  BY DEF SequenceCountsEarlier
<1> DEFINE x == results[i].loc
           p == results[i].pos
           m == mem[x][p]
           q == results[j].pos
<1>1. /\ x \in Locations /\ p \in 1..Len(mem[x]) /\ results[i].upd = m.upd /\ m.view \in Views
      /\ q \in 1..Len(mem[SequenceNo]) /\ results[j].upd = mem[SequenceNo][q].upd
  BY LoadedFacts
<1>2. p \in 2..Len(mem[x])
  <2>1. p # 1
    <3> SUFFICES ASSUME p = 1 PROVE FALSE
      OBVIOUS
    <3>1. m.upd = 0
      BY <1>1 DEF BInv, Origins
    <3> QED BY <1>1, <3>1
  <2> QED BY <1>1, <2>1
<1>3. KnowsCounted(counted, m.view, v)
  BY <1>1, <1>2 DEF BInv, Finished
<1>4. PICK k \in 1..(m.view[SequenceNo] - 1) : counted[k] = v
  BY <1>3 DEF KnowsCounted
<1>5. m.view[SequenceNo] <= q /\ m.view[SequenceNo] \in Nat
  BY <1>1, LocationFacts DEF BInv, Loaded, Views
<1>6. results[j].upd = q - 1
  BY <1>1 DEF BInv, Counting
<1>7. k \in 1..results[j].upd
  BY <1>1, <1>5, <1>6
<1> QED BY <1>4, <1>7

LEMMA InvTimestampCovers == BInv => TimestampCovers
<1> SUFFICES ASSUME BInv, NEW i \in 1..Len(results), NEW j \in 1..Len(results),
                    i < j, results[i].loc = LastUpdate, results[i].upd # 0,
                    Stored(results[i].upd, results[j].loc)
             PROVE  Reflects(results[j], results[i].upd)
  BY DEF TimestampCovers
<1> DEFINE p == results[i].pos
           m == mem[LastUpdate][p]
<1>1. /\ p \in 1..Len(mem[LastUpdate]) /\ results[i].upd = m.upd
      /\ LastUpdate \in Locations \ {SequenceNo}
  BY LoadedFacts, LocationFacts
<1>2. p # 1
  BY <1>1 DEF BInv, Origins
<1>3. p \in 2..Len(mem[LastUpdate])
  BY <1>1, <1>2
<1>4. KnowsPrice(mem, m.view, m.upd) /\ KnowsSize(mem, m.view, m.upd)
  BY <1>3 DEF BInv, Stamps
<1>5. Knows(mem, m.view, m.upd, results[j].loc)
  BY <1>1, <1>4 DEF KnowsPrice, KnowsSize, Stored
<1> QED BY <1>1, <1>5, KnownIsReflected

LEMMA InvBookAtRestIsWhole == BInv => BookAtRestIsWhole
<1> SUFFICES ASSUME BInv, \A w \in Writers : wtodo[w] = << >>,
                    NEW s \in Sides, NEW l \in BookLevels, SoleWriter(s)
             PROVE  Latest(Price(s, l)).upd = Latest(Size(s, l)).upd
  BY DEF BookAtRestIsWhole
<1>1. Alternating(s, l)
  BY DEF BInv, Alternation
<1>2. Len(mem[Price(s, l)]) = Len(mem[Size(s, l)])
  BY <1>1 DEF Alternating
<1>3. Len(mem[Size(s, l)]) \in Nat \ {0}
  BY LocationFacts, NotEmpty DEF BInv
<1>4. Len(mem[Size(s, l)]) \in 1..Len(mem[Size(s, l)])
  BY <1>3
<1>5. mem[Size(s, l)][Len(mem[Size(s, l)])].upd = mem[Price(s, l)][Len(mem[Size(s, l)])].upd
  BY <1>1, <1>4 DEF Alternating
<1> QED BY <1>2, <1>5 DEF Latest

\* Every reachable state of the book is typed: no view of a thread or of a
\* message points past the end of a location, and the sequence number counts
\* every update exactly once.
THEOREM BookTypeOK == Spec => []TypeOK
BY Invariance, InvTypeOK, PTL

\* best_bid, best_ask and what calls them: on a side with a single writer the
\* size is never more than one update behind the price.
THEOREM BookTornByOneUpdate == Spec => []TornByOneUpdate
BY Invariance, InvTornByOneUpdate, PTL

\* A reader that gets n from sequence() sees the price and the size of each of
\* the n updates counted, whoever made them.
THEOREM BookSequenceCovers == Spec => []SequenceCovers
BY Invariance, InvSequenceCovers, PTL

\* sequence() read after a quote counts every update of the quote's writer
\* but the one that may be under way.
THEOREM BookSequenceCountsEarlier == Spec => []SequenceCountsEarlier
BY Invariance, InvSequenceCountsEarlier, PTL

\* last_update_ns() never runs ahead of the price and the size it is for.
THEOREM BookTimestampCovers == Spec => []TimestampCovers
BY Invariance, InvTimestampCovers, PTL

\* With no update under way, price and size of every level of a side with a
\* single writer are from the same update.
THEOREM BookBookAtRestIsWhole == Spec => []BookAtRestIsWhole
BY Invariance, InvBookAtRestIsWhole, PTL
=============================================================================
