--------------------------- MODULE TickPathProofs ---------------------------
(***************************************************************************)
(* For any number of threads in on_tick and get_hedge_recommendation: what *)
(* an observation or a recommendation is made of is no older than what the *)
(* caller may rely on, and every tick is counted once.                     *)
(***************************************************************************)
EXTENDS TickPath, FiniteSetTheorems, SequenceTheorems, TLAPS

Words == {"update", "add", "record", "spot", "futures", "book", "price", "observation",
          "latency", "bid", "ask"}
AllSteps == Words \X Words
Observations == [made_of : [QuoteNames -> Nat], of : Symbols \X Sides,
                 stored : Nat, earlier : Nat]
In(step, s) == \E i \in 1..Len(s) : s[i] = step

PathTypes ==
  /\ quotes \in [QuoteNames -> Nat]
  /\ observations \in Seq(Observations)
  /\ todo \in [Workers -> Seq(AllSteps)]
  /\ target \in [Workers -> Symbols \X Sides]
  /\ loaded \in [Workers -> [QuoteNames -> Nat]]
  /\ stored \in [Feeds -> Nat]
  /\ earlier \in [Feeds -> Nat]
  /\ begun \in [Hedgers -> [QuoteNames -> Nat]]

\* Nothing that was read is newer than the quote, and no call began later.
OlderInv ==
  /\ \A w \in Workers, q \in QuoteNames : loaded[w][q] <= quotes[q]
  /\ \A n \in 1..Len(observations), q \in QuoteNames : observations[n].made_of[q] <= quotes[q]
  /\ \A h \in Hedgers, q \in QuoteNames : begun[h][q] <= quotes[q]
  /\ \A f \in Feeds : earlier[f] <= Len(observations)

\* What may be left of on_tick: the update comes first and before all loads,
\* the loads before the observation, the metrics last.
Ordered(s) ==
  /\ \A i \in 1..Len(s) : s[i] = Update => i = 1
  /\ \A i \in 1..Len(s) : s[i] = Record => i = Len(s)
  /\ \A i \in 1..Len(s) : s[i] = AddObservation => \A j \in i..Len(s) : s[j] \notin QuoteNames
  /\ In(Update, s) /\ In(AddObservation, s) => \A q \in QuoteNames : In(q, s)

\* Nothing is added twice in one call.
Once(s) ==
  \A i, j \in 1..Len(s) : s[i] = s[j] /\ s[i] \in {AddPrice, AddObservation} => i = j

StepsOf(f) ==
  /\ Ordered(todo[f])
  /\ In(Update, todo[f]) \/ In(AddObservation, todo[f]) => target[f] \in QuoteNames

\* The load of q is recent enough for the observation to come.
Fresh(f, q) ==
  /\ \A i \in 1..earlier[f] : observations[i].made_of[q] <= loaded[f][q]
  /\ q = target[f] => stored[f] <= loaded[f][q]

FreshOf(f) ==
  In(AddObservation, todo[f]) =>
    /\ In(Update, todo[f]) \/ stored[f] <= quotes[target[f]]
    /\ \A q \in QuoteNames : In(q, todo[f]) \/ Fresh(f, q)

\* Either the price is the next thing to load, or it has been.
PricedOf(h) ==
  target[h][1] = "futures" =>
    \/ todo[h] # << >> /\ Head(todo[h]) = target[h]
    \/ loaded[h][target[h]] >= begun[h][target[h]]

StepsInv == \A f \in Feeds : StepsOf(f)
FreshInv == \A f \in Feeds : FreshOf(f)
PricedInv == \A h \in Hedgers : PricedOf(h)

PathInv == /\ PathTypes /\ OlderInv /\ StepsInv /\ FreshInv /\ PricedInv
           /\ ObservationsFollowTheTicks

-----------------------------------------------------------------------------
\* The kinds of steps are different.
LEMMA Different ==
  /\ Update \in AllSteps /\ AddPrice \in AllSteps /\ AddObservation \in AllSteps
  /\ Record \in AllSteps /\ QuoteNames \subseteq AllSteps
  /\ Update \notin QuoteNames /\ AddPrice \notin QuoteNames
  /\ AddObservation \notin QuoteNames /\ Record \notin QuoteNames
  /\ Update # AddPrice /\ Update # AddObservation /\ Update # Record
  /\ AddPrice # AddObservation /\ AddPrice # Record /\ AddObservation # Record
  /\ QuoteNames \subseteq Symbols \X Sides
<1> USE DEF Update, AddPrice, AddObservation, Record
<1>1. /\ Update \in AllSteps /\ AddPrice \in AllSteps /\ AddObservation \in AllSteps
      /\ Record \in AllSteps
  BY DEF AllSteps, Words
<1>2. QuoteNames \subseteq AllSteps
  BY DEF AllSteps, Words, QuoteNames, Sides
<1>3. QuoteNames \subseteq Symbols \X Sides
  BY DEF QuoteNames, Symbols
<1>4. \A q \in QuoteNames : q[1] \in {"spot", "futures"}
  BY DEF QuoteNames
<1>5. /\ Update[1] = "update" /\ AddPrice[1] = "add" /\ AddObservation[1] = "add"
      /\ Record[1] = "record"
      /\ AddPrice[2] = "price" /\ AddObservation[2] = "observation"
  OBVIOUS
<1> HIDE DEF Update, AddPrice, AddObservation, Record
<1>6. /\ Update \notin QuoteNames /\ AddPrice \notin QuoteNames
      /\ AddObservation \notin QuoteNames /\ Record \notin QuoteNames
  BY <1>4, <1>5
<1>7. /\ Update # AddPrice /\ Update # AddObservation /\ Update # Record
      /\ AddPrice # AddObservation /\ AddPrice # Record /\ AddObservation # Record
  BY <1>5
<1>8. QED
  BY <1>1, <1>2, <1>3, <1>6, <1>7

\* What a step leaves to do.
LEMMA TailIn ==
  ASSUME NEW s \in Seq(AllSteps), s # << >>
  PROVE  /\ Tail(s) \in Seq(AllSteps)
         /\ \A x : In(x, s) <=> x = Head(s) \/ In(x, Tail(s))
<1>1. /\ Tail(s) \in Seq(AllSteps) /\ Len(s) \in Nat \ {0} /\ Len(Tail(s)) = Len(s) - 1
      /\ \A i \in 1..Len(Tail(s)) : Tail(s)[i] = s[i + 1]
      /\ Head(s) = s[1]
  OBVIOUS
<1>2. ASSUME NEW x, In(x, s) PROVE x = Head(s) \/ In(x, Tail(s))
  <2>1. PICK i \in 1..Len(s) : s[i] = x
    BY <1>2 DEF In
  <2>2. CASE i = 1
    BY <1>1, <2>1, <2>2
  <2>3. CASE i # 1
    <3>1. i - 1 \in 1..Len(Tail(s)) /\ (i - 1) + 1 = i
      BY <1>1, <2>1, <2>3
    <3>2. Tail(s)[i - 1] = x
      BY <1>1, <2>1, <3>1
    <3>3. QED
      BY <3>1, <3>2 DEF In
  <2>4. QED
    BY <2>2, <2>3
<1>3. ASSUME NEW x, x = Head(s) \/ In(x, Tail(s)) PROVE In(x, s)
  <2>1. CASE x = Head(s)
    BY <1>1, <2>1 DEF In
  <2>2. CASE In(x, Tail(s))
    <3>1. PICK i \in 1..Len(Tail(s)) : Tail(s)[i] = x
      BY <2>2 DEF In
    <3>2. i + 1 \in 1..Len(s) /\ s[i + 1] = x
      BY <1>1, <3>1
    <3>3. QED
      BY <3>2 DEF In
  <2>3. QED
    BY <1>3, <2>1, <2>2
<1>4. QED
  BY <1>1, <1>2, <1>3

LEMMA TailOrdered ==
  ASSUME NEW s \in Seq(AllSteps), s # << >>, Ordered(s)
  PROVE  /\ Ordered(Tail(s)) /\ ~In(Update, Tail(s))
         /\ Head(s) = AddObservation => \A q \in QuoteNames : ~In(q, s)
         /\ Head(s) = Record => Tail(s) = << >>
<1> DEFINE rest == Tail(s)
<1>1. /\ rest \in Seq(AllSteps) /\ Len(s) \in Nat \ {0} /\ Len(rest) = Len(s) - 1
      /\ \A i \in 1..Len(rest) : rest[i] = s[i + 1] /\ i + 1 \in 1..Len(s)
      /\ Head(s) = s[1] /\ 1 \in 1..Len(s)
  OBVIOUS
<1> HIDE DEF rest
<1>2. ~In(Update, rest)
  <2>1. ASSUME NEW i \in 1..Len(rest), rest[i] = Update PROVE FALSE
    <3>1. s[i + 1] = Update /\ i + 1 \in 1..Len(s) /\ i + 1 # 1
      BY <1>1, <2>1
    <3>2. QED
      BY <3>1 DEF Ordered
  <2>2. QED
    BY <2>1 DEF In
<1>3. ASSUME NEW i \in 1..Len(rest), rest[i] = Record PROVE i = Len(rest)
  <2>1. s[i + 1] = Record /\ i + 1 \in 1..Len(s)
    BY <1>1, <1>3
  <2>2. i + 1 = Len(s)
    BY <2>1 DEF Ordered
  <2>3. QED
    BY <1>1, <2>2
<1>4. ASSUME NEW i \in 1..Len(rest), rest[i] = AddObservation, NEW j \in i..Len(rest)
      PROVE  rest[j] \notin QuoteNames
  <2>1. j \in 1..Len(rest) /\ j + 1 \in (i + 1)..Len(s)
    BY <1>1, <1>4
  <2>2. s[i + 1] = AddObservation /\ i + 1 \in 1..Len(s)
    BY <1>1, <1>4
  <2>3. s[j + 1] \notin QuoteNames
    BY <2>1, <2>2 DEF Ordered
  <2>4. QED
    BY <1>1, <2>1, <2>3
<1>5. Ordered(rest)
  BY <1>2, <1>3, <1>4 DEF Ordered, In
<1>6. ASSUME Head(s) = AddObservation, NEW q \in QuoteNames, NEW j \in 1..Len(s)
      PROVE  s[j] # q
  BY <1>1, <1>6 DEF Ordered
<1>7. Head(s) = Record => rest = << >>
  <2>1. Head(s) = Record => Len(rest) = 0
    BY <1>1 DEF Ordered
  <2>2. QED
    BY <1>1, <2>1
<1>8. QED
  BY <1>2, <1>5, <1>6, <1>7 DEF rest, In

-----------------------------------------------------------------------------
\* What a call has to do at its beginning.
\* A call is its first and its last step with something in between.
Around(middle) == (<<Update>> \o middle) \o <<Record>>

LEMMA Wrapped ==
  ASSUME NEW m \in Seq(AllSteps)
  PROVE  /\ Around(m) \in Seq(AllSteps) /\ Len(Around(m)) = Len(m) + 2
         /\ Around(m)[1] = Update /\ Around(m)[Len(m) + 2] = Record
         /\ \A i \in 1..Len(m) : Around(m)[i + 1] = m[i]
<1> DEFINE u == <<Update>> \o m
<1>1. Update \in AllSteps /\ Record \in AllSteps /\ Len(m) \in Nat
  BY Different
<1>2. /\ u \in Seq(AllSteps) /\ Len(u) = Len(m) + 1 /\ u[1] = Update
      /\ \A i \in 1..Len(m) : u[i + 1] = m[i]
  BY <1>1
<1> HIDE DEF u
<1>3. /\ u \o <<Record>> \in Seq(AllSteps) /\ Len(u \o <<Record>>) = Len(u) + 1
      /\ (u \o <<Record>>)[Len(u) + 1] = Record
      /\ \A i \in 1..Len(u) : (u \o <<Record>>)[i] = u[i]
  BY <1>1, <1>2
<1>4. QED
  BY <1>1, <1>2, <1>3 DEF Around, u

LEMMA UpdateOnly ==
  ASSUME NEW s \in Seq(AllSteps), s = Around(<< >>)
  PROVE  /\ Ordered(s) /\ Once(s)
         /\ In(Update, s) /\ In(Record, s) /\ ~In(AddPrice, s) /\ ~In(AddObservation, s)
<1>1. Len(s) = 2 /\ s[1] = Update /\ s[2] = Record /\ 1..2 = {1, 2}
  <2>a. << >> \in Seq(AllSteps) /\ Len(<< >>) = 0
    OBVIOUS
  <2>1. PICK m \in Seq(AllSteps) : m = << >> /\ Len(m) = 0
    BY <2>a
  <2>2. Len(s) = Len(m) + 2 /\ s[1] = Update /\ s[Len(m) + 2] = Record
    BY <2>1, Wrapped
  <2>3. QED
    BY <2>1, <2>2
<1>2. \A i \in 1..Len(s) : (s[i] = Update => i = 1) /\ (s[i] = Record => i = Len(s))
  BY <1>1, Different
<1>3. ~In(AddObservation, s) /\ ~In(AddPrice, s) /\ In(Update, s) /\ In(Record, s)
  BY <1>1, Different DEF In
<1>4. Once(s)
  BY <1>1, Different DEF Once
<1>5. QED
  BY <1>2, <1>3, <1>4 DEF Ordered, In

LEMMA SpotCall ==
  /\ OnTick("spot") \in Seq(AllSteps) /\ Ordered(OnTick("spot")) /\ Once(OnTick("spot"))
  /\ In(Update, OnTick("spot")) /\ In(Record, OnTick("spot"))
  /\ In(AddPrice, OnTick("spot")) <=> enable_mean_reversion
  /\ ~In(AddObservation, OnTick("spot"))
<1> DEFINE s == OnTick("spot")
           middle == If(enable_mean_reversion, <<AddPrice>>)
<1>1. s = Around(middle)
  BY DEF OnTick, SpotSteps, Around
<1> HIDE DEF s, middle
<1>2. CASE enable_mean_reversion
  <2>1. /\ middle \in Seq(AllSteps) /\ Len(middle) = 1
        /\ middle[1] = AddPrice
    BY <1>2, Different DEF If, middle
  <2>2. /\ s \in Seq(AllSteps) /\ Len(s) = Len(middle) + 2
        /\ s[1] = Update /\ s[Len(middle) + 2] = Record
        /\ \A i \in 1..Len(middle) : s[i + 1] = middle[i]
    BY <1>1, <2>1, Wrapped
  <2>3. Len(s) = 3 /\ 1..3 = {1, 2, 3} /\ s[2] = AddPrice /\ s[3] = Record
    BY <2>1, <2>2
  <2>4. \A i \in 1..Len(s) : (s[i] = Update => i = 1) /\ (s[i] = Record => i = Len(s))
    BY <2>2, <2>3, Different
  <2>5. /\ In(Update, s) /\ In(Record, s) /\ In(AddPrice, s)
        /\ ~In(AddObservation, s)
    BY <2>2, <2>3, Different DEF In
  <2>6. Ordered(s)
    BY <2>4, <2>5 DEF Ordered, In
  <2>7. \A i \in 1..Len(s) : s[i] \in {AddPrice, AddObservation} => i = 2
    BY <2>2, <2>3, Different
  <2>8. Once(s)
    BY <2>7 DEF Once
  <2>9. QED
    BY <1>2, <2>2, <2>5, <2>6, <2>8 DEF s
<1>3. CASE ~enable_mean_reversion
  <2>1. middle = << >> /\ middle \in Seq(AllSteps)
    BY <1>3 DEF If, middle
  <2>2. s \in Seq(AllSteps)
    BY <1>1, <2>1, Wrapped
  <2>3. QED
    BY <1>1, <1>3, <2>1, <2>2, UpdateOnly DEF s
<1>4. QED
  BY <1>2, <1>3

LEMMA FuturesCall ==
  /\ OnTick("futures") \in Seq(AllSteps) /\ Ordered(OnTick("futures"))
  /\ Once(OnTick("futures"))
  /\ In(Update, OnTick("futures")) /\ In(Record, OnTick("futures"))
  /\ In(AddObservation, OnTick("futures")) <=> enable_mvhr
  /\ ~In(AddPrice, OnTick("futures"))
<1> DEFINE sb == <<"spot", "bid">>
           sa == <<"spot", "ask">>
           fb == <<"futures", "bid">>
           fa == <<"futures", "ask">>
           loads == Mid("spot") \o Mid("futures")
           s == OnTick("futures")
           middle == If(enable_mvhr, loads \o <<AddObservation>>)
<1>1. QuoteNames = {sb, sa, fb, fa} /\ QuoteNames \subseteq AllSteps
  BY Different DEF QuoteNames, Sides
<1>2. loads = <<sb, sa>> \o <<fb, fa>>
  BY DEF Mid
<1>3. s = Around(middle)
  BY DEF OnTick, FuturesSteps, Around
<1> HIDE DEF sb, sa, fb, fa, s, loads, middle
<1>4. /\ loads \in Seq(AllSteps) /\ Len(loads) = 4
      /\ loads[1] = sb /\ loads[2] = sa /\ loads[3] = fb /\ loads[4] = fa
  <2>1. sb \in AllSteps /\ sa \in AllSteps /\ fb \in AllSteps /\ fa \in AllSteps
    BY <1>1
  <2>2. QED
    BY <1>2, <2>1
<1>5. CASE enable_mvhr
  <2>1. middle = loads \o <<AddObservation>> /\ AddObservation \in AllSteps
    BY <1>5, Different DEF If, middle
  <2>a. /\ loads \o <<AddObservation>> \in Seq(AllSteps)
        /\ Len(loads \o <<AddObservation>>) = Len(loads) + 1
        /\ (loads \o <<AddObservation>>)[Len(loads) + 1] = AddObservation
        /\ \A i \in 1..Len(loads) : (loads \o <<AddObservation>>)[i] = loads[i]
    BY <1>4, <2>1, SMTT(30)
  <2>2. /\ middle \in Seq(AllSteps) /\ Len(middle) = 5
        /\ \A i \in 1..4 : middle[i] = loads[i]
        /\ middle[5] = AddObservation
    BY <1>4, <2>1, <2>a
  <2>3. /\ s \in Seq(AllSteps) /\ Len(s) = Len(middle) + 2
        /\ s[1] = Update /\ s[Len(middle) + 2] = Record
        /\ \A i \in 1..Len(middle) : s[i + 1] = middle[i]
    BY <1>3, <2>2, Wrapped
  <2>4. /\ Len(s) = 7 /\ s[7] = Record
        /\ s[2] = sb /\ s[3] = sa /\ s[4] = fb /\ s[5] = fa /\ s[6] = AddObservation
    BY <1>4, <2>2, <2>3
  <2>5. 1..7 = {1, 2, 3, 4, 5, 6, 7}
    OBVIOUS
  <2>6. \A i \in 1..Len(s) : (s[i] = Update => i = 1) /\ (s[i] = Record => i = Len(s))
    BY <2>3, <2>4, <2>5, <1>1, Different
  <2>7. \A i \in 1..Len(s) : s[i] = AddObservation => i = 6
    BY <2>3, <2>4, <2>5, <1>1, Different
  <2>8. \A j \in 6..Len(s) : s[j] \notin QuoteNames
    BY <2>4, Different
  <2>9. \A q \in QuoteNames : In(q, s)
    BY <2>4, <2>5, <1>1 DEF In
  <2>10. Ordered(s)
    BY <2>6, <2>7, <2>8, <2>9 DEF Ordered
  <2>11. In(Update, s) /\ In(Record, s) /\ In(AddObservation, s)
    BY <2>3, <2>4, <2>5 DEF In
  <2>12. \A i \in 1..Len(s) : s[i] # AddPrice
    BY <2>3, <2>4, <2>5, <1>1, Different
  <2>13. Once(s) /\ ~In(AddPrice, s)
    BY <2>7, <2>12 DEF Once, In
  <2>14. QED
    BY <1>5, <2>3, <2>10, <2>11, <2>13 DEF s
<1>6. CASE ~enable_mvhr
  <2>1. middle = << >> /\ middle \in Seq(AllSteps)
    BY <1>6 DEF If, middle
  <2>2. s \in Seq(AllSteps)
    BY <1>3, <2>1, Wrapped
  <2>3. /\ Ordered(s) /\ Once(s)
        /\ In(Update, s) /\ In(Record, s) /\ ~In(AddPrice, s) /\ ~In(AddObservation, s)
    BY <1>3, <2>1, <2>2, UpdateOnly
  <2>4. QED
    BY <1>6, <2>2, <2>3 DEF s
<1>7. QED
  BY <1>5, <1>6

LEMMA TickCall ==
  ASSUME NEW symbol \in Symbols
  PROVE  /\ OnTick(symbol) \in Seq(AllSteps) /\ Ordered(OnTick(symbol)) /\ Once(OnTick(symbol))
         /\ In(Record, OnTick(symbol))
         /\ In(Update, OnTick(symbol)) <=> symbol \in {"spot", "futures"}
         /\ In(AddPrice, OnTick(symbol)) <=> symbol = "spot" /\ enable_mean_reversion
         /\ In(AddObservation, OnTick(symbol)) <=> symbol = "futures" /\ enable_mvhr
         /\ In(AddObservation, OnTick(symbol)) => In(Update, OnTick(symbol))
         /\ symbol = "other" => ~In(Update, OnTick(symbol))
<1>1. CASE symbol = "other"
  <2>1. OnTick(symbol) = <<Record>>
    BY <1>1 DEF OnTick
  <2>2. PICK s : s = OnTick(symbol)
    OBVIOUS
  <2>3. s \in Seq(AllSteps) /\ Len(s) = 1 /\ \A i \in 1..Len(s) : s[i] = Record /\ i = 1
    BY <2>1, <2>2, Different
  <2>4. Ordered(s) /\ Once(s)
    BY <2>3, Different DEF Ordered, Once, In
  <2>5. /\ In(Record, s) /\ ~In(Update, s) /\ ~In(AddPrice, s) /\ ~In(AddObservation, s)
    BY <2>3, Different DEF In
  <2>6. QED
    BY <1>1, <2>2, <2>3, <2>4, <2>5
<1>2. CASE symbol = "spot"
  BY <1>2, SpotCall
<1>3. CASE symbol = "futures"
  BY <1>3, FuturesCall
<1>4. QED
  BY <1>1, <1>2, <1>3 DEF Symbols

LEMMA HedgeCall ==
  ASSUME NEW side \in Sides
  PROVE  /\ HedgeSteps(side) \in Seq(AllSteps) /\ HedgeSteps(side) # << >>
         /\ Head(HedgeSteps(side)) = <<"futures", side>>
<1>1. PriceOf(side) = <<"futures", side>> /\ PriceOf(side) \in AllSteps
  BY DEF PriceOf, AllSteps, Words, Sides
<1>2. Mid("spot") \in Seq(AllSteps)
  BY DEF Mid, AllSteps, Words
<1>3. If(enable_mean_reversion, Mid("spot")) \in Seq(AllSteps)
  BY <1>2 DEF If
<1>4. QED
  BY <1>1, <1>3 DEF HedgeSteps

-----------------------------------------------------------------------------
\* The thread that makes a step, and the others.
LEMMA DoingStep ==
  ASSUME PathTypes, NEW w \in Workers, NEW step, Doing(w, step)
  PROVE  /\ todo[w] \in Seq(AllSteps) /\ todo[w] # << >> /\ Head(todo[w]) = step
         /\ todo' \in [Workers -> Seq(AllSteps)] /\ todo'[w] = Tail(todo[w])
         /\ \A v \in Workers \ {w} : todo'[v] = todo[v]
         /\ \A x : In(x, todo[w]) <=> x = step \/ In(x, todo'[w])
<1>1. todo \in [Workers -> Seq(AllSteps)] /\ todo[w] \in Seq(AllSteps)
  BY DEF PathTypes
<1>2. todo[w] # << >> /\ Head(todo[w]) = step /\ todo' = [todo EXCEPT ![w] = Tail(todo[w])]
  BY DEF Doing
<1>3. Tail(todo[w]) \in Seq(AllSteps) /\ \A x : In(x, todo[w]) <=> x = step \/ In(x, Tail(todo[w]))
  BY <1>1, <1>2, TailIn
<1>4. todo'[w] = Tail(todo[w]) /\ \A v \in Workers \ {w} : todo'[v] = todo[v]
  BY <1>1, <1>2
<1>5. QED
  BY <1>1, <1>2, <1>3, <1>4

\* Whoever is about to observe has nothing to load any more.
LEMMA FeedDoing ==
  ASSUME PathTypes, StepsInv, NEW f \in Feeds, NEW step, Doing(f, step)
  PROVE  /\ Ordered(todo'[f]) /\ ~In(Update, todo'[f])
         /\ step = AddObservation => \A q \in QuoteNames : ~In(q, todo[f])
         /\ step = Record => \A x : ~In(x, todo'[f])
         /\ step = Update \/ step = AddObservation => target[f] \in QuoteNames
<1>1. f \in Workers
  BY DEF Workers
<1>2. /\ todo[f] \in Seq(AllSteps) /\ todo[f] # << >> /\ Head(todo[f]) = step
      /\ todo'[f] = Tail(todo[f]) /\ In(step, todo[f])
  BY <1>1, DoingStep
<1>3. Ordered(todo[f])
  BY DEF StepsInv, StepsOf
<1>4. /\ Ordered(todo'[f]) /\ ~In(Update, todo'[f])
      /\ step = AddObservation => \A q \in QuoteNames : ~In(q, todo[f])
      /\ step = Record => todo'[f] = << >>
  BY <1>2, <1>3, TailOrdered
<1>5. todo'[f] = << >> => \A x : ~In(x, todo'[f])
  <2>1. Len(<< >>) = 0
    OBVIOUS
  <2>2. QED
    BY <2>1 DEF In
<1>6. QED
  BY <1>2, <1>4, <1>5 DEF StepsInv, StepsOf

LEMMA BeginStep ==
  ASSUME PathTypes, NEW w \in Workers, NEW steps \in Seq(AllSteps),
         NEW quote \in Symbols \X Sides, Begin(w, steps, quote)
  PROVE  /\ todo' \in [Workers -> Seq(AllSteps)] /\ todo'[w] = steps
         /\ \A v \in Workers \ {w} : todo'[v] = todo[v] /\ target'[v] = target[v]
                                    /\ loaded'[v] = loaded[v]
         /\ target' \in [Workers -> Symbols \X Sides] /\ target'[w] = quote
         /\ loaded' \in [Workers -> [QuoteNames -> Nat]]
         /\ \A q \in QuoteNames : loaded'[w][q] = 0
         /\ quotes' = quotes /\ observations' = observations /\ stored' = stored
<1>1. NoQuotes \in [QuoteNames -> Nat] /\ \A q \in QuoteNames : NoQuotes[q] = 0
  BY DEF NoQuotes
<1>2. loaded' = [loaded EXCEPT ![w] = NoQuotes]
  BY DEF Begin
<1>3. /\ loaded' \in [Workers -> [QuoteNames -> Nat]] /\ loaded'[w] = NoQuotes
      /\ \A v \in Workers \ {w} : loaded'[v] = loaded[v]
  BY <1>1, <1>2 DEF PathTypes
<1>4. /\ todo' \in [Workers -> Seq(AllSteps)] /\ todo'[w] = steps
      /\ \A v \in Workers \ {w} : todo'[v] = todo[v]
  BY DEF Begin, PathTypes
<1>5. /\ target' \in [Workers -> Symbols \X Sides] /\ target'[w] = quote
      /\ \A v \in Workers \ {w} : target'[v] = target[v]
  BY DEF Begin, PathTypes
<1>6. QED
  BY <1>1, <1>3, <1>4, <1>5 DEF Begin

\* A thread that somebody else's step leaves alone.
LEMMA FeedKept ==
  ASSUME NEW f \in Feeds, StepsOf(f), FreshOf(f),
         todo'[f] = todo[f], target'[f] = target[f], loaded'[f] = loaded[f],
         stored'[f] = stored[f], earlier'[f] = earlier[f],
         \A i \in 1..earlier[f] : observations'[i] = observations[i],
         quotes \in [QuoteNames -> Nat], quotes' \in [QuoteNames -> Nat], stored[f] \in Nat,
         \A q \in QuoteNames : quotes[q] <= quotes'[q]
  PROVE  StepsOf(f)' /\ FreshOf(f)'
<1>1. StepsOf(f)'
  BY DEF StepsOf, Ordered, In
<1>2. ASSUME NEW q \in QuoteNames, Fresh(f, q) PROVE Fresh(f, q)'
  BY <1>2 DEF Fresh
<1>3. ASSUME In(AddObservation, todo[f]), stored[f] <= quotes[target[f]]
      PROVE  stored'[f] <= quotes'[target'[f]]
  <2>1. target[f] \in QuoteNames
    BY <1>3 DEF StepsOf
  <2>2. stored[f] <= quotes[target[f]] /\ quotes[target[f]] <= quotes'[target[f]]
    BY <1>3, <2>1
  <2>3. quotes[target[f]] \in Nat /\ quotes'[target[f]] \in Nat
    BY <2>1
  <2>4. QED
    BY <2>2, <2>3
<1>4. \A x : In(x, todo[f])' <=> In(x, todo[f])
  BY DEF In
<1>5. QED
  BY <1>1, <1>2, <1>3, <1>4 DEF FreshOf

LEMMA HedgerKept ==
  ASSUME NEW h \in Hedgers, PricedOf(h), todo'[h] = todo[h], target'[h] = target[h],
         loaded'[h] = loaded[h], begun'[h] = begun[h]
  PROVE  PricedOf(h)'
BY DEF PricedOf

LEMMA BeginTickStep ==
  ASSUME PathInv, NEW f \in Feeds, NEW symbol \in Symbols, NEW side \in Sides,
         BeginTick(f, symbol, side)
  PROVE  PathInv'
<1> USE DEF PathInv
<1>1. /\ OnTick(symbol) \in Seq(AllSteps) /\ Ordered(OnTick(symbol))
      /\ In(AddObservation, OnTick(symbol)) => In(Update, OnTick(symbol))
      /\ symbol = "other" => ~In(Update, OnTick(symbol))
  BY TickCall
<1>2. f \in Workers /\ <<symbol, side>> \in Symbols \X Sides /\ Begin(f, OnTick(symbol), <<symbol, side>>)
  BY DEF BeginTick, Workers
<1>3. /\ todo' \in [Workers -> Seq(AllSteps)] /\ todo'[f] = OnTick(symbol)
      /\ \A v \in Workers \ {f} : todo'[v] = todo[v] /\ target'[v] = target[v]
                                 /\ loaded'[v] = loaded[v]
      /\ target' \in [Workers -> Symbols \X Sides] /\ target'[f] = <<symbol, side>>
      /\ loaded' \in [Workers -> [QuoteNames -> Nat]]
      /\ \A q \in QuoteNames : loaded'[f][q] = 0
      /\ quotes' = quotes /\ observations' = observations /\ stored' = stored
  BY <1>1, <1>2, BeginStep
<1>4. /\ earlier' = [earlier EXCEPT ![f] = Len(observations)] /\ begun' = begun
  BY DEF BeginTick
<1>5. PathTypes'
  BY <1>3, <1>4 DEF PathTypes
<1>6. OlderInv'
  <2>1. ASSUME NEW v \in Workers, NEW q \in QuoteNames PROVE loaded'[v][q] <= quotes'[q]
    <3>1. CASE v = f
      <4>1. loaded'[v][q] = 0 /\ quotes[q] \in Nat
        BY <1>3, <3>1 DEF PathTypes
      <4>2. QED
        BY <1>3, <4>1
    <3>2. CASE v # f
      BY <1>3, <3>2 DEF OlderInv
    <3>3. QED
      BY <3>1, <3>2
  <2>2. \A n \in 1..Len(observations'), q \in QuoteNames :
          observations'[n].made_of[q] <= quotes'[q]
    BY <1>3 DEF OlderInv
  <2>3. \A g \in Hedgers, q \in QuoteNames : begun'[g][q] <= quotes'[q]
    BY <1>3, <1>4 DEF PathTypes, OlderInv
  <2>4. \A g \in Feeds : earlier'[g] <= Len(observations')
    BY <1>3, <1>4 DEF PathTypes, OlderInv
  <2>5. QED
    BY <2>1, <2>2, <2>3, <2>4 DEF OlderInv
<1>7. StepsOf(f)' /\ FreshOf(f)'
  <2>1. symbol # "other" => <<symbol, side>> \in QuoteNames
    BY DEF QuoteNames, Symbols
  <2>2. QED
    BY <1>1, <1>3, <2>1 DEF StepsOf, FreshOf, Ordered
<1>8. ASSUME NEW g \in Feeds, g # f PROVE StepsOf(g)' /\ FreshOf(g)'
  <2>1. /\ g \in Workers \ {f} /\ StepsOf(g) /\ FreshOf(g)
        /\ quotes \in [QuoteNames -> Nat] /\ stored[g] \in Nat
    BY <1>8 DEF PathTypes, Workers, StepsInv, FreshInv
  <2>2. /\ todo'[g] = todo[g] /\ target'[g] = target[g] /\ loaded'[g] = loaded[g]
        /\ stored'[g] = stored[g] /\ earlier'[g] = earlier[g]
    BY <1>3, <1>4, <2>1 DEF PathTypes
  <2>3. /\ \A i \in 1..earlier[g] : observations'[i] = observations[i]
        /\ quotes' \in [QuoteNames -> Nat] /\ \A q \in QuoteNames : quotes[q] <= quotes'[q]
    BY <1>3, <2>1
  <2>4. QED
    BY <2>1, <2>2, <2>3, FeedKept
<1>9. ASSUME NEW h \in Hedgers PROVE PricedOf(h)'
  BY <1>3, <1>4, HedgerKept, TickPathAssumption DEF Workers, PricedInv
<1>10. ObservationsFollowTheTicks'
  BY <1>3 DEF ObservationsFollowTheTicks
<1>11. QED
  BY <1>5, <1>6, <1>7, <1>8, <1>9, <1>10 DEF StepsInv, FreshInv, PricedInv

LEMMA BeginHedgeStep ==
  ASSUME PathInv, NEW h \in Hedgers, NEW side \in Sides, BeginHedge(h, side)
  PROVE  PathInv'
<1> USE DEF PathInv
<1>1. /\ HedgeSteps(side) \in Seq(AllSteps) /\ HedgeSteps(side) # << >>
      /\ Head(HedgeSteps(side)) = <<"futures", side>>
  BY HedgeCall
<1>2. /\ h \in Workers /\ <<"futures", side>> \in Symbols \X Sides
      /\ Begin(h, HedgeSteps(side), <<"futures", side>>)
  BY DEF BeginHedge, Workers, Symbols
<1>3. /\ todo' \in [Workers -> Seq(AllSteps)] /\ todo'[h] = HedgeSteps(side)
      /\ \A v \in Workers \ {h} : todo'[v] = todo[v] /\ target'[v] = target[v]
                                 /\ loaded'[v] = loaded[v]
      /\ target' \in [Workers -> Symbols \X Sides] /\ target'[h] = <<"futures", side>>
      /\ loaded' \in [Workers -> [QuoteNames -> Nat]]
      /\ \A q \in QuoteNames : loaded'[h][q] = 0
      /\ quotes' = quotes /\ observations' = observations /\ stored' = stored
  BY <1>1, <1>2, BeginStep
<1>4. earlier' = earlier /\ begun' = [begun EXCEPT ![h] = quotes]
  BY DEF BeginHedge
<1>5. PathTypes'
  BY <1>3, <1>4 DEF PathTypes
<1>6. OlderInv'
  <2>1. ASSUME NEW v \in Workers, NEW q \in QuoteNames PROVE loaded'[v][q] <= quotes'[q]
    <3>1. CASE v = h
      <4>1. loaded'[v][q] = 0 /\ quotes[q] \in Nat
        BY <1>3, <3>1 DEF PathTypes
      <4>2. QED
        BY <1>3, <4>1
    <3>2. CASE v # h
      BY <1>3, <3>2 DEF OlderInv
    <3>3. QED
      BY <3>1, <3>2
  <2>2. \A n \in 1..Len(observations'), q \in QuoteNames :
          observations'[n].made_of[q] <= quotes'[q]
    BY <1>3 DEF OlderInv
  <2>3. \A g \in Hedgers, q \in QuoteNames : begun'[g][q] <= quotes'[q]
    BY <1>3, <1>4 DEF PathTypes, OlderInv
  <2>4. \A g \in Feeds : earlier'[g] <= Len(observations')
    BY <1>3, <1>4 DEF PathTypes, OlderInv
  <2>5. QED
    BY <2>1, <2>2, <2>3, <2>4 DEF OlderInv
<1>7. PricedOf(h)'
  BY <1>1, <1>3 DEF PricedOf
<1>8. ASSUME NEW g \in Feeds PROVE StepsOf(g)' /\ FreshOf(g)'
  <2>1. /\ g \in Workers \ {h} /\ StepsOf(g) /\ FreshOf(g)
        /\ quotes \in [QuoteNames -> Nat] /\ stored[g] \in Nat
    BY TickPathAssumption DEF PathTypes, Workers, StepsInv, FreshInv
  <2>2. /\ todo'[g] = todo[g] /\ target'[g] = target[g] /\ loaded'[g] = loaded[g]
        /\ stored'[g] = stored[g] /\ earlier'[g] = earlier[g]
    BY <1>3, <1>4, <2>1 DEF PathTypes
  <2>3. /\ \A i \in 1..earlier[g] : observations'[i] = observations[i]
        /\ quotes' \in [QuoteNames -> Nat] /\ \A q \in QuoteNames : quotes[q] <= quotes'[q]
    BY <1>3, <2>1
  <2>4. QED
    BY <2>1, <2>2, <2>3, FeedKept
<1>9. ASSUME NEW g \in Hedgers, g # h PROVE PricedOf(g)'
  BY <1>3, <1>4, <1>9, HedgerKept DEF PathTypes, Workers, PricedInv
<1>10. ObservationsFollowTheTicks'
  BY <1>3 DEF ObservationsFollowTheTicks
<1>11. QED
  BY <1>5, <1>6, <1>7, <1>8, <1>9, <1>10 DEF StepsInv, FreshInv, PricedInv

\* A feed thread's steps leave the hedgers alone.
LEMMA HedgersKept ==
  ASSUME PathInv, NEW f \in Feeds, NEW step, Doing(f, step), begun' = begun,
         \A v \in Workers \ {f} : target'[v] = target[v] /\ loaded'[v] = loaded[v]
  PROVE  PricedInv'
<1>1. ASSUME NEW h \in Hedgers PROVE PricedOf(h)'
  <2>1. h \in Workers \ {f} /\ f \in Workers /\ PricedOf(h)
    BY TickPathAssumption DEF Workers, PathInv, PricedInv
  <2>2. todo'[h] = todo[h]
    BY <2>1, DoingStep DEF PathInv
  <2>3. QED
    BY <2>1, <2>2, HedgerKept
<1>2. QED
  BY <1>1 DEF PricedInv

\* The other feed threads are left alone as well.
LEMMA FeedsKept ==
  ASSUME PathInv, NEW w \in Workers, NEW step, Doing(w, step),
         \A v \in Workers \ {w} : target'[v] = target[v] /\ loaded'[v] = loaded[v],
         \A g \in Feeds \ {w} : stored'[g] = stored[g] /\ earlier'[g] = earlier[g],
         \A i \in 1..Len(observations) : observations'[i] = observations[i],
         quotes' \in [QuoteNames -> Nat], \A q \in QuoteNames : quotes[q] <= quotes'[q]
  PROVE  \A g \in Feeds \ {w} : StepsOf(g)' /\ FreshOf(g)'
<1>1. SUFFICES ASSUME NEW g \in Feeds \ {w} PROVE StepsOf(g)' /\ FreshOf(g)'
  OBVIOUS
<1>2. /\ g \in Workers \ {w} /\ StepsOf(g) /\ FreshOf(g)
      /\ quotes \in [QuoteNames -> Nat] /\ stored[g] \in Nat
  BY DEF PathInv, PathTypes, Workers, StepsInv, FreshInv
<1>3. todo'[g] = todo[g]
  BY <1>2, DoingStep DEF PathInv
<1>4. \A i \in 1..earlier[g] : observations'[i] = observations[i]
  <2>1. earlier[g] \in Nat /\ earlier[g] <= Len(observations) /\ Len(observations) \in Nat
    BY DEF PathInv, PathTypes, OlderInv
  <2>2. \A i \in 1..earlier[g] : i \in 1..Len(observations)
    BY <2>1
  <2>3. QED
    BY <2>2
<1>5. QED
  BY <1>2, <1>3, <1>4, FeedKept

LEMMA UpdateBookStep ==
  ASSUME PathInv, NEW f \in Feeds, UpdateBook(f)
  PROVE  PathInv'
<1> USE DEF PathInv
<1>1. f \in Workers /\ Doing(f, Update)
  BY DEF UpdateBook, Workers
<1>2. /\ todo' \in [Workers -> Seq(AllSteps)]
      /\ \A x : In(x, todo[f]) <=> x = Update \/ In(x, todo'[f])
      /\ Ordered(todo'[f]) /\ ~In(Update, todo'[f]) /\ target[f] \in QuoteNames
  BY <1>1, DoingStep, FeedDoing
<1>3. /\ quotes' = [quotes EXCEPT ![target[f]] = quotes[target[f]] + 1]
      /\ stored' = [stored EXCEPT ![f] = quotes'[target[f]]]
      /\ target' = target /\ loaded' = loaded /\ observations' = observations
      /\ begun' = begun /\ earlier' = earlier
  BY DEF UpdateBook
<1>4. /\ quotes \in [QuoteNames -> Nat] /\ quotes' \in [QuoteNames -> Nat]
      /\ \A q \in QuoteNames : quotes[q] <= quotes'[q]
  BY <1>2, <1>3 DEF PathTypes
<1>5. PathTypes'
  <2>1. stored' \in [Feeds -> Nat]
    BY <1>2, <1>3, <1>4 DEF PathTypes
  <2>2. QED
    BY <1>2, <1>3, <1>4, <2>1 DEF PathTypes
<1>6. OlderInv'
  <2>1. \A a \in Nat, q \in QuoteNames : a <= quotes[q] => a <= quotes'[q]
    BY <1>4
  <2>2. /\ \A v \in Workers, q \in QuoteNames : loaded[v][q] \in Nat
        /\ \A h \in Hedgers, q \in QuoteNames : begun[h][q] \in Nat
    BY DEF PathTypes
  <2>3. \A n \in 1..Len(observations), q \in QuoteNames : observations[n].made_of[q] \in Nat
    <3>1. \A n \in 1..Len(observations) : observations[n] \in Observations
      BY DEF PathTypes
    <3>2. QED
      BY <3>1 DEF Observations
  <2>4. QED
    BY <1>3, <2>1, <2>2, <2>3 DEF OlderInv
<1>7. StepsOf(f)' /\ FreshOf(f)'
  <2>1. StepsOf(f)'
    BY <1>2, <1>3 DEF StepsOf
  <2>2. stored'[f] = quotes'[target'[f]]
    BY <1>3 DEF PathTypes
  <2>3. stored'[f] <= quotes'[target'[f]]
    BY <1>2, <1>3, <1>4, <2>2
  <2>4. ASSUME In(AddObservation, todo'[f]), NEW q \in QuoteNames PROVE In(q, todo'[f])
    <3>1. Ordered(todo[f]) /\ In(Update, todo[f]) /\ In(AddObservation, todo[f])
      BY <1>2, <2>4 DEF StepsInv, StepsOf
    <3>2. In(q, todo[f]) /\ q # Update
      BY <3>1, Different DEF Ordered
    <3>3. QED
      BY <1>2, <3>2
  <2>5. QED
    BY <2>1, <2>3, <2>4 DEF FreshOf, In
<1>8. \A g \in Feeds \ {f} : StepsOf(g)' /\ FreshOf(g)'
  <2>1. \A g \in Feeds \ {f} : stored'[g] = stored[g]
    BY <1>3 DEF PathTypes
  <2>2. QED
    BY <1>1, <1>3, <1>4, <2>1, FeedsKept
<1>9. PricedInv'
  BY <1>1, <1>3, HedgersKept
<1>10. ObservationsFollowTheTicks'
  BY <1>3 DEF ObservationsFollowTheTicks
<1>11. QED
  BY <1>5, <1>6, <1>7, <1>8, <1>9, <1>10 DEF StepsInv, FreshInv

LEMMA AddToHistoryStep ==
  ASSUME PathInv, NEW f \in Feeds, AddToHistory(f)
  PROVE  PathInv'
<1> USE DEF PathInv
<1>1. f \in Workers /\ Doing(f, AddPrice)
  BY DEF AddToHistory, Workers
<1>2. /\ todo' \in [Workers -> Seq(AllSteps)]
      /\ \A x : In(x, todo[f]) <=> x = AddPrice \/ In(x, todo'[f])
      /\ Ordered(todo'[f]) /\ ~In(Update, todo'[f])
  BY <1>1, DoingStep, FeedDoing
<1>3. /\ quotes' = quotes /\ stored' = stored
      /\ target' = target /\ loaded' = loaded /\ observations' = observations
      /\ begun' = begun /\ earlier' = earlier
  BY DEF AddToHistory, history
<1>4. PathTypes'
  BY <1>2, <1>3 DEF PathTypes
<1>5. OlderInv' /\ ObservationsFollowTheTicks'
  BY <1>3 DEF OlderInv, ObservationsFollowTheTicks
<1>6. StepsOf(f)' /\ FreshOf(f)'
  <2>1. \A q \in QuoteNames : q # AddPrice
    BY Different
  <2>2. StepsOf(f) /\ FreshOf(f) /\ Update # AddPrice /\ AddObservation # AddPrice
    BY Different DEF StepsInv, FreshInv
  <2>3. StepsOf(f)'
    BY <1>2, <1>3, <2>2 DEF StepsOf
  <2>4. \A q \in QuoteNames : Fresh(f, q)' <=> Fresh(f, q)
    BY <1>3 DEF Fresh
  <2>5. /\ In(AddObservation, todo'[f]) => In(AddObservation, todo[f])
        /\ In(Update, todo[f]) => In(Update, todo'[f])
        /\ \A q \in QuoteNames : In(q, todo[f]) => In(q, todo'[f])
    BY <1>2, <2>1, <2>2
  <2>6. QED
    BY <1>3, <2>2, <2>3, <2>4, <2>5 DEF FreshOf, In
<1>7. \A g \in Feeds \ {f} : StepsOf(g)' /\ FreshOf(g)'
  <2>1. quotes' \in [QuoteNames -> Nat] /\ \A q \in QuoteNames : quotes[q] <= quotes'[q]
    BY <1>3 DEF PathTypes
  <2>2. QED
    BY <1>1, <1>3, <2>1, FeedsKept
<1>8. PricedInv'
  BY <1>1, <1>3, HedgersKept
<1>9. QED
  BY <1>4, <1>5, <1>6, <1>7, <1>8 DEF StepsInv, FreshInv

LEMMA LoadQuoteStep ==
  ASSUME PathInv, NEW w \in Workers, NEW q \in QuoteNames, LoadQuote(w, q)
  PROVE  PathInv'
<1> USE DEF PathInv
<1>1. Doing(w, q)
  BY DEF LoadQuote
<1>2. /\ todo' \in [Workers -> Seq(AllSteps)] /\ Head(todo[w]) = q
      /\ \A x : In(x, todo[w]) <=> x = q \/ In(x, todo'[w])
      /\ \A v \in Workers \ {w} : todo'[v] = todo[v]
  BY <1>1, DoingStep
<1>3. /\ quotes' = quotes /\ stored' = stored
      /\ target' = target /\ observations' = observations
      /\ begun' = begun /\ earlier' = earlier
  BY DEF LoadQuote, history
<1>4. quotes \in [QuoteNames -> Nat] /\ loaded \in [Workers -> [QuoteNames -> Nat]]
  BY DEF PathTypes
<1>5. loaded' = [loaded EXCEPT ![w] = [loaded[w] EXCEPT ![q] = quotes[q]]]
  BY DEF LoadQuote
<1>6. /\ loaded' \in [Workers -> [QuoteNames -> Nat]]
      /\ loaded'[w] = [loaded[w] EXCEPT ![q] = quotes[q]]
      /\ \A v \in Workers \ {w} : loaded'[v] = loaded[v]
  <2>1. loaded[w] \in [QuoteNames -> Nat] /\ quotes[q] \in Nat
    BY <1>4
  <2>2. [loaded[w] EXCEPT ![q] = quotes[q]] \in [QuoteNames -> Nat]
    BY <2>1
  <2>3. QED
    BY <1>4, <1>5, <2>2
<1>7. /\ loaded'[w][q] = quotes[q]
      /\ \A r \in QuoteNames \ {q} : loaded'[w][r] = loaded[w][r]
  <2>1. loaded[w] \in [QuoteNames -> Nat]
    BY <1>4
  <2>2. QED
    BY <1>6, <2>1
<1>8. PathTypes'
  BY <1>2, <1>3, <1>6 DEF PathTypes
<1>9. OlderInv'
  <2>1. ASSUME NEW v \in Workers, NEW r \in QuoteNames PROVE loaded'[v][r] <= quotes[r]
    <3>1. CASE v = w /\ r = q
      BY <1>4, <1>7, <3>1
    <3>2. CASE v = w /\ r # q
      BY <1>7, <3>2 DEF OlderInv
    <3>3. CASE v # w
      BY <1>6, <3>3 DEF OlderInv
    <3>4. QED
      BY <3>1, <3>2, <3>3
  <2>2. QED
    BY <1>3, <2>1 DEF OlderInv
<1>10. ASSUME w \in Feeds PROVE StepsOf(w)' /\ FreshOf(w)'
  <2>1. StepsOf(w) /\ FreshOf(w) /\ Ordered(todo'[w]) /\ ~In(Update, todo'[w])
    BY <1>1, <1>10, FeedDoing DEF StepsInv, FreshInv
  <2>2. q # Update /\ q # AddObservation
    BY Different
  <2>3. StepsOf(w)'
    BY <1>2, <1>3, <2>1, <2>2 DEF StepsOf
  <2>4. /\ In(AddObservation, todo'[w]) => In(AddObservation, todo[w])
        /\ ~In(Update, todo[w])
        /\ \A r \in QuoteNames \ {q} : In(r, todo[w]) => In(r, todo'[w])
    BY <1>2, <2>1, <2>2
  <2>5. ASSUME NEW r \in QuoteNames \ {q}, Fresh(w, r) PROVE Fresh(w, r)'
    BY <1>3, <1>7, <2>5 DEF Fresh
  <2>6. ASSUME stored[w] <= quotes[target[w]] PROVE Fresh(w, q)'
    <3>1. \A i \in 1..earlier[w] : i \in 1..Len(observations)
      BY <1>10 DEF PathTypes, OlderInv
    <3>2. \A i \in 1..earlier[w] : observations[i].made_of[q] <= quotes[q]
      BY <3>1 DEF OlderInv
    <3>3. q = target[w] => stored[w] <= quotes[q]
      BY <2>6
    <3>4. QED
      BY <1>3, <1>7, <3>2, <3>3 DEF Fresh
  <2>7. ASSUME In(AddObservation, todo'[w])
        PROVE  /\ stored'[w] <= quotes'[target'[w]]
               /\ \A r \in QuoteNames : In(r, todo'[w]) \/ Fresh(w, r)'
    <3>1. /\ stored[w] <= quotes[target[w]]
          /\ \A r \in QuoteNames : In(r, todo[w]) \/ Fresh(w, r)
      BY <2>1, <2>4, <2>7 DEF FreshOf
    <3>2. QED
      BY <1>3, <2>4, <2>5, <2>6, <3>1
  <2>8. QED
    BY <2>3, <2>7 DEF FreshOf, In
<1>11. \A g \in Feeds \ {w} : StepsOf(g)' /\ FreshOf(g)'
  <2>1. quotes' \in [QuoteNames -> Nat] /\ \A r \in QuoteNames : quotes[r] <= quotes'[r]
    BY <1>3, <1>4
  <2>2. QED
    BY <1>1, <1>3, <1>6, <2>1, FeedsKept
<1>12. ASSUME NEW h \in Hedgers PROVE PricedOf(h)'
  <2>1. PricedOf(h) /\ h \in Workers /\ target[h] \in Symbols \X Sides
    BY DEF PricedInv, Workers, PathTypes
  <2>2. CASE h # w
    BY <1>2, <1>3, <1>6, <2>1, <2>2, HedgerKept
  <2>3. CASE h = w
    <3>1. SUFFICES ASSUME target[h][1] = "futures"
                   PROVE  loaded'[h][target[h]] >= begun[h][target[h]]
      BY <1>3 DEF PricedOf
    <3>2. target[h] \in QuoteNames
      BY <2>1, <3>1 DEF QuoteNames
    <3>3. CASE target[h] = q
      <4>1. begun[h][q] <= quotes[q] /\ begun[h][q] \in Nat /\ quotes[q] \in Nat
        BY DEF OlderInv, PathTypes
      <4>2. QED
        BY <1>7, <2>3, <3>3, <4>1
    <3>4. CASE target[h] # q
      <4>1. loaded[h][target[h]] >= begun[h][target[h]]
        BY <1>2, <2>1, <2>3, <3>1, <3>4 DEF PricedOf
      <4>2. QED
        BY <1>7, <2>3, <3>2, <3>4, <4>1
    <3>5. QED
      BY <3>3, <3>4
  <2>4. QED
    BY <2>2, <2>3
<1>13. ObservationsFollowTheTicks'
  BY <1>3 DEF ObservationsFollowTheTicks
<1>14. QED
  BY <1>8, <1>9, <1>10, <1>11, <1>12, <1>13 DEF StepsInv, FreshInv, PricedInv

LEMMA ObserveStep ==
  ASSUME PathInv, NEW f \in Feeds, Observe(f)
  PROVE  PathInv'
<1> USE DEF PathInv
<1> DEFINE o == [made_of |-> loaded[f], of |-> target[f], stored |-> stored[f],
                 earlier |-> earlier[f]]
           n == Len(observations)
<1>1. f \in Workers /\ Doing(f, AddObservation)
  BY DEF Observe, Workers
<1>2. /\ todo' \in [Workers -> Seq(AllSteps)]
      /\ \A x : In(x, todo[f]) <=> x = AddObservation \/ In(x, todo'[f])
      /\ Ordered(todo'[f]) /\ ~In(Update, todo'[f]) /\ target[f] \in QuoteNames
      /\ \A q \in QuoteNames : ~In(q, todo[f])
  BY <1>1, DoingStep, FeedDoing
<1>3. /\ quotes' = quotes /\ stored' = stored
      /\ target' = target /\ loaded' = loaded /\ observations' = Append(observations, o)
      /\ begun' = begun /\ earlier' = earlier
  BY DEF Observe, history
<1>4. o \in Observations
  BY <1>1 DEF PathTypes, Observations
<1>5. /\ o.made_of = loaded[f] /\ o.of = target[f] /\ o.stored = stored[f]
      /\ o.earlier = earlier[f]
  OBVIOUS
<1> HIDE DEF o
<1>6. /\ n \in Nat /\ observations' \in Seq(Observations) /\ Len(observations') = n + 1
      /\ observations'[n + 1] = o
      /\ \A i \in 1..n : observations'[i] = observations[i]
  BY <1>3, <1>4 DEF PathTypes
<1>7. PathTypes'
  BY <1>2, <1>3, <1>6 DEF PathTypes
<1>8. \A g \in Feeds : earlier[g] \in Nat /\ earlier[g] <= n
  BY DEF PathTypes, OlderInv
<1>9. OlderInv'
  <2>1. ASSUME NEW i \in 1..(n + 1), NEW q \in QuoteNames
        PROVE  observations'[i].made_of[q] <= quotes[q]
    <3>1. CASE i = n + 1
      BY <1>1, <1>5, <1>6, <3>1 DEF OlderInv
    <3>2. CASE i \in 1..n
      BY <1>6, <3>2 DEF OlderInv
    <3>3. QED
      BY <1>6, <3>1, <3>2
  <2>2. \A g \in Feeds : earlier[g] <= n + 1
    BY <1>6, <1>8
  <2>3. QED
    BY <1>3, <1>6, <2>1, <2>2 DEF OlderInv
<1>10. /\ stored[f] <= loaded[f][target[f]]
       /\ \A i \in 1..earlier[f], q \in QuoteNames : observations[i].made_of[q] <= loaded[f][q]
  <2>1. FreshOf(f)
    BY DEF FreshInv
  <2>2. \A q \in QuoteNames : Fresh(f, q)
    BY <1>2, <2>1 DEF FreshOf
  <2>3. QED
    BY <1>2, <2>2 DEF Fresh
<1>11. StepsOf(f)' /\ FreshOf(f)'
  <2>1. StepsOf(f)'
    BY <1>2, <1>3 DEF StepsOf
  <2>2. ~In(AddObservation, todo'[f]) \/ stored'[f] <= quotes'[target'[f]]
    BY <1>2, <1>3, Different DEF FreshInv, FreshOf
  <2>3. ASSUME NEW q \in QuoteNames PROVE Fresh(f, q)'
    <3>1. \A i \in 1..earlier[f] : i \in 1..n
      BY <1>6, <1>8
    <3>2. \A i \in 1..earlier[f] : observations'[i].made_of[q] <= loaded[f][q]
      BY <1>6, <1>10, <3>1
    <3>3. QED
      BY <1>3, <1>10, <3>2 DEF Fresh
  <2>4. QED
    BY <2>1, <2>2, <2>3 DEF FreshOf, In
<1>12. \A g \in Feeds \ {f} : StepsOf(g)' /\ FreshOf(g)'
  <2>1. quotes' \in [QuoteNames -> Nat] /\ \A q \in QuoteNames : quotes[q] <= quotes'[q]
    BY <1>3 DEF PathTypes
  <2>2. QED
    BY <1>1, <1>3, <1>6, <2>1, FeedsKept
<1>13. PricedInv'
  BY <1>1, <1>3, HedgersKept
<1>14. ObservationsFollowTheTicks'
  <2>1. SUFFICES ASSUME NEW m \in 1..(n + 1)
        PROVE  /\ observations'[m].made_of[observations'[m].of] >= observations'[m].stored
               /\ \A i \in 1..observations'[m].earlier :
                    i < m /\ \A q \in QuoteNames :
                               observations'[i].made_of[q] <= observations'[m].made_of[q]
    BY <1>6 DEF ObservationsFollowTheTicks
  <2>2. CASE m = n + 1
    <3>1. observations'[m] = o
      BY <1>6, <2>2
    <3>2. o.made_of[o.of] >= o.stored
      <4>1. stored[f] \in Nat /\ loaded[f][target[f]] \in Nat
        BY <1>1, <1>2 DEF PathTypes
      <4>2. QED
        BY <1>5, <1>10, <4>1
    <3>3. \A i \in 1..o.earlier : i < m /\ i \in 1..n
      BY <1>5, <1>6, <1>8, <2>2
    <3>4. \A i \in 1..o.earlier, q \in QuoteNames :
            observations'[i].made_of[q] <= o.made_of[q]
      BY <1>5, <1>6, <1>10, <3>3
    <3>5. QED
      BY <3>1, <3>2, <3>3, <3>4
  <2>3. CASE m \in 1..n
    <3>1. /\ observations[m].made_of[observations[m].of] >= observations[m].stored
          /\ \A i \in 1..observations[m].earlier :
               i < m /\ \A q \in QuoteNames :
                          observations[i].made_of[q] <= observations[m].made_of[q]
      BY <2>3 DEF ObservationsFollowTheTicks
    <3>a. observations[m] \in Observations
      BY <2>3 DEF PathTypes
    <3>2. observations[m].earlier \in Nat
      BY <3>a DEF Observations
    <3>3. \A i \in 1..observations[m].earlier : i \in 1..n
      BY <1>6, <2>3, <3>1, <3>2
    <3>4. QED
      BY <1>6, <2>3, <3>1, <3>3
  <2>4. QED
    BY <1>6, <2>2, <2>3
<1>15. QED
  BY <1>7, <1>9, <1>11, <1>12, <1>13, <1>14 DEF StepsInv, FreshInv

LEMMA RecordLatencyStep ==
  ASSUME PathInv, NEW f \in Feeds, RecordLatency(f)
  PROVE  PathInv'
<1> USE DEF PathInv
<1>1. f \in Workers /\ Doing(f, Record)
  BY DEF RecordLatency, Workers
<1>2. /\ todo' \in [Workers -> Seq(AllSteps)]
      /\ Ordered(todo'[f]) /\ \A x : ~In(x, todo'[f])
  BY <1>1, DoingStep, FeedDoing
<1>3. /\ quotes' = quotes /\ stored' = [stored EXCEPT ![f] = 0]
      /\ target' = [target EXCEPT ![f] = <<"other", "bid">>]
      /\ loaded' = [loaded EXCEPT ![f] = NoQuotes]
      /\ observations' = observations
      /\ begun' = begun /\ earlier' = [earlier EXCEPT ![f] = 0]
  BY DEF RecordLatency
<1>4. /\ NoQuotes \in [QuoteNames -> Nat] /\ \A q \in QuoteNames : NoQuotes[q] = 0
      /\ <<"other", "bid">> \in Symbols \X Sides
  BY DEF NoQuotes, Symbols, Sides
<1>5. /\ loaded' \in [Workers -> [QuoteNames -> Nat]] /\ loaded'[f] = NoQuotes
      /\ \A v \in Workers \ {f} : loaded'[v] = loaded[v] /\ target'[v] = target[v]
      /\ \A g \in Feeds \ {f} : stored'[g] = stored[g] /\ earlier'[g] = earlier[g]
      /\ earlier'[f] = 0
  <2>1. loaded' \in [Workers -> [QuoteNames -> Nat]] /\ loaded'[f] = NoQuotes
    BY <1>1, <1>3, <1>4 DEF PathTypes
  <2>2. \A v \in Workers \ {f} : loaded'[v] = loaded[v] /\ target'[v] = target[v]
    BY <1>3 DEF PathTypes
  <2>3. \A g \in Feeds \ {f} : stored'[g] = stored[g] /\ earlier'[g] = earlier[g]
    BY <1>3 DEF PathTypes
  <2>4. earlier'[f] = 0
    BY <1>3 DEF PathTypes
  <2>5. QED
    BY <2>1, <2>2, <2>3, <2>4
<1>6. PathTypes'
  <2>1. target' \in [Workers -> Symbols \X Sides]
    BY <1>3, <1>4 DEF PathTypes
  <2>2. stored' \in [Feeds -> Nat] /\ earlier' \in [Feeds -> Nat]
    BY <1>3 DEF PathTypes
  <2>3. QED
    BY <1>2, <1>3, <1>5, <2>1, <2>2 DEF PathTypes
<1>7. OlderInv'
  <2>1. ASSUME NEW v \in Workers, NEW q \in QuoteNames PROVE loaded'[v][q] <= quotes[q]
    <3>1. CASE v = f
      <4>1. loaded'[v][q] = 0 /\ quotes[q] \in Nat
        BY <1>4, <1>5, <3>1 DEF PathTypes
      <4>2. QED
        BY <4>1
    <3>2. CASE v # f
      BY <1>5, <3>2 DEF OlderInv
    <3>3. QED
      BY <3>1, <3>2
  <2>2. ASSUME NEW g \in Feeds PROVE earlier'[g] <= Len(observations)
    <3>1. Len(observations) \in Nat
      BY DEF PathTypes
    <3>2. QED
      BY <1>5, <3>1 DEF OlderInv
  <2>3. QED
    BY <1>3, <2>1, <2>2 DEF OlderInv
<1>8. StepsOf(f)' /\ FreshOf(f)'
  <2>1. \A x : ~In(x, todo[f])'
    BY <1>2 DEF In
  <2>2. QED
    BY <1>2, <2>1 DEF StepsOf, FreshOf
<1>9. \A g \in Feeds \ {f} : StepsOf(g)' /\ FreshOf(g)'
  <2>1. quotes' \in [QuoteNames -> Nat] /\ \A q \in QuoteNames : quotes[q] <= quotes'[q]
    BY <1>3 DEF PathTypes
  <2>2. QED
    BY <1>1, <1>3, <1>5, <2>1, FeedsKept
<1>10. PricedInv'
  BY <1>1, <1>3, <1>5, HedgersKept
<1>11. ObservationsFollowTheTicks'
  BY <1>3 DEF ObservationsFollowTheTicks
<1>12. QED
  BY <1>6, <1>7, <1>8, <1>9, <1>10, <1>11 DEF StepsInv, FreshInv

LEMMA PathUnchanged ==
  ASSUME PathInv, UNCHANGED vars
  PROVE  PathInv'
<1> USE DEF PathInv, vars, history
<1>1. PathTypes' /\ OlderInv' /\ ObservationsFollowTheTicks'
  BY DEF PathTypes, OlderInv, ObservationsFollowTheTicks
<1>2. StepsInv' /\ FreshInv' /\ PricedInv'
  BY DEF StepsInv, FreshInv, PricedInv, StepsOf, FreshOf, PricedOf, Fresh, Ordered, In
<1>3. QED
  BY <1>1, <1>2

LEMMA InitiallyPathInv ==
  ASSUME Init
  PROVE  PathInv
<1>1. /\ NoQuotes \in [QuoteNames -> Nat] /\ \A q \in QuoteNames : NoQuotes[q] = 0
      /\ <<"other", "bid">> \in Symbols \X Sides
  BY DEF NoQuotes, Symbols, Sides
<1>2. << >> \in Seq(AllSteps) /\ << >> \in Seq(Observations) /\ Len(<< >>) = 0
  OBVIOUS
<1>3. PathTypes
  BY <1>1, <1>2 DEF Init, PathTypes
<1>4. OlderInv /\ ObservationsFollowTheTicks
  BY <1>1, <1>2 DEF Init, OlderInv, ObservationsFollowTheTicks, Workers
<1>5. StepsInv /\ FreshInv
  BY <1>2 DEF Init, StepsInv, FreshInv, StepsOf, FreshOf, Ordered, In, Workers
<1>6. PricedInv
  <2>1. \A h \in Hedgers : target[h][1] = "other"
    BY DEF Init, Workers
  <2>2. QED
    BY <2>1 DEF PricedInv, PricedOf
<1>7. QED
  BY <1>3, <1>4, <1>5, <1>6 DEF PathInv

\* Every state of the calls of on_tick and get_hedge_recommendation: nobody has
\* read more than was stored, what is left of a call is the end of its code, and
\* what a call has loaded is recent enough for what it will be used for.
THEOREM PathInvariance == Spec => []PathInv
<1>1. ASSUME PathInv, Next PROVE PathInv'
  <2>1. ASSUME NEW f \in Feeds, FeedStep(f) PROVE PathInv'
    BY <1>1, <2>1, BeginTickStep, UpdateBookStep, AddToHistoryStep, ObserveStep,
      RecordLatencyStep DEF FeedStep
  <2>2. QED
    BY <1>1, <2>1, BeginHedgeStep, LoadQuoteStep DEF Next
<1>2. PathInv /\ [Next]_vars => PathInv'
  BY <1>1, PathUnchanged
<1>3. QED
  BY InitiallyPathInv, <1>2, PTL DEF Spec

\* With any number of threads in on_tick, what update_hedge_strategy gives the
\* MVHR strategy was read after the tick that caused it was in the book, and the
\* observations of ticks that came one after the other stand in their order.
THEOREM ObservationsFollowTheTicksHolds == Spec => []ObservationsFollowTheTicks
<1>1. PathInv => ObservationsFollowTheTicks
  BY DEF PathInv
<1>2. QED
  BY PathInvariance, <1>1, PTL

\* The price of a recommendation is that of the side it trades on, no older than
\* the call, however many ticks come in meanwhile.
THEOREM RecommendationsArePricedHolds == Spec => []RecommendationsArePriced
<1>1. PathInv => RecommendationsArePriced
  BY DEF PathInv, PricedInv, PricedOf, RecommendationsArePriced
<1>2. QED
  BY PathInvariance, <1>1, PTL
-----------------------------------------------------------------------------
(***************************************************************************)
(* Every tick once.  What a feed thread has still to do in its call is owed*)
(* to the metrics, to a strategy or to a book; what has come in is what    *)
(* has been done and what is owed.  Only finitely many threads can be      *)
(* under way at a time, however many there are.                            *)
(***************************************************************************)
Owing(step, td) == {g \in Feeds : In(step, td[g])}
OwingUpdate(symbol, td, tg) == {g \in Owing(Update, td) : tg[g][1] = symbol}

CountTypes ==
  /\ ticks_processed \in Nat /\ price_history \in Nat
  /\ arrived \in [Symbols -> Nat]
  /\ \A f \in Feeds : Once(todo[f])
  /\ IsFiniteSet(Owing(Record, todo)) /\ IsFiniteSet(Owing(AddPrice, todo))
  /\ IsFiniteSet(Owing(AddObservation, todo))
  /\ IsFiniteSet(OwingUpdate("spot", todo, target))
  /\ IsFiniteSet(OwingUpdate("futures", todo, target))

Counted ==
  /\ ticks_processed + Cardinality(Owing(Record, todo))
       = arrived["spot"] + arrived["futures"] + arrived["other"]
  /\ price_history + Cardinality(Owing(AddPrice, todo))
       = IF enable_mean_reversion THEN arrived["spot"] ELSE 0
  /\ Len(observations) + Cardinality(Owing(AddObservation, todo))
       = IF enable_mvhr THEN arrived["futures"] ELSE 0
  /\ \A s \in {"spot", "futures"} :
       quotes[<<s, "bid">>] + quotes[<<s, "ask">>]
         + Cardinality(OwingUpdate(s, todo, target)) = arrived[s]

CountInv == CountTypes /\ Counted

\* The rest of a call has nothing twice either, and what was done is not in it.
LEMMA TailOnce ==
  ASSUME NEW s \in Seq(AllSteps), s # << >>, Once(s)
  PROVE  /\ Once(Tail(s))
         /\ Head(s) \in {AddPrice, AddObservation} => ~In(Head(s), Tail(s))
<1> DEFINE rest == Tail(s)
<1>1. /\ rest \in Seq(AllSteps) /\ Len(s) \in Nat \ {0} /\ Len(rest) = Len(s) - 1
      /\ \A i \in 1..Len(rest) : rest[i] = s[i + 1] /\ i + 1 \in 1..Len(s)
      /\ Head(s) = s[1] /\ 1 \in 1..Len(s)
  OBVIOUS
<1> HIDE DEF rest
<1>2. ASSUME NEW i \in 1..Len(rest), NEW j \in 1..Len(rest), rest[i] = rest[j],
             rest[i] \in {AddPrice, AddObservation}
      PROVE  i = j
  <2>1. /\ s[i + 1] = s[j + 1] /\ i + 1 \in 1..Len(s) /\ j + 1 \in 1..Len(s)
        /\ s[i + 1] \in {AddPrice, AddObservation}
    BY <1>1, <1>2
  <2>2. i + 1 = j + 1
    BY <2>1 DEF Once
  <2>3. QED
    BY <1>1, <2>2
<1>3. ASSUME s[1] \in {AddPrice, AddObservation}, NEW i \in 1..Len(rest), rest[i] = s[1]
      PROVE  FALSE
  <2>1. s[i + 1] = s[1] /\ i + 1 \in 1..Len(s) /\ i + 1 # 1
    BY <1>1, <1>3
  <2>2. QED
    BY <1>1, <1>3, <2>1 DEF Once
<1>4. QED
  BY <1>1, <1>2, <1>3 DEF Once, In, rest

Kinds == {Update, AddPrice, AddObservation, Record}

\* A thread that does a step does not owe it any more; nothing else changes.
LEMMA OwingDone ==
  ASSUME PathInv, CountInv, NEW f \in Feeds, NEW step, Doing(f, step)
  PROVE  /\ \A g \in Feeds : Once(todo'[g])
         /\ \A x \in Kinds \ {step} : Owing(x, todo') = Owing(x, todo)
         /\ step \in Kinds => /\ f \in Owing(step, todo)
                              /\ Owing(step, todo') = Owing(step, todo) \ {f}
<1>1. f \in Workers /\ \A g \in Feeds \ {f} : g \in Workers \ {f}
  BY DEF Workers
<1>2. /\ todo[f] \in Seq(AllSteps) /\ todo[f] # << >> /\ Head(todo[f]) = step
      /\ todo'[f] = Tail(todo[f])
      /\ \A v \in Workers \ {f} : todo'[v] = todo[v]
      /\ \A x : In(x, todo[f]) <=> x = step \/ In(x, todo'[f])
  BY <1>1, DoingStep DEF PathInv
<1>3. /\ Once(todo'[f])
      /\ step \in {AddPrice, AddObservation} => ~In(step, todo'[f])
  BY <1>2, TailOnce DEF CountInv, CountTypes
<1>4. /\ ~In(Update, todo'[f])
      /\ step = Record => \A x : ~In(x, todo'[f])
  BY FeedDoing DEF PathInv
<1>5. step \in Kinds => ~In(step, todo'[f])
  BY <1>3, <1>4 DEF Kinds
<1>6. \A g \in Feeds \ {f} : todo'[g] = todo[g]
  BY <1>1, <1>2
<1>7. \A g \in Feeds : Once(todo'[g])
  BY <1>3, <1>6 DEF CountInv, CountTypes
<1>8. QED
  BY <1>2, <1>5, <1>6, <1>7 DEF Owing

\* A hedger's loads are not among what is owed.
LEMMA OwingLoad ==
  ASSUME PathInv, CountInv, NEW w \in Workers, NEW q \in QuoteNames, LoadQuote(w, q)
  PROVE  CountInv'
<1>1. /\ Doing(w, q) /\ target' = target
      /\ UNCHANGED <<config, quotes, price_history, observations, ticks_processed, arrived>>
  BY DEF LoadQuote, history
<1>2. q \notin Kinds
  BY Different DEF Kinds
<1>3. /\ \A g \in Feeds : Once(todo'[g])
      /\ \A x \in Kinds : Owing(x, todo') = Owing(x, todo)
  <2>1. CASE w \in Feeds
    BY <1>1, <1>2, <2>1, OwingDone
  <2>2. CASE w \notin Feeds
    <3>1. \A g \in Feeds : todo'[g] = todo[g]
      BY <1>1, <2>2, DoingStep DEF PathInv, Workers
    <3>2. QED
      BY <3>1 DEF Owing, CountInv, CountTypes
  <2>3. QED
    BY <2>1, <2>2
<1>4. \A s \in Symbols : OwingUpdate(s, todo', target') = OwingUpdate(s, todo, target)
  BY <1>1, <1>3 DEF OwingUpdate, Kinds
<1>5. QED
  BY <1>1, <1>3, <1>4 DEF CountInv, CountTypes, Counted, Kinds, Symbols, config

\* A call that begins owes its steps, and owed nothing before.
LEMMA OwingBegun ==
  ASSUME PathInv, NEW f \in Feeds, NEW symbol \in Symbols, NEW side \in Sides,
         BeginTick(f, symbol, side)
  PROVE  /\ todo'[f] = OnTick(symbol) /\ target'[f] = <<symbol, side>>
         /\ \A g \in Feeds \ {f} : todo'[g] = todo[g] /\ target'[g] = target[g]
         /\ \A x : f \notin Owing(x, todo)
         /\ \A x : Owing(x, todo') = Owing(x, todo)
                                     \union {g \in {f} : In(x, OnTick(symbol))}
         /\ UNCHANGED <<config, quotes, price_history, observations, ticks_processed>>
<1>1. OnTick(symbol) \in Seq(AllSteps)
  BY TickCall
<1>2. /\ f \in Workers /\ <<symbol, side>> \in Symbols \X Sides
      /\ Begin(f, OnTick(symbol), <<symbol, side>>)
      /\ \A g \in Feeds \ {f} : g \in Workers \ {f}
  BY DEF BeginTick, Workers
<1>3. /\ todo'[f] = OnTick(symbol) /\ target'[f] = <<symbol, side>>
      /\ \A v \in Workers \ {f} : todo'[v] = todo[v] /\ target'[v] = target[v]
  BY <1>1, <1>2, BeginStep DEF PathInv
<1>4. todo[f] = << >>
  BY <1>2 DEF Begin
<1>5. \A x : ~In(x, todo[f])
  <2>1. Len(todo[f]) = 0
    BY <1>4
  <2>2. QED
    BY <2>1 DEF In
<1>6. \A x : Owing(x, todo') = Owing(x, todo) \union {g \in {f} : In(x, OnTick(symbol))}
  BY <1>2, <1>3, <1>5 DEF Owing
<1>7. QED
  BY <1>2, <1>3, <1>5, <1>6 DEF Owing, Begin
\* One more, and one fewer.
LEMMA OneMore ==
  ASSUME NEW S, IsFiniteSet(S), NEW f, f \notin S
  PROVE  /\ IsFiniteSet(S \union {f}) /\ Cardinality(S) \in Nat
         /\ Cardinality(S \union {f}) = Cardinality(S) + 1
BY FS_AddElement, FS_CardinalityType

LEMMA OneFewer ==
  ASSUME NEW S, IsFiniteSet(S), NEW f \in S
  PROVE  /\ IsFiniteSet(S \ {f}) /\ Cardinality(S) \in Nat /\ Cardinality(S \ {f}) \in Nat
         /\ Cardinality(S \ {f}) = Cardinality(S) - 1
BY FS_RemoveElement, FS_CardinalityType

LEMMA Countable ==
  ASSUME CountTypes
  PROVE  /\ Cardinality(Owing(Record, todo)) \in Nat
         /\ Cardinality(Owing(AddPrice, todo)) \in Nat
         /\ Cardinality(Owing(AddObservation, todo)) \in Nat
         /\ \A s \in {"spot", "futures"} : Cardinality(OwingUpdate(s, todo, target)) \in Nat
BY FS_CardinalityType DEF CountTypes

\* The updates that are owed to the book of a symbol.
LEMMA UpdateBegun ==
  ASSUME PathInv, NEW f \in Feeds, NEW symbol \in Symbols, NEW side \in Sides,
         BeginTick(f, symbol, side), NEW s \in {"spot", "futures"}
  PROVE  /\ f \notin OwingUpdate(s, todo, target)
         /\ OwingUpdate(s, todo', target')
              = IF s = symbol THEN OwingUpdate(s, todo, target) \union {f}
                ELSE OwingUpdate(s, todo, target)
<1>1. /\ todo'[f] = OnTick(symbol) /\ target'[f] = <<symbol, side>>
      /\ \A g \in Feeds \ {f} : todo'[g] = todo[g] /\ target'[g] = target[g]
      /\ f \notin Owing(Update, todo)
      /\ Owing(Update, todo') = Owing(Update, todo)
                                  \union {g \in {f} : In(Update, OnTick(symbol))}
  BY OwingBegun
<1>2. target'[f][1] = symbol
  BY <1>1
<1>3. s = symbol => In(Update, OnTick(symbol))
  BY TickCall
<1>4. \A g \in Owing(Update, todo) : g \in Feeds /\ g # f
  BY <1>1 DEF Owing
<1>5. CASE s = symbol
  BY <1>1, <1>2, <1>3, <1>4, <1>5 DEF OwingUpdate
<1>6. CASE s # symbol
  BY <1>1, <1>2, <1>4, <1>6 DEF OwingUpdate
<1>7. QED
  BY <1>1, <1>5, <1>6 DEF OwingUpdate

LEMMA CountBegin ==
  ASSUME PathInv, CountInv, NEW f \in Feeds, NEW symbol \in Symbols, NEW side \in Sides,
         BeginTick(f, symbol, side)
  PROVE  CountInv'
<1> DEFINE owed(x) == Owing(x, todo)
           owes(x) == Owing(x, todo')
<1>1. /\ todo'[f] = OnTick(symbol) /\ \A g \in Feeds \ {f} : todo'[g] = todo[g]
      /\ \A x : f \notin owed(x)
      /\ \A x : owes(x) = owed(x) \union {g \in {f} : In(x, OnTick(symbol))}
      /\ UNCHANGED <<config, quotes, price_history, observations, ticks_processed>>
  BY OwingBegun
<1>2. /\ Once(OnTick(symbol)) /\ In(Record, OnTick(symbol))
      /\ In(AddPrice, OnTick(symbol)) <=> symbol = "spot" /\ enable_mean_reversion
      /\ In(AddObservation, OnTick(symbol)) <=> symbol = "futures" /\ enable_mvhr
  BY TickCall
<1>3. /\ arrived' = [arrived EXCEPT ![symbol] = arrived[symbol] + 1]
      /\ arrived \in [Symbols -> Nat]
  BY DEF BeginTick, CountInv, CountTypes
<1>4. \A s \in Symbols : /\ arrived[s] \in Nat /\ arrived'[s] \in Nat
                         /\ arrived'[s] = IF s = symbol THEN arrived[s] + 1 ELSE arrived[s]
  BY <1>3
<1>5. \A x : /\ In(x, OnTick(symbol)) => owes(x) = owed(x) \union {f}
             /\ ~In(x, OnTick(symbol)) => owes(x) = owed(x)
  BY <1>1
<1>6. /\ IsFiniteSet(owed(Record)) /\ IsFiniteSet(owed(AddPrice))
      /\ IsFiniteSet(owed(AddObservation))
      /\ Cardinality(owed(Record)) \in Nat /\ Cardinality(owed(AddPrice)) \in Nat
      /\ Cardinality(owed(AddObservation)) \in Nat
  BY Countable DEF CountInv, CountTypes
<1>7. ASSUME NEW x, IsFiniteSet(owed(x))
      PROVE  /\ IsFiniteSet(owes(x))
             /\ In(x, OnTick(symbol)) => Cardinality(owes(x)) = Cardinality(owed(x)) + 1
             /\ ~In(x, OnTick(symbol)) => Cardinality(owes(x)) = Cardinality(owed(x))
  <2>1. f \notin owed(x)
    BY <1>1
  <2>2. CASE In(x, OnTick(symbol))
    <3>1. owes(x) = owed(x) \union {f}
      BY <1>5, <2>2
    <3> HIDE DEF owed, owes
    <3>2. QED
      BY <1>7, <2>1, <2>2, <3>1, OneMore
  <2>3. CASE ~In(x, OnTick(symbol))
    BY <1>5, <1>7, <2>3
  <2>4. QED
    BY <2>2, <2>3
<1>8. /\ IsFiniteSet(owes(Record)) /\ IsFiniteSet(owes(AddPrice))
      /\ IsFiniteSet(owes(AddObservation))
      /\ Cardinality(owes(Record)) = Cardinality(owed(Record)) + 1
  BY <1>2, <1>6, <1>7
<1>9. /\ symbol = "spot" /\ enable_mean_reversion
           => Cardinality(owes(AddPrice)) = Cardinality(owed(AddPrice)) + 1
      /\ ~(symbol = "spot" /\ enable_mean_reversion)
           => Cardinality(owes(AddPrice)) = Cardinality(owed(AddPrice))
  BY <1>2, <1>6, <1>7
<1>10. /\ symbol = "futures" /\ enable_mvhr
            => Cardinality(owes(AddObservation)) = Cardinality(owed(AddObservation)) + 1
       /\ ~(symbol = "futures" /\ enable_mvhr)
            => Cardinality(owes(AddObservation)) = Cardinality(owed(AddObservation))
  BY <1>2, <1>6, <1>7
<1>11. ASSUME NEW s \in {"spot", "futures"}
       PROVE  /\ IsFiniteSet(OwingUpdate(s, todo', target'))
              /\ Cardinality(OwingUpdate(s, todo', target'))
                   = IF s = symbol THEN Cardinality(OwingUpdate(s, todo, target)) + 1
                     ELSE Cardinality(OwingUpdate(s, todo, target))
  <2> DEFINE U == OwingUpdate(s, todo, target)
  <2>1. f \notin U /\ OwingUpdate(s, todo', target') = IF s = symbol THEN U \union {f} ELSE U
    BY UpdateBegun
  <2>2. IsFiniteSet(U)
    BY DEF CountInv, CountTypes
  <2> HIDE DEF U
  <2>3. IsFiniteSet(U \union {f}) /\ Cardinality(U \union {f}) = Cardinality(U) + 1
    BY <2>1, <2>2, OneMore
  <2>4. QED
    BY <2>1, <2>2, <2>3 DEF U
<1>12. CountTypes'
  <2>1. \A g \in Feeds : Once(todo'[g])
    BY <1>1, <1>2 DEF CountInv, CountTypes
  <2>2. arrived' \in [Symbols -> Nat]
    BY <1>3
  <2>3. /\ IsFiniteSet(OwingUpdate("spot", todo', target'))
        /\ IsFiniteSet(OwingUpdate("futures", todo', target'))
    BY <1>11
  <2>4. QED
    BY <1>1, <1>8, <2>1, <2>2, <2>3 DEF CountInv, CountTypes
<1> HIDE DEF owed, owes
<1>13. /\ ticks_processed \in Nat /\ price_history \in Nat /\ Len(observations) \in Nat
       /\ UNCHANGED <<ticks_processed, price_history, observations, quotes,
                      enable_mvhr, enable_mean_reversion>>
  BY <1>1 DEF CountInv, CountTypes, PathInv, PathTypes, config
<1>14. /\ ticks_processed + Cardinality(owed(Record))
            = arrived["spot"] + arrived["futures"] + arrived["other"]
       /\ price_history + Cardinality(owed(AddPrice))
            = IF enable_mean_reversion THEN arrived["spot"] ELSE 0
       /\ Len(observations) + Cardinality(owed(AddObservation))
            = IF enable_mvhr THEN arrived["futures"] ELSE 0
  BY DEF CountInv, Counted, owed
<1>15. "spot" \in Symbols /\ "futures" \in Symbols /\ "other" \in Symbols
       /\ symbol \in {"spot", "futures", "other"}
  BY DEF Symbols
<1>16. arrived'["spot"] + arrived'["futures"] + arrived'["other"]
         = arrived["spot"] + arrived["futures"] + arrived["other"] + 1
  BY <1>4, <1>15
<1>17. ticks_processed' + Cardinality(owes(Record))
         = arrived'["spot"] + arrived'["futures"] + arrived'["other"]
  BY <1>4, <1>6, <1>8, <1>13, <1>14, <1>15, <1>16
<1>18. price_history' + Cardinality(owes(AddPrice))
         = IF enable_mean_reversion' THEN arrived'["spot"] ELSE 0
  BY <1>4, <1>6, <1>9, <1>13, <1>14, <1>15
<1>19. Len(observations') + Cardinality(owes(AddObservation))
         = IF enable_mvhr' THEN arrived'["futures"] ELSE 0
  BY <1>4, <1>6, <1>10, <1>13, <1>14, <1>15
<1>20. ASSUME NEW s \in {"spot", "futures"}
       PROVE  quotes'[<<s, "bid">>] + quotes'[<<s, "ask">>]
                + Cardinality(OwingUpdate(s, todo', target')) = arrived'[s]
  <2>1. /\ quotes[<<s, "bid">>] \in Nat /\ quotes[<<s, "ask">>] \in Nat
        /\ Cardinality(OwingUpdate(s, todo, target)) \in Nat /\ s \in Symbols
    BY Countable DEF PathInv, PathTypes, QuoteNames, Sides, CountInv, Symbols
  <2>2. quotes[<<s, "bid">>] + quotes[<<s, "ask">>]
          + Cardinality(OwingUpdate(s, todo, target)) = arrived[s]
    BY DEF CountInv, Counted
  <2> DEFINE was == Cardinality(OwingUpdate(s, todo, target))
             is == Cardinality(OwingUpdate(s, todo', target'))
             n == quotes[<<s, "bid">>] + quotes[<<s, "ask">>]
  <2>3. is = IF s = symbol THEN was + 1 ELSE was
    BY <1>11
  <2>4. arrived'[s] = IF s = symbol THEN arrived[s] + 1 ELSE arrived[s]
    BY <1>4, <2>1
  <2>5. quotes'[<<s, "bid">>] + quotes'[<<s, "ask">>] = n
    BY <1>13
  <2>6. n \in Nat /\ was \in Nat /\ n + was = arrived[s]
    BY <2>1, <2>2
  <2> HIDE DEF was, is, n
  <2>7. n + is = arrived'[s]
    BY <2>3, <2>4, <2>6
  <2> USE DEF is
  <2>8. QED
    BY <2>5, <2>7
<1>21. Counted'
  BY <1>17, <1>18, <1>19, <1>20 DEF Counted, owes
<1>22. QED
  BY <1>12, <1>21 DEF CountInv
\* The updates owed when another step, or this one, is done.
LEMMA UpdateDone ==
  ASSUME PathInv, CountInv, NEW f \in Feeds, NEW step, Doing(f, step),
         \A g \in Feeds \ {f} : target'[g] = target[g],
         step = Update => target' = target, step # Record => target' = target
  PROVE  \A s \in {"spot", "futures"} :
           OwingUpdate(s, todo', target')
             = IF step = Update /\ s = target[f][1] THEN OwingUpdate(s, todo, target) \ {f}
               ELSE OwingUpdate(s, todo, target)
<1> SUFFICES ASSUME NEW s \in {"spot", "futures"}
             PROVE  OwingUpdate(s, todo', target')
                      = IF step = Update /\ s = target[f][1]
                        THEN OwingUpdate(s, todo, target) \ {f}
                        ELSE OwingUpdate(s, todo, target)
  OBVIOUS
<1>1. Update \in Kinds
  BY DEF Kinds
<1>2. CASE step = Update
  <2>1. Owing(Update, todo') = Owing(Update, todo) \ {f} /\ target' = target
    BY <1>1, <1>2, OwingDone
  <2>2. QED
    BY <1>2, <2>1 DEF OwingUpdate
<1>3. CASE step # Update
  <2>1. Owing(Update, todo') = Owing(Update, todo)
    BY <1>1, <1>3, OwingDone
  <2>2. f \in Owing(Update, todo) => target' = target
    <3>1. CASE step = Record
      <4>1. f \notin Owing(Update, todo')
        BY <3>1, FeedDoing DEF Owing, PathInv
      <4>2. QED
        BY <2>1, <4>1
    <3>2. QED
      BY <3>1
  <2>3. \A g \in Owing(Update, todo) : target'[g] = target[g]
    BY <2>2 DEF Owing
  <2>4. QED
    BY <1>3, <2>1, <2>3 DEF OwingUpdate
<1>4. QED
  BY <1>2, <1>3

LEMMA CountUpdateBook ==
  ASSUME PathInv, CountInv, NEW f \in Feeds, UpdateBook(f)
  PROVE  CountInv'
<1>1. /\ Doing(f, Update) /\ target' = target
      /\ UNCHANGED <<config, price_history, observations, ticks_processed, arrived>>
      /\ quotes' = [quotes EXCEPT ![target[f]] = quotes[target[f]] + 1]
  BY DEF UpdateBook
<1>2. target[f] \in QuoteNames /\ quotes \in [QuoteNames -> Nat]
  BY <1>1, FeedDoing DEF PathInv, PathTypes
<1>3. /\ \A g \in Feeds : Once(todo'[g])
      /\ Owing(Record, todo') = Owing(Record, todo)
      /\ Owing(AddPrice, todo') = Owing(AddPrice, todo)
      /\ Owing(AddObservation, todo') = Owing(AddObservation, todo)
      /\ f \in Owing(Update, todo)
  BY <1>1, OwingDone, Different DEF Kinds
<1>4. \A s \in {"spot", "futures"} :
        OwingUpdate(s, todo', target')
          = IF s = target[f][1] THEN OwingUpdate(s, todo, target) \ {f}
            ELSE OwingUpdate(s, todo, target)
  BY <1>1, UpdateDone
<1>5. ASSUME NEW s \in {"spot", "futures"}
      PROVE  /\ IsFiniteSet(OwingUpdate(s, todo', target'))
             /\ Cardinality(OwingUpdate(s, todo, target)) \in Nat
             /\ Cardinality(OwingUpdate(s, todo', target'))
                  = IF s = target[f][1] THEN Cardinality(OwingUpdate(s, todo, target)) - 1
                    ELSE Cardinality(OwingUpdate(s, todo, target))
  <2> DEFINE U == OwingUpdate(s, todo, target)
  <2>1. IsFiniteSet(U) /\ Cardinality(U) \in Nat
    BY Countable DEF CountInv, CountTypes
  <2>2. OwingUpdate(s, todo', target') = IF s = target[f][1] THEN U \ {f} ELSE U
    BY <1>4
  <2>3. s = target[f][1] => f \in U
    BY <1>3 DEF OwingUpdate
  <2> HIDE DEF U
  <2>4. CASE s = target[f][1]
    <3>1. IsFiniteSet(U \ {f}) /\ Cardinality(U \ {f}) = Cardinality(U) - 1
      BY <2>1, <2>3, <2>4, OneFewer
    <3>2. QED
      BY <2>1, <2>2, <2>4, <3>1 DEF U
  <2>5. CASE s # target[f][1]
    BY <2>1, <2>2, <2>5 DEF U
  <2>6. QED
    BY <2>4, <2>5
<1>6. CountTypes'
  BY <1>1, <1>3, <1>5 DEF CountInv, CountTypes
<1>7. ASSUME NEW s \in {"spot", "futures"}
      PROVE  quotes'[<<s, "bid">>] + quotes'[<<s, "ask">>]
               + Cardinality(OwingUpdate(s, todo', target')) = arrived'[s]
  <2>1. PICK r \in {"spot", "futures"}, side \in Sides : target[f] = <<r, side>>
    BY <1>2 DEF QuoteNames
  <2>2. side = "bid" \/ side = "ask"
    BY DEF Sides
  <2>3. <<s, "bid">> \in QuoteNames /\ <<s, "ask">> \in QuoteNames /\ target[f][1] = r
    BY <2>1 DEF QuoteNames, Sides
  <2>4. \A q \in QuoteNames : /\ quotes[q] \in Nat
                              /\ quotes'[q] = IF q = target[f] THEN quotes[q] + 1 ELSE quotes[q]
    BY <1>1, <1>2
  <2>5. quotes[<<s, "bid">>] + quotes[<<s, "ask">>]
          + Cardinality(OwingUpdate(s, todo, target)) = arrived[s]
    BY DEF CountInv, Counted
  <2>6. CASE s = r
    <3>1. quotes'[<<s, "bid">>] + quotes'[<<s, "ask">>]
            = quotes[<<s, "bid">>] + quotes[<<s, "ask">>] + 1
      BY <2>1, <2>2, <2>3, <2>4, <2>6
    <3>2. Cardinality(OwingUpdate(s, todo', target'))
            = Cardinality(OwingUpdate(s, todo, target)) - 1
      BY <1>5, <2>3, <2>6
    <3>3. QED
      BY <1>1, <1>5, <2>3, <2>4, <2>5, <3>1, <3>2
  <2>7. CASE s # r
    <3>1. /\ quotes'[<<s, "bid">>] = quotes[<<s, "bid">>]
          /\ quotes'[<<s, "ask">>] = quotes[<<s, "ask">>]
      BY <2>1, <2>3, <2>4, <2>7
    <3>2. QED
      BY <1>1, <1>5, <2>3, <2>5, <2>7, <3>1
  <2>8. QED
    BY <2>6, <2>7
<1>8. Counted'
  BY <1>1, <1>3, <1>7 DEF CountInv, Counted, config
<1>9. QED
  BY <1>6, <1>8 DEF CountInv

LEMMA CountAddToHistory ==
  ASSUME PathInv, CountInv, NEW f \in Feeds, AddToHistory(f)
  PROVE  CountInv'
<1>1. /\ Doing(f, AddPrice) /\ target' = target /\ price_history' = price_history + 1
      /\ UNCHANGED <<config, quotes, observations, ticks_processed, arrived>>
  BY DEF AddToHistory, history
<1>2. /\ \A g \in Feeds : Once(todo'[g])
      /\ Owing(Record, todo') = Owing(Record, todo)
      /\ Owing(AddPrice, todo') = Owing(AddPrice, todo) \ {f} /\ f \in Owing(AddPrice, todo)
      /\ Owing(AddObservation, todo') = Owing(AddObservation, todo)
  BY <1>1, OwingDone, Different DEF Kinds
<1>3. \A s \in {"spot", "futures"} : OwingUpdate(s, todo', target') = OwingUpdate(s, todo, target)
  BY <1>1, UpdateDone, Different
<1>4. /\ IsFiniteSet(Owing(AddPrice, todo')) /\ Cardinality(Owing(AddPrice, todo)) \in Nat
      /\ Cardinality(Owing(AddPrice, todo')) = Cardinality(Owing(AddPrice, todo)) - 1
  BY <1>2, OneFewer DEF CountInv, CountTypes
<1>5. CountTypes'
  BY <1>1, <1>2, <1>3, <1>4 DEF CountInv, CountTypes
<1>6. price_history' + Cardinality(Owing(AddPrice, todo'))
        = price_history + Cardinality(Owing(AddPrice, todo))
  BY <1>1, <1>4 DEF CountInv, CountTypes
<1>7. Counted'
  BY <1>1, <1>2, <1>3, <1>6 DEF CountInv, Counted, config
<1>8. QED
  BY <1>5, <1>7 DEF CountInv

LEMMA CountObserve ==
  ASSUME PathInv, CountInv, NEW f \in Feeds, Observe(f)
  PROVE  CountInv'
<1>1. /\ Doing(f, AddObservation) /\ target' = target
      /\ \E o : observations' = Append(observations, o)
      /\ UNCHANGED <<config, quotes, price_history, ticks_processed, arrived>>
  BY DEF Observe, history
<1>2. /\ \A g \in Feeds : Once(todo'[g])
      /\ Owing(Record, todo') = Owing(Record, todo)
      /\ Owing(AddPrice, todo') = Owing(AddPrice, todo)
      /\ Owing(AddObservation, todo') = Owing(AddObservation, todo) \ {f}
      /\ f \in Owing(AddObservation, todo)
  BY <1>1, OwingDone, Different DEF Kinds
<1>3. \A s \in {"spot", "futures"} : OwingUpdate(s, todo', target') = OwingUpdate(s, todo, target)
  BY <1>1, UpdateDone, Different
<1>4. /\ IsFiniteSet(Owing(AddObservation, todo'))
      /\ Cardinality(Owing(AddObservation, todo)) \in Nat
      /\ Cardinality(Owing(AddObservation, todo')) = Cardinality(Owing(AddObservation, todo)) - 1
  BY <1>2, OneFewer DEF CountInv, CountTypes
<1>5. CountTypes'
  BY <1>1, <1>2, <1>3, <1>4 DEF CountInv, CountTypes
<1>6. Len(observations') = Len(observations) + 1 /\ Len(observations) \in Nat
  <2>1. observations \in Seq(Observations)
    BY DEF PathInv, PathTypes
  <2>2. QED
    BY <1>1, <2>1
<1>7. Len(observations') + Cardinality(Owing(AddObservation, todo'))
        = Len(observations) + Cardinality(Owing(AddObservation, todo))
  BY <1>4, <1>6
<1>8. Counted'
  BY <1>1, <1>2, <1>3, <1>7 DEF CountInv, Counted, config
<1>9. QED
  BY <1>5, <1>8 DEF CountInv

LEMMA CountRecordLatency ==
  ASSUME PathInv, CountInv, NEW f \in Feeds, RecordLatency(f)
  PROVE  CountInv'
<1>1. /\ Doing(f, Record) /\ ticks_processed' = ticks_processed + 1
      /\ target' = [target EXCEPT ![f] = <<"other", "bid">>]
      /\ UNCHANGED <<config, quotes, price_history, observations, arrived>>
  BY DEF RecordLatency
<1>2. /\ \A g \in Feeds : Once(todo'[g])
      /\ Owing(Record, todo') = Owing(Record, todo) \ {f} /\ f \in Owing(Record, todo)
      /\ Owing(AddPrice, todo') = Owing(AddPrice, todo)
      /\ Owing(AddObservation, todo') = Owing(AddObservation, todo)
  BY <1>1, OwingDone, Different DEF Kinds
<1>3. \A g \in Feeds \ {f} : target'[g] = target[g]
  BY <1>1 DEF PathInv, PathTypes, Workers
<1>4. \A s \in {"spot", "futures"} : OwingUpdate(s, todo', target') = OwingUpdate(s, todo, target)
  BY <1>1, <1>3, UpdateDone, Different
<1>5. /\ IsFiniteSet(Owing(Record, todo')) /\ Cardinality(Owing(Record, todo)) \in Nat
      /\ Cardinality(Owing(Record, todo')) = Cardinality(Owing(Record, todo)) - 1
  BY <1>2, OneFewer DEF CountInv, CountTypes
<1>6. CountTypes'
  BY <1>1, <1>2, <1>4, <1>5 DEF CountInv, CountTypes
<1>7. ticks_processed' + Cardinality(Owing(Record, todo'))
        = ticks_processed + Cardinality(Owing(Record, todo))
  BY <1>1, <1>5 DEF CountInv, CountTypes
<1>8. Counted'
  BY <1>1, <1>2, <1>4, <1>7 DEF CountInv, Counted, config
<1>9. QED
  BY <1>6, <1>8 DEF CountInv

\* Asking for a recommendation takes nothing from the feeds.
LEMMA CountBeginHedge ==
  ASSUME PathInv, CountInv, NEW h \in Hedgers, NEW side \in Sides, BeginHedge(h, side)
  PROVE  CountInv'
<1>1. /\ Begin(h, HedgeSteps(side), <<"futures", side>>) /\ arrived' = arrived
      /\ UNCHANGED <<config, quotes, price_history, observations, ticks_processed>>
  BY DEF BeginHedge, Begin
<1>2. \A g \in Feeds : todo'[g] = todo[g] /\ target'[g] = target[g]
  BY <1>1, TickPathAssumption DEF Begin, PathInv, PathTypes, Workers
<1>3. \A x : Owing(x, todo') = Owing(x, todo)
  BY <1>2 DEF Owing
<1>4. \A s : OwingUpdate(s, todo', target') = OwingUpdate(s, todo, target)
  <2>1. \A g \in Owing(Update, todo) : g \in Feeds
    BY DEF Owing
  <2>2. QED
    BY <1>2, <1>3, <2>1 DEF OwingUpdate
<1>5. QED
  BY <1>1, <1>2, <1>3, <1>4 DEF CountInv, CountTypes, Counted, config

LEMMA CountUnchanged ==
  ASSUME CountInv, UNCHANGED vars
  PROVE  CountInv'
BY DEF CountInv, CountTypes, Counted, vars, config, history

LEMMA CountInit ==
  ASSUME Init
  PROVE  CountInv
<1>1. \A g \in Feeds : todo[g] = << >> /\ Len(todo[g]) = 0
  BY DEF Init, Workers
<1>2. \A x : Owing(x, todo) = {}
  BY <1>1 DEF Owing, In
<1>3. \A s : OwingUpdate(s, todo, target) = {}
  BY <1>2 DEF OwingUpdate
<1>4. \A g \in Feeds : Once(todo[g])
  BY <1>1 DEF Once
<1>5. /\ ticks_processed = 0 /\ price_history = 0 /\ Len(observations) = 0
      /\ \A s \in Symbols : arrived[s] = 0
      /\ arrived \in [Symbols -> Nat]
      /\ \A q \in QuoteNames : quotes[q] = 0
  BY DEF Init, NoQuotes
<1>6. /\ "spot" \in Symbols /\ "futures" \in Symbols /\ "other" \in Symbols
      /\ \A s \in {"spot", "futures"} : <<s, "bid">> \in QuoteNames /\ <<s, "ask">> \in QuoteNames
  BY DEF Symbols, QuoteNames, Sides
<1>7. CountTypes
  BY <1>2, <1>3, <1>4, <1>5, FS_EmptySet DEF CountTypes
<1>8. Counted
  <2>1. Cardinality({}) = 0
    BY FS_EmptySet
  <2>2. /\ Cardinality(Owing(Record, todo)) = 0 /\ Cardinality(Owing(AddPrice, todo)) = 0
        /\ Cardinality(Owing(AddObservation, todo)) = 0
        /\ \A s : Cardinality(OwingUpdate(s, todo, target)) = 0
    BY <1>2, <1>3, <2>1
  <2>3. arrived["spot"] = 0 /\ arrived["futures"] = 0 /\ arrived["other"] = 0
    BY <1>5, <1>6
  <2>4. ASSUME NEW s \in {"spot", "futures"}
        PROVE  quotes[<<s, "bid">>] + quotes[<<s, "ask">>]
                 + Cardinality(OwingUpdate(s, todo, target)) = arrived[s]
    <3>1. quotes[<<s, "bid">>] = 0 /\ quotes[<<s, "ask">>] = 0
      BY <1>5, <1>6
    <3>2. QED
      BY <2>2, <2>3, <3>1
  <2>5. QED
    BY <1>5, <2>2, <2>3, <2>4 DEF Counted
<1>9. QED
  BY <1>7, <1>8 DEF CountInv

\* Whenever no thread is in on_tick, every tick has been counted, put in its book
\* and given to its strategy exactly once, for any number of feed threads.
THEOREM TicksProcessedOnceHolds == Spec => []TicksProcessedOnce
<1>1. ASSUME PathInv, CountInv, Next PROVE CountInv'
  <2>1. ASSUME NEW f \in Feeds, FeedStep(f) PROVE CountInv'
    BY <1>1, <2>1, CountBegin, CountUpdateBook, CountAddToHistory, CountObserve,
      CountRecordLatency DEF FeedStep
  <2>2. QED
    BY <1>1, <2>1, CountBeginHedge, OwingLoad DEF Next
<1>2. PathInv /\ CountInv /\ [Next]_vars => CountInv'
  BY <1>1, CountUnchanged
<1>3. CountInv /\ PathInv => TicksProcessedOnce
  <2> SUFFICES ASSUME CountInv, PathInv, \A f \in Feeds : todo[f] = << >>
               PROVE  /\ ticks_processed = arrived["spot"] + arrived["futures"] + arrived["other"]
                      /\ price_history = IF enable_mean_reversion THEN arrived["spot"] ELSE 0
                      /\ Len(observations) = IF enable_mvhr THEN arrived["futures"] ELSE 0
                      /\ \A s \in {"spot", "futures"} :
                           quotes[<<s, "bid">>] + quotes[<<s, "ask">>] = arrived[s]
    BY DEF TicksProcessedOnce
  <2>1. \A g \in Feeds : Len(todo[g]) = 0
    OBVIOUS
  <2>2. \A x : Owing(x, todo) = {}
    BY <2>1 DEF Owing, In
  <2>3. \A s : OwingUpdate(s, todo, target) = {}
    BY <2>2 DEF OwingUpdate
  <2>4. /\ ticks_processed \in Nat /\ price_history \in Nat /\ Len(observations) \in Nat
        /\ \A q \in QuoteNames : quotes[q] \in Nat
    BY DEF CountInv, CountTypes, PathInv, PathTypes
  <2>5. \A s \in {"spot", "futures"} : <<s, "bid">> \in QuoteNames /\ <<s, "ask">> \in QuoteNames
    BY DEF QuoteNames, Sides
  <2>6. QED
    BY <2>2, <2>3, <2>4, <2>5, FS_EmptySet DEF CountInv, Counted
<1>4. QED
  BY CountInit, PathInvariance, <1>2, <1>3, PTL DEF Spec
=============================================================================
