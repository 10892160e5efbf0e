------------------------- MODULE SparkSpreadProofs -------------------------
(***************************************************************************)
(* The invariants of SparkSpread, for any number of threads, any spreads   *)
(* and any plant: the types, with the average staying in the range of the  *)
(* spreads although its updates are lost or start from stale values; that  *)
(* a plant worth selling is sold once; that the legs balance between       *)
(* executions; and that get_positions is torn by one sale of each thread.  *)
(***************************************************************************)
EXTENDS SparkSpread, FiniteSetTheorems, TLAPS

Views == [Locations -> Nat \ {0}]
Messages == [val : Int, view : Views]

\* No view in a message, of a hedger or of the reader points past the end of
\* a location.
Within(m, v) == v \in Views /\ \A x \in Locations : v[x] <= Len(m[x])

Memory ==
  /\ mem \in [Locations -> Seq(Messages)]
  /\ \A x \in Locations : mem[x] # << >>
  /\ \A x \in Locations : \A i \in 1..Len(mem[x]) : Within(mem, mem[x][i].view)
  /\ \A i \in 1..Len(mem["avg"]) : InRange(mem["avg"][i].val)

Threads ==
  /\ view \in [Hedgers -> Views]
  /\ \A h \in Hedgers : Within(mem, view[h])
  /\ pc \in [Hedgers -> {"idle", "average", "rehedge", "urgency", "power", "gas", "co2"}]
  /\ average \in [Hedgers -> Int]
  /\ \A h \in Hedgers : InRange(average[h])
  /\ hours \in [Hedgers -> Nat]
  /\ Within(mem, rview)
  /\ seen \in Seq(Nat)
  /\ asks \in 0..MaxAsks

SInv == Memory /\ Threads

-----------------------------------------------------------------------------
\* The cast is at most one off the exact quotient.
LEMMA TruncDivInt ==
  ASSUME NEW a \in Int, NEW b \in Nat \ {0}
  PROVE  TruncDiv(a, b) \in Int
<1>1. CASE a >= 0
  BY <1>1 DEF TruncDiv
<1>2. CASE ~(a >= 0)
  <2>1. -a \in Nat
    BY <1>2
  <2>2. (-a) \div b \in Int
    BY <2>1
  <2> QED BY <2>2, <1>2 DEF TruncDiv
<1> QED BY <1>1, <1>2

LEMMA CastInt ==
  ASSUME NEW a \in Int, NEW b \in Nat \ {0}, NEW n \in Cast(a, b)
  PROVE  n \in Int
BY TruncDivInt DEF Cast

LEMMA CastNear ==
  ASSUME NEW a \in Int, NEW n \in Cast(a, 20)
  PROVE  a - 20 <= 20 * n /\ 20 * n <= a + 20
<1>1. TruncDiv(a, 20) \in Int
  BY TruncDivInt
<1>2. CASE a >= 0
  <2>1. TruncDiv(a, 20) = a \div 20
    BY <1>2 DEF TruncDiv
  <2>2. n = a \div 20 \/ (a % 20 = 0 /\ n = (a \div 20) - 1)
    BY <1>2, <2>1 DEF Cast
  <2> QED BY <1>2, <2>2
<1>3. CASE a < 0
  <2>1. TruncDiv(a, 20) = -((-a) \div 20)
    BY <1>3 DEF TruncDiv
  <2>2. n = -((-a) \div 20) \/ (a % 20 = 0 /\ n = (-((-a) \div 20)) + 1)
    BY <1>3, <2>1 DEF Cast
  <2> QED BY <1>3, <2>2
<1> QED BY <1>2, <1>3

\* The next average stays in the range.
LEMMA AverageStays ==
  ASSUME NEW avg \in Int, InRange(avg), NEW s \in Spreads,
         NEW n \in MovingAverage(avg, s)
  PROVE  n \in Int /\ InRange(n)
<1>1. s \in Int /\ 19 * avg + s \in Int
  BY SpreadAssumption
<1>2. n \in Int
  BY <1>1, CastInt DEF MovingAverage
<1>3. 19 * avg + s - 20 <= 20 * n /\ 20 * n <= (19 * avg + s) + 20
  <2>1. (19 * avg + s) - 20 <= 20 * n /\ 20 * n <= (19 * avg + s) + 20
    BY <1>1, CastNear DEF MovingAverage
  <2> QED BY <2>1, <1>1, <1>2
<1>4. PICK low \in Spreads \union {TargetSpread} : low - 20 <= avg
  BY DEF InRange
<1>5. PICK high \in Spreads \union {TargetSpread} : avg <= high + 20
  BY DEF InRange
<1>6. low \in Int /\ high \in Int
  BY SpreadAssumption
<1>7. low - 20 <= n \/ s - 20 <= n
  BY <1>1, <1>2, <1>3, <1>4, <1>6
<1>8. n <= high + 20 \/ n <= s + 20
  BY <1>1, <1>2, <1>3, <1>5, <1>6
<1> QED BY <1>2, <1>7, <1>8 DEF InRange

-----------------------------------------------------------------------------
LEMMA JoinWithin ==
  ASSUME NEW v, NEW w, Within(mem, v), Within(mem, w)
  PROVE  Within(mem, Join(v, w))
BY DEF Within, Join, Views

\* A load of message i.
LEMMA SeenWithin ==
  ASSUME Memory, NEW v, Within(mem, v), NEW x \in Locations, NEW i \in v[x]..Len(mem[x])
  PROVE  /\ Within(mem, [v EXCEPT ![x] = i])
         /\ i \in 1..Len(mem[x])
         /\ Within(mem, mem[x][i].view)
<1>1. v[x] \in Nat \ {0} /\ Len(mem[x]) \in Nat
  BY DEF Within, Views, Memory
<1>2. i \in 1..Len(mem[x])
  BY <1>1
<1>3. Within(mem, [v EXCEPT ![x] = i])
  BY <1>2 DEF Within, Views
<1> QED BY <1>2, <1>3 DEF Memory

\* A message is added.
LEMMA PutMemory ==
  ASSUME SInv, NEW h \in Hedgers, NEW x \in Locations, NEW n \in Int, NEW old,
         Within(mem, old), x = "avg" => InRange(n), Put(h, x, n, old)
  PROVE  /\ Memory'
         /\ \A v : Within(mem, v) => Within(mem', v)
         /\ view' \in [Hedgers -> Views]
         /\ \A g \in Hedgers : Within(mem', view'[g])
<1> DEFINE new == [old EXCEPT ![x] = Len(mem[x]) + 1]
           m == [val |-> n, view |-> new]
<1>1. /\ mem' = [mem EXCEPT ![x] = Append(mem[x], m)]
      /\ view' = [view EXCEPT ![h] = new]
  BY DEF Put, Carried
<1>2. \A y \in Locations : mem[y] \in Seq(Messages) /\ Len(mem[y]) \in Nat
  BY DEF SInv, Memory
<1>3. new \in Views
  BY <1>2 DEF Within, Views
<1>4. m \in Messages
  BY <1>3 DEF Messages
<1> HIDE DEF m
<1>5. /\ mem'[x] = Append(mem[x], m)
      /\ \A y \in Locations : y # x => mem'[y] = mem[y]
      /\ mem' \in [Locations -> Seq(Messages)]
  <2>1. mem \in [Locations -> Seq(Messages)]
    BY DEF SInv, Memory
  <2>2. Append(mem[x], m) \in Seq(Messages)
    BY <1>2, <1>4
  <2> QED BY <1>1, <2>1, <2>2
<1>6. /\ Len(mem'[x]) = Len(mem[x]) + 1
      /\ \A i \in 1..Len(mem[x]) : mem'[x][i] = mem[x][i]
      /\ mem'[x][Len(mem[x]) + 1] = m
  BY <1>2, <1>4, <1>5
<1>7. \A y \in Locations : Len(mem[y]) <= Len(mem'[y])
  BY <1>2, <1>5, <1>6
<1>8. ASSUME NEW v, Within(mem, v) PROVE Within(mem', v)
  <2>1. \A y \in Locations : v[y] \in Nat /\ Len(mem'[y]) \in Nat
    BY <1>8, <1>5 DEF Within, Views
  <2> QED BY <1>8, <1>2, <1>7, <2>1 DEF Within
<1>9. Within(mem', new)
  <2>1. \A y \in Locations : y # x => new[y] = old[y]
    BY DEF Within, Views
  <2>2. new[x] = Len(mem[x]) + 1
    BY DEF Within, Views
  <2>3. \A y \in Locations : old[y] <= Len(mem'[y])
    BY <1>8 DEF Within
  <2> HIDE DEF new
  <2> QED BY <1>3, <1>6, <2>1, <2>2, <2>3 DEF Within
<1> HIDE DEF new
<1>10. m.val = n /\ m.view = new
  BY DEF m
<1>11. \A y \in Locations : mem'[y] # << >>
  BY <1>2, <1>5, <1>6, <1>4 DEF SInv, Memory
<1>12. ASSUME NEW y \in Locations, NEW i \in 1..Len(mem'[y])
       PROVE  Within(mem', mem'[y][i].view)
  <2>1. CASE y # x \/ i \in 1..Len(mem[x])
    <3>1. mem'[y][i] = mem[y][i] /\ i \in 1..Len(mem[y])
      BY <2>1, <1>12, <1>5, <1>6
    <3>2. Within(mem, mem[y][i].view)
      BY <3>1 DEF SInv, Memory
    <3> QED BY <3>1, <3>2, <1>8
  <2>2. CASE y = x /\ i \notin 1..Len(mem[x])
    <3>1. i = Len(mem[x]) + 1
      BY <2>2, <1>2, <1>6, <1>12
    <3>2. mem'[y][i].view = new
      BY <3>1, <2>2, <1>6, <1>10
    <3> QED BY <3>2, <1>9
  <2> QED BY <2>1, <2>2
<1>13. ASSUME NEW i \in 1..Len(mem'["avg"]) PROVE InRange(mem'["avg"][i].val)
  <2>1. CASE x # "avg" \/ i \in 1..Len(mem[x])
    BY <2>1, <1>5, <1>6, <1>13 DEF SInv, Memory, Locations
  <2>2. CASE x = "avg" /\ i \notin 1..Len(mem[x])
    <3>1. i = Len(mem[x]) + 1
      BY <2>2, <1>2, <1>6, <1>13
    <3> QED BY <3>1, <2>2, <1>6, <1>10
  <2> QED BY <2>1, <2>2
<1>14. Memory'
  BY <1>5, <1>11, <1>12, <1>13 DEF Memory
<1>15. view' \in [Hedgers -> Views]
  BY <1>1, <1>3 DEF SInv, Threads
<1>16. ASSUME NEW g \in Hedgers PROVE Within(mem', view'[g])
  <2>1. CASE g = h
    BY <2>1, <1>1, <1>9 DEF SInv, Threads
  <2>2. CASE g # h
    <3>1. view'[g] = view[g]
      BY <2>2, <1>1 DEF SInv, Threads
    <3>2. Within(mem, view[g])
      BY DEF SInv, Threads
    <3> QED BY <3>1, <3>2, <1>8
  <2> QED BY <2>1, <2>2
<1> QED BY <1>8, <1>14, <1>15, <1>16

-----------------------------------------------------------------------------
LEMMA OneMessage ==
  ASSUME NEW m \in Messages
  PROVE  /\ <<m>> \in Seq(Messages) /\ <<m>> # << >>
         /\ Len(<<m>>) = 1 /\ <<m>>[1] = m
OBVIOUS

LEMMA InitSInv == Init => SInv
<1> SUFFICES ASSUME Init PROVE SInv
  OBVIOUS
<1> DEFINE first(x) == [val |-> IF x = "avg" THEN TargetSpread ELSE 0, view |-> StartView]
<1>1. StartView \in Views
  BY DEF StartView, Views
<1>2. \A x \in Locations : first(x) \in Messages /\ first(x).view = StartView
  BY <1>1, SpreadAssumption DEF Messages
<1>3. first("avg").val = TargetSpread
  OBVIOUS
<1>4. mem = [x \in Locations |-> <<first(x)>>]
  BY DEF Init
<1> HIDE DEF first
<1>5. \A x \in Locations :
        /\ mem[x] \in Seq(Messages) /\ mem[x] # << >>
        /\ Len(mem[x]) = 1 /\ mem[x][1] = first(x)
  BY <1>2, <1>4, OneMessage
<1>6. Within(mem, StartView)
  <2>1. \A x \in Locations : StartView[x] = 1
    BY DEF StartView
  <2> QED BY <1>1, <1>5, <2>1 DEF Within
<1>7. InRange(TargetSpread) /\ TargetSpread \in Int
  BY SpreadAssumption DEF InRange
<1>8. Memory
  <2>1. mem \in [Locations -> Seq(Messages)]
    BY <1>4, <1>5
  <2>2. \A x \in Locations : \A i \in 1..Len(mem[x]) : i = 1
    <3> TAKE x \in Locations
    <3>1. Len(mem[x]) = 1
      BY <1>5
    <3>2. \A n, i : n = 1 /\ i \in 1..n => i = 1
      OBVIOUS
    <3> QED BY <3>1, <3>2
  <2>3. \A x \in Locations : \A i \in 1..Len(mem[x]) : Within(mem, mem[x][i].view)
    BY <2>2, <1>2, <1>5, <1>6
  <2>4. "avg" \in Locations
    BY DEF Locations
  <2>5. \A i \in 1..Len(mem["avg"]) : InRange(mem["avg"][i].val)
    BY <2>2, <2>4, <1>3, <1>5, <1>7
  <2> QED BY <2>1, <2>3, <2>5, <1>5 DEF Memory
<1>9. Threads
  <2>1. /\ view \in [Hedgers -> Views] /\ \A h \in Hedgers : Within(mem, view[h])
        /\ Within(mem, rview)
    BY <1>1, <1>6 DEF Init
  <2>2. /\ average \in [Hedgers -> Int] /\ \A h \in Hedgers : InRange(average[h])
    BY <1>7 DEF Init
  <2>3. /\ pc \in [Hedgers -> {"idle", "average", "rehedge", "urgency", "power", "gas", "co2"}]
        /\ hours \in [Hedgers -> Nat] /\ seen \in Seq(Nat)
    BY DEF Init
  <2>4. asks \in 0..MaxAsks
    BY AsksAssumption DEF Init
  <2> QED BY <2>1, <2>2, <2>3, <2>4 DEF Threads
<1> QED BY <1>8, <1>9 DEF SInv

\* Nothing is stored, a view moves forward.
LEMMA LoadMemory ==
  ASSUME SInv, mem' = mem, NEW h \in Hedgers, NEW v, Within(mem, v),
         view' = [view EXCEPT ![h] = v]
  PROVE  /\ Memory'
         /\ view' \in [Hedgers -> Views]
         /\ \A g \in Hedgers : Within(mem', view'[g])
<1>1. Memory'
  BY DEF SInv, Memory
<1>2. view' \in [Hedgers -> Views]
  BY DEF SInv, Threads, Within
<1>3. \A g \in Hedgers : Within(mem, view'[g])
  BY DEF SInv, Threads
<1> QED BY <1>1, <1>2, <1>3

LEMMA AskStep ==
  ASSUME SInv, NEW h \in Hedgers, NEW s \in Spreads, NEW n \in Hours, Ask(h, s, n)
  PROVE  SInv'
<1>1. PICK i \in view[h]["avg"]..Len(mem["avg"]) :
        /\ view' = [view EXCEPT ![h] = [view[h] EXCEPT !["avg"] = i]]
        /\ \E new \in MovingAverage(mem["avg"][i].val, s) :
             average' = [average EXCEPT ![h] = new]
  BY DEF Ask
<1>2. PICK new \in MovingAverage(mem["avg"][i].val, s) :
        average' = [average EXCEPT ![h] = new]
  BY <1>1
<1>3. "avg" \in Locations /\ Memory /\ Within(mem, view[h])
  BY DEF SInv, Threads, Locations
<1>4. /\ Within(mem, [view[h] EXCEPT !["avg"] = i])
      /\ i \in 1..Len(mem["avg"])
  BY <1>3, SeenWithin
<1>5. mem["avg"][i].val \in Int /\ InRange(mem["avg"][i].val)
  <2>1. mem["avg"] \in Seq(Messages)
    BY <1>3 DEF Memory
  <2>2. mem["avg"][i] \in Messages
    BY <2>1, <1>4
  <2> QED BY <2>2, <1>3, <1>4 DEF Memory, Messages
<1>6. new \in Int /\ InRange(new)
  BY <1>5, AverageStays
<1>7. mem' = mem
  BY DEF Ask
<1>8. /\ Memory' /\ view' \in [Hedgers -> Views]
      /\ \A g \in Hedgers : Within(mem', view'[g])
  BY <1>1, <1>4, <1>7, LoadMemory
<1>9. Threads'
  <2>1. average' \in [Hedgers -> Int] /\ \A g \in Hedgers : InRange(average'[g])
    BY <1>2, <1>6 DEF SInv, Threads
  <2>2. pc' \in [Hedgers -> {"idle", "average", "rehedge", "urgency", "power", "gas", "co2"}]
    BY DEF Ask, SInv, Threads
  <2>3. hours' \in [Hedgers -> Nat]
    BY PlantAssumption DEF Ask, SInv, Threads
  <2>4. rview' = rview /\ seen' = seen
    BY DEF Ask, reader
  <2>5. Within(mem', rview') /\ seen' \in Seq(Nat)
    BY <2>4, <1>7 DEF SInv, Threads
  <2>6. asks' \in 0..MaxAsks
    BY AsksAssumption DEF Ask, SInv, Threads
  <2> QED BY <2>1, <2>2, <2>3, <2>5, <2>6, <1>8 DEF Threads
<1> QED BY <1>8, <1>9 DEF SInv

\* What a step leaves alone when it only moves a hedger on.
LEMMA OtherThreads ==
  ASSUME SInv, NEW h \in Hedgers,
         NEW next \in {"idle", "average", "rehedge", "urgency", "power", "gas", "co2"},
         pc' = [pc EXCEPT ![h] = next],
         UNCHANGED <<average, hours, rview, seen, asks>>,
         \A v : Within(mem, v) => Within(mem', v),
         view' \in [Hedgers -> Views],
         \A g \in Hedgers : Within(mem', view'[g])
  PROVE  Threads'
<1>1. Within(mem, rview)
  BY DEF SInv, Threads
<1>2. Within(mem', rview')
  BY <1>1
<1>3. pc' \in [Hedgers -> {"idle", "average", "rehedge", "urgency", "power", "gas", "co2"}]
  BY DEF SInv, Threads
<1>4. /\ average' \in [Hedgers -> Int] /\ \A g \in Hedgers : InRange(average'[g])
      /\ hours' \in [Hedgers -> Nat]
      /\ seen' \in Seq(Nat) /\ asks' \in 0..MaxAsks
  BY DEF SInv, Threads
<1> QED BY <1>2, <1>3, <1>4 DEF Threads

LEMMA StoreAverageStep ==
  ASSUME SInv, NEW h \in Hedgers, StoreAverage(h)
  PROVE  SInv'
<1>1. /\ average[h] \in Int /\ InRange(average[h]) /\ Within(mem, view[h])
      /\ "avg" \in Locations
  BY DEF SInv, Threads, Locations
<1>2. Put(h, "avg", average[h], view[h])
  BY DEF StoreAverage
<1>3. /\ Memory' /\ \A v : Within(mem, v) => Within(mem', v)
      /\ view' \in [Hedgers -> Views]
      /\ \A g \in Hedgers : Within(mem', view'[g])
  BY <1>1, <1>2, PutMemory
<1>4. PICK next \in {"idle", "rehedge"} : pc' = [pc EXCEPT ![h] = next]
  BY DEF StoreAverage
<1>5. UNCHANGED <<average, hours, rview, seen, asks>>
  BY DEF StoreAverage, reader, history
<1>6. Threads'
  BY <1>3, <1>4, <1>5, OtherThreads
<1> QED BY <1>3, <1>6 DEF SInv

\* The load of power_hedge, whatever is decided then.
LEMMA LoadPowerStep ==
  ASSUME SInv, NEW h \in Hedgers, mem' = mem,
         NEW i \in view[h]["power"]..Len(mem["power"]), LoadPower(h, i)
  PROVE  /\ Memory' /\ view' \in [Hedgers -> Views]
         /\ \A g \in Hedgers : Within(mem', view'[g])
<1>1. "power" \in Locations /\ Memory /\ Within(mem, view[h])
  BY DEF SInv, Threads, Locations, Legs
<1>2. Within(mem, [view[h] EXCEPT !["power"] = i]) /\ Within(mem, mem["power"][i].view)
  BY <1>1, SeenWithin
<1>3. Within(mem, Join([view[h] EXCEPT !["power"] = i], mem["power"][i].view))
  BY <1>2, JoinWithin
<1> QED BY <1>3, LoadMemory DEF LoadPower

LEMMA DecideStep ==
  ASSUME SInv, NEW h \in Hedgers, KeepHedge(h) \/ Rehedge(h)
  PROVE  SInv'
<1>1. mem' = mem /\ UNCHANGED <<average, hours, rview, seen, asks>>
  BY DEF KeepHedge, Rehedge, reader, history
<1>2. PICK i \in view[h]["power"]..Len(mem["power"]) : LoadPower(h, i)
  BY DEF KeepHedge, Rehedge
<1>3. PICK next \in {"idle", "urgency"} : pc' = [pc EXCEPT ![h] = next]
  BY DEF KeepHedge, Rehedge
<1>4. /\ Memory' /\ view' \in [Hedgers -> Views]
      /\ \A g \in Hedgers : Within(mem', view'[g])
  BY <1>1, <1>2, LoadPowerStep
<1>5. Threads'
  BY <1>1, <1>3, <1>4, OtherThreads
<1> QED BY <1>4, <1>5 DEF SInv

LEMMA RecommendStep ==
  ASSUME SInv, NEW h \in Hedgers, Recommend(h)
  PROVE  SInv'
<1>1. mem' = mem /\ UNCHANGED <<average, hours, rview, seen, asks>>
  BY DEF Recommend, reader, history
<1>2. PICK i \in view[h]["avg"]..Len(mem["avg"]) :
        view' = [view EXCEPT ![h] = [view[h] EXCEPT !["avg"] = i]]
  BY DEF Recommend
<1>3. "avg" \in Locations /\ Memory /\ Within(mem, view[h])
  BY DEF SInv, Threads, Locations
<1>4. Within(mem, [view[h] EXCEPT !["avg"] = i])
  BY <1>3, SeenWithin
<1>5. /\ Memory' /\ view' \in [Hedgers -> Views]
      /\ \A g \in Hedgers : Within(mem', view'[g])
  BY <1>1, <1>2, <1>4, LoadMemory
<1>6. Threads'
  BY <1>1, <1>5, OtherThreads DEF Recommend
<1> QED BY <1>5, <1>6 DEF SInv

LEMMA IgnoreStep ==
  ASSUME SInv, NEW h \in Hedgers, Ignore(h)
  PROVE  SInv'
<1>1. UNCHANGED <<mem, view, average, hours, rview, seen, asks>>
  BY DEF Ignore, reader, history
<1>2. /\ Memory' /\ view' \in [Hedgers -> Views]
      /\ \A g \in Hedgers : Within(mem', view'[g])
  BY <1>1 DEF SInv, Memory, Threads
<1>3. Threads'
  BY <1>1, <1>2, OtherThreads DEF Ignore
<1> QED BY <1>2, <1>3 DEF SInv

\* One fetch_add of execute_hedge.
LEMMA FetchAddMemory ==
  ASSUME SInv, NEW h \in Hedgers, NEW leg \in Legs, NEW n \in Int, FetchAdd(h, leg, n)
  PROVE  /\ Memory' /\ \A v : Within(mem, v) => Within(mem', v)
         /\ view' \in [Hedgers -> Views]
         /\ \A g \in Hedgers : Within(mem', view'[g])
<1>1. leg \in Locations /\ leg # "avg"
  BY DEF Locations, Legs
<1>2. mem[leg] \in Seq(Messages) /\ mem[leg] # << >>
  BY <1>1 DEF SInv, Memory
<1>3. Len(mem[leg]) \in 1..Len(mem[leg])
  BY <1>2
<1>4. mem[leg][Len(mem[leg])] \in Messages
  BY <1>2, <1>3
<1>5. Last(leg) + n \in Int
  BY <1>4 DEF Last, Messages
<1>6. Within(mem, mem[leg][Len(mem[leg])].view) /\ Within(mem, view[h])
  BY <1>1, <1>3 DEF SInv, Memory, Threads
<1>7. Within(mem, Join(view[h], mem[leg][Len(mem[leg])].view))
  BY <1>6, JoinWithin
<1>8. Put(h, leg, Last(leg) + n, Join(view[h], mem[leg][Len(mem[leg])].view))
  BY DEF FetchAdd
<1> QED BY <1>1, <1>5, <1>7, <1>8, PutMemory

LEMMA VolumeInt ==
  ASSUME NEW leg \in Legs, NEW n \in Nat
  PROVE  Volume(leg, n) \in Int
<1>1. CapacityMw * n \in Int /\ HeatRate \in Int /\ EmissionFactor \in Int
  BY PlantAssumption
<1>2. /\ CapacityMw * n * HeatRate \in Int
      /\ CapacityMw * n * HeatRate * EmissionFactor \in Int
      /\ CapacityMw * n * HeatRate * 1000 \in Int
      /\ CapacityMw * n * VolumeScale \in Int
  BY <1>1 DEF VolumeScale
<1> QED BY <1>2 DEF Volume, Legs

LEMMA ExecuteStep ==
  ASSUME SInv, NEW h \in Hedgers, SellPower(h) \/ BuyGas(h) \/ BuyCo2(h)
  PROVE  SInv'
<1>0. PICK leg \in Legs : \E n \in Cast(Volume(leg, hours[h]), VolumeScale) :
        FetchAdd(h, leg, n) \/ FetchAdd(h, leg, -n)
  BY DEF SellPower, BuyGas, BuyCo2, Buy, Legs
<1>1. PICK n \in Cast(Volume(leg, hours[h]), VolumeScale) :
        FetchAdd(h, leg, n) \/ FetchAdd(h, leg, -n)
  BY <1>0
<1>2. n \in Int
  <2>1. Volume(leg, hours[h]) \in Int
    BY VolumeInt DEF SInv, Threads
  <2> QED BY <2>1, CastInt DEF VolumeScale
<1>3. -n \in Int
  BY <1>2
<1>4. /\ Memory' /\ \A v : Within(mem, v) => Within(mem', v)
      /\ view' \in [Hedgers -> Views]
      /\ \A g \in Hedgers : Within(mem', view'[g])
  BY <1>1, <1>2, <1>3, FetchAddMemory
<1>5. PICK next \in {"gas", "co2", "idle"} : pc' = [pc EXCEPT ![h] = next]
  BY DEF SellPower, BuyGas, BuyCo2, Buy
<1>6. UNCHANGED <<average, hours, rview, seen, asks>>
  BY DEF SellPower, BuyGas, BuyCo2, Buy, reader, history
<1>7. Threads'
  BY <1>4, <1>5, <1>6, OtherThreads
<1> QED BY <1>4, <1>7 DEF SInv

LEMMA ReadStep ==
  ASSUME SInv, ReadLeg
  PROVE  SInv'
<1> DEFINE leg == LoadOrder[Len(seen) + 1]
<1>1. leg \in Locations
  BY DEF ReadLeg, LoadOrder, Locations, Legs, SInv, Threads
<1>2. PICK i \in rview[leg]..Len(mem[leg]) :
        /\ seen' = Append(seen, i)
        /\ rview' = Join([rview EXCEPT ![leg] = i], mem[leg][i].view)
  BY DEF ReadLeg
<1>3. UNCHANGED <<mem, view, pc, average, hours, asks>>
  BY DEF ReadLeg, locals, history
<1> HIDE DEF leg
<1>4. Memory /\ Within(mem, rview) /\ seen \in Seq(Nat)
  BY DEF SInv, Threads
<1>5. /\ Within(mem, [rview EXCEPT ![leg] = i]) /\ Within(mem, mem[leg][i].view)
      /\ i \in 1..Len(mem[leg])
  BY <1>1, <1>4, SeenWithin
<1>6. Within(mem, rview')
  BY <1>2, <1>5, JoinWithin
<1>7. seen' \in Seq(Nat)
  <2>1. i \in Nat
    BY <1>5
  <2> QED BY <2>1, <1>2, <1>4
<1>8. Memory'
  BY <1>3 DEF SInv, Memory
<1>9. Threads'
  BY <1>3, <1>6, <1>7 DEF SInv, Threads
<1> QED BY <1>8, <1>9 DEF SInv

LEMMA NextSInv == SInv /\ [Next]_vars => SInv'
<1> SUFFICES ASSUME SInv, [Next]_vars PROVE SInv'
  OBVIOUS
<1>1. ASSUME NEW h \in Hedgers, HedgerStep(h) PROVE SInv'
  <2>1. ASSUME NEW s \in Spreads, NEW n \in Hours, Ask(h, s, n) PROVE SInv'
    BY <2>1, AskStep
  <2>2. CASE StoreAverage(h)
    BY <2>2, StoreAverageStep
  <2>3. CASE KeepHedge(h) \/ Rehedge(h)
    BY <2>3, DecideStep
  <2>4. CASE Recommend(h)
    BY <2>4, RecommendStep
  <2>5. CASE Ignore(h)
    BY <2>5, IgnoreStep
  <2>6. CASE SellPower(h) \/ BuyGas(h) \/ BuyCo2(h)
    BY <2>6, ExecuteStep
  <2> QED BY <1>1, <2>1, <2>2, <2>3, <2>4, <2>5, <2>6 DEF HedgerStep
<1>2. CASE ReadLeg
  BY <1>2, ReadStep
<1>3. CASE UNCHANGED vars
  <2>1. UNCHANGED <<mem, view, pc, average, hours, rview, seen, asks>>
    BY <1>3 DEF vars, locals, reader, history
  <2> QED BY <2>1 DEF SInv, Memory, Threads
<1> QED BY <1>1, <1>2, <1>3 DEF Next

LEMMA SInvTypes == SInv => TypeOK
<1> SUFFICES ASSUME SInv PROVE TypeOK
  OBVIOUS
<1>1. \A x \in Locations : \A i \in 1..Len(mem[x]) : mem[x][i] \in Messages
  <2>1. \A x \in Locations : mem[x] \in Seq(Messages)
    BY DEF SInv, Memory
  <2> QED BY <2>1
<1>2. \A x \in Locations : \A i \in 1..Len(mem[x]) :
        mem[x][i].val \in Int /\ mem[x][i].view \in [Locations -> Nat \ {0}]
  BY <1>1 DEF Messages, Views
<1>3. rview \in [Locations -> Nat \ {0}] /\ \A x \in Locations : rview[x] <= Len(mem[x])
  BY DEF SInv, Threads, Within, Views
<1>4. /\ view \in [Hedgers -> [Locations -> Nat \ {0}]]
      /\ \A h \in Hedgers, x \in Locations : view[h][x] <= Len(mem[x])
  BY DEF SInv, Threads, Within, Views
<1> QED BY <1>2, <1>3, <1>4 DEF SInv, Memory, Threads, TypeOK

(***************************************************************************)
(* For any threads, spreads, hours and plant, and whatever stale values    *)
(* the loads return: types are kept, and the average that                  *)
(* update_avg_spread stores stays within 0.002 of the range of the target  *)
(* and the spreads, although concurrent updates of it are lost.            *)
(***************************************************************************)
THEOREM SparkTypeCorrect == Spec => []TypeOK
<1>1. Init => SInv
  BY InitSInv
<1>2. SInv /\ [Next]_vars => SInv'
  BY NextSInv
<1>3. SInv => TypeOK
  BY SInvTypes
<1> QED BY <1>1, <1>2, <1>3, PTL DEF Spec

-----------------------------------------------------------------------------
(***************************************************************************)
(* SoldOnce.  A conversion loses a hundredth of the power sold, which is   *)
(* less than the threshold from 22 hundredths on.                          *)
(***************************************************************************)
WorthSelling == \A n \in Hours : CapacityMw * n >= 22

OneAsker == \A a, b \in asked : a = b

Unsold == Len(mem["power"]) = 1 /\ mem["power"][1].val = 0

SoldBy(h, n) ==
  /\ Len(mem["power"]) = 2
  /\ mem["power"][2].val \in {-(CapacityMw * n), 1 - CapacityMw * n}
  /\ view[h]["power"] = 2
  /\ pc[h] \notin {"urgency", "power"}

SoldInv ==
  /\ IsFiniteSet(asked) /\ asked \subseteq Hedgers \X Hours
  /\ \A h \in Hedgers : pc[h] # "idle" => <<h, hours[h]>> \in asked
  /\ OneAsker => Unsold \/ \E h \in Hedgers, n \in Hours : <<h, n>> \in asked /\ SoldBy(h, n)

\* The volume of power is a whole number, of which the cast loses one at most.
LEMMA PowerSold ==
  ASSUME NEW n \in Nat, NEW v \in Cast(Volume("power", n), VolumeScale)
  PROVE  v \in {CapacityMw * n, CapacityMw * n - 1}
<1> DEFINE c == CapacityMw * n
<1>1. c \in Nat
  BY PlantAssumption
<1>2. Volume("power", n) = c * 10000
  BY DEF Volume, VolumeScale
<1> HIDE DEF c
<1>3. (c * 10000) \div 10000 = c /\ c * 10000 >= 0 /\ ~(c * 10000 < 0)
  BY <1>1
<1>4. TruncDiv(c * 10000, 10000) = c
  BY <1>3 DEF TruncDiv
<1>5. v \in {c, c - 1}
  BY <1>2, <1>3, <1>4 DEF Cast, VolumeScale
<1> QED BY <1>5 DEF c

\* A plant that is sold is not sold again for the same hours.
LEMMA SoldIsEnough ==
  ASSUME NEW n \in Nat, CapacityMw * n >= 22,
         NEW c \in {-(CapacityMw * n), 1 - CapacityMw * n}
  PROVE  ~AboveThreshold(c, n)
<1> DEFINE p == CapacityMw * n
<1>1. p \in Nat /\ p >= 22 /\ c \in {-p, 1 - p}
  BY PlantAssumption
<1> HIDE DEF p
<1>2. CASE c = -p
  <2>1. Abs(c) = p /\ Abs(p - p) = 0
    BY <1>1, <1>2 DEF Abs
  <2>2. Missing(c, n) = 0
    BY <2>1 DEF Missing, p
  <2> QED BY <1>1, <1>2, <2>1, <2>2 DEF AboveThreshold, ThresholdBps
<1>3. CASE c = 1 - p
  <2>1. Abs(c) = p - 1 /\ Abs(p - (p - 1)) = 1
    BY <1>1, <1>3 DEF Abs
  <2>2. Missing(c, n) = 1
    BY <2>1 DEF Missing, p
  <2> QED BY <1>1, <1>3, <2>1, <2>2 DEF AboveThreshold, ThresholdBps
<1> QED BY <1>1, <1>2, <1>3

\* A step that neither sells nor asks, of hedger h.
LEMMA SoldStays ==
  ASSUME SInv, SoldInv, NEW h \in Hedgers, asked' = asked, hours' = hours,
         mem'["power"] = mem["power"], pc[h] # "idle",
         \E next : pc' = [pc EXCEPT ![h] = next],
         \E v : view' = [view EXCEPT ![h] = v],
         \A n \in Hours : OneAsker /\ SoldBy(h, n) /\ <<h, n>> \in asked =>
           view'[h]["power"] = 2 /\ pc'[h] \notin {"urgency", "power"}
  PROVE  SoldInv'
<1>1. \A g \in Hedgers : pc'[g] # "idle" => <<g, hours'[g]>> \in asked'
  BY DEF SoldInv, SInv, Threads
<1>2. ASSUME OneAsker'
      PROVE  Unsold' \/ \E g \in Hedgers, n \in Hours : <<g, n>> \in asked' /\ SoldBy(g, n)'
  <2>1. OneAsker
    BY <1>2 DEF OneAsker
  <2>2. CASE Unsold
    BY <2>2 DEF Unsold
  <2>3. ASSUME NEW g \in Hedgers, NEW n \in Hours, <<g, n>> \in asked, SoldBy(g, n)
        PROVE  SoldBy(g, n)'
    <3>1. <<h, hours[h]>> \in asked
      BY DEF SoldInv
    <3>2. g = h
      BY <2>1, <2>3, <3>1 DEF OneAsker
    <3>3. view'[h]["power"] = 2 /\ pc'[h] \notin {"urgency", "power"}
      BY <2>1, <2>3, <3>2
    <3> QED BY <2>3, <3>2, <3>3 DEF SoldBy
  <2> QED BY <2>1, <2>2, <2>3 DEF SoldInv
<1>3. IsFiniteSet(asked') /\ asked' \subseteq Hedgers \X Hours
  BY DEF SoldInv
<1> QED BY <1>1, <1>2, <1>3 DEF SoldInv

\* A call begins: if it is still the only one asking, nothing sold changes.
LEMMA SoldAsk ==
  ASSUME SInv, SoldInv, NEW h \in Hedgers, NEW s \in Spreads, NEW m \in Hours, Ask(h, s, m)
  PROVE  SoldInv'
<1>1. /\ asked' = asked \union {<<h, m>>} /\ mem' = mem
      /\ hours' = [hours EXCEPT ![h] = m] /\ pc' = [pc EXCEPT ![h] = "average"]
  BY DEF Ask
<1>2. PICK i : view' = [view EXCEPT ![h] = [view[h] EXCEPT !["avg"] = i]]
  BY DEF Ask
<1>3. /\ IsFiniteSet(asked) /\ asked \subseteq Hedgers \X Hours
      /\ pc \in [Hedgers -> {"idle", "average", "rehedge", "urgency", "power", "gas", "co2"}]
      /\ hours \in [Hedgers -> Nat]
  BY DEF SoldInv, SInv, Threads
<1>4. IsFiniteSet(asked') /\ asked' \subseteq Hedgers \X Hours
  <2>1. IsFiniteSet(asked \union {<<h, m>>})
    BY <1>3, FS_AddElement
  <2>2. asked \union {<<h, m>>} \subseteq Hedgers \X Hours
    BY <1>3
  <2> QED BY <1>1, <2>1, <2>2
<1>5. ASSUME NEW g \in Hedgers, pc'[g] # "idle" PROVE <<g, hours'[g]>> \in asked'
  <2>1. CASE g = h
    BY <2>1, <1>1, <1>3
  <2>2. CASE g # h
    <3>1. pc'[g] = pc[g] /\ hours'[g] = hours[g]
      BY <2>2, <1>1, <1>3
    <3> QED BY <3>1, <1>1, <1>5 DEF SoldInv
  <2> QED BY <2>1, <2>2
<1>6. ASSUME NEW g \in Hedgers PROVE view'[g]["power"] = view[g]["power"]
  BY <1>2 DEF SInv, Threads, Views, Locations, Legs
<1>7. ASSUME NEW g \in Hedgers, pc[g] \notin {"urgency", "power"}
      PROVE  pc'[g] \notin {"urgency", "power"}
  BY <1>1, <1>3, <1>7
<1>8. ASSUME OneAsker'
      PROVE  Unsold' \/ \E g \in Hedgers, n \in Hours : <<g, n>> \in asked' /\ SoldBy(g, n)'
  <2>1. OneAsker
    BY <1>1, <1>8 DEF OneAsker
  <2>2. CASE Unsold
    BY <2>2, <1>1 DEF Unsold
  <2>3. ASSUME NEW g \in Hedgers, NEW n \in Hours, <<g, n>> \in asked, SoldBy(g, n)
        PROVE  <<g, n>> \in asked' /\ SoldBy(g, n)'
    BY <2>3, <1>1, <1>6, <1>7 DEF SoldBy
  <2> QED BY <2>1, <2>2, <2>3 DEF SoldInv
<1> QED BY <1>4, <1>5, <1>8 DEF SoldInv

\* The average is not a leg.
LEMMA SoldStore ==
  ASSUME SInv, SoldInv, NEW h \in Hedgers, StoreAverage(h)
  PROVE  SoldInv'
<1>1. /\ Put(h, "avg", average[h], view[h]) /\ pc[h] = "average"
      /\ UNCHANGED <<asked, hours>>
  BY DEF StoreAverage, history
<1>2. PICK next \in {"idle", "rehedge"} : pc' = [pc EXCEPT ![h] = next]
  BY DEF StoreAverage
<1>3. view' = [view EXCEPT ![h] = [view[h] EXCEPT !["avg"] = Len(mem["avg"]) + 1]]
  BY <1>1 DEF Put
<1>4. mem'["power"] = mem["power"]
  BY <1>1 DEF Put, SInv, Memory, Locations, Legs
<1>5. view'[h]["power"] = view[h]["power"] /\ pc'[h] = next
  BY <1>2, <1>3 DEF SInv, Threads, Views, Locations, Legs
<1> QED BY <1>1, <1>2, <1>3, <1>4, <1>5, SoldStays DEF SoldBy

\* What the load of power_hedge returns once the plant is sold.
LEMMA SoldLoad ==
  ASSUME SInv, NEW h \in Hedgers, NEW n, SoldBy(h, n),
         NEW i \in view[h]["power"]..Len(mem["power"])
  PROVE  i = 2 /\ (LoadPower(h, i) => view'[h]["power"] = 2)
<1>1. i = 2
  BY DEF SoldBy
<1>2. "power" \in Locations /\ Within(mem, view[h]) /\ view \in [Hedgers -> Views]
  BY DEF SInv, Threads, Locations, Legs
<1>3. Within(mem, mem["power"][2].view)
  BY <1>2 DEF SInv, Memory, SoldBy
<1>4. mem["power"][2].view["power"] \in Nat /\ mem["power"][2].view["power"] <= 2
  BY <1>2, <1>3 DEF Within, Views, SoldBy
<1>5. ASSUME LoadPower(h, i) PROVE view'[h]["power"] = 2
  <2> DEFINE v == [view[h] EXCEPT !["power"] = i]
             w == mem["power"][2].view
  <2>1. view'[h] = Join(v, w)
    BY <1>1, <1>2, <1>5 DEF LoadPower
  <2>2. v["power"] = 2
    BY <1>1, <1>2 DEF Views
  <2>3. Join(v, w)["power"] = IF v["power"] >= w["power"] THEN v["power"] ELSE w["power"]
    BY <1>2 DEF Join
  <2> QED BY <2>1, <2>2, <2>3, <1>4
<1> QED BY <1>1, <1>5

\* The decision to hedge: the seller sees its sale and keeps it.
LEMMA SoldDecide ==
  ASSUME WorthSelling, SInv, SoldInv, NEW h \in Hedgers, KeepHedge(h) \/ Rehedge(h)
  PROVE  SoldInv'
<1>1. pc[h] = "rehedge" /\ mem' = mem /\ UNCHANGED <<asked, hours>>
  BY DEF KeepHedge, Rehedge, history
<1>2. PICK i \in view[h]["power"]..Len(mem["power"]) :
        /\ LoadPower(h, i)
        /\ \/ pc' = [pc EXCEPT ![h] = "idle"]
           \/ AboveThreshold(mem["power"][i].val, hours[h]) /\ pc' = [pc EXCEPT ![h] = "urgency"]
  BY DEF KeepHedge, Rehedge
<1>3. ASSUME NEW n \in Hours, OneAsker, SoldBy(h, n), <<h, n>> \in asked
      PROVE  view'[h]["power"] = 2 /\ pc'[h] \notin {"urgency", "power"}
  <2>1. i = 2 /\ view'[h]["power"] = 2
    BY <1>2, <1>3, SoldLoad
  <2>2. hours[h] = n
    BY <1>1, <1>3 DEF SoldInv, OneAsker
  <2>3. ~AboveThreshold(mem["power"][i].val, hours[h])
    <3>1. n \in Nat /\ CapacityMw * n >= 22
      BY PlantAssumption DEF WorthSelling
    <3>2. mem["power"][i].val \in {-(CapacityMw * n), 1 - CapacityMw * n}
      BY <2>1, <1>3 DEF SoldBy
    <3> QED BY <2>2, <3>1, <3>2, SoldIsEnough
  <2>4. pc'[h] = "idle"
    BY <1>2, <2>3 DEF SInv, Threads
  <2> QED BY <2>1, <2>4
<1>4. \E next : pc' = [pc EXCEPT ![h] = next]
  BY <1>2
<1>5. \E v : view' = [view EXCEPT ![h] = v]
  BY <1>2 DEF LoadPower
<1>6. mem'["power"] = mem["power"] /\ pc[h] # "idle"
  BY <1>1
<1> QED BY <1>1, <1>3, <1>4, <1>5, <1>6, SoldStays

\* Once the plant is sold nobody gets here.
LEMMA SoldRecommend ==
  ASSUME SInv, SoldInv, NEW h \in Hedgers, Recommend(h) \/ Ignore(h)
  PROVE  SoldInv'
<1>1. pc[h] \in {"urgency", "power"} /\ mem' = mem /\ UNCHANGED <<asked, hours>>
  BY DEF Recommend, Ignore, history
<1>2. \E next : pc' = [pc EXCEPT ![h] = next]
  BY DEF Recommend, Ignore
<1>3. \E v : view' = [view EXCEPT ![h] = v]
  <2>1. CASE Recommend(h)
    BY <2>1 DEF Recommend
  <2>2. CASE Ignore(h)
    <3>1. view' = [view EXCEPT ![h] = view[h]]
      BY <2>2 DEF Ignore, SInv, Threads
    <3> QED BY <3>1
  <2> QED BY <2>1, <2>2
<1>4. \A n \in Hours : ~SoldBy(h, n)
  BY <1>1 DEF SoldBy
<1>5. mem'["power"] = mem["power"] /\ pc[h] # "idle"
  BY <1>1
<1> QED BY <1>1, <1>2, <1>3, <1>4, <1>5, SoldStays

\* The first sale.
LEMMA SoldSell ==
  ASSUME SInv, SoldInv, NEW h \in Hedgers, SellPower(h)
  PROVE  SoldInv'
<1>1. /\ pc[h] = "power" /\ pc' = [pc EXCEPT ![h] = "gas"]
      /\ UNCHANGED <<asked, hours>>
  BY DEF SellPower
<1>2. PICK n \in Cast(Volume("power", hours[h]), VolumeScale) : FetchAdd(h, "power", -n)
  BY DEF SellPower
<1>3. <<h, hours[h]>> \in asked /\ hours[h] \in Hours /\ hours[h] \in Nat
  BY <1>1 DEF SoldInv, SInv, Threads
<1>4. n \in {CapacityMw * hours[h], CapacityMw * hours[h] - 1} /\ CapacityMw * hours[h] \in Nat
  BY <1>2, <1>3, PowerSold, PlantAssumption
<1>5. \A g \in Hedgers : pc'[g] # "idle" => <<g, hours'[g]>> \in asked'
  BY <1>1, <1>3 DEF SoldInv, SInv, Threads
<1>6. ASSUME OneAsker' PROVE SoldBy(h, hours[h])'
  <2>1. OneAsker
    BY <1>1, <1>6 DEF OneAsker
  <2>2. Unsold
    BY <2>1, <1>1, <1>3 DEF SoldInv, OneAsker, SoldBy
  <2> DEFINE old == Join(view[h], mem["power"][Len(mem["power"])].view)
             new == [old EXCEPT !["power"] = Len(mem["power"]) + 1]
             m == [val |-> Last("power") + (-n), view |-> new]
  <2>3. /\ mem' = [mem EXCEPT !["power"] = Append(mem["power"], m)]
        /\ view' = [view EXCEPT ![h] = new]
    BY <1>2 DEF FetchAdd, Put, Carried
  <2>4. "power" \in Locations /\ mem \in [Locations -> Seq(Messages)] /\ view \in [Hedgers -> Views]
    BY DEF SInv, Memory, Threads, Locations, Legs
  <2>5. new["power"] = 2
    BY <2>2, <2>4 DEF Unsold, Join
  <2>6. m.val = 0 + (-n)
    BY <2>2 DEF Last, Unsold
  <2> HIDE DEF m, new
  <2>7. mem'["power"] = Append(mem["power"], m) /\ view'[h] = new
    BY <2>3, <2>4
  <2>8. Len(mem'["power"]) = 2 /\ mem'["power"][2] = m
    BY <2>2, <2>4, <2>7 DEF Unsold
  <2>9. m.val \in {-(CapacityMw * hours[h]), 1 - CapacityMw * hours[h]}
    BY <2>6, <1>4
  <2>10. pc'[h] = "gas"
    BY <1>1 DEF SInv, Threads
  <2> QED BY <2>5, <2>7, <2>8, <2>9, <2>10, <1>1 DEF SoldBy
<1> QED BY <1>1, <1>3, <1>5, <1>6 DEF SoldInv

\* The purchases follow the sale and leave the power alone.
LEMMA SoldBuy ==
  ASSUME SInv, SoldInv, NEW h \in Hedgers, BuyGas(h) \/ BuyCo2(h)
  PROVE  SoldInv'
<1>1. PICK leg \in {"gas", "co2"} :
        /\ pc[h] = leg /\ UNCHANGED <<asked, hours>>
        /\ \E n : FetchAdd(h, leg, n)
        /\ \E next \in {"co2", "idle"} : pc' = [pc EXCEPT ![h] = next]
  BY DEF BuyGas, BuyCo2, Buy, history
<1>2. PICK n : FetchAdd(h, leg, n)
  BY <1>1
<1> DEFINE w == mem[leg][Len(mem[leg])].view
           new == [Join(view[h], w) EXCEPT ![leg] = Len(mem[leg]) + 1]
<1>3. view' = [view EXCEPT ![h] = new]
  BY <1>2 DEF FetchAdd, Put
<1>4. /\ leg \in Locations /\ "power" \in Locations /\ leg # "power"
      /\ view \in [Hedgers -> Views] /\ mem \in [Locations -> Seq(Messages)]
      /\ mem[leg] # << >>
  BY DEF SInv, Memory, Threads, Locations, Legs
<1>5. mem'["power"] = mem["power"]
  BY <1>2, <1>4 DEF FetchAdd, Put
<1>6. Within(mem, w)
  <2>1. Len(mem[leg]) \in 1..Len(mem[leg])
    BY <1>4
  <2> QED BY <2>1, <1>4 DEF SInv, Memory
<1>7. ASSUME NEW k \in Hours, SoldBy(h, k) PROVE view'[h]["power"] = 2
  <2>1. w["power"] \in Nat /\ w["power"] <= 2
    BY <1>4, <1>6, <1>7 DEF Within, Views, SoldBy
  <2>2. Join(view[h], w)["power"] = IF view[h]["power"] >= w["power"] THEN view[h]["power"] ELSE w["power"]
    BY <1>4 DEF Join
  <2>3. view'[h]["power"] = Join(view[h], w)["power"]
    <3>1. view'[h] = new
      BY <1>3, <1>4
    <3>2. new["power"] = Join(view[h], w)["power"]
      BY <1>4 DEF Join
    <3> QED BY <3>1, <3>2
  <2>4. view[h]["power"] = 2
    BY <1>7 DEF SoldBy
  <2> HIDE DEF w
  <2> QED BY <2>1, <2>2, <2>3, <2>4
<1>8. pc'[h] \notin {"urgency", "power"}
  BY <1>1 DEF SInv, Threads
<1>9. \E next : pc' = [pc EXCEPT ![h] = next]
  BY <1>1
<1>10. \E v : view' = [view EXCEPT ![h] = v]
  BY <1>3
<1> QED BY <1>1, <1>5, <1>7, <1>8, <1>9, <1>10, SoldStays

\* Nothing is sold at first.
LEMMA InitSold == Init => SoldInv
<1> SUFFICES ASSUME Init PROVE SoldInv
  OBVIOUS
<1>1. IsFiniteSet(asked) /\ asked \subseteq Hedgers \X Hours
  BY FS_EmptySet DEF Init
<1>2. \A h \in Hedgers : pc[h] = "idle"
  BY DEF Init
<1>3. Unsold
  <2>1. mem["power"] = <<[val |-> 0, view |-> StartView]>>
    BY DEF Init, Locations, Legs
  <2> QED BY <2>1 DEF Unsold
<1> QED BY <1>1, <1>2, <1>3 DEF SoldInv

\* The invariant with one asker is the property.
LEMMA SoldFinal == SInv /\ SoldInv => SoldOnce
<1> SUFFICES ASSUME SInv, SoldInv, Cardinality(asked) <= 1 PROVE Len(mem["power"]) <= 2
  BY DEF SoldOnce
<1>1. ASSUME NEW a \in asked, NEW b \in asked, a # b PROVE FALSE
  <2>1. IsFiniteSet({a}) /\ Cardinality({a}) = 1
    BY FS_Singleton
  <2>2. Cardinality({a} \union {b}) = 2
    BY <2>1, <1>1, FS_AddElement
  <2>3. {a} \union {b} \subseteq asked
    OBVIOUS
  <2>4. Cardinality({a} \union {b}) <= Cardinality(asked)
    BY <2>3, FS_Subset DEF SoldInv
  <2>5. Cardinality(asked) \in Nat
    BY FS_CardinalityType DEF SoldInv
  <2> QED BY <2>2, <2>4, <2>5
<1>2. OneAsker
  BY <1>1 DEF OneAsker
<1>3. CASE Unsold
  BY <1>3 DEF Unsold
<1>4. CASE \E h \in Hedgers, n \in Hours : SoldBy(h, n)
  BY <1>4 DEF SoldBy
<1> QED BY <1>2, <1>3, <1>4 DEF SoldInv

(***************************************************************************)
(* SoldOnce, for any number of threads, any spreads and any plant that has *)
(* at least 0.22 to sell in every number of hours asked for: for less the  *)
(* hundredth that the cast may lose is a threshold's worth.                *)
(***************************************************************************)
THEOREM SoldOnceHolds ==
  ASSUME WorthSelling
  PROVE  Spec => []SoldOnce
<1>1. Init => SInv /\ SoldInv
  BY InitSInv, InitSold
<1>2. SInv /\ SoldInv /\ [Next]_vars => SoldInv'
  <2> SUFFICES ASSUME SInv, SoldInv, [Next]_vars PROVE SoldInv'
    OBVIOUS
  <2>1. ASSUME NEW h \in Hedgers, HedgerStep(h) PROVE SoldInv'
    <3>1. ASSUME NEW s \in Spreads, NEW n \in Hours, Ask(h, s, n) PROVE SoldInv'
      BY <3>1, SoldAsk
    <3> QED BY <2>1, <3>1, SoldStore, SoldDecide, SoldRecommend, SoldSell, SoldBuy DEF HedgerStep
  <2>2. CASE ReadLeg \/ UNCHANGED vars
    <3>1. UNCHANGED <<mem, view, pc, hours, asked>>
      BY <2>2 DEF ReadLeg, vars, locals, reader, history
    <3> QED BY <3>1 DEF SoldInv, OneAsker, Unsold, SoldBy
  <2> QED BY <2>1, <2>2 DEF Next
<1>3. SInv /\ SoldInv => SoldOnce
  BY SoldFinal
<1> QED BY <1>1, <1>2, <1>3, NextSInv, PTL DEF Spec
-----------------------------------------------------------------------------
(***************************************************************************)
(* LegsBalanced.  Behind every leg that is bought are the executions that  *)
(* have sold power and have not come to it: so many messages are missing   *)
(* from it, and so much power it has not been bought for.  The callers are *)
(* in no order, so this power is the size of a set.                        *)
(***************************************************************************)
Bought == {"gas", "co2"}

Waiting(leg, p) == {h \in Hedgers : p[h] = "gas" \/ (leg = "co2" /\ p[h] = "co2")}

PowerOf(h, hrs) == {h} \X (1..(CapacityMw * hrs[h]))
Owed(S, hrs) == UNION {PowerOf(h, hrs) : h \in S}

\* What a leg takes of every hundredth of power, in parts of VolumeScale.
Part(leg) == IF leg = "gas" THEN HeatRate * 1000 ELSE HeatRate * EmissionFactor

\* A leg bought n times, in all for `power' hundredths of power.
BoughtFor(power, part, last, n) ==
  /\ last * VolumeScale <= power * part
  /\ power * part <= last * VolumeScale + n * VolumeScale

LegBalance(leg, sold) ==
  /\ IsFiniteSet(Waiting(leg, pc)) /\ IsFiniteSet(Owed(Waiting(leg, pc), hours))
  /\ Len(mem[leg]) + Cardinality(Waiting(leg, pc)) = Len(mem["power"])
  /\ BoughtFor(sold - Cardinality(Owed(Waiting(leg, pc), hours)), Part(leg),
               Last(leg), Len(mem[leg]) - 1)

\* `sold' is what was recommended; the conversions lost a hundredth of each
\* sale at most.
PowerBalance(sold) ==
  -Last("power") <= sold /\ sold <= (Len(mem["power"]) - 1) - Last("power")

Balance ==
  \E sold \in Nat : PowerBalance(sold) /\ \A leg \in Bought : LegBalance(leg, sold)

-----------------------------------------------------------------------------
\* A conversion loses less than two units, and at most one of a whole number.
LEMMA CastDown ==
  ASSUME NEW a \in Nat, NEW v \in Cast(a, VolumeScale)
  PROVE  v \in Int /\ v * VolumeScale <= a /\ a <= v * VolumeScale + VolumeScale
<1>1. TruncDiv(a, 10000) = a \div 10000
  BY DEF TruncDiv
<1>2. v = a \div 10000 \/ (a % 10000 = 0 /\ v = (a \div 10000) - 1)
  BY <1>1 DEF Cast, VolumeScale
<1> QED BY <1>2 DEF VolumeScale

LEMMA PartNat == \A leg \in Bought : Part(leg) \in Nat
<1>1. HeatRate * 1000 \in Nat /\ HeatRate * EmissionFactor \in Nat
  BY PlantAssumption
<1> QED BY <1>1 DEF Part, Bought

LEMMA Distribute ==
  ASSUME NEW a \in Int, NEW b \in Int, NEW c \in Int
  PROVE  (a + b) * c = a * c + b * c /\ (a - b) * c = a * c - b * c
OBVIOUS

\* One more purchase, for p hundredths of power.
LEMMA OnePurchase ==
  ASSUME NEW power \in Int, NEW part \in Nat, NEW last \in Int, NEW n \in Nat, NEW p \in Nat,
         BoughtFor(power, part, last, n), NEW v \in Cast(p * part, VolumeScale)
  PROVE  BoughtFor(power + p, part, last + v, n + 1)
<1> DEFINE a == power * part
           b == p * part
<1>1. a \in Int /\ b \in Nat
  OBVIOUS
<1>2. (power + p) * part = a + b
  BY Distribute
<1>3. last * 10000 <= a /\ a <= last * 10000 + n * 10000
  BY DEF BoughtFor, VolumeScale
<1>4. v \in Int /\ v * 10000 <= b /\ b <= v * 10000 + 10000
  BY <1>1, CastDown DEF VolumeScale
<1> HIDE DEF a, b
<1>5. (last + v) * 10000 <= a + b /\ a + b <= (last + v) * 10000 + (n + 1) * 10000
  BY <1>1, <1>3, <1>4
<1> QED BY <1>2, <1>5 DEF BoughtFor, VolumeScale

LEMMA VolumePart ==
  ASSUME NEW leg \in Bought, NEW n \in Nat
  PROVE  Volume(leg, n) = (CapacityMw * n) * Part(leg)
<1> DEFINE c == CapacityMw * n
<1>1. c \in Nat /\ HeatRate \in Nat /\ EmissionFactor \in Nat
  BY PlantAssumption
<1>2. Volume(leg, n) = IF leg = "gas" THEN (c * HeatRate) * 1000
                       ELSE (c * HeatRate) * EmissionFactor
  BY DEF Volume, Bought
<1> HIDE DEF c
<1>3. \A x, y, z \in Nat : (x * y) * z = x * (y * z)
  OBVIOUS
<1>4. (c * HeatRate) * 1000 = c * (HeatRate * 1000)
  BY <1>1, <1>3
<1>5. (c * HeatRate) * EmissionFactor = c * (HeatRate * EmissionFactor)
  BY <1>1, <1>3
<1> QED BY <1>2, <1>4, <1>5 DEF Part, c

\* The power of an execution joins what is owed, or leaves it.
LEMMA OwedAdded ==
  ASSUME NEW S \in SUBSET Hedgers, NEW h \in Hedgers, h \notin S, NEW hrs \in [Hedgers -> Nat],
         IsFiniteSet(Owed(S, hrs))
  PROVE  /\ IsFiniteSet(Owed(S \union {h}, hrs))
         /\ Cardinality(Owed(S \union {h}, hrs)) = Cardinality(Owed(S, hrs)) + CapacityMw * hrs[h]
<1> DEFINE U == Owed(S, hrs)
           p == CapacityMw * hrs[h]
<1>1. Owed(S \union {h}, hrs) = U \union PowerOf(h, hrs)
  BY DEF Owed
<1>2. U \intersect PowerOf(h, hrs) = {}
  BY DEF Owed, PowerOf
<1>3. p \in Nat
  BY PlantAssumption
<1> HIDE DEF p
<1>4. IsFiniteSet(PowerOf(h, hrs)) /\ Cardinality(PowerOf(h, hrs)) = p
  <2>1. IsFiniteSet(1..p) /\ Cardinality(1..p) = IF 1 > p THEN 0 ELSE p - 1 + 1
    BY <1>3, FS_Interval
  <2>2. Cardinality(1..p) = p
    BY <2>1, <1>3
  <2>3. IsFiniteSet({h}) /\ Cardinality({h}) = 1
    BY FS_Singleton
  <2>4. PowerOf(h, hrs) = {h} \X (1..p)
    BY DEF PowerOf, p
  <2>5. IsFiniteSet({h} \X (1..p)) /\ Cardinality({h} \X (1..p)) = 1 * p
    BY <2>1, <2>2, <2>3, FS_Product
  <2> QED BY <2>4, <2>5, <1>3
<1>5. /\ IsFiniteSet(U \union PowerOf(h, hrs))
      /\ Cardinality(U \union PowerOf(h, hrs))
           = Cardinality(U) + Cardinality(PowerOf(h, hrs)) - Cardinality(U \intersect PowerOf(h, hrs))
  BY <1>4, FS_Union
<1>6. Cardinality(U \intersect PowerOf(h, hrs)) = 0 /\ Cardinality(U) \in Nat
  BY <1>2, FS_EmptySet, FS_CardinalityType
<1> HIDE DEF U
<1>7. Cardinality(U \union PowerOf(h, hrs)) = Cardinality(U) + p
  BY <1>3, <1>4, <1>5, <1>6
<1> QED BY <1>1, <1>5, <1>7 DEF U, p

\* What a fetch_add does to the three legs.
LEMMA FetchAddLegs ==
  ASSUME SInv, NEW h \in Hedgers, NEW leg \in Legs, NEW n \in Int, FetchAdd(h, leg, n)
  PROVE  /\ Len(mem'[leg]) = Len(mem[leg]) + 1
         /\ Last(leg)' = Last(leg) + n
         /\ \A x \in Legs : x # leg => mem'[x] = mem[x] /\ Last(x)' = Last(x)
<1> DEFINE new == [Join(view[h], mem[leg][Len(mem[leg])].view) EXCEPT ![leg] = Len(mem[leg]) + 1]
           m == [val |-> Last(leg) + n, view |-> new]
<1>1. mem' = [mem EXCEPT ![leg] = Append(mem[leg], m)]
  BY DEF FetchAdd, Put, Carried
<1>2. mem \in [Locations -> Seq(Messages)] /\ \A x \in Legs : x \in Locations
  BY DEF SInv, Memory, Locations
<1>3. m.val = Last(leg) + n
  OBVIOUS
<1> HIDE DEF m
<1>4. mem'[leg] = Append(mem[leg], m) /\ \A x \in Legs : x # leg => mem'[x] = mem[x]
  BY <1>1, <1>2
<1>5. mem[leg] \in Seq(Messages)
  BY <1>2
<1>6. Len(mem'[leg]) = Len(mem[leg]) + 1 /\ mem'[leg][Len(mem[leg]) + 1] = m
  BY <1>4, <1>5
<1>7. Last(leg)' = mem'[leg][Len(mem'[leg])].val
  BY DEF Last
<1>8. \A x \in Legs : x # leg => Last(x)' = Last(x)
  BY <1>4 DEF Last
<1> QED BY <1>3, <1>4, <1>6, <1>7, <1>8

LEMMA LastInt ==
  ASSUME SInv, NEW leg \in Legs
  PROVE  /\ Last(leg) \in Int
         /\ Len(mem[leg]) \in Nat \ {0}
<1>1. mem[leg] \in Seq(Messages) /\ mem[leg] # << >>
  BY DEF SInv, Memory, Locations
<1>2. Len(mem[leg]) \in 1..Len(mem[leg])
  BY <1>1
<1>3. mem[leg][Len(mem[leg])] \in Messages
  BY <1>1, <1>2
<1> QED BY <1>2, <1>3 DEF Last, Messages
-----------------------------------------------------------------------------
\* Nothing is traded, and nobody comes to or leaves an execution.
LEMMA BalanceStays ==
  ASSUME SInv, Balance, \A x \in Legs : mem'[x] = mem[x],
         \A leg \in Bought : Waiting(leg, pc') = Waiting(leg, pc),
         \A h \in Waiting("co2", pc) : hours'[h] = hours[h]
  PROVE  Balance'
<1>1. PICK sold \in Nat : PowerBalance(sold) /\ \A leg \in Bought : LegBalance(leg, sold)
  BY DEF Balance
<1>2. \A x \in Legs : Last(x)' = Last(x)
  BY DEF Last
<1>3. PowerBalance(sold)'
  BY <1>1, <1>2 DEF PowerBalance, Legs
<1>4. ASSUME NEW leg \in Bought PROVE LegBalance(leg, sold)'
  <2>1. \A h \in Waiting(leg, pc) : hours'[h] = hours[h]
    BY DEF Waiting
  <2>2. Owed(Waiting(leg, pc'), hours') = Owed(Waiting(leg, pc), hours)
    BY <2>1 DEF Owed, PowerOf
  <2>3. leg \in Legs /\ "power" \in Legs /\ LegBalance(leg, sold)
    BY <1>1 DEF Bought, Legs
  <2>4. Last(leg)' = Last(leg) /\ mem'[leg] = mem[leg] /\ mem'["power"] = mem["power"]
    BY <1>2, <2>3
  <2> QED BY <2>2, <2>3, <2>4 DEF LegBalance
<1> QED BY <1>3, <1>4 DEF Balance

\* A hedger outside an execution stays outside it.
LEMMA OutsideWaiting ==
  ASSUME SInv, NEW h \in Hedgers, pc[h] \notin {"gas", "co2"},
         NEW next \in {"idle", "average", "rehedge", "urgency", "power"},
         pc' = [pc EXCEPT ![h] = next]
  PROVE  /\ \A leg \in Bought : Waiting(leg, pc') = Waiting(leg, pc)
         /\ h \notin Waiting("co2", pc)
<1>1. pc \in [Hedgers -> {"idle", "average", "rehedge", "urgency", "power", "gas", "co2"}]
  BY DEF SInv, Threads
<1>2. \A leg, g \in Hedgers : g \in Waiting(leg, pc') <=> g \in Waiting(leg, pc)
  BY <1>1 DEF Waiting
<1> QED BY <1>2 DEF Waiting

LEMMA BalanceOutside ==
  ASSUME SInv, Balance, NEW h \in Hedgers,
         \/ \E s \in Spreads, n \in Hours : Ask(h, s, n)
         \/ StoreAverage(h) \/ KeepHedge(h) \/ Rehedge(h) \/ Recommend(h) \/ Ignore(h)
  PROVE  Balance'
<1>1. \A x \in Legs : mem'[x] = mem[x]
  <2>1. CASE StoreAverage(h)
    BY <2>1 DEF StoreAverage, Put, SInv, Memory, Locations, Legs
  <2> QED BY <2>1 DEF Ask, KeepHedge, Rehedge, Recommend, Ignore
<1>2. /\ pc[h] \notin {"gas", "co2"}
      /\ \E next \in {"idle", "average", "rehedge", "urgency", "power"} :
           pc' = [pc EXCEPT ![h] = next]
  BY DEF Ask, StoreAverage, KeepHedge, Rehedge, Recommend, Ignore
<1>3. \A g \in Hedgers : g # h => hours'[g] = hours[g]
  BY DEF Ask, StoreAverage, KeepHedge, Rehedge, Recommend, Ignore, SInv, Threads
<1>4. /\ \A leg \in Bought : Waiting(leg, pc') = Waiting(leg, pc)
      /\ h \notin Waiting("co2", pc)
  BY <1>2, OutsideWaiting
<1>5. \A g \in Waiting("co2", pc) : hours'[g] = hours[g]
  BY <1>3, <1>4 DEF Waiting
<1> QED BY <1>1, <1>4, <1>5, BalanceStays

\* A sale: both purchases are owed now.
LEMMA BalanceSell ==
  ASSUME SInv, Balance, NEW h \in Hedgers, SellPower(h)
  PROVE  Balance'
<1>1. PICK sold \in Nat : PowerBalance(sold) /\ \A leg \in Bought : LegBalance(leg, sold)
  BY DEF Balance
<1>2. PICK v \in Cast(Volume("power", hours[h]), VolumeScale) : FetchAdd(h, "power", -v)
  BY DEF SellPower
<1>3. hours \in [Hedgers -> Nat] /\ hours' = hours
  BY DEF SellPower, SInv, Threads
<1>p. PICK p \in Nat : p = CapacityMw * hours[h]
  BY <1>3, PlantAssumption
<1>4. v \in {p, p - 1}
  BY <1>2, <1>3, <1>p, PowerSold
<1>5. -v \in Int /\ "power" \in Legs /\ \A leg \in Bought : leg \in Legs /\ leg # "power"
  BY <1>3, <1>4 DEF Legs, Bought
<1>6. /\ Len(mem'["power"]) = Len(mem["power"]) + 1
      /\ Last("power")' = Last("power") + (-v)
      /\ \A leg \in Bought : mem'[leg] = mem[leg] /\ Last(leg)' = Last(leg)
  BY <1>2, <1>5, FetchAddLegs
<1>7. Last("power") \in Int /\ Len(mem["power"]) \in Nat
  BY <1>5, LastInt
<1>8. PowerBalance(sold + p)'
  <2>1. -Last("power") <= sold /\ sold <= (Len(mem["power"]) - 1) - Last("power")
    BY <1>1 DEF PowerBalance
  <2>2. /\ -(Last("power") + (-v)) <= sold + p
        /\ sold + p <= ((Len(mem["power"]) + 1) - 1) - (Last("power") + (-v))
    BY <2>1, <1>4, <1>7, SMTT(30)
  <2> QED BY <2>2, <1>6 DEF PowerBalance
<1>9. ASSUME NEW leg \in Bought PROVE LegBalance(leg, sold + p)'
  <2> DEFINE W == Waiting(leg, pc)
             o == Cardinality(Owed(W, hours))
  <2>1. h \notin W /\ Waiting(leg, pc') = W \union {h} /\ W \in SUBSET Hedgers
    BY <1>3 DEF SellPower, Waiting, SInv, Threads
  <2>2. LegBalance(leg, sold)
    BY <1>1
  <2>3. IsFiniteSet(W) /\ IsFiniteSet(Owed(W, hours))
    BY <2>2 DEF LegBalance
  <2>4. /\ IsFiniteSet(Owed(W \union {h}, hours))
        /\ Cardinality(Owed(W \union {h}, hours)) = o + p
    BY <2>1, <2>3, <1>3, <1>p, OwedAdded
  <2>5. IsFiniteSet(W \union {h}) /\ Cardinality(W \union {h}) = Cardinality(W) + 1
    BY <2>1, <2>3, FS_AddElement
  <2>6. o \in Nat /\ Cardinality(W) \in Nat
    BY <2>3, FS_CardinalityType
  <2>7. /\ Len(mem[leg]) + Cardinality(W) = Len(mem["power"])
        /\ BoughtFor(sold - o, Part(leg), Last(leg), Len(mem[leg]) - 1)
    BY <2>2 DEF LegBalance
  <2>8. Len(mem[leg]) \in Nat
    BY <1>5, LastInt
  <2> HIDE DEF W, o
  <2>9. (sold + p) - (o + p) = sold - o
    BY <1>3, <2>6
  <2>10. Len(mem[leg]) + (Cardinality(W) + 1) = Len(mem["power"]) + 1
    BY <2>6, <2>7, <2>8
  <2>11. /\ Waiting(leg, pc') = W \union {h} /\ hours' = hours
         /\ mem'[leg] = mem[leg] /\ Last(leg)' = Last(leg)
    BY <2>1, <1>3, <1>6
  <2> QED BY <2>4, <2>5, <2>7, <2>9, <2>10, <2>11, <1>6 DEF LegBalance
<1>10. sold + p \in Nat
  BY <1>3
<1> QED BY <1>8, <1>9, <1>10 DEF Balance

\* A purchase: it is owed no more.
LEMMA BalanceBuy ==
  ASSUME SInv, Balance, NEW h \in Hedgers, BuyGas(h) \/ BuyCo2(h)
  PROVE  Balance'
<1>1. PICK sold \in Nat : PowerBalance(sold) /\ \A leg \in Bought : LegBalance(leg, sold)
  BY DEF Balance
<1>2. PICK leg \in Bought :
        /\ pc[h] = leg /\ hours' = hours
        /\ \E v \in Cast(Volume(leg, hours[h]), VolumeScale) : FetchAdd(h, leg, v)
        /\ pc' = [pc EXCEPT ![h] = IF leg = "gas" THEN "co2" ELSE "idle"]
  BY DEF BuyGas, BuyCo2, Buy, Bought
<1>3. PICK v \in Cast(Volume(leg, hours[h]), VolumeScale) : FetchAdd(h, leg, v)
  BY <1>2
<1> DEFINE p == CapacityMw * hours[h]
<1>4. hours \in [Hedgers -> Nat] /\ p \in Nat
  BY PlantAssumption DEF SInv, Threads
<1>5. v \in Cast(p * Part(leg), VolumeScale)
  BY <1>3, <1>4, VolumePart
<1> HIDE DEF p
<1>6. leg \in Legs /\ leg # "power" /\ "power" \in Legs /\ Part(leg) \in Nat
  BY PartNat DEF Legs, Bought
<1>7. v \in Int
  <2>1. p * Part(leg) \in Nat
    BY <1>4, <1>6
  <2> QED BY <2>1, <1>5, CastDown
<1>8. /\ Len(mem'[leg]) = Len(mem[leg]) + 1
      /\ Last(leg)' = Last(leg) + v
      /\ \A x \in Legs : x # leg => mem'[x] = mem[x] /\ Last(x)' = Last(x)
  BY <1>3, <1>6, <1>7, FetchAddLegs
<1>9. PowerBalance(sold)'
  BY <1>1, <1>6, <1>8 DEF PowerBalance
<1>10. pc \in [Hedgers -> {"idle", "average", "rehedge", "urgency", "power", "gas", "co2"}]
  BY DEF SInv, Threads
<1>11. ASSUME NEW x \in Bought, x # leg PROVE LegBalance(x, sold)'
  <2>1. Waiting(x, pc') = Waiting(x, pc)
    BY <1>2, <1>10, <1>11 DEF Waiting, Bought
  <2>2. x \in Legs
    BY DEF Legs, Bought
  <2>3. mem'[x] = mem[x] /\ Last(x)' = Last(x) /\ mem'["power"] = mem["power"]
    BY <1>6, <1>8, <1>11, <2>2
  <2>4. LegBalance(x, sold)
    BY <1>1
  <2> QED BY <2>1, <2>3, <2>4, <1>2 DEF LegBalance
<1>12. LegBalance(leg, sold)'
  <2> DEFINE W == Waiting(leg, pc')
             o == Cardinality(Owed(W, hours))
  <2>1. h \notin W /\ Waiting(leg, pc) = W \union {h} /\ W \in SUBSET Hedgers
    BY <1>2, <1>10 DEF Waiting, Bought
  <2>2. LegBalance(leg, sold)
    BY <1>1
  <2>3. IsFiniteSet(W)
    BY <2>1, <2>2, FS_Subset DEF LegBalance
  <2>4. IsFiniteSet(Owed(W, hours))
    <3>1. Owed(W, hours) \subseteq Owed(W \union {h}, hours)
      BY DEF Owed
    <3>2. IsFiniteSet(Owed(W \union {h}, hours))
      BY <2>1, <2>2 DEF LegBalance
    <3> QED BY <3>1, <3>2, FS_Subset
  <2>5. Cardinality(Owed(W \union {h}, hours)) = o + p
    BY <2>1, <2>4, <1>4, OwedAdded DEF p
  <2>6. Cardinality(W \union {h}) = Cardinality(W) + 1
    BY <2>1, <2>3, FS_AddElement
  <2>7. o \in Nat /\ Cardinality(W) \in Nat
    BY <2>3, <2>4, FS_CardinalityType
  <2> HIDE DEF W
  <2>8. /\ Len(mem[leg]) + (Cardinality(W) + 1) = Len(mem["power"])
        /\ BoughtFor(sold - (o + p), Part(leg), Last(leg), Len(mem[leg]) - 1)
    BY <2>1, <2>2, <2>5, <2>6 DEF LegBalance
  <2> HIDE DEF o
  <2>9. Last(leg) \in Int /\ Len(mem[leg]) \in Nat \ {0}
    BY <1>6, LastInt
  <2>10. sold - (o + p) \in Int /\ Len(mem[leg]) - 1 \in Nat
    BY <1>4, <2>7, <2>9
  <2>11. BoughtFor((sold - (o + p)) + p, Part(leg), Last(leg) + v, (Len(mem[leg]) - 1) + 1)
    BY <1>4, <1>5, <1>6, <2>8, <2>9, <2>10, OnePurchase
  <2>12. /\ (sold - (o + p)) + p = sold - o
         /\ (Len(mem[leg]) - 1) + 1 = (Len(mem[leg]) + 1) - 1
         /\ (Len(mem[leg]) + 1) + Cardinality(W) = Len(mem["power"])
    BY <1>4, <2>7, <2>8, <2>9
  <2>13. BoughtFor(sold - o, Part(leg), Last(leg)', Len(mem'[leg]) - 1)
    BY <1>8, <2>11, <2>12
  <2>14. mem'["power"] = mem["power"]
    BY <1>6, <1>8
  <2> QED BY <1>2, <1>8, <2>3, <2>4, <2>12, <2>13, <2>14 DEF LegBalance, W, o
<1> QED BY <1>9, <1>11, <1>12 DEF Balance

LEMMA InitBalance == Init => Balance
<1> SUFFICES ASSUME Init PROVE Balance
  OBVIOUS
<1>1. \A leg : Waiting(leg, pc) = {} /\ Owed(Waiting(leg, pc), hours) = {}
  BY DEF Init, Waiting, Owed
<1>2. IsFiniteSet({}) /\ Cardinality({}) = 0
  BY FS_EmptySet
<1>3. \A x \in Legs : Len(mem[x]) = 1 /\ Last(x) = 0
  BY DEF Init, Legs, Locations, Last
<1>4. PowerBalance(0)
  <2>1. Last("power") = 0 /\ Len(mem["power"]) = 1
    BY <1>3 DEF Legs
  <2>2. -0 <= 0 /\ 0 <= (1 - 1) - 0
    OBVIOUS
  <2> QED BY <2>1, <2>2 DEF PowerBalance
<1>5. ASSUME NEW leg \in Bought PROVE LegBalance(leg, 0)
  <2>1. Len(mem[leg]) = 1 /\ Last(leg) = 0 /\ Len(mem["power"]) = 1
    BY <1>3 DEF Bought, Legs
  <2>2. Part(leg) \in Nat
    BY PartNat
  <2>3. BoughtFor(0 - 0, Part(leg), 0, 1 - 1)
    BY <2>2 DEF BoughtFor, VolumeScale
  <2> QED BY <1>1, <1>2, <2>1, <2>3 DEF LegBalance
<1> QED BY <1>4, <1>5 DEF Balance

LEMMA BalanceFinal == SInv /\ Balance => LegsBalanced
<1> SUFFICES ASSUME SInv, Balance, \A h \in Hedgers : pc[h] \notin {"gas", "co2"}
             PROVE  LET n == Len(mem["power"]) - 1
                    IN /\ Len(mem["gas"]) = n + 1 /\ Len(mem["co2"]) = n + 1
                       /\ InProportion(-Last("power"), Last("gas"), HeatRate * 1000, n)
                       /\ InProportion(-Last("power"), Last("co2"), HeatRate * EmissionFactor, n)
  BY DEF LegsBalanced
<1>1. PICK sold \in Nat : PowerBalance(sold) /\ \A leg \in Bought : LegBalance(leg, sold)
  BY DEF Balance
<1>2. \A leg : Waiting(leg, pc) = {} /\ Owed(Waiting(leg, pc), hours) = {}
  BY DEF Waiting, Owed
<1>3. Cardinality({}) = 0
  BY FS_EmptySet
<1> DEFINE n == Len(mem["power"]) - 1
<1>4. Last("power") \in Int /\ n \in Nat
  BY LastInt DEF Legs
<1>5. -Last("power") <= sold /\ sold <= n - Last("power")
  BY <1>1 DEF PowerBalance
<1>6. ASSUME NEW leg \in Bought
      PROVE  /\ Len(mem[leg]) = n + 1
             /\ InProportion(-Last("power"), Last(leg), Part(leg), n)
  <2>1. /\ Len(mem[leg]) + 0 = Len(mem["power"])
        /\ BoughtFor(sold - 0, Part(leg), Last(leg), Len(mem[leg]) - 1)
    BY <1>1, <1>2, <1>3 DEF LegBalance
  <2>2. Last(leg) \in Int /\ Len(mem[leg]) \in Nat /\ Len(mem["power"]) \in Nat
    BY LastInt DEF Legs, Bought
  <2>3. Len(mem[leg]) = n + 1 /\ Len(mem[leg]) - 1 = n
    BY <2>1, <2>2
  <2> DEFINE a == sold * Part(leg)
             b == n * Part(leg)
             c == (-Last("power")) * Part(leg)
             s == -Last("power")
  <2>4. Part(leg) \in Nat
    BY PartNat
  <2>5. a \in Int /\ b \in Int /\ c \in Int
    BY <1>4, <2>4
  <2>6. a <= c + b /\ c <= a
    <3>1. s \in Int /\ s <= sold /\ sold <= s + n
      BY <1>4, <1>5
    <3> HIDE DEF s
    <3>2. \A x, y, z \in Int : x <= y /\ z >= 0 => x * z <= y * z
      OBVIOUS
    <3>3. s * Part(leg) <= sold * Part(leg) /\ sold * Part(leg) <= (s + n) * Part(leg)
      <4>1. s \in Int /\ sold \in Int /\ s + n \in Int /\ Part(leg) \in Int /\ Part(leg) >= 0
        BY <3>1, <2>4, <1>4
      <4> HIDE DEF n
      <4> QED BY <4>1, <3>1, <3>2
    <3>4. (s + n) * Part(leg) = s * Part(leg) + n * Part(leg)
      BY <3>1, <1>4, <2>4, Distribute
    <3> QED BY <3>3, <3>4 DEF s
  <2>7. Last(leg) * 10000 <= a /\ a <= Last(leg) * 10000 + n * 10000
    BY <2>1, <2>3 DEF BoughtFor, VolumeScale
  <2> HIDE DEF a, b, c
  <2>8. Last(leg) * 10000 - c <= b /\ c - Last(leg) * 10000 <= n * 10000
    <3> HIDE DEF n
    <3>1. n \in Nat
      BY <1>4
    <3> QED BY <3>1, <2>2, <2>5, <2>6, <2>7
  <2> QED BY <2>3, <2>8 DEF InProportion, VolumeScale, a, b, c
<1>7. Part("gas") = HeatRate * 1000 /\ Part("co2") = HeatRate * EmissionFactor
  BY DEF Part
<1> QED BY <1>6, <1>7 DEF Bought

(***************************************************************************)
(* LegsBalanced, for any number of threads, any plant and any hours: when  *)
(* no execution is under way every sale has its two purchases and these    *)
(* are what the power sold burns, but for what the conversions lose.       *)
(***************************************************************************)
THEOREM LegsBalancedHolds == Spec => []LegsBalanced
<1>1. Init => SInv /\ Balance
  BY InitSInv, InitBalance
<1>2. SInv /\ Balance /\ [Next]_vars => Balance'
  <2> SUFFICES ASSUME SInv, Balance, [Next]_vars PROVE Balance'
    OBVIOUS
  <2>1. ASSUME NEW h \in Hedgers, HedgerStep(h) PROVE Balance'
    BY <2>1, BalanceOutside, BalanceSell, BalanceBuy DEF HedgerStep
  <2>2. CASE ReadLeg \/ UNCHANGED vars
    <3>1. UNCHANGED <<mem, pc, hours>>
      BY <2>2 DEF ReadLeg, vars, locals, reader, history
    <3> QED BY <3>1, BalanceStays
  <2> QED BY <2>1, <2>2 DEF Next
<1>3. SInv /\ Balance => LegsBalanced
  BY BalanceFinal
<1> QED BY <1>1, <1>2, <1>3, NextSInv, PTL DEF Spec
-----------------------------------------------------------------------------
(***************************************************************************)
(* LegsCovered.  Which thread made a sale and which purchase follows it is *)
(* not in the state, so the invariant says that some attribution exists:   *)
(* `own' gives every sale its thread, `buys' every purchase its sale.  A   *)
(* thread that is past its purchase has seen it, and its next sale shows   *)
(* it to whoever reads that sale.                                          *)
(***************************************************************************)
Sales == 2..Len(mem["power"])
Purchases(leg) == 2..Len(mem[leg])

\* A view covers the purchase that follows sale j.
Shows(leg, v, buys, j) == \E k \in 2..v[leg] : buys[k] = j

\* Hedger h has seen the purchases of its sales, but for that of sale s.
SeesItsPurchases(leg, own, buys, h, s) ==
  \A j \in Sales : own[j] = h /\ j # s => Shows(leg, view[h], buys, j)

Attribution(leg, own, buys) ==
  /\ own \in [Sales -> Askers]
  /\ buys \in [Purchases(leg) -> Sales]
  /\ \A k, l \in Purchases(leg) : buys[k] = buys[l] => k = l

\* The view of a sale covers the purchases of all but its threads' last ones.
SalesShow(leg, own, buys) ==
  \A i, j, later \in Sales :
    j < later /\ later <= i /\ own[later] = own[j]
      => Shows(leg, mem["power"][i].view, buys, j)

ThreadsSee(leg, own, buys) ==
  \A h \in Hedgers :
    /\ h \notin Waiting(leg, pc) => SeesItsPurchases(leg, own, buys, h, 0)
    /\ h \in Waiting(leg, pc) =>
         \E s \in Sales : /\ own[s] = h /\ \A k \in Purchases(leg) : buys[k] # s
                          /\ SeesItsPurchases(leg, own, buys, h, s)

Attributed(leg) ==
  \E own, buys : /\ Attribution(leg, own, buys)
                 /\ SalesShow(leg, own, buys) /\ ThreadsSee(leg, own, buys)

AskersInv ==
  /\ IsFiniteSet(Askers)
  /\ \A h \in Hedgers : pc[h] # "idle" => h \in Askers

\* What the reader's first load showed it, its next loads return.
ReaderInv ==
  /\ Len(seen) <= 3
  /\ Len(seen) >= 1 =>
       /\ seen[1] \in 1..Len(mem["power"])
       /\ \A leg \in Bought : mem["power"][seen[1]].view[leg] <= rview[leg]
  /\ \A i \in 2..Len(seen) : mem["power"][seen[1]].view[LoadOrder[i]] <= seen[i]

Cover == AskersInv /\ ReaderInv /\ \A leg \in Bought : Attributed(leg)

-----------------------------------------------------------------------------
LEMMA WithinLeg ==
  ASSUME NEW v, Within(mem, v), NEW leg \in Legs
  PROVE  v[leg] \in Nat \ {0} /\ v[leg] <= Len(mem[leg])
BY DEF Within, Views, Locations

LEMMA SaleWithin ==
  ASSUME SInv, NEW i \in 1..Len(mem["power"])
  PROVE  Within(mem, mem["power"][i].view)
BY DEF SInv, Memory, Locations, Legs

\* Of the sales up to i, those whose purchase the view of i shows are no more
\* than the purchases it covers, the others are of different threads.
LEMMA CountSales ==
  ASSUME SInv, AskersInv, NEW leg \in Bought, Attributed(leg),
         NEW i \in 1..Len(mem["power"])
  PROVE  i <= mem["power"][i].view[leg] + Cardinality(Askers)
<1> DEFINE v == mem["power"][i].view
           g == v[leg]
<1>1. Len(mem["power"]) \in Nat /\ leg \in Legs
  BY LastInt DEF Legs, Bought
<1>2. Within(mem, v)
  BY SaleWithin
<1>3. g \in Nat \ {0} /\ g <= Len(mem[leg]) /\ Len(mem[leg]) \in Nat
  BY <1>1, <1>2, WithinLeg, LastInt
<1>4. Cardinality(Askers) \in Nat /\ IsFiniteSet(Askers)
  BY FS_CardinalityType DEF AskersInv
<1>5. PICK own, buys : /\ Attribution(leg, own, buys)
                       /\ SalesShow(leg, own, buys) /\ ThreadsSee(leg, own, buys)
  BY DEF Attributed
<1> DEFINE S == 2..i
           T == {j \in S : Shows(leg, v, buys, j)}
           U == S \ T
<1>6. IsFiniteSet(S) /\ Cardinality(S) = i - 1
  <2>1. IsFiniteSet(2..i) /\ Cardinality(2..i) = IF 2 > i THEN 0 ELSE i - 2 + 1
    BY <1>1, FS_Interval
  <2> QED BY <2>1, <1>1
<1>7. IsFiniteSet(2..g) /\ Cardinality(2..g) = g - 1
  <2> HIDE DEF g
  <2>1. IsFiniteSet(2..g) /\ Cardinality(2..g) = IF 2 > g THEN 0 ELSE g - 2 + 1
    BY <1>3, FS_Interval
  <2> QED BY <2>1, <1>3
<1>8. Cardinality(T) <= g - 1
  <2> DEFINE f == [j \in T |-> CHOOSE k \in 2..g : buys[k] = j]
  <2>1. \A j \in T : f[j] \in 2..g /\ buys[f[j]] = j
    BY DEF Shows
  <2> HIDE DEF T, g
  <2>2. f \in [T -> 2..g]
    BY <2>1
  <2> HIDE DEF f
  <2>3. f \in Injection(T, 2..g)
    BY <2>1, <2>2 DEF Injection, IsInjective
  <2> QED BY <2>3, <1>7, FS_Injection
<1>9. Cardinality(U) <= Cardinality(Askers)
  <2> DEFINE f == [j \in U |-> own[j]]
  <2>1. \A j \in U : j \in Sales /\ j <= i /\ j \in Int
    BY <1>1 DEF Sales
  <2>2. f \in [U -> Askers]
    BY <2>1, <1>5 DEF Attribution
  <2>3. ASSUME NEW j \in U, NEW k \in U, own[j] = own[k], j < k PROVE FALSE
    <3>1. i \in Sales
      BY <2>1, <1>1 DEF Sales
    <3>2. Shows(leg, v, buys, j)
      BY <2>1, <2>3, <3>1, <1>5 DEF SalesShow
    <3> QED BY <3>2, <2>3
  <2>4. \A j, k \in U : f[j] = f[k] => j = k
    <3> TAKE j, k \in U
    <3>1. j < k \/ k < j \/ j = k
      BY <2>1
    <3> HIDE DEF U
    <3> QED BY <3>1, <2>3
  <2> HIDE DEF f, U
  <2>5. f \in Injection(U, Askers)
    BY <2>2, <2>4 DEF Injection, IsInjective
  <2> QED BY <2>5, <1>4, FS_Injection
<1>10. Cardinality(S) = Cardinality(T) + Cardinality(U) /\ Cardinality(T) \in Nat /\ Cardinality(U) \in Nat
  <2>1. T \subseteq S /\ S \intersect T = T
    OBVIOUS
  <2>2. IsFiniteSet(T)
    BY <2>1, <1>6, FS_Subset
  <2>3. IsFiniteSet(U) /\ Cardinality(U) = Cardinality(S) - Cardinality(S \intersect T)
    BY <1>6, FS_Difference
  <2>4. Cardinality(T) \in Nat /\ Cardinality(U) \in Nat /\ Cardinality(S) \in Nat
    BY <2>2, <2>3, <1>6, FS_CardinalityType
  <2> HIDE DEF S, T, U
  <2>5. Cardinality(U) = Cardinality(S) - Cardinality(T)
    BY <2>1, <2>3
  <2> QED BY <2>4, <2>5
<1> HIDE DEF S, T, U, g
<1>11. i <= g + Cardinality(Askers)
  BY <1>1, <1>3, <1>4, <1>6, <1>8, <1>9, <1>10
<1> QED BY <1>11 DEF g

LEMMA CoverFinal == SInv /\ Cover => LegsCovered
<1> SUFFICES ASSUME SInv, Cover, NEW i \in 2..Len(seen)
             PROVE  seen[1] <= seen[i] + Cardinality(Askers)
  BY DEF LegsCovered
<1>1. seen \in Seq(Nat) /\ Len(seen) \in Nat /\ Len(seen) <= 3
  BY DEF SInv, Threads, Cover, ReaderInv
<1>2. i \in {2, 3} /\ LoadOrder[i] \in Bought
  BY <1>1 DEF LoadOrder, Bought
<1>3. seen[1] \in 1..Len(mem["power"]) /\ mem["power"][seen[1]].view[LoadOrder[i]] <= seen[i]
  BY <1>1, <1>2 DEF Cover, ReaderInv
<1> DEFINE w == mem["power"][seen[1]].view[LoadOrder[i]]
<1>4. seen[1] <= w + Cardinality(Askers)
  BY <1>2, <1>3, CountSales DEF Cover
<1>5. w \in Nat /\ seen[1] \in Nat /\ seen[i] \in Nat
  <2>1. Within(mem, mem["power"][seen[1]].view)
    BY <1>3, SaleWithin
  <2>2. LoadOrder[i] \in Legs
    BY <1>2 DEF Bought, Legs
  <2> QED BY <2>1, <2>2, <1>1, WithinLeg
<1>6. Cardinality(Askers) \in Nat
  BY FS_CardinalityType DEF Cover, AskersInv
<1> HIDE DEF w
<1> QED BY <1>3, <1>4, <1>5, <1>6 DEF w
-----------------------------------------------------------------------------
\* Messages stay where they are.
LEMMA MessagesStay ==
  ASSUME SInv, [Next]_vars, NEW x \in Locations
  PROVE  /\ Len(mem[x]) <= Len(mem'[x])
         /\ \A i \in 1..Len(mem[x]) : mem'[x][i] = mem[x][i]
<1>1. mem \in [Locations -> Seq(Messages)] /\ mem[x] \in Seq(Messages)
  BY DEF SInv, Memory
<1>2. ASSUME NEW h \in Hedgers, NEW loc \in Locations, NEW n \in Int, NEW old, Within(mem, old),
             Put(h, loc, n, old)
      PROVE  /\ Len(mem[x]) <= Len(mem'[x])
             /\ \A i \in 1..Len(mem[x]) : mem'[x][i] = mem[x][i]
  <2> DEFINE new == [old EXCEPT ![loc] = Len(mem[loc]) + 1]
             m == [val |-> n, view |-> new]
  <2>1. mem' = [mem EXCEPT ![loc] = Append(mem[loc], m)]
    BY <1>2 DEF Put, Carried
  <2>2. m \in Messages
    <3>1. new \in Views
      <4>1. mem[loc] \in Seq(Messages)
        BY <1>1
      <4> QED BY <4>1, <1>2 DEF Within, Views
    <3> QED BY <3>1 DEF Messages
  <2> HIDE DEF m
  <2>3. CASE x = loc
    BY <2>1, <2>2, <2>3, <1>1
  <2>4. CASE x # loc
    BY <2>1, <2>4, <1>1
  <2> QED BY <2>3, <2>4
<1>3. ASSUME NEW h \in Hedgers, StoreAverage(h)
      PROVE  /\ Len(mem[x]) <= Len(mem'[x])
             /\ \A i \in 1..Len(mem[x]) : mem'[x][i] = mem[x][i]
  <2>1. Put(h, "avg", average[h], view[h])
    BY <1>3 DEF StoreAverage
  <2>2. "avg" \in Locations /\ average[h] \in Int /\ Within(mem, view[h])
    BY DEF Locations, SInv, Threads
  <2> QED BY <2>1, <2>2, <1>2
<1>4. ASSUME NEW h \in Hedgers, NEW leg \in Legs, NEW n \in Int, FetchAdd(h, leg, n)
      PROVE  /\ Len(mem[x]) <= Len(mem'[x])
             /\ \A i \in 1..Len(mem[x]) : mem'[x][i] = mem[x][i]
  <2>1. /\ Last(leg) + n \in Int /\ leg \in Locations
        /\ Within(mem, Join(view[h], mem[leg][Len(mem[leg])].view))
    <3>1. Last(leg) \in Int /\ Len(mem[leg]) \in 1..Len(mem[leg]) /\ leg \in Locations
      BY LastInt DEF Locations
    <3>2. Within(mem, mem[leg][Len(mem[leg])].view) /\ Within(mem, view[h])
      BY <3>1 DEF SInv, Memory, Threads
    <3> QED BY <3>1, <3>2, JoinWithin
  <2>2. Put(h, leg, Last(leg) + n, Join(view[h], mem[leg][Len(mem[leg])].view))
    BY <1>4 DEF FetchAdd
  <2> QED BY <2>1, <2>2, <1>2
<1>5. ASSUME NEW h \in Hedgers, SellPower(h) \/ BuyGas(h) \/ BuyCo2(h)
      PROVE  /\ Len(mem[x]) <= Len(mem'[x])
             /\ \A i \in 1..Len(mem[x]) : mem'[x][i] = mem[x][i]
  <2>1. PICK leg \in Legs : \E n \in Cast(Volume(leg, hours[h]), VolumeScale) :
          FetchAdd(h, leg, n) \/ FetchAdd(h, leg, -n)
    BY <1>5 DEF SellPower, BuyGas, BuyCo2, Buy, Legs
  <2>2. PICK n \in Cast(Volume(leg, hours[h]), VolumeScale) :
          FetchAdd(h, leg, n) \/ FetchAdd(h, leg, -n)
    BY <2>1
  <2>3. Volume(leg, hours[h]) \in Int
    BY VolumeInt DEF SInv, Threads
  <2>4. n \in Int /\ -n \in Int
    BY <2>3, CastInt DEF VolumeScale
  <2> QED BY <2>2, <2>4, <1>4
<1>6. CASE mem' = mem
  BY <1>6, <1>1
<1>7. CASE \E h \in Hedgers : HedgerStep(h)
  <2>1. PICK h \in Hedgers : HedgerStep(h)
    BY <1>7
  <2>2. \/ mem' = mem \/ StoreAverage(h)
        \/ SellPower(h) \/ BuyGas(h) \/ BuyCo2(h)
    BY <2>1 DEF HedgerStep, Ask, KeepHedge, Rehedge, Recommend, Ignore
  <2> QED BY <2>2, <1>3, <1>5, <1>6
<1>8. CASE ReadLeg \/ UNCHANGED vars
  BY <1>6, <1>8 DEF ReadLeg, vars
<1> QED BY <1>7, <1>8 DEF Next

\* The reader: a message it has seen does not change, and a later load is
\* not older than what the first one showed.
LEMMA ReaderStep ==
  ASSUME SInv, SInv', ReaderInv, [Next]_vars
  PROVE  ReaderInv'
<1>1. /\ Len(mem["power"]) <= Len(mem'["power"])
      /\ \A i \in 1..Len(mem["power"]) : mem'["power"][i] = mem["power"][i]
      /\ Len(mem["power"]) \in Nat /\ Len(mem'["power"]) \in Nat
  <2>1. "power" \in Locations /\ "power" \in Legs
    BY DEF Locations, Legs
  <2>2. mem' \in [Locations -> Seq(Messages)]
    BY DEF SInv, Memory
  <2> QED BY <2>1, <2>2, MessagesStay, LastInt
<1>2. seen \in Seq(Nat)
  BY DEF SInv, Threads
<1>3. CASE UNCHANGED <<seen, rview>>
  <2>1. Len(seen) >= 1 => /\ seen[1] \in 1..Len(mem'["power"])
                          /\ mem'["power"][seen[1]] = mem["power"][seen[1]]
    BY <1>1 DEF ReaderInv
  <2>2. 2..Len(seen) # {} => Len(seen) >= 1
    BY <1>2
  <2> QED BY <1>3, <2>1, <2>2 DEF ReaderInv
<1>4. CASE ReadLeg
  <2> DEFINE leg == LoadOrder[Len(seen) + 1]
  <2>1. Len(seen) \in {0, 1, 2} /\ leg \in Legs /\ leg \in Locations
    <3>1. Len(seen) \in {0, 1, 2}
      <4>1. Len(seen) < 3
        BY <1>4 DEF ReadLeg
      <4>2. Len(seen) \in Nat
        BY <1>2
      <4>3. \A n \in Nat : n < 3 => n \in {0, 1, 2}
        OBVIOUS
      <4> QED BY <4>1, <4>2, <4>3
    <3>2. \A n \in {0, 1, 2} : LoadOrder[n + 1] \in Legs
      BY DEF LoadOrder, Legs
    <3> QED BY <3>1, <3>2 DEF Locations
  <2>2. PICK i \in rview[leg]..Len(mem[leg]) :
          /\ seen' = Append(seen, i)
          /\ rview' = Join([rview EXCEPT ![leg] = i], mem[leg][i].view)
    BY <1>4 DEF ReadLeg
  <2>3. mem' = mem
    BY <1>4 DEF ReadLeg
  <2>leg. leg = LoadOrder[Len(seen) + 1]
    OBVIOUS
  <2> HIDE DEF leg
  <2>4. Within(mem, rview) /\ Memory
    BY DEF SInv, Threads
  <2>5. /\ Within(mem, [rview EXCEPT ![leg] = i]) /\ Within(mem, mem[leg][i].view)
        /\ i \in 1..Len(mem[leg])
    BY <2>1, <2>4, SeenWithin
  <2>6. \A x \in Bought : /\ rview[x] \in Nat /\ rview'[x] \in Nat /\ rview[x] <= rview'[x]
                          /\ mem[leg][i].view[x] \in Nat /\ mem[leg][i].view[x] <= rview'[x]
    <3> TAKE x \in Bought
    <3>1. x \in Legs /\ x \in Locations
      BY DEF Bought, Legs, Locations
    <3> DEFINE r == [rview EXCEPT ![leg] = i]
               w == mem[leg][i].view
    <3>2. rview[x] \in Nat /\ r[x] \in Nat /\ w[x] \in Nat
      BY <3>1, <2>4, <2>5, WithinLeg
    <3>3. rview[x] <= r[x]
      <4>1. rview \in Views /\ i >= rview[leg] /\ i \in Nat
        BY <2>2, <2>4, <2>5 DEF Within
      <4>2. CASE x = leg
        BY <4>1, <4>2, <3>1 DEF Views
      <4>3. CASE x # leg
        BY <4>1, <4>3, <3>1, <3>2 DEF Views
      <4> QED BY <4>2, <4>3
    <3>4. rview'[x] = IF r[x] >= w[x] THEN r[x] ELSE w[x]
      BY <2>2, <3>1 DEF Join
    <3> HIDE DEF r, w
    <3>5. rview'[x] \in Nat /\ rview[x] <= rview'[x] /\ w[x] <= rview'[x]
      BY <3>2, <3>3, <3>4
    <3> QED BY <3>2, <3>5 DEF w
  <2>7. /\ seen' \in Seq(Nat) /\ Len(seen') = Len(seen) + 1 /\ seen'[Len(seen) + 1] = i
        /\ \A k \in 1..Len(seen) : seen'[k] = seen[k]
    <3>1. i \in Nat
      BY <2>5
    <3> QED BY <3>1, <2>2, <1>2
  <2>8. CASE Len(seen) = 0
    <3>1. leg = "power" /\ Len(seen') = 1 /\ seen'[1] = i
      BY <2>8, <2>7, <2>leg DEF LoadOrder
    <3>2. 2..Len(seen') = {}
      BY <3>1
    <3> QED BY <3>1, <3>2, <2>3, <2>5, <2>6 DEF ReaderInv
  <2>9. CASE Len(seen) \in {1, 2}
    <3>1. /\ leg \in Bought /\ leg = LoadOrder[Len(seen) + 1] /\ i >= rview[leg]
          /\ seen'[1] = seen[1] /\ Len(seen') <= 3
      <4>1. rview[leg] \in Nat /\ i \in Nat
        BY <2>1, <2>4, <2>5, WithinLeg
      <4>2. \A n \in {1, 2} : LoadOrder[n + 1] \in Bought
        BY DEF LoadOrder, Bought
      <4>3. leg \in Bought
        BY <2>9, <2>leg, <4>2
      <4>4. i >= rview[leg]
        BY <2>2, <4>1
      <4>5. seen'[1] = seen[1] /\ Len(seen') <= 3
        BY <2>7, <2>9
      <4> QED BY <2>leg, <4>3, <4>4, <4>5
    <3> DEFINE w == mem["power"][seen[1]].view
    <3>2. seen[1] \in 1..Len(mem["power"]) /\ \A x \in Bought : w[x] <= rview[x]
      BY <2>9 DEF ReaderInv
    <3>3. \A x \in Bought : w[x] \in Nat
      <4>1. Within(mem, w)
        BY <3>2, SaleWithin
      <4> QED BY <4>1, WithinLeg DEF Bought, Legs
    <3>4. \A k \in 2..Len(seen) : w[LoadOrder[k]] <= seen[k]
      BY DEF ReaderInv
    <3> HIDE DEF w
    <3>5. \A x \in Bought : w[x] <= rview'[x]
      BY <3>2, <3>3, <2>6
    <3>6. w[leg] <= i
      <4>1. i \in Nat
        BY <2>5
      <4> QED BY <3>1, <3>2, <3>3, <2>6, <4>1
    <3>7. ASSUME NEW k \in 2..Len(seen') PROVE w[LoadOrder[k]] <= seen'[k]
      <4>1. k \in 2..Len(seen) \/ k = Len(seen) + 1
        BY <2>7, <1>2
      <4>2. k \in 2..Len(seen) => k \in 1..Len(seen)
        BY <1>2
      <4> QED BY <4>1, <4>2, <3>1, <3>4, <3>6, <2>7
    <3>8. mem'["power"][seen'[1]].view = w /\ seen'[1] \in 1..Len(mem'["power"])
      BY <2>3, <3>1, <3>2 DEF w
    <3> QED BY <3>1, <3>5, <3>7, <3>8 DEF ReaderInv
  <2> QED BY <2>1, <2>8, <2>9
<1>5. ReadLeg \/ UNCHANGED <<seen, rview>>
  <2>1. ASSUME NEW h \in Hedgers, HedgerStep(h) PROVE UNCHANGED <<seen, rview>>
    BY <2>1 DEF HedgerStep, Ask, StoreAverage, KeepHedge, Rehedge, Recommend, Ignore,
                SellPower, BuyGas, BuyCo2, Buy, reader
  <2> QED BY <2>1 DEF Next, vars, reader
<1> QED BY <1>3, <1>4, <1>5

LEMMA AskersStep ==
  ASSUME SInv, AskersInv, [Next]_vars
  PROVE  AskersInv' /\ Askers \subseteq Askers'
<1>1. pc \in [Hedgers -> {"idle", "average", "rehedge", "urgency", "power", "gas", "co2"}]
  BY DEF SInv, Threads
<1>2. CASE asked' = asked /\ \A h \in Hedgers : pc'[h] # "idle" => pc[h] # "idle"
  BY <1>2 DEF AskersInv, Askers
<1>3. ASSUME NEW h \in Hedgers, NEW s \in Spreads, NEW n \in Hours, Ask(h, s, n)
      PROVE  AskersInv' /\ Askers \subseteq Askers'
  <2>1. asked' = asked \union {<<h, n>>} /\ pc' = [pc EXCEPT ![h] = "average"]
    BY <1>3 DEF Ask
  <2>2. Askers' = Askers \union {h}
    BY <2>1 DEF Askers
  <2>3. IsFiniteSet(Askers')
    BY <2>2, FS_AddElement DEF AskersInv
  <2> QED BY <2>1, <2>2, <2>3, <1>1 DEF AskersInv
<1>4. ASSUME NEW h \in Hedgers,
             \/ StoreAverage(h) \/ KeepHedge(h) \/ Rehedge(h) \/ Recommend(h) \/ Ignore(h)
             \/ SellPower(h) \/ BuyGas(h) \/ BuyCo2(h)
      PROVE  asked' = asked /\ \A g \in Hedgers : pc'[g] # "idle" => pc[g] # "idle"
  BY <1>1, <1>4 DEF StoreAverage, KeepHedge, Rehedge, Recommend, Ignore, SellPower, BuyGas,
                    BuyCo2, Buy, history
<1>5. CASE ReadLeg \/ UNCHANGED vars
  BY <1>2, <1>5 DEF ReadLeg, vars, locals, history
<1> QED BY <1>2, <1>3, <1>4, <1>5 DEF Next, HedgerStep
-----------------------------------------------------------------------------
\* A larger view shows no less.
LEMMA ShowsMore ==
  ASSUME NEW leg, NEW v, NEW w, NEW buys, NEW j,
         v[leg] \in Nat, w[leg] \in Nat, v[leg] <= w[leg], Shows(leg, v, buys, j)
  PROVE  Shows(leg, w, buys, j)
<1>1. PICK k \in 2..v[leg] : buys[k] = j
  BY DEF Shows
<1>2. k \in 2..w[leg]
  BY <1>1
<1> QED BY <1>1, <1>2 DEF Shows

\* Neither the leg nor power is traded: views only grow.
LEMMA AttributedStays ==
  ASSUME SInv, SInv', NEW leg \in Bought, Attributed(leg), Askers \subseteq Askers',
         mem'["power"] = mem["power"], mem'[leg] = mem[leg],
         Waiting(leg, pc') = Waiting(leg, pc),
         \A h \in Hedgers : view[h][leg] <= view'[h][leg]
  PROVE  Attributed(leg)'
<1>1. PICK own, buys : /\ Attribution(leg, own, buys)
                       /\ SalesShow(leg, own, buys) /\ ThreadsSee(leg, own, buys)
  BY DEF Attributed
<1>2. Sales' = Sales /\ Purchases(leg)' = Purchases(leg)
  BY DEF Sales, Purchases
<1>3. Attribution(leg, own, buys)'
  BY <1>1, <1>2 DEF Attribution
<1>4. SalesShow(leg, own, buys)'
  BY <1>1, <1>2 DEF SalesShow, Shows
<1>5. ASSUME NEW h \in Hedgers, NEW s, SeesItsPurchases(leg, own, buys, h, s)
      PROVE  SeesItsPurchases(leg, own, buys, h, s)'
  <2>1. leg \in Legs
    BY DEF Bought, Legs
  <2>2. view[h][leg] \in Nat /\ view'[h][leg] \in Nat
    BY <2>1 DEF SInv, Threads, Views, Locations
  <2>3. \A j : Shows(leg, view[h], buys, j) => Shows(leg, view'[h], buys, j)
    BY <2>2, ShowsMore
  <2> QED BY <1>2, <1>5, <2>3 DEF SeesItsPurchases
<1>6. ThreadsSee(leg, own, buys)'
  BY <1>1, <1>2, <1>5 DEF ThreadsSee
<1> QED BY <1>3, <1>4, <1>6 DEF Attributed

\* A sale.
LEMMA AttributedSell ==
  ASSUME SInv, SInv', AskersInv, NEW leg \in Bought, Attributed(leg), Askers \subseteq Askers',
         NEW h \in Hedgers, SellPower(h)
  PROVE  Attributed(leg)'
<1>1. PICK own, buys : /\ Attribution(leg, own, buys)
                       /\ SalesShow(leg, own, buys) /\ ThreadsSee(leg, own, buys)
  BY DEF Attributed
<1>2. PICK n : FetchAdd(h, "power", n)
  BY DEF SellPower
<1>L. PICK L : L = Len(mem["power"])
  OBVIOUS
<1> DEFINE w == mem["power"][L].view
           new == [Join(view[h], w) EXCEPT !["power"] = L + 1]
           m == [val |-> Last("power") + n, view |-> new]
<1>3. /\ mem' = [mem EXCEPT !["power"] = Append(mem["power"], m)]
      /\ view' = [view EXCEPT ![h] = new]
  BY <1>2, <1>L DEF FetchAdd, Put, Carried
<1>4. /\ "power" \in Locations /\ leg \in Locations /\ leg \in Legs /\ leg # "power"
      /\ "power" \in Legs
      /\ mem \in [Locations -> Seq(Messages)] /\ view \in [Hedgers -> Views]
  BY DEF SInv, Memory, Threads, Locations, Legs, Bought
<1>5. L \in Nat \ {0} /\ L \in 1..L
  BY <1>4, <1>L, LastInt
<1>6. Within(mem, w) /\ Within(mem, view[h])
  BY <1>5, <1>L, SaleWithin DEF SInv, Threads
<1>7. /\ view[h][leg] \in Nat /\ w[leg] \in Nat /\ new[leg] \in Nat
      /\ view[h][leg] <= new[leg] /\ w[leg] <= new[leg]
  <2>1. view[h][leg] \in Nat /\ w[leg] \in Nat
    BY <1>4, <1>6, WithinLeg
  <2>2. new[leg] = IF view[h][leg] >= w[leg] THEN view[h][leg] ELSE w[leg]
    BY <1>4 DEF Join
  <2> HIDE DEF new, w
  <2> QED BY <2>1, <2>2
<1>8. m.view = new
  OBVIOUS
<1> HIDE DEF m
<1>9. mem'["power"] = Append(mem["power"], m) /\ mem'[leg] = mem[leg]
  BY <1>3, <1>4
<1>10. /\ Len(mem'["power"]) = L + 1 /\ mem'["power"][L + 1].view = new
       /\ \A i \in 1..L : mem'["power"][i] = mem["power"][i]
  <2>1. mem["power"] \in Seq(Messages)
    BY <1>4
  <2> QED BY <2>1, <1>8, <1>9, <1>L
<1>11. /\ view'[h] = new
       /\ \A g \in Hedgers : g # h => view'[g] = view[g]
  BY <1>3, <1>4
<1>12. w = mem["power"][L].view
  OBVIOUS
<1> HIDE DEF new, w
<1>13. /\ Sales' = Sales \union {L + 1} /\ L + 1 \notin Sales
       /\ \A i \in Sales : i \in Nat /\ i <= L /\ i \in 1..L /\ L \in Sales
       /\ Purchases(leg)' = Purchases(leg)
  <2>1. Sales = 2..L /\ Sales' = 2..(L + 1)
    BY <1>10, <1>L DEF Sales
  <2>2. Purchases(leg)' = Purchases(leg)
    BY <1>9 DEF Purchases
  <2>3. 2..(L + 1) = (2..L) \union {L + 1} /\ L + 1 \notin 2..L
    BY <1>5
  <2>4. \A i \in 2..L : i \in Nat /\ i <= L /\ i \in 1..L /\ L \in 2..L
    BY <1>5
  <2> QED BY <2>1, <2>2, <2>3, <2>4
<1>own. PICK own2 : own2 = [j \in Sales \union {L + 1} |-> IF j = L + 1 THEN h ELSE own[j]]
  OBVIOUS
<1>14. /\ own2[L + 1] = h /\ \A j \in Sales : own2[j] = own[j]
       /\ own2 \in [Sales \union {L + 1} -> Askers']
  <2>1. h \in Askers
    BY DEF SellPower, AskersInv
  <2>2. \A j \in Sales : j # L + 1
    BY <1>13
  <2>3. \A j \in Sales : own[j] \in Askers'
    BY <1>1 DEF Attribution
  <2> QED BY <2>1, <2>2, <2>3, <1>own
<1>15. Attribution(leg, own2, buys)'
  BY <1>1, <1>13, <1>14 DEF Attribution
<1>16. h \notin Waiting(leg, pc) /\ Waiting(leg, pc') = Waiting(leg, pc) \union {h}
  BY DEF SellPower, Waiting, SInv, Threads
<1>17. SalesShow(leg, own2, buys)'
  <2> SUFFICES ASSUME NEW i \in Sales', NEW j \in Sales', NEW later \in Sales',
                      j < later, later <= i, own2[later] = own2[j]
               PROVE  Shows(leg, mem'["power"][i].view, buys, j)
    BY DEF SalesShow, Shows
  <2>1. \A k \in Sales' : k \in Nat /\ k <= L + 1
    BY <1>5, <1>13
  <2>2. j \in Sales
    <3>1. j # L + 1
      BY <2>1, <1>5
    <3> QED BY <3>1, <1>13
  <2>3. CASE i \in Sales
    <3>1. later \in Sales
      <4>1. later # L + 1
        BY <2>1, <2>3, <1>13, <1>5
      <4> QED BY <4>1, <1>13
    <3>2. Shows(leg, mem["power"][i].view, buys, j)
      BY <2>2, <2>3, <3>1, <1>1, <1>14 DEF SalesShow
    <3> QED BY <3>2, <2>3, <1>10, <1>13
  <2>4. CASE i = L + 1
    <3>1. CASE later = L + 1
      <4>1. own[j] = h /\ j # 0
        BY <2>2, <3>1, <1>14, <1>13 DEF Sales
      <4>2. Shows(leg, view[h], buys, j)
        BY <4>1, <2>2, <1>1, <1>16 DEF ThreadsSee, SeesItsPurchases
      <4>3. Shows(leg, new, buys, j)
        BY <4>2, <1>7, ShowsMore
      <4> QED BY <4>3, <2>4, <1>10
    <3>2. CASE later \in Sales
      <4>1. L \in Sales /\ later <= L
        BY <3>2, <1>13
      <4>2. Shows(leg, w, buys, j)
        BY <4>1, <2>2, <3>2, <1>1, <1>12, <1>14 DEF SalesShow
      <4>3. Shows(leg, new, buys, j)
        BY <4>2, <1>7, ShowsMore
      <4> QED BY <4>3, <2>4, <1>10
    <3> QED BY <3>1, <3>2, <1>13
  <2> QED BY <2>3, <2>4, <1>13
<1>18. ThreadsSee(leg, own2, buys)'
  <2> SUFFICES ASSUME NEW g \in Hedgers
               PROVE  /\ g \notin Waiting(leg, pc') => SeesItsPurchases(leg, own2, buys, g, 0)'
                      /\ g \in Waiting(leg, pc') =>
                           \E s \in Sales' : /\ own2[s] = g /\ \A k \in Purchases(leg)' : buys[k] # s
                                             /\ SeesItsPurchases(leg, own2, buys, g, s)'
    BY DEF ThreadsSee
  <2>1. CASE g = h
    <3>1. \A k \in Purchases(leg)' : buys[k] # L + 1
      BY <1>1, <1>13 DEF Attribution
    <3>2. ASSUME NEW j \in Sales', own2[j] = h, j # L + 1
          PROVE  Shows(leg, view'[h], buys, j)
      <4>1. j \in Sales /\ own[j] = h /\ j # 0
        BY <3>2, <1>13, <1>14 DEF Sales
      <4>2. Shows(leg, view[h], buys, j)
        BY <4>1, <1>1, <1>16 DEF ThreadsSee, SeesItsPurchases
      <4> QED BY <4>2, <1>7, <1>11, ShowsMore
    <3>3. SeesItsPurchases(leg, own2, buys, h, L + 1)'
      BY <3>2 DEF SeesItsPurchases, Shows
    <3> QED BY <2>1, <3>1, <3>3, <1>13, <1>14, <1>16
  <2>2. CASE g # h
    <3>1. view'[g] = view[g] /\ (g \in Waiting(leg, pc') <=> g \in Waiting(leg, pc))
      BY <2>2, <1>11, <1>16
    <3>2. ASSUME NEW s, SeesItsPurchases(leg, own, buys, g, s)
          PROVE  SeesItsPurchases(leg, own2, buys, g, s)'
      <4>1. \A j \in Sales' : own2[j] = g => j \in Sales /\ own[j] = g
        BY <2>2, <1>13, <1>14
      <4> QED BY <3>1, <3>2, <4>1 DEF SeesItsPurchases, Shows
    <3> QED BY <3>1, <3>2, <1>1, <1>13, <1>14 DEF ThreadsSee
  <2> QED BY <2>1, <2>2
<1> QED BY <1>15, <1>17, <1>18 DEF Attributed
\* A purchase is attributed to the sale its thread has pending.
LEMMA AttributedBuy ==
  ASSUME SInv, SInv', NEW leg \in Bought, Attributed(leg), Askers \subseteq Askers',
         NEW h \in Hedgers, NEW next, Buy(h, leg, next), h \notin Waiting(leg, pc'),
         Waiting(leg, pc) = Waiting(leg, pc') \union {h}
  PROVE  Attributed(leg)'
<1>1. PICK own, buys : /\ Attribution(leg, own, buys)
                       /\ SalesShow(leg, own, buys) /\ ThreadsSee(leg, own, buys)
  BY DEF Attributed
<1>2. PICK n : FetchAdd(h, leg, n)
  BY DEF Buy
<1>L. PICK L : L = Len(mem[leg])
  OBVIOUS
<1> DEFINE new == [Join(view[h], mem[leg][L].view) EXCEPT ![leg] = L + 1]
           m == [val |-> Last(leg) + n, view |-> new]
<1>3. /\ mem' = [mem EXCEPT ![leg] = Append(mem[leg], m)]
      /\ view' = [view EXCEPT ![h] = new]
  BY <1>2, <1>L DEF FetchAdd, Put, Carried
<1>4. /\ "power" \in Locations /\ leg \in Locations /\ leg \in Legs /\ leg # "power"
      /\ mem \in [Locations -> Seq(Messages)] /\ view \in [Hedgers -> Views]
  BY DEF SInv, Memory, Threads, Locations, Legs, Bought
<1>5. L \in Nat \ {0}
  BY <1>4, <1>L, LastInt
<1>6. new[leg] = L + 1
  BY <1>4 DEF Join
<1> HIDE DEF m
<1>7. mem'[leg] = Append(mem[leg], m) /\ mem'["power"] = mem["power"]
  BY <1>3, <1>4
<1>8. Len(mem'[leg]) = L + 1
  <2>1. mem[leg] \in Seq(Messages)
    BY <1>4
  <2> QED BY <2>1, <1>7, <1>L
<1>9. /\ view'[h][leg] = L + 1
      /\ \A g \in Hedgers : g # h => view'[g] = view[g]
  BY <1>3, <1>4, <1>6
<1> HIDE DEF new
<1>10. /\ Sales' = Sales
       /\ Purchases(leg) = 2..L /\ Purchases(leg)' = Purchases(leg) \union {L + 1}
       /\ L + 1 \notin Purchases(leg)
  <2>1. Sales' = Sales
    BY <1>7 DEF Sales
  <2>2. Purchases(leg) = 2..L /\ Purchases(leg)' = 2..(L + 1)
    BY <1>8, <1>L DEF Purchases
  <2>3. 2..(L + 1) = (2..L) \union {L + 1} /\ L + 1 \notin 2..L
    BY <1>5
  <2> QED BY <2>1, <2>2, <2>3
\* The pending sale.
<1>11. PICK s \in Sales : /\ own[s] = h /\ \A k \in Purchases(leg) : buys[k] # s
                          /\ SeesItsPurchases(leg, own, buys, h, s)
  BY <1>1 DEF ThreadsSee
<1>12. PICK buys2 : buys2 = [k \in Purchases(leg) \union {L + 1} |-> IF k = L + 1 THEN s ELSE buys[k]]
  OBVIOUS
<1>13. buys2[L + 1] = s /\ \A k \in Purchases(leg) : buys2[k] = buys[k]
  BY <1>10, <1>12
<1>14. Attribution(leg, own, buys2)'
  <2>1. own \in [Sales' -> Askers']
    BY <1>1, <1>10 DEF Attribution
  <2>2. buys2 \in [Purchases(leg)' -> Sales']
    BY <1>1, <1>10, <1>12, <1>13 DEF Attribution
  <2>3. \A k, l \in Purchases(leg)' : buys2[k] = buys2[l] => k = l
    BY <1>1, <1>10, <1>11, <1>13 DEF Attribution
  <2> QED BY <2>1, <2>2, <2>3 DEF Attribution
\* What was shown still is.
<1>15. ASSUME NEW v, v[leg] \in Nat, v[leg] <= L, NEW j, Shows(leg, v, buys, j)
       PROVE  Shows(leg, v, buys2, j)
  <2>1. PICK k \in 2..v[leg] : buys[k] = j
    BY <1>15 DEF Shows
  <2>2. k \in Purchases(leg)
    BY <2>1, <1>15, <1>5, <1>10
  <2> QED BY <2>1, <2>2, <1>13 DEF Shows
<1>16. SalesShow(leg, own, buys2)'
  <2> SUFFICES ASSUME NEW i \in Sales, NEW j \in Sales, NEW later \in Sales,
                      j < later, later <= i, own[later] = own[j]
               PROVE  Shows(leg, mem["power"][i].view, buys2, j)
    BY <1>7, <1>10 DEF SalesShow, Shows
  <2>1. Shows(leg, mem["power"][i].view, buys, j)
    BY <1>1 DEF SalesShow
  <2>2. i \in 1..Len(mem["power"])
    BY DEF Sales
  <2>3. mem["power"][i].view[leg] \in Nat /\ mem["power"][i].view[leg] <= L
    BY <2>2, <1>4, <1>L, SaleWithin, WithinLeg
  <2> QED BY <2>1, <2>3, <1>15
<1>17. ThreadsSee(leg, own, buys2)'
  <2> SUFFICES ASSUME NEW g \in Hedgers
               PROVE  /\ g \notin Waiting(leg, pc') => SeesItsPurchases(leg, own, buys2, g, 0)'
                      /\ g \in Waiting(leg, pc') =>
                           \E t \in Sales' : /\ own[t] = g
                                             /\ \A k \in Purchases(leg)' : buys2[k] # t
                                             /\ SeesItsPurchases(leg, own, buys2, g, t)'
    BY DEF ThreadsSee
  <2>0. view[g][leg] \in Nat /\ view[g][leg] <= L
    <3>1. Within(mem, view[g])
      BY DEF SInv, Threads
    <3> QED BY <3>1, <1>4, <1>L, WithinLeg
  <2>1. CASE g = h
    <3>1. ASSUME NEW j \in Sales, own[j] = h PROVE Shows(leg, view'[h], buys2, j)
      <4>1. CASE j = s
        <5>1. L + 1 \in 2..(L + 1)
          BY <1>5
        <5> QED BY <4>1, <5>1, <1>9, <1>13 DEF Shows
      <4>2. CASE j # s
        <5>1. Shows(leg, view[h], buys, j)
          BY <4>2, <3>1, <1>11 DEF SeesItsPurchases
        <5>2. Shows(leg, view[h], buys2, j)
          BY <5>1, <2>0, <2>1, <1>15
        <5>3. view'[h][leg] \in Nat /\ view[h][leg] <= view'[h][leg]
          BY <2>0, <2>1, <1>5, <1>9
        <5> QED BY <5>2, <5>3, <2>0, <2>1, ShowsMore
      <4> QED BY <4>1, <4>2
    <3>2. SeesItsPurchases(leg, own, buys2, h, 0)'
      BY <3>1, <1>10 DEF SeesItsPurchases, Shows
    <3> QED BY <2>1, <3>2
  <2>2. CASE g # h
    <3>1. view'[g] = view[g] /\ (g \in Waiting(leg, pc') <=> g \in Waiting(leg, pc))
      BY <2>2, <1>9
    <3>2. ASSUME NEW t, SeesItsPurchases(leg, own, buys, g, t)
          PROVE  SeesItsPurchases(leg, own, buys2, g, t)'
      <4>1. \A j \in Sales : own[j] = g /\ j # t => Shows(leg, view[g], buys2, j)
        BY <3>2, <2>0, <1>15 DEF SeesItsPurchases
      <4> QED BY <4>1, <3>1, <1>10 DEF SeesItsPurchases, Shows
    <3>3. ASSUME NEW t \in Sales, own[t] = g, \A k \in Purchases(leg) : buys[k] # t
          PROVE  \A k \in Purchases(leg)' : buys2[k] # t
      <4>1. t # s
        BY <3>3, <2>2, <1>11
      <4> QED BY <3>3, <4>1, <1>10, <1>13
    <3>4. CASE g \notin Waiting(leg, pc')
      <4>1. SeesItsPurchases(leg, own, buys, g, 0)
        BY <3>4, <3>1, <1>1 DEF ThreadsSee
      <4> QED BY <4>1, <3>2, <3>4
    <3>5. CASE g \in Waiting(leg, pc')
      <4>1. PICK t \in Sales : /\ own[t] = g /\ \A k \in Purchases(leg) : buys[k] # t
                               /\ SeesItsPurchases(leg, own, buys, g, t)
        BY <3>5, <3>1, <1>1 DEF ThreadsSee
      <4>2. /\ \A k \in Purchases(leg)' : buys2[k] # t
            /\ SeesItsPurchases(leg, own, buys2, g, t)'
        BY <4>1, <3>2, <3>3
      <4> QED BY <4>1, <4>2, <3>5, <1>10
    <3> QED BY <3>4, <3>5
  <2> QED BY <2>1, <2>2
<1> QED BY <1>14, <1>16, <1>17 DEF Attributed
\* Nothing a thread has seen of the legs is forgotten.
LEMMA ViewsGrow ==
  ASSUME SInv, SInv', NEW h \in Hedgers, HedgerStep(h), NEW leg \in Bought, NEW g \in Hedgers
  PROVE  view[g][leg] <= view'[g][leg]
<1>1. /\ leg \in Locations /\ leg \in Legs /\ leg \notin {"power", "avg"}
      /\ view \in [Hedgers -> Views] /\ view' \in [Hedgers -> Views]
  BY DEF SInv, Threads, Locations, Legs, Bought
<1>2. \A k \in Hedgers : view[k][leg] \in Nat /\ view'[k][leg] \in Nat
  BY <1>1 DEF Views
<1>3. ASSUME NEW v, view' = [view EXCEPT ![h] = v], view[h][leg] <= v[leg]
      PROVE  view[g][leg] <= view'[g][leg]
  BY <1>1, <1>2, <1>3
<1>4. ASSUME NEW loc \in Locations, NEW n, NEW old, Put(h, loc, n, old),
             old \in Views, view[h][leg] <= old[leg]
      PROVE  view[g][leg] <= view'[g][leg]
  <2> DEFINE new == [old EXCEPT ![loc] = Len(mem[loc]) + 1]
  <2>1. view' = [view EXCEPT ![h] = new]
    BY <1>4 DEF Put
  <2>2. CASE leg = loc
    <3>1. new[leg] = Len(mem[leg]) + 1
      BY <2>2, <1>1, <1>4 DEF Views
    <3>2. view[h][leg] <= Len(mem[leg]) /\ Len(mem[leg]) \in Nat
      BY <1>1, WithinLeg, LastInt DEF SInv, Threads
    <3>3. view[h][leg] <= new[leg]
      BY <3>1, <3>2, <1>2
    <3> QED BY <2>1, <3>3, <1>3
  <2>3. CASE leg # loc
    <3>1. new[leg] = old[leg]
      BY <2>3, <1>1, <1>4 DEF Views
    <3> QED BY <2>1, <3>1, <1>3, <1>4
  <2> QED BY <2>2, <2>3
<1>5. ASSUME NEW v \in Views, NEW w \in Views, v[leg] = view[h][leg]
      PROVE  Join(v, w) \in Views /\ view[h][leg] <= Join(v, w)[leg]
  <2>1. Join(v, w) \in Views
    BY DEF Join, Views
  <2>2. Join(v, w)[leg] = IF v[leg] >= w[leg] THEN v[leg] ELSE w[leg]
    BY <1>1 DEF Join
  <2>3. v[leg] \in Nat /\ w[leg] \in Nat
    BY <1>1 DEF Views
  <2> QED BY <2>1, <2>2, <2>3, <1>5
<1>6. CASE view' = view
  BY <1>2, <1>6
<1>7. ASSUME NEW i, view' = [view EXCEPT ![h] = [view[h] EXCEPT !["avg"] = i]]
      PROVE  view[g][leg] <= view'[g][leg]
  <2>1. [view[h] EXCEPT !["avg"] = i][leg] = view[h][leg]
    BY <1>1 DEF Views
  <2> QED BY <1>2, <1>3, <1>7, <2>1
<1>8. CASE (\E s \in Spreads, n \in Hours : Ask(h, s, n)) \/ Recommend(h)
  <2>1. \E i : view' = [view EXCEPT ![h] = [view[h] EXCEPT !["avg"] = i]]
    BY <1>8 DEF Ask, Recommend
  <2> QED BY <2>1, <1>7
<1>9. CASE StoreAverage(h)
  <2>1. Put(h, "avg", average[h], view[h])
    BY <1>9 DEF StoreAverage
  <2>2. view[h] \in Views /\ view[h][leg] <= view[h][leg] /\ "avg" \in Locations
    BY <1>1, <1>2 DEF Locations
  <2> QED BY <2>1, <2>2, <1>4
<1>10. CASE KeepHedge(h) \/ Rehedge(h)
  <2>1. PICK i \in view[h]["power"]..Len(mem["power"]) : LoadPower(h, i)
    BY <1>10 DEF KeepHedge, Rehedge
  <2> DEFINE v == [view[h] EXCEPT !["power"] = i]
             w == mem["power"][i].view
  <2>2. view' = [view EXCEPT ![h] = Join(v, w)]
    BY <2>1 DEF LoadPower
  <2>3. Within(mem, v) /\ Within(mem, w)
    BY SeenWithin DEF SInv, Threads, Locations, Legs
  <2>4. v[leg] = view[h][leg]
    BY <1>1 DEF Views
  <2>5. v \in Views /\ w \in Views
    BY <2>3 DEF Within
  <2> HIDE DEF v, w
  <2>6. view[h][leg] <= Join(v, w)[leg]
    BY <2>4, <2>5, <1>5
  <2> QED BY <2>2, <2>6, <1>3
<1>11. CASE Ignore(h)
  BY <1>6, <1>11 DEF Ignore
<1>12. CASE SellPower(h) \/ BuyGas(h) \/ BuyCo2(h)
  <2>1. PICK loc \in Legs : \E n : FetchAdd(h, loc, n)
    BY <1>12 DEF SellPower, BuyGas, BuyCo2, Buy, Legs
  <2>2. PICK n : FetchAdd(h, loc, n)
    BY <2>1
  <2> DEFINE w == mem[loc][Len(mem[loc])].view
  <2>3. w \in Views
    <3>1. Len(mem[loc]) \in 1..Len(mem[loc]) /\ loc \in Locations
      BY LastInt DEF Locations
    <3> QED BY <3>1 DEF SInv, Memory, Within
  <2>4. Put(h, loc, Last(loc) + n, Join(view[h], w))
    BY <2>2 DEF FetchAdd
  <2> HIDE DEF w
  <2>5. view[h] \in Views /\ loc \in Locations
    BY <1>1 DEF Locations
  <2>6. Join(view[h], w) \in Views /\ view[h][leg] <= Join(view[h], w)[leg]
    BY <2>3, <2>5, <1>5
  <2> QED BY <2>4, <2>5, <2>6, <1>4
<1> QED BY <1>8, <1>9, <1>10, <1>11, <1>12 DEF HedgerStep

LEMMA AttributedStep ==
  ASSUME SInv, SInv', AskersInv, Askers \subseteq Askers', [Next]_vars,
         NEW leg \in Bought, Attributed(leg)
  PROVE  Attributed(leg)'
<1>1. CASE ReadLeg \/ UNCHANGED vars
  <2>1. UNCHANGED <<mem, view, pc>>
    BY <1>1 DEF ReadLeg, vars, locals
  <2>2. \A g \in Hedgers : view[g][leg] <= view'[g][leg]
    BY <2>1 DEF SInv, Threads, Views, Locations, Legs, Bought
  <2> QED BY <2>1, <2>2, AttributedStays
<1>2. ASSUME NEW h \in Hedgers, HedgerStep(h) PROVE Attributed(leg)'
  <2>1. \A g \in Hedgers : view[g][leg] <= view'[g][leg]
    BY <1>2, ViewsGrow
  <2>2. /\ pc \in [Hedgers -> {"idle", "average", "rehedge", "urgency", "power", "gas", "co2"}]
        /\ leg \in Legs /\ leg # "power" /\ "power" \in Legs
    BY DEF SInv, Threads, Bought, Legs
  <2>3. CASE \/ \E s \in Spreads, n \in Hours : Ask(h, s, n)
             \/ StoreAverage(h) \/ KeepHedge(h) \/ Rehedge(h) \/ Recommend(h) \/ Ignore(h)
    <3>1. \A x \in Legs : mem'[x] = mem[x]
      <4>1. CASE StoreAverage(h)
        BY <4>1 DEF StoreAverage, Put, SInv, Memory, Locations, Legs
      <4> QED BY <2>3, <4>1 DEF Ask, KeepHedge, Rehedge, Recommend, Ignore
    <3>2. /\ pc[h] \notin {"gas", "co2"}
          /\ \E next \in {"idle", "average", "rehedge", "urgency", "power"} :
               pc' = [pc EXCEPT ![h] = next]
      BY <2>3 DEF Ask, StoreAverage, KeepHedge, Rehedge, Recommend, Ignore
    <3>3. Waiting(leg, pc') = Waiting(leg, pc)
      BY <3>2, OutsideWaiting
    <3> QED BY <2>1, <2>2, <3>1, <3>3, AttributedStays
  <2>4. CASE SellPower(h)
    BY <2>4, AttributedSell
  <2>5. ASSUME NEW x \in Bought, NEW next \in {"co2", "idle"}, Buy(h, x, next),
               next = IF x = "gas" THEN "co2" ELSE "idle"
        PROVE  Attributed(leg)'
    <3>1. pc[h] = x /\ pc' = [pc EXCEPT ![h] = next]
      BY <2>5 DEF Buy
    <3>2. CASE x = leg
      <4>1. h \notin Waiting(leg, pc') /\ Waiting(leg, pc) = Waiting(leg, pc') \union {h}
        BY <2>2, <2>5, <3>1, <3>2 DEF Waiting, Bought
      <4> QED BY <2>5, <3>2, <4>1, AttributedBuy
    <3>3. CASE x # leg
      <4>1. Waiting(leg, pc') = Waiting(leg, pc)
        BY <2>2, <2>5, <3>1, <3>3 DEF Waiting, Bought
      <4>2. mem'["power"] = mem["power"] /\ mem'[leg] = mem[leg]
        BY <2>2, <2>5, <3>3 DEF Buy, FetchAdd, Put, SInv, Memory, Locations, Legs, Bought
      <4> QED BY <2>1, <4>1, <4>2, AttributedStays
    <3> QED BY <3>2, <3>3
  <2>6. CASE BuyGas(h) \/ BuyCo2(h)
    BY <2>5, <2>6 DEF BuyGas, BuyCo2, Bought
  <2> QED BY <1>2, <2>3, <2>4, <2>6 DEF HedgerStep
<1> QED BY <1>1, <1>2 DEF Next

LEMMA InitCover == Init => Cover
<1> SUFFICES ASSUME Init PROVE Cover
  OBVIOUS
<1>1. AskersInv
  <2>1. Askers = {} /\ \A h \in Hedgers : pc[h] = "idle"
    BY DEF Init, Askers
  <2> QED BY <2>1, FS_EmptySet DEF AskersInv
<1>2. ReaderInv
  <2>1. seen = << >>
    BY DEF Init
  <2> QED BY <2>1 DEF ReaderInv
<1>3. ASSUME NEW leg \in Bought PROVE Attributed(leg)
  <2>1. Sales = {} /\ Purchases(leg) = {}
    BY DEF Init, Sales, Purchases, Bought, Locations, Legs
  <2>2. Waiting(leg, pc) = {}
    BY DEF Init, Waiting
  <2> DEFINE none == [j \in {} |-> 0]
  <2>3. Attribution(leg, none, none)
    BY <2>1 DEF Attribution
  <2>4. SalesShow(leg, none, none) /\ ThreadsSee(leg, none, none)
    BY <2>1, <2>2 DEF SalesShow, ThreadsSee, SeesItsPurchases
  <2> QED BY <2>3, <2>4 DEF Attributed
<1> QED BY <1>1, <1>2, <1>3 DEF Cover

(***************************************************************************)
(* LegsCovered, for any number of threads and any plant: of the sales that *)
(* get_positions shows at most one per thread that ever asked lacks its    *)
(* purchases in the gas and the CO2 that the same call returns.            *)
(***************************************************************************)
THEOREM LegsCoveredHolds == Spec => []LegsCovered
<1>1. Init => SInv /\ Cover
  BY InitSInv, InitCover
<1>2. SInv /\ Cover /\ [Next]_vars => SInv' /\ Cover'
  <2> SUFFICES ASSUME SInv, Cover, [Next]_vars PROVE SInv' /\ Cover'
    OBVIOUS
  <2>1. SInv'
    BY NextSInv
  <2>2. AskersInv' /\ Askers \subseteq Askers'
    BY AskersStep DEF Cover
  <2>3. ReaderInv'
    BY <2>1, ReaderStep DEF Cover
  <2>4. ASSUME NEW leg \in Bought PROVE Attributed(leg)'
    BY <2>1, <2>2, AttributedStep DEF Cover
  <2> QED BY <2>1, <2>2, <2>3, <2>4 DEF Cover
<1>3. SInv /\ Cover => LegsCovered
  BY CoverFinal
<1> QED BY <1>1, <1>2, <1>3, PTL DEF Spec
=============================================================================
