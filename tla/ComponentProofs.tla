--------------------------- MODULE ComponentProofs ---------------------------
(***************************************************************************)
(* Proofs about the components that share nothing with the rest of the     *)
(* program, one part for each: MVHRStrategy, TcpFeed, MeanReversionHedge   *)
(* and CompositeStrategy.                                                  *)
(***************************************************************************)
EXTENDS MVHRStrategy, TcpFeed, MeanReversionHedge, CompositeStrategy, SequenceTheorems, TLAPS

(***************************************************************************)
(* MVHRStrategy.                                                           *)
(*                                                                         *)
(* For any number of threads, any window size and any prices: the locks    *)
(* exclude each other, the two windows hold the same last observations     *)
(* whenever somebody may read them, and what is stored in the cache is     *)
(* computed from the windows as they are at that moment.                   *)
(***************************************************************************)
Labels == {"idle", "write_spot", "write_futures", "push_futures", "trim",
           "read_second", "calculate", "statistics",
           "store_ratio", "read_time", "store_time", "drop", "elapsed"}

\* Which locks a thread has taken, by where it is.
WritesSpot(t) == mpc[t] \in {"write_spot", "write_futures", "push_futures", "trim"}
WritesFutures(t) == mpc[t] \in {"write_futures", "push_futures", "trim"}
HasBothWrites(t) == mpc[t] \in {"push_futures", "trim"}
ReadsBoth(t) == mpc[t] \in {"calculate", "statistics", "store_ratio", "read_time",
                            "store_time", "drop"}
ReadsSpot(t) == mpc[t] = "read_second" \/ ReadsBoth(t)

MvhrTypes ==
  /\ writer \in [LockNames -> Threads \union {NoThread}]
  /\ readers \in [LockNames -> SUBSET Threads]
  /\ mpc \in [Threads -> Labels]
  /\ observed \in Seq([spot : Int, futures : Int, at : Nat])
  /\ stamp \in [Threads -> Nat]
  /\ last_calc_ns \in Nat /\ ratio_of \in Nat /\ clock \in Nat
  /\ DOMAIN ratio = Threads

\* Who has a lock, and that writers who have entered are alone.
LockInv ==
  /\ \A t \in Threads : writer["spot"] = t <=> WritesSpot(t)
  /\ \A t \in Threads : writer["futures"] = t <=> WritesFutures(t)
  /\ \A t \in Threads : t \in readers["spot"] <=> ReadsSpot(t)
  /\ \A t \in Threads : t \in readers["futures"] <=> ReadsBoth(t)
  /\ \A t \in Threads : WritesFutures(t) => readers["spot"] = {}
  /\ \A t \in Threads : HasBothWrites(t) => readers["futures"] = {}

\* The window after n observations, and that window with one more.
WindowOf(n) ==
  LET first == IF n > WindowSize THEN n - WindowSize ELSE 0
  IN [i \in 1..(n - first) |-> first + i]
WindowAnd(n) == Append(WindowOf(n - 1), n)

WindowInv ==
  /\ (\A t \in Threads : ~HasBothWrites(t)) =>
       spot_prices = WindowOf(Len(observed)) /\ futures_prices = WindowOf(Len(observed))
  /\ \A t \in Threads : HasBothWrites(t) =>
       /\ Len(observed) > 0
       /\ spot_prices = WindowAnd(Len(observed))
  /\ \A t \in Threads : mpc[t] = "push_futures" =>
       futures_prices = WindowOf(Len(observed) - 1)
  /\ \A t \in Threads : mpc[t] = "trim" => futures_prices = WindowAnd(Len(observed))

\* The ratio of the windows as they are.
RatioNow == Scaled(SpotPrices, FuturesPrices)

\* What a calculation has in hand is of the windows as they are.
CacheInv ==
  /\ \A t \in Threads : mpc[t] = "store_ratio" => ratio[t] = RatioNow
  /\ \A t \in Threads : mpc[t] \in {"read_time", "store_time", "drop"} =>
       ratio_of = Len(observed)

\* What the cached ratio leaves out was observed after any time in hand.
TimeInv ==
  /\ last_calc_ns <= clock
  /\ \A t \in Threads : stamp[t] <= clock
  /\ \A i \in 1..Len(observed) : i > ratio_of => last_calc_ns <= observed[i].at
  /\ \A t \in Threads : mpc[t] = "elapsed" =>
       \A i \in 1..Len(observed) : i > ratio_of => stamp[t] <= observed[i].at

MvhrInv == MvhrTypes /\ LockInv /\ WindowInv /\ CacheInv /\ TimeInv

-----------------------------------------------------------------------------
\* The program order of the stores.
LEMMA StoreOrder ==
  /\ Stores[1] = "store_ratio" /\ After("store_ratio") = "read_time"
  /\ After("read_time") = "store_time" /\ After("store_time") = "drop"
  /\ ReadOrder[1] = "spot" /\ ReadOrder[2] = "futures"
<1>1. /\ Stores[1] = "store_ratio" /\ Stores[2] = "read_time"
      /\ Stores[3] = "store_time" /\ Stores[4] = "drop"
  BY DEF Stores
<1>2. (CHOOSE i \in 1..3 : Stores[i] = "store_ratio") = 1
  BY <1>1
<1>3. (CHOOSE i \in 1..3 : Stores[i] = "read_time") = 2
  BY <1>1
<1>4. (CHOOSE i \in 1..3 : Stores[i] = "store_time") = 3
  BY <1>1
<1>5. QED
  BY <1>1, <1>2, <1>3, <1>4 DEF After, ReadOrder

\* Adding an observation and dropping the oldest if there are too many is
\* taking the last of one more.
LEMMA WindowStep ==
  ASSUME NEW n \in Nat \ {0}
  PROVE  WindowOf(n) = IF TooLong(WindowAnd(n)) THEN Tail(WindowAnd(n)) ELSE WindowAnd(n)
<1> DEFINE w == WindowOf(n - 1)
           m == Len(w)
<1>1. WindowSize \in Nat
  BY WindowAssumption
<1>2. /\ w \in Seq(Int) /\ m = (IF n - 1 > WindowSize THEN WindowSize ELSE n - 1)
      /\ \A i \in 1..m : w[i] = (IF n - 1 > WindowSize THEN n - 1 - WindowSize ELSE 0) + i
  BY <1>1 DEF WindowOf
<1>3. /\ WindowAnd(n) \in Seq(Int) /\ Len(WindowAnd(n)) = m + 1
      /\ \A i \in 1..m : WindowAnd(n)[i] = w[i]
      /\ WindowAnd(n)[m + 1] = n
  BY <1>2 DEF WindowAnd
<1>4. CASE n - 1 >= WindowSize
  <2>1. Len(WindowAnd(n)) = WindowSize + 1 /\ m = WindowSize
    BY <1>1, <1>2, <1>3, <1>4
  <2>2. TooLong(WindowAnd(n))
    BY <2>1, <1>1 DEF TooLong
  <2>3. WindowAnd(n) # << >>
    BY <2>1, <1>1
  <2>4. /\ Tail(WindowAnd(n)) \in Seq(Int) /\ Len(Tail(WindowAnd(n))) = WindowSize
        /\ \A i \in 1..WindowSize : Tail(WindowAnd(n))[i] = WindowAnd(n)[i + 1]
    BY <2>1, <2>3, <1>1, <1>3
  <2>5. ASSUME NEW i \in 1..WindowSize
        PROVE  WindowAnd(n)[i + 1] = n - WindowSize + i
    <3>1. CASE i = WindowSize
      BY <1>1, <1>3, <2>1, <3>1
    <3>2. CASE i < WindowSize
      <4>1. i + 1 \in 1..m
        BY <1>1, <2>1, <3>2
      <4>2. CASE n - 1 > WindowSize
        BY <1>1, <1>2, <1>3, <4>1, <4>2
      <4>3. CASE n - 1 = WindowSize
        BY <1>1, <1>2, <1>3, <4>1, <4>3
      <4>4. QED
        BY <1>1, <1>4, <4>2, <4>3
    <3>3. QED
      BY <1>1, <3>1, <3>2
  <2>6. /\ WindowOf(n) \in Seq(Int) /\ Len(WindowOf(n)) = WindowSize
        /\ \A i \in 1..WindowSize : WindowOf(n)[i] = n - WindowSize + i
    BY <1>1, <1>4 DEF WindowOf
  <2>7. WindowOf(n) = Tail(WindowAnd(n))
    BY <2>4, <2>5, <2>6, SeqEqual
  <2>8. QED
    BY <2>2, <2>7
<1>5. CASE n - 1 < WindowSize
  <2>1. Len(WindowAnd(n)) = n /\ m = n - 1
    BY <1>1, <1>2, <1>3, <1>5
  <2>2. ~TooLong(WindowAnd(n))
    BY <2>1, <1>1, <1>5 DEF TooLong
  <2>3. ASSUME NEW i \in 1..n PROVE WindowAnd(n)[i] = i
    <3>1. CASE i = n
      BY <1>3, <2>1, <3>1
    <3>2. CASE i # n
      <4>1. i \in 1..m /\ ~(n - 1 > WindowSize)
        BY <1>1, <1>5, <2>1, <3>2
      <4>2. WindowAnd(n)[i] = w[i] /\ w[i] = i
        BY <1>2, <1>3, <4>1, SMTT(30)
      <4>3. QED
        BY <4>2
    <3>3. QED
      BY <3>1, <3>2
  <2>4. /\ WindowOf(n) \in Seq(Int) /\ Len(WindowOf(n)) = n
        /\ \A i \in 1..n : WindowOf(n)[i] = i
    BY <1>1, <1>5 DEF WindowOf
  <2>5. QED
    BY <1>3, <2>1, <2>2, <2>3, <2>4, SeqEqual
<1>6. QED
  BY <1>1, <1>4, <1>5

\* The ratio is a function of the windows.
LEMMA RatioKept ==
  ASSUME UNCHANGED windows
  PROVE  RatioNow' = RatioNow
<1>1. SpotPrices' = SpotPrices /\ FuturesPrices' = FuturesPrices
  BY DEF windows, SpotPrices, FuturesPrices
<1>2. QED
  BY <1>1 DEF RatioNow


\* The types.
LEMMA TypesStep ==
  ASSUME MvhrTypes, MvhrNext
  PROVE  MvhrTypes'
<1> USE StoreOrder, WindowAssumption, PricesAssumption DEF MvhrTypes, Labels,
      LockNames, windows, cache, locks
<1>1. ASSUME NEW t \in Threads, AddObservation(t) PROVE MvhrTypes'
  BY <1>1 DEF AddObservation, Goto, SetWriter
<1>2. ASSUME NEW t \in Threads, WriteFutures(t) PROVE MvhrTypes'
  BY <1>2 DEF WriteFutures, Goto, SetWriter, Entered
<1>3. ASSUME NEW t \in Threads, NEW o \in Observations, PushSpot(t, o) PROVE MvhrTypes'
  BY <1>3 DEF PushSpot, Goto, Entered
<1>4. ASSUME NEW t \in Threads, PushFutures(t) PROVE MvhrTypes'
  BY <1>4 DEF PushFutures, Goto
<1>5. ASSUME NEW t \in Threads, TrimWindows(t) PROVE MvhrTypes'
  BY <1>5 DEF TrimWindows, Goto, DropWriteGuards
<1>6. ASSUME NEW t \in Threads, ReadFirst(t) PROVE MvhrTypes'
  BY <1>6 DEF ReadFirst, Goto, ReadGuard
<1>7. ASSUME NEW t \in Threads, ReadSecond(t) PROVE MvhrTypes'
  BY <1>7 DEF ReadSecond, Goto, ReadGuard
<1>8. ASSUME NEW t \in Threads, Statistics(t) PROVE MvhrTypes'
  BY <1>8 DEF Statistics, Goto, DropReadGuards
<1>9. ASSUME NEW t \in Threads, CalculateNone(t) PROVE MvhrTypes'
  BY <1>9 DEF CalculateNone, Goto, DropReadGuards
<1>10. ASSUME NEW t \in Threads, Calculate(t) PROVE MvhrTypes'
  BY <1>10 DEF Calculate, Goto, KeepGuards
<1>11. ASSUME NEW t \in Threads, StoreRatio(t) PROVE MvhrTypes'
  BY <1>11 DEF StoreRatio, Goto
<1>12. ASSUME NEW t \in Threads, ReadTime(t) PROVE MvhrTypes'
  BY <1>12 DEF ReadTime, Goto
<1>13. ASSUME NEW t \in Threads, StoreTime(t) PROVE MvhrTypes'
  BY <1>13 DEF StoreTime, Goto
<1>14. ASSUME NEW t \in Threads, ReturnRatio(t) PROVE MvhrTypes'
  BY <1>14 DEF ReturnRatio, Goto, DropReadGuards
<1>15. ASSUME NEW t \in Threads, LoadLastCalc(t) PROVE MvhrTypes'
  BY <1>15 DEF LoadLastCalc, Goto
<1>16. ASSUME NEW t \in Threads, NEW due \in BOOLEAN, AnswerDue(t, due) PROVE MvhrTypes'
  BY <1>16 DEF AnswerDue, Goto
<1>17. ASSUME Tick PROVE MvhrTypes'
  BY <1>17 DEF Tick
<1> HIDE DEF MvhrTypes
<1>18. QED
  BY <1>1, <1>2, <1>3, <1>4, <1>5, <1>6, <1>7, <1>8, <1>9,
     <1>10, <1>11, <1>12, <1>13, <1>14, <1>15, <1>16, <1>17 DEF MvhrNext, Proceed

\* The locks: a thread's place in its call changes together with what it holds.
LEMMA LocksStep ==
  ASSUME MvhrTypes, LockInv, MvhrNext
  PROVE  LockInv'
<1> USE StoreOrder, ThreadsAssumption DEF MvhrTypes, LockInv, LockNames,
      WritesSpot, WritesFutures, HasBothWrites, ReadsBoth, ReadsSpot, locks
<1>1. ASSUME NEW t \in Threads, AddObservation(t) PROVE LockInv'
  BY <1>1 DEF AddObservation, Goto, SetWriter
<1>2. ASSUME NEW t \in Threads, WriteFutures(t) PROVE LockInv'
  BY <1>2 DEF WriteFutures, Goto, SetWriter, Entered
<1>3. ASSUME NEW t \in Threads, NEW o \in Observations, PushSpot(t, o) PROVE LockInv'
  BY <1>3 DEF PushSpot, Goto, Entered
<1>4. ASSUME NEW t \in Threads, PushFutures(t) PROVE LockInv'
  BY <1>4 DEF PushFutures, Goto
<1>5. ASSUME NEW t \in Threads, TrimWindows(t) PROVE LockInv'
  BY <1>5 DEF TrimWindows, Goto, DropWriteGuards
<1>6. ASSUME NEW t \in Threads, ReadFirst(t) PROVE LockInv'
  BY <1>6 DEF ReadFirst, Goto, ReadGuard
<1>7. ASSUME NEW t \in Threads, ReadSecond(t) PROVE LockInv'
  BY <1>7 DEF ReadSecond, Goto, ReadGuard
<1>8. ASSUME NEW t \in Threads, Statistics(t) PROVE LockInv'
  BY <1>8 DEF Statistics, Goto, DropReadGuards
<1>9. ASSUME NEW t \in Threads, CalculateNone(t) PROVE LockInv'
  BY <1>9 DEF CalculateNone, Goto, DropReadGuards
<1>10. ASSUME NEW t \in Threads, Calculate(t) PROVE LockInv'
  BY <1>10 DEF Calculate, Goto, KeepGuards
<1>11. ASSUME NEW t \in Threads, StoreRatio(t) PROVE LockInv'
  BY <1>11 DEF StoreRatio, Goto
<1>12. ASSUME NEW t \in Threads, ReadTime(t) PROVE LockInv'
  BY <1>12 DEF ReadTime, Goto
<1>13. ASSUME NEW t \in Threads, StoreTime(t) PROVE LockInv'
  BY <1>13 DEF StoreTime, Goto
<1>14. ASSUME NEW t \in Threads, ReturnRatio(t) PROVE LockInv'
  BY <1>14 DEF ReturnRatio, Goto, DropReadGuards
<1>15. ASSUME NEW t \in Threads, LoadLastCalc(t) PROVE LockInv'
  BY <1>15 DEF LoadLastCalc, Goto
<1>16. ASSUME NEW t \in Threads, NEW due \in BOOLEAN, AnswerDue(t, due) PROVE LockInv'
  BY <1>16 DEF AnswerDue, Goto
<1>17. ASSUME Tick PROVE LockInv'
  BY <1>17 DEF Tick
<1> HIDE DEF LockInv
<1>18. QED
  BY <1>1, <1>2, <1>3, <1>4, <1>5, <1>6, <1>7, <1>8, <1>9,
     <1>10, <1>11, <1>12, <1>13, <1>14, <1>15, <1>16, <1>17 DEF MvhrNext, Proceed

\* The windows: they change while one thread has both write locks.
LEMMA WindowsStep ==
  ASSUME MvhrTypes, LockInv, WindowInv, MvhrNext
  PROVE  WindowInv'
<1> USE StoreOrder DEF MvhrTypes, LockInv, WindowInv, WritesFutures,
      HasBothWrites, windows, locks, cache
<1>1. ASSUME NEW t \in Threads, AddObservation(t) PROVE WindowInv'
  BY <1>1 DEF AddObservation, Goto, SetWriter
<1>2. ASSUME NEW t \in Threads, WriteFutures(t) PROVE WindowInv'
  BY <1>2 DEF WriteFutures, Goto, SetWriter, Entered
<1>3. ASSUME NEW t \in Threads, NEW o \in Observations, PushSpot(t, o) PROVE WindowInv'
  <2>1. mpc[t] = "write_futures" /\ mpc' = [mpc EXCEPT ![t] = "push_futures"]
    BY <1>3 DEF PushSpot, Goto
  <2>2. \A u \in Threads : ~HasBothWrites(u)
    BY <2>1 DEF LockInv, WritesFutures, HasBothWrites
  <2>3. /\ spot_prices = WindowOf(Len(observed))
        /\ futures_prices = WindowOf(Len(observed))
    BY <2>2 DEF WindowInv
  <2>4. Len(observed') = Len(observed) + 1 /\ Len(observed) \in Nat
    BY <1>3 DEF PushSpot, MvhrTypes
  <2>5. /\ spot_prices' = WindowAnd(Len(observed'))
        /\ futures_prices' = WindowOf(Len(observed') - 1)
    BY <1>3, <2>3, <2>4 DEF PushSpot, WindowAnd
  <2>6. \A u \in Threads : u # t => mpc'[u] \notin {"push_futures", "trim"}
    BY <2>1, <2>2 DEF MvhrTypes, HasBothWrites
  <2>7. mpc'[t] = "push_futures"
    BY <2>1 DEF MvhrTypes
  <2>8. QED
    BY <2>4, <2>5, <2>6, <2>7 DEF WindowInv, HasBothWrites
<1>4. ASSUME NEW t \in Threads, PushFutures(t) PROVE WindowInv'
  <2>1. mpc[t] = "push_futures" /\ mpc' = [mpc EXCEPT ![t] = "trim"]
    BY <1>4 DEF PushFutures, Goto
  <2>2. \A u \in Threads : u # t => ~HasBothWrites(u)
    BY <2>1 DEF LockInv, WritesFutures, HasBothWrites
  <2>3. /\ Len(observed) > 0
        /\ spot_prices = WindowAnd(Len(observed))
        /\ futures_prices = WindowOf(Len(observed) - 1)
    BY <2>1 DEF WindowInv, HasBothWrites
  <2>4. /\ Len(observed') > 0
        /\ spot_prices' = WindowAnd(Len(observed'))
        /\ futures_prices' = WindowAnd(Len(observed'))
    BY <1>4, <2>3 DEF PushFutures, WindowAnd
  <2>5. \A u \in Threads : u # t => mpc'[u] \notin {"push_futures", "trim"}
    BY <2>1, <2>2 DEF MvhrTypes, HasBothWrites
  <2>6. mpc'[t] = "trim"
    BY <2>1 DEF MvhrTypes
  <2>7. QED
    BY <2>4, <2>5, <2>6 DEF WindowInv, HasBothWrites
<1>5. ASSUME NEW t \in Threads, TrimWindows(t) PROVE WindowInv'
  <2>1. mpc[t] = "trim" /\ mpc' = [mpc EXCEPT ![t] = "idle"]
    BY <1>5 DEF TrimWindows, Goto
  <2>2. \A u \in Threads : u # t => ~HasBothWrites(u)
    BY <2>1 DEF LockInv, WritesFutures, HasBothWrites
  <2>3. /\ Len(observed) \in Nat \ {0}
        /\ spot_prices = WindowAnd(Len(observed))
        /\ futures_prices = WindowAnd(Len(observed))
    BY <2>1 DEF WindowInv, HasBothWrites, MvhrTypes
  <2>4. WindowOf(Len(observed)) =
          IF TooLong(WindowAnd(Len(observed))) THEN Tail(WindowAnd(Len(observed)))
          ELSE WindowAnd(Len(observed))
    BY <2>3, WindowStep
  <2>5. /\ spot_prices' = WindowOf(Len(observed))
        /\ futures_prices' = WindowOf(Len(observed))
        /\ Len(observed') = Len(observed)
    BY <1>5, <2>3, <2>4 DEF TrimWindows
  <2>6. \A u \in Threads : mpc'[u] \notin {"push_futures", "trim"}
    BY <2>1, <2>2 DEF MvhrTypes, HasBothWrites
  <2>7. QED
    BY <2>5, <2>6 DEF WindowInv, HasBothWrites
<1>6. ASSUME NEW t \in Threads, ReadFirst(t) PROVE WindowInv'
  BY <1>6 DEF ReadFirst, Goto, ReadGuard
<1>7. ASSUME NEW t \in Threads, ReadSecond(t) PROVE WindowInv'
  BY <1>7 DEF ReadSecond, Goto, ReadGuard
<1>8. ASSUME NEW t \in Threads, Statistics(t) PROVE WindowInv'
  BY <1>8 DEF Statistics, Goto, DropReadGuards
<1>9. ASSUME NEW t \in Threads, CalculateNone(t) PROVE WindowInv'
  BY <1>9 DEF CalculateNone, Goto, DropReadGuards
<1>10. ASSUME NEW t \in Threads, Calculate(t) PROVE WindowInv'
  BY <1>10 DEF Calculate, Goto, KeepGuards
<1>11. ASSUME NEW t \in Threads, StoreRatio(t) PROVE WindowInv'
  BY <1>11 DEF StoreRatio, Goto
<1>12. ASSUME NEW t \in Threads, ReadTime(t) PROVE WindowInv'
  BY <1>12 DEF ReadTime, Goto
<1>13. ASSUME NEW t \in Threads, StoreTime(t) PROVE WindowInv'
  BY <1>13 DEF StoreTime, Goto
<1>14. ASSUME NEW t \in Threads, ReturnRatio(t) PROVE WindowInv'
  BY <1>14 DEF ReturnRatio, Goto, DropReadGuards
<1>15. ASSUME NEW t \in Threads, LoadLastCalc(t) PROVE WindowInv'
  BY <1>15 DEF LoadLastCalc, Goto
<1>16. ASSUME NEW t \in Threads, NEW due \in BOOLEAN, AnswerDue(t, due) PROVE WindowInv'
  BY <1>16 DEF AnswerDue, Goto
<1>17. ASSUME Tick PROVE WindowInv'
  BY <1>17 DEF Tick
<1> HIDE DEF WindowInv
<1>18. QED
  BY <1>1, <1>2, <1>3, <1>4, <1>5, <1>6, <1>7, <1>8, <1>9,
     <1>10, <1>11, <1>12, <1>13, <1>14, <1>15, <1>16, <1>17 DEF MvhrNext, Proceed

\* The cache: while anybody holds both read locks, the windows stay as they are.
LEMMA CacheStep ==
  ASSUME MvhrTypes, LockInv, CacheInv, MvhrNext
  PROVE  CacheInv'
<1> USE StoreOrder, RatioKept DEF MvhrTypes, LockInv, CacheInv, windows, cache
<1>1. ASSUME NEW t \in Threads, AddObservation(t) PROVE CacheInv'
  BY <1>1 DEF AddObservation, Goto, SetWriter, HasBothWrites, ReadsBoth, WritesFutures, locks
<1>2. ASSUME NEW t \in Threads, WriteFutures(t) PROVE CacheInv'
  BY <1>2 DEF WriteFutures, Goto, SetWriter, Entered, HasBothWrites, ReadsBoth, WritesFutures, locks
<1>3. ASSUME NEW t \in Threads, NEW o \in Observations, PushSpot(t, o) PROVE CacheInv'
  <2>1. readers["futures"] = {}
    BY <1>3 DEF LockInv, HasBothWrites, PushSpot, Entered
  <2>2. \A u \in Threads : ~ReadsBoth(u)
    BY <2>1 DEF LockInv
  <2>3. QED
    BY <1>3, <2>2 DEF PushSpot, Entered, Goto, MvhrTypes, CacheInv, ReadsBoth
<1>4. ASSUME NEW t \in Threads, PushFutures(t) PROVE CacheInv'
  <2>1. readers["futures"] = {}
    BY <1>4 DEF LockInv, HasBothWrites, PushFutures
  <2>2. \A u \in Threads : ~ReadsBoth(u)
    BY <2>1 DEF LockInv
  <2>3. QED
    BY <1>4, <2>2 DEF PushFutures, Goto, MvhrTypes, CacheInv, ReadsBoth
<1>5. ASSUME NEW t \in Threads, TrimWindows(t) PROVE CacheInv'
  <2>1. readers["futures"] = {}
    BY <1>5 DEF LockInv, HasBothWrites, TrimWindows
  <2>2. \A u \in Threads : ~ReadsBoth(u)
    BY <2>1 DEF LockInv
  <2>3. QED
    BY <1>5, <2>2 DEF TrimWindows, Goto, MvhrTypes, CacheInv, ReadsBoth
<1>6. ASSUME NEW t \in Threads, ReadFirst(t) PROVE CacheInv'
  BY <1>6 DEF ReadFirst, Goto, ReadGuard, HasBothWrites, ReadsBoth, WritesFutures, locks
<1>7. ASSUME NEW t \in Threads, ReadSecond(t) PROVE CacheInv'
  BY <1>7 DEF ReadSecond, Goto, ReadGuard, HasBothWrites, ReadsBoth, WritesFutures, locks
<1>8. ASSUME NEW t \in Threads, Statistics(t) PROVE CacheInv'
  BY <1>8 DEF Statistics, Goto, DropReadGuards, HasBothWrites, ReadsBoth, WritesFutures, locks
<1>9. ASSUME NEW t \in Threads, CalculateNone(t) PROVE CacheInv'
  BY <1>9 DEF CalculateNone, Goto, DropReadGuards, HasBothWrites, ReadsBoth, WritesFutures, locks
<1>10. ASSUME NEW t \in Threads, Calculate(t) PROVE CacheInv'
  BY <1>10 DEF Calculate, Goto, KeepGuards, RatioNow
<1>11. ASSUME NEW t \in Threads, StoreRatio(t) PROVE CacheInv'
  BY <1>11 DEF StoreRatio, Goto, HasBothWrites, ReadsBoth, WritesFutures, locks
<1>12. ASSUME NEW t \in Threads, ReadTime(t) PROVE CacheInv'
  BY <1>12 DEF ReadTime, Goto, HasBothWrites, ReadsBoth, WritesFutures, locks
<1>13. ASSUME NEW t \in Threads, StoreTime(t) PROVE CacheInv'
  BY <1>13 DEF StoreTime, Goto, HasBothWrites, ReadsBoth, WritesFutures, locks
<1>14. ASSUME NEW t \in Threads, ReturnRatio(t) PROVE CacheInv'
  BY <1>14 DEF ReturnRatio, Goto, DropReadGuards, HasBothWrites, ReadsBoth, WritesFutures, locks
<1>15. ASSUME NEW t \in Threads, LoadLastCalc(t) PROVE CacheInv'
  BY <1>15 DEF LoadLastCalc, Goto, HasBothWrites, ReadsBoth, WritesFutures, locks
<1>16. ASSUME NEW t \in Threads, NEW due \in BOOLEAN, AnswerDue(t, due) PROVE CacheInv'
  BY <1>16 DEF AnswerDue, Goto, HasBothWrites, ReadsBoth, WritesFutures, locks
<1>17. ASSUME Tick PROVE CacheInv'
  BY <1>17 DEF Tick, HasBothWrites, ReadsBoth, WritesFutures, locks
<1> HIDE DEF CacheInv
<1>18. QED
  BY <1>1, <1>2, <1>3, <1>4, <1>5, <1>6, <1>7, <1>8, <1>9,
     <1>10, <1>11, <1>12, <1>13, <1>14, <1>15, <1>16, <1>17 DEF MvhrNext, Proceed

\* The times.
LEMMA TimesStep ==
  ASSUME MvhrTypes, LockInv, CacheInv, TimeInv, MvhrNext
  PROVE  TimeInv'
<1> USE StoreOrder DEF Goto, MvhrTypes, CacheInv, TimeInv, windows, locks, cache
<1>1. ASSUME NEW t \in Threads, AddObservation(t) PROVE TimeInv'
  BY <1>1 DEF AddObservation, SetWriter
<1>2. ASSUME NEW t \in Threads, WriteFutures(t) PROVE TimeInv'
  BY <1>2 DEF WriteFutures, SetWriter, Entered
<1>3. ASSUME NEW t \in Threads, NEW o \in Observations, PushSpot(t, o) PROVE TimeInv'
  BY <1>3 DEF PushSpot, Entered
<1>4. ASSUME NEW t \in Threads, PushFutures(t) PROVE TimeInv'
  BY <1>4 DEF PushFutures
<1>5. ASSUME NEW t \in Threads, TrimWindows(t) PROVE TimeInv'
  BY <1>5 DEF TrimWindows, DropWriteGuards
<1>6. ASSUME NEW t \in Threads, ReadFirst(t) PROVE TimeInv'
  BY <1>6 DEF ReadFirst, ReadGuard
<1>7. ASSUME NEW t \in Threads, ReadSecond(t) PROVE TimeInv'
  BY <1>7 DEF ReadSecond, ReadGuard
<1>8. ASSUME NEW t \in Threads, Statistics(t) PROVE TimeInv'
  BY <1>8 DEF Statistics, DropReadGuards
<1>9. ASSUME NEW t \in Threads, CalculateNone(t) PROVE TimeInv'
  BY <1>9 DEF CalculateNone, DropReadGuards
<1>10. ASSUME NEW t \in Threads, Calculate(t) PROVE TimeInv'
  BY <1>10 DEF Calculate, KeepGuards
<1>11. ASSUME NEW t \in Threads, StoreRatio(t) PROVE TimeInv'
  BY <1>11 DEF StoreRatio
<1>12. ASSUME NEW t \in Threads, ReadTime(t) PROVE TimeInv'
  BY <1>12 DEF ReadTime
<1>13. ASSUME NEW t \in Threads, StoreTime(t) PROVE TimeInv'
  BY <1>13 DEF StoreTime
<1>14. ASSUME NEW t \in Threads, ReturnRatio(t) PROVE TimeInv'
  BY <1>14 DEF ReturnRatio, DropReadGuards
<1>15. ASSUME NEW t \in Threads, LoadLastCalc(t) PROVE TimeInv'
  BY <1>15 DEF LoadLastCalc
<1>16. ASSUME NEW t \in Threads, NEW due \in BOOLEAN, AnswerDue(t, due) PROVE TimeInv'
  BY <1>16, SMTT(30) DEF AnswerDue
<1>17. ASSUME Tick PROVE TimeInv'
  <2>1. /\ clock' = clock + 1 /\ mpc' = mpc /\ stamp' = stamp /\ observed' = observed
        /\ last_calc_ns' = last_calc_ns /\ ratio_of' = ratio_of
    BY <1>17 DEF Tick, windows, cache
  <2>2. /\ last_calc_ns <= clock'
        /\ \A t \in Threads : stamp[t] <= clock'
    BY <2>1 DEF MvhrTypes, TimeInv
  <2>3. QED
    BY <2>1, <2>2 DEF TimeInv
<1> HIDE DEF TimeInv
<1>18. QED
  BY <1>1, <1>2, <1>3, <1>4, <1>5, <1>6, <1>7, <1>8, <1>9,
     <1>10, <1>11, <1>12, <1>13, <1>14, <1>15, <1>16, <1>17 DEF MvhrNext, Proceed

\* Steps that change nothing.
LEMMA NothingStep ==
  ASSUME MvhrInv, UNCHANGED mvhrVars
  PROVE  MvhrInv'
<1> USE DEF mvhrVars, locks, windows, cache
<1>1. MvhrTypes' /\ WindowInv' /\ TimeInv'
  BY DEF MvhrInv, MvhrTypes, WindowInv, HasBothWrites, TimeInv
<1>2. LockInv'
  BY DEF MvhrInv, LockInv, WritesSpot, WritesFutures, HasBothWrites, ReadsSpot, ReadsBoth
<1>3. CacheInv'
  BY RatioKept DEF MvhrInv, CacheInv
<1>4. QED
  BY <1>1, <1>2, <1>3 DEF MvhrInv

LEMMA InitiallyMvhrInv ==
  ASSUME MvhrInit
  PROVE  MvhrInv
<1>1. MvhrTypes
  BY DEF MvhrInit, MvhrTypes, LockNames, Labels
<1>2. LockInv
  BY ThreadsAssumption DEF MvhrInit, LockInv, LockNames, WritesSpot, WritesFutures,
    HasBothWrites, ReadsSpot, ReadsBoth
<1>3. WindowInv
  <2>1. Len(observed) = 0 /\ spot_prices = << >> /\ futures_prices = << >>
    BY DEF MvhrInit
  <2>2. WindowOf(0) = << >>
    BY WindowAssumption DEF WindowOf
  <2>3. QED
    BY <2>1, <2>2 DEF MvhrInit, WindowInv, HasBothWrites
<1>4. CacheInv /\ TimeInv
  BY DEF MvhrInit, CacheInv, TimeInv
<1>5. QED
  BY <1>1, <1>2, <1>3, <1>4 DEF MvhrInv

\* Every state of add_observation, calculate_optimal_ratio, get_statistics and
\* needs_recalculation, called by any number of threads: the locks belong to
\* whoever is at the place in its call that says so, the two windows are equal
\* and complete unless one thread has both write locks, a ratio about to be
\* stored is of the windows as they are, and no observation that the cached
\* ratio leaves out is older than last_calc_ns.
THEOREM MvhrInvariance == MvhrSpec => []MvhrInv
<1>1. MvhrInv /\ [MvhrNext]_mvhrVars => MvhrInv'
  BY TypesStep, LocksStep, WindowsStep, CacheStep, TimesStep, NothingStep DEF MvhrInv
<1>2. QED
  BY InitiallyMvhrInv, <1>1, PTL DEF MvhrSpec

\* Whoever holds both read guards, in calculate_optimal_ratio or get_statistics,
\* sees in each window exactly the last window_size observations in order.
THEOREM ReadersSeeTheWindowHolds == MvhrSpec => []ReadersSeeTheWindow
<1>1. MvhrInv => ReadersSeeTheWindow
  <2>1. SUFFICES ASSUME MvhrInv,
                        NEW t \in readers["spot"] \intersect readers["futures"]
                 PROVE  spot_prices = LastCalls /\ futures_prices = LastCalls
    BY DEF ReadersSeeTheWindow
  <2>2. \A u \in Threads : ~HasBothWrites(u)
    BY <2>1 DEF MvhrInv, LockInv
  <2>3. LastCalls = WindowOf(Len(observed))
    BY DEF LastCalls, WindowOf
  <2>4. QED
    BY <2>1, <2>2, <2>3 DEF MvhrInv, WindowInv
<1>2. QED
  BY MvhrInvariance, <1>1, PTL

\* Whatever calculate_optimal_ratio stores is the ratio of the windows as they
\* are when it stores it: the ratio of an older window never comes last.
THEOREM StoredRatioIsOfTheWindowHolds == MvhrSpec => StoredRatioIsOfTheWindow
<1>1. ASSUME MvhrInv, NEW t \in Threads, StoreRatio(t)
      PROVE  cached_ratio' = Scaled(SpotPrices, FuturesPrices)
  BY <1>1 DEF MvhrInv, CacheInv, RatioNow, StoreRatio
<1>2. MvhrInv /\ [MvhrNext]_mvhrVars =>
        [\A t \in Threads : StoreRatio(t) =>
           cached_ratio' = Scaled(SpotPrices, FuturesPrices)]_mvhrVars
  BY <1>1
<1>3. QED
  BY MvhrInvariance, <1>2, PTL DEF MvhrSpec, StoredRatioIsOfTheWindow

\* When needs_recalculation answers no, every observation that the cached ratio
\* leaves out was made within the last recalc_interval_ns.
THEOREM NotDueMeansRecentHolds == MvhrSpec => NotDueMeansRecent
<1>1. ASSUME MvhrInv, NEW t \in Threads, NEW i \in 1..Len(observed),
             AnswerDue(t, FALSE), i > ratio_of
      PROVE  clock - observed[i].at <= RecalcInterval
  <2>1. stamp[t] <= observed[i].at /\ ~(clock - stamp[t] > RecalcInterval)
    BY <1>1 DEF MvhrInv, TimeInv, AnswerDue, Due
  <2>2. stamp[t] \in Nat /\ clock \in Nat /\ observed \in Seq([spot : Int, futures : Int, at : Nat])
    BY <1>1 DEF MvhrInv, MvhrTypes
  <2>3. observed[i] \in [spot : Int, futures : Int, at : Nat]
    BY <2>2, ElementOfSeq
  <2>4. observed[i].at \in Nat
    BY <2>3
  <2>5. PICK then \in Nat, asked \in Nat, now \in Nat :
          then = observed[i].at /\ asked = stamp[t] /\ now = clock
    BY <2>2, <2>4
  <2>6. asked <= then /\ ~(now - asked > RecalcInterval)
    BY <2>1, <2>5
  <2>7. now - then <= RecalcInterval
    BY <2>6, WindowAssumption
  <2>8. QED
    BY <2>5, <2>7
<1>2. MvhrInv /\ [MvhrNext]_mvhrVars =>
        [\A t \in Threads, i \in 1..Len(observed) :
           AnswerDue(t, FALSE) /\ i > ratio_of
             => clock - observed[i].at <= RecalcInterval]_mvhrVars
  BY <1>1
<1>3. QED
  BY MvhrInvariance, <1>2, PTL DEF MvhrSpec, NotDueMeansRecent

-----------------------------------------------------------------------------
(***************************************************************************)
(* TcpFeed.                                                                *)
(*                                                                         *)
(* For any length of a tick, any max_count and any stream: how what has    *)
(* been taken from the stream divides into ticks read, parts lost at       *)
(* timeouts and the buffer of the read under way.                          *)
(***************************************************************************)
FeedTypes ==
  /\ arrived \in Nat /\ taken \in Nat /\ filled \in Nat /\ lost \in Nat
  /\ closed \in BOOLEAN /\ failed \in BOOLEAN
  /\ wanted \in 0..MaxCount
  /\ ticks \in Seq(Int) /\ delivered \in Seq(Int)

\* The ticks that were read; those of a batch that failed are not counted.
TicksRead == Len(delivered) + Len(ticks)

\* Between calls the buffer is empty; a batch is shorter than it should be.
CallInv ==
  /\ wanted = 0 => filled = 0 /\ ticks = << >>
  /\ wanted > 0 => Len(ticks) < wanted
  /\ filled <= TickParts

\* What was taken is in ticks, lost or in the buffer; after an error there is
\* nothing to take any more.
StreamInv ==
  /\ ~failed => taken = filled + lost + TickParts * TicksRead
  /\ failed => /\ closed /\ arrived = taken /\ filled = 0 /\ ticks = << >>
               /\ lost = 0 => (arrived \div TickParts) - Len(delivered) < MaxCount

\* The ticks before any loss.
TicksInv ==
  lost = 0 =>
    /\ \A i \in 1..Len(delivered) : delivered[i] = TickParts * (i - 1)
    /\ ~failed => \A i \in 1..Len(ticks) : ticks[i] = TickParts * (Len(delivered) + i - 1)

FeedInv == FeedTypes /\ CallInv /\ StreamInv /\ TicksInv

-----------------------------------------------------------------------------
\* The quotient and the remainder are the only ones.
LEMMA Divided ==
  ASSUME NEW q \in Nat, NEW r \in 0..(TickParts - 1)
  PROVE  (TickParts * q + r) \div TickParts = q /\ (TickParts * q + r) % TickParts = r
<1> DEFINE x == TickParts * q + r
           d == x \div TickParts
           m == x % TickParts
<1>0. TickParts \in Nat \ {0}
  BY FeedAssumption
<1>1. x \in Nat
  BY <1>0
<1>2. d \in Nat /\ m \in 0..(TickParts - 1) /\ x = TickParts * d + m
  BY <1>0, <1>1
<1> DEFINE Q == TickParts * q
           D == TickParts * d
<1>3. Q \in Nat /\ D \in Nat /\ Q + r = D + m
  BY <1>0, <1>2
<1>4. CASE d = q
  BY <1>2, <1>3, <1>4, <1>0
<1>5. CASE d < q
  <2>1. q - d - 1 \in Nat /\ TickParts * (q - d - 1) \in Nat
    BY <1>5, <1>2, <1>0
  <2>2. Q = D + TickParts + TickParts * (q - d - 1)
    BY <2>1, <1>0, <1>2
  <2>3. QED
    BY <2>1, <2>2, <1>0, <1>2, <1>3
<1>6. CASE d > q
  <2>1. d - q - 1 \in Nat /\ TickParts * (d - q - 1) \in Nat
    BY <1>6, <1>2, <1>0
  <2>2. D = Q + TickParts + TickParts * (d - q - 1)
    BY <2>1, <1>0, <1>2
  <2>3. QED
    BY <2>1, <2>2, <1>0, <1>2, <1>3
<1>7. QED
  BY <1>2, <1>4, <1>5, <1>6

\* Whole ticks do not change what is left of one.
LEMMA WholeTicks ==
  ASSUME NEW a \in Nat, NEW k \in Nat
  PROVE  (a + TickParts * k) % TickParts = a % TickParts
<1>0. TickParts \in Nat \ {0}
  BY FeedAssumption
<1> DEFINE d == a \div TickParts
           m == a % TickParts
<1>1. d \in Nat /\ m \in 0..(TickParts - 1) /\ a = TickParts * d + m
  BY <1>0
<1>2. TickParts * (d + k) = TickParts * d + TickParts * k
  BY <1>0, <1>1
<1>3. a + TickParts * k = TickParts * (d + k) + m
  <2> DEFINE D == TickParts * d
             K == TickParts * k
  <2>1. D \in Nat /\ K \in Nat /\ a = D + m /\ TickParts * (d + k) = D + K
    BY <1>0, <1>1, <1>2
  <2>2. m \in Nat
    BY <1>0, <1>1
  <2> HIDE DEF D, K, m
  <2>3. a + K = (D + K) + m
    BY <2>1, <2>2
  <2>4. QED
    BY <2>1, <2>3 DEF K
<1>4. (TickParts * (d + k) + m) % TickParts = m
  BY <1>1, Divided
<1>5. QED
  BY <1>3, <1>4

\* The place of the next tick.
LEMMA NextTick ==
  ASSUME NEW n \in Nat
  PROVE  TickParts * n \in Nat /\ TickParts * (n + 1) = TickParts * n + TickParts
BY FeedAssumption

LEMMA ArriveStep ==
  ASSUME FeedInv, NEW n \in 1..TickParts, Arrive(n)
  PROVE  FeedInv'
<1>1. FeedTypes' /\ CallInv'
  BY FeedAssumption DEF Arrive, FeedInv, FeedTypes, CallInv
<1>2. StreamInv' /\ TicksInv'
  BY DEF Arrive, FeedInv, FeedTypes, StreamInv, TicksInv, TicksRead
<1>3. QED
  BY <1>1, <1>2 DEF FeedInv

LEMMA CloseStep ==
  ASSUME FeedInv, Close
  PROVE  FeedInv'
<1>1. FeedTypes' /\ CallInv'
  BY DEF Close, FeedInv, FeedTypes, CallInv
<1>2. StreamInv' /\ TicksInv'
  BY DEF Close, FeedInv, FeedTypes, StreamInv, TicksInv, TicksRead
<1>3. QED
  BY <1>1, <1>2 DEF FeedInv

LEMMA ReadStep ==
  ASSUME FeedInv, NEW n \in 1..MaxCount, Read(n)
  PROVE  FeedInv'
<1>1. FeedTypes' /\ CallInv'
  BY FeedAssumption DEF Read, stream, FeedInv, FeedTypes, CallInv
<1>2. StreamInv' /\ TicksInv'
  BY DEF Read, stream, FeedInv, FeedTypes, StreamInv, TicksInv, TicksRead
<1>3. QED
  BY <1>1, <1>2 DEF FeedInv

LEMMA TakeStep ==
  ASSUME FeedInv, NEW n \in 1..TickParts, Take(n)
  PROVE  FeedInv'
<1>1. FeedTypes' /\ CallInv'
  BY FeedAssumption DEF Take, stream, FrameParts, FeedInv, FeedTypes, CallInv
<1>2. ~failed
  BY DEF Take, FeedInv, FeedTypes, StreamInv
<1>3. TicksRead \in Nat /\ TickParts * TicksRead \in Nat
  BY FeedAssumption DEF FeedInv, FeedTypes, TicksRead
<1>4. taken' = filled' + lost' + TickParts * TicksRead
  BY <1>2, <1>3 DEF Take, FeedInv, FeedTypes, StreamInv
<1>5. StreamInv' /\ TicksInv'
  BY <1>2, <1>4 DEF Take, stream, FeedInv, StreamInv, TicksInv, TicksRead
<1>6. QED
  BY <1>1, <1>5 DEF FeedInv

\* A tick that was read begins where the ticks before it and the losses end.
LEMMA TickBegins ==
  ASSUME FeedInv, TickRead
  PROVE  /\ ~failed /\ filled = TickParts
         /\ TicksRead \in Nat
         /\ taken - TickParts = lost + TickParts * TicksRead
<1>1. filled = TickParts /\ TickParts \in Nat \ {0}
  BY FeedAssumption DEF TickRead, FrameParts
<1>2. ~failed
  BY <1>1 DEF FeedInv, StreamInv
<1>3. TicksRead \in Nat /\ TickParts * TicksRead \in Nat
  BY <1>1 DEF FeedInv, FeedTypes, TicksRead
<1>4. QED
  BY <1>1, <1>2, <1>3 DEF FeedInv, FeedTypes, StreamInv

\* What a batch adds to the ticks delivered.
LEMMA Joined ==
  ASSUME NEW s \in Seq(Int), NEW b \in Seq(Int)
  PROVE  /\ s \o b \in Seq(Int) /\ Len(s \o b) = Len(s) + Len(b)
         /\ \A i \in 1..Len(s) : (s \o b)[i] = s[i]
         /\ \A i \in 1..Len(b) : (s \o b)[Len(s) + i] = b[i]
OBVIOUS

LEMMA TickReadStep ==
  ASSUME FeedInv, TickRead
  PROVE  FeedInv'
<1> DEFINE start == taken - TickParts
           batch == Append(ticks, start)
<1>1. /\ ~failed /\ filled = TickParts /\ TicksRead \in Nat
      /\ start = lost + TickParts * TicksRead
  BY TickBegins
<1>2. /\ TickParts \in Nat \ {0} /\ start \in Int /\ batch \in Seq(Int)
      /\ Len(batch) = Len(ticks) + 1
      /\ \A i \in 1..Len(ticks) : batch[i] = ticks[i]
      /\ batch[Len(ticks) + 1] = start
  BY FeedAssumption DEF FeedInv, FeedTypes
<1>3. /\ filled' = 0 /\ taken' = taken /\ lost' = lost /\ failed' = failed
      /\ arrived' = arrived /\ closed' = closed
  BY DEF TickRead, stream
<1>4. \/ /\ Len(batch) = wanted
         /\ wanted' = 0 /\ ticks' = << >> /\ delivered' = delivered \o batch
      \/ /\ Len(batch) # wanted
         /\ wanted' = wanted /\ ticks' = batch /\ delivered' = delivered
  BY DEF TickRead, FrameParts, BatchFull, Return
<1> DEFINE joined == delivered \o batch
<1>a. /\ delivered \in Seq(Int) /\ Len(delivered) \in Nat /\ Len(ticks) \in Nat
      /\ Len(batch) \in Nat
      /\ joined \in Seq(Int) /\ Len(joined) = Len(delivered) + Len(batch)
      /\ \A i \in 1..Len(delivered) : joined[i] = delivered[i]
      /\ \A i \in 1..Len(batch) : joined[Len(delivered) + i] = batch[i]
  BY <1>2, Joined DEF FeedInv, FeedTypes
<1> HIDE DEF batch, joined
<1>b. \/ /\ Len(batch) = wanted
         /\ wanted' = 0 /\ ticks' = << >> /\ delivered' = joined
      \/ /\ Len(batch) # wanted
         /\ wanted' = wanted /\ ticks' = batch /\ delivered' = delivered
  BY <1>4 DEF joined, batch
<1>5. FeedTypes'
  <2>1. ticks' \in Seq(Int) /\ delivered' \in Seq(Int)
    <3>1. << >> \in Seq(Int)
      OBVIOUS
    <3>2. QED
      BY <3>1, <1>2, <1>a, <1>b
  <2>2. wanted' \in 0..MaxCount
    BY <1>b, FeedAssumption DEF FeedInv, FeedTypes
  <2>3. QED
    BY <1>3, <2>1, <2>2 DEF FeedInv, FeedTypes
<1>6. CallInv'
  BY <1>2, <1>3, <1>b DEF FeedInv, FeedTypes, CallInv, TickRead
<1>7. TicksRead' = TicksRead + 1
  <2>1. Len(<< >>) = 0
    OBVIOUS
  <2>2. Len(delivered') + Len(ticks') = (Len(delivered) + Len(ticks)) + 1
    <3>1. CASE ticks' = << >> /\ delivered' = joined
      <4>1. Len(delivered') = Len(delivered) + (Len(ticks) + 1) /\ Len(ticks') = 0
        BY <1>2, <1>a, <2>1, <3>1
      <4>2. QED
        BY <1>a, <4>1
    <3>2. CASE ticks' = batch /\ delivered' = delivered
      <4>1. Len(delivered') = Len(delivered) /\ Len(ticks') = Len(ticks) + 1
        BY <1>2, <3>2
      <4>2. QED
        BY <1>a, <4>1
    <3>3. QED
      BY <1>b, <3>1, <3>2
  <2>3. QED
    BY <2>2 DEF TicksRead
<1>8. StreamInv'
  <2>1. TickParts * TicksRead' = TickParts * TicksRead + TickParts
    BY <1>1, <1>7, NextTick
  <2>2. TickParts * TicksRead \in Nat
    BY <1>1, NextTick
  <2>3. taken' = filled' + lost' + TickParts * TicksRead'
    BY <1>1, <1>2, <1>3, <2>1, <2>2 DEF FeedInv, FeedTypes
  <2>4. QED
    BY <1>1, <1>3, <2>3 DEF StreamInv
<1>9. ASSUME lost = 0
      PROVE  \A i \in 1..Len(batch) : batch[i] = TickParts * (Len(delivered) + i - 1)
  <2>1. batch[Len(ticks) + 1] = TickParts * TicksRead
    BY <1>1, <1>2, <1>9, NextTick
  <2>2. TicksRead = Len(delivered) + (Len(ticks) + 1) - 1
    BY DEF FeedInv, FeedTypes, TicksRead
  <2>3. \A i \in 1..Len(ticks) : batch[i] = TickParts * (Len(delivered) + i - 1)
    BY <1>1, <1>2, <1>9 DEF FeedInv, TicksInv
  <2>4. 1..Len(batch) = 1..Len(ticks) \union {Len(ticks) + 1}
    BY <1>2 DEF FeedInv, FeedTypes
  <2>5. QED
    BY <2>1, <2>2, <2>3, <2>4
<1>10. TicksInv'
  <2>1. CASE wanted' = 0 /\ ticks' = << >> /\ delivered' = joined
    <3>1. ASSUME lost = 0, NEW i \in 1..Len(delivered')
          PROVE  delivered'[i] = TickParts * (i - 1)
      <4>1. CASE i <= Len(delivered)
        BY <1>a, <2>1, <3>1, <4>1 DEF FeedInv, TicksInv
      <4>2. CASE i > Len(delivered)
        <5>1. /\ i - Len(delivered) \in 1..Len(batch)
              /\ i = Len(delivered) + (i - Len(delivered))
          BY <1>a, <2>1, <3>1, <4>2
        <5>a. delivered'[i] = batch[i - Len(delivered)]
          BY <1>a, <2>1, <5>1
        <5>2. Len(delivered) + (i - Len(delivered)) - 1 = i - 1
          BY <1>a, <2>1, <3>1
        <5>3. QED
          BY <1>9, <3>1, <5>1, <5>a, <5>2
      <4>3. QED
        BY <1>a, <2>1, <3>1, <4>1, <4>2
    <3>2. QED
      BY <1>3, <2>1, <3>1 DEF TicksInv
  <2>2. CASE wanted' = wanted /\ ticks' = batch /\ delivered' = delivered
    BY <1>3, <1>9, <2>2 DEF FeedInv, TicksInv
  <2>3. QED
    BY <1>b, <2>1, <2>2
<1>11. QED
  BY <1>5, <1>6, <1>8, <1>10 DEF FeedInv

LEMMA TimeOutStep ==
  ASSUME FeedInv, TimeOut
  PROVE  FeedInv'
<1> DEFINE joined == delivered \o ticks
<1>1. /\ wanted > 0 /\ filled < TickParts /\ ~closed /\ ~failed
      /\ wanted' = 0 /\ ticks' = << >> /\ delivered' = joined
      /\ lost' = lost + filled /\ filled' = 0 /\ taken' = taken
      /\ arrived' = arrived /\ closed' = closed /\ failed' = failed
  BY DEF TimeOut, Waiting, Return, FrameParts, stream, FeedInv, StreamInv
<1>2. /\ delivered \in Seq(Int) /\ ticks \in Seq(Int)
      /\ Len(delivered) \in Nat /\ Len(ticks) \in Nat
      /\ joined \in Seq(Int) /\ Len(joined) = Len(delivered) + Len(ticks)
      /\ \A i \in 1..Len(delivered) : joined[i] = delivered[i]
      /\ \A i \in 1..Len(ticks) : joined[Len(delivered) + i] = ticks[i]
  BY Joined DEF FeedInv, FeedTypes
<1>3. << >> \in Seq(Int) /\ Len(<< >>) = 0
  OBVIOUS
<1> HIDE DEF joined
<1>4. FeedTypes'
  BY <1>1, <1>2, <1>3, FeedAssumption DEF FeedInv, FeedTypes
<1>5. CallInv'
  BY <1>1, FeedAssumption DEF CallInv
<1>6. StreamInv'
  <2>1. TicksRead' = TicksRead
    BY <1>1, <1>2, <1>3 DEF TicksRead
  <2>2. TicksRead \in Nat /\ TickParts * TicksRead \in Nat
    BY <1>2, FeedAssumption DEF TicksRead
  <2>3. taken = filled + lost + TickParts * TicksRead
    BY <1>1 DEF FeedInv, StreamInv
  <2>4. taken' = filled' + lost' + TickParts * TicksRead'
    BY <1>1, <2>1, <2>2, <2>3 DEF FeedInv, FeedTypes
  <2>5. QED
    BY <1>1, <2>4 DEF StreamInv
<1>7. TicksInv'
  <2>1. ASSUME lost' = 0, NEW i \in 1..Len(delivered')
        PROVE  delivered'[i] = TickParts * (i - 1)
    <3>1. lost = 0
      BY <1>1, <2>1 DEF FeedInv, FeedTypes
    <3>2. CASE i <= Len(delivered)
      BY <1>1, <1>2, <2>1, <3>1, <3>2 DEF FeedInv, TicksInv
    <3>3. CASE i > Len(delivered)
      <4>1. /\ i - Len(delivered) \in 1..Len(ticks)
            /\ i = Len(delivered) + (i - Len(delivered))
        BY <1>1, <1>2, <2>1, <3>3
      <4>2. delivered'[i] = ticks[i - Len(delivered)]
        BY <1>1, <1>2, <4>1
      <4>3. Len(delivered) + (i - Len(delivered)) - 1 = i - 1
        BY <1>2, <2>1, <1>1
      <4>4. QED
        BY <1>1, <3>1, <4>1, <4>2, <4>3 DEF FeedInv, TicksInv
    <3>4. QED
      BY <1>1, <1>2, <2>1, <3>2, <3>3
  <2>2. QED
    BY <1>1, <1>3, <2>1 DEF TicksInv
<1>8. QED
  BY <1>4, <1>5, <1>6, <1>7 DEF FeedInv

LEMMA ReadErrorStep ==
  ASSUME FeedInv, ReadError
  PROVE  FeedInv'
<1>1. /\ wanted > 0 /\ filled < TickParts /\ closed /\ arrived = taken
      /\ wanted' = 0 /\ ticks' = << >> /\ delivered' = delivered \o << >>
      /\ failed' = TRUE /\ filled' = 0 /\ taken' = taken
      /\ arrived' = arrived /\ closed' = closed /\ lost' = lost
  BY DEF ReadError, Waiting, Return, FrameParts, stream
<1>2. delivered' = delivered
  BY <1>1 DEF FeedInv, FeedTypes
<1>3. << >> \in Seq(Int)
  OBVIOUS
<1>4. FeedTypes'
  BY <1>1, <1>2, <1>3, FeedAssumption DEF FeedInv, FeedTypes
<1>5. CallInv'
  BY <1>1, FeedAssumption DEF CallInv
<1>6. ASSUME lost = 0
      PROVE  (arrived \div TickParts) - Len(delivered) < MaxCount
  <2>1. CASE failed
    BY <1>6, <2>1 DEF FeedInv, StreamInv
  <2>2. CASE ~failed
    <3>1. arrived = filled + TickParts * TicksRead /\ TicksRead \in Nat
      BY <1>1, <1>6, <2>2, FeedAssumption DEF FeedInv, FeedTypes, StreamInv, TicksRead
    <3>2. filled \in 0..(TickParts - 1)
      BY <1>1, FeedAssumption DEF FeedInv, FeedTypes
    <3>3. arrived = TickParts * TicksRead + filled
      BY <3>1, <3>2, NextTick
    <3>4. arrived \div TickParts = TicksRead
      BY <3>1, <3>2, <3>3, Divided
    <3>5. Len(ticks) < MaxCount
      BY <1>1, FeedAssumption DEF FeedInv, FeedTypes, CallInv
    <3>6. QED
      BY <3>4, <3>5, FeedAssumption DEF FeedInv, FeedTypes, TicksRead
  <2>3. QED
    BY <2>1, <2>2
<1>7. StreamInv'
  BY <1>1, <1>2, <1>6 DEF StreamInv
<1>8. TicksInv'
  BY <1>1, <1>2 DEF FeedInv, TicksInv
<1>9. QED
  BY <1>4, <1>5, <1>7, <1>8 DEF FeedInv

\* Every state of the feed: of what was taken from the stream, TickParts have
\* gone into each tick that was read, and the rest is lost or in the buffer.
THEOREM FeedInvariance == FeedSpec => []FeedInv
<1>1. FeedInit => FeedInv
  <2>1. << >> \in Seq(Int) /\ Len(<< >>) = 0
    OBVIOUS
  <2>2. FeedInit => FeedTypes
    <3>1. FeedInit => closed \in BOOLEAN /\ failed \in BOOLEAN
      BY DEF FeedInit
    <3>2. FeedInit => wanted \in 0..MaxCount
      BY FeedAssumption DEF FeedInit
    <3>3. FeedInit => ticks \in Seq(Int) /\ delivered \in Seq(Int)
      BY <2>1 DEF FeedInit
    <3>4. QED
      BY <3>1, <3>2, <3>3 DEF FeedInit, FeedTypes
  <2>3. FeedInit => CallInv /\ TicksInv
    BY <2>1, FeedAssumption DEF FeedInit, CallInv, TicksInv
  <2>4. FeedInit => StreamInv
    <3>1. TickParts * 0 = 0
      BY FeedAssumption
    <3>2. FeedInit => TicksRead = 0
      BY <2>1 DEF FeedInit, TicksRead
    <3>3. QED
      BY <3>1, <3>2 DEF FeedInit, StreamInv
  <2>5. QED
    BY <2>2, <2>3, <2>4 DEF FeedInv
<1>2. FeedInv /\ UNCHANGED feedVars => FeedInv'
  BY DEF feedVars, stream, FeedInv, FeedTypes, CallInv, StreamInv, TicksInv, TicksRead
<1>3. FeedInv /\ [FeedNext]_feedVars => FeedInv'
  BY <1>2, ArriveStep, CloseStep, ReadStep, TakeStep, TickReadStep, TimeOutStep,
    ReadErrorStep DEF FeedNext
<1>4. QED
  BY <1>1, <1>3, PTL DEF FeedSpec

\* A tick that read_exact completes begins where a tick was sent if, and only
\* if, the parts that timeouts threw away so far make up whole ticks.
THEOREM WholeIffNothingLostHolds == FeedSpec => WholeIffNothingLost
<1>1. ASSUME FeedInv, TickRead
      PROVE  IsTick(taken - filled) <=> lost % TickParts = 0
  <2>1. /\ filled = TickParts /\ TicksRead \in Nat
        /\ taken - TickParts = lost + TickParts * TicksRead
    BY <1>1, TickBegins
  <2>2. (lost + TickParts * TicksRead) % TickParts = lost % TickParts
    BY <1>1, <2>1, WholeTicks DEF FeedInv, FeedTypes
  <2>3. QED
    BY <2>1, <2>2 DEF IsTick
<1>2. FeedInv /\ [FeedNext]_feedVars =>
        [TickRead => (IsTick(taken - filled) <=> lost % TickParts = 0)]_feedVars
  BY <1>1
<1>3. QED
  BY FeedInvariance, <1>2, PTL DEF FeedSpec, WholeIffNothingLost

\* While no timeout has come in the middle of a tick, read_tick and read_batch
\* have returned the first ticks of the stream in order, and an error that ends
\* the connection drops fewer than max_count whole ticks.
THEOREM OnlyABatchIsLostHolds == FeedSpec => []OnlyABatchIsLost
<1>1. FeedInv => OnlyABatchIsLost
  <2>1. SUFFICES ASSUME FeedInv, lost = 0
                 PROVE  /\ \A i \in 1..Len(delivered) : delivered[i] = (i - 1) * TickParts
                        /\ failed => (arrived \div TickParts) - Len(delivered) < MaxCount
    BY DEF OnlyABatchIsLost
  <2>2. \A i \in 1..Len(delivered) : TickParts * (i - 1) = (i - 1) * TickParts
    BY FeedAssumption
  <2>3. QED
    BY <2>1, <2>2 DEF FeedInv, TicksInv, StreamInv
<1>2. QED
  BY FeedInvariance, <1>1, PTL
-----------------------------------------------------------------------------
(***************************************************************************)
(* MeanReversionHedge.                                                     *)
(*                                                                         *)
(* A calculation keeps the prices from changing, so all that are under way *)
(* use the same window; the means stored are those of ever later windows,  *)
(* and the deviation is that of the mean or, while a calculation is        *)
(* between its two stores, of the mean before it or a later one.           *)
(***************************************************************************)
MrTypes ==
  /\ added \in Nat /\ mean_price \in Nat /\ std_dev \in Nat
  /\ rpc \in [Calculators \union Readers ->
                {"idle", "store_mean", "store_dev", "load_second", "loaded"}]
  /\ window \in [Calculators -> Nat]
  /\ loaded \in [Readers -> [mean : Nat, dev : Nat]]
  /\ means \in Seq(Nat) /\ means # << >>

\* The calculations under way are of the same window.
Calculations ==
  \A c \in Calculators :
    rpc[c] \in {"store_mean", "store_dev"} =>
      /\ c \in guards /\ window[c] = added
      /\ rpc[c] = "store_dev" => mean_price = added

\* The means, oldest first.
Means ==
  /\ \A i, j \in 1..Len(means) : i < j => means[i] < means[j]
  /\ mean_price = means[Len(means)]
  /\ \A i \in 1..Len(means) : means[i] <= added

\* A deviation that is not older than the mean before the i-th of a list.
NotOlderThan(list, dev, i) == IF i = 1 THEN dev >= list[1] ELSE dev >= list[i - 1]

Deviations ==
  /\ std_dev <= added
  /\ std_dev = mean_price
     \/ /\ NotOlderThan(means, std_dev, Len(means))
        /\ \E c \in Calculators : rpc[c] = "store_dev"
  /\ \A r \in Readers : rpc[r] \in {"load_second", "loaded"} =>
       \E i \in 1..Len(means) :
         /\ loaded[r].mean = means[i]
         /\ NotOlderThan(means, IF rpc[r] = "loaded" THEN loaded[r].dev ELSE std_dev, i)

MrInv == MrTypes /\ Calculations /\ Means /\ Deviations

LEMMA MrInitInv == MrInit => MrInv
<1> SUFFICES ASSUME MrInit PROVE MrInv
  OBVIOUS
<1>1. means = <<0>> /\ Len(means) = 1 /\ means[1] = 0 /\ means \in Seq(Nat) /\ means # << >>
  BY DEF MrInit
<1>2. MrTypes
  BY <1>1 DEF MrInit, MrTypes
<1>3. Calculations
  BY DEF MrInit, Calculations
<1>4. Means
  BY <1>1 DEF MrInit, Means
<1>5. Deviations
  BY DEF MrInit, Deviations
<1> QED BY <1>2, <1>3, <1>4, <1>5 DEF MrInv

\* Only the thread that makes a step moves.
LEMMA StepMoves ==
  ASSUME MrTypes, NEW t \in Calculators \union Readers, NEW from,
         NEW to \in {"idle", "store_mean", "store_dev", "load_second", "loaded"},
         Step(t, from, to)
  PROVE  /\ rpc' \in [Calculators \union Readers ->
                        {"idle", "store_mean", "store_dev", "load_second", "loaded"}]
         /\ rpc[t] = from /\ rpc'[t] = to
         /\ \A u \in Calculators \union Readers : u # t => rpc'[u] = rpc[u]
  BY DEF MrTypes, Step

\* The list of the means, and that a deviation that gets younger stays young.
LEMMA MeansFacts ==
  ASSUME MrInv
  PROVE  /\ Len(means) \in Nat \ {0} /\ \A i \in 1..Len(means) : means[i] \in Nat
         /\ added \in Nat /\ std_dev \in Nat /\ mean_price \in Nat
         /\ NotOlderThan(means, std_dev, Len(means))
         /\ mean_price <= added /\ std_dev <= added
         /\ \A c \in Calculators : rpc[c] \in {"store_mean", "store_dev"} => window[c] = added
<1>1. means \in Seq(Nat) /\ means # << >>
  BY DEF MrInv, MrTypes
<1>2. Len(means) \in Nat \ {0} /\ \A i \in 1..Len(means) : means[i] \in Nat
  BY <1>1
<1>3. NotOlderThan(means, std_dev, Len(means))
  <2>1. CASE std_dev = mean_price
    <3>1. std_dev = means[Len(means)]
      BY <2>1 DEF MrInv, Means
    <3>2. CASE Len(means) = 1
      BY <1>2, <3>1, <3>2 DEF NotOlderThan
    <3>3. CASE Len(means) # 1
      <4>1. \A n \in Nat \ {0} : n # 1 => n - 1 \in 1..n /\ n \in 1..n /\ n - 1 < n /\ n - 1 # 0
        OBVIOUS
      <4>2. means[Len(means) - 1] < means[Len(means)]
        BY <1>2, <3>3, <4>1 DEF MrInv, Means
      <4>3. std_dev >= means[Len(means) - 1]
        <5>1. \A a, b \in Nat : a < b => b >= a
          OBVIOUS
        <5>2. means[Len(means) - 1] \in Nat /\ means[Len(means)] \in Nat
          BY <1>2, <3>3, <4>1
        <5> QED BY <3>1, <4>2, <5>1, <5>2
      <4> QED BY <3>3, <4>3 DEF NotOlderThan
    <3> QED BY <3>2, <3>3
  <2> QED BY <2>1 DEF MrInv, Deviations
<1>4. mean_price <= added
  <2>1. Len(means) \in 1..Len(means)
    BY <1>2
  <2> QED BY <2>1 DEF MrInv, Means
<1> QED BY <1>2, <1>3, <1>4 DEF MrInv, MrTypes, Deviations, Calculations

LEMMA AddPriceInv ==
  ASSUME MrInv, AddPrice
  PROVE  MrInv'
<1>1. /\ mean_price' = mean_price /\ std_dev' = std_dev /\ rpc' = rpc /\ window' = window
      /\ loaded' = loaded /\ means' = means /\ guards' = guards /\ guards = {}
      /\ added' = added + 1
  BY DEF AddPrice
<1>2. added \in Nat /\ std_dev \in Nat /\ std_dev <= added /\ Len(means) \in Nat
      /\ \A i \in 1..Len(means) : means[i] \in Nat /\ means[i] <= added
  BY MeansFacts DEF MrInv, Means
<1>3. MrTypes'
  BY <1>1, <1>2 DEF MrInv, MrTypes
<1>4. Calculations'
  BY <1>1 DEF MrInv, Calculations
<1>5. Means'
  BY <1>1, <1>2 DEF MrInv, Means
<1>6. Deviations'
  BY <1>1, <1>2 DEF MrInv, Deviations, NotOlderThan
<1> QED BY <1>3, <1>4, <1>5, <1>6 DEF MrInv

LEMMA BeginCalculationInv ==
  ASSUME MrInv, NEW c \in Calculators, BeginCalculation(c)
  PROVE  MrInv'
<1>1. /\ mean_price' = mean_price /\ std_dev' = std_dev /\ added' = added
      /\ loaded' = loaded /\ means' = means /\ guards' = guards \union {c}
      /\ window' = [window EXCEPT ![c] = added]
  BY DEF BeginCalculation, Guarded
<1>2. /\ rpc' \in [Calculators \union Readers ->
                     {"idle", "store_mean", "store_dev", "load_second", "loaded"}]
      /\ rpc[c] = "idle" /\ rpc'[c] = "store_mean"
      /\ \A u \in Calculators \union Readers : u # c => rpc'[u] = rpc[u]
  BY StepMoves DEF BeginCalculation, MrInv
<1>3. MrTypes'
  BY <1>1, <1>2 DEF MrInv, MrTypes
<1>4. Calculations'
  BY <1>1, <1>2 DEF MrInv, MrTypes, Calculations
<1>5. Means'
  BY <1>1 DEF MrInv, Means
<1>6. Deviations'
  <2>1. \A r \in Readers : rpc'[r] \in {"load_second", "loaded"} => rpc'[r] = rpc[r]
    BY <1>2
  <2>2. \A d \in Calculators : rpc[d] = "store_dev" => rpc'[d] = "store_dev"
    BY <1>2
  <2> QED BY <1>1, <2>1, <2>2 DEF MrInv, Deviations
<1> QED BY <1>3, <1>4, <1>5, <1>6 DEF MrInv

LEMMA StoreMeanInv ==
  ASSUME MrInv, NEW c \in Calculators, StoreMean(c)
  PROVE  MrInv'
<1> DEFINE L == Len(means)
<1>1. /\ std_dev' = std_dev /\ added' = added /\ loaded' = loaded /\ guards' = guards
      /\ window' = window /\ mean_price' = window[c]
      /\ means' = IF mean_price = window[c] THEN means ELSE Append(means, window[c])
  BY DEF StoreMean
<1>2. /\ rpc' \in [Calculators \union Readers ->
                     {"idle", "store_mean", "store_dev", "load_second", "loaded"}]
      /\ rpc[c] = "store_mean" /\ rpc'[c] = "store_dev"
      /\ \A u \in Calculators \union Readers : u # c => rpc'[u] = rpc[u]
  BY StepMoves DEF StoreMean, MrInv
<1>3. /\ L \in Nat \ {0} /\ \A i \in 1..L : means[i] \in Nat /\ means[i] <= added
      /\ added \in Nat /\ std_dev \in Nat /\ mean_price \in Nat
      /\ NotOlderThan(means, std_dev, L) /\ mean_price <= added /\ window[c] = added
      /\ means \in Seq(Nat) /\ mean_price = means[L]
  BY <1>2, MeansFacts DEF MrInv, Means, MrTypes
<1>4. Calculations'
  BY <1>1, <1>2, <1>3 DEF MrInv, Calculations
<1>5. \A r \in Readers : rpc'[r] \in {"load_second", "loaded"} => rpc'[r] = rpc[r]
  BY <1>2
<1>6. CASE mean_price = window[c]
  <2>1. means' = means /\ mean_price' = mean_price
    BY <1>1, <1>6
  <2>2. MrTypes'
    BY <1>1, <1>2, <2>1 DEF MrInv, MrTypes
  <2>3. Means'
    BY <1>1, <2>1 DEF MrInv, Means
  <2>4. Deviations'
    BY <1>1, <1>2, <1>3, <1>5, <2>1 DEF MrInv, Deviations
  <2> QED BY <1>4, <2>2, <2>3, <2>4 DEF MrInv
<1>7. CASE mean_price # window[c]
  <2>1. /\ means' \in Seq(Nat) /\ Len(means') = L + 1 /\ means'[L + 1] = added
        /\ \A i \in 1..L : means'[i] = means[i]
    BY <1>1, <1>3, <1>7
  <2>2. means' # << >> /\ mean_price' = added
    BY <1>1, <1>3, <2>1
  <2>3. MrTypes'
    BY <1>1, <1>2, <1>3, <2>1, <2>2 DEF MrInv, MrTypes
  <2>4. ASSUME NEW i \in 1..L PROVE means[i] < added
    <3>1. CASE i = L
      BY <3>1, <1>3, <1>7
    <3>2. CASE i # L
      <4>1. L \in 1..L /\ i < L
        BY <1>3, <3>2
      <4>2. means[i] < means[L]
        BY <4>1 DEF MrInv, Means
      <4> QED BY <4>1, <4>2, <1>3
    <3> QED BY <3>1, <3>2
  <2>5. Means'
    <3>1. \A i, j \in 1..Len(means') : i < j => means'[i] < means'[j]
      <4> SUFFICES ASSUME NEW i \in 1..(L + 1), NEW j \in 1..(L + 1), i < j
                   PROVE  means'[i] < means'[j]
        BY <2>1
      <4>1. i \in 1..L /\ means'[i] = means[i]
        <5>1. \A n \in Nat : \A a, b \in 1..(n + 1) : a < b => a \in 1..n
          OBVIOUS
        <5> HIDE DEF L
        <5>2. i \in 1..L
          BY <1>3, <5>1
        <5> QED BY <2>1, <5>2
      <4>2. CASE j = L + 1
        BY <4>1, <4>2, <2>1, <2>4
      <4>3. CASE j # L + 1
        <5>1. j \in 1..L /\ means'[j] = means[j]
          <6>1. \A n \in Nat : \A a \in 1..(n + 1) : a # n + 1 => a \in 1..n
            OBVIOUS
          <6> HIDE DEF L
          <6>2. j \in 1..L
            BY <4>3, <1>3, <6>1
          <6> QED BY <2>1, <6>2
        <5> QED BY <4>1, <5>1 DEF MrInv, Means
      <4> QED BY <4>2, <4>3
    <3>2. \A i \in 1..Len(means') : means'[i] <= added
      <4> SUFFICES ASSUME NEW i \in 1..(L + 1) PROVE means'[i] <= added
        BY <2>1
      <4>1. CASE i = L + 1
        BY <4>1, <2>1, <1>3
      <4>2. CASE i # L + 1
        <5>1. i \in 1..L
          <6>1. \A n \in Nat : \A a \in 1..(n + 1) : a # n + 1 => a \in 1..n
            OBVIOUS
          <6> HIDE DEF L
          <6> QED BY <4>2, <1>3, <6>1
        <5> QED BY <5>1, <1>3, <2>1
      <4> QED BY <4>1, <4>2
    <3> QED BY <1>1, <2>1, <2>2, <3>1, <3>2 DEF Means
  <2>6. \A d \in Calculators : rpc[d] # "store_dev"
    BY <1>3, <1>7 DEF MrInv, Calculations
  <2>7. std_dev = means[L]
    BY <1>3, <2>6 DEF MrInv, Deviations
  <2>8. NotOlderThan(means', std_dev, L + 1)
    <3>1. L + 1 # 1 /\ (L + 1) - 1 = L /\ L \in 1..L
      BY <1>3
    <3>2. means'[(L + 1) - 1] = std_dev
      BY <2>1, <2>7, <3>1
    <3> QED BY <1>1, <1>3, <2>1, <3>1, <3>2 DEF NotOlderThan
  <2>10. ASSUME NEW r \in Readers, rpc'[r] \in {"load_second", "loaded"}
         PROVE  \E i \in 1..Len(means') :
                  /\ loaded'[r].mean = means'[i]
                  /\ NotOlderThan(means', IF rpc'[r] = "loaded" THEN loaded'[r].dev ELSE std_dev', i)
    <3>1. PICK i \in 1..L :
            /\ loaded[r].mean = means[i]
            /\ NotOlderThan(means, IF rpc[r] = "loaded" THEN loaded[r].dev ELSE std_dev, i)
      BY <2>10, <1>5 DEF MrInv, Deviations
    <3>2. i \in 1..Len(means') /\ loaded'[r].mean = means'[i] /\ rpc'[r] = rpc[r]
      BY <1>1, <1>3, <1>5, <2>1, <2>10, <3>1
    <3>3. NotOlderThan(means', IF rpc[r] = "loaded" THEN loaded[r].dev ELSE std_dev, i)
      <4>1. 1 \in 1..L /\ (i # 1 => i - 1 \in 1..L)
        BY <1>3
      <4>2. means'[1] = means[1] /\ (i # 1 => means'[i - 1] = means[i - 1])
        BY <2>1, <4>1
      <4> QED BY <3>1, <4>2 DEF NotOlderThan
    <3> QED BY <1>1, <3>2, <3>3
  <2>11. Deviations'
    <3>1. std_dev' <= added'
      BY <1>1 DEF MrInv, Deviations
    <3>2. NotOlderThan(means', std_dev', Len(means'))
      BY <1>1, <2>1, <2>8
    <3> QED BY <1>2, <2>10, <3>1, <3>2 DEF Deviations
  <2> QED BY <1>4, <2>3, <2>5, <2>11 DEF MrInv
<1> QED BY <1>6, <1>7

\* The deviation stored is not older than the one before.
LEMMA StoreDeviationInv ==
  ASSUME MrInv, NEW c \in Calculators, StoreDeviation(c)
  PROVE  MrInv'
<1>1. /\ mean_price' = mean_price /\ added' = added /\ loaded' = loaded /\ means' = means
      /\ std_dev' = window[c] /\ guards' = guards \ {c}
      /\ window' = [window EXCEPT ![c] = 0]
  BY DEF StoreDeviation
<1>2. /\ rpc' \in [Calculators \union Readers ->
                     {"idle", "store_mean", "store_dev", "load_second", "loaded"}]
      /\ rpc[c] = "store_dev" /\ rpc'[c] = "idle"
      /\ \A u \in Calculators \union Readers : u # c => rpc'[u] = rpc[u]
  BY StepMoves DEF StoreDeviation, MrInv
<1>3. /\ Len(means) \in Nat \ {0} /\ \A i \in 1..Len(means) : means[i] \in Nat
      /\ added \in Nat /\ std_dev \in Nat /\ std_dev <= added
      /\ window[c] = added /\ mean_price = added
  BY <1>2, MeansFacts DEF MrInv, Calculations
<1>4. MrTypes'
  BY <1>1, <1>2, <1>3 DEF MrInv, MrTypes
<1>5. Calculations'
  BY <1>1, <1>2 DEF MrInv, MrTypes, Calculations
<1>6. Means'
  BY <1>1 DEF MrInv, Means
<1>7. Deviations'
  <2>1. ASSUME NEW r \in Readers, rpc'[r] \in {"load_second", "loaded"}
        PROVE  \E i \in 1..Len(means) :
                 /\ loaded[r].mean = means[i]
                 /\ NotOlderThan(means, IF rpc'[r] = "loaded" THEN loaded[r].dev ELSE std_dev', i)
    <3>1. rpc'[r] = rpc[r]
      BY <2>1, <1>2
    <3>2. PICK i \in 1..Len(means) :
            /\ loaded[r].mean = means[i]
            /\ NotOlderThan(means, IF rpc[r] = "loaded" THEN loaded[r].dev ELSE std_dev, i)
      BY <2>1, <3>1 DEF MrInv, Deviations
    <3>3. NotOlderThan(means, std_dev, i) => NotOlderThan(means, std_dev', i)
      <4>1. 1 \in 1..Len(means) /\ (i # 1 => i - 1 \in 1..Len(means))
        BY <1>3
      <4> QED BY <1>1, <1>3, <4>1 DEF NotOlderThan
    <3> QED BY <3>1, <3>2, <3>3
  <2>2. std_dev' <= added' /\ std_dev' = mean_price'
    BY <1>1, <1>3
  <2> QED BY <1>1, <2>1, <2>2 DEF Deviations, NotOlderThan
<1> QED BY <1>4, <1>5, <1>6, <1>7 DEF MrInv

\* A reader's steps store nothing that others read.
LEMMA ReaderInv ==
  ASSUME MrInv, NEW r \in Readers, LoadFirst(r) \/ LoadSecond(r) \/ AdjustHedge(r)
  PROVE  MrInv'
<1>1. /\ mean_price' = mean_price /\ added' = added /\ means' = means /\ std_dev' = std_dev
      /\ guards' = guards /\ window' = window
  BY DEF LoadFirst, LoadSecond, AdjustHedge
<1>2. PICK from, to \in {"idle", "load_second", "loaded"} : Step(r, from, to)
  BY DEF LoadFirst, LoadSecond, AdjustHedge
<1>3. /\ rpc' \in [Calculators \union Readers ->
                     {"idle", "store_mean", "store_dev", "load_second", "loaded"}]
      /\ rpc[r] = from /\ rpc'[r] = to
      /\ \A u \in Calculators \union Readers : u # r => rpc'[u] = rpc[u]
  BY <1>2, StepMoves DEF MrInv
<1>4. /\ mean_price \in Nat /\ std_dev \in Nat /\ loaded \in [Readers -> [mean : Nat, dev : Nat]]
      /\ Len(means) \in Nat \ {0} /\ NotOlderThan(means, std_dev, Len(means))
      /\ mean_price = means[Len(means)]
  BY MeansFacts DEF MrInv, MrTypes, Means
<1>5. /\ loaded' \in [Readers -> [mean : Nat, dev : Nat]]
      /\ \A q \in Readers : q # r => loaded'[q] = loaded[q]
      /\ LoadFirst(r) => loaded'[r].mean = mean_price
      /\ LoadSecond(r) => loaded'[r].mean = loaded[r].mean /\ loaded'[r].dev = std_dev
  <2>1. CASE LoadFirst(r)
    <3>1. loaded' = [loaded EXCEPT ![r] = [mean |-> mean_price, dev |-> loaded[r].dev]]
      BY <2>1 DEF LoadFirst, Load, LoadOrder
    <3>2. ~LoadSecond(r)
      BY <2>1 DEF LoadFirst, LoadSecond, Step
    <3> QED BY <1>4, <3>1, <3>2
  <2>2. CASE LoadSecond(r)
    <3>1. loaded' = [loaded EXCEPT ![r] = [mean |-> loaded[r].mean, dev |-> std_dev]]
      BY <2>2 DEF LoadSecond, Load, LoadOrder
    <3>2. ~LoadFirst(r)
      BY <2>2 DEF LoadFirst, LoadSecond, Step
    <3> QED BY <1>4, <3>1, <3>2
  <2>3. CASE AdjustHedge(r)
    <3>1. loaded' = [loaded EXCEPT ![r] = [mean |-> 0, dev |-> 0]]
      BY <2>3 DEF AdjustHedge
    <3>2. ~LoadFirst(r) /\ ~LoadSecond(r)
      BY <2>3 DEF LoadFirst, LoadSecond, AdjustHedge, Step
    <3> QED BY <1>4, <3>1, <3>2
  <2> QED BY <2>1, <2>2, <2>3
<1>6. MrTypes'
  BY <1>1, <1>3, <1>5 DEF MrInv, MrTypes
<1>7. \A c \in Calculators : rpc'[c] \in {"store_mean", "store_dev"} <=> rpc[c] \in {"store_mean", "store_dev"}
  BY <1>2, <1>3
<1>8. \A c \in Calculators : rpc'[c] = "store_dev" <=> rpc[c] = "store_dev"
  BY <1>2, <1>3
<1>9. Calculations'
  BY <1>1, <1>7, <1>8 DEF MrInv, Calculations
<1>10. Means'
  BY <1>1 DEF MrInv, Means
<1>11. Deviations'
  <2>1. ASSUME NEW q \in Readers, rpc'[q] \in {"load_second", "loaded"}
        PROVE  \E i \in 1..Len(means) :
                 /\ loaded'[q].mean = means[i]
                 /\ NotOlderThan(means, IF rpc'[q] = "loaded" THEN loaded'[q].dev ELSE std_dev, i)
    <3>1. CASE q # r
      BY <2>1, <3>1, <1>3, <1>5 DEF MrInv, Deviations
    <3>2. CASE q = r /\ LoadFirst(r)
      <4>1. rpc'[r] = "load_second" /\ Len(means) \in 1..Len(means)
        BY <3>2, <1>4, StepMoves DEF LoadFirst, MrInv
      <4> QED BY <3>2, <4>1, <1>4, <1>5
    <3>3. CASE q = r /\ LoadSecond(r)
      <4>1. rpc[r] = "load_second" /\ rpc'[r] = "loaded"
        BY <3>3, StepMoves DEF LoadSecond, MrInv
      <4>2. PICK i \in 1..Len(means) : loaded[r].mean = means[i] /\ NotOlderThan(means, std_dev, i)
        BY <4>1 DEF MrInv, Deviations
      <4> QED BY <3>3, <4>1, <4>2, <1>5
    <3>4. CASE q = r /\ AdjustHedge(r)
      <4>1. rpc'[r] = "idle"
        BY <3>4, StepMoves DEF AdjustHedge, MrInv
      <4> QED BY <2>1, <3>4, <4>1
    <3> QED BY <3>1, <3>2, <3>3, <3>4
  <2> QED BY <1>1, <1>8, <2>1 DEF MrInv, Deviations, NotOlderThan
<1> QED BY <1>6, <1>9, <1>10, <1>11 DEF MrInv

LEMMA MrInvariance == MrSpec => []MrInv
<1>1. MrInv /\ [MrNext]_mrVars => MrInv'
  <2> SUFFICES ASSUME MrInv, [MrNext]_mrVars PROVE MrInv'
    OBVIOUS
  <2>1. CASE UNCHANGED mrVars
    BY <2>1 DEF MrInv, MrTypes, Calculations, Means, Deviations, NotOlderThan, mrVars
  <2> QED BY <2>1, AddPriceInv, BeginCalculationInv, StoreMeanInv, StoreDeviationInv, ReaderInv
          DEF MrNext
<1> QED BY <1>1, MrInitInv, PTL DEF MrSpec

(***************************************************************************)
(* The deviation that goes into a z-score is at most one calculation older *)
(* than the mean, for any number of threads that calculate or read.        *)
(***************************************************************************)
THEOREM DeviationNotOlderHolds == MrSpec => []DeviationNotOlder
<1>1. MrInv => DeviationNotOlder
  <2> SUFFICES ASSUME MrInv, NEW r \in Readers, rpc[r] = "loaded"
               PROVE  loaded[r].dev >= Preceding(loaded[r].mean)
    BY DEF DeviationNotOlder
  <2>1. PICK i \in 1..Len(means) :
          loaded[r].mean = means[i] /\ NotOlderThan(means, loaded[r].dev, i)
    BY DEF MrInv, Deviations
  <2>2. Len(means) \in Nat /\ \A j \in 1..Len(means) : means[j] \in Nat
    BY MeansFacts
  <2>3. \A j \in 1..Len(means) : means[j] = means[i] => j = i
    <3> SUFFICES ASSUME NEW j \in 1..Len(means), means[j] = means[i], j # i PROVE FALSE
      OBVIOUS
    <3>1. j < i \/ i < j
      BY <2>2
    <3>2. means[j] < means[i] \/ means[i] < means[j]
      BY <3>1 DEF MrInv, Means
    <3> QED BY <2>2, <3>2
  <2>4. (CHOOSE k \in 1..Len(means) : means[k] = loaded[r].mean) = i
    BY <2>1, <2>3
  <2>5. Preceding(loaded[r].mean) = IF i = 1 THEN means[i] ELSE means[i - 1]
    BY <2>1, <2>4 DEF Preceding
  <2> QED BY <2>1, <2>5 DEF NotOlderThan
<1> QED BY <1>1, MrInvariance, PTL

-----------------------------------------------------------------------------
\* A larger score, on either side, keeps no more of the hedge.
LEMMA AdjustmentFalls ==
  ASSUME NEW y \in Int, NEW z \in Int, Size(z) <= Size(y)
  PROVE  Adjustment(y) <= Adjustment(z)
<1>1. Size(y) \in Nat /\ Size(z) \in Nat /\ ZThreshold \in Nat /\ HedgeStrength \in 0..100
  BY ScoresAssumption, StrengthAssumption DEF Size
<1>2. /\ Reduction(Size(y)) \in {30, 50, 70, 100} /\ Reduction(Size(z)) \in {30, 50, 70, 100}
      /\ Reduction(Size(y)) <= Reduction(Size(z))
  BY <1>1 DEF Reduction
<1>3. Reduction(Size(y)) * HedgeStrength <= Reduction(Size(z)) * HedgeStrength
  BY <1>1, <1>2
<1>4. Reduction(Size(y)) * HedgeStrength <= 10000
  BY <1>1, <1>2
<1> QED BY <1>1, <1>3, <1>4 DEF Adjustment

\* What a reader got is the factor for its score.
Answers ==
  /\ \A r \in Readers : score[r] \in Int /\ factor[r] = Adjustment(score[r])
  /\ DOMAIN score = Readers /\ DOMAIN factor = Readers

(***************************************************************************)
(* should_adjust_hedge reduces as much above the mean as below it, and     *)
(* never more for a price that is nearer to the mean, whatever the         *)
(* threshold and the strength.                                             *)
(***************************************************************************)
THEOREM ReducedBothWaysHolds == MrSpec => []ReducedBothWays
<1>1. MrInit => Answers
  BY ScoresAssumption DEF MrInit, Answers, Adjustment, Size
<1>2. Answers /\ [MrNext]_mrVars => Answers'
  <2> SUFFICES ASSUME Answers, [MrNext]_mrVars PROVE Answers'
    OBVIOUS
  <2>1. ASSUME NEW r \in Readers, AdjustHedge(r) PROVE Answers'
    <3>1. PICK z \in Scores(loaded[r].dev) :
            /\ score' = [score EXCEPT ![r] = z]
            /\ factor' = [factor EXCEPT ![r] = Adjustment(z)]
      BY <2>1 DEF AdjustHedge
    <3>2. z \in Int
      BY <3>1, ScoresAssumption DEF Scores
    <3> QED BY <3>1, <3>2 DEF Answers
  <2>2. CASE UNCHANGED <<score, factor>>
    BY <2>2 DEF Answers
  <2> QED BY <2>1, <2>2 DEF MrNext, mrVars, AddPrice, BeginCalculation, StoreMean,
                           StoreDeviation, LoadFirst, LoadSecond
<1>3. Answers => ReducedBothWays
  BY AdjustmentFalls, ScoresAssumption DEF Answers, ReducedBothWays
<1> QED BY <1>1, <1>2, <1>3, PTL DEF MrSpec
-----------------------------------------------------------------------------
(***************************************************************************)
(* CompositeStrategy.                                                      *)
(*                                                                         *)
(* While the strategies are asked, the weighted sum stays between the      *)
(* smallest and the largest quantity recommended so far times the sum of   *)
(* the weights, as long as no weight that counts is negative.              *)
(***************************************************************************)
CompositeTypes ==
  /\ weights \in Seq(Int) /\ answers \in Seq(Quantities \union {NoHedge})
  /\ Len(answers) <= Len(weights)
  /\ total_quantity \in Int /\ total_weight \in Int /\ any_hedge \in BOOLEAN

\* The sums so far.
SumsBetween ==
  /\ any_hedge <=> Recommended # {}
  /\ NoneNegative => total_weight >= 0
  /\ any_hedge /\ NoneNegative =>
       \E low, high \in Recommended : /\ low * total_weight <= total_quantity
                                      /\ total_quantity <= high * total_weight
  /\ ~any_hedge => total_quantity = 0 /\ total_weight = 0

CompositeInv == CompositeTypes /\ SumsBetween

\* Products with a larger factor are larger.
LEMMA ProductGrows ==
  ASSUME NEW a \in Int, NEW b \in Int, NEW w \in Nat, a <= b
  PROVE  a * w <= b * w /\ a * w \in Int
OBVIOUS

\* A weighted sum stays between the smallest and the largest of its terms
\* when a term is added.
LEMMA AverageBetween ==
  ASSUME NEW low \in Int, NEW high \in Int, NEW q \in Int, NEW w \in Nat,
         low * w <= q, q <= high * w, NEW a \in Int, NEW v \in Nat
  PROVE  /\ \E l \in {low, a} : l * (w + v) <= q + a * v
         /\ \E h \in {high, a} : q + a * v <= h * (w + v)
<1>1. \A x \in Int : x * (w + v) = x * w + x * v /\ x * w \in Int /\ x * v \in Int
  OBVIOUS
<1>2. \E l \in {low, a} : l * (w + v) <= q + a * v
  <2>1. CASE low <= a
    <3>1. low * v <= a * v
      BY <2>1, ProductGrows
    <3>2. low * (w + v) <= q + a * v
      BY <1>1, <3>1
    <3> QED BY <3>2
  <2>2. CASE a <= low
    <3>1. a * w <= low * w
      BY <2>2, ProductGrows
    <3>2. a * (w + v) <= q + a * v
      BY <1>1, <3>1
    <3> QED BY <3>2
  <2> QED BY <2>1, <2>2
<1>3. \E h \in {high, a} : q + a * v <= h * (w + v)
  <2>1. CASE a <= high
    <3>1. a * v <= high * v
      BY <2>1, ProductGrows
    <3>2. q + a * v <= high * (w + v)
      BY <1>1, <3>1
    <3> QED BY <3>2
  <2>2. CASE high <= a
    <3>1. high * w <= a * w
      BY <2>2, ProductGrows
    <3>2. q + a * v <= a * (w + v)
      BY <1>1, <3>1
    <3> QED BY <3>2
  <2> QED BY <2>1, <2>2
<1> QED BY <1>2, <1>3

\* The answers so far, with one more.
LEMMA AnswerAdded ==
  ASSUME CompositeTypes, NEW answer \in Quantities \union {NoHedge},
         answers' = Append(answers, answer)
  PROVE  /\ answers' \in Seq(Quantities \union {NoHedge})
         /\ Recommended' = Recommended \union ({answer} \ {NoHedge})
         /\ Recommended \subseteq Quantities
         /\ Len(answers) \in Nat /\ Len(answers') = Len(answers) + 1
         /\ weights' = weights =>
              (NoneNegative' <=> NoneNegative /\ (answer # NoHedge => weights[Len(answers) + 1] >= 0))
<1>1. answers \in Seq(Quantities \union {NoHedge}) /\ Len(answers) \in Nat
  BY DEF CompositeTypes
<1>2. /\ answers' \in Seq(Quantities \union {NoHedge}) /\ Len(answers') = Len(answers) + 1
      /\ \A i \in 1..Len(answers) : answers'[i] = answers[i]
      /\ answers'[Len(answers) + 1] = answer
  BY <1>1
<1>3. 1..Len(answers') = 1..Len(answers) \union {Len(answers) + 1}
  BY <1>1, <1>2
<1>4. {answers'[i] : i \in 1..Len(answers')} = {answers[i] : i \in 1..Len(answers)} \union {answer}
  BY <1>2, <1>3
<1>5. Recommended \subseteq Quantities
  BY <1>1 DEF Recommended
<1>6. ASSUME weights' = weights
      PROVE  NoneNegative' <=> /\ NoneNegative
                               /\ answer # NoHedge => weights[Len(answers) + 1] >= 0
  BY <1>2, <1>3, <1>6 DEF NoneNegative
<1> QED BY <1>1, <1>2, <1>4, <1>5, <1>6 DEF Recommended

LEMMA CompositeInitInv == CompositeInit => CompositeInv
<1> SUFFICES ASSUME CompositeInit PROVE CompositeInv
  OBVIOUS
<1>1. Recommended = {}
  BY DEF CompositeInit, Recommended
<1>2. weights = << >> /\ answers = << >> /\ total_quantity = 0 /\ total_weight = 0
  BY DEF CompositeInit
<1>3. any_hedge = FALSE
  BY DEF CompositeInit
<1>4. CompositeTypes
  <2>1. /\ weights \in Seq(Int) /\ answers \in Seq(Quantities \union {NoHedge})
        /\ Len(answers) <= Len(weights)
    BY <1>2
  <2>2. any_hedge \in BOOLEAN
    BY <1>3, Zenon
  <2> QED BY <1>2, <2>1, <2>2 DEF CompositeTypes
<1>5. SumsBetween
  BY <1>1, <1>2, <1>3 DEF SumsBetween
<1> QED BY <1>4, <1>5 DEF CompositeInv

LEMMA AskStrategyInv ==
  ASSUME CompositeInv, NEW answer \in Quantities \union {NoHedge}, AskStrategy(answer)
  PROVE  CompositeInv'
<1> DEFINE w == weights[Len(answers) + 1]
<1>1. /\ weights' = weights /\ answers' = Append(answers, answer)
      /\ total_weight' = total_weight + CountedWeight(w, answer)
      /\ total_quantity' = total_quantity + (IF answer = NoHedge THEN 0 ELSE answer * w)
      /\ any_hedge' = (any_hedge \/ answer # NoHedge)
  BY DEF AskStrategy
<1>2. w \in Int /\ Len(answers) + 1 <= Len(weights)
  <2>1. Len(answers) \in Nat /\ weights \in Seq(Int) /\ Len(weights) \in Nat
        /\ Len(answers) < Len(weights)
    BY DEF CompositeInv, CompositeTypes, AskStrategy
  <2>2. Len(answers) + 1 \in 1..Len(weights)
    BY <2>1
  <2> QED BY <2>1, <2>2
<1>3. /\ answers' \in Seq(Quantities \union {NoHedge}) /\ Len(answers') = Len(answers) + 1
      /\ Recommended' = Recommended \union ({answer} \ {NoHedge})
      /\ Recommended \subseteq Int /\ Quantities \subseteq Int
      /\ NoneNegative' <=> NoneNegative /\ (answer # NoHedge => w >= 0)
  BY <1>1, AnswerAdded, CompositeAssumption DEF CompositeInv
<1> HIDE DEF w
<1>4. total_quantity \in Int /\ total_weight \in Int /\ any_hedge \in BOOLEAN
  BY DEF CompositeInv, CompositeTypes
<1>5. CASE answer = NoHedge
  <2>1. /\ total_weight' = total_weight /\ total_quantity' = total_quantity
        /\ any_hedge' = any_hedge /\ Recommended' = Recommended
        /\ NoneNegative' <=> NoneNegative
    BY <1>1, <1>3, <1>4, <1>5 DEF CountedWeight
  <2>2. CompositeTypes'
    BY <1>1, <1>2, <1>3, <2>1 DEF CompositeInv, CompositeTypes
  <2>3. SumsBetween'
    BY <2>1 DEF CompositeInv, SumsBetween
  <2> QED BY <2>2, <2>3 DEF CompositeInv
<1>6. CASE answer # NoHedge
  <2>1. answer \in Int /\ answer * w \in Int
    BY <1>2, <1>3, <1>6
  <2>2. /\ total_weight' = total_weight + w /\ total_quantity' = total_quantity + answer * w
        /\ any_hedge' = TRUE /\ Recommended' = Recommended \union {answer}
    BY <1>1, <1>3, <1>6 DEF CountedWeight
  <2>3. CompositeTypes'
    <3>1. weights' \in Seq(Int) /\ Len(answers') <= Len(weights')
      BY <1>1, <1>2, <1>3 DEF CompositeInv, CompositeTypes
    <3>2. total_weight' \in Int /\ total_quantity' \in Int
      BY <1>2, <1>4, <2>1, <2>2
    <3>3. any_hedge' \in BOOLEAN
      BY <2>2, Zenon
    <3> QED BY <1>3, <3>1, <3>2, <3>3 DEF CompositeTypes
  <2>4. ASSUME NoneNegative'
        PROVE  /\ total_weight' >= 0
               /\ \E low, high \in Recommended' : /\ low * total_weight' <= total_quantity'
                                               /\ total_quantity' <= high * total_weight'
    <3>0. NoneNegative /\ w \in Nat /\ total_weight \in Nat /\ total_weight' >= 0
      <4>1. NoneNegative /\ w >= 0
        BY <2>4, <1>3, <1>6
      <4>2. total_weight >= 0
        BY <4>1 DEF CompositeInv, SumsBetween
      <4> QED BY <4>1, <4>2, <1>2, <1>4, <2>2
    <3>1. CASE any_hedge
      <4>1. PICK low, high \in Recommended : /\ low * total_weight <= total_quantity
                                             /\ total_quantity <= high * total_weight
        BY <3>0, <3>1 DEF CompositeInv, SumsBetween
      <4>2. low \in Int /\ high \in Int
        BY <4>1, <1>3
      <4>3. /\ \E l \in {low, answer} :
                 l * (total_weight + w) <= total_quantity + answer * w
            /\ \E h \in {high, answer} :
                 total_quantity + answer * w <= h * (total_weight + w)
        BY <1>4, <2>1, <3>0, <4>1, <4>2, AverageBetween
      <4> QED BY <2>2, <3>0, <4>1, <4>3
    <3>2. CASE ~any_hedge
      <4>1. total_quantity = 0 /\ total_weight = 0
        BY <3>2 DEF CompositeInv, SumsBetween
      <4>2. total_weight' = w /\ total_quantity' = answer * w
        BY <2>1, <2>2, <4>1, <1>2
      <4>3. answer * w <= answer * w
        BY <2>1
      <4> QED BY <2>2, <3>0, <4>2, <4>3
    <3> QED BY <3>1, <3>2
  <2>5. SumsBetween'
    BY <2>2, <2>4 DEF SumsBetween
  <2> QED BY <2>3, <2>5 DEF CompositeInv
<1> QED BY <1>5, <1>6

LEMMA CompositeInvariance == CompositeSpec => []CompositeInv
<1>1. CompositeInv /\ [CompositeNext]_compositeVars => CompositeInv'
  <2> SUFFICES ASSUME CompositeInv, [CompositeNext]_compositeVars PROVE CompositeInv'
    OBVIOUS
  <2>1. ASSUME NEW w \in Weights, AddStrategy(w) PROVE CompositeInv'
    <3>1. w \in Int /\ weights \in Seq(Int) /\ Len(weights) \in Nat
          /\ answers \in Seq(Quantities \union {NoHedge}) /\ Len(answers) \in Nat
          /\ Len(answers) <= Len(weights)
      BY CompositeAssumption DEF CompositeInv, CompositeTypes
    <3>2. /\ weights' \in Seq(Int) /\ Len(weights') = Len(weights) + 1
          /\ \A i \in 1..Len(weights) : weights'[i] = weights[i]
      BY <2>1, <3>1 DEF AddStrategy
    <3>3. /\ answers' = answers /\ total_quantity' = total_quantity
          /\ total_weight' = total_weight /\ any_hedge' = any_hedge
      BY <2>1 DEF AddStrategy, sums
    <3>4. Recommended' = Recommended /\ (NoneNegative' <=> NoneNegative)
      <4>1. ASSUME NEW i \in 1..Len(answers) PROVE weights'[i] = weights[i]
        <5>1. i \in 1..Len(weights)
          BY <3>1
        <5> QED BY <3>2, <5>1
      <4>2. NoneNegative' <=> NoneNegative
        BY <3>3, <4>1 DEF NoneNegative
      <4> QED BY <3>3, <4>2 DEF Recommended
    <3>5. CompositeTypes'
      BY <3>1, <3>2, <3>3 DEF CompositeInv, CompositeTypes
    <3>6. SumsBetween'
      BY <3>3, <3>4 DEF CompositeInv, SumsBetween
    <3> QED BY <3>5, <3>6 DEF CompositeInv
  <2>2. CASE Build \/ ReturnAverage \/ UNCHANGED compositeVars
    <3>1. /\ weights' = weights /\ answers' = answers
          /\ total_quantity' = total_quantity /\ total_weight' = total_weight
          /\ any_hedge' = any_hedge
      BY <2>2 DEF Build, ReturnAverage, compositeVars, sums
    <3>2. Recommended' = Recommended /\ (NoneNegative' <=> NoneNegative)
      BY <3>1 DEF Recommended, NoneNegative
    <3>3. CompositeTypes'
      BY <3>1 DEF CompositeInv, CompositeTypes
    <3>4. SumsBetween'
      BY <3>1, <3>2 DEF CompositeInv, SumsBetween
    <3> QED BY <3>3, <3>4 DEF CompositeInv
  <2>3. CASE BeginHedge
    <3>1. answers' = << >> /\ Recommended' = {}
      BY <2>3 DEF BeginHedge, Recommended
    <3>2. weights' = weights /\ total_quantity' = 0 /\ total_weight' = 0
      BY <2>3 DEF BeginHedge
    <3>3. any_hedge' = FALSE
      BY <2>3 DEF BeginHedge
    <3>4. CompositeTypes'
      <4>1. /\ weights' \in Seq(Int) /\ answers' \in Seq(Quantities \union {NoHedge})
            /\ Len(answers') <= Len(weights')
        BY <3>1, <3>2 DEF CompositeInv, CompositeTypes
      <4>2. any_hedge' \in BOOLEAN
        BY <3>3, Zenon
      <4> QED BY <3>2, <4>1, <4>2 DEF CompositeTypes
    <3>5. SumsBetween'
      BY <3>1, <3>2, <3>3 DEF SumsBetween
    <3> QED BY <3>4, <3>5 DEF CompositeInv
  <2> QED BY <2>1, <2>2, <2>3, AskStrategyInv DEF CompositeNext
<1> QED BY <1>1, CompositeInitInv, PTL DEF CompositeSpec

(***************************************************************************)
(* calculate_hedge of the composite answers if and only if some strategy   *)
(* does, and its average lies between the smallest and the largest         *)
(* quantity recommended unless a strategy that recommends one has a        *)
(* negative weight, or the weights add up to 0: for any number of          *)
(* strategies, any quantities, and abstainers of any weight.               *)
(***************************************************************************)
THEOREM BetweenRecommendationsHolds == CompositeSpec => []BetweenRecommendations
<1>1. CompositeInv => BetweenRecommendations
  BY DEF CompositeInv, SumsBetween, BetweenRecommendations
<1> QED BY <1>1, CompositeInvariance, PTL
==============================================================================
