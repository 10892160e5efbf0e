--------------------------- MODULE MVHRStrategy ----------------------------
(***************************************************************************)
(* MVHRStrategy (src/hedging/mvhr.rs): two price windows, each behind a    *)
(* parking_lot RwLock, and two atomics with the cached ratio and the time  *)
(* of its calculation, which are written under the read guards.            *)
(*                                                                         *)
(* A window holds the numbers of the add_observation calls whose prices it *)
(* holds.  Prices are whole numbers, so the returns are fractions, kept as *)
(* multiples of 1/PriceScale; a variance below 1e-10 is then 0.            *)
(***************************************************************************)
EXTENDS Integers, Sequences, FiniteSetsExt

CONSTANTS
  Threads,         \* callers of the strategy
  NoThread,        \* writer of a lock that nobody writes
  Observations,    \* what callers pass: records of a spot and a futures price
  PriceScale,      \* a multiple of every price but 0
  WindowSize,      \* window_size
  RecalcInterval,  \* recalc_interval_ns
  MaxObservations, \* bound on the calls of add_observation
  MaxReads,        \* bound on the calls of the other operations
  MaxClock         \* bound on the clock

ASSUME WindowAssumption == WindowSize \in Nat /\ RecalcInterval \in Nat
ASSUME ThreadsAssumption == NoThread \notin Threads
ASSUME PricesAssumption == Observations \subseteq [spot : Int, futures : Int]

VARIABLES
  writer,          \* per lock, who has its writer bit
  readers,         \* per lock, who holds a read guard
  spot_prices, futures_prices,   \* the windows
  cached_ratio, last_calc_ns,    \* the atomics
  mpc,             \* per thread, where it is
  ratio,           \* per thread, the ratio it calculated, times 10000
  stamp,           \* per thread, the time it read
  clock,           \* the time stamp counter
  calls,           \* calls other than add_observation so far
  observed,        \* history: the observations, by number, with their time
  ratio_of         \* history: number of observations when cached_ratio was stored

locks == <<writer, readers>>
windows == <<spot_prices, futures_prices, observed>>
cache == <<cached_ratio, last_calc_ns, ratio_of>>
mvhrVars == <<locks, windows, cache, mpc, ratio, stamp, clock, calls>>

LockNames == {"spot", "futures"}
\* The order in which the readers take the two locks, and the wrong one.
ReadOrderSwapped == <<"futures", "spot">>
ReadOrder == <<"spot", "futures">>

-----------------------------------------------------------------------------
(***************************************************************************)
(* The arithmetic of calculate_optimal_ratio on two sequences of prices.   *)
(***************************************************************************)
Magnitude(n) == IF n >= 0 THEN n ELSE -n
Truncated(a, b) == IF a >= 0 THEN a \div b ELSE -((-a) \div b)

Returns(p) == [i \in 1..(Len(p) - 1) |-> ((p[i + 1] - p[i]) * PriceScale) \div p[i]]
SumProducts(x, y) == MapThenSumSet(LAMBDA i : x[i] * y[i], DOMAIN x)
\* n times the sum of the products of the distances from the means.
Covariance(x, y) ==
  LET ones == [i \in DOMAIN x |-> 1]
  IN (Len(x) * SumProducts(x, y)) - (SumProducts(x, ones) * SumProducts(y, ones))

\* A return on a price of 0 is infinite or not a number, and then so are the
\* mean and everything computed from it.
DividesByZero(p) == \E i \in 1..(Len(p) - 1) : p[i] = 0

CovarianceOf(s, f) == Covariance(Returns(s), Returns(f))
VarianceOf(f) == Covariance(Returns(f), Returns(f))

TooFew(s) == Len(s) < 3
\* variance.abs() < 1e-10, which is false of NaN.
NoVariance(f) == ~DividesByZero(f) /\ VarianceOf(f) = 0
\* ratio.abs() > 5.0, which is false of NaN.
Unreasonable(s, f) == /\ ~DividesByZero(s) /\ ~DividesByZero(f)
                      /\ Magnitude(CovarianceOf(s, f)) > 5 * VarianceOf(f)
NoRatio(s, f) == TooFew(s) \/ NoVariance(f) \/ Unreasonable(s, f)

\* (ratio * 10000.0) as i64, which is 0 for NaN.
Scaled(s, f) ==
  IF DividesByZero(s) \/ DividesByZero(f) THEN 0
  ELSE Truncated(CovarianceOf(s, f) * 10000, VarianceOf(f))

SpotPrices == [i \in DOMAIN spot_prices |-> observed[spot_prices[i]].spot]
FuturesPrices == [i \in DOMAIN futures_prices |-> observed[futures_prices[i]].futures]

-----------------------------------------------------------------------------
MvhrInit ==
  /\ writer = [l \in LockNames |-> NoThread]
  /\ readers = [l \in LockNames |-> {}]
  /\ spot_prices = << >>
  /\ futures_prices = << >>
  /\ cached_ratio = 10000
  /\ last_calc_ns = 0
  /\ mpc = [t \in Threads |-> "idle"]
  /\ ratio = [t \in Threads |-> 0]
  /\ stamp = [t \in Threads |-> 0]
  /\ clock = 0
  /\ calls = 0
  /\ observed = << >>
  /\ ratio_of = 0

Goto(t, label) == mpc' = [mpc EXCEPT ![t] = label]

(***************************************************************************)
(* RwLock::write sets the writer bit once nobody else has it, which keeps  *)
(* new readers out, and waits until the readers have left.                 *)
(***************************************************************************)
SetWriter(t, l) == writer[l] = NoThread /\ writer' = [writer EXCEPT ![l] = t]
Entered(l) == readers[l] = {}

ReadGuard(t, l) ==
  /\ writer[l] = NoThread
  /\ readers' = [readers EXCEPT ![l] = @ \union {t}]
  /\ UNCHANGED writer

\* The guards go out of scope together at the end of a call.
DropWriteGuards(t) ==
  /\ writer' = [l \in LockNames |-> NoThread]
  /\ UNCHANGED readers
DropReadGuards(t) ==
  /\ readers' = [l \in LockNames |-> readers[l] \ {t}]
  /\ UNCHANGED writer

(***************************************************************************)
(* add_observation; the prices are chosen where they are first used.       *)
(***************************************************************************)
AddObservation(t) ==
  /\ mpc[t] = "idle"
  /\ Len(observed) < MaxObservations
  /\ SetWriter(t, "spot")
  /\ Goto(t, "write_spot")
  /\ UNCHANGED <<readers, windows, cache, ratio, stamp, clock, calls>>

WriteFutures(t) ==
  /\ mpc[t] = "write_spot"
  /\ Entered("spot")
  /\ SetWriter(t, "futures")
  /\ Goto(t, "write_futures")
  /\ UNCHANGED <<readers, windows, cache, ratio, stamp, clock, calls>>

PushSpot(t, o) ==
  /\ mpc[t] = "write_futures"
  /\ Entered("futures")
  /\ observed' = Append(observed, [spot |-> o.spot, futures |-> o.futures, at |-> clock])
  /\ spot_prices' = Append(spot_prices, Len(observed) + 1)
  /\ Goto(t, "push_futures")
  /\ UNCHANGED <<locks, futures_prices, cache, ratio, stamp, clock, calls>>

PushFutures(t) ==
  /\ mpc[t] = "push_futures"
  /\ futures_prices' = Append(futures_prices, Len(observed))
  /\ Goto(t, "trim")
  /\ UNCHANGED <<locks, spot_prices, observed, cache, ratio, stamp, clock, calls>>

\* spot_prices.len() > window_size; and a test that comes too late.
TooLongLate(w) == Len(w) > WindowSize + 1
TooLong(w) == Len(w) > WindowSize

TrimWindows(t) ==
  /\ mpc[t] = "trim"
  /\ IF TooLong(spot_prices)
     THEN /\ spot_prices' = Tail(spot_prices)
          /\ futures_prices' = Tail(futures_prices)
     ELSE UNCHANGED <<spot_prices, futures_prices>>
  /\ DropWriteGuards(t)
  /\ Goto(t, "idle")
  /\ UNCHANGED <<observed, cache, ratio, stamp, clock, calls>>

(***************************************************************************)
(* calculate_optimal_ratio and get_statistics begin with both read guards; *)
(* the latter, an observer, then computes and returns.                     *)
(***************************************************************************)
ReadFirst(t) ==
  /\ mpc[t] = "idle"
  /\ calls < MaxReads
  /\ calls' = calls + 1
  /\ ReadGuard(t, ReadOrder[1])
  /\ Goto(t, "read_second")
  /\ UNCHANGED <<windows, cache, ratio, stamp, clock>>

ReadSecond(t) ==
  /\ mpc[t] = "read_second"
  /\ ReadGuard(t, ReadOrder[2])
  /\ \E op \in {"calculate", "statistics"} : Goto(t, op)
  /\ UNCHANGED <<windows, cache, ratio, stamp, clock, calls>>

Statistics(t) ==
  /\ mpc[t] = "statistics"
  /\ DropReadGuards(t)
  /\ Goto(t, "idle")
  /\ UNCHANGED <<windows, cache, ratio, stamp, clock, calls>>

CalculateNone(t) ==
  /\ mpc[t] = "calculate"
  /\ NoRatio(SpotPrices, FuturesPrices)
  /\ DropReadGuards(t)
  /\ Goto(t, "idle")
  /\ UNCHANGED <<windows, cache, ratio, stamp, clock, calls>>

\* What follows a successful calculation, in program order; and the time
\* stored before the ratio.
StoresSwapped == <<"read_time", "store_time", "store_ratio", "drop">>
Stores == <<"store_ratio", "read_time", "store_time", "drop">>
After(label) == Stores[1 + CHOOSE i \in 1..3 : Stores[i] = label]

\* The guards outlive the arithmetic; a version that lets them end with it.
KeepGuardsShort(t) == DropReadGuards(t)
KeepGuards(t) == UNCHANGED locks

Calculate(t) ==
  /\ mpc[t] = "calculate"
  /\ ~NoRatio(SpotPrices, FuturesPrices)
  /\ ratio' = [ratio EXCEPT ![t] = Scaled(SpotPrices, FuturesPrices)]
  /\ KeepGuards(t)
  /\ Goto(t, Stores[1])
  /\ UNCHANGED <<windows, cache, stamp, clock, calls>>

StoreRatio(t) ==
  /\ mpc[t] = "store_ratio"
  /\ cached_ratio' = ratio[t]
  /\ ratio_of' = Len(observed)
  /\ ratio' = [ratio EXCEPT ![t] = 0]
  /\ Goto(t, After("store_ratio"))
  /\ UNCHANGED <<locks, windows, last_calc_ns, stamp, clock, calls>>

ReadTime(t) ==
  /\ mpc[t] = "read_time"
  /\ stamp' = [stamp EXCEPT ![t] = clock]
  /\ Goto(t, After("read_time"))
  /\ UNCHANGED <<locks, windows, cache, ratio, clock, calls>>

StoreTime(t) ==
  /\ mpc[t] = "store_time"
  /\ last_calc_ns' = stamp[t]
  /\ stamp' = [stamp EXCEPT ![t] = 0]
  /\ Goto(t, After("store_time"))
  /\ UNCHANGED <<locks, windows, cached_ratio, ratio_of, ratio, clock, calls>>

ReturnRatio(t) ==
  /\ mpc[t] = "drop"
  /\ DropReadGuards(t)
  /\ Goto(t, "idle")
  /\ UNCHANGED <<windows, cache, ratio, stamp, clock, calls>>

(***************************************************************************)
(* needs_recalculation loads the time of the last calculation, then reads  *)
(* the clock.  All cores are taken to read the same clock; if one is       *)
(* behind, the unsigned difference wraps and the answer is yes.            *)
(***************************************************************************)
LoadLastCalc(t) ==
  /\ mpc[t] = "idle"
  /\ calls < MaxReads
  /\ calls' = calls + 1
  /\ stamp' = [stamp EXCEPT ![t] = last_calc_ns]
  /\ Goto(t, "elapsed")
  /\ UNCHANGED <<locks, windows, cache, ratio, clock>>

Due(t) == clock - stamp[t] > RecalcInterval

AnswerDue(t, due) ==
  /\ mpc[t] = "elapsed"
  /\ Due(t) = due
  /\ stamp' = [stamp EXCEPT ![t] = 0]
  /\ Goto(t, "idle")
  /\ UNCHANGED <<locks, windows, cache, ratio, clock, calls>>

Tick ==
  /\ clock < MaxClock
  /\ clock' = clock + 1
  /\ UNCHANGED <<locks, windows, cache, mpc, ratio, stamp, calls>>

\* What a thread does once it is in a call.
Proceed(t) ==
  \/ WriteFutures(t) \/ (\E o \in Observations : PushSpot(t, o)) \/ PushFutures(t) \/ TrimWindows(t)
  \/ ReadSecond(t) \/ Statistics(t)
  \/ CalculateNone(t) \/ Calculate(t)
  \/ StoreRatio(t) \/ ReadTime(t) \/ StoreTime(t) \/ ReturnRatio(t)
  \/ \E due \in BOOLEAN : AnswerDue(t, due)

MvhrNext ==
  \/ \E t \in Threads : AddObservation(t) \/ ReadFirst(t) \/ LoadLastCalc(t) \/ Proceed(t)
  \/ Tick

MvhrSpec == MvhrInit /\ [][MvhrNext]_mvhrVars

\* Threads that are in a call go on; which of those that can take a lock is
\* first is open.
MvhrFairSpec == MvhrSpec /\ WF_mvhrVars(\E t \in Threads : Proceed(t))

-----------------------------------------------------------------------------
\* The last WindowSize calls, or all if there are fewer.
LastCalls ==
  LET n == Len(observed)
      first == IF n > WindowSize THEN n - WindowSize ELSE 0
  IN [i \in 1..(n - first) |-> first + i]

(***************************************************************************)
(* What the two guards are for: a thread that holds both sees the last     *)
(* observations, all of them, in order and in both windows, although       *)
(* add_observation changes the windows one after the other.                *)
(***************************************************************************)
ReadersSeeTheWindow ==
  \A t \in readers["spot"] \intersect readers["futures"] :
    spot_prices = LastCalls /\ futures_prices = LastCalls

(***************************************************************************)
(* A calculation never overwrites the ratio with that of an older window,  *)
(* however many threads calculate and add observations: whatever is stored *)
(* is the ratio of the windows as they are at that moment.                 *)
(***************************************************************************)
StoredRatioIsOfTheWindow ==
  [][\A t \in Threads : StoreRatio(t) =>
       cached_ratio' = Scaled(SpotPrices, FuturesPrices)]_mvhrVars

(***************************************************************************)
(* needs_recalculation keeps its promise although the ratio and its time   *)
(* are stored apart and by several threads: when it answers no, whatever   *)
(* the cached ratio leaves out was observed no longer than the interval    *)
(* ago.                                                                    *)
(***************************************************************************)
NotDueMeansRecent ==
  [][\A t \in Threads, i \in 1..Len(observed) :
       AnswerDue(t, FALSE) /\ i > ratio_of
         => clock - observed[i].at <= RecalcInterval]_mvhrVars

\* No deadlock: once callers stop calling, every call has returned.  The two
\* locks are always taken in the same order, so readers and writers, whose
\* waiting keeps new readers out, never wait for each other in a circle.
CallsReturn == []<>(\A t \in Threads : mpc[t] = "idle")
=============================================================================
