------------------------ MODULE MeanReversionHedge -------------------------
(***************************************************************************)
(* MeanReversionHedge (src/hedging/mean_reversion.rs): a price window      *)
(* behind an RwLock; calculate_statistics stores mean and deviation of the *)
(* window in two atomics, and calculate_z_score loads the two.             *)
(*                                                                         *)
(* A window is known by the number of prices added so far, and so are the  *)
(* mean and the deviation that were calculated from it; 0 stands for what  *)
(* new() stores.  add_price is one step: nothing it does can be seen       *)
(* before it lets go of the lock.                                          *)
(***************************************************************************)
EXTENDS Integers, Sequences

CONSTANTS
  Calculators,     \* threads that call calculate_statistics
  Readers,         \* threads that ask for a z-score or for the statistics
  MinPrices,       \* prices that calculate_statistics asks for
  WindowLength,    \* window_size
  FlatWindows,     \* the windows whose deviation, in ten-thousandths, is 0
  ZScores,         \* the z-scores of the others, in tenths
  ZThreshold,      \* z_threshold, in tenths
  HedgeStrength,   \* hedge_strength, in per cent
  MaxPrices        \* bound on the prices added

ASSUME WindowAssumption2 == /\ MinPrices \in Nat \ {0} /\ WindowLength \in Nat
                            /\ MaxPrices \in Nat
ASSUME ScoresAssumption == ZScores \subseteq Int /\ ZThreshold \in Nat
ASSUME StrengthAssumption == HedgeStrength \in 0..100

VARIABLES
  added,           \* prices added so far
  guards,          \* who holds a read guard on price_history
  mean_price, std_dev,
  rpc,             \* per thread, where it is
  window,          \* per calculator, the window it used
  loaded,          \* per reader, the mean and the deviation it loaded
  score,           \* per reader, the z-score of its last should_adjust_hedge
  factor,          \* and the factor it got, in hundredths of a per cent
  means            \* history: the values of mean_price so far

mrVars == <<added, guards, mean_price, std_dev, rpc, window, loaded, score, factor, means>>

HistoryLength == IF added > WindowLength THEN WindowLength ELSE added

MrInit ==
  /\ added = 0
  /\ guards = {}
  /\ mean_price = 0
  /\ std_dev = 0
  /\ rpc = [t \in Calculators \union Readers |-> "idle"]
  /\ window = [c \in Calculators |-> 0]
  /\ loaded = [r \in Readers |-> [mean |-> 0, dev |-> 0]]
  /\ score = [r \in Readers |-> 0]
  /\ factor = [r \in Readers |-> 10000]
  /\ means = <<0>>

Step(t, from, to) == rpc[t] = from /\ rpc' = [rpc EXCEPT ![t] = to]

\* The write guard keeps calculations out.
AddPrice ==
  /\ guards = {}
  /\ added < MaxPrices
  /\ added' = added + 1
  /\ UNCHANGED <<guards, mean_price, std_dev, rpc, window, loaded, score, factor, means>>

(***************************************************************************)
(* calculate_statistics: the two stores are made under the read guard.     *)
(***************************************************************************)
GuardedShort(c) == UNCHANGED guards
Guarded(c) == guards' = guards \union {c}

BeginCalculation(c) ==
  /\ Step(c, "idle", "store_mean")
  /\ HistoryLength >= MinPrices
  /\ window' = [window EXCEPT ![c] = added]
  /\ Guarded(c)
  /\ UNCHANGED <<added, mean_price, std_dev, loaded, score, factor, means>>

StoreMean(c) ==
  /\ Step(c, "store_mean", "store_dev")
  /\ mean_price' = window[c]
  /\ means' = IF mean_price = window[c] THEN means ELSE Append(means, window[c])
  /\ UNCHANGED <<added, guards, std_dev, window, loaded, score, factor>>

StoreDeviation(c) ==
  /\ Step(c, "store_dev", "idle")
  /\ std_dev' = window[c]
  /\ guards' = guards \ {c}
  /\ window' = [window EXCEPT ![c] = 0]
  /\ UNCHANGED <<added, mean_price, loaded, score, factor, means>>

(***************************************************************************)
(* calculate_z_score and get_statistics load the mean, then the deviation. *)
(***************************************************************************)
LoadOrderSwapped == <<"dev", "mean">>
LoadOrder == <<"mean", "dev">>
Load(r, what) ==
  loaded' = [loaded EXCEPT ![r] = IF what = "mean" THEN [mean |-> mean_price, dev |-> @.dev]
                                  ELSE [mean |-> @.mean, dev |-> std_dev]]

LoadFirst(r) ==
  /\ Step(r, "idle", "load_second")
  /\ Load(r, LoadOrder[1])
  /\ UNCHANGED <<added, guards, mean_price, std_dev, window, score, factor, means>>

LoadSecond(r) ==
  /\ Step(r, "load_second", "loaded")
  /\ Load(r, LoadOrder[2])
  /\ UNCHANGED <<added, guards, mean_price, std_dev, window, score, factor, means>>

(***************************************************************************)
(* should_adjust_hedge: how much of the hedge to keep at a z-score; and    *)
(* without the abs() in the match.                                         *)
(***************************************************************************)
Size(z) == IF z >= 0 THEN z ELSE -z
Reduction(z) == IF z > 30 THEN 30 ELSE IF z > 25 THEN 50 ELSE IF z > 20 THEN 70 ELSE 100
AdjustmentSigned(z) == IF Size(z) > ZThreshold THEN Reduction(z) * HedgeStrength ELSE 10000
Adjustment(z) == IF Size(z) > ZThreshold THEN Reduction(Size(z)) * HedgeStrength ELSE 10000

\* A deviation of 0 makes the score 0.
Scores(dev) == IF dev = 0 \/ dev \in FlatWindows THEN {0} ELSE ZScores

AdjustHedge(r) ==
  /\ Step(r, "loaded", "idle")
  /\ \E z \in Scores(loaded[r].dev) :
       /\ score' = [score EXCEPT ![r] = z]
       /\ factor' = [factor EXCEPT ![r] = Adjustment(z)]
  /\ loaded' = [loaded EXCEPT ![r] = [mean |-> 0, dev |-> 0]]
  /\ UNCHANGED <<added, guards, mean_price, std_dev, window, means>>

MrNext ==
  \/ AddPrice
  \/ \E c \in Calculators : BeginCalculation(c) \/ StoreMean(c) \/ StoreDeviation(c)
  \/ \E r \in Readers : LoadFirst(r) \/ LoadSecond(r) \/ AdjustHedge(r)

MrSpec == MrInit /\ [][MrNext]_mrVars

-----------------------------------------------------------------------------
\* The mean that was in place before m.
Preceding(m) ==
  LET i == CHOOSE i \in 1..Len(means) : means[i] = m
  IN IF i = 1 THEN m ELSE means[i - 1]

(***************************************************************************)
(* A score may mix two calculations, but not just any two: the deviation   *)
(* is at most one calculation older than the mean, however many threads    *)
(* calculate at the same time.  (It may be any number younger: in the end  *)
(* a mean of 0 and a real deviation make a first score far too large.)     *)
(***************************************************************************)
DeviationNotOlder ==
  \A r \in Readers : rpc[r] = "loaded" => loaded[r].dev >= Preceding(loaded[r].mean)

(***************************************************************************)
(* The hedge is reduced as much above the mean as below it, and no price   *)
(* that is nearer to the mean would have reduced it more.                  *)
(***************************************************************************)
ReducedBothWays ==
  \A r \in Readers, z \in ZScores : Size(z) <= Size(score[r]) => factor[r] <= Adjustment(z)
=============================================================================
