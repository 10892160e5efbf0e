---------------------------- MODULE HedgeEngine ----------------------------
(***************************************************************************)
(* The hedging half of HedgeEngine (src/hedging/engine.rs): threads that   *)
(* share the engine call get_hedge_recommendation and execute_hedge.  The  *)
(* delta strategy is DeltaHedge; the engine adds what it does around it:   *)
(* the MVHR ratio stored after the recommendation is computed, and the     *)
(* metrics written after the hedge is.                                     *)
(*                                                                         *)
(* The engine owns its strategies and hands out no reference to them, so   *)
(* nothing calls update_position, calculate_optimal_ratio or               *)
(* calculate_statistics once it is built: the position is that of the      *)
(* configuration, the MVHR strategy keeps its first cached ratio and the   *)
(* mean reversion strategy a standard deviation of 0, with which           *)
(* should_adjust_hedge always answers 1.0.                                 *)
(***************************************************************************)
EXTENDS DeltaHedge

\* HedgeConfig::validate.  It also asks for a positive max_position, which
\* nothing reads.
ASSUME ValidConfig == (\A r \in Ratios : r > 0) /\ ThresholdBps >= 0

VARIABLES
  enable_mvhr,         \* whether there is an MVHR strategy
  default_hedge_ratio, \* of the configuration
  epc,                 \* per caller, where it is in the engine's method
  hedges_executed,     \* metrics
  total_hedge_volume

config == <<enable_mvhr, default_hedge_ratio>>
metrics == <<hedges_executed, total_hedge_volume>>
engineVars == <<vars, config, epc, metrics>>

\* MVHRStrategy::new stores 10000, and (10000 / 10000.0) * 10000.0 is 10000.
CachedRatio == 10000

EngineInit ==
  /\ Init
  /\ enable_mvhr \in BOOLEAN
  /\ default_hedge_ratio = hedge_ratio
  /\ epc = [c \in Callers |-> "idle"]
  /\ hedges_executed = 0
  /\ total_hedge_volume = 0

(***************************************************************************)
(* get_hedge_recommendation: first the delta strategy's recommendation,    *)
(* then, if there is one, the MVHR ratio is stored for the next call.      *)
(***************************************************************************)
DeltaRecommendation(c) ==
  /\ epc[c] = "idle"
  /\ GetRecommendation(c)
  /\ epc' = [epc EXCEPT ![c] = IF pc'[c] = "holding" THEN "mvhr" ELSE "idle"]
  /\ UNCHANGED <<config, metrics>>

ApplyMvhrRatio(c) ==
  IF enable_mvhr THEN StoreHedgeRatio(CachedRatio)
  ELSE UNCHANGED <<atomics, witness, history>>

AdjustWithMvhr(c) ==
  /\ epc[c] = "mvhr"
  /\ ApplyMvhrRatio(c)
  /\ epc' = [epc EXCEPT ![c] = "answer"]
  /\ UNCHANGED <<locals, updates, config, metrics>>

(***************************************************************************)
(* execute_hedge: the strategy's fetch_add, then the metrics under their   *)
(* lock.                                                                   *)
(***************************************************************************)
ExecuteOnStrategy(c) ==
  /\ epc[c] = "answer"
  /\ ExecuteHedge(c)
  /\ epc' = [epc EXCEPT ![c] = "record"]
  /\ UNCHANGED <<config, metrics>>

\* Metrics::record_hedge_execution adds volume.abs().
RecordedVolumeNet(c) == Signed(rec[c].quantity, rec[c].side)
RecordedVolume(c) == rec[c].quantity

RecordHedgeExecution(c) ==
  /\ epc[c] = "record"
  /\ hedges_executed' = hedges_executed + 1
  /\ total_hedge_volume' = total_hedge_volume + RecordedVolume(c)
  /\ epc' = [epc EXCEPT ![c] = "idle"]
  /\ UNCHANGED <<vars, config>>

\* The caller drops the recommendation.
IgnoreRecommendation(c) ==
  /\ epc[c] = "answer"
  /\ Ignore(c)
  /\ epc' = [epc EXCEPT ![c] = "idle"]
  /\ UNCHANGED <<config, metrics>>

CallerStep(c) ==
  DeltaRecommendation(c) \/ AdjustWithMvhr(c) \/ RecordHedgeExecution(c)

EngineNext ==
  \E c \in Callers : CallerStep(c) \/ ExecuteOnStrategy(c) \/ IgnoreRecommendation(c)

EngineSpec == EngineInit /\ [][EngineNext]_engineVars

\* As in DeltaHedge: callers keep asking, and keep executing now and then.
EngineFairSpec ==
  /\ EngineSpec
  /\ \A c \in Callers : WF_engineVars(CallerStep(c))
                        /\ SF_engineVars(ExecuteOnStrategy(c))

-----------------------------------------------------------------------------
Recording == {c \in Callers : epc[c] = "record"}
\* The hundredths that are executed and not yet recorded, one by one.
Amount(c) == {c} \X (1..rec[c].quantity)
Unrecorded == UNION {Amount(c) : c \in Recording}

\* Type correctness, and where the engine's method and the strategy's are
\* with respect to each other.
EngineTypeOK ==
  /\ hedge_ratio \in Ratios \union {CachedRatio}
  /\ default_hedge_ratio \in Ratios
  /\ enable_mvhr \in BOOLEAN
  /\ epc \in [Callers -> {"idle", "mvhr", "answer", "record"}]
  /\ \A c \in Callers : (pc[c] = "holding") = (epc[c] \in {"mvhr", "answer"})
  /\ \A c \in Callers : epc[c] = "record" => pc[c] = "idle"
  /\ hedges_executed \in Nat
  /\ total_hedge_volume \in Nat

(***************************************************************************)
(* The metrics catch up with the strategy: every execution is counted once *)
(* its caller has left execute_hedge, and the volume reported, with what   *)
(* is still to be reported, covers the hedge that is on.                   *)
(***************************************************************************)
MetricsCoverHedge ==
  /\ hedges_executed + Cardinality(Recording) = executions
  /\ Abs(hedge_position) <= total_hedge_volume + Cardinality(Unrecorded)

(***************************************************************************)
(* The damage two callers can do who execute recommendations computed from *)
(* the same hedge: without MVHR position and ratio are fixed, and the      *)
(* hedge is off its target by no more than the target itself, however the  *)
(* callers interleave.                                                     *)
(***************************************************************************)
OverhedgeBounded ==
  ~enable_mvhr => Abs(TrueDelta) <= Abs(TrueDelta + hedge_position)

(***************************************************************************)
(* The position never changes, so as long as a single caller has been      *)
(* given recommendations, it trades at most three times in the life of the *)
(* engine: to the target of the configured ratio, to the target of the     *)
(* MVHR ratio that replaces it, and once more for a hundredth lost in a    *)
(* conversion on the way to the ratio that stays.                          *)
(***************************************************************************)
AtMostThreeTrades ==
  (\E c \in Callers : \A d \in Callers \ {c} : rec[d] = NoRec) => executions <= 3

(***************************************************************************)
(* "Default hedge ratio (e.g., 1.125)": the hedge settles at the position  *)
(* times the configured ratio.                                             *)
(***************************************************************************)
DefaultDelta == DeltaOf(position, default_hedge_ratio, hedge_position)
SettlesAtDefaultRatio == <>[](~NeedsHedge(DefaultDelta, hedge_position))
=============================================================================
