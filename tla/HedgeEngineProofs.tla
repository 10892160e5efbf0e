------------------------- MODULE HedgeEngineProofs -------------------------
(***************************************************************************)
(* Proofs about DeltaHedge and, in the second part, about HedgeEngine, for *)
(* every set of callers, positions and ratios, every threshold and every   *)
(* set of amounts a conversion loses.                                      *)
(***************************************************************************)
EXTENDS HedgeEngine, FiniteSetTheorems, TLAPS


(***************************************************************************)
(* Arithmetic.                                                             *)
(***************************************************************************)
LEMMA AbsNat == ASSUME NEW n \in Int PROVE Abs(n) \in Nat
  BY DEF Abs

\* Truncating division gives an integer.
LEMMA TruncDivInt ==
  ASSUME NEW x \in Int, NEW y \in Nat \ {0}
  PROVE  TruncDiv(x, y) \in Int
<1>1. CASE x >= 0
  <2>1. x \in Nat BY <1>1
  <2> QED BY <1>1, <2>1 DEF TruncDiv
<1>2. CASE ~(x >= 0)
  <2>1. -x \in Nat BY <1>2
  <2> QED BY <1>2, <2>1 DEF TruncDiv
<1> QED BY <1>1, <1>2

\* The delta of the code is an integer, and the hedge enters it linearly.
LEMMA DeltaOfInt ==
  ASSUME NEW p \in Int, NEW r \in Int, NEW h \in Int
  PROVE  /\ DeltaOf(p, r, h) \in Int
         /\ DeltaOf(p, r, h) = DeltaOf(p, r, 0) - h
<1>1. (-p) * r \in Int
  OBVIOUS
<1>2. TruncDiv((-p) * r, RatioScale) \in Int
  BY <1>1, TruncDivInt DEF RatioScale
<1> QED BY <1>2 DEF DeltaOf

\* The product of the sizes, with the sign that the code's product has.
LEMMA ProductSign ==
  ASSUME NEW p \in Int, NEW r \in Int
  PROVE  /\ Abs(p) * Abs(r) \in Nat
         /\ (p < 0) = (r > 0) => (-p) * r = Abs(p) * Abs(r)
         /\ (p < 0) # (r > 0) => (-p) * r = -(Abs(p) * Abs(r))
<1>1. Abs(p) * Abs(r) \in Nat
  BY AbsNat
<1>2. CASE p < 0 /\ r > 0
  BY <1>1, <1>2 DEF Abs
<1>3. CASE p < 0 /\ ~(r > 0)
  BY <1>1, <1>3 DEF Abs
<1>4. CASE ~(p < 0) /\ r > 0
  BY <1>1, <1>4 DEF Abs
<1>5. CASE ~(p < 0) /\ ~(r > 0)
  BY <1>1, <1>5 DEF Abs
<1> QED BY <1>2, <1>3, <1>4, <1>5

\* Truncation is symmetric, so sign and size can be computed apart.
LEMMA TruncDivSign ==
  ASSUME NEW n \in Nat, NEW y \in Nat \ {0}
  PROVE  /\ TruncDiv(n, y) = n \div y
         /\ TruncDiv(-n, y) = -(n \div y)
<1>1. TruncDiv(n, y) = n \div y
  BY DEF TruncDiv
<1>2. CASE n = 0
  <2>1. n \div y = 0 BY <1>2
  <2> QED BY <1>1, <1>2, <2>1 DEF TruncDiv
<1>3. CASE n > 0
  BY <1>1, <1>3 DEF TruncDiv
<1> QED BY <1>2, <1>3

\* calculate_hedge_delta computes what the delta should be, when its three
\* loads agree with the state.
LEMMA TrueDeltaIs ==
  ASSUME position \in Int, hedge_ratio \in Int, hedge_position \in Int
  PROVE  TrueDelta = DeltaOf(position, hedge_ratio, hedge_position)
<1> DEFINE n == Abs(position) * Abs(hedge_ratio)
<1>1. n \in Nat
  BY ProductSign
<1>2. CASE (position < 0) = (hedge_ratio > 0)
  <2>1. (-position) * hedge_ratio = n
    BY <1>2, ProductSign
  <2>2. TruncDiv(n, RatioScale) = n \div RatioScale
    BY <1>1, TruncDivSign DEF RatioScale
  <2> QED BY <1>2, <2>1, <2>2 DEF TrueDelta, DeltaOf
<1>3. CASE (position < 0) # (hedge_ratio > 0)
  <2>1. (-position) * hedge_ratio = -n
    BY <1>3, ProductSign
  <2>2. TruncDiv(-n, RatioScale) = -(n \div RatioScale)
    BY <1>1, TruncDivSign DEF RatioScale
  <2> QED BY <1>3, <2>1, <2>2 DEF TrueDelta, DeltaOf
<1> QED BY <1>2, <1>3

\* A hedge is recommended only for a delta that is not zero.
LEMMA NeedsHedgeNonzero ==
  ASSUME NEW d \in Int, NEW h \in Int, NeedsHedge(d, h)
  PROVE  d # 0
<1> SUFFICES ASSUME d = 0 PROVE FALSE
  OBVIOUS
<1>1. h # 0
  BY DEF NeedsHedge
<1>2. Abs(h) \in Nat \ {0}
  BY <1>1 DEF Abs
<1>3. d * BpsScale = 0
  BY DEF BpsScale
<1>4. 0 \div Abs(h) = 0
  BY <1>2
<1>5. TruncDiv(d * BpsScale, Abs(h)) = 0
  BY <1>2, <1>3, <1>4, TruncDivSign
<1> QED BY <1>1, <1>5, ThresholdAssumption DEF NeedsHedge, Abs

\* A conversion loses at most one hundredth, and never changes the sign.
LEMMA CentsNear ==
  ASSUME NEW q \in Nat, q > 0
  PROVE  /\ Cents(q) \in Nat
         /\ Cents(q) > 0
         /\ Cents(q) = q \/ (Cents(q) = q - 1 /\ q > 1)
  BY LossyAssumption DEF Cents

-----------------------------------------------------------------------------
(***************************************************************************)
(* The invariant behind the type invariant: what the callers hold fits the *)
(* delta they computed, and that was not zero.                             *)
(***************************************************************************)
RecMatches ==
  \A c \in Callers :
    /\ pc[c] = "urgency" => delta[c] # 0
    /\ pc[c] = "holding" => /\ delta[c] # 0
                            /\ rec[c].quantity = Abs(delta[c])
                            /\ rec[c].side = SideOf(delta[c])

\* The ranges the proofs need.  Of the position and the ratio they only use
\* that these are integers, so they also cover a ratio that the engine stores.
DTypes ==
  /\ position \in Int /\ hedge_ratio \in Int /\ hedge_position \in Int
  /\ pc \in [Callers -> {"idle", "ratio", "hedge", "urgency", "holding"}]
  /\ spos \in [Callers -> Int] /\ sratio \in [Callers -> Int]
  /\ delta \in [Callers -> Int]
  /\ rec \in [Callers -> [quantity : Nat, side : {"Bid", "Ask"},
                          urgency : {"High", "Normal"}]]
  /\ updates \in 0..MaxUpdates /\ executions \in 0..MaxExecutions
  /\ truths \in [Callers -> SUBSET Int]
  /\ torn \in [Callers -> {"no", "moved", "yes"}]
  /\ ordered \in Int /\ trades \in 0..executions
  /\ \A c \in Callers : pc[c] = "holding" => rec[c].quantity > 0

DInv == DTypes /\ RecMatches

LEMMA InitDInv == Init => DInv
<1> SUFFICES ASSUME Init PROVE DInv
  OBVIOUS
<1>1. NoRec \in [quantity : Nat, side : {"Bid", "Ask"}, urgency : {"High", "Normal"}]
  BY DEF NoRec
<1>2. updates \in 0..MaxUpdates /\ executions \in 0..MaxExecutions
  BY BoundsAssumption DEF Init
<1>3. position \in Int /\ hedge_ratio \in Int
  BY AmountsAssumption DEF Init
<1> QED BY <1>1, <1>2, <1>3 DEF Init, DInv, DTypes, RecMatches

\* The atomics hold integers, and so does the delta that is true.
LEMMA AtomicsInt ==
  ASSUME DTypes
  PROVE  /\ position \in Int
         /\ hedge_ratio \in Int
         /\ hedge_position \in Int
         /\ TrueDelta \in Int
<1>1. position \in Int /\ hedge_ratio \in Int /\ hedge_position \in Int
  BY DEF DTypes
<1> QED BY <1>1, TrueDeltaIs, DeltaOfInt

LEMMA TrueDeltaNextInt ==
  ASSUME position' \in Int, hedge_ratio' \in Int, hedge_position' \in Int
  PROVE  /\ TrueDelta' \in Int
         /\ TrueDelta' = DeltaOf(position', hedge_ratio', hedge_position')
<1> DEFINE n == Abs(position') * Abs(hedge_ratio')
<1>1. n \in Nat
  BY ProductSign
<1>2. CASE (position' < 0) = (hedge_ratio' > 0)
  <2>1. (-position') * hedge_ratio' = n
    BY <1>2, ProductSign
  <2>2. TruncDiv(n, RatioScale) = n \div RatioScale
    BY <1>1, TruncDivSign DEF RatioScale
  <2> QED BY <1>2, <2>1, <2>2, DeltaOfInt DEF TrueDelta, DeltaOf
<1>3. CASE (position' < 0) # (hedge_ratio' > 0)
  <2>1. (-position') * hedge_ratio' = -n
    BY <1>3, ProductSign
  <2>2. TruncDiv(-n, RatioScale) = -(n \div RatioScale)
    BY <1>1, TruncDivSign DEF RatioScale
  <2> QED BY <1>3, <2>1, <2>2, DeltaOfInt DEF TrueDelta, DeltaOf
<1> QED BY <1>2, <1>3

\* Recording a true delta keeps the history typed.
LEMMA ObserveType ==
  ASSUME truths \in [Callers -> SUBSET Int], Observe, TrueDelta' \in Int
  PROVE  truths' \in [Callers -> SUBSET Int]
  BY DEF Observe

LEMMA StepUpdatePosition ==
  ASSUME DInv, NEW p \in Positions, UpdatePosition(p)
  PROVE  DInv'
<1> USE DEF DInv, DTypes, UpdatePosition, locals
<1>1. position' \in Int /\ hedge_ratio' \in Int /\ hedge_position' \in Int
  BY AmountsAssumption
<1>2. truths' \in [Callers -> SUBSET Int]
  BY <1>1, TrueDeltaNextInt, ObserveType
<1>3. updates' \in 0..MaxUpdates
  BY BoundsAssumption
<1>4. trades' \in 0..executions'
  BY BoundsAssumption
<1>5. torn' \in [Callers -> {"no", "moved", "yes"}]
  OBVIOUS
<1> QED BY <1>1, <1>2, <1>3, <1>4, <1>5 DEF RecMatches

\* The store of a ratio, by update_hedge_ratio or by the engine.
LEMMA StoreDInv ==
  ASSUME DInv, NEW r \in Int, StoreHedgeRatio(r), UNCHANGED locals,
         updates' \in 0..MaxUpdates
  PROVE  DInv'
<1> USE DEF DInv, DTypes, StoreHedgeRatio, locals
<1>1. position' \in Int /\ hedge_ratio' \in Int /\ hedge_position' \in Int
  OBVIOUS
<1>2. truths' \in [Callers -> SUBSET Int]
  BY <1>1, TrueDeltaNextInt, ObserveType
<1>3. trades' \in 0..executions'
  BY BoundsAssumption
<1>4. torn' \in [Callers -> {"no", "moved", "yes"}]
  OBVIOUS
<1> QED BY <1>2, <1>3, <1>4 DEF RecMatches

LEMMA StepUpdateHedgeRatio ==
  ASSUME DInv, NEW r \in Ratios, UpdateHedgeRatio(r)
  PROVE  DInv'
<1>1. updates' \in 0..MaxUpdates
  BY BoundsAssumption DEF UpdateHedgeRatio, DInv, DTypes
<1>2. r \in Int
  BY AmountsAssumption
<1> QED BY <1>1, <1>2, StoreDInv DEF UpdateHedgeRatio

LEMMA StepLoadPosition ==
  ASSUME DInv, NEW c \in Callers, LoadPosition(c)
  PROVE  DInv'
<1>1. position \in Int /\ TrueDelta \in Int
  BY AtomicsInt DEF DInv
<1>2. truths' \in [Callers -> SUBSET Int]
  BY <1>1 DEF DInv, DTypes, LoadPosition
<1>3. spos' \in [Callers -> Int]
  BY <1>1 DEF DInv, DTypes, LoadPosition
<1> QED BY <1>2, <1>3 DEF DInv, DTypes, LoadPosition, RecMatches, atomics, history, witness

LEMMA StepLoadRatio ==
  ASSUME DInv, NEW c \in Callers, LoadRatio(c)
  PROVE  DInv'
<1>1. hedge_ratio \in Int
  BY AtomicsInt DEF DInv
<1>2. sratio' \in [Callers -> Int]
  BY <1>1 DEF DInv, DTypes, LoadRatio
<1> QED BY <1>2 DEF DInv, DTypes, LoadRatio, RecMatches, atomics, history, witness

\* The delta a caller computes is an integer.
LEMMA LoadedDeltaInt ==
  ASSUME DInv, NEW c \in Callers
  PROVE  LoadedDelta(c) \in Int
<1>1. spos[c] \in Int /\ sratio[c] \in Int /\ hedge_position \in Int
  BY DEF DInv, DTypes
<1> QED BY <1>1, DeltaOfInt DEF LoadedDelta

LEMMA StepRecommendNothing ==
  ASSUME DInv, NEW c \in Callers, RecommendNothing(c)
  PROVE  DInv'
<1>1. LoadedDelta(c) \in Int
  BY LoadedDeltaInt
<1>2. delta' \in [Callers -> Int]
  BY <1>1 DEF DInv, DTypes, RecommendNothing
<1>3. pc' = [pc EXCEPT ![c] = "idle"] /\ rec' = rec
      /\ delta' = [delta EXCEPT ![c] = LoadedDelta(c)]
  BY DEF RecommendNothing
<1>4. RecMatches'
  BY <1>3 DEF DInv, DTypes, RecMatches
<1> QED BY <1>2, <1>4 DEF DInv, DTypes, RecommendNothing, atomics, history, witness

LEMMA StepRecommendHedge ==
  ASSUME DInv, NEW c \in Callers, RecommendHedge(c)
  PROVE  DInv'
<1>1. LoadedDelta(c) \in Int
  BY LoadedDeltaInt
<1>2. LoadedDelta(c) # 0
  <2>1. hedge_position \in Int
    BY DEF DInv, DTypes
  <2> QED BY <1>1, <2>1, NeedsHedgeNonzero DEF RecommendHedge
<1>3. delta' \in [Callers -> Int]
  BY <1>1 DEF DInv, DTypes, RecommendHedge
<1>4. pc' = [pc EXCEPT ![c] = "urgency"] /\ rec' = rec
      /\ delta' = [delta EXCEPT ![c] = LoadedDelta(c)]
  BY DEF RecommendHedge
<1>5. RecMatches'
  BY <1>2, <1>4 DEF DInv, DTypes, RecMatches
<1> QED BY <1>3, <1>4, <1>5 DEF DInv, DTypes, RecommendHedge, atomics, history, witness

LEMMA StepRecommend ==
  ASSUME DInv, NEW c \in Callers, Recommend(c)
  PROVE  DInv'
<1>1. PICK u \in Urgencies(delta[c], position) :
        rec' = [rec EXCEPT ![c] = [quantity |-> Quantity(delta[c]),
                                   side |-> SideOf(delta[c]), urgency |-> u]]
  BY DEF Recommend
<1>2. delta[c] \in Int /\ delta[c] # 0
  BY DEF DInv, DTypes, RecMatches, Recommend
<1>3. u \in {"High", "Normal"}
  BY DEF Urgencies
<1>4. Quantity(delta[c]) \in Nat /\ Quantity(delta[c]) > 0
      /\ Quantity(delta[c]) = Abs(delta[c])
  BY <1>2 DEF Quantity, Abs
<1>5. SideOf(delta[c]) \in {"Bid", "Ask"}
  BY DEF SideOf
<1> DEFINE new == [quantity |-> Quantity(delta[c]), side |-> SideOf(delta[c]), urgency |-> u]
<1>6. new \in [quantity : Nat, side : {"Bid", "Ask"}, urgency : {"High", "Normal"}]
  BY <1>3, <1>4, <1>5
<1>7. rec' = [rec EXCEPT ![c] = new]
  BY <1>1
<1>8. new.quantity = Abs(delta[c]) /\ new.side = SideOf(delta[c]) /\ new.quantity > 0
  BY <1>4
<1> HIDE DEF new
<1>9. rec' \in [Callers -> [quantity : Nat, side : {"Bid", "Ask"},
                            urgency : {"High", "Normal"}]]
  BY <1>6, <1>7 DEF DInv, DTypes
<1>10. pc' = [pc EXCEPT ![c] = "holding"] /\ delta' = delta
  BY DEF Recommend
<1>11. rec'[c] = new /\ \A d \in Callers : d # c => rec'[d] = rec[d]
  BY <1>7 DEF DInv, DTypes
<1>12. \A d \in Callers : pc'[d] = "holding" => rec'[d].quantity > 0
  BY <1>8, <1>10, <1>11 DEF DInv, DTypes
<1>13. RecMatches'
  BY <1>2, <1>8, <1>10, <1>11 DEF DInv, DTypes, RecMatches
<1> QED BY <1>9, <1>10, <1>12, <1>13 DEF DInv, DTypes, Recommend, atomics, history, witness

\* The amount an execution adds, and how it relates to the delta.
Change(c) == Signed(Cents(rec[c].quantity), rec[c].side)

LEMMA ChangeNear ==
  ASSUME DInv, NEW c \in Callers, pc[c] = "holding"
  PROVE  /\ Change(c) \in Int
         /\ delta[c] > 0 => Change(c) > 0 /\ (Change(c) = delta[c]
                                              \/ Change(c) = delta[c] - 1)
         /\ delta[c] < 0 => Change(c) < 0 /\ (Change(c) = delta[c]
                                              \/ Change(c) = delta[c] + 1)
         /\ delta[c] # 0 /\ delta[c] \in Int
<1>1. delta[c] \in Int /\ delta[c] # 0
      /\ rec[c].quantity = Abs(delta[c]) /\ rec[c].side = SideOf(delta[c])
  BY DEF DInv, DTypes, RecMatches
<1>2. Abs(delta[c]) \in Nat /\ Abs(delta[c]) > 0
  BY <1>1 DEF Abs
<1>3. /\ Cents(Abs(delta[c])) \in Nat /\ Cents(Abs(delta[c])) > 0
      /\ Cents(Abs(delta[c])) = Abs(delta[c]) \/ Cents(Abs(delta[c])) = Abs(delta[c]) - 1
  BY <1>2, CentsNear
<1> QED BY <1>1, <1>3 DEF Change, Signed, SideOf, Abs

LEMMA StepExecuteHedge ==
  ASSUME DInv, NEW c \in Callers, ExecuteHedge(c)
  PROVE  DInv'
<1>1. Change(c) \in Int
  BY ChangeNear DEF ExecuteHedge
<1>2. hedge_position' = hedge_position + Change(c)
  BY DEF ExecuteHedge, FetchAdd, Change
<1>3. position' \in Int /\ hedge_ratio' \in Int /\ hedge_position' \in Int
  BY <1>1, <1>2, AtomicsInt DEF ExecuteHedge, DInv
<1>4. truths' \in [Callers -> SUBSET Int]
  BY <1>3, TrueDeltaNextInt, ObserveType DEF DInv, DTypes, ExecuteHedge
<1>5. executions' \in 0..MaxExecutions /\ trades' \in 0..executions'
  BY BoundsAssumption DEF DInv, DTypes, ExecuteHedge
<1>6. rec[c].quantity \in Nat /\ rec[c].side \in {"Bid", "Ask"}
  BY DEF DInv, DTypes
<1>7. ordered' \in Int
  BY <1>6 DEF DInv, DTypes, ExecuteHedge, Signed
<1>8. pc' = [pc EXCEPT ![c] = "idle"] /\ rec' = rec /\ delta' = delta
  BY DEF ExecuteHedge
<1>9. RecMatches'
  BY <1>8 DEF DInv, DTypes, RecMatches
<1>10. torn' \in [Callers -> {"no", "moved", "yes"}]
  BY DEF DInv, DTypes, ExecuteHedge
<1>11. /\ pc' \in [Callers -> {"idle", "ratio", "hedge", "urgency", "holding"}]
       /\ \A d \in Callers : pc'[d] = "holding" => rec'[d].quantity > 0
  BY <1>8 DEF DInv, DTypes
<1>12. /\ UNCHANGED <<position, hedge_ratio, spos, sratio, rec, delta, updates>>
  BY DEF ExecuteHedge
<1>13. DTypes'
  BY <1>3, <1>4, <1>5, <1>7, <1>10, <1>11, <1>12 DEF DInv, DTypes
<1> QED BY <1>9, <1>13 DEF DInv

LEMMA StepIgnore ==
  ASSUME DInv, NEW c \in Callers, Ignore(c)
  PROVE  DInv'
  BY DEF DInv, DTypes, RecMatches, Ignore, atomics, history, witness

LEMMA StutterDInv ==
  ASSUME DInv, UNCHANGED vars
  PROVE  DInv'
  BY DEF DInv, DTypes, RecMatches, vars, atomics, locals, history, witness

LEMMA NextDInv ==
  ASSUME DInv, [Next]_vars
  PROVE  DInv'
<1>1. ASSUME NEW p \in Positions, UpdatePosition(p) PROVE DInv'
  BY <1>1, StepUpdatePosition
<1>2. ASSUME NEW r \in Ratios, UpdateHedgeRatio(r) PROVE DInv'
  BY <1>2, StepUpdateHedgeRatio
<1>3. ASSUME NEW c \in Callers, GetRecommendation(c) PROVE DInv'
  BY <1>3, StepLoadPosition, StepLoadRatio, StepRecommendNothing,
     StepRecommendHedge, StepRecommend DEF GetRecommendation
<1>4. ASSUME NEW c \in Callers, ExecuteHedge(c) PROVE DInv'
  BY <1>4, StepExecuteHedge
<1>5. ASSUME NEW c \in Callers, Ignore(c) PROVE DInv'
  BY <1>5, StepIgnore
<1>6. CASE UNCHANGED vars
  BY <1>6, StutterDInv
<1> QED BY <1>1, <1>2, <1>3, <1>4, <1>5, <1>6 DEF Next

LEMMA DInvAlways == Spec => []DInv
<1>1. DInv /\ [Next]_vars => DInv'
  BY NextDInv
<1> QED BY <1>1, InitDInv, PTL DEF Spec

(***************************************************************************)
(* Type correctness: no caller ever recommends a trade of nothing, and the *)
(* atomics keep their ranges.                                              *)
(***************************************************************************)
THEOREM DeltaTypeCorrect == Spec => []TypeOK
<1> DEFINE Stored == position \in Positions /\ hedge_ratio \in Ratios
<1>1. Init => Stored
  BY DEF Init
<1>2. Stored /\ [Next]_vars => Stored'
  BY DEF Next, UpdatePosition, UpdateHedgeRatio, StoreHedgeRatio, GetRecommendation,
         LoadPosition, LoadRatio, RecommendNothing, RecommendHedge, Recommend, ExecuteHedge,
         Ignore, vars, atomics
<1>3. DInv /\ Stored => TypeOK
  BY DEF DInv, DTypes, TypeOK
<1> QED BY <1>1, <1>2, <1>3, DInvAlways, PTL DEF Spec

-----------------------------------------------------------------------------
(***************************************************************************)
(* The books agree up to one hundredth for each execution.                 *)
(***************************************************************************)
LEMMA NextHedgeFollowsOrders ==
  ASSUME DInv, HedgeFollowsOrders, [Next]_vars
  PROVE  HedgeFollowsOrders'
<1> USE DEF HedgeFollowsOrders
<1>1. ASSUME NEW p \in Positions, UpdatePosition(p) PROVE HedgeFollowsOrders'
  BY <1>1 DEF UpdatePosition
<1>2. ASSUME NEW r \in Ratios, UpdateHedgeRatio(r) PROVE HedgeFollowsOrders'
  BY <1>2 DEF UpdateHedgeRatio, StoreHedgeRatio
<1>3. ASSUME NEW c \in Callers, GetRecommendation(c) PROVE HedgeFollowsOrders'
  BY <1>3 DEF GetRecommendation, LoadPosition, LoadRatio, RecommendNothing,
              RecommendHedge, Recommend, atomics, history, witness
<1>4. ASSUME NEW c \in Callers, ExecuteHedge(c) PROVE HedgeFollowsOrders'
  <2>1. pc[c] = "holding"
    BY <1>4 DEF ExecuteHedge
  <2>2. /\ rec[c].quantity = Abs(delta[c]) /\ rec[c].side = SideOf(delta[c])
        /\ delta[c] \in Int /\ delta[c] # 0
    BY <2>1 DEF DInv, DTypes, RecMatches
  <2>3. Signed(rec[c].quantity, rec[c].side) = delta[c]
    BY <2>2 DEF Signed, SideOf, Abs
  <2>4. /\ Change(c) \in Int
        /\ Change(c) = delta[c] \/ Change(c) = delta[c] - 1 \/ Change(c) = delta[c] + 1
    BY <2>1, <2>2, ChangeNear
  <2>5. /\ hedge_position' = hedge_position + Change(c)
        /\ ordered' = ordered + delta[c]
        /\ executions' = executions + 1
    BY <1>4, <2>3 DEF ExecuteHedge, FetchAdd, Change
  <2>6. hedge_position \in Int /\ ordered \in Int /\ executions \in Int
    BY DEF DInv, DTypes
  <2> QED BY <2>2, <2>4, <2>5, <2>6 DEF Abs
<1>5. ASSUME NEW c \in Callers, Ignore(c) PROVE HedgeFollowsOrders'
  BY <1>5 DEF Ignore, atomics, history, witness
<1>6. CASE UNCHANGED vars
  BY <1>6 DEF vars, atomics, history, witness
<1> QED BY <1>1, <1>2, <1>3, <1>4, <1>5, <1>6 DEF Next

\* HedgeFollowsOrders: execute_hedge moves the hedge by what was recommended, up
\* to one hundredth per execution that the conversion to f64 and back may lose.
THEOREM HedgeFollowsOrdersHolds == Spec => []HedgeFollowsOrders
<1>1. Init => HedgeFollowsOrders
  BY DEF Init, HedgeFollowsOrders, Abs
<1>2. DInv /\ HedgeFollowsOrders /\ [Next]_vars => HedgeFollowsOrders'
  BY NextHedgeFollowsOrders
<1> QED BY <1>1, <1>2, DInvAlways, PTL DEF Spec

(***************************************************************************)
(* Executing a recommendation that is still right hits the target.         *)
(***************************************************************************)
\* An execution moves the true delta by what it adds to the hedge.
LEMMA ExecuteMovesDelta ==
  ASSUME DInv, NEW c \in Callers, ExecuteHedge(c)
  PROVE  /\ TrueDelta' = TrueDelta - Change(c)
         /\ TrueDelta \in Int /\ Change(c) \in Int
<1>1. Change(c) \in Int
  BY ChangeNear DEF ExecuteHedge
<1>2. position' = position /\ hedge_ratio' = hedge_ratio
      /\ hedge_position' = hedge_position + Change(c)
  BY DEF ExecuteHedge, FetchAdd, Change
<1>3. position \in Int /\ hedge_ratio \in Int /\ hedge_position \in Int /\ TrueDelta \in Int
  BY AtomicsInt DEF DInv
<1>4. TrueDelta = DeltaOf(position, hedge_ratio, 0) - hedge_position
  BY <1>3, TrueDeltaIs, DeltaOfInt
<1>5. hedge_position' \in Int
  BY <1>1, <1>2, <1>3
<1>6. TrueDelta' = DeltaOf(position, hedge_ratio, hedge_position')
  BY <1>2, <1>3, <1>5, TrueDeltaNextInt
<1>7. TrueDelta' = DeltaOf(position, hedge_ratio, 0) - hedge_position'
  BY <1>3, <1>5, <1>6, DeltaOfInt
<1>8. DeltaOf(position, hedge_ratio, 0) \in Int
  BY <1>3, DeltaOfInt
<1> QED BY <1>1, <1>2, <1>3, <1>4, <1>7, <1>8

\* ExecutionHitsTarget: an execution of a recommendation that is still true leaves
\* a delta of one hundredth at most.
THEOREM ExecutionHitsTargetHolds == Spec => ExecutionHitsTarget
<1>1. ASSUME DInv, NEW c \in Callers, ExecuteHedge(c), delta[c] = TrueDelta
      PROVE  Abs(TrueDelta') <= 1
  <2>1. TrueDelta' = TrueDelta - Change(c) /\ TrueDelta \in Int /\ Change(c) \in Int
    BY <1>1, ExecuteMovesDelta
  <2>2. pc[c] = "holding"
    BY <1>1 DEF ExecuteHedge
  <2>3. Change(c) = delta[c] \/ Change(c) = delta[c] - 1 \/ Change(c) = delta[c] + 1
    BY <1>1, <2>2, ChangeNear
  <2> QED BY <1>1, <2>1, <2>3 DEF Abs
<1>2. DInv => [\A c \in Callers : ExecuteHedge(c) /\ delta[c] = TrueDelta
                                    => Abs(TrueDelta') <= 1]_vars
  BY <1>1
<1> QED BY <1>2, DInvAlways, PTL DEF ExecutionHitsTarget

(***************************************************************************)
(* What a thread that hedges alone computes was true at some moment of the *)
(* call, unless its loads are torn.  As long as neither position nor ratio *)
(* was stored between the two loads, the loaded position is the current    *)
(* one; once the position was, the moment has passed, and only a store of  *)
(* the ratio could spoil it, because the hedge is changed by the caller    *)
(* itself.                                                                 *)
(***************************************************************************)
Snapshot ==
  \A c \in Callers : torn[c] # "yes" =>
    /\ pc[c] = "ratio" =>
         /\ DeltaOf(spos[c], hedge_ratio, hedge_position) \in truths[c]
         /\ torn[c] = "no" => spos[c] = position
    /\ pc[c] = "hedge" => DeltaOf(spos[c], sratio[c], hedge_position) \in truths[c]
    /\ pc[c] \in {"urgency", "holding"} => delta[c] \in truths[c]

\* A store of the ratio: nothing was stored before it and the true delta it
\* makes is observed, or the position was and the loads are torn.
LEMMA StoreSnapshot ==
  ASSUME DInv, Snapshot, NEW r \in Int, StoreHedgeRatio(r), UNCHANGED locals
  PROVE  Snapshot'
<1>1. /\ position' = position /\ hedge_ratio' = r /\ hedge_position' = hedge_position
      /\ pc' = pc /\ spos' = spos /\ sratio' = sratio /\ delta' = delta
  BY DEF StoreHedgeRatio, locals
<1>2. /\ truths \in [Callers -> SUBSET Int]
      /\ torn \in [Callers -> {"no", "moved", "yes"}]
      /\ position \in Int /\ hedge_position \in Int /\ r \in Int
  BY DEF DInv, DTypes
<1>3. TrueDelta' = DeltaOf(position, r, hedge_position)
  BY <1>1, <1>2, TrueDeltaNextInt
<1>4. \A c \in Callers : /\ truths[c] \subseteq truths'[c]
                         /\ Loading(c) => TrueDelta' \in truths'[c]
  BY <1>1, <1>2 DEF StoreHedgeRatio, Observe, Loading
<1>5. \A c \in Callers : torn'[c] # "yes" =>
        /\ torn[c] # "yes"
        /\ pc[c] = "ratio" => torn[c] = "no"
  BY <1>2 DEF StoreHedgeRatio
<1> SUFFICES ASSUME NEW c \in Callers, torn'[c] # "yes"
             PROVE  /\ pc[c] = "ratio" =>
                         /\ DeltaOf(spos[c], r, hedge_position) \in truths'[c]
                         /\ torn'[c] = "no" => spos[c] = position
                    /\ pc[c] = "hedge" =>
                         DeltaOf(spos[c], sratio[c], hedge_position) \in truths'[c]
                    /\ pc[c] \in {"urgency", "holding"} => delta[c] \in truths'[c]
  BY <1>1 DEF Snapshot
<1>6. CASE pc[c] = "ratio"
  <2>1. torn[c] = "no" /\ spos[c] = position
    BY <1>5, <1>6 DEF Snapshot
  <2>2. TrueDelta' \in truths'[c]
    BY <1>4, <1>6 DEF Loading
  <2> QED BY <1>3, <1>6, <2>1, <2>2
<1>7. CASE pc[c] # "ratio"
  BY <1>4, <1>5, <1>7 DEF Snapshot
<1> QED BY <1>6, <1>7

LEMMA NextSnapshot ==
  ASSUME NEW a, Callers = {a}, DInv, Snapshot, [Next]_vars
  PROVE  Snapshot'
<1>t. /\ truths \in [Callers -> SUBSET Int]
      /\ torn \in [Callers -> {"no", "moved", "yes"}]
      /\ pc \in [Callers -> {"idle", "ratio", "hedge", "urgency", "holding"}]
      /\ spos \in [Callers -> Int] /\ sratio \in [Callers -> Int]
      /\ delta \in [Callers -> Int]
  BY DEF DInv, DTypes
<1>1. ASSUME NEW p \in Positions, UpdatePosition(p) PROVE Snapshot'
  <2>1. /\ hedge_ratio' = hedge_ratio /\ hedge_position' = hedge_position
        /\ pc' = pc /\ spos' = spos /\ sratio' = sratio /\ delta' = delta
    BY <1>1 DEF UpdatePosition, locals
  <2>2. \A c \in Callers : truths[c] \subseteq truths'[c]
    BY <1>t, <1>1 DEF UpdatePosition, Observe
  <2>3. \A c \in Callers : /\ torn'[c] # "yes" => torn[c] # "yes"
                           /\ pc[c] = "ratio" => torn'[c] # "no"
    BY <1>t, <1>1 DEF UpdatePosition
  <2> QED BY <2>1, <2>2, <2>3 DEF Snapshot
<1>2. ASSUME NEW r \in Ratios, UpdateHedgeRatio(r) PROVE Snapshot'
  <2>1. StoreHedgeRatio(r) /\ UNCHANGED locals
    BY <1>2 DEF UpdateHedgeRatio
  <2> QED BY <2>1, StoreSnapshot, AmountsAssumption
<1>3. ASSUME NEW c \in Callers, LoadPosition(c) PROVE Snapshot'
  <2>1. TrueDelta = DeltaOf(position, hedge_ratio, hedge_position)
    BY AtomicsInt, TrueDeltaIs DEF DInv
  <2>2. /\ hedge_ratio' = hedge_ratio /\ hedge_position' = hedge_position
        /\ position' = position
        /\ truths' = [truths EXCEPT ![c] = {TrueDelta}]
        /\ torn' = [torn EXCEPT ![c] = "no"]
        /\ spos' = [spos EXCEPT ![c] = position] /\ pc' = [pc EXCEPT ![c] = "ratio"]
        /\ sratio' = sratio /\ delta' = delta
    BY <1>3 DEF LoadPosition, atomics
  <2> QED BY <1>t, <2>1, <2>2 DEF Snapshot
<1>4. ASSUME NEW c \in Callers, LoadRatio(c) PROVE Snapshot'
  BY <1>t, <1>4 DEF LoadRatio, atomics, witness, Snapshot
<1>5. ASSUME NEW c \in Callers, RecommendNothing(c) PROVE Snapshot'
  BY <1>t, <1>5 DEF RecommendNothing, atomics, witness, Snapshot
<1>6. ASSUME NEW c \in Callers, RecommendHedge(c) PROVE Snapshot'
  <2>1. torn[c] # "yes" => LoadedDelta(c) \in truths[c]
    BY <1>6 DEF RecommendHedge, Snapshot, LoadedDelta
  <2> QED BY <1>t, <1>6, <2>1 DEF RecommendHedge, atomics, witness, Snapshot
<1>7. ASSUME NEW c \in Callers, Recommend(c) PROVE Snapshot'
  BY <1>t, <1>7 DEF Recommend, atomics, witness, Snapshot
<1>8. ASSUME NEW c \in Callers, ExecuteHedge(c) PROVE Snapshot'
  <2>1. c = a /\ pc' = [pc EXCEPT ![c] = "idle"]
    BY <1>8 DEF ExecuteHedge
  <2> QED BY <1>t, <2>1 DEF Snapshot
<1>9. ASSUME NEW c \in Callers, Ignore(c) PROVE Snapshot'
  BY <1>t, <1>9 DEF Ignore, atomics, witness, Snapshot
<1>10. CASE UNCHANGED vars
  BY <1>10 DEF vars, atomics, locals, witness, Snapshot
<1> QED BY <1>1, <1>2, <1>3, <1>4, <1>5, <1>6, <1>7, <1>8, <1>9, <1>10
        DEF Next, GetRecommendation

\* DeltaWasTrue: with one hedging thread a recommended delta was the true one at
\* some moment of the call, unless the position and after it the ratio were stored
\* between the loads of calculate_hedge_delta.
THEOREM DeltaWasTrueHolds ==
  ASSUME NEW a, Callers = {a}
  PROVE  Spec => []DeltaWasTrue
<1>1. Init => Snapshot
  BY DEF Init, Snapshot
<1>2. DInv /\ Snapshot /\ [Next]_vars => Snapshot'
  BY NextSnapshot
<1>3. Snapshot => DeltaWasTrue
  BY DEF Snapshot, DeltaWasTrue
<1> QED BY <1>1, <1>2, <1>3, DInvAlways, PTL DEF Spec

-----------------------------------------------------------------------------
(***************************************************************************)
(* Two callers, and neither position nor ratio changes.  Each caller that  *)
(* has computed a delta is about to add Pending(c) to the hedge.  The hedge*)
(* stays within the target of the target whichever subset of the pending   *)
(* amounts is executed, and that is inductive: an execution moves an       *)
(* amount from pending to done, and a caller that computes a new delta     *)
(* makes its pending amount cancel the gap but for one hundredth.          *)
(***************************************************************************)
Target == DeltaOf(position, hedge_ratio, 0)
Pending(c) == IF pc[c] \in {"urgency", "holding"}
              THEN Signed(Cents(Abs(delta[c])), SideOf(delta[c])) ELSE 0

\* n is within the size of the target.
Bounded(n) == Abs(n) <= Abs(Target)

TwoInv ==
  /\ Bounded(TrueDelta)
  /\ \A c \in Callers : Bounded(Pending(c)) /\ Bounded(TrueDelta - Pending(c))
  /\ \A c, d \in Callers : c # d => Bounded(TrueDelta - Pending(c) - Pending(d))
  /\ \A c \in Callers : Loading(c) => spos[c] = position
  /\ \A c \in Callers : pc[c] = "hedge" => sratio[c] = hedge_ratio

\* A new pending amount s that cancels the gap g, up to one hundredth.
LEMMA CancelsGap ==
  ASSUME NEW g \in Int, NEW t \in Int, NEW s \in Int, NEW B \in Nat,
         Abs(g) <= B, Abs(t) <= B, Abs(g - t) <= B,
         \/ s = g
         \/ g > 1 /\ s = g - 1
         \/ g < -1 /\ s = g + 1
  PROVE  Abs(s) <= B /\ Abs(g - s) <= B /\ Abs(g - s - t) <= B
  BY DEF Abs

\* The amount pending for a delta.
LEMMA PendingNear ==
  ASSUME NEW d \in Int, d # 0
  PROVE  LET s == Signed(Cents(Abs(d)), SideOf(d))
         IN /\ s \in Int
            /\ s = d \/ (d > 1 /\ s = d - 1) \/ (d < -1 /\ s = d + 1)
<1>1. Abs(d) \in Nat /\ Abs(d) > 0
  BY DEF Abs
<1>2. /\ Cents(Abs(d)) \in Nat
      /\ Cents(Abs(d)) = Abs(d) \/ (Cents(Abs(d)) = Abs(d) - 1 /\ Abs(d) > 1)
  BY <1>1, CentsNear
<1> QED BY <1>1, <1>2 DEF Signed, SideOf, Abs

LEMMA PendingInt ==
  ASSUME DInv, NEW c \in Callers
  PROVE  Pending(c) \in Int
<1>1. CASE pc[c] \in {"urgency", "holding"}
  <2>1. delta[c] \in Int /\ delta[c] # 0
    BY <1>1 DEF DInv, DTypes, RecMatches
  <2> QED BY <1>1, <2>1, PendingNear DEF Pending
<1>2. CASE pc[c] \notin {"urgency", "holding"}
  BY <1>2 DEF Pending
<1> QED BY <1>1, <1>2

\* Target and the gap do not change unless an atomic does.
LEMMA SameAtomics ==
  ASSUME DTypes, atomics' = atomics
  PROVE  Target' = Target /\ TrueDelta' = TrueDelta
<1>1. position' = position /\ hedge_ratio' = hedge_ratio /\ hedge_position' = hedge_position
  BY DEF atomics
<1> QED BY <1>1 DEF Target, TrueDelta

\* A caller's step that changes neither the atomics nor what is pending.
LEMMA QuietStep ==
  ASSUME DInv, TwoInv, atomics' = atomics,
         \A c \in Callers : Pending(c)' = Pending(c),
         \A c \in Callers : Loading(c)' => spos'[c] = position,
         \A c \in Callers : pc'[c] = "hedge" => sratio'[c] = hedge_ratio
  PROVE  TwoInv'
<1>1. Target' = Target /\ TrueDelta' = TrueDelta
  BY SameAtomics DEF DInv
<1>2. position' = position /\ hedge_ratio' = hedge_ratio
  BY DEF atomics
<1> QED BY <1>1, <1>2 DEF TwoInv, Bounded

LEMMA TwoLoadPosition ==
  ASSUME DInv, TwoInv, NEW c \in Callers, LoadPosition(c)
  PROVE  TwoInv'
<1>1. /\ atomics' = atomics /\ pc' = [pc EXCEPT ![c] = "ratio"] /\ pc[c] = "idle"
      /\ spos' = [spos EXCEPT ![c] = position] /\ sratio' = sratio /\ delta' = delta
  BY DEF LoadPosition
<1>2. \A d \in Callers : Pending(d)' = Pending(d)
  BY <1>1 DEF DInv, DTypes, Pending
<1>3. \A d \in Callers : Loading(d)' => spos'[d] = position
  BY <1>1 DEF DInv, DTypes, TwoInv, Loading
<1>4. \A d \in Callers : pc'[d] = "hedge" => sratio'[d] = hedge_ratio
  BY <1>1 DEF DInv, DTypes, TwoInv
<1> QED BY <1>1, <1>2, <1>3, <1>4, QuietStep

LEMMA TwoLoadRatio ==
  ASSUME DInv, TwoInv, NEW c \in Callers, LoadRatio(c)
  PROVE  TwoInv'
<1>1. /\ atomics' = atomics /\ pc' = [pc EXCEPT ![c] = "hedge"] /\ pc[c] = "ratio"
      /\ sratio' = [sratio EXCEPT ![c] = hedge_ratio] /\ spos' = spos /\ delta' = delta
  BY DEF LoadRatio
<1>2. \A d \in Callers : Pending(d)' = Pending(d)
  BY <1>1 DEF DInv, DTypes, Pending
<1>3. \A d \in Callers : Loading(d)' => spos'[d] = position
  BY <1>1 DEF DInv, DTypes, TwoInv, Loading
<1>4. \A d \in Callers : pc'[d] = "hedge" => sratio'[d] = hedge_ratio
  BY <1>1 DEF DInv, DTypes, TwoInv
<1> QED BY <1>1, <1>2, <1>3, <1>4, QuietStep

LEMMA TwoRecommendNothing ==
  ASSUME DInv, TwoInv, NEW c \in Callers, RecommendNothing(c)
  PROVE  TwoInv'
<1>1. /\ atomics' = atomics /\ pc' = [pc EXCEPT ![c] = "idle"] /\ pc[c] = "hedge"
      /\ delta' = [delta EXCEPT ![c] = LoadedDelta(c)] /\ spos' = spos /\ sratio' = sratio
  BY DEF RecommendNothing
<1>2. \A d \in Callers : Pending(d)' = Pending(d)
  BY <1>1 DEF DInv, DTypes, Pending
<1>3. \A d \in Callers : Loading(d)' => spos'[d] = position
  BY <1>1 DEF DInv, DTypes, TwoInv, Loading
<1>4. \A d \in Callers : pc'[d] = "hedge" => sratio'[d] = hedge_ratio
  BY <1>1 DEF DInv, DTypes, TwoInv
<1> QED BY <1>1, <1>2, <1>3, <1>4, QuietStep

LEMMA TwoRecommend ==
  ASSUME DInv, TwoInv, NEW c \in Callers, Recommend(c)
  PROVE  TwoInv'
<1>1. /\ atomics' = atomics /\ pc' = [pc EXCEPT ![c] = "holding"] /\ pc[c] = "urgency"
      /\ delta' = delta /\ spos' = spos /\ sratio' = sratio
  BY DEF Recommend
<1>2. \A d \in Callers : Pending(d)' = Pending(d)
  BY <1>1 DEF DInv, DTypes, Pending
<1>3. \A d \in Callers : Loading(d)' => spos'[d] = position
  BY <1>1 DEF DInv, DTypes, TwoInv, Loading
<1>4. \A d \in Callers : pc'[d] = "hedge" => sratio'[d] = hedge_ratio
  BY <1>1 DEF DInv, DTypes, TwoInv
<1> QED BY <1>1, <1>2, <1>3, <1>4, QuietStep

\* Letting a recommendation go drops a pending amount.
LEMMA TwoIgnore ==
  ASSUME DInv, TwoInv, NEW c \in Callers, Ignore(c)
  PROVE  TwoInv'
<1>1. /\ atomics' = atomics /\ pc' = [pc EXCEPT ![c] = "idle"]
      /\ delta' = delta /\ spos' = spos /\ sratio' = sratio
  BY DEF Ignore
<1>2. Pending(c)' = 0 /\ \A d \in Callers : d # c => Pending(d)' = Pending(d)
  BY <1>1 DEF DInv, DTypes, Pending
<1>3. Target' = Target /\ TrueDelta' = TrueDelta
  BY <1>1, SameAtomics DEF DInv
<1>4. TrueDelta \in Int /\ Target \in Int
  BY AtomicsInt, DeltaOfInt DEF DInv, Target
<1>5. \A d \in Callers : Pending(d) \in Int
  BY PendingInt
<1>6. Bounded(0) /\ \A n : n = TrueDelta - 0 => Bounded(n)
  BY <1>4 DEF TwoInv, Bounded, Abs
<1>7. Bounded(TrueDelta)'
  BY <1>3 DEF TwoInv, Bounded
<1>8. \A d \in Callers : Bounded(Pending(d))' /\ Bounded(TrueDelta - Pending(d))'
  BY <1>2, <1>3, <1>6 DEF TwoInv, Bounded
<1>9. \A d, e \in Callers : d # e => Bounded(TrueDelta - Pending(d) - Pending(e))'
  <2> SUFFICES ASSUME NEW d \in Callers, NEW e \in Callers, d # e
               PROVE  Bounded(TrueDelta - Pending(d) - Pending(e))'
    OBVIOUS
  <2>1. CASE d = c
    <3>1. TrueDelta' - Pending(d)' - Pending(e)' = TrueDelta - Pending(e)
      BY <2>1, <1>2, <1>3, <1>4, <1>5
    <3> QED BY <3>1, <1>3 DEF TwoInv, Bounded
  <2>2. CASE e = c
    <3>1. TrueDelta' - Pending(d)' - Pending(e)' = TrueDelta - Pending(d)
      BY <2>2, <1>2, <1>3, <1>4, <1>5
    <3> QED BY <3>1, <1>3 DEF TwoInv, Bounded
  <2>3. CASE d # c /\ e # c
    BY <2>3, <1>2, <1>3 DEF TwoInv, Bounded
  <2> QED BY <2>1, <2>2, <2>3
<1>10. \A d \in Callers : Loading(d)' => spos'[d] = position'
  BY <1>1 DEF DInv, DTypes, TwoInv, Loading, atomics
<1>11. \A d \in Callers : pc'[d] = "hedge" => sratio'[d] = hedge_ratio'
  BY <1>1 DEF DInv, DTypes, TwoInv, atomics
<1> QED BY <1>7, <1>8, <1>9, <1>10, <1>11 DEF TwoInv

\* A caller computes a delta: with nobody changing position or ratio it is
\* the true one, whatever the other caller has pending.
LEMMA TwoRecommendHedge ==
  ASSUME DInv, TwoInv, NEW c \in Callers, NEW o, Callers = {c, o}, RecommendHedge(c)
  PROVE  TwoInv'
<1>1. /\ atomics' = atomics /\ pc' = [pc EXCEPT ![c] = "urgency"] /\ pc[c] = "hedge"
      /\ delta' = [delta EXCEPT ![c] = LoadedDelta(c)] /\ spos' = spos /\ sratio' = sratio
      /\ NeedsHedge(LoadedDelta(c), hedge_position)
  BY DEF RecommendHedge
<1>2. Target' = Target /\ TrueDelta' = TrueDelta
  BY <1>1, SameAtomics DEF DInv
<1>3. TrueDelta \in Int /\ Target \in Int /\ hedge_position \in Int
  BY AtomicsInt, DeltaOfInt DEF DInv, Target
<1>4. LoadedDelta(c) = TrueDelta
  <2>1. spos[c] = position /\ sratio[c] = hedge_ratio
    BY <1>1 DEF TwoInv, Loading
  <2> QED BY <2>1, AtomicsInt, TrueDeltaIs DEF LoadedDelta, DInv
<1>5. TrueDelta # 0
  BY <1>1, <1>3, <1>4, NeedsHedgeNonzero
<1> DEFINE s == Pending(c)'
<1>6. s = Signed(Cents(Abs(TrueDelta)), SideOf(TrueDelta))
  BY <1>1, <1>4 DEF DInv, DTypes, Pending
<1>7. /\ s \in Int
      /\ \/ s = TrueDelta
         \/ TrueDelta > 1 /\ s = TrueDelta - 1
         \/ TrueDelta < -1 /\ s = TrueDelta + 1
  BY <1>3, <1>5, <1>6, PendingNear
<1>8. \A d \in Callers : d # c => Pending(d)' = Pending(d)
  BY <1>1 DEF DInv, DTypes, Pending
<1>9. Abs(Target) \in Nat
  BY <1>3, AbsNat
<1>10. Abs(TrueDelta) <= Abs(Target)
  BY DEF TwoInv, Bounded
<1>11. Abs(s) <= Abs(Target) /\ Abs(TrueDelta - s) <= Abs(Target)
  <2>1. Abs(0) <= Abs(Target) /\ Abs(TrueDelta - 0) <= Abs(Target)
    BY <1>3, <1>9, <1>10 DEF Abs
  <2> HIDE DEF s
  <2> QED BY <1>3, <1>7, <1>9, <1>10, <2>1, CancelsGap
<1>12. ASSUME NEW d \in Callers, d # c
       PROVE  /\ Abs(TrueDelta - s - Pending(d)) <= Abs(Target)
              /\ Pending(d) \in Int
  <2>1. Pending(d) \in Int
    BY PendingInt
  <2>2. Abs(Pending(d)) <= Abs(Target) /\ Abs(TrueDelta - Pending(d)) <= Abs(Target)
    BY DEF TwoInv, Bounded
  <2> HIDE DEF s
  <2> QED BY <1>3, <1>7, <1>9, <1>10, <2>1, <2>2, CancelsGap
<1> HIDE DEF s
<1>13. Bounded(TrueDelta)'
  BY <1>2 DEF TwoInv, Bounded
<1>14. \A d \in Callers : Bounded(Pending(d))' /\ Bounded(TrueDelta - Pending(d))'
  <2> SUFFICES ASSUME NEW d \in Callers
               PROVE  Bounded(Pending(d))' /\ Bounded(TrueDelta - Pending(d))'
    OBVIOUS
  <2>1. CASE d = c
    <3>1. Pending(d)' = s
      BY <2>1 DEF s
    <3> QED BY <3>1, <1>2, <1>11 DEF Bounded
  <2>2. CASE d # c
    BY <2>2, <1>2, <1>8 DEF TwoInv, Bounded
  <2> QED BY <2>1, <2>2
<1>15. \A d, e \in Callers : d # e => Bounded(TrueDelta - Pending(d) - Pending(e))'
  <2> SUFFICES ASSUME NEW d \in Callers, NEW e \in Callers, d # e
               PROVE  Bounded(TrueDelta - Pending(d) - Pending(e))'
    OBVIOUS
  <2>0. Pending(c)' = s
    BY DEF s
  <2>1. CASE d = c
    <3>1. Pending(d)' = s /\ Pending(e)' = Pending(e)
      BY <2>0, <2>1, <1>8
    <3> QED BY <3>1, <2>1, <1>2, <1>12 DEF Bounded
  <2>2. CASE e = c
    <3>1. Pending(e)' = s /\ Pending(d)' = Pending(d) /\ d # c
      BY <2>0, <2>2, <1>8
    <3>2. Pending(d) \in Int /\ Abs(TrueDelta - s - Pending(d)) <= Abs(Target)
      BY <3>1, <1>12
    <3>3. TrueDelta - Pending(d) - s = TrueDelta - s - Pending(d)
      BY <3>2, <1>3, <1>7
    <3> QED BY <3>1, <3>2, <3>3, <1>2 DEF Bounded
  <2>3. CASE d # c /\ e # c
    BY <2>3 \* only one other caller
  <2> QED BY <2>1, <2>2, <2>3
<1>16. \A d \in Callers : Loading(d)' => spos'[d] = position'
  BY <1>1 DEF DInv, DTypes, TwoInv, Loading, atomics
<1>17. \A d \in Callers : pc'[d] = "hedge" => sratio'[d] = hedge_ratio'
  BY <1>1 DEF DInv, DTypes, TwoInv, atomics
<1> QED BY <1>13, <1>14, <1>15, <1>16, <1>17 DEF TwoInv

\* An execution turns a pending amount into a done one.
LEMMA TwoExecuteHedge ==
  ASSUME DInv, TwoInv, NEW c \in Callers, NEW o, Callers = {c, o}, ExecuteHedge(c)
  PROVE  TwoInv'
<1>1. /\ pc' = [pc EXCEPT ![c] = "idle"] /\ pc[c] = "holding"
      /\ position' = position /\ hedge_ratio' = hedge_ratio
      /\ delta' = delta /\ spos' = spos /\ sratio' = sratio
  BY DEF ExecuteHedge
<1>2. Change(c) = Pending(c)
  BY <1>1 DEF Change, Pending, DInv, RecMatches
<1>3. /\ TrueDelta' = TrueDelta - Pending(c)
      /\ TrueDelta \in Int /\ Pending(c) \in Int
  BY <1>2, ExecuteMovesDelta
<1>4. Target' = Target
  BY <1>1 DEF Target
<1>5. Pending(c)' = 0 /\ \A d \in Callers : d # c => Pending(d)' = Pending(d)
  BY <1>1 DEF DInv, DTypes, Pending
<1>6. Bounded(TrueDelta)'
  BY <1>3, <1>4 DEF TwoInv, Bounded
<1>7. Target \in Int
  BY AtomicsInt, DeltaOfInt DEF DInv, Target
<1>8. \A d \in Callers : Pending(d) \in Int
  BY PendingInt
<1>9. Abs(0) <= Abs(Target)
  BY <1>7 DEF Abs
<1>10. \A d \in Callers : Bounded(Pending(d))' /\ Bounded(TrueDelta - Pending(d))'
  <2> SUFFICES ASSUME NEW d \in Callers
               PROVE  Bounded(Pending(d))' /\ Bounded(TrueDelta - Pending(d))'
    OBVIOUS
  <2>1. CASE d = c
    <3>1. TrueDelta' - Pending(d)' = TrueDelta - Pending(c) /\ Pending(d)' = 0
      BY <2>1, <1>3, <1>5
    <3> QED BY <3>1, <1>4, <1>9 DEF TwoInv, Bounded
  <2>2. CASE d # c
    <3>1. TrueDelta' - Pending(d)' = TrueDelta - Pending(c) - Pending(d)
          /\ Pending(d)' = Pending(d)
      BY <2>2, <1>3, <1>5
    <3> QED BY <2>2, <3>1, <1>4 DEF TwoInv, Bounded
  <2> QED BY <2>1, <2>2
<1>11. \A d, e \in Callers : d # e => Bounded(TrueDelta - Pending(d) - Pending(e))'
  <2> SUFFICES ASSUME NEW d \in Callers, NEW e \in Callers, d # e
               PROVE  Bounded(TrueDelta - Pending(d) - Pending(e))'
    OBVIOUS
  <2>1. CASE d = c
    <3>1. TrueDelta' - Pending(d)' - Pending(e)' = TrueDelta - Pending(c) - Pending(e)
      BY <2>1, <1>3, <1>5, <1>8
    <3> QED BY <2>1, <3>1, <1>4 DEF TwoInv, Bounded
  <2>2. CASE e = c
    <3>1. TrueDelta' - Pending(d)' - Pending(e)' = TrueDelta - Pending(c) - Pending(d)
      BY <2>2, <1>3, <1>5, <1>8
    <3> QED BY <2>2, <3>1, <1>4 DEF TwoInv, Bounded
  <2>3. CASE d # c /\ e # c
    BY <2>3
  <2> QED BY <2>1, <2>2, <2>3
<1>12. \A d \in Callers : Loading(d)' => spos'[d] = position'
  BY <1>1 DEF DInv, DTypes, TwoInv, Loading
<1>13. \A d \in Callers : pc'[d] = "hedge" => sratio'[d] = hedge_ratio'
  BY <1>1 DEF DInv, DTypes, TwoInv
<1> QED BY <1>6, <1>10, <1>11, <1>12, <1>13 DEF TwoInv

LEMMA TwoInit ==
  ASSUME Init, DInv
  PROVE  TwoInv
<1>1. \A c \in Callers : Pending(c) = 0 /\ ~Loading(c) /\ pc[c] # "hedge"
  BY DEF Init, Pending, Loading
<1>2. TrueDelta = Target /\ Target \in Int
  BY AtomicsInt, TrueDeltaIs, DeltaOfInt DEF DInv, Init, Target
<1>3. Bounded(TrueDelta) /\ Bounded(0)
  BY <1>2 DEF Bounded, Abs
<1>4. TrueDelta - 0 = TrueDelta /\ TrueDelta - 0 - 0 = TrueDelta
  BY <1>2
<1> QED BY <1>1, <1>3, <1>4 DEF TwoInv

\* What callers do; nobody else moves the position or the ratio.
CallersNext ==
  \E c \in Callers : GetRecommendation(c) \/ ExecuteHedge(c) \/ Ignore(c)

LEMMA TwoNext ==
  ASSUME NEW a, NEW b, Callers = {a, b}, DInv, TwoInv, [CallersNext]_vars
  PROVE  TwoInv'
<1>1. \A c \in Callers : \E o : Callers = {c, o}
  OBVIOUS
<1>2. ASSUME NEW c \in Callers, GetRecommendation(c) PROVE TwoInv'
  BY <1>1, <1>2, TwoLoadPosition, TwoLoadRatio, TwoRecommendNothing,
     TwoRecommendHedge, TwoRecommend DEF GetRecommendation
<1>3. ASSUME NEW c \in Callers, ExecuteHedge(c) PROVE TwoInv'
  BY <1>1, <1>3, TwoExecuteHedge
<1>4. ASSUME NEW c \in Callers, Ignore(c) PROVE TwoInv'
  BY <1>4, TwoIgnore
<1>5. CASE UNCHANGED vars
  <2>1. UNCHANGED <<pc, spos, sratio, delta>> /\ atomics' = atomics
    BY <1>5 DEF vars, locals
  <2>2. \A c \in Callers : Pending(c)' = Pending(c)
    BY <2>1 DEF Pending
  <2>3. /\ \A c \in Callers : Loading(c)' => spos'[c] = position
        /\ \A c \in Callers : pc'[c] = "hedge" => sratio'[c] = hedge_ratio
    BY <2>1 DEF TwoInv, Loading
  <2> QED BY <2>1, <2>2, <2>3, QuietStep
<1> QED BY <1>2, <1>3, <1>4, <1>5 DEF CallersNext

(***************************************************************************)
(* What TwoInv says of the hedge alone: it is off its target by no more    *)
(* than the target.                                                        *)
(***************************************************************************)
LEMMA TwoGap ==
  ASSUME DInv, TwoInv
  PROVE  Abs(TrueDelta) <= Abs(TrueDelta + hedge_position)
<1>1. position \in Int /\ hedge_ratio \in Int /\ hedge_position \in Int
  BY AtomicsInt DEF DInv
<1>2. TrueDelta = Target - hedge_position /\ Target \in Int
  BY <1>1, TrueDeltaIs, DeltaOfInt DEF Target
<1>3. TrueDelta + hedge_position = Target
  BY <1>1, <1>2
<1> QED BY <1>3 DEF TwoInv, Bounded

-----------------------------------------------------------------------------
(***************************************************************************)
(* A thread that hedges alone.  After an execution it is idle, so all that *)
(* it loads from then on is fresh as long as position and ratio stay; the  *)
(* next execution then brings the hedge to within a hundredth of the       *)
(* target, and a trade of one hundredth is not lost in the conversion.     *)
(***************************************************************************)
\* What the caller has loaded and computed is still true.
Fresh(c) ==
  /\ Loading(c) => spos[c] = position
  /\ pc[c] = "hedge" => sratio[c] = hedge_ratio
  /\ pc[c] \in {"urgency", "holding"} => delta[c] = Target - hedge_position

LEMMA TargetInt ==
  ASSUME DInv
  PROVE  Target \in Int /\ hedge_position \in Int
  BY AtomicsInt, DeltaOfInt DEF DInv, Target

\* As long as the atomics stay, a caller's own steps keep it fresh.
LEMMA FreshRecommendation ==
  ASSUME DInv, NEW c \in Callers, GetRecommendation(c)
  PROVE  /\ UNCHANGED <<position, hedge_ratio, hedge_position, Target, executions, trades>>
         /\ Fresh(c) => Fresh(c)'
<1>1. UNCHANGED <<position, hedge_ratio, hedge_position, executions, trades>>
  BY DEF GetRecommendation, LoadPosition, LoadRatio, RecommendNothing, RecommendHedge,
         Recommend, atomics, history
<1>2. Target' = Target
  BY <1>1 DEF Target
<1>3. ASSUME Fresh(c) PROVE Fresh(c)'
  <2> USE DEF DInv, DTypes, Fresh, Loading
  <2>1. CASE LoadPosition(c)
    <3>1. pc'[c] = "ratio" /\ spos'[c] = position
      BY <2>1 DEF LoadPosition
    <3> QED BY <1>1, <3>1
  <2>2. CASE LoadRatio(c)
    <3>1. pc[c] = "ratio" /\ pc'[c] = "hedge" /\ spos'[c] = spos[c]
          /\ sratio'[c] = hedge_ratio
      BY <2>2 DEF LoadRatio
    <3> QED BY <1>1, <1>3, <3>1
  <2>3. CASE RecommendNothing(c)
    <3>1. pc'[c] = "idle"
      BY <2>3 DEF RecommendNothing
    <3> QED BY <3>1
  <2>4. CASE RecommendHedge(c)
    <3>1. pc[c] = "hedge" /\ pc'[c] = "urgency" /\ delta'[c] = LoadedDelta(c)
      BY <2>4 DEF RecommendHedge
    <3>2. LoadedDelta(c) = DeltaOf(position, hedge_ratio, hedge_position)
      BY <1>3, <3>1 DEF LoadedDelta
    <3>3. delta'[c] = Target - hedge_position
      BY <3>1, <3>2, AtomicsInt, DeltaOfInt DEF Target
    <3> QED BY <1>1, <1>2, <3>1, <3>3
  <2>5. CASE Recommend(c)
    <3>1. pc[c] = "urgency" /\ pc'[c] = "holding" /\ delta'[c] = delta[c]
      BY <2>5 DEF Recommend
    <3> QED BY <1>1, <1>2, <1>3, <3>1
  <2> QED BY <2>1, <2>2, <2>3, <2>4, <2>5 DEF GetRecommendation
<1> QED BY <1>1, <1>2, <1>3

\* A caller that is fresh, with the hedge at its target, recommends nothing.
LEMMA NothingAtTarget ==
  ASSUME DInv, NEW c \in Callers, GetRecommendation(c), Fresh(c),
         Target = hedge_position, pc[c] \notin {"urgency", "holding"}
  PROVE  pc'[c] \notin {"urgency", "holding"}
<1>1. ~RecommendHedge(c)
  <2> SUFFICES ASSUME RecommendHedge(c) PROVE FALSE
    OBVIOUS
  <2>1. LoadedDelta(c) = DeltaOf(position, hedge_ratio, hedge_position)
    BY DEF RecommendHedge, LoadedDelta, Fresh, Loading
  <2>2. LoadedDelta(c) = Target - hedge_position
    BY <2>1, AtomicsInt, DeltaOfInt DEF DInv, Target
  <2>3. LoadedDelta(c) = 0
    BY <2>2, TargetInt
  <2>4. hedge_position \in Int
    BY TargetInt
  <2> QED BY <2>3, <2>4, NeedsHedgeNonzero DEF RecommendHedge
<1>2. ~Recommend(c)
  BY DEF Recommend
<1> QED BY <1>1, <1>2 DEF GetRecommendation, LoadPosition, LoadRatio, RecommendNothing,
                          DInv, DTypes

\* An execution of a delta that is still true: within a hundredth of the
\* target, and exactly at it if that was all that was missing.
LEMMA FreshExecution ==
  ASSUME DInv, NEW c \in Callers, ExecuteHedge(c)
  PROVE  /\ UNCHANGED <<position, hedge_ratio, Target>>
         /\ Fresh(c)' /\ pc'[c] = "idle"
         /\ Fresh(c) => Abs(Target' - hedge_position') <= 1
         /\ Fresh(c) /\ Abs(Target - hedge_position) <= 1 => Target' = hedge_position'
         /\ Fresh(c) => Target # hedge_position
<1>1. /\ UNCHANGED <<position, hedge_ratio>> /\ pc[c] = "holding" /\ pc'[c] = "idle"
      /\ hedge_position' = hedge_position + Change(c)
  BY DEF ExecuteHedge, FetchAdd, Change, DInv, DTypes
<1>2. Target' = Target
  BY <1>1 DEF Target
<1>3. Fresh(c)'
  BY <1>1 DEF Fresh, Loading
<1>4. Target \in Int /\ hedge_position \in Int /\ Change(c) \in Int
  BY <1>1, TargetInt, ChangeNear
<1>5. ASSUME Fresh(c)
      PROVE  /\ Abs(Target' - hedge_position') <= 1
             /\ Abs(Target - hedge_position) <= 1 => Target' = hedge_position'
             /\ Target # hedge_position
  <2>1. delta[c] = Target - hedge_position
    BY <1>1, <1>5 DEF Fresh
  <2>2. Target' - hedge_position' = delta[c] - Change(c)
    BY <1>1, <1>2, <1>4, <2>1
  <2>3. /\ delta[c] > 0 => Change(c) > 0 /\ (Change(c) = delta[c] \/ Change(c) = delta[c] - 1)
        /\ delta[c] < 0 => Change(c) < 0 /\ (Change(c) = delta[c] \/ Change(c) = delta[c] + 1)
        /\ delta[c] # 0 /\ delta[c] \in Int
    BY <1>1, ChangeNear
  <2>4. Abs(delta[c] - Change(c)) <= 1
    BY <1>4, <2>3 DEF Abs
  <2>5. Abs(delta[c]) <= 1 => delta[c] = Change(c)
    BY <1>4, <2>3 DEF Abs
  <2>6. Target' \in Int /\ hedge_position' \in Int
    BY <1>1, <1>2, <1>4
  <2> QED BY <1>4, <2>1, <2>2, <2>3, <2>4, <2>5, <2>6
<1> QED BY <1>1, <1>2, <1>3, <1>5

\* How far the hedge is from the target, by the trades since the last change.
Settling(c) ==
  /\ trades >= 1 => Fresh(c)
  /\ trades >= 2 => Abs(Target - hedge_position) <= 1
  /\ trades >= 3 => /\ Target = hedge_position
                    /\ pc[c] \notin {"urgency", "holding"}
  /\ trades <= 3

\* A change of the position or of the ratio starts the count again, and one
\* to the value it has changes nothing.
LEMMA SettlingUpdate ==
  ASSUME DInv, NEW c \in Callers, Settling(c), UNCHANGED <<hedge_position, locals>>,
         trades' = 0 \/ UNCHANGED <<position, hedge_ratio, trades>>
  PROVE  Settling(c)'
<1>1. CASE trades' = 0
  BY <1>1 DEF Settling
<1>2. CASE UNCHANGED <<position, hedge_ratio, trades>>
  <2>1. UNCHANGED Target /\ (Fresh(c)' <=> Fresh(c)) /\ pc' = pc
    BY <1>2 DEF Target, Fresh, Loading, locals
  <2> QED BY <1>2, <2>1 DEF Settling
<1> QED BY <1>1, <1>2

LEMMA SettlingNext ==
  ASSUME NEW a, Callers = {a}, DInv, Settling(a), [Next]_vars
  PROVE  Settling(a)'
<1> USE DEF DInv, DTypes
<1>0. trades \in Nat
  BY BoundsAssumption
<1>1. ASSUME NEW p \in Positions, UpdatePosition(p) PROVE Settling(a)'
  BY <1>1, SettlingUpdate DEF UpdatePosition
<1>2. ASSUME NEW r \in Ratios, UpdateHedgeRatio(r) PROVE Settling(a)'
  BY <1>2, SettlingUpdate DEF UpdateHedgeRatio, StoreHedgeRatio
<1>3. CASE GetRecommendation(a)
  BY <1>3, FreshRecommendation, NothingAtTarget DEF Settling
<1>4. CASE ExecuteHedge(a)
  <2>1. trades' = trades + 1 /\ pc[a] = "holding"
    BY <1>4 DEF ExecuteHedge
  <2>2. trades' <= 3
    BY <1>0, <2>1 DEF Settling
  <2> QED BY <1>0, <1>4, <2>1, <2>2, FreshExecution DEF Settling
<1>5. CASE Ignore(a)
  <2>1. UNCHANGED <<position, hedge_ratio, hedge_position, trades>> /\ pc'[a] = "idle"
    BY <1>5 DEF Ignore, atomics, history
  <2>2. UNCHANGED Target /\ Fresh(a)'
    BY <2>1 DEF Target, Fresh, Loading
  <2> QED BY <2>1, <2>2 DEF Settling
<1>6. CASE UNCHANGED vars
  BY <1>6, SettlingUpdate DEF vars, atomics, history
<1> QED BY <1>1, <1>2, <1>3, <1>4, <1>5, <1>6 DEF Next

(***************************************************************************)
(* A thread that hedges alone trades at most three times in answer to one  *)
(* change of position or ratio, whatever the positions, the ratios, the    *)
(* threshold and the amounts that a conversion loses.                      *)
(***************************************************************************)
THEOREM SettlesInThreeTradesHolds ==
  ASSUME NEW CONSTANT a, Callers = {a}
  PROVE  Spec => []SettlesInThreeTrades
<1>1. Init => Settling(a)
  BY DEF Init, Settling
<1>2. DInv /\ Settling(a) /\ [Next]_vars => Settling(a)'
  BY SettlingNext
<1>3. Settling(a) => SettlesInThreeTrades
  BY DEF Settling, SettlesInThreeTrades
<1> QED BY <1>1, <1>2, <1>3, DInvAlways, PTL DEF Spec

-----------------------------------------------------------------------------
(***************************************************************************)
(* What the engine's two methods do to the strategy are steps of           *)
(* DeltaHedge, except that the MVHR ratio is stored without counting as an *)
(* update and need not be one of Ratios; the invariants of DeltaHedge, for *)
(* which any integer will do, carry over.                                  *)
(***************************************************************************)
\* Where the engine's method is follows where the strategy's is.
Phases ==
  /\ epc \in [Callers -> {"idle", "mvhr", "answer", "record"}]
  /\ \A c \in Callers : (pc[c] = "holding") = (epc[c] \in {"mvhr", "answer"})
  /\ \A c \in Callers : epc[c] = "record" => pc[c] = "idle" /\ rec[c].quantity > 0

EngineTypes ==
  /\ default_hedge_ratio \in Ratios
  /\ enable_mvhr \in BOOLEAN
  /\ hedges_executed \in Nat
  /\ total_hedge_volume \in Nat

EInv == DInv /\ Phases /\ EngineTypes

LEMMA EngineInitInv == EngineInit => EInv
<1> SUFFICES ASSUME EngineInit PROVE EInv
  OBVIOUS
<1>1. DInv
  BY InitDInv DEF EngineInit
<1>2. Phases
  BY DEF EngineInit, Init, Phases
<1>3. EngineTypes
  BY DEF EngineInit, Init, EngineTypes
<1> QED BY <1>1, <1>2, <1>3 DEF EInv

-----------------------------------------------------------------------------
LEMMA RecommendationStep ==
  ASSUME EInv, NEW c \in Callers, DeltaRecommendation(c)
  PROVE  EInv' /\ [Next]_vars
<1>1. Next
  BY DEF DeltaRecommendation, Next
<1>2. DInv'
  BY <1>1, NextDInv DEF EInv
<1>3. EngineTypes'
  BY DEF EInv, EngineTypes, DeltaRecommendation, config, metrics
<1>4. /\ pc \in [Callers -> {"idle", "ratio", "hedge", "urgency", "holding"}]
      /\ pc[c] # "holding" /\ epc[c] = "idle"
      /\ epc' = [epc EXCEPT ![c] = IF pc'[c] = "holding" THEN "mvhr" ELSE "idle"]
  BY DEF EInv, DInv, DTypes, Phases, DeltaRecommendation
<1>5. \E v : pc' = [pc EXCEPT ![c] = v]
  BY DEF DeltaRecommendation, GetRecommendation, LoadPosition, LoadRatio,
         RecommendNothing, RecommendHedge, Recommend
<1>6. \A d \in Callers : d # c => pc'[d] = pc[d] /\ epc'[d] = epc[d]
  BY <1>4, <1>5 DEF EInv, Phases
<1>7. \A d \in Callers : d # c => rec'[d] = rec[d]
  BY DEF DeltaRecommendation, GetRecommendation, LoadPosition, LoadRatio,
         RecommendNothing, RecommendHedge, Recommend, EInv, DInv, DTypes
<1>8. epc' \in [Callers -> {"idle", "mvhr", "answer", "record"}]
  BY <1>4 DEF EInv, Phases
<1>9. /\ epc'[c] \in {"idle", "mvhr"}
      /\ (pc'[c] = "holding") = (epc'[c] = "mvhr")
  BY <1>4 DEF EInv, Phases
<1>10. Phases'
  BY <1>6, <1>7, <1>8, <1>9 DEF EInv, Phases
<1> QED BY <1>1, <1>2, <1>3, <1>10 DEF EInv

\* Storing the MVHR ratio; without an MVHR strategy nothing changes.
LEMMA AdjustStep ==
  ASSUME EInv, NEW c \in Callers, AdjustWithMvhr(c)
  PROVE  EInv' /\ (~enable_mvhr => UNCHANGED vars)
<1>1. UNCHANGED <<locals, updates, config, metrics>>
  BY DEF AdjustWithMvhr
<1>2. CASE enable_mvhr
  <2>1. StoreHedgeRatio(CachedRatio)
    BY <1>2 DEF AdjustWithMvhr, ApplyMvhrRatio
  <2>2. updates' \in 0..MaxUpdates
    BY <1>1 DEF EInv, DInv, DTypes
  <2>3. DInv'
    BY <1>1, <2>1, <2>2, StoreDInv DEF EInv, CachedRatio
  <2> QED BY <1>1, <1>2, <2>3
          DEF EInv, Phases, EngineTypes, AdjustWithMvhr, locals, config, metrics
<1>3. CASE ~enable_mvhr
  <2>1. UNCHANGED vars
    BY <1>1, <1>3 DEF AdjustWithMvhr, ApplyMvhrRatio, vars
  <2>2. DInv'
    BY <2>1, NextDInv DEF EInv
  <2> QED BY <1>1, <2>1, <2>2
          DEF EInv, Phases, EngineTypes, AdjustWithMvhr, locals, config, metrics
<1> QED BY <1>2, <1>3

LEMMA ExecuteStep ==
  ASSUME EInv, NEW c \in Callers, ExecuteOnStrategy(c)
  PROVE  EInv' /\ [Next]_vars
<1>1. Next
  BY DEF ExecuteOnStrategy, Next
<1>2. DInv'
  BY <1>1, NextDInv DEF EInv
<1>3. /\ pc' = [pc EXCEPT ![c] = "idle"] /\ epc' = [epc EXCEPT ![c] = "record"]
      /\ rec' = rec /\ rec[c].quantity > 0
  BY DEF ExecuteOnStrategy, ExecuteHedge, EInv, DInv, DTypes
<1>4. Phases'
  BY <1>3 DEF EInv, DInv, DTypes, Phases
<1>5. EngineTypes'
  BY DEF EInv, EngineTypes, ExecuteOnStrategy, config, metrics
<1> QED BY <1>1, <1>2, <1>4, <1>5 DEF EInv

LEMMA RecordStep ==
  ASSUME EInv, NEW c \in Callers, RecordHedgeExecution(c)
  PROVE  EInv' /\ UNCHANGED vars
<1>1. UNCHANGED vars /\ UNCHANGED config
  BY DEF RecordHedgeExecution
<1>2. DInv'
  BY <1>1, NextDInv DEF EInv
<1>3. rec[c].quantity \in Nat
  BY DEF EInv, DInv, DTypes
<1>4. EngineTypes'
  BY <1>1, <1>3 DEF EInv, EngineTypes, RecordHedgeExecution, RecordedVolume, config
<1>5. pc' = pc /\ rec' = rec /\ pc[c] # "holding"
  BY <1>1 DEF vars, locals, EInv, Phases, RecordHedgeExecution
<1>6. Phases'
  BY <1>5 DEF EInv, Phases, RecordHedgeExecution
<1> QED BY <1>1, <1>2, <1>4, <1>6 DEF EInv

LEMMA IgnoreStep ==
  ASSUME EInv, NEW c \in Callers, IgnoreRecommendation(c)
  PROVE  EInv' /\ [Next]_vars
<1>1. Next
  BY DEF IgnoreRecommendation, Next
<1>2. DInv'
  BY <1>1, NextDInv DEF EInv
<1>3. /\ pc' = [pc EXCEPT ![c] = "idle"] /\ epc' = [epc EXCEPT ![c] = "idle"]
      /\ rec' = rec
  BY DEF IgnoreRecommendation, Ignore
<1>4. Phases'
  BY <1>3 DEF EInv, DInv, DTypes, Phases
<1>5. EngineTypes'
  BY DEF EInv, EngineTypes, IgnoreRecommendation, config, metrics
<1> QED BY <1>1, <1>2, <1>4, <1>5 DEF EInv

LEMMA EngineStutter ==
  ASSUME EInv, UNCHANGED engineVars
  PROVE  EInv' /\ UNCHANGED vars /\ UNCHANGED config
<1>1. UNCHANGED vars /\ UNCHANGED <<config, epc, metrics>>
  BY DEF engineVars
<1>2. DInv'
  BY <1>1, NextDInv DEF EInv
<1> QED BY <1>1, <1>2 DEF EInv, Phases, EngineTypes, vars, locals, config, metrics

\* Every step keeps the invariant; and a step of an engine without MVHR is a
\* step of its strategy, or leaves it alone.
LEMMA EngineNextInv ==
  ASSUME EInv, [EngineNext]_engineVars
  PROVE  EInv' /\ enable_mvhr' = enable_mvhr /\ (~enable_mvhr => [CallersNext]_vars)
<1>1. ASSUME NEW c \in Callers, DeltaRecommendation(c)
      PROVE  EInv' /\ enable_mvhr' = enable_mvhr /\ [CallersNext]_vars
  BY <1>1, RecommendationStep DEF DeltaRecommendation, config, CallersNext
<1>2. ASSUME NEW c \in Callers, AdjustWithMvhr(c)
      PROVE  EInv' /\ enable_mvhr' = enable_mvhr /\ (~enable_mvhr => UNCHANGED vars)
  BY <1>2, AdjustStep DEF AdjustWithMvhr, config
<1>3. ASSUME NEW c \in Callers, RecordHedgeExecution(c)
      PROVE  EInv' /\ enable_mvhr' = enable_mvhr /\ UNCHANGED vars
  BY <1>3, RecordStep DEF RecordHedgeExecution, config
<1>4. ASSUME NEW c \in Callers, ExecuteOnStrategy(c)
      PROVE  EInv' /\ enable_mvhr' = enable_mvhr /\ [CallersNext]_vars
  BY <1>4, ExecuteStep DEF ExecuteOnStrategy, config, CallersNext
<1>5. ASSUME NEW c \in Callers, IgnoreRecommendation(c)
      PROVE  EInv' /\ enable_mvhr' = enable_mvhr /\ [CallersNext]_vars
  BY <1>5, IgnoreStep DEF IgnoreRecommendation, config, CallersNext
<1>6. CASE UNCHANGED engineVars
  BY <1>6, EngineStutter DEF config
<1> QED BY <1>1, <1>2, <1>3, <1>4, <1>5, <1>6 DEF EngineNext, CallerStep

LEMMA EngineInvariance == EngineSpec => []EInv
<1>1. EInv /\ [EngineNext]_engineVars => EInv'
  BY EngineNextInv
<1> QED BY <1>1, EngineInitInv, PTL DEF EngineSpec

-----------------------------------------------------------------------------
(***************************************************************************)
(* Type correctness, and the engine's methods and the strategy's stay in   *)
(* step.                                                                   *)
(***************************************************************************)
THEOREM EngineTypeCorrect == EngineSpec => []EngineTypeOK
<1> DEFINE Stored == hedge_ratio \in Ratios \union {CachedRatio}
<1>1. EngineInit => Stored
  BY DEF EngineInit, Init
<1>2. Stored /\ [EngineNext]_engineVars => Stored'
  BY DEF EngineNext, CallerStep, DeltaRecommendation, AdjustWithMvhr, ApplyMvhrRatio,
         StoreHedgeRatio, RecordHedgeExecution, ExecuteOnStrategy, IgnoreRecommendation,
         GetRecommendation, LoadPosition, LoadRatio, RecommendNothing, RecommendHedge,
         Recommend, ExecuteHedge, Ignore, engineVars, vars, atomics
<1>3. EInv /\ Stored => EngineTypeOK
  BY DEF EInv, Phases, EngineTypes, EngineTypeOK
<1> QED BY <1>1, <1>2, <1>3, EngineInvariance, PTL DEF EngineSpec

(***************************************************************************)
(* The hedge follows the orders of any number of callers, with MVHR too: a *)
(* store of the ratio moves neither.                                       *)
(***************************************************************************)
THEOREM EngineHedgeFollowsOrders == EngineSpec => []HedgeFollowsOrders
<1>1. EngineInit => HedgeFollowsOrders
  BY DEF EngineInit, Init, HedgeFollowsOrders, Abs
<1>2. EInv /\ HedgeFollowsOrders /\ [EngineNext]_engineVars => HedgeFollowsOrders'
  <2> SUFFICES ASSUME EInv, HedgeFollowsOrders, [EngineNext]_engineVars
               PROVE  HedgeFollowsOrders'
    OBVIOUS
  <2>1. ASSUME NEW c \in Callers, AdjustWithMvhr(c) PROVE HedgeFollowsOrders'
    BY <2>1 DEF AdjustWithMvhr, ApplyMvhrRatio, StoreHedgeRatio, atomics, history,
                HedgeFollowsOrders
  <2>2. ASSUME [Next]_vars PROVE HedgeFollowsOrders'
    BY <2>2, NextHedgeFollowsOrders DEF EInv
  <2>3. ASSUME NEW c \in Callers,
               DeltaRecommendation(c) \/ ExecuteOnStrategy(c) \/ IgnoreRecommendation(c)
        PROVE  HedgeFollowsOrders'
    BY <2>2, <2>3, RecommendationStep, ExecuteStep, IgnoreStep
  <2>4. ASSUME NEW c \in Callers, RecordHedgeExecution(c) PROVE HedgeFollowsOrders'
    BY <2>2, <2>4, RecordStep
  <2>5. CASE UNCHANGED engineVars
    BY <2>2, <2>5, EngineStutter
  <2> QED BY <2>1, <2>3, <2>4, <2>5 DEF EngineNext, CallerStep
<1> QED BY <1>1, <1>2, EngineInvariance, PTL DEF EngineSpec

(***************************************************************************)
(* Two callers of an engine without MVHR: however they interleave the      *)
(* hedge is off its target by no more than the target, they may double it  *)
(* and never turn it to the wrong side.                                    *)
(***************************************************************************)
THEOREM OverhedgeBoundedHolds ==
  ASSUME NEW a, NEW b, Callers = {a, b}
  PROVE  EngineSpec => []OverhedgeBounded
<1> DEFINE J == ~enable_mvhr => TwoInv
<1>1. EngineInit /\ EInv => J
  BY TwoInit DEF EngineInit, EInv
<1>2. EInv /\ J /\ [EngineNext]_engineVars => J'
  <2> SUFFICES ASSUME EInv, J, [EngineNext]_engineVars PROVE J'
    OBVIOUS
  <2>1. enable_mvhr' = enable_mvhr /\ (~enable_mvhr => [CallersNext]_vars)
    BY EngineNextInv
  <2> QED BY <2>1, TwoNext DEF EInv
<1>3. EInv /\ J => OverhedgeBounded
  BY TwoGap DEF EInv, OverhedgeBounded
<1> QED BY <1>1, <1>2, <1>3, EngineInvariance, PTL DEF EngineSpec
-----------------------------------------------------------------------------
(***************************************************************************)
(* The life of an engine as long as one caller alone has been given        *)
(* recommendations.  The MVHR ratio is stored before the first of them can *)
(* be executed, and is the same every time; so after one execution the     *)
(* ratio is final, and what the caller loads is fresh.  The others may ask *)
(* too, but what they do changes nothing as long as they get no answer.    *)
(***************************************************************************)
Alone(c) == \A d \in Callers \ {c} : rec[d] = NoRec

RatioIsFinal == enable_mvhr => hedge_ratio = CachedRatio

LifeOf(c) ==
  /\ epc[c] \in {"answer", "record"} => RatioIsFinal
  /\ executions >= 1 => RatioIsFinal /\ Fresh(c)
  /\ executions >= 2 => Abs(Target - hedge_position) <= 1
  /\ executions >= 3 => /\ Target = hedge_position
                        /\ pc[c] \notin {"urgency", "holding"}
  /\ executions <= 3

Life == \A c \in Callers : Alone(c) => LifeOf(c)

\* A caller without a recommendation is not on its way to execute one.
LEMMA WithoutRecommendation ==
  ASSUME EInv, NEW d \in Callers, rec[d] = NoRec
  PROVE  epc[d] = "idle"
<1>1. rec[d].quantity = 0
  BY DEF NoRec
<1>2. epc[d] # "record"
  BY <1>1 DEF EInv, Phases
<1>3. pc[d] # "holding"
  BY <1>1 DEF EInv, DInv, DTypes
<1> QED BY <1>2, <1>3 DEF EInv, Phases

\* Another caller's loads and arithmetic do not concern this one.
LEMMA LifeOthers ==
  ASSUME EInv, NEW c \in Callers, NEW d \in Callers, d # c, LifeOf(c),
         DeltaRecommendation(d)
  PROVE  LifeOf(c)'
<1>1. GetRecommendation(d) /\ UNCHANGED config
  BY DEF DeltaRecommendation
<1>2. UNCHANGED <<position, hedge_ratio, hedge_position, Target, executions>>
  BY <1>1, FreshRecommendation DEF EInv
<1>3. /\ pc'[c] = pc[c] /\ spos'[c] = spos[c] /\ sratio'[c] = sratio[c]
      /\ delta'[c] = delta[c]
  BY <1>1 DEF GetRecommendation, LoadPosition, LoadRatio, RecommendNothing, RecommendHedge,
              Recommend, EInv, DInv, DTypes
<1>4. epc'[c] = epc[c]
  BY DEF DeltaRecommendation, EInv, Phases
<1>5. Fresh(c)' <=> Fresh(c)
  BY <1>2, <1>3 DEF Fresh, Loading
<1>6. RatioIsFinal' <=> RatioIsFinal
  BY <1>1, <1>2 DEF RatioIsFinal, config
<1> QED BY <1>2, <1>3, <1>4, <1>5, <1>6 DEF LifeOf

LEMMA LifeRecommendation ==
  ASSUME EInv, NEW c \in Callers, LifeOf(c), DeltaRecommendation(c)
  PROVE  LifeOf(c)'
<1>1. GetRecommendation(c) /\ UNCHANGED config
  BY DEF DeltaRecommendation
<1>2. UNCHANGED <<position, hedge_ratio, hedge_position, Target, executions>>
      /\ (Fresh(c) => Fresh(c)')
  BY <1>1, FreshRecommendation DEF EInv
<1>3. epc'[c] \in {"idle", "mvhr"}
  BY DEF DeltaRecommendation, EInv, Phases
<1>4. RatioIsFinal' <=> RatioIsFinal
  BY <1>1, <1>2 DEF RatioIsFinal, config
<1>5. executions >= 3 => pc'[c] \notin {"urgency", "holding"}
  <2> SUFFICES ASSUME executions >= 3 PROVE pc'[c] \notin {"urgency", "holding"}
    OBVIOUS
  <2>1. executions \in Nat
    BY BoundsAssumption DEF EInv, DInv, DTypes
  <2>2. Fresh(c) /\ Target = hedge_position /\ pc[c] \notin {"urgency", "holding"}
    BY <2>1 DEF LifeOf
  <2> QED BY <1>1, <2>2, NothingAtTarget DEF EInv
<1> QED BY <1>2, <1>3, <1>4, <1>5 DEF LifeOf

\* Once an execution has taken place the ratio stored is the one it has.
LEMMA LifeAdjust ==
  ASSUME EInv, NEW c \in Callers, LifeOf(c), AdjustWithMvhr(c)
  PROVE  LifeOf(c)'
<1>1. UNCHANGED <<locals, updates, config>> /\ epc'[c] = "answer"
  BY DEF AdjustWithMvhr, EInv, Phases
<1>2. /\ UNCHANGED <<position, hedge_position, executions>>
      /\ hedge_ratio' = IF enable_mvhr THEN CachedRatio ELSE hedge_ratio
  BY DEF AdjustWithMvhr, ApplyMvhrRatio, StoreHedgeRatio, atomics, history
<1>3. RatioIsFinal'
  BY <1>1, <1>2 DEF RatioIsFinal, config
<1>4. executions >= 1 => UNCHANGED <<hedge_ratio, Target>> /\ (Fresh(c) => Fresh(c)')
  <2> SUFFICES ASSUME executions >= 1
               PROVE  UNCHANGED <<hedge_ratio, Target>> /\ (Fresh(c) => Fresh(c)')
    OBVIOUS
  <2>1. hedge_ratio' = hedge_ratio
    BY <1>2 DEF LifeOf, RatioIsFinal
  <2>2. Target' = Target
    BY <1>2, <2>1 DEF Target
  <2>3. Fresh(c) => Fresh(c)'
    BY <1>1, <1>2, <2>1, <2>2 DEF Fresh, Loading, locals
  <2> QED BY <2>1, <2>2, <2>3
<1>5. pc' = pc /\ executions \in Nat
  BY <1>1, BoundsAssumption DEF locals, EInv, DInv, DTypes
<1> QED BY <1>2, <1>3, <1>4, <1>5 DEF LifeOf

LEMMA LifeExecute ==
  ASSUME EInv, NEW c \in Callers, LifeOf(c), ExecuteOnStrategy(c)
  PROVE  LifeOf(c)'
<1>1. /\ ExecuteHedge(c) /\ UNCHANGED config /\ epc[c] = "answer"
      /\ executions' = executions + 1 /\ pc[c] = "holding"
  BY DEF ExecuteOnStrategy, ExecuteHedge
<1>2. executions \in Nat
  BY BoundsAssumption DEF EInv, DInv, DTypes
<1>3. /\ UNCHANGED <<position, hedge_ratio, Target>>
      /\ Fresh(c)' /\ pc'[c] = "idle"
      /\ Fresh(c) => Abs(Target' - hedge_position') <= 1
      /\ Fresh(c) /\ Abs(Target - hedge_position) <= 1 => Target' = hedge_position'
  BY <1>1, FreshExecution DEF EInv
<1>4. RatioIsFinal'
  BY <1>1, <1>3 DEF LifeOf, RatioIsFinal, config
<1>5. executions' <= 3
  BY <1>1, <1>2 DEF LifeOf
<1>6. executions' >= 2 => Abs(Target' - hedge_position') <= 1
  BY <1>1, <1>2, <1>3 DEF LifeOf
<1>7. executions' >= 3 => Target' = hedge_position'
  BY <1>1, <1>2, <1>3 DEF LifeOf
<1> QED BY <1>3, <1>4, <1>5, <1>6, <1>7 DEF LifeOf

\* Steps that leave the strategy's atomics and loads alone.
LEMMA LifeQuiet ==
  ASSUME EInv, NEW c \in Callers, LifeOf(c), UNCHANGED config,
         UNCHANGED <<atomics, spos, sratio, delta, executions>>,
         pc'[c] = pc[c] \/ pc'[c] = "idle", epc'[c] = epc[c] \/ epc'[c] = "idle"
  PROVE  LifeOf(c)'
<1>1. UNCHANGED <<position, hedge_ratio, hedge_position, Target>>
  BY DEF atomics, Target
<1>2. Fresh(c) => Fresh(c)'
  BY <1>1 DEF Fresh, Loading
<1>3. RatioIsFinal' <=> RatioIsFinal
  BY <1>1 DEF RatioIsFinal, config
<1> QED BY <1>1, <1>2, <1>3 DEF LifeOf

\* Who has been given a recommendation has been given one for ever.
LEMMA AloneBefore ==
  ASSUME EInv, [EngineNext]_engineVars, NEW c \in Callers, Alone(c)'
  PROVE  Alone(c)
<1> SUFFICES ASSUME NEW d \in Callers \ {c} PROVE rec[d] = NoRec
  BY DEF Alone
<1>1. rec'[d] = NoRec
  BY DEF Alone
<1>2. CASE rec' = rec
  BY <1>1, <1>2
<1>3. ASSUME NEW e \in Callers, DeltaRecommendation(e), rec' # rec PROVE rec[d] = NoRec
  <2>1. Recommend(e)
    BY <1>3 DEF DeltaRecommendation, GetRecommendation, LoadPosition, LoadRatio,
                RecommendNothing, RecommendHedge
  <2>2. e # d
    <3> SUFFICES ASSUME e = d PROVE FALSE
      OBVIOUS
    <3>1. EInv' /\ pc'[d] = "holding"
      BY <1>3, <2>1, RecommendationStep DEF Recommend, EInv, DInv, DTypes
    <3>2. rec'[d].quantity > 0
      BY <3>1 DEF EInv, DInv, DTypes
    <3> QED BY <1>1, <3>2 DEF NoRec
  <2> QED BY <1>1, <2>1, <2>2 DEF Recommend, EInv, DInv, DTypes
<1>4. ASSUME NEW e \in Callers, \/ AdjustWithMvhr(e) \/ RecordHedgeExecution(e)
                                \/ ExecuteOnStrategy(e) \/ IgnoreRecommendation(e)
      PROVE  rec' = rec
  BY <1>4 DEF AdjustWithMvhr, RecordHedgeExecution, ExecuteOnStrategy, ExecuteHedge,
              IgnoreRecommendation, Ignore, vars, locals
<1>5. UNCHANGED engineVars => rec' = rec
  BY DEF engineVars, vars, locals
<1> QED BY <1>2, <1>3, <1>4, <1>5 DEF EngineNext, CallerStep

LEMMA LifeNext ==
  ASSUME EInv, Life, [EngineNext]_engineVars
  PROVE  Life'
<1> SUFFICES ASSUME NEW c \in Callers, Alone(c)' PROVE LifeOf(c)'
  BY DEF Life
<1>1. Alone(c) /\ LifeOf(c)
  BY AloneBefore DEF Life
<1>2. \A d \in Callers : d # c => epc[d] = "idle"
  BY <1>1, WithoutRecommendation DEF Alone
<1>3. ASSUME NEW d \in Callers, DeltaRecommendation(d) PROVE LifeOf(c)'
  BY <1>1, <1>3, LifeOthers, LifeRecommendation
<1>4. ASSUME NEW d \in Callers, AdjustWithMvhr(d) PROVE LifeOf(c)'
  <2>1. d = c
    BY <1>2, <1>4 DEF AdjustWithMvhr
  <2> QED BY <1>1, <1>4, <2>1, LifeAdjust
<1>5. ASSUME NEW d \in Callers, ExecuteOnStrategy(d) PROVE LifeOf(c)'
  <2>1. d = c
    BY <1>2, <1>5 DEF ExecuteOnStrategy
  <2> QED BY <1>1, <1>5, <2>1, LifeExecute
<1>6. ASSUME NEW d \in Callers, RecordHedgeExecution(d) PROVE LifeOf(c)'
  <2>1. UNCHANGED <<atomics, spos, sratio, delta, executions, pc>> /\ UNCHANGED config
    BY <1>6 DEF RecordHedgeExecution, vars, locals, history
  <2>2. epc'[c] = epc[c] \/ epc'[c] = "idle"
    BY <1>6 DEF RecordHedgeExecution, EInv, Phases
  <2> QED BY <1>1, <2>1, <2>2, LifeQuiet
<1>7. ASSUME NEW d \in Callers, IgnoreRecommendation(d) PROVE LifeOf(c)'
  <2>1. UNCHANGED <<atomics, spos, sratio, delta, executions>> /\ UNCHANGED config
    BY <1>7 DEF IgnoreRecommendation, Ignore, history
  <2>2. /\ pc'[c] = pc[c] \/ pc'[c] = "idle"
        /\ epc'[c] = epc[c] \/ epc'[c] = "idle"
    BY <1>7 DEF IgnoreRecommendation, Ignore, EInv, DInv, DTypes, Phases
  <2> QED BY <1>1, <2>1, <2>2, LifeQuiet
<1>8. CASE UNCHANGED engineVars
  <2>1. UNCHANGED <<atomics, spos, sratio, delta, executions, pc, epc>> /\ UNCHANGED config
    BY <1>8 DEF engineVars, vars, locals, history
  <2> QED BY <1>1, <2>1, LifeQuiet
<1> QED BY <1>3, <1>4, <1>5, <1>6, <1>7, <1>8 DEF EngineNext, CallerStep

(***************************************************************************)
(* As long as a single caller has been given recommendations it trades at  *)
(* most three times in the life of the engine, with MVHR and without,      *)
(* whoever else asks in the meantime.                                      *)
(***************************************************************************)
THEOREM AtMostThreeTradesHolds == EngineSpec => []AtMostThreeTrades
<1>1. EngineInit => Life
  BY DEF EngineInit, Init, Life, LifeOf
<1>2. EInv /\ Life /\ [EngineNext]_engineVars => Life'
  BY LifeNext
<1>3. Life => AtMostThreeTrades
  BY DEF Life, LifeOf, Alone, AtMostThreeTrades
<1> QED BY <1>1, <1>2, <1>3, EngineInvariance, PTL DEF EngineSpec
-----------------------------------------------------------------------------
(***************************************************************************)
(* The metrics.  Between its two updates a caller is in "record", and what *)
(* it has executed is among the amounts that are not recorded yet; the     *)
(* hedge moves by no more than that amount.  Any number of callers may be  *)
(* there, but only finitely many at a time.                                *)
(***************************************************************************)
Uncounted ==
  /\ IsFiniteSet(Recording) /\ IsFiniteSet(Unrecorded)
  /\ MetricsCoverHedge

\* An amount of n is a set of n hundredths.
LEMMA AmountSize ==
  ASSUME EInv, NEW c \in Callers
  PROVE  /\ IsFiniteSet(Amount(c)) /\ Cardinality(Amount(c)) = rec[c].quantity
         /\ rec[c].quantity \in Nat
<1> DEFINE n == rec[c].quantity
<1>1. n \in Nat
  BY DEF EInv, DInv, DTypes
<1> HIDE DEF n
<1>2. IsFiniteSet(1..n) /\ Cardinality(1..n) = n
  <2>1. IsFiniteSet(1..n) /\ Cardinality(1..n) = IF 1 > n THEN 0 ELSE n - 1 + 1
    BY <1>1, FS_Interval
  <2> QED BY <1>1, <2>1
<1>3. IsFiniteSet({c}) /\ Cardinality({c}) = 1
  BY FS_Singleton
<1>4. IsFiniteSet({c} \X (1..n)) /\ Cardinality({c} \X (1..n)) = 1 * n
  BY <1>2, <1>3, FS_Product
<1>5. Amount(c) = {c} \X (1..n)
  BY DEF Amount, n
<1> QED BY <1>1, <1>4, <1>5 DEF n

\* The amounts of different callers are apart.
LEMMA AmountsApart ==
  ASSUME NEW c, NEW R, c \notin R
  PROVE  (UNION {Amount(d) : d \in R}) \cap Amount(c) = {}
  BY DEF Amount

\* The volume of one more caller.
LEMMA AmountAdded ==
  ASSUME EInv, NEW c \in Callers, NEW R, c \notin R,
         IsFiniteSet(UNION {Amount(d) : d \in R})
  PROVE  /\ IsFiniteSet(UNION {Amount(d) : d \in R \union {c}})
         /\ Cardinality(UNION {Amount(d) : d \in R \union {c}})
              = Cardinality(UNION {Amount(d) : d \in R}) + rec[c].quantity
<1> DEFINE U == UNION {Amount(d) : d \in R}
<1>1. UNION {Amount(d) : d \in R \union {c}} = U \union Amount(c)
  OBVIOUS
<1>2. U \cap Amount(c) = {}
  BY AmountsApart
<1>3. /\ IsFiniteSet(Amount(c)) /\ Cardinality(Amount(c)) = rec[c].quantity
      /\ rec[c].quantity \in Nat
  BY AmountSize
<1> HIDE DEF U
<1>4. IsFiniteSet(U)
  BY DEF U
<1>5. /\ IsFiniteSet(U \union Amount(c))
      /\ Cardinality(U \union Amount(c))
           = Cardinality(U) + Cardinality(Amount(c)) - Cardinality(U \cap Amount(c))
  BY <1>3, <1>4, FS_Union
<1>6. Cardinality(U \cap Amount(c)) = 0 /\ Cardinality(U) \in Nat
  BY <1>2, <1>4, FS_EmptySet, FS_CardinalityType
<1>7. Cardinality(U \union Amount(c)) = Cardinality(U) + rec[c].quantity
  BY <1>3, <1>5, <1>6
<1> QED BY <1>1, <1>5, <1>7 DEF U

\* The hedge moves by at most the amount recommended.
LEMMA ChangeBounded ==
  ASSUME EInv, NEW c \in Callers, ExecuteHedge(c)
  PROVE  Abs(hedge_position') <= Abs(hedge_position) + rec[c].quantity
<1>1. /\ Change(c) \in Int /\ delta[c] \in Int
      /\ delta[c] > 0 => Change(c) > 0 /\ (Change(c) = delta[c] \/ Change(c) = delta[c] - 1)
      /\ delta[c] < 0 => Change(c) < 0 /\ (Change(c) = delta[c] \/ Change(c) = delta[c] + 1)
      /\ delta[c] # 0
  BY ChangeNear DEF ExecuteHedge, EInv
<1>2. rec[c].quantity = Abs(delta[c])
  BY DEF ExecuteHedge, EInv, DInv, RecMatches
<1>3. hedge_position' = hedge_position + Change(c) /\ hedge_position \in Int
  BY AtomicsInt DEF ExecuteHedge, FetchAdd, Change, EInv, DInv
<1> QED BY <1>1, <1>2, <1>3 DEF Abs

\* Steps that move neither the hedge nor the metrics, nor what callers in
\* "record" hold.
LEMMA UncountedQuiet ==
  ASSUME Uncounted, UNCHANGED <<hedge_position, executions, metrics>>, Recording' = Recording,
         \A c \in Recording : rec'[c] = rec[c]
  PROVE  Uncounted'
<1>1. Unrecorded' = Unrecorded
  <2>1. \A c \in Recording : Amount(c)' = Amount(c)
    BY DEF Amount
  <2> QED BY <2>1 DEF Unrecorded
<1> QED BY <1>1 DEF Uncounted, MetricsCoverHedge, metrics

LEMMA UncountedRecommendation ==
  ASSUME EInv, Uncounted, NEW c \in Callers, DeltaRecommendation(c)
  PROVE  Uncounted'
<1>1. UNCHANGED <<hedge_position, executions, metrics>>
  BY FreshRecommendation DEF DeltaRecommendation, EInv
<1>2. /\ epc[c] = "idle" /\ epc'[c] # "record"
      /\ \A d \in Callers : d # c => epc'[d] = epc[d] /\ rec'[d] = rec[d]
  BY DEF DeltaRecommendation, GetRecommendation, LoadPosition, LoadRatio, RecommendNothing,
         RecommendHedge, Recommend, EInv, DInv, DTypes, Phases
<1>3. Recording' = Recording /\ \A d \in Recording : rec'[d] = rec[d]
  BY <1>2 DEF Recording
<1> QED BY <1>1, <1>3, UncountedQuiet

LEMMA UncountedExecute ==
  ASSUME EInv, Uncounted, NEW c \in Callers, ExecuteOnStrategy(c)
  PROVE  Uncounted'
<1>1. /\ ExecuteHedge(c) /\ rec' = rec /\ executions' = executions + 1
      /\ UNCHANGED metrics
  BY DEF ExecuteOnStrategy, ExecuteHedge
<1>2. Recording' = Recording \union {c} /\ c \notin Recording
  BY DEF ExecuteOnStrategy, Recording, EInv, Phases
<1>3. IsFiniteSet(Recording') /\ Cardinality(Recording') = Cardinality(Recording) + 1
  BY <1>2, FS_AddElement DEF Uncounted
<1>4. Unrecorded' = UNION {Amount(d) : d \in Recording \union {c}}
  BY <1>1, <1>2 DEF Unrecorded, Amount
<1>5. /\ IsFiniteSet(Unrecorded')
      /\ Cardinality(Unrecorded') = Cardinality(Unrecorded) + rec[c].quantity
  BY <1>2, <1>4, AmountAdded DEF Uncounted, Unrecorded
<1>6. /\ Abs(hedge_position') <= Abs(hedge_position) + rec[c].quantity
      /\ Abs(hedge_position) \in Int /\ Abs(hedge_position') \in Int
  <2>1. hedge_position \in Int /\ hedge_position' \in Int
    BY ExecuteStep DEF EInv, DInv, DTypes
  <2> QED BY <1>1, <2>1, ChangeBounded, AbsNat
<1>7. /\ Cardinality(Recording) \in Nat /\ Cardinality(Unrecorded) \in Nat
      /\ rec[c].quantity \in Nat /\ executions \in Nat
      /\ hedges_executed \in Nat /\ total_hedge_volume \in Nat
  BY FS_CardinalityType, BoundsAssumption, AmountSize
     DEF Uncounted, EInv, DInv, DTypes, EngineTypes
<1>8. hedges_executed' + Cardinality(Recording') = executions'
  BY <1>1, <1>3, <1>7 DEF Uncounted, MetricsCoverHedge, metrics
<1>9. Abs(hedge_position') <= total_hedge_volume' + Cardinality(Unrecorded')
  BY <1>1, <1>5, <1>6, <1>7 DEF Uncounted, MetricsCoverHedge, metrics
<1> QED BY <1>3, <1>5, <1>8, <1>9 DEF Uncounted, MetricsCoverHedge

LEMMA UncountedRecord ==
  ASSUME EInv, Uncounted, NEW c \in Callers, RecordHedgeExecution(c)
  PROVE  Uncounted'
<1>1. /\ UNCHANGED <<rec, hedge_position, executions>>
      /\ hedges_executed' = hedges_executed + 1
      /\ total_hedge_volume' = total_hedge_volume + rec[c].quantity
  BY DEF RecordHedgeExecution, RecordedVolume, vars, locals, atomics, history
<1>2. /\ c \in Recording /\ Recording' = Recording \ {c}
      /\ Recording = Recording' \union {c} /\ c \notin Recording'
  BY DEF RecordHedgeExecution, Recording, EInv, Phases
<1>3. IsFiniteSet(Recording') /\ Cardinality(Recording') = Cardinality(Recording) - 1
  BY <1>2, FS_RemoveElement DEF Uncounted
<1>4. /\ Unrecorded' = UNION {Amount(d) : d \in Recording'}
      /\ Unrecorded = UNION {Amount(d) : d \in Recording' \union {c}}
  BY <1>1, <1>2 DEF Unrecorded, Amount
<1>5. IsFiniteSet(Unrecorded')
  <2>1. Unrecorded' \subseteq Unrecorded
    BY <1>4
  <2> QED BY <2>1, FS_Subset DEF Uncounted
<1>6. Cardinality(Unrecorded) = Cardinality(Unrecorded') + rec[c].quantity
  BY <1>2, <1>4, <1>5, AmountAdded
<1>7. /\ Cardinality(Recording) \in Nat /\ Cardinality(Unrecorded') \in Nat
      /\ rec[c].quantity \in Nat /\ executions \in Nat
      /\ hedges_executed \in Nat /\ total_hedge_volume \in Nat
  BY <1>5, FS_CardinalityType, BoundsAssumption, AmountSize
     DEF Uncounted, EInv, DInv, DTypes, EngineTypes
<1>8. Abs(hedge_position) \in Int
  BY AbsNat DEF EInv, DInv, DTypes
<1>9. hedges_executed' + Cardinality(Recording') = executions'
  BY <1>1, <1>3, <1>7 DEF Uncounted, MetricsCoverHedge
<1>10. Abs(hedge_position') <= total_hedge_volume' + Cardinality(Unrecorded')
  BY <1>1, <1>6, <1>7, <1>8 DEF Uncounted, MetricsCoverHedge
<1> QED BY <1>3, <1>5, <1>9, <1>10 DEF Uncounted, MetricsCoverHedge

LEMMA UncountedNext ==
  ASSUME EInv, Uncounted, [EngineNext]_engineVars
  PROVE  Uncounted'
<1>1. ASSUME NEW c \in Callers, AdjustWithMvhr(c) PROVE Uncounted'
  <2>1. UNCHANGED <<hedge_position, executions, metrics, rec>>
    BY <1>1 DEF AdjustWithMvhr, ApplyMvhrRatio, StoreHedgeRatio, atomics, history, locals
  <2>2. Recording' = Recording
    BY <1>1 DEF AdjustWithMvhr, Recording, EInv, Phases
  <2> QED BY <2>1, <2>2, UncountedQuiet
<1>2. ASSUME NEW c \in Callers, IgnoreRecommendation(c) PROVE Uncounted'
  <2>1. UNCHANGED <<hedge_position, executions, metrics, rec>>
    BY <1>2 DEF IgnoreRecommendation, Ignore, atomics, history
  <2>2. Recording' = Recording
    BY <1>2 DEF IgnoreRecommendation, Recording, EInv, Phases
  <2> QED BY <2>1, <2>2, UncountedQuiet
<1>3. CASE UNCHANGED engineVars
  <2>1. UNCHANGED <<hedge_position, executions, metrics, rec, epc>>
    BY <1>3 DEF engineVars, vars, atomics, locals, history
  <2>2. Recording' = Recording
    BY <2>1 DEF Recording
  <2> QED BY <2>1, <2>2, UncountedQuiet
<1> QED BY <1>1, <1>2, <1>3, UncountedRecommendation, UncountedExecute, UncountedRecord
        DEF EngineNext, CallerStep

(***************************************************************************)
(* The metrics catch up with the strategy, for any number of callers: the  *)
(* executions are those counted and those of callers still in              *)
(* execute_hedge, and the volume covers the hedge that is on.              *)
(***************************************************************************)
THEOREM MetricsCoverHedgeHolds == EngineSpec => []MetricsCoverHedge
<1>1. EngineInit => Uncounted
  <2> SUFFICES ASSUME EngineInit PROVE Uncounted
    OBVIOUS
  <2>1. Recording = {} /\ Unrecorded = {}
    BY DEF EngineInit, Recording, Unrecorded
  <2>2. /\ hedges_executed = 0 /\ executions = 0
        /\ hedge_position = 0 /\ total_hedge_volume = 0
    BY DEF EngineInit, Init
  <2>3. Abs(0) = 0
    BY DEF Abs
  <2> QED BY <2>1, <2>2, <2>3, FS_EmptySet DEF Uncounted, MetricsCoverHedge
<1>2. EInv /\ Uncounted /\ [EngineNext]_engineVars => Uncounted'
  BY UncountedNext
<1>3. Uncounted => MetricsCoverHedge
  BY DEF Uncounted
<1> QED BY <1>1, <1>2, <1>3, EngineInvariance, PTL DEF EngineSpec
=============================================================================
