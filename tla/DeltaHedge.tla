----------------------------- MODULE DeltaHedge -----------------------------
(***************************************************************************)
(* DeltaHedge (src/hedging/delta.rs): three independent atomics, read one  *)
(* after the other by calculate_hedge_delta, and the recommendation that a *)
(* caller executes some time later.                                        *)
(*                                                                         *)
(* Every atomic access is a step of its own.  Amounts keep the code's      *)
(* fixed point: positions in hundredths of a MWh, ratios in ten-thousands. *)
(* A recommendation carries |delta|/100.0, an f64; executing it computes   *)
(* (q * 100.0) as i64, which for some integers comes out one lower.        *)
(***************************************************************************)
EXTENDS Integers, FiniteSets

CONSTANTS
  Callers,        \* threads that ask for recommendations and execute them
  Positions,      \* what new() and update_position() store
  Ratios,         \* what new() and update_hedge_ratio() store
  ThresholdBps,   \* threshold_bps
  LossyCents,     \* the n with ((n as f64 / 100.0) * 100.0) as i64 = n - 1
  MaxUpdates,     \* bound on the changes of position or ratio
  MaxExecutions   \* bound on the executions

RatioScale == 10000   \* hedge_ratio is the ratio times this
BpsScale == 10000     \* basis points

ASSUME AmountsAssumption == Positions \subseteq Int /\ Ratios \subseteq Int
ASSUME ThresholdAssumption == ThresholdBps \in Nat
ASSUME LossyAssumption == LossyCents \subseteq {n \in Nat : n > 1}
ASSUME BoundsAssumption == MaxUpdates \in Nat /\ MaxExecutions \in Nat

VARIABLES
  position, hedge_ratio, hedge_position,  \* the three atomics
  pc,       \* per caller, where it is in get_recommendation/execute_hedge
  spos,     \* per caller, the position it loaded
  sratio,   \* per caller, the ratio it loaded
  delta,    \* per caller, the delta it computed
  rec,      \* per caller, its last recommendation
  updates,  \* number of changes of position or ratio so far
  executions,  \* number of executions so far
  truths,   \* history: the deltas that were true during a caller's loads
  torn,     \* history: whether the position and after it the ratio were
            \* stored between a caller's loads of the two
  ordered,  \* history: sum of the signed recommended amounts executed
  trades    \* history: executions since the last change

atomics == <<position, hedge_ratio, hedge_position>>
locals == <<pc, spos, sratio, delta, rec>>
witness == <<truths, torn>>
history == <<executions, ordered, trades>>
vars == <<atomics, locals, updates, witness, history>>

Abs(n) == IF n >= 0 THEN n ELSE -n
\* Rust's integer division: it truncates towards zero.
TruncDiv(a, b) == IF a >= 0 THEN a \div b ELSE -((-a) \div b)

\* -position * ratio / 10000 - current_hedge.
DeltaOfFloor(p, r, h) == (((-p) * r) \div RatioScale) - h
DeltaOf(p, r, h) == TruncDiv((-p) * r, RatioScale) - h

\* Some(delta) or None; and without the abs() of the relative delta.
NeedsHedgeSigned(d, h) ==
  \/ h # 0 /\ TruncDiv(d * BpsScale, Abs(h)) > ThresholdBps
  \/ h = 0 /\ d # 0
NeedsHedge(d, h) ==
  \/ h # 0 /\ Abs(TruncDiv(d * BpsScale, Abs(h))) > ThresholdBps
  \/ h = 0 /\ d # 0

\* delta.abs(), and the side of the book.
QuantitySigned(d) == d
Quantity(d) == Abs(d)
SideOfSwapped(d) == IF d > 0 THEN "Bid" ELSE "Ask"
SideOf(d) == IF d > 0 THEN "Ask" ELSE "Bid"

\* delta.abs() > position.abs() * 0.10 in f64; when the two are equal the
\* product may be rounded either way.
Urgencies(d, p) == {u \in {"High", "Normal"} :
                      /\ u = "High" => 10 * Abs(d) >= Abs(p)
                      /\ u = "Normal" => 10 * Abs(d) <= Abs(p)}

\* (quantity * 100.0) as i64, and its sign.
Cents(q) == IF q \in LossyCents THEN q - 1 ELSE q
Signed(n, side) == IF side = "Ask" THEN n ELSE -n

\* hedge_position.fetch_add(x), and a store of the target instead.
FetchAddNot(c, x) == DeltaOf(spos[c], sratio[c], 0)
FetchAdd(c, x) == hedge_position + x

-----------------------------------------------------------------------------
\* What the delta should be: the position times the ratio with the opposite
\* sign, whole hundredths only, less what is hedged already.
TrueDelta ==
  LET size == (Abs(position) * Abs(hedge_ratio)) \div RatioScale
      short == (position < 0) = (hedge_ratio > 0)
  IN (IF short THEN size ELSE -size) - hedge_position

Loading(c) == pc[c] \in {"ratio", "hedge"}

\* History: what a caller that is loading could have computed.
Observe == truths' = [c \in Callers |->
                        IF Loading(c) THEN truths[c] \union {TrueDelta'} ELSE truths[c]]

NoRec == [quantity |-> 0, side |-> "Bid", urgency |-> "Normal"]

Init ==
  /\ position \in Positions
  /\ hedge_ratio \in Ratios
  /\ hedge_position = 0
  /\ pc = [c \in Callers |-> "idle"]
  /\ spos = [c \in Callers |-> 0]
  /\ sratio = [c \in Callers |-> 0]
  /\ delta = [c \in Callers |-> 0]
  /\ rec = [c \in Callers |-> NoRec]
  /\ updates = 0
  /\ executions = 0
  /\ truths = [c \in Callers |-> {}]
  /\ torn = [c \in Callers |-> "no"]
  /\ ordered = 0
  /\ trades = 0

(***************************************************************************)
(* update_position and update_hedge_ratio: one Release store each.         *)
(***************************************************************************)
UpdatePosition(p) ==
  /\ updates < MaxUpdates
  /\ position' = p
  /\ updates' = updates + 1
  /\ trades' = IF p = position THEN trades ELSE 0
  /\ torn' = [c \in Callers |-> IF pc[c] = "ratio" /\ torn[c] = "no" THEN "moved"
                                 ELSE torn[c]]
  /\ UNCHANGED <<hedge_ratio, hedge_position, locals, executions, ordered>>
  /\ Observe

\* The store, whoever makes it.
StoreHedgeRatio(r) ==
  /\ hedge_ratio' = r
  /\ trades' = IF r = hedge_ratio THEN trades ELSE 0
  /\ torn' = [c \in Callers |-> IF pc[c] = "ratio" /\ torn[c] = "moved" THEN "yes"
                                 ELSE torn[c]]
  /\ UNCHANGED <<position, hedge_position, executions, ordered>>
  /\ Observe

UpdateHedgeRatio(r) ==
  /\ updates < MaxUpdates
  /\ updates' = updates + 1
  /\ StoreHedgeRatio(r)
  /\ UNCHANGED locals

(***************************************************************************)
(* get_recommendation.  calculate_hedge_delta loads the position, then the *)
(* ratio, then the hedge.                                                  *)
(***************************************************************************)
LoadPosition(c) ==
  /\ pc[c] = "idle"
  /\ spos' = [spos EXCEPT ![c] = position]
  /\ pc' = [pc EXCEPT ![c] = "ratio"]
  /\ truths' = [truths EXCEPT ![c] = {TrueDelta}]
  /\ torn' = [torn EXCEPT ![c] = "no"]
  /\ UNCHANGED <<atomics, sratio, delta, rec, updates, history>>

LoadRatio(c) ==
  /\ pc[c] = "ratio"
  /\ sratio' = [sratio EXCEPT ![c] = hedge_ratio]
  /\ pc' = [pc EXCEPT ![c] = "hedge"]
  /\ UNCHANGED <<atomics, spos, delta, rec, updates, witness, history>>

\* The load of hedge_position, the arithmetic and the threshold.
LoadedDelta(c) == DeltaOf(spos[c], sratio[c], hedge_position)

RecommendNothing(c) ==
  /\ pc[c] = "hedge"
  /\ ~NeedsHedge(LoadedDelta(c), hedge_position)
  /\ pc' = [pc EXCEPT ![c] = "idle"]
  /\ delta' = [delta EXCEPT ![c] = LoadedDelta(c)]
  /\ UNCHANGED <<atomics, spos, sratio, rec, updates, witness, history>>

RecommendHedge(c) ==
  /\ pc[c] = "hedge"
  /\ NeedsHedge(LoadedDelta(c), hedge_position)
  /\ pc' = [pc EXCEPT ![c] = "urgency"]
  /\ delta' = [delta EXCEPT ![c] = LoadedDelta(c)]
  /\ UNCHANGED <<atomics, spos, sratio, rec, updates, witness, history>>

\* The position is loaded again for the urgency.
Recommend(c) ==
  /\ pc[c] = "urgency"
  /\ \E u \in Urgencies(delta[c], position) :
       rec' = [rec EXCEPT ![c] = [quantity |-> Quantity(delta[c]),
                                  side |-> SideOf(delta[c]),
                                  urgency |-> u]]
  /\ pc' = [pc EXCEPT ![c] = "holding"]
  /\ UNCHANGED <<atomics, spos, sratio, delta, updates, witness, history>>

\* execute_hedge(rec.quantity, rec.side).
ExecuteHedge(c) ==
  LET x == Signed(Cents(rec[c].quantity), rec[c].side)
  IN
  /\ pc[c] = "holding"
  /\ executions < MaxExecutions
  /\ hedge_position' = FetchAdd(c, x)
  /\ pc' = [pc EXCEPT ![c] = "idle"]
  /\ executions' = executions + 1
  /\ ordered' = ordered + Signed(rec[c].quantity, rec[c].side)
  /\ trades' = trades + 1
  /\ UNCHANGED <<position, hedge_ratio, spos, sratio, delta, rec, updates, torn>>
  /\ Observe

\* The caller lets the recommendation go: it is a value, nothing is stored.
Ignore(c) ==
  /\ pc[c] = "holding"
  /\ pc' = [pc EXCEPT ![c] = "idle"]
  /\ UNCHANGED <<atomics, spos, sratio, delta, rec, updates, witness, history>>

GetRecommendation(c) ==
  \/ LoadPosition(c) \/ LoadRatio(c)
  \/ RecommendNothing(c) \/ RecommendHedge(c) \/ Recommend(c)

Next ==
  \/ \E p \in Positions : UpdatePosition(p)
  \/ \E r \in Ratios : UpdateHedgeRatio(r)
  \/ \E c \in Callers : GetRecommendation(c) \/ ExecuteHedge(c) \/ Ignore(c)

Spec == Init /\ [][Next]_vars

\* A caller keeps asking and, as main() does, executes what it gets: it may
\* let some recommendations go but not every one from some point on.
FairSpec == /\ Spec
            /\ \A c \in Callers : WF_vars(GetRecommendation(c))
                                  /\ SF_vars(ExecuteHedge(c))

-----------------------------------------------------------------------------
\* Type correctness; a recommendation is never for nothing.
TypeOK ==
  /\ position \in Positions
  /\ hedge_ratio \in Ratios
  /\ hedge_position \in Int
  /\ pc \in [Callers -> {"idle", "ratio", "hedge", "urgency", "holding"}]
  /\ spos \in [Callers -> Int]
  /\ sratio \in [Callers -> Int]
  /\ delta \in [Callers -> Int]
  /\ rec \in [Callers -> [quantity : Nat, side : {"Bid", "Ask"},
                          urgency : {"High", "Normal"}]]
  /\ updates \in 0..MaxUpdates
  /\ executions \in 0..MaxExecutions
  /\ truths \in [Callers -> SUBSET Int]
  /\ torn \in [Callers -> {"no", "moved", "yes"}]
  /\ ordered \in Int
  /\ trades \in 0..executions
  /\ \A c \in Callers : pc[c] = "holding" => rec[c].quantity > 0

(***************************************************************************)
(* The books agree: hedge_position follows the sum of the orders that were *)
(* executed, whatever the interleaving of several callers, up to the one   *)
(* hundredth that each conversion may lose.                                *)
(***************************************************************************)
HedgeFollowsOrders == Abs(ordered - hedge_position) <= executions

(***************************************************************************)
(* The delta was right at some moment between the call and the return,     *)
(* although the three loads of calculate_hedge_delta are separate: for a   *)
(* thread that hedges alone it takes a change of the position followed by  *)
(* a change of the ratio, both between two loads, to make it wrong.  With  *)
(* the loads in another order a single change would do.                    *)
(***************************************************************************)
DeltaWasTrue ==
  \A c \in Callers :
    pc[c] \in {"urgency", "holding"} /\ torn[c] # "yes" => delta[c] \in truths[c]

(***************************************************************************)
(* Hedging settles: a thread that hedges alone never trades more than      *)
(* three times in answer to one change of position or ratio (once with the *)
(* delta it had computed before, once to the new target, once for a        *)
(* hundredth that a conversion lost).                                      *)
(***************************************************************************)
SettlesInThreeTrades == trades <= 3

\* Executing a recommendation that is still right leaves the hedge at the
\* target, but for the hundredth the conversion may lose.
ExecutionHitsTarget ==
  [][\A c \in Callers :
       ExecuteHedge(c) /\ delta[c] = TrueDelta => Abs(TrueDelta') <= 1]_vars

\* The hedge is as good as the threshold asks: what is missing is less than
\* one basis point more than threshold_bps of what is hedged.
WithinThreshold ==
  IF hedge_position = 0 THEN TrueDelta = 0
  ELSE Abs(TrueDelta) * BpsScale < (ThresholdBps + 1) * Abs(hedge_position)

\* Once position and ratio stop changing, the hedge gets within the
\* threshold of its target and stays there.
EventuallyHedged == <>[]WithinThreshold
=============================================================================
