------------------------- MODULE CompositeStrategy -------------------------
(***************************************************************************)
(* StrategyBuilder and CompositeStrategy (src/strategy/mod.rs): the        *)
(* weighted average of the quantities of those strategies that recommend   *)
(* anything.  A strategy is known by its weight; what it answers is open,  *)
(* since it depends on books that change between two of them.  Weights and *)
(* quantities may be negative, as the f64 of the code.  The average is     *)
(* kept as the two sums it is the quotient of.                             *)
(***************************************************************************)
EXTENDS Integers, Sequences

CONSTANTS
  Weights,        \* weights that callers give
  Quantities,     \* quantities that strategies recommend
  NoHedge,        \* a strategy that recommends nothing
  MaxStrategies   \* bound on the strategies added

ASSUME CompositeAssumption == /\ Weights \subseteq Int /\ Quantities \subseteq Int
                              /\ NoHedge \notin Int /\ MaxStrategies \in Nat

VARIABLES
  weights,        \* of the builder, then of the composite
  cpc,            \* "building", "built", "asking", "returned"
  answers,        \* history: what the strategies have answered, in order
  total_quantity, total_weight, any_hedge   \* locals of calculate_hedge

sums == <<total_quantity, total_weight, any_hedge>>
compositeVars == <<weights, cpc, answers, sums>>

CompositeInit ==
  /\ weights = << >>
  /\ cpc = "building"
  /\ answers = << >>
  /\ total_quantity = 0 /\ total_weight = 0 /\ any_hedge = FALSE

AddStrategy(w) ==
  /\ cpc = "building"
  /\ Len(weights) < MaxStrategies
  /\ weights' = Append(weights, w)
  /\ UNCHANGED <<cpc, answers, sums>>

Build ==
  /\ cpc = "building"
  /\ cpc' = "built"
  /\ UNCHANGED <<weights, answers, sums>>

\* With no strategies, None: the loop below ends at once.
BeginHedge ==
  /\ cpc \in {"built", "returned"}
  /\ cpc' = "asking"
  /\ answers' = << >>
  /\ total_quantity' = 0 /\ total_weight' = 0 /\ any_hedge' = FALSE
  /\ UNCHANGED weights

\* What an answer adds to the total weight; and without looking at it.
CountedWeightAlways(w, answer) == w
CountedWeight(w, answer) == IF answer = NoHedge THEN 0 ELSE w

AskStrategy(answer) ==
  /\ cpc = "asking"
  /\ Len(answers) < Len(weights)
  /\ LET w == weights[Len(answers) + 1]
     IN /\ total_weight' = total_weight + CountedWeight(w, answer)
        /\ total_quantity' = total_quantity + (IF answer = NoHedge THEN 0 ELSE answer * w)
  /\ any_hedge' = (any_hedge \/ answer # NoHedge)
  /\ answers' = Append(answers, answer)
  /\ UNCHANGED <<weights, cpc>>

ReturnAverage ==
  /\ cpc = "asking"
  /\ Len(answers) = Len(weights)
  /\ cpc' = "returned"
  /\ UNCHANGED <<weights, answers, sums>>

CompositeNext ==
  \/ \E w \in Weights : AddStrategy(w)
  \/ Build \/ BeginHedge \/ ReturnAverage
  \/ \E answer \in Quantities \union {NoHedge} : AskStrategy(answer)

CompositeSpec == CompositeInit /\ [][CompositeNext]_compositeVars

-----------------------------------------------------------------------------
Recommended == {answers[i] : i \in 1..Len(answers)} \ {NoHedge}

\* None of the strategies that recommend something has a negative weight.
NoneNegative == \A i \in 1..Len(answers) : answers[i] # NoHedge => weights[i] >= 0

(***************************************************************************)
(* There is an average if and only if some strategy recommends a quantity, *)
(* and it lies between the smallest and the largest of these, whoever      *)
(* abstains and with whatever weight: a strategy without a recommendation  *)
(* does not dilute those of the others.  It needs that the strategies that *)
(* do recommend have no negative weight, which add_strategy does not       *)
(* refuse: weights of 2 and -1 take quantities of 10 and 25 to -5.  With a *)
(* total weight of 0 the quotient is NaN or infinite.                      *)
(***************************************************************************)
BetweenRecommendations ==
  cpc = "returned" =>
    /\ any_hedge <=> Recommended # {}
    /\ any_hedge /\ NoneNegative /\ total_weight > 0 =>
         \E low, high \in Recommended : /\ low * total_weight <= total_quantity
                                        /\ total_quantity <= high * total_weight
=============================================================================
