---------------------------- MODULE SparkSpread ----------------------------
(***************************************************************************)
(* SparkSpreadHedge (src/hedging/spark_spread.rs): an average that is      *)
(* loaded and stored in two steps, and the positions of the three legs     *)
(* that execute_hedge adds to one after the other.                         *)
(*                                                                         *)
(* As in OrderBook a location is its modification order, a sequence of     *)
(* messages, each with what its writer had seen; a load returns any        *)
(* message not older than what the thread has seen.                        *)
(*                                                                         *)
(* Positions are in hundredths, spreads in ten-thousandths, as in the      *)
(* code.  The code computes in f64: where the exact result is a whole      *)
(* number the f64 may be just below it, and the cast then loses one.       *)
(***************************************************************************)
EXTENDS Integers, Sequences, FiniteSets

CONSTANTS
  Hedgers,        \* threads that call get_recommendations and execute_hedge
  Spreads,        \* the spreads the three books may give
  TargetSpread,   \* target_spread
  Hours,          \* the values of hours_ahead
  CapacityMw,     \* capacity_mw, in hundredths
  HeatRate,       \* heat_rate, in tenths
  EmissionFactor, \* emission_factor, in thousandths
  MaxAsks         \* bound on the calls of get_recommendations

ASSUME SpreadAssumption == Spreads \subseteq Int /\ TargetSpread \in Int
ASSUME PlantAssumption == /\ CapacityMw \in Nat \ {0}
                          /\ HeatRate \in Nat /\ EmissionFactor \in Nat
                          /\ Hours \subseteq Nat
ASSUME AsksAssumption == MaxAsks \in Nat

ThresholdBps == 500     \* rehedge_threshold_bps
HighPremium == 100000   \* 10.0
VolumeScale == 10000    \* of a volume, in parts of a hundredth

Legs == {"power", "gas", "co2"}
Locations == Legs \union {"avg"}

VARIABLES
  mem,      \* per location, its modification order: values and views
  view,     \* per hedger and location, the position it has seen
  pc,       \* per hedger, where it is
  spread,   \* per hedger, the spread it computed
  average,  \* per hedger, the average it will store
  hours,    \* per hedger, its hours_ahead
  urgency,  \* per hedger, the urgency of its recommendation
  rview,    \* the positions a reader of get_positions has seen
  seen,     \* the positions its loads returned, in order
  asks,     \* number of calls so far
  asked,    \* history: who asked, and for which hours
  hedgedAt  \* history: the spread of the last recommendation executed

locals == <<pc, spread, average, hours, urgency>>
reader == <<rview, seen>>
history == <<asks, asked, hedgedAt>>
vars == <<mem, view, locals, reader, history>>

Abs(n) == IF n >= 0 THEN n ELSE -n
TruncDiv(a, b) == IF a >= 0 THEN a \div b ELSE -((-a) \div b)

\* What casting the f64 of a/b to i64 may give.
Cast(a, b) ==
  {TruncDiv(a, b)}
    \union {n \in {TruncDiv(a, b) - 1} : a > 0 /\ a % b = 0}
    \union {n \in {TruncDiv(a, b) + 1} : a < 0 /\ a % b = 0}

Last(loc) == mem[loc][Len(mem[loc])].val
StartView == [x \in Locations |-> 1]
Join(v, w) == [x \in Locations |-> IF v[x] >= w[x] THEN v[x] ELSE w[x]]

\* The view a message carries: all its writer has seen (AcqRel), or its own
\* location only (Relaxed).
CarriedRelaxed(v, loc) == [x \in Locations |-> IF x = loc THEN v[x] ELSE 1]
Carried(v, loc) == v

Init ==
  /\ mem = [x \in Locations |->
              <<[val |-> IF x = "avg" THEN TargetSpread ELSE 0, view |-> StartView]>>]
  /\ view = [h \in Hedgers |-> StartView]
  /\ pc = [h \in Hedgers |-> "idle"]
  /\ spread = [h \in Hedgers |-> TargetSpread]
  /\ average = [h \in Hedgers |-> TargetSpread]
  /\ hours = [h \in Hedgers |-> 0]
  /\ urgency = [h \in Hedgers |-> "Normal"]
  /\ rview = StartView
  /\ seen = << >>
  /\ asks = 0
  /\ asked = {}
  /\ hedgedAt = TargetSpread

-----------------------------------------------------------------------------
\* 0.95 of the average and 0.05 of the spread.
MovingAverageHalf(avg, s) == Cast(19 * avg + 10 * s, 20)   \* 0.5 for 0.05
MovingAverage(avg, s) == Cast(19 * avg + s, 20)

\* The spread from the three books, and the load of the average (Relaxed).
Ask(h, s, n) ==
  /\ pc[h] = "idle"
  /\ asks < MaxAsks
  /\ asks' = asks + 1
  /\ asked' = asked \union {<<h, n>>}
  /\ spread' = [spread EXCEPT ![h] = s]
  /\ hours' = [hours EXCEPT ![h] = n]
  /\ \E i \in view[h]["avg"]..Len(mem["avg"]) :
       /\ view' = [view EXCEPT ![h] = [view[h] EXCEPT !["avg"] = i]]
       /\ \E new \in MovingAverage(mem["avg"][i].val, s) :
            average' = [average EXCEPT ![h] = new]
  /\ pc' = [pc EXCEPT ![h] = "average"]
  /\ UNCHANGED <<mem, urgency, reader, hedgedAt>>

\* A message is added to a location by a hedger that has seen `old'.
Put(h, loc, n, old) ==
  LET new == [old EXCEPT ![loc] = Len(mem[loc]) + 1]
  IN /\ mem' = [mem EXCEPT ![loc] =
                  Append(mem[loc], [val |-> n, view |-> Carried(new, loc)])]
     /\ view' = [view EXCEPT ![h] = new]

\* avg_spread.store, and is_profitable.
StoreAverage(h) ==
  /\ pc[h] = "average"
  /\ Put(h, "avg", average[h], view[h])
  /\ pc' = [pc EXCEPT ![h] = IF spread[h] > TargetSpread THEN "rehedge" ELSE "idle"]
  /\ UNCHANGED <<spread, average, hours, urgency, reader, history>>

\* calculate_hedge_volumes; and with the emissions of the power, not the gas.
VolumePowerCo2(leg, n) ==
  LET power == CapacityMw * n
  IN CASE leg = "power" -> power * VolumeScale
       [] leg = "gas"   -> power * HeatRate * 1000
       [] leg = "co2"   -> power * EmissionFactor * 10
Volume(leg, n) ==
  LET power == CapacityMw * n
  IN CASE leg = "power" -> power * VolumeScale
       [] leg = "gas"   -> power * HeatRate * 1000
       [] leg = "co2"   -> power * HeatRate * EmissionFactor

\* What change_pct < threshold may answer for a power hedge c; it compares
\* in f64, so either way when the two are equal.
MissingSigned(c, n) == Abs(CapacityMw * n - c)
Missing(c, n) == Abs(CapacityMw * n - Abs(c))

BelowThreshold(c, n) ==
  c # 0 /\ Missing(c, n) * 10000 <= ThresholdBps * Abs(c)
AboveThreshold(c, n) ==
  c # 0 => Missing(c, n) * 10000 >= ThresholdBps * Abs(c)

\* power_hedge.load(Acquire), which returns message i.
LoadPower(h, i) ==
  view' = [view EXCEPT ![h] =
             Join([view[h] EXCEPT !["power"] = i], mem["power"][i].view)]

KeepHedge(h) ==
  /\ pc[h] = "rehedge"
  /\ \E i \in view[h]["power"]..Len(mem["power"]) :
       BelowThreshold(mem["power"][i].val, hours[h]) /\ LoadPower(h, i)
  /\ pc' = [pc EXCEPT ![h] = "idle"]
  /\ UNCHANGED <<mem, spread, average, hours, urgency, reader, history>>

Rehedge(h) ==
  /\ pc[h] = "rehedge"
  /\ \E i \in view[h]["power"]..Len(mem["power"]) :
       AboveThreshold(mem["power"][i].val, hours[h]) /\ LoadPower(h, i)
  /\ pc' = [pc EXCEPT ![h] = "urgency"]
  /\ UNCHANGED <<mem, spread, average, hours, urgency, reader, history>>

\* The average is loaded again (Relaxed) for the urgency; when the premium
\* is exactly 10.0 the f64 may be on either side of it.
Recommend(h) ==
  /\ pc[h] = "urgency"
  /\ \E i \in view[h]["avg"]..Len(mem["avg"]) :
       LET premium == spread[h] - mem["avg"][i].val
       IN /\ view' = [view EXCEPT ![h] = [view[h] EXCEPT !["avg"] = i]]
          /\ \E u \in {"High", "Normal"} :
               /\ u = "High" => premium >= HighPremium
               /\ u = "Normal" => premium <= HighPremium
               /\ urgency' = [urgency EXCEPT ![h] = u]
  /\ pc' = [pc EXCEPT ![h] = "power"]
  /\ UNCHANGED <<mem, spread, average, hours, reader, history>>

\* The caller lets the recommendations go.
Ignore(h) ==
  /\ pc[h] = "power"
  /\ pc' = [pc EXCEPT ![h] = "idle"]
  /\ UNCHANGED <<mem, view, spread, average, hours, urgency, reader, history>>

-----------------------------------------------------------------------------
(***************************************************************************)
(* execute_hedge with the three recommended volumes: power is sold, gas    *)
(* and CO2 are bought, each with a fetch_add(AcqRel).                      *)
(***************************************************************************)
FetchAdd(h, leg, n) ==
  Put(h, leg, Last(leg) + n, Join(view[h], mem[leg][Len(mem[leg])].view))

SellPower(h) ==
  /\ pc[h] = "power"
  /\ \E n \in Cast(Volume("power", hours[h]), VolumeScale) : FetchAdd(h, "power", -n)
  /\ hedgedAt' = spread[h]
  /\ pc' = [pc EXCEPT ![h] = "gas"]
  /\ UNCHANGED <<spread, average, hours, urgency, reader, asks, asked>>

Buy(h, leg, next) ==
  /\ pc[h] = leg
  /\ \E n \in Cast(Volume(leg, hours[h]), VolumeScale) : FetchAdd(h, leg, n)
  /\ pc' = [pc EXCEPT ![h] = next]
  /\ UNCHANGED <<spread, average, hours, urgency, reader, history>>

BuyGas(h) == Buy(h, "gas", "co2")
BuyCo2(h) == Buy(h, "co2", "idle")

\* get_positions, also called by calculate_pnl: three loads (Acquire).
LoadOrder == <<"power", "gas", "co2">>

ReadLeg ==
  /\ Len(seen) < 3
  /\ LET leg == LoadOrder[Len(seen) + 1]
     IN \E i \in rview[leg]..Len(mem[leg]) :
          /\ seen' = Append(seen, i)
          /\ rview' = Join([rview EXCEPT ![leg] = i], mem[leg][i].view)
  /\ UNCHANGED <<mem, view, locals, history>>

HedgerStep(h) ==
  \/ \E s \in Spreads, n \in Hours : Ask(h, s, n)
  \/ StoreAverage(h) \/ KeepHedge(h) \/ Rehedge(h) \/ Recommend(h) \/ Ignore(h)
  \/ SellPower(h) \/ BuyGas(h) \/ BuyCo2(h)

Next == (\E h \in Hedgers : HedgerStep(h)) \/ ReadLeg

Spec == Init /\ [][Next]_vars

-----------------------------------------------------------------------------
\* In the range of the target and the spreads, but for what truncation may
\* lose at each update; a twentieth of the distance balances one.
InRange(n) ==
  /\ \E s \in Spreads \union {TargetSpread} : s - 20 <= n
  /\ \E s \in Spreads \union {TargetSpread} : n <= s + 20

(***************************************************************************)
(* Type correctness, and the average: whatever updates are lost or use a   *)
(* stale average, it stays within the spreads there were.                  *)
(***************************************************************************)
TypeOK ==
  /\ \A x \in Locations : \A i \in 1..Len(mem[x]) :
       /\ mem[x][i].val \in Int
       /\ mem[x][i].view \in [Locations -> Nat \ {0}]
  /\ \A i \in 1..Len(mem["avg"]) : InRange(mem["avg"][i].val)
  /\ \A h \in Hedgers : InRange(average[h])
  /\ view \in [Hedgers -> [Locations -> Nat \ {0}]]
  /\ \A h \in Hedgers, x \in Locations : view[h][x] <= Len(mem[x])
  /\ rview \in [Locations -> Nat \ {0}]
  /\ \A x \in Locations : rview[x] <= Len(mem[x])
  /\ pc \in [Hedgers -> {"idle", "average", "rehedge", "urgency", "power", "gas", "co2"}]
  /\ asks \in 0..MaxAsks

(***************************************************************************)
(* The plant is sold once: as long as one thread asks for the same hours,  *)
(* whatever spreads it finds, only its first recommendation is executed,   *)
(* because the hundredth a conversion loses is below the threshold.        *)
(***************************************************************************)
SoldOnce == Cardinality(asked) <= 1 => Len(mem["power"]) <= 2

(***************************************************************************)
(* get_positions is torn, but not by much: of the sales of power that it   *)
(* shows, at most one per hedging thread lacks its purchases of gas and of *)
(* CO2, since each thread buys before it sells again.                      *)
(***************************************************************************)
Askers == {h \in Hedgers : \E n \in Hours : <<h, n>> \in asked}

LegsCovered ==
  \A i \in 2..Len(seen) : seen[1] <= seen[i] + Cardinality(Askers)

\* Power sold against a purchase of `part' times 10000 of each unit of it;
\* each of the n executions loses less than two hundredths at most.
InProportion(sold, bought, part, n) ==
  /\ bought * VolumeScale - sold * part <= n * part
  /\ sold * part - bought * VolumeScale <= n * VolumeScale

(***************************************************************************)
(* Between executions the books of the plant balance: every sale of power  *)
(* has its purchases, and gas and CO2 are what the plant burns for the     *)
(* power sold, however several executions were interleaved.                *)
(***************************************************************************)
LegsBalanced ==
  (\A h \in Hedgers : pc[h] \notin {"gas", "co2"}) =>
    LET n == Len(mem["power"]) - 1
    IN /\ Len(mem["gas"]) = n + 1 /\ Len(mem["co2"]) = n + 1
       /\ InProportion(-Last("power"), Last("gas"), HeatRate * 1000, n)
       /\ InProportion(-Last("power"), Last("co2"), HeatRate * EmissionFactor, n)

(***************************************************************************)
(* "only rehedge if spread changes by this much": a hedge that is on is    *)
(* replaced only when the spread moved by the threshold since.             *)
(***************************************************************************)
RehedgesOnSpreadChange ==
  \A h \in Hedgers :
    pc[h] = "power" /\ Len(mem["power"]) > 1
      => Abs(spread[h] - hedgedAt) * 10000 >= ThresholdBps * Abs(hedgedAt)
=============================================================================
