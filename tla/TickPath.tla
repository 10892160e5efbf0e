------------------------------ MODULE TickPath ------------------------------
(***************************************************************************)
(* The market data half of HedgeEngine (src/hedging/engine.rs): threads    *)
(* that share the engine call on_tick, others get_hedge_recommendation,    *)
(* as far as it reads the books.  Nothing makes a call one step.           *)
(*                                                                         *)
(* A quote is the price at level 0 of one side of one book, an atomic; it  *)
(* is known by how often it has been stored, 0 for the price 0 of a side   *)
(* that nobody has quoted.  Loads return the newest value; the other       *)
(* stores of an update are in OrderBook, what the windows do with what     *)
(* they are given in MVHRStrategy and MeanReversionHedge, the quantity of  *)
(* a recommendation in DeltaHedge and HedgeEngine.                         *)
(***************************************************************************)
EXTENDS Integers, Sequences

CONSTANTS
  Feeds,         \* threads that call on_tick
  Hedgers,       \* threads that call get_hedge_recommendation
  MaxTicks,      \* bound on the ticks
  MaxAsks        \* bound on the recommendations asked for

ASSUME TickPathAssumption == Feeds \intersect Hedgers = {}

VARIABLES
  enable_mvhr, enable_mean_reversion,   \* of the configuration
  quotes,           \* per quote, how often it has been stored
  price_history,    \* of the mean reversion strategy: the number of its prices
  observations,     \* of the MVHR strategy: what they were made of
  ticks_processed,  \* of the metrics
  todo,             \* per thread, the steps its call has still to make
  target,           \* per thread, the quote it is about
  loaded,           \* per thread, the quotes it has loaded
  stored,           \* history: per feed, how often the target had been stored with its own store
  begun,            \* history: per hedger, the quotes when its call began
  earlier,          \* history: per feed, the observations when its call began
  arrived,          \* history: per symbol, the ticks that have come in
  asks              \* recommendations asked for

config == <<enable_mvhr, enable_mean_reversion>>
history == <<stored, begun, earlier, arrived, asks>>
vars == <<config, quotes, price_history, observations, ticks_processed,
          todo, target, loaded, history>>

Workers == Feeds \union Hedgers
Symbols == {"spot", "futures", "other"}    \* symbol_id 1, 2 and the rest
Sides == {"bid", "ask"}
QuoteNames == {"spot", "futures"} \X Sides
NoQuotes == [q \in QuoteNames |-> 0]

Init ==
  /\ enable_mvhr \in BOOLEAN /\ enable_mean_reversion \in BOOLEAN
  /\ quotes = NoQuotes
  /\ price_history = 0 /\ observations = << >> /\ ticks_processed = 0
  /\ todo = [w \in Workers |-> << >>]
  /\ target = [w \in Workers |-> <<"other", "bid">>]
  /\ loaded = [w \in Workers |-> NoQuotes]
  /\ stored = [f \in Feeds |-> 0]
  /\ begun = [h \in Hedgers |-> NoQuotes]
  /\ earlier = [f \in Feeds |-> 0]
  /\ arrived = [s \in Symbols |-> 0]
  /\ asks = 0

-----------------------------------------------------------------------------
(***************************************************************************)
(* The steps of a call, in program order.  mid_price loads the bid, then   *)
(* the ask.  A step is a pair, so that loads can be named by their quote.  *)
(***************************************************************************)
Update == <<"update", "book">>
AddPrice == <<"add", "price">>
AddObservation == <<"add", "observation">>
Record == <<"record", "latency">>

Mid(symbol) == << <<symbol, "bid">>, <<symbol, "ask">> >>
If(enabled, steps) == IF enabled THEN steps ELSE << >>

SpotSteps == <<Update>> \o If(enable_mean_reversion, <<AddPrice>>)
\* The mids are taken after the update; and before it.
FuturesStepsLate == If(enable_mvhr, Mid("spot") \o Mid("futures")) \o <<Update>>
                    \o If(enable_mvhr, <<AddObservation>>)
FuturesSteps == <<Update>> \o If(enable_mvhr, Mid("spot") \o Mid("futures") \o <<AddObservation>>)

\* on_tick; and a version that returns when it does not know the symbol.
OnTickReturning(symbol) == IF symbol = "other" THEN << >>
                           ELSE (IF symbol = "spot" THEN SpotSteps ELSE FuturesSteps) \o <<Record>>
OnTick(symbol) ==
  (IF symbol = "spot" THEN SpotSteps ELSE IF symbol = "futures" THEN FuturesSteps ELSE << >>)
  \o <<Record>>

\* The quote a recommendation is priced with: who buys pays the ask.
PriceOfSwapped(side) == <<"futures", IF side = "ask" THEN "bid" ELSE "ask">>
PriceOf(side) == <<"futures", side>>

\* get_hedge_recommendation with a hedge to make.
HedgeSteps(side) == <<PriceOf(side)>> \o If(enable_mean_reversion, Mid("spot"))

Begin(w, steps, quote) ==
  /\ todo[w] = << >>
  /\ todo' = [todo EXCEPT ![w] = steps]
  /\ target' = [target EXCEPT ![w] = quote]
  /\ loaded' = [loaded EXCEPT ![w] = NoQuotes]
  /\ UNCHANGED <<config, quotes, price_history, observations, ticks_processed, stored>>

BeginTick(f, symbol, side) ==
  /\ arrived["spot"] + arrived["futures"] + arrived["other"] < MaxTicks
  /\ Begin(f, OnTick(symbol), <<symbol, side>>)
  /\ arrived' = [arrived EXCEPT ![symbol] = @ + 1]
  /\ earlier' = [earlier EXCEPT ![f] = Len(observations)]
  /\ UNCHANGED <<begun, asks>>

BeginHedge(h, side) ==
  /\ asks < MaxAsks
  /\ Begin(h, HedgeSteps(side), <<"futures", side>>)
  /\ asks' = asks + 1
  /\ begun' = [begun EXCEPT ![h] = quotes]
  /\ UNCHANGED <<earlier, arrived>>

Doing(w, step) == /\ todo[w] # << >> /\ Head(todo[w]) = step
                  /\ todo' = [todo EXCEPT ![w] = Tail(@)]

UpdateBook(f) ==
  /\ Doing(f, Update)
  /\ quotes' = [quotes EXCEPT ![target[f]] = @ + 1]
  /\ stored' = [stored EXCEPT ![f] = quotes'[target[f]]]
  /\ UNCHANGED <<config, price_history, observations, ticks_processed, target, loaded,
                 begun, earlier, arrived, asks>>

LoadQuote(w, q) ==
  /\ Doing(w, q)
  /\ loaded' = [loaded EXCEPT ![w] = [@ EXCEPT ![q] = quotes[q]]]
  /\ UNCHANGED <<config, quotes, price_history, observations, ticks_processed, target, history>>

AddToHistory(f) ==
  /\ Doing(f, AddPrice)
  /\ price_history' = price_history + 1
  /\ UNCHANGED <<config, quotes, observations, ticks_processed, target, loaded, history>>

\* Under the write locks of the windows.
Observe(f) ==
  /\ Doing(f, AddObservation)
  /\ observations' = Append(observations, [made_of |-> loaded[f], of |-> target[f],
                                           stored |-> stored[f], earlier |-> earlier[f]])
  /\ UNCHANGED <<config, quotes, price_history, ticks_processed, target, loaded, history>>

\* Under the lock of the metrics; the locals of the call end with it.
RecordLatency(f) ==
  /\ Doing(f, Record)
  /\ ticks_processed' = ticks_processed + 1
  /\ target' = [target EXCEPT ![f] = <<"other", "bid">>]
  /\ loaded' = [loaded EXCEPT ![f] = NoQuotes]
  /\ stored' = [stored EXCEPT ![f] = 0]
  /\ earlier' = [earlier EXCEPT ![f] = 0]
  /\ UNCHANGED <<config, quotes, price_history, observations, begun, arrived, asks>>

FeedStep(f) ==
  \/ \E symbol \in Symbols, side \in Sides : BeginTick(f, symbol, side)
  \/ UpdateBook(f) \/ AddToHistory(f) \/ Observe(f) \/ RecordLatency(f)

Next ==
  \/ \E f \in Feeds : FeedStep(f)
  \/ \E h \in Hedgers, side \in Sides : BeginHedge(h, side)
  \/ \E w \in Workers, q \in QuoteNames : LoadQuote(w, q)

Spec == Init /\ [][Next]_vars

-----------------------------------------------------------------------------
(***************************************************************************)
(* However many feed threads work on the two books, an observation is made *)
(* with the price of the tick that caused it, or a newer one of that side; *)
(* and of two ticks whose calls do not overlap, the later one's            *)
(* observation stands behind the other's and uses no older quote.  (If     *)
(* they overlap, it may be the other way round.)                           *)
(***************************************************************************)
ObservationsFollowTheTicks ==
  \A n \in 1..Len(observations) :
    LET o == observations[n]
    IN /\ o.made_of[o.of] >= o.stored
       /\ \A i \in 1..o.earlier :
            i < n /\ \A q \in QuoteNames : observations[i].made_of[q] <= o.made_of[q]

(***************************************************************************)
(* A recommendation is priced with the quote that it will be traded at, as *)
(* it was during the call: if that side of the futures book had been       *)
(* quoted before the call, the price is not 0.                             *)
(***************************************************************************)
RecommendationsArePriced ==
  \A h \in Hedgers : target[h][1] = "futures" /\ todo[h] = << >>
    => loaded[h][target[h]] >= begun[h][target[h]]

(***************************************************************************)
(* Whenever no thread is in on_tick, every tick has been processed exactly *)
(* once: the metrics count it whatever its symbol, each enabled strategy   *)
(* has got those of its symbol, and each book all of its updates.          *)
(***************************************************************************)
TicksProcessedOnce ==
  (\A f \in Feeds : todo[f] = << >>) =>
    /\ ticks_processed = arrived["spot"] + arrived["futures"] + arrived["other"]
    /\ price_history = IF enable_mean_reversion THEN arrived["spot"] ELSE 0
    /\ Len(observations) = IF enable_mvhr THEN arrived["futures"] ELSE 0
    /\ \A s \in {"spot", "futures"} : quotes[<<s, "bid">>] + quotes[<<s, "ask">>] = arrived[s]
=============================================================================
