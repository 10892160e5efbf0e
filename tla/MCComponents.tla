---------------------------- MODULE MCComponents ----------------------------
(***************************************************************************)
(* The components that share nothing with the rest of the program, each on *)
(* its own: a behaviour is one of the component chosen at the beginning.   *)
(***************************************************************************)
EXTENDS MVHRStrategy, MeanReversionHedge, CompositeStrategy, TcpFeed, Metrics

VARIABLE component

componentVars == <<component, mvhrVars, mrVars, compositeVars, feedVars, metricsVars>>

ComponentsInit ==
  /\ component \in {"mvhr", "mean_reversion", "composite", "feed", "metrics"}
  /\ MvhrInit /\ MrInit /\ CompositeInit /\ FeedInit /\ MetricsInit

MvhrAlone ==
  /\ component = "mvhr"
  /\ MvhrNext
  /\ UNCHANGED <<component, mrVars, compositeVars, feedVars, metricsVars>>
MeanReversionAlone ==
  /\ component = "mean_reversion"
  /\ MrNext
  /\ UNCHANGED <<component, mvhrVars, compositeVars, feedVars, metricsVars>>
CompositeAlone ==
  /\ component = "composite"
  /\ CompositeNext
  /\ UNCHANGED <<component, mvhrVars, mrVars, feedVars, metricsVars>>
FeedAlone ==
  /\ component = "feed"
  /\ FeedNext
  /\ UNCHANGED <<component, mvhrVars, mrVars, compositeVars, metricsVars>>
MetricsAlone ==
  /\ component = "metrics"
  /\ MetricsNext
  /\ UNCHANGED <<component, mvhrVars, mrVars, compositeVars, feedVars>>

ComponentsNext ==
  MvhrAlone \/ MeanReversionAlone \/ CompositeAlone \/ FeedAlone \/ MetricsAlone

\* With the fairness of MvhrFairSpec for the threads that are in a call.
ComponentsSpec ==
  /\ ComponentsInit /\ [][ComponentsNext]_componentVars
  /\ WF_mvhrVars(\E t \in Threads : Proceed(t))

\* Prices: a step of a half and of a third, and an empty spot book.
MCObservations == {[spot |-> 2, futures |-> 2], [spot |-> 9, futures |-> 3],
                   [spot |-> 0, futures |-> 4]}
MCVolumes == {-5, 7}
MCWeights == {-1, 0, 1, 3}
MCQuantities == {-10, 10, 25}
MCZScores == {-35, -28, -22, -20, 20, 22, 25, 28, 30, 31}
=============================================================================
