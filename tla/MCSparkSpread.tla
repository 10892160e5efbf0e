--------------------------- MODULE MCSparkSpread ---------------------------
EXTENDS SparkSpread, TLC

\* In ten-thousandths: below the target of 50.0, and about 10.0 above the
\* average, which comes nearer with every update.
MCSpreads == {400000, 612013}
HighSpread == {612013}

HedgerSymmetry == Permutations(Hedgers)
=============================================================================
