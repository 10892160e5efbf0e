---- MODULE MCHedgeEngine ----
EXTENDS HedgeEngine

\* The n up to 800 for which (n / 100.0) * 100.0 is below n in f64.
MCLossyCents == {29, 57, 58, 113, 114, 115, 116, 201, 203, 205, 207, 226, 228,
                 230, 232, 251, 253, 255, 402, 406, 410, 414, 427, 431, 435,
                 439, 452, 456, 460, 464, 477, 481, 485, 489, 502, 506, 510}

\* Short, flat and long; 58 and 113 are amounts a conversion gets
\* wrong, and so is 29, from 261 back to 232.
MCPositions == {-58, 0, -101, 113, -232}
MCShort == {-100}
MCRatios == {10000, 11250}
OverHedge == {11250}
====
