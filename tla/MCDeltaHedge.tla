---- MODULE MCDeltaHedge ----
EXTENDS DeltaHedge

\* The n up to 260 for which (n / 100.0) * 100.0 is below n in f64.
MCLossyCents == {29, 57, 58, 113, 114, 115, 116, 201, 203, 205, 207, 226, 228,
                 230, 232, 251, 253, 255}

\* Short and long, flat, with and without a fraction at ratio 1.125; 58 and
\* 113 are amounts a conversion gets wrong.
MCPositions == {-58, 0, -101, 113}
MCRatios == {10000, 11250}
====
