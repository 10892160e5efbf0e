---- MODULE MCOrderBook ----
EXTENDS OrderBook, TLC

MCSymmetry == Permutations(Writers)
====
