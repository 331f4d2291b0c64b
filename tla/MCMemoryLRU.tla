---------------------------- MODULE MCMemoryLRU ----------------------------
\* Instances of MemoryLRU for TLC.
EXTENDS MemoryLRU, TLC

FiveKeys == {"a", "b", "c", "d", "e"}
\* Each of the two shards has more keys than a share of the capacity, or as many.
Crowded == [k \in FiveKeys |-> IF k \in {"d", "e"} THEN 5 ELSE 2]

\* The loop of roundUpPow2: p doubles until it is not less than n.
Doubling(n) == LET from[p \in 1..(2 * n)] == IF p < n THEN from[2 * p] ELSE p
               IN  from[1]

\* The definition that the proofs use is what the loop computes.
ASSUME LoopRoundsUp == \A n \in 1..70 : roundUpPow2(n) = Doubling(n)
=============================================================================
