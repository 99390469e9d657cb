------------------------- MODULE MCTranspositionTable -------------------------
(* The bucket for TLC: a few stores that differ where it matters. *)
EXTENDS TranspositionTable, TLC

ThreadSymmetry == Permutations(Threads)

Put(k, from, special, depth, flag, eval) ==
  [kind |-> "store", key |-> k, from |-> from, special |-> special, score |-> 0,
   depth |-> depth, flag |-> flag, pv |-> FALSE, eval |-> eval]

\* An entry of each of two positions, and one with neither move nor evaluation.
RacingStores == {Put("p", 1, 0, 1, "beta", 1), Put("q", 2, 1, 1, "beta", 2),
                 Put("p", 0, 0, 0, "alpha", 0)}

\* Two entries of one position that differ only in the low 16 bits.
TwinStores == {Put("p", from, 0, 1, "beta", from) : from \in {1, 2}}

\* A shallow and a deep entry of each position, one that keeps what it finds,
\* and one that brings an evaluation only.
SoloStores == {Put(k, 1, 0, d, "beta", d) : k \in Keys, d \in {0, 2}}
         \cup {Put(k, 0, 0, 1, "alpha", 0) : k \in Keys}
         \cup {Put("p", 0, 0, 1, "none", 1)}
=============================================================================
