----------------------------- MODULE MCGoldenSets -----------------------------
(* GoldenSets on small instances: items, and starts, are interchangeable.   *)
EXTENDS GoldenSets, TLC

Symmetry == Permutations(Items) \cup Permutations(Starts)
===============================================================================
