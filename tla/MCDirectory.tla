----------------------------- MODULE MCDirectory -----------------------------
(* Directory on small instances: requests are interchangeable.              *)
EXTENDS Directory, TLC

Symmetry == Permutations(Requests)
===============================================================================
