--------------------------- MODULE MCAlarmEvaluator ---------------------------
(* AlarmEvaluator on small instances: channels are interchangeable.         *)
EXTENDS AlarmEvaluator, TLC

Symmetry == Permutations(Channels)
===============================================================================
