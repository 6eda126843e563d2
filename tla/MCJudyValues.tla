---------------------------- MODULE MCJudyValues ----------------------------
(* Instances of JudyValues small enough for TLC.                           *)
EXTENDS JudyValues, TLC

MCValueSymmetry == Permutations(Values)
=============================================================================
