--------------------------- MODULE MCJudyIntStore ---------------------------
(* Instances of JudyIntStore small enough for TLC.                         *)
EXTENDS JudyIntStore, TLC
=============================================================================
