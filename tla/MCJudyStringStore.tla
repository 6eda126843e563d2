------------------------- MODULE MCJudyStringStore -------------------------
(* Instances of JudyStringStore small enough for TLC.                      *)
EXTENDS JudyStringStore, TLC

\* One key shorter than a word, two that are not.
MCKeyLength == (0 :> 3) @@ (1 :> 8) @@ (2 :> 11)

\* The key lengths for two keys, one on each side of the boundary.
MCTwoLengths == (0 :> 7) @@ (1 :> 8)
=============================================================================
