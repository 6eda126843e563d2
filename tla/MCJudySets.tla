----------------------------- MODULE MCJudySets -----------------------------
(* Instances of JudySets small enough for TLC.                             *)
EXTENDS JudySets

\* One length per key; the empty string is a key too.
MCBytes == [k \in Keys |-> k]
=============================================================================
