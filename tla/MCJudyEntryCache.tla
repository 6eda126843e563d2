-------------------------- MODULE MCJudyEntryCache --------------------------
(* Instances of JudyEntryCache small enough for TLC.                       *)
EXTENDS JudyEntryCache

\* In the past, never, and in the future.
MCTtls == {-1, 0, 1}
=============================================================================
