---------------------------- MODULE MCJudyCursor ----------------------------
(* Instances of JudyCursor small enough for TLC.                           *)
EXTENDS JudyCursor, MCJudyEntryCache

\* Every kind of walk.
MCTypes == WalkedTypes
=============================================================================
