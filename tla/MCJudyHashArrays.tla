-------------------------- MODULE MCJudyHashArrays --------------------------
(* Instances of JudyHashArrays small enough for TLC: words of two bytes.   *)
EXTENDS JudyHashArrays

\* Strings that share one or two chunks, end inside one or at the end of one,
\* or have the same length and the same hash value.
MCPools == {
  {<<>>, <<1, 1>>, <<1, 1, 1>>, <<1, 1, 1, 1, 1>>, <<1, 1, 2>>},
  {<<1, 1, 1, 1, 1>>, <<1, 1, 1, 1, 3>>, <<1, 1, 3, 1, 1>>, <<3, 1, 1, 1, 1>>, <<1, 1, 1, 1>>},
  {<<1, 1, 1, 1>>, <<1, 1, 1, 3>>, <<1, 2, 1, 2>>, <<1, 2, 3, 2>>, <<2>>} }

MCProbes == {<<>>, <<1>>, <<1, 2>>, <<1, 1, 2>>, <<1, 1, 1, 1, 2>>, <<1, 1, 1, 1, 1, 1>>, <<3, 3>>}
MCStrings == UNION MCPools \union MCProbes
=============================================================================
