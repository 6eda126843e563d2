------------------------------ MODULE IndexMap ------------------------------
(***************************************************************************)
(* What a Judy1 or JudyL array promises its caller: it is one map.  Looking *)
(* an index up, walking from the first index to the last and counting are  *)
(* three readings of it, a call changes one index at most, and a call that *)
(* runs out of memory changes none.                                        *)
(***************************************************************************)
EXTENDS Integers, FiniteSets

VARIABLES map,      \* lookups: the value of each index that is present
          walked,   \* the indexes that First and Next find
          counted   \* Count(0, -1)

vars == <<map, walked, counted>>

Holds == walked = DOMAIN map /\ counted = Cardinality(DOMAIN map)

Init == Holds

Put == \E k \in DOMAIN map' :
          /\ DOMAIN map' = DOMAIN map \union {k}
          /\ \A i \in DOMAIN map \ {k} : map'[i] = map[i]

Remove == \E k \in DOMAIN map : map' = [i \in DOMAIN map \ {k} |-> map[i]]

FreeAll == DOMAIN map' = {}

Next == (Put \/ Remove \/ FreeAll) /\ Holds'

Spec == Init /\ [][Next]_vars
=============================================================================
