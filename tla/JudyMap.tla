------------------------------ MODULE JudyMap ------------------------------
(***************************************************************************)
(* What a Judy object promises to PHP code: it is ONE map.  offsetGet(),   *)
(* an ordered traversal and count() are three readings of it, and what a   *)
(* caller - also a handler that the extension itself called back - can see *)
(* them disagree about is stated here and is nothing more: while the       *)
(* destructor of a value runs that offsetUnset() took out, either the key  *)
(* is still walked and counted, and reads as NULL, or the key is gone and  *)
(* count() has still to follow.  The object keeps three different          *)
(* structures behind these readings; JudyStringStore shows that they       *)
(* implement this specification.                                           *)
(***************************************************************************)
EXTENDS Integers, FiniteSets

CONSTANTS Keys,     \* the keys of the map, in their order
          Values,   \* what can be stored under a key
          ABSENT,   \* what is read where nothing is stored
          NULL      \* what a traversal reads under a key that is leaving

VARIABLES map,      \* offsetGet(): the value of each key
          walked,   \* the key => value pairs that foreach, keys() and toArray() see
          counted,  \* count()
          leaving,  \* the keys unset whose destructor runs, and that are still walked
          behind    \* how many keys unset, and walked no more, count() has still to follow

vars == <<map, walked, counted, leaving, behind>>

Present(m) == {k \in Keys : m[k] # ABSENT}

\* What a traversal shows of the map m while the keys of l are leaving.
Shown(m, l) == [k \in Keys |-> IF k \in l THEN NULL ELSE m[k]]

Holds(m, l, b) == /\ map = m /\ leaving = l /\ behind = b
                  /\ walked = Shown(m, l)
                  /\ counted = Cardinality(Present(Shown(m, l))) + b

Becomes(m, l, b) == /\ map' = m /\ leaving' = l /\ behind' = b
                    /\ walked' = Shown(m, l)
                    /\ counted' = Cardinality(Present(Shown(m, l))) + b

Empty == [k \in Keys |-> ABSENT]

Init == Holds(Empty, {}, 0)

Put(k, v) == k \notin leaving /\ Becomes([map EXCEPT ![k] = v], leaving, behind)

\* A key goes for every reader at once; also one that was leaving.
Remove(k) == Becomes([map EXCEPT ![k] = ABSENT], leaving \ {k}, behind)

\* offsetUnset() of a value with a destructor: the map is without the key from here on.
Unset(k) == /\ map[k] # ABSENT
            /\ \/ Becomes([map EXCEPT ![k] = ABSENT], leaving \cup {k}, behind)
               \/ Becomes([map EXCEPT ![k] = ABSENT], leaving, behind + 1)

\* count() follows an unset.
CatchUp == behind > 0 /\ Becomes(map, leaving, behind - 1)

Clear == Becomes(Empty, {}, 0)

Next == \/ \E k \in Keys, v \in Values : Put(k, v)
        \/ \E k \in Keys : Remove(k) \/ Unset(k)
        \/ CatchUp
        \/ Clear

Spec == Init /\ [][Next]_vars
=============================================================================
