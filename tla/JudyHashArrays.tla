--------------------------- MODULE JudyHashArrays ---------------------------
(***************************************************************************)
(* The two arrays behind a STRING_TO_INT_HASH object and the handlers that *)
(* keep them in step: intern->array is a JudyHS array from strings to      *)
(* values, intern->key_index a JudySL array of the same strings, in order. *)
(* Any allocation of a call may fail, in either of them.                   *)
(***************************************************************************)
EXTENDS JudySL, JudyHS

CONSTANTS Pools,        \* choices of strings that the calls name
          Probes,       \* strings that the walks start from
          Budgets,      \* how many allocations of a call succeed
          FailAnywhere  \* may they also fail while an old string is carried down,
                        \* in an unset, and while a failed insert is undone?

ASSUME PoolsAssumption == \A p \in Pools : IsFiniteSet(p) /\ p \subseteq Strings
ASSUME ProbesAssumption == Probes \subseteq Strings
ASSUME BudgetsAssumption == IsFiniteSet(Budgets) /\ Budgets \subseteq Nat /\ Budgets # {}
ASSUME FailAnywhereAssumption == FailAnywhere \in BOOLEAN

Plenty == Max(Budgets)

\* The largest budget lets the removals of one call succeed, one in each array.
ASSUME PlentyAssumption == Plenty > 1

VARIABLES pool,
          array,     \* intern->array
          keyIndex,  \* intern->key_index
          counter,   \* intern->counter
          heap,      \* the words of all leaves
          answer,    \* what the last call told its caller
          seen,      \* what JudyHSGet() and JudySLGet() find of the pool
          starved    \* whether an allocation has failed since the arrays were empty

vars == <<pool, array, keyIndex, counter, heap, answer, seen, starved>>

Mem(left) == [heap |-> heap, left |-> left]

Stored(a) == [s \in {t \in pool : HSGet(a, t) # Nil} |-> HSGet(a, s).val]
Indexed(i) == [s \in {t \in pool : SLGet(i, t) # Nil} |-> SLGet(i, s).val]

Init == /\ pool \in Pools
        /\ array = NoTree /\ keyIndex = NoTree /\ counter = 0
        /\ heap = 0 /\ answer = "none" /\ starved = FALSE
        /\ seen = [stored |-> <<>>, indexed |-> <<>>]

\* What a call leaves behind: its two arrays, its memory, and whether it met a failure.
Leaves(a, i, m, failed) ==
  /\ array' = a /\ keyIndex' = i /\ heap' = m.heap
  /\ seen' = [stored  |-> IF a = array THEN seen.stored ELSE Stored(a),
              indexed |-> IF i = keyIndex THEN seen.indexed ELSE Indexed(i)]
  /\ starved' = ((starved \/ failed) /\ (a # NoTree \/ i # NoTree))
  /\ UNCHANGED pool

\* Mutant of Undone: the string stays in the value store.
NotUndone(a, s, m) == Result(a, 1, m)

\* The value store gives up a string that the key_index has no memory for.
Undone(a, s, m) == HSDel(a, s, IF FailAnywhere THEN m ELSE [m EXCEPT !.left = Plenty])

\* judy_string_slot_acquire(), and the writes of the value and its mirror.
Set(s, left) ==
  LET isNew == SLGet(keyIndex, s) = Nil
      h == HSIns(array, s, s, Mem(left))
      i == SLIns(keyIndex, s, s, h.m)
      undone == Undone(h.tree, s, i.m)
  IN  /\ FailAnywhere \/ /\ Carries(array, HSKey[s], Mem(left))
                         /\ h.ret = 1 => Carries(keyIndex, SLKey[s], h.m)
      /\ \/ /\ h.ret = -1
            /\ Leaves(h.tree, keyIndex, h.m, TRUE)
            /\ answer' = "not set" /\ UNCHANGED counter
         \/ /\ h.ret = 1 /\ ~isNew
            /\ Leaves(h.tree, keyIndex, h.m, FALSE)
            /\ answer' = "set" /\ UNCHANGED counter
         \/ /\ h.ret = 1 /\ isNew /\ i.ret = -1
            /\ Leaves(undone.tree, i.tree, undone.m, TRUE)
            /\ answer' = "not set" /\ UNCHANGED counter
         \/ /\ h.ret = 1 /\ isNew /\ i.ret = 1
            /\ Leaves(h.tree, i.tree, i.m, FALSE)
            /\ answer' = "set" /\ counter' = counter + 1

\* offsetUnset(): the key_index follows what the value store did.
Unset(s, left) ==
  LET h == HSDel(array, s, Mem(left))
      i == SLDel(keyIndex, s, h.m)
  IN  /\ left # Plenty => FailAnywhere
      /\ answer' = "unset"
      /\ IF h.ret = 1
           THEN /\ Leaves(h.tree, i.tree, i.m, i.ret = -1)
                /\ counter' = IF i.ret = 1 THEN counter - 1 ELSE counter
           ELSE /\ Leaves(h.tree, keyIndex, h.m, h.ret = -1)
                /\ UNCHANGED counter

\* free()
Free ==
  /\ array # NoTree \/ keyIndex # NoTree
  /\ Leaves(NoTree, NoTree, Freed(Mem(0), HSFreeArray(array) + SLFreeArray(keyIndex)), FALSE)
  /\ counter' = 0 /\ answer' = "freed"

Next == \/ \E s \in pool, left \in Budgets : Set(s, left) \/ Unset(s, left)
        \/ Free

Spec == Init /\ [][Next]_vars

-----------------------------------------------------------------------------
(* The value store, the key_index and the counter are one map, as long as a *)
(* call that fails changes none of them: leaves that are split, carried     *)
(* down and left over, and failed calls, lose and mix up no string.         *)
Map == INSTANCE IndexMap
         WITH map <- seen.stored, walked <- DOMAIN seen.indexed, counted <- counter

ImplementsMap == Map!Spec /\ [](seen.indexed = seen.stored)

(* JudySLNext() and JudySLPrev() find the nearest string on their side of   *)
(* any string, in strcmp() order.  Where a failed insert has left a dead    *)
(* end they may stop short, but never return a string that is not there.    *)
WalksAgree ==
  LET dead == DeadEnds(keyIndex) # {}
  IN  \A s \in Probes \union pool, next \in BOOLEAN :
        LET on == {t \in DOMAIN seen.indexed : Beyond(s, t, next)}
            t  == SLSeek(keyIndex, s, next)
        IN  IF t = NoString THEN on = {} \/ dead
            ELSE t \in on /\ (dead \/ \A u \in on \ {t} : Beyond(t, u, next))

(* Every word of a leaf that has been allocated is reachable from one of    *)
(* the two arrays, and free() gives back as many: a split frees the old     *)
(* leaf with the size it was allocated with, a failed call leaks nothing.   *)
Accounted == heap = HSFreeArray(array) + SLFreeArray(keyIndex)

(* Removals clean up on their way back: while no allocation has failed,     *)
(* neither array keeps an index that leads to no string.                    *)
NoDeadEnds == ~starved => DeadEnds(array) = {} /\ DeadEnds(keyIndex) = {}

(* What an insert that runs out of memory costs is a little memory: every   *)
(* string that both arrays held can still be found in them.                 *)
FailedSetKeeps == [][answer' = "not set" => seen' = seen]_vars
=============================================================================
