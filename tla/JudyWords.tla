----------------------------- MODULE JudyWords -----------------------------
(***************************************************************************)
(* What JudySL and JudyHS build their trees of strings from: JudyL arrays  *)
(* whose index is the next chunk of the string, and shortcut leaves that   *)
(* hold all that is left of the only string below.                         *)
(*                                                                         *)
(* A tree is a function.  It maps a path, the sequence of the JudyL        *)
(* indexes on the way from the root pointer to a slot, to what the slot    *)
(* holds; the root pointer itself is at <<>>.  A slot is one of            *)
(*                                                                         *)
(*   nil    a null pointer, or the root of the JudyL array whose indexes   *)
(*          are the last elements of the paths one longer (Children)       *)
(*   leaf   a shortcut leaf: scl_t of JudySL, ls_t of JudyHS               *)
(*   val    the value of the string that ends here                         *)
(*                                                                         *)
(* What the two libraries do differently is in the key that they make of   *)
(* a string: k.way are the indexes that it is spelled with, k.size maps    *)
(* each level at which a shortcut leaf may hold the rest of it to the      *)
(* bytes of that leaf.  The way of a string never goes on from where that  *)
(* of another one ends.                                                    *)
(*                                                                         *)
(* A JudyL array is a map here, as the one that JudyArray is shown to      *)
(* implement; the calls made of it may run out of memory, and change       *)
(* nothing when they do.  m carries the words held in leaves and the       *)
(* number of allocations that still succeed.                               *)
(***************************************************************************)
EXTENDS Integers, FiniteSets, FiniteSetsExt, Functions, Sequences

CONSTANTS WORDSIZE,
          Strings       \* the strings that calls and walks are about: sequences of bytes

ASSUME WordSizeAssumption == WORDSIZE \in Nat \ {0}
ASSUME StringsAssumption == Strings \subseteq Seq(Nat)

Nil == [t |-> "nil"]
Val(v) == [t |-> "val", val |-> v]
Leaf(k, v) == [t |-> "leaf", key |-> k, val |-> v]

\* A null root pointer.
NoTree == [p \in {<<>>} |-> Nil]

Path(way, i) == SubSeq(way, 1, i)

\* The slots of the JudyL array whose root is at p.
Children(a, p) == {q \in DOMAIN a : Len(q) = Len(p) + 1 /\ Path(q, Len(p)) = p}

\* STRCMP, and the order of the words that JudySL makes of the chunks.
Before(s, t) ==
  LET n == Min({Len(s), Len(t)})
  IN  \/ \E i \in 1..n : s[i] < t[i] /\ \A j \in 1..(i - 1) : s[j] = t[j]
      \/ n < Len(t) /\ \A j \in 1..n : s[j] = t[j]

\* The words of a structure of one value and n bytes.
LeafWords(n) == 1 + (n + WORDSIZE - 1) \div WORDSIZE

-----------------------------------------------------------------------------
(* Looking a string up: down its way as far as there are indexes, and to a  *)
(* comparison with the string of the leaf that ends the way.                *)

Depth(a, k) == Max({i \in 0..Len(k.way) : Path(k.way, i) \in DOMAIN a})

Slot(a, k) == a[Path(k.way, Depth(a, k))]

\* Whether the way down to a string ends at the leaf of another one.
Collides(a, k) ==
  LET slot == Slot(a, k)
  IN  slot.t = "leaf" /\ slot.key # k

\* Mutant of Get: the string of a leaf is not compared.
GetUncompared(a, k) ==
  LET slot == Slot(a, k)
  IN  IF slot.t = "leaf" THEN Val(slot.val) ELSE slot

\* The value of a string, nil if it has none.
Get(a, k) ==
  LET slot == Slot(a, k)
  IN  CASE slot.t # "leaf" -> slot
        [] slot.t = "leaf" /\ slot.key = k -> Val(slot.val)
        [] OTHER -> Nil

-----------------------------------------------------------------------------
(* Putting a string in.  ret is 1 for a slot or a removal, 0 for a string   *)
(* that is not there, -1 for PPJERR and JERR.                               *)

Result(tree, ret, m) == [tree |-> tree, ret |-> ret, m |-> m]

Freed(m, words) == [m EXCEPT !.heap = @ - words]

\* The first level from which on the rest of a string is a leaf or its value.
Bottom(k, from) == Min({j \in from..Len(k.way) : j \in DOMAIN k.size \/ j = Len(k.way)})

\* The indexes of a string from one level to another, a JudyLIns() each, the last of
\* which holds its value or a leaf with what is left of it.  The first call that finds no
\* memory ends it, and leaves what has been made.
Grow(a, k, v, from, to, m) ==
  LET made  == Min({m.left, to - from})
      new   == {Path(k.way, i) : i \in (from + 1)..(from + made)}
      grown == [p \in DOMAIN a \union new |->
                  IF p \in DOMAIN a THEN a[p] ELSE IF p = k.way THEN Val(v) ELSE Nil]
      left  == m.left - made
      full  == [grown EXCEPT ![Path(k.way, to)] = Leaf(k, v)]
  IN  CASE made < to - from -> Result(grown, -1, [m EXCEPT !.left = 0])
        [] made = to - from /\ to = Len(k.way) -> Result(grown, 1, [m EXCEPT !.left = left])
        [] made = to - from /\ to < Len(k.way) /\ left = 0 ->
             Result(grown, -1, [m EXCEPT !.left = 0])
        [] OTHER -> Result(full, 1, [heap |-> m.heap + LeafWords(k.size[to]), left |-> left - 1])

\* How far two strings go together.
Shared(k, l) ==
  Max({i \in 0..Min({Len(k.way), Len(l.way)}) : Path(k.way, i) = Path(l.way, i)})

\* The leaf in the way is disconnected, and its string carried down to where the two
\* part.
Carried(a, k, m) ==
  LET d   == Depth(a, k)
      old == Slot(a, k)
  IN  Grow([a EXCEPT ![Path(k.way, d)] = Nil], old.key, old.val,
           d, Bottom(old.key, Shared(old.key, k) + 1), m)

\* Then the leaf is freed, and the new string put beside the old one.
CarryDown(a, k, v, freed, m) ==
  LET e    == Shared(Slot(a, k).key, k)
      both == Carried(a, k, m)
  IN  IF both.ret = -1 THEN both
      ELSE Grow(both.tree, k, v, e, Bottom(k, e + 1), Freed(both.m, LeafWords(freed)))

\* There is memory for the string that an insert has to carry down, if any.
Carries(a, k, m) == Collides(a, k) => Carried(a, k, m).ret = 1

\* freed are the bytes that the code takes a leaf in the way to have.
Ins(a, k, v, freed, m) ==
  LET d     == Depth(a, k)
      p     == Path(k.way, d)
      empty == Children(a, p) = {}
  IN  CASE Collides(a, k) -> CarryDown(a, k, v, freed, m)
        [] Get(a, k) # Nil -> Result([a EXCEPT ![p].val = v], 1, m)
        [] a[p] = Nil /\ empty -> Grow(a, k, v, d, Bottom(k, d), m)
        [] a[p] = Nil /\ ~empty -> Grow(a, k, v, d, Bottom(k, d + 1), m)

-----------------------------------------------------------------------------
(* Taking a string out.  Its leaf is freed, and then its indexes, from the  *)
(* last one up to the first in an array that has others: the last index of  *)
(* an array goes without an allocation, the one among others needs one.     *)

\* Mutant of Fork: the index in the array with others stays.
ForkBelow(a, k) ==
  Max({0} \union {j + 1 : j \in {i \in 1..Depth(a, k) :
        Children(a, Path(k.way, i - 1)) # {Path(k.way, i)}}})

\* The level of the last index of a string that is not alone in its array.
Fork(a, k) ==
  Max({0} \union {j \in 1..Depth(a, k) : Children(a, Path(k.way, j - 1)) # {Path(k.way, j)}})

Without(a, k, from) == Restrict(a, DOMAIN a \ {Path(k.way, j) : j \in from..Depth(a, k)})

Del(a, k, m) ==
  LET d    == Depth(a, k)
      c    == Fork(a, k)
      leaf == Slot(a, k).t = "leaf"
      held == Get(a, k) # Nil
      rest == IF leaf THEN Freed(m, LeafWords(k.size[d])) ELSE m
  IN  CASE ~held -> Result(a, 0, m)
        [] held /\ c = 0 -> Result(NoTree, 1, rest)
        [] held /\ c > 0 /\ m.left > 0 -> Result(Without(a, k, c), 1, [rest EXCEPT !.left = @ - 1])
        [] held /\ c = d /\ c > 0 /\ ~leaf /\ m.left = 0 -> Result(a, -1, m)
        [] OTHER -> Result([Without(a, k, c + 1) EXCEPT ![Path(k.way, c)] = Nil], -1, rest)

-----------------------------------------------------------------------------
\* The words of the leaves of a tree.
TreeWords(a) ==
  LET words == [p \in DOMAIN a |->
                  IF a[p].t = "leaf" THEN LeafWords(a[p].key.size[Len(p)]) ELSE 0]
  IN  MapThenSumSet(LAMBDA p : words[p], DOMAIN a)

\* The indexes whose slot was never filled, or was emptied and kept its index.
DeadEnds(a) == {p \in DOMAIN a \ {<<>>} : a[p] = Nil /\ Children(a, p) = {}}
=============================================================================
