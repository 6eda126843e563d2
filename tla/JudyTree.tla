------------------------------ MODULE JudyTree ------------------------------
(***************************************************************************)
(* The tree behind a Judy1 or a JudyL array (libjudy, the vendored C       *)
(* library that every php-judy object stores its keys in).  An index is a  *)
(* number of Levels digits in base Base (8 digits of one byte in the       *)
(* library).  A JP ("Judy pointer") is a record whose field t is its type: *)
(*                                                                         *)
(*   null            an empty slot of an uncompressed branch               *)
(*   immed1          one index, kept in the JP: key is the whole index     *)
(*                   without its first digit                               *)
(*   immed           2..ImmedMax[lvl] indexes kept in the JP               *)
(*   leaf            a sorted array of the lvl last digits of each index   *)
(*   leafB1          a bitmap of last digits                               *)
(*   full            all Base last digits (Judy1 only): no memory at all   *)
(*   branchL, branchB, branchU                                             *)
(*                   a linear, bitmap or uncompressed array of JPs         *)
(*                                                                         *)
(* A JP of lower level than its slot is a NARROW POINTER: the digits that  *)
(* were skipped are in dcd.  pop0 is the population below, minus one, as   *)
(* the walks keep it up to date on their way back.  Sizes are in words; m  *)
(* carries the jpm fields, the words the process holds, and how many more  *)
(* allocations of the running call succeed.                                *)
(***************************************************************************)
EXTENDS Integers, FiniteSets, FiniteSetsExt, Functions, TLC

CONSTANTS Base,          \* digits: cJU_BRANCHUNUMJPS, 256
          Levels,        \* cJU_ROOTSTATE, 8: the level of the root
          LeafWMaxPop1,  \* the largest root leaf
          LeafMaxOf,     \* of each kind and level below the root, the largest leaf
          ImmedMaxOf,    \* of each kind and level below the root, the largest immediate
          BranchLMaxJPs, \* 7
          BranchLMaxPop, \* JU_BRANCHL_MAX_POP
          BtoUIncrement, \* JU_BTOU_POP_INCREMENT
          BranchBMinPop, \* JU_BRANCHB_MIN_POP
          BranchBMaxPop, \* JU_BRANCHB_MAX_POP
          SubExpanse     \* digits that share one sub-array of a bitmap

ASSUME TreeAssumption ==
  /\ Base \in Nat \ {0, 1} /\ Levels \in Nat /\ Levels >= 3 /\ LeafWMaxPop1 \in Nat \ {0}
  /\ LeafMaxOf \in [BOOLEAN -> [1..(Levels - 1) -> Nat]]
  /\ ImmedMaxOf \in [BOOLEAN -> [1..(Levels - 1) -> Nat]]
  /\ \A set \in BOOLEAN :
       LET leaf == LeafMaxOf[set]
           immed == ImmedMaxOf[set]
       IN  /\ \A k \in 2..(Levels - 2) : leaf[k + 1] < leaf[k]
           /\ \A k \in 1..(Levels - 2) : immed[k] < leaf[k + 1]
           /\ \A k \in 1..(Levels - 1) : immed[k] < leaf[k]
           /\ LeafWMaxPop1 <= leaf[Levels - 1]
  /\ BranchLMaxJPs \in 2..Base /\ SubExpanse \in 1..Base

VARIABLE Judy1           \* the kind of array: Judy1 (a set) or JudyL (a map to words)

LeafMax == LeafMaxOf[Judy1]
ImmedMax == ImmedMaxOf[Judy1]

Digits == 0..(Base - 1)

Digit(idx, k) == (idx \div Base^(k - 1)) % Base

Low(idx, k) == idx % Base^k

\* JP_DCDPOP0 holds all bytes of an index but the first one.
Trim(idx) == Low(idx, Levels - 1)

Dcd(idx, k) == Trim(idx) \div Base^k

-----------------------------------------------------------------------------
(* JPs. *)

Null(k) == [t |-> "null", lvl |-> k]

Immed1(k, idx, v) == [t |-> "immed1", lvl |-> k, key |-> Trim(idx), val |-> v]

Immed(k, keys) == [t |-> "immed", lvl |-> k, keys |-> keys]

Leaf(k, dcd, pop0, keys) ==
  [t |-> "leaf", lvl |-> k, dcd |-> dcd, pop0 |-> pop0, keys |-> keys]

LeafB1(dcd, pop0, keys) ==
  [t |-> "leafB1", lvl |-> 1, dcd |-> dcd, pop0 |-> pop0, keys |-> keys]

Full(dcd, pop0) == [t |-> "full", lvl |-> 1, dcd |-> dcd, pop0 |-> pop0]

Branch(t, k, dcd, pop0, jps) ==
  [t |-> t, lvl |-> k, dcd |-> dcd, pop0 |-> pop0, jps |-> jps]

Branches == {"branchL", "branchB", "branchU"}

Immediate(jp) == jp.t \in {"immed1", "immed"}

HasPop0(jp) == jp.t \in Branches \union {"leaf", "leafB1", "full"}

\* JU_DCDNOTMATCHINDEX
Outlier(jp, idx) == jp.dcd # Dcd(idx, jp.lvl)

JPs(jp) == {d \in DOMAIN jp.jps : jp.jps[d].t # "null"}

Without(f, k) == Restrict(f, DOMAIN f \ {k})

-----------------------------------------------------------------------------
(* Words of memory. *)

Rounded(n) == 2 * ((n + 1) \div 2)

LeafWords(n) == IF Judy1 THEN Rounded(n) ELSE 2 * Rounded(n)

ValueWords(n) == IF Judy1 THEN 0 ELSE Rounded(n)

JPWords(n) == 2 * Rounded(n)

JPMWords == 3
BranchLWords == 1 + 2 * BranchLMaxJPs
BranchBWords == 2 * (Base \div SubExpanse)
BranchUWords == 2 * Base
LeafB1Words == Base \div 2

\* J__U_GROWCK: the next population fits in the same chunk.
GrowsInPlace(n, max, W(_)) == n # max /\ W(n) = W(n + 1)

\* The populations of the sub-arrays of a bitmap over a set of digits.
SubExpanses(ds) == {d \div SubExpanse : d \in ds}

InSubExpanse(ds, s) == {d \in ds : d \div SubExpanse = s}

SubWords(ds, W(_)) ==
  MapThenSumSet(LAMBDA s : W(Cardinality(InSubExpanse(ds, s))), SubExpanses(ds))

\* What the JP itself points at; FreeSM adds the JPs below.
OwnWords(jp) ==
  CASE jp.t = "immed" -> ValueWords(Cardinality(DOMAIN jp.keys))
    [] jp.t = "leaf" -> LeafWords(Cardinality(DOMAIN jp.keys))
    [] jp.t = "leafB1" -> LeafB1Words + SubWords(DOMAIN jp.keys, ValueWords)
    [] jp.t = "branchL" -> BranchLWords
    [] jp.t = "branchB" -> BranchBWords + SubWords(DOMAIN jp.jps, JPWords)
    [] jp.t = "branchU" -> BranchUWords
    [] OTHER -> 0

RECURSIVE WordsBelow(_)
WordsBelow(jp) ==
  IF jp.t \in Branches
  THEN OwnWords(jp) + MapThenSumSet(LAMBDA d : WordsBelow(jp.jps[d]), JPs(jp))
  ELSE OwnWords(jp)

\* One malloc() of w words, or n of them that are all given back when one fails.
CanAlloc(m, n) == m.left >= n
Failed(m) == [m EXCEPT !.left = 0]
Alloced(m, n, w) == [m EXCEPT !.words = @ + w, !.heap = @ + w, !.left = @ - n]
Freed(m, w) == [m EXCEPT !.words = @ - w, !.heap = @ - w]
=============================================================================
