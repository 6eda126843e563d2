------------------------ MODULE JudyHashArrays_proofs ------------------------
(***************************************************************************)
(* Proofs about the two arrays of a STRING_TO_INT_HASH object, for every   *)
(* word size, every range of the hash, all strings and all pools of them.  *)
(*                                                                         *)
(* The trees of JudySL and JudyHS are treated alike, from what their keys  *)
(* have in common (Coded): no string's way goes on from where another's    *)
(* ends.  That makes a tree (TreeOK) hold at most one value for a string,  *)
(* where a lookup finds it (GetHolds).  On that rest a growing string      *)
(* (GrowKeeps), the split of a leaf (CarryDownKeeps), an insert (InsKeeps) *)
(* and a removal (DelKeeps).  That the two libraries spell strings so is   *)
(* shown next (SLCoded, HSCoded), and that the leaf in the way of a string *)
(* of JudyHS has the size that the code takes it to have (HSMeet).         *)
(*                                                                         *)
(* That walks find the nearest string comes last: the order of two strings *)
(* is that of the words at which their ways part (WayOrder), so the first  *)
(* of the indexes past a level leads to the first string past it (EndIs,   *)
(* PastIs), and the last level with such an index is the right one         *)
(* (SeekIs).                                                               *)
(*                                                                         *)
(* A carried-down string that finds no memory is lost (HashArraysNoMem),   *)
(* so all theorems are about calls whose allocations fail elsewhere:       *)
(* FailAnywhere = FALSE.                                                   *)
(***************************************************************************)
EXTENDS JudyHashArrays, DataLemmas, SequenceTheorems

-----------------------------------------------------------------------------
(* Numbers.                                                                *)

\* Of some numbers up to n one is the largest.
LEMMA MaxOf ==
  ASSUME NEW n \in Nat, NEW S \in SUBSET (0 .. n), S # {}
  PROVE  Max(S) \in S /\ \A x \in S : x <= Max(S)
<1> DEFINE N == {n - x : x \in S}
<1>1. PICK y \in N : \A z \in N : y <= z
  <2>1. \A x \in S : n - x \in Nat
    OBVIOUS
  <2>2. N \subseteq Nat /\ N # {}
    BY <2>1
  <2> HIDE DEF N
  <2> QED BY <2>2, SmallestNumber
<1>2. PICK x \in S : y = n - x
  OBVIOUS
<1>3. \A z \in S : x >= z
  <2> TAKE z \in S
  <2>1. n - z \in N
    OBVIOUS
  <2>2. y <= n - z
    BY <1>1, <2>1
  <2> QED BY <1>2, <2>2
<1>4. Max(S) \in S /\ \A z \in S : Max(S) >= z
  BY <1>3, Zenon DEF Max
<1> QED BY <1>4

\* A set of numbers has a smallest.
LEMMA MinOf ==
  ASSUME NEW S \in SUBSET Nat, S # {}
  PROVE  Min(S) \in S /\ \A x \in S : Min(S) <= x
<1>1. PICK x \in S : \A z \in S : x <= z
  BY SmallestNumber
<1> QED BY <1>1, Zenon DEF Min

\* Of two numbers the smaller one.
LEMMA MinOfTwo ==
  ASSUME NEW i \in Nat, NEW j \in Nat
  PROVE  Min({i, j}) = IF i <= j THEN i ELSE j
<1>1. Min({i, j}) \in {i, j} /\ \A x \in {i, j} : Min({i, j}) <= x
  BY MinOf
<1> QED BY <1>1

-----------------------------------------------------------------------------
(* Paths.                                                                  *)

\* An index is a length, a hash value or a chunk.
Index == Nat \union Seq(Nat) \union {Hash(s) : s \in Strings}

\* The first i indexes of a way.
LEMMA PathIs ==
  ASSUME NEW w \in Seq(Index), NEW i \in 0 .. Len(w)
  PROVE  /\ Path(w, i) = [j \in 1 .. i |-> w[j]]
         /\ Path(w, i) \in Seq(Index) /\ Len(Path(w, i)) = i
         /\ \A j \in 1 .. i : Path(w, i)[j] = w[j]
BY DEF Path

\* Two paths that are the same have been the same at every level.
LEMMA PathsAgree ==
  ASSUME NEW w \in Seq(Index), NEW i \in 0 .. Len(w),
         NEW u \in Seq(Index), NEW l \in 0 .. Len(u), Path(w, i) = Path(u, l)
  PROVE  i = l /\ \A j \in 0 .. i : Path(w, j) = Path(u, j)
<1>1. i = l
  BY PathIs
<1>2. \A j \in 1 .. i : w[j] = u[j]
  BY PathIs, <1>1
<1>3. ASSUME NEW j \in 0 .. i PROVE Path(w, j) = Path(u, j)
  <2>1. j \in 0 .. Len(w) /\ j \in 0 .. Len(u)
    BY <1>1
  <2>2. Path(w, j) = [m \in 1 .. j |-> w[m]] /\ Path(u, j) = [m \in 1 .. j |-> u[m]]
    BY <2>1, PathIs
  <2> QED BY <1>2, <2>2
<1> QED BY <1>1, <1>3

\* A path ends where its way does, and is empty at the root only.
LEMMA PathEnds ==
  ASSUME NEW w \in Seq(Index)
  PROVE  /\ Path(w, 0) = <<>> /\ Path(w, Len(w)) = w
         /\ \A i \in 0 .. Len(w) : Path(w, i) = <<>> <=> i = 0
<1>1. Path(w, 0) = <<>>
  BY PathIs
<1>2. Path(w, Len(w)) = w
  BY SubSeqFull DEF Path
<1>3. \A i \in 0 .. Len(w) : Path(w, i) = <<>> <=> i = 0
  BY PathIs, <1>1
<1> QED BY <1>1, <1>2, <1>3

\* The start of a path is a path of the same way.
LEMMA PathOfPath ==
  ASSUME NEW w \in Seq(Index), NEW i \in 0 .. Len(w), NEW j \in 0 .. i
  PROVE  Path(Path(w, i), j) = Path(w, j)
<1>1. Path(w, i) \in Seq(Index) /\ Len(Path(w, i)) = i
  BY PathIs
<1>2. Path(Path(w, i), j) = [m \in 1 .. j |-> Path(w, i)[m]]
  BY <1>1, PathIs
<1>3. Path(w, j) = [m \in 1 .. j |-> w[m]]
  BY PathIs
<1>4. \A m \in 1 .. j : Path(w, i)[m] = w[m]
  BY PathIs
<1> QED BY <1>2, <1>3, <1>4

-----------------------------------------------------------------------------
(* Keys and trees.                                                         *)

\* What JudySL or JudyHS make of a string: some indexes, and the levels that a leaf may be at.
IsKey(k) ==
  /\ k.way \in Seq(Index) /\ k.way # <<>>
  /\ \A j \in DOMAIN k.size : j \in 0 .. (Len(k.way) - 1) /\ k.size[j] \in Nat

\* No way goes on from where another one ends.
Coded(K) ==
  /\ \A k \in K : IsKey(k)
  /\ \A k, l \in K : \A i \in 0 .. Len(l.way) : k.way = Path(l.way, i) => k = l

\* What the slot at a path is: null or an array, where no way ends; a leaf, at a level
\* where its key may have one; or a value, where its way ends.
SlotOK(a, p, K, V) ==
  \/ a[p] = Nil /\ \A k \in K : p # k.way
  \/ \E k \in K, v \in V : \E j \in DOMAIN k.size : a[p] = Leaf(k, v) /\ p = Path(k.way, j)
  \/ \E k \in K, v \in V : a[p] = Val(v) /\ p = k.way

\* A tree of strings with keys in K and values in V: every path is on the way of a key,
\* above it there are only JudyL arrays, and leaves and values are where their keys say.
TreeOK(a, K, V) ==
  /\ a = [p \in DOMAIN a |-> a[p]]
  /\ IsFiniteSet(DOMAIN a) /\ <<>> \in DOMAIN a
  /\ \A p \in DOMAIN a \ {<<>>} : \E k \in K : \E i \in 0 .. Len(k.way) : p = Path(k.way, i)
  /\ \A k \in K : \A i \in 0 .. Len(k.way) : Path(k.way, i) \in DOMAIN a =>
       \A j \in 0 .. (i - 1) : Path(k.way, j) \in DOMAIN a /\ a[Path(k.way, j)] = Nil
  /\ \A p \in DOMAIN a : SlotOK(a, p, K, V)

\* Where the value of a key is.
HoldsAt(a, p, k, v) == a[p] = Leaf(k, v) \/ (p = k.way /\ a[p] = Val(v))
Holds(a, k, v) == \E p \in DOMAIN a : HoldsAt(a, p, k, v)

\* The way of a key ends at the last of its paths that is there.
LEMMA DepthType ==
  ASSUME NEW a, <<>> \in DOMAIN a, NEW k, IsKey(k)
  PROVE  /\ Depth(a, k) \in 0 .. Len(k.way) /\ Path(k.way, Depth(a, k)) \in DOMAIN a
         /\ \A i \in 0 .. Len(k.way) : Path(k.way, i) \in DOMAIN a => i <= Depth(a, k)
<1> DEFINE S == {i \in 0 .. Len(k.way) : Path(k.way, i) \in DOMAIN a}
<1>1. k.way \in Seq(Index) /\ Len(k.way) \in Nat
  BY DEF IsKey
<1>2. 0 \in S
  BY <1>1, PathEnds
<1>3. S \in SUBSET (0 .. Len(k.way)) /\ S # {}
  BY <1>2
<1>4. Depth(a, k) = Max(S)
  BY DEF Depth
<1> HIDE DEF S
<1>5. Max(S) \in S /\ \A x \in S : x <= Max(S)
  BY <1>1, <1>3, MaxOf
<1> QED BY <1>4, <1>5 DEF S

\* The depth of a key is the last level that is there.
LEMMA DepthIs ==
  ASSUME NEW a, <<>> \in DOMAIN a, NEW k, IsKey(k),
         NEW d \in 0 .. Len(k.way), Path(k.way, d) \in DOMAIN a,
         \A i \in (d + 1) .. Len(k.way) : Path(k.way, i) \notin DOMAIN a
  PROVE  Depth(a, k) = d
<1>1. Len(k.way) \in Nat
  BY DEF IsKey
<1>2. Depth(a, k) \in 0 .. Len(k.way) /\ d <= Depth(a, k) /\ Path(k.way, Depth(a, k)) \in DOMAIN a
  BY DepthType
<1>3. ~ (d < Depth(a, k))
  BY <1>1, <1>2
<1> QED BY <1>1, <1>2, <1>3

\* The three kinds of slots differ, and each tells what is in it.
LEMMA SlotShapes ==
  /\ \A k, v : Leaf(k, v).t = "leaf" /\ Leaf(k, v).key = k /\ Leaf(k, v).val = v
  /\ \A v : Val(v).t = "val" /\ Val(v).val = v
  /\ Nil.t = "nil"
  /\ \A k, v : Leaf(k, v) # Nil /\ Val(v) # Nil
  /\ \A k, v, w : Leaf(k, v) # Val(w)
  /\ \A k, v, l, w : Leaf(k, v) = Leaf(l, w) => k = l /\ v = w
  /\ \A v, w : Val(v) = Val(w) => v = w
<1>1. \A k, v : Leaf(k, v).t = "leaf" /\ Leaf(k, v).key = k /\ Leaf(k, v).val = v
  BY DEF Leaf
<1>2. \A v : Val(v).t = "val" /\ Val(v).val = v
  BY DEF Val
<1>3. Nil.t = "nil"
  BY DEF Nil
<1>4. ASSUME NEW k, NEW v, NEW l, NEW w, Leaf(k, v) = Leaf(l, w) PROVE k = l /\ v = w
  BY <1>1, <1>4
<1>5. ASSUME NEW v, NEW w, Val(v) = Val(w) PROVE v = w
  BY <1>2, <1>5
<1>6. \A k, v : Leaf(k, v) # Nil /\ Val(v) # Nil
  BY <1>1, <1>2, <1>3
<1>7. \A k, v, w : Leaf(k, v) # Val(w)
  BY <1>1, <1>2
<1> QED BY <1>1, <1>2, <1>3, <1>4, <1>5, <1>6, <1>7

\* A leaf is the leaf of one string.
LEMMA LeafIs ==
  ASSUME NEW k, NEW v, NEW l, NEW w, Leaf(k, v) = Leaf(l, w)
  PROVE  l = k /\ w = v
<1>1. Leaf(k, v).key = Leaf(l, w).key /\ Leaf(k, v).val = Leaf(l, w).val
  OBVIOUS
<1> QED BY <1>1 DEF Leaf

\* The value of a key is where its way ends, and there only.
LEMMA Holder ==
  ASSUME NEW K, Coded(K), NEW V, NEW a, TreeOK(a, K, V), NEW k \in K,
         NEW p \in DOMAIN a, NEW v, HoldsAt(a, p, k, v)
  PROVE  /\ p = Path(k.way, Depth(a, k)) /\ v \in V
         /\ a[p] = Val(v) => Depth(a, k) = Len(k.way)
         /\ a[p] = Leaf(k, v) => Depth(a, k) \in DOMAIN k.size
<1>1. IsKey(k) /\ <<>> \in DOMAIN a /\ SlotOK(a, p, K, V)
  BY DEF Coded, TreeOK
<1>2. k.way \in Seq(Index) /\ Len(k.way) \in Nat
  BY <1>1 DEF IsKey
<1>3. PICK j \in 0 .. Len(k.way) :
        /\ p = Path(k.way, j) /\ v \in V
        /\ a[p] = Val(v) => j = Len(k.way)
        /\ a[p] = Leaf(k, v) => j \in DOMAIN k.size
  <2>1. CASE a[p] = Leaf(k, v)
    <3>1. PICK l \in K, w \in V : \E j \in DOMAIN l.size : a[p] = Leaf(l, w) /\ p = Path(l.way, j)
      BY <1>1, <2>1, SlotShapes DEF SlotOK
    <3>2. Leaf(k, v) = Leaf(l, w)
      BY <2>1, <3>1
    <3>4. l = k /\ w = v
      BY <3>2, LeafIs
    <3>3. a[p] # Val(v)
      BY <2>1, SlotShapes
    <3> QED BY <1>1, <1>2, <3>1, <3>4, <3>3 DEF IsKey
  <2>2. CASE p = k.way /\ a[p] = Val(v)
    <3>1. v \in V
      BY <1>1, <2>2, SlotShapes DEF SlotOK
    <3>2. p = Path(k.way, Len(k.way))
      BY <2>2, <1>2, PathEnds
    <3>3. a[p] # Leaf(k, v)
      BY <2>2, SlotShapes
    <3> QED BY <1>2, <3>1, <3>2, <3>3
  <2> QED BY <2>1, <2>2 DEF HoldsAt
<1>4. a[p] # Nil
  BY SlotShapes DEF HoldsAt
<1>5. \A i \in (j + 1) .. Len(k.way) : Path(k.way, i) \notin DOMAIN a
  <2> SUFFICES ASSUME NEW i \in (j + 1) .. Len(k.way), Path(k.way, i) \in DOMAIN a PROVE FALSE
    OBVIOUS
  <2>1. i \in 0 .. Len(k.way) /\ j \in 0 .. (i - 1)
    BY <1>2
  <2>2. a[Path(k.way, j)] = Nil
    BY <2>1 DEF TreeOK
  <2> QED BY <1>3, <1>4, <2>2
<1>6. Depth(a, k) = j
  BY <1>1, <1>3, <1>5, DepthIs
<1> QED BY <1>3, <1>6

\* Looking a key up finds the value that is held for it.
LEMMA GetHolds ==
  ASSUME NEW K, Coded(K), NEW V, NEW a, TreeOK(a, K, V), NEW k \in K
  PROVE  /\ \A v : Get(a, k) = Val(v) <=> Holds(a, k, v)
         /\ Get(a, k) # Nil => \E v \in V : Get(a, k) = Val(v)
<1> DEFINE d == Depth(a, k)
           p == Path(k.way, d)
<1>1. IsKey(k) /\ <<>> \in DOMAIN a
  BY DEF Coded, TreeOK
<1>2. d \in 0 .. Len(k.way) /\ p \in DOMAIN a
  BY <1>1, DepthType
<1>3. SlotOK(a, p, K, V)
  BY <1>2 DEF TreeOK
<1>4. Slot(a, k) = a[p]
  BY DEF Slot
<1>5. ASSUME NEW v, Holds(a, k, v) PROVE Get(a, k) = Val(v)
  <2>1. PICK q \in DOMAIN a : HoldsAt(a, q, k, v)
    BY <1>5 DEF Holds
  <2>2. q = p
    BY <2>1, Holder
  <2> QED BY <1>4, <2>1, <2>2, SlotShapes DEF Get, HoldsAt
<1>6. ASSUME Get(a, k) # Nil PROVE \E v \in V : Get(a, k) = Val(v) /\ Holds(a, k, v)
  <2> HIDE DEF p
  <2>1. CASE \E l \in K, v \in V : \E j \in DOMAIN l.size : a[p] = Leaf(l, v) /\ p = Path(l.way, j)
    <3>1. PICK l \in K, v \in V : a[p] = Leaf(l, v)
      BY <2>1
    <3>2. l = k
      BY <1>4, <1>6, <3>1, SlotShapes DEF Get
    <3>3. Get(a, k) = Val(v)
      BY <1>4, <3>1, <3>2, SlotShapes DEF Get
    <3> QED BY <1>2, <3>1, <3>2, <3>3 DEF Holds, HoldsAt
  <2>2. CASE \E l \in K, v \in V : a[p] = Val(v) /\ p = l.way
    <3>1. PICK l \in K, v \in V : a[p] = Val(v) /\ p = l.way
      BY <2>2
    <3>2. l = k
      BY <1>2, <3>1 DEF Coded, p
    <3>3. Get(a, k) = Val(v)
      BY <1>4, <3>1, SlotShapes DEF Get
    <3> QED BY <1>2, <3>1, <3>2, <3>3 DEF Holds, HoldsAt
  <2>3. a[p] # Nil
    BY <1>4, <1>6, SlotShapes DEF Get
  <2> QED BY <1>3, <2>1, <2>2, <2>3 DEF SlotOK
<1>7. ASSUME NEW v, Get(a, k) = Val(v) PROVE Holds(a, k, v)
  <2>1. Get(a, k) # Nil
    BY <1>7, SlotShapes
  <2>2. PICK w \in V : Get(a, k) = Val(w) /\ Holds(a, k, w)
    BY <2>1, <1>6
  <2>3. w = v
    BY <1>7, <2>2, SlotShapes
  <2> QED BY <2>2, <2>3
<1> QED BY <1>5, <1>6, <1>7

\* What is held is all that lookups tell.
LEMMA GetSame ==
  ASSUME NEW K, Coded(K), NEW V, NEW a, TreeOK(a, K, V), NEW b, TreeOK(b, K, V), NEW k \in K,
         \A v : Holds(a, k, v) <=> Holds(b, k, v)
  PROVE  Get(a, k) = Get(b, k)
<1>1. CASE Get(a, k) # Nil
  <2>1. PICK v \in V : Get(a, k) = Val(v)
    BY <1>1, GetHolds
  <2>2. Get(b, k) = Val(v)
    BY <2>1, GetHolds
  <2> QED BY <2>1, <2>2
<1>2. CASE Get(b, k) # Nil
  <2>1. PICK v \in V : Get(b, k) = Val(v)
    BY <1>2, GetHolds
  <2>2. Get(a, k) = Val(v)
    BY <2>1, GetHolds
  <2> QED BY <2>1, <2>2
<1> QED BY <1>1, <1>2

-----------------------------------------------------------------------------
(* A string grows.                                                         *)

\* What hangs at the end of the indexes of a key.
Hanging(k, to, v) == IF to = Len(k.way) THEN Val(v) ELSE Leaf(k, v)

\* A tree with more indexes of a key, and a slot at the last of them.
Hung(a, k, from, to, slot) ==
  [q \in DOMAIN a \union {Path(k.way, i) : i \in (from + 1) .. to} |->
     IF q = Path(k.way, to) THEN slot ELSE IF q \in DOMAIN a THEN a[q] ELSE Nil]

\* Where it can grow: from an empty slot, at which no array hangs if nothing but the slot
\* changes.
Room(a, k, from, to, slot) ==
  /\ from \in 0 .. Len(k.way) /\ to \in from .. Len(k.way)
  /\ Path(k.way, from) \in DOMAIN a /\ a[Path(k.way, from)] = Nil
  /\ \A i \in (from + 1) .. Len(k.way) : Path(k.way, i) \notin DOMAIN a
  /\ to = from /\ slot # Nil => Children(a, Path(k.way, from)) = {}

\* What may be put there: an index that is not the last, a value at the end, or a leaf.
Fits(k, to, slot, V) ==
  \/ slot = Nil /\ to # Len(k.way)
  \/ /\ to = Len(k.way) \/ to \in DOMAIN k.size
     /\ \E v \in V : slot = Hanging(k, to, v)

\* The next step of a way is a slot of the array at the last one.
LEMMA ChildPath ==
  ASSUME NEW a, NEW w \in Seq(Index), NEW i \in 0 .. (Len(w) - 1), Path(w, i + 1) \in DOMAIN a
  PROVE  Path(w, i + 1) \in Children(a, Path(w, i))
<1>1. i \in 0 .. Len(w) /\ i + 1 \in 0 .. Len(w) /\ i \in 0 .. (i + 1) /\ i \in Nat
  OBVIOUS
<1>2. Len(Path(w, i + 1)) = i + 1 /\ Len(Path(w, i)) = i
  BY <1>1, PathIs
<1>3. Path(Path(w, i + 1), i) = Path(w, i)
  BY <1>1, PathOfPath
<1> QED BY <1>2, <1>3 DEF Children

\* Where the slots of the grown tree come from.
LEMMA HungDomain ==
  ASSUME NEW a, NEW k, IsKey(k), NEW from, NEW to, NEW slot, Room(a, k, from, to, slot)
  PROVE  /\ Path(k.way, to) \in DOMAIN Hung(a, k, from, to, slot)
         /\ Hung(a, k, from, to, slot)[Path(k.way, to)] = slot
         /\ \A q \in DOMAIN a : q \in DOMAIN Hung(a, k, from, to, slot)
         /\ \A q \in DOMAIN a : q # Path(k.way, to) => Hung(a, k, from, to, slot)[q] = a[q]
         /\ \A i \in (from + 1) .. to : Path(k.way, i) \in DOMAIN Hung(a, k, from, to, slot)
         /\ \A i \in (from + 1) .. to :
              i # to => Hung(a, k, from, to, slot)[Path(k.way, i)] = Nil
         /\ \A q \in DOMAIN Hung(a, k, from, to, slot) :
              q \in DOMAIN a \/ \E i \in (from + 1) .. to : q = Path(k.way, i)
         /\ Path(k.way, to) \in DOMAIN a => to = from
<1> DEFINE b == Hung(a, k, from, to, slot)
           D == DOMAIN a \union {Path(k.way, i) : i \in (from + 1) .. to}
<1>1. DOMAIN b = D
  BY DEF Hung
<1>2. \A q \in D : b[q] = IF q = Path(k.way, to) THEN slot ELSE IF q \in DOMAIN a THEN a[q] ELSE Nil
  BY DEF Hung
<1>3. /\ k.way \in Seq(Index) /\ Len(k.way) \in Nat /\ from \in Nat /\ to \in Nat
      /\ from <= to /\ to <= Len(k.way)
  BY DEF IsKey, Room
<1>4. Path(k.way, to) \in D
  <2>1. CASE from = to
    BY <2>1 DEF Room
  <2>2. CASE from # to
    <3>1. to \in (from + 1) .. to
      BY <1>3, <2>2
    <3> QED BY <3>1
  <2> QED BY <2>1, <2>2
<1>5. ASSUME NEW i \in (from + 1) .. to, i # to PROVE b[Path(k.way, i)] = Nil
  <2>1. i \in 0 .. Len(k.way) /\ to \in 0 .. Len(k.way) /\ i \in (from + 1) .. Len(k.way)
    BY <1>3
  <2>2. Path(k.way, i) # Path(k.way, to)
    BY <1>3, <1>5, <2>1, PathsAgree
  <2>3. Path(k.way, i) \notin DOMAIN a
    BY <2>1 DEF Room
  <2>4. Path(k.way, i) \in D
    OBVIOUS
  <2> QED BY <1>2, <2>2, <2>3, <2>4
<1>6. Path(k.way, to) \in DOMAIN a => to = from
  BY <1>3 DEF Room
<1> HIDE DEF b
<1> QED BY <1>1, <1>2, <1>4, <1>5, <1>6 DEF b

\* No way ends inside that of another key.
LEMMA Inside ==
  ASSUME NEW K, Coded(K), NEW k \in K, NEW i \in 0 .. Len(k.way), i # Len(k.way), NEW l \in K
  PROVE  Path(k.way, i) # l.way
<1>1. SUFFICES ASSUME l.way = Path(k.way, i) PROVE FALSE
  OBVIOUS
<1>2. l = k
  BY <1>1 DEF Coded
<1>3. k.way \in Seq(Index) /\ Len(k.way) \in Nat
  BY DEF Coded, IsKey
<1>4. Len(Path(k.way, i)) = i
  BY <1>3, PathIs
<1> QED BY <1>1, <1>2, <1>4

\* A tree that has grown is a tree.
LEMMA HungTree ==
  ASSUME NEW K, Coded(K), NEW V, NEW a, TreeOK(a, K, V), NEW k \in K, NEW from, NEW to, NEW slot,
         Room(a, k, from, to, slot), Fits(k, to, slot, V)
  PROVE  TreeOK(Hung(a, k, from, to, slot), K, V)
<1> DEFINE b == Hung(a, k, from, to, slot)
           P == Path(k.way, to)
           N == {Path(k.way, i) : i \in (from + 1) .. to}
<1>0. IsKey(k)
  BY DEF Coded
<1>1. /\ k.way \in Seq(Index) /\ Len(k.way) \in Nat /\ from \in Nat /\ to \in Nat
      /\ from <= to /\ to <= Len(k.way)
  BY <1>0 DEF IsKey, Room
<1>2. /\ P \in DOMAIN b /\ b[P] = slot
      /\ \A q \in DOMAIN a : q \in DOMAIN b
      /\ \A q \in DOMAIN a : q # P => b[q] = a[q]
      /\ \A i \in (from + 1) .. to : Path(k.way, i) \in DOMAIN b
      /\ \A i \in (from + 1) .. to : i # to => b[Path(k.way, i)] = Nil
      /\ \A q \in DOMAIN b : q \in DOMAIN a \/ \E i \in (from + 1) .. to : q = Path(k.way, i)
      /\ P \in DOMAIN a => to = from
  BY <1>0, HungDomain
<1>3. b = [p \in DOMAIN b |-> b[p]]
  BY DEF Hung
<1>4. IsFiniteSet(DOMAIN b)
  <2>1. IsFiniteSet((from + 1) .. to)
    BY <1>1, FS_Interval
  <2> DEFINE h == [i \in (from + 1) .. to |-> Path(k.way, i)]
  <2>2. h \in Surjection((from + 1) .. to, N)
    BY DEF Surjection
  <2>3. IsFiniteSet(N)
    <3> HIDE DEF h, N
    <3> QED BY <2>1, <2>2, FS_Surjection
  <2>4. IsFiniteSet(DOMAIN a)
    BY DEF TreeOK
  <2>5. DOMAIN b = DOMAIN a \union N
    BY DEF Hung
  <2> HIDE DEF b, N
  <2> QED BY <2>3, <2>4, <2>5, FS_Union
<1>5. <<>> \in DOMAIN b
  BY <1>2 DEF TreeOK
<1> HIDE DEF b
<1>6. ASSUME NEW p \in DOMAIN b \ {<<>>} PROVE \E l \in K : \E i \in 0 .. Len(l.way) : p = Path(l.way, i)
  <2>1. CASE p \in DOMAIN a
    BY <2>1 DEF TreeOK
  <2>2. CASE p \notin DOMAIN a
    <3>1. PICK i \in (from + 1) .. to : p = Path(k.way, i)
      BY <1>2, <2>2
    <3>2. i \in 0 .. Len(k.way)
      BY <1>1
    <3> QED BY <3>1, <3>2
  <2> QED BY <2>1, <2>2
<1>7. ASSUME NEW l \in K, NEW i \in 0 .. Len(l.way), Path(l.way, i) \in DOMAIN b, NEW j \in 0 .. (i - 1)
      PROVE  Path(l.way, j) \in DOMAIN b /\ b[Path(l.way, j)] = Nil
  <2>1. l.way \in Seq(Index) /\ Len(l.way) \in Nat /\ j \in 0 .. Len(l.way) /\ j \in 0 .. i
    BY DEF Coded, IsKey
  <2>2. CASE Path(l.way, i) \in DOMAIN a
    <3>1. Path(l.way, j) \in DOMAIN a /\ a[Path(l.way, j)] = Nil
      BY <2>2 DEF TreeOK
    <3>2. CASE Path(l.way, j) = P /\ slot # Nil
      <4>1. to = from
        BY <1>2, <3>1, <3>2
      <4>2. Path(l.way, j + 1) \in DOMAIN a
        <5>1. CASE j + 1 = i
          BY <5>1, <2>2
        <5>2. CASE j + 1 # i
          <6>1. j + 1 \in 0 .. (i - 1)
            BY <5>2
          <6> QED BY <2>2, <6>1 DEF TreeOK
        <5> QED BY <5>1, <5>2
      <4>3. j \in 0 .. (Len(l.way) - 1)
        BY <2>1
      <4>4. Path(l.way, j + 1) \in Children(a, P)
        BY <2>1, <3>2, <4>2, <4>3, ChildPath
      <4> QED BY <3>2, <4>1, <4>4 DEF Room
    <3>3. CASE Path(l.way, j) = P /\ slot = Nil
      BY <1>2, <3>3
    <3>4. CASE Path(l.way, j) # P
      BY <1>2, <3>1, <3>4
    <3> QED BY <3>2, <3>3, <3>4
  <2>3. CASE Path(l.way, i) \notin DOMAIN a
    <3>0. \A q \in DOMAIN b : q \in DOMAIN a \/ \E n \in (from + 1) .. to : q = Path(k.way, n)
      BY <1>2
    <3>1. PICK n \in (from + 1) .. to : Path(l.way, i) = Path(k.way, n)
      BY <1>7, <2>3, <3>0, Zenon
    <3>2. n \in 0 .. Len(k.way)
      BY <1>1
    <3>3. i = n /\ Path(l.way, j) = Path(k.way, j)
      BY <1>1, <2>1, <3>1, <3>2, PathsAgree
    <3>4. j \in 0 .. Len(k.way) /\ to \in 0 .. Len(k.way) /\ j # to
      BY <1>1, <3>3
    <3>5. Path(k.way, j) # P
      BY <1>1, <3>4, PathsAgree
    <3>6. CASE j \in (from + 1) .. to
      BY <1>2, <3>3, <3>4, <3>6
    <3>7. CASE j \notin (from + 1) .. to
      <4>1. j <= from
        BY <1>1, <3>3, <3>7
      <4>2. Path(k.way, j) \in DOMAIN a /\ a[Path(k.way, j)] = Nil
        <5>1. CASE j = from
          BY <5>1 DEF Room
        <5>2. CASE j # from
          <6>1. j \in 0 .. (from - 1) /\ from \in 0 .. Len(k.way)
            BY <1>1, <4>1, <5>2
          <6>2. Path(k.way, from) \in DOMAIN a
            BY DEF Room
          <6> QED BY <6>1, <6>2 DEF TreeOK
        <5> QED BY <5>1, <5>2
      <4> QED BY <1>2, <3>3, <3>5, <4>2
    <3> QED BY <3>6, <3>7
  <2> QED BY <2>2, <2>3
<1>8. ASSUME NEW p \in DOMAIN b PROVE SlotOK(b, p, K, V)
  <2>0. to \in 0 .. Len(k.way)
    BY <1>1
  <2>1. CASE p = P /\ slot = Nil
    <3>1. to # Len(k.way)
      BY <2>1, SlotShapes DEF Fits, Hanging
    <3>2. \A l \in K : P # l.way
      BY <2>0, <3>1, Inside
    <3> QED BY <1>2, <2>1, <3>2 DEF SlotOK
  <2>2. CASE p = P /\ slot # Nil
    <3>1. PICK v \in V : slot = Hanging(k, to, v) /\ (to = Len(k.way) \/ to \in DOMAIN k.size)
      BY <2>2 DEF Fits
    <3>2. CASE to = Len(k.way)
      <4>1. P = k.way
        BY <1>1, <3>2, PathEnds
      <4> QED BY <1>2, <2>2, <3>1, <3>2, <4>1 DEF SlotOK, Hanging
    <3>3. CASE to # Len(k.way)
      BY <1>2, <2>2, <3>1, <3>3 DEF SlotOK, Hanging
    <3> QED BY <3>2, <3>3
  <2>3. CASE p # P /\ p \in DOMAIN a
    <3>1. SlotOK(a, p, K, V) /\ b[p] = a[p]
      BY <1>2, <2>3 DEF TreeOK
    <3> QED BY <3>1 DEF SlotOK
  <2>4. CASE p # P /\ p \notin DOMAIN a
    <3>1. PICK i \in (from + 1) .. to : p = Path(k.way, i)
      BY <1>2, <2>4
    <3>2. i # to /\ i \in 0 .. Len(k.way) /\ i # Len(k.way)
      BY <1>1, <2>4, <3>1
    <3>3. \A l \in K : p # l.way
      BY <3>1, <3>2, Inside
    <3> QED BY <1>2, <3>1, <3>2, <3>3 DEF SlotOK
  <2> QED BY <2>1, <2>2, <2>3, <2>4
<1> HIDE DEF P, N
<1> QED BY <1>3, <1>4, <1>5, <1>6, <1>7, <1>8 DEF TreeOK, b

\* It holds what it held, and what has been hung in it.
LEMMA HungHolds ==
  ASSUME NEW K, Coded(K), NEW V, NEW a, TreeOK(a, K, V), NEW k \in K, NEW from, NEW to, NEW slot,
         Room(a, k, from, to, slot), Fits(k, to, slot, V)
  PROVE  \A l \in K : \A w : Holds(Hung(a, k, from, to, slot), l, w) <=>
                           Holds(a, l, w) \/ (l = k /\ slot = Hanging(k, to, w))
<1> DEFINE b == Hung(a, k, from, to, slot)
           P == Path(k.way, to)
<1>0. IsKey(k)
  BY DEF Coded
<1>1. /\ P \in DOMAIN b /\ b[P] = slot
      /\ \A q \in DOMAIN a : q \in DOMAIN b
      /\ \A q \in DOMAIN a : q # P => b[q] = a[q]
      /\ \A i \in (from + 1) .. to : i # to => b[Path(k.way, i)] = Nil
      /\ \A q \in DOMAIN b : q \in DOMAIN a \/ \E i \in (from + 1) .. to : q = Path(k.way, i)
      /\ P \in DOMAIN a => to = from
  BY <1>0, HungDomain
<1>2. P \in DOMAIN a => a[P] = Nil
  BY <1>1 DEF Room
<1>3. /\ k.way \in Seq(Index) /\ Len(k.way) \in Nat /\ to \in 0 .. Len(k.way)
  BY <1>0 DEF IsKey, Room
<1>4. to = Len(k.way) => P = k.way
  BY <1>3, PathEnds
<1> SUFFICES ASSUME NEW l \in K, NEW w
             PROVE  Holds(b, l, w) <=> Holds(a, l, w) \/ (l = k /\ slot = Hanging(k, to, w))
  OBVIOUS
<1> HIDE DEF b, P
<1>5. ASSUME Holds(a, l, w) PROVE Holds(b, l, w)
  <2>1. PICK p \in DOMAIN a : HoldsAt(a, p, l, w)
    BY <1>5 DEF Holds
  <2>2. a[p] # Nil
    BY <2>1, SlotShapes DEF HoldsAt
  <2>3. p \in DOMAIN b /\ b[p] = a[p]
    BY <1>1, <1>2, <2>2
  <2> QED BY <2>1, <2>3 DEF Holds, HoldsAt
<1>6. ASSUME l = k, slot = Hanging(k, to, w) PROVE Holds(b, l, w)
  BY <1>1, <1>4, <1>6 DEF Holds, HoldsAt, Hanging
<1>7. ASSUME Holds(b, l, w) PROVE Holds(a, l, w) \/ (l = k /\ slot = Hanging(k, to, w))
  <2>1. PICK p \in DOMAIN b : HoldsAt(b, p, l, w)
    BY <1>7 DEF Holds
  <2>2. b[p] # Nil
    BY <2>1, SlotShapes DEF HoldsAt
  <2>3. CASE p # P
    <3>1. p \in DOMAIN a
      <4>1. SUFFICES ASSUME p \notin DOMAIN a PROVE FALSE
        OBVIOUS
      <4>2. PICK i \in (from + 1) .. to : p = Path(k.way, i)
        BY <1>1, <4>1
      <4> QED BY <1>1, <2>2, <2>3, <4>2 DEF P
    <3> QED BY <1>1, <2>1, <2>3, <3>1 DEF Holds, HoldsAt
  <2>4. CASE p = P
    <3>1. PICK v \in V : slot = Hanging(k, to, v)
      BY <1>1, <2>2, <2>4 DEF Fits
    <3>2. CASE to = Len(k.way)
      <4>1. slot = Val(v)
        BY <3>1, <3>2 DEF Hanging
      <4>2. p = l.way /\ Val(v) = Val(w)
        BY <1>1, <2>1, <2>4, <4>1, SlotShapes DEF HoldsAt
      <4>3. v = w
        BY <4>2, SlotShapes
      <4>4. l = k
        BY <1>3, <2>4, <4>2 DEF Coded, P
      <4> QED BY <3>1, <4>3, <4>4
    <3>3. CASE to # Len(k.way)
      <4>1. slot = Leaf(k, v)
        BY <3>1, <3>3 DEF Hanging
      <4>2. Leaf(k, v) = Leaf(l, w)
        BY <1>1, <2>1, <2>4, <4>1, SlotShapes DEF HoldsAt
      <4>3. l = k /\ w = v
        BY <4>2, LeafIs
      <4> QED BY <3>1, <4>3
    <3> QED BY <3>2, <3>3
  <2> QED BY <2>3, <2>4
<1> QED BY <1>5, <1>6, <1>7

\* Every step of the way is an index of the array at the step before.
LEMMA HungDead ==
  ASSUME NEW a, NEW k, IsKey(k), NEW from, NEW to, NEW slot,
         Room(a, k, from, to, slot), slot # Nil
  PROVE  DeadEnds(Hung(a, k, from, to, slot)) \subseteq DeadEnds(a) \ {Path(k.way, from)}
<1> DEFINE b == Hung(a, k, from, to, slot)
           P == Path(k.way, to)
<1>1. /\ P \in DOMAIN b /\ b[P] = slot
      /\ \A q \in DOMAIN a : q \in DOMAIN b
      /\ \A q \in DOMAIN a : q # P => b[q] = a[q]
      /\ \A i \in (from + 1) .. to : Path(k.way, i) \in DOMAIN b
      /\ \A q \in DOMAIN b : q \in DOMAIN a \/ \E i \in (from + 1) .. to : q = Path(k.way, i)
      /\ P \in DOMAIN a => to = from
  BY HungDomain
<1>2. /\ k.way \in Seq(Index) /\ Len(k.way) \in Nat /\ from \in Nat /\ to \in Nat
      /\ from <= to /\ to <= Len(k.way)
  BY DEF IsKey, Room
<1> HIDE DEF b, P
<1> SUFFICES ASSUME NEW p \in DeadEnds(b) PROVE p \in DeadEnds(a) /\ p # Path(k.way, from)
  BY DEF b
<1>3. p \in DOMAIN b /\ p # <<>> /\ b[p] = Nil /\ Children(b, p) = {}
  BY DEF DeadEnds
<1>4. ASSUME NEW i \in from .. to PROVE p # Path(k.way, i)
  <2>1. CASE i = to
    BY <1>1, <1>3, <2>1 DEF P
  <2>2. CASE i # to
    <3>1. i \in 0 .. (Len(k.way) - 1) /\ i + 1 \in (from + 1) .. to
      BY <1>2, <2>2
    <3>2. Path(k.way, i + 1) \in Children(b, Path(k.way, i))
      BY <1>1, <1>2, <3>1, ChildPath
    <3> QED BY <1>3, <3>2
  <2> QED BY <2>1, <2>2
<1>5. p # Path(k.way, from) /\ p # P
  BY <1>2, <1>4 DEF P
<1>6. p \in DOMAIN a
  BY <1>1, <1>2, <1>3, <1>4
<1>7. Children(a, p) \subseteq Children(b, p)
  BY <1>1 DEF Children
<1> QED BY <1>1, <1>3, <1>5, <1>6, <1>7 DEF DeadEnds

-----------------------------------------------------------------------------
(* The words of the leaves.                                                *)

\* The words of the leaf at each path.
WordsAt(a) == [p \in DOMAIN a |->
                 IF a[p].t = "leaf" THEN LeafWords(a[p].key.size[Len(p)]) ELSE 0]

\* A leaf has some words.
LEMMA LeafWordsType == \A n \in Nat : LeafWords(n) \in Nat
<1> TAKE n \in Nat
<1> DEFINE q == (n + WORDSIZE - 1) \div WORDSIZE
<1>1. q \in Nat
  BY WordSizeAssumption
<1> HIDE DEF q
<1>2. LeafWords(n) = 1 + q
  BY DEF LeafWords, q
<1> QED BY <1>1, <1>2

\* The words of a tree are the sum of those of its leaves.
LEMMA WordsAtType ==
  ASSUME NEW K, Coded(K), NEW V, NEW a, TreeOK(a, K, V)
  PROVE  /\ \A p \in DOMAIN a : WordsAt(a)[p] \in Nat
         /\ \A p \in DOMAIN a : a[p].t # "leaf" => WordsAt(a)[p] = 0
         /\ \A p \in DOMAIN a, k \in K, j \in Nat : \A v :
              a[p] = Leaf(k, v) /\ Len(p) = j => WordsAt(a)[p] = LeafWords(k.size[j])
         /\ TreeWords(a) = Total(WordsAt(a), DOMAIN a) /\ TreeWords(a) \in Nat
         /\ IsFiniteSet(DOMAIN a)
<1>1. ASSUME NEW p \in DOMAIN a PROVE WordsAt(a)[p] \in Nat
  <2>1. CASE a[p].t # "leaf"
    BY <2>1 DEF WordsAt
  <2>2. CASE a[p].t = "leaf"
    <3>1. SlotOK(a, p, K, V)
      BY DEF TreeOK
    <3>2. PICK k \in K, v \in V : \E j \in DOMAIN k.size : a[p] = Leaf(k, v) /\ p = Path(k.way, j)
      BY <2>2, <3>1, SlotShapes DEF SlotOK
    <3>3. PICK j \in DOMAIN k.size : p = Path(k.way, j)
      BY <3>2
    <3>4. k.way \in Seq(Index) /\ j \in 0 .. Len(k.way) /\ k.size[j] \in Nat
      BY DEF Coded, IsKey
    <3>5. Len(p) = j
      BY <3>3, <3>4, PathIs
    <3>6. WordsAt(a)[p] = LeafWords(k.size[j])
      BY <2>2, <3>2, <3>5, SlotShapes DEF WordsAt
    <3> QED BY <3>4, <3>6, LeafWordsType
  <2> QED BY <2>1, <2>2
<1>2. \A p \in DOMAIN a : a[p].t # "leaf" => WordsAt(a)[p] = 0
  BY DEF WordsAt
<1>3. ASSUME NEW p \in DOMAIN a, NEW k \in K, NEW j \in Nat, NEW v, a[p] = Leaf(k, v), Len(p) = j
      PROVE WordsAt(a)[p] = LeafWords(k.size[j])
  BY <1>3, SlotShapes DEF WordsAt
<1>4. TreeWords(a) = Total(WordsAt(a), DOMAIN a)
  BY DEF TreeWords, Total, WordsAt
<1>5. IsFiniteSet(DOMAIN a)
  BY DEF TreeOK
<1>6. TreeWords(a) \in Nat
  BY <1>1, <1>4, <1>5, TotalType
<1> QED BY <1>1, <1>2, <1>3, <1>4, <1>5, <1>6

\* Two trees that have the same leaves but for one.
LEMMA WordsOneMore ==
  ASSUME NEW K, Coded(K), NEW V, NEW a, TreeOK(a, K, V), NEW b, TreeOK(b, K, V),
         NEW P \in DOMAIN b, P \in DOMAIN a => a[P].t # "leaf",
         \A q \in DOMAIN b : q # P /\ q \in DOMAIN a => b[q] = a[q],
         \A q \in DOMAIN b : q # P /\ q \notin DOMAIN a => b[q].t # "leaf",
         \A q \in DOMAIN a : q \notin DOMAIN b => a[q].t # "leaf"
  PROVE  TreeWords(b) = TreeWords(a) + WordsAt(b)[P]
<1> DEFINE f == WordsAt(a)
           g == WordsAt(b)
           X == (DOMAIN a \ {P}) \intersect DOMAIN b
<1>1. /\ \A p \in DOMAIN a : f[p] \in Nat
      /\ \A p \in DOMAIN a : a[p].t # "leaf" => f[p] = 0
      /\ TreeWords(a) = Total(f, DOMAIN a) /\ TreeWords(a) \in Nat /\ IsFiniteSet(DOMAIN a)
  BY WordsAtType
<1>2. /\ \A p \in DOMAIN b : g[p] \in Nat
      /\ \A p \in DOMAIN b : b[p].t # "leaf" => g[p] = 0
      /\ TreeWords(b) = Total(g, DOMAIN b) /\ IsFiniteSet(DOMAIN b)
  BY WordsAtType
<1>3. \A q \in X : g[q] = f[q]
  BY DEF WordsAt
<1>4. IsFiniteSet(X) /\ X \in SUBSET DOMAIN a
  BY <1>1, FS_Subset
<1>5. IsFiniteSet(DOMAIN b \ {P}) /\ X \in SUBSET (DOMAIN b \ {P})
  BY <1>2, FS_RemoveElement
<1>6. \A q \in DOMAIN a \ X : f[q] = 0
  BY <1>1
<1>7. \A q \in (DOMAIN b \ {P}) \ X : g[q] = 0
  BY <1>2
<1>8. /\ \A q \in X : f[q] \in Nat
      /\ \A q \in DOMAIN b \ {P} : g[q] \in Nat
  BY <1>1, <1>2
<1> HIDE DEF f, g, X
<1>9. Total(f, X) = Total(f, DOMAIN a)
  BY <1>1, <1>4, <1>6, TotalPart
<1>10. Total(g, X) = Total(g, DOMAIN b \ {P})
  <2> DEFINE Y == DOMAIN b \ {P}
  <2>1. IsFiniteSet(Y) /\ X \in SUBSET Y /\ (\A q \in Y : g[q] \in Nat) /\ \A q \in Y \ X : g[q] = 0
    BY <1>5, <1>7, <1>8
  <2> HIDE DEF Y
  <2>2. Total(g, X) = Total(g, Y)
    BY <2>1, TotalPart
  <2> QED BY <2>2 DEF Y
<1>11. Total(g, X) = Total(f, X)
  BY <1>3, <1>4, <1>8, TotalEqual
<1>12. Total(g, DOMAIN b) = g[P] + Total(g, DOMAIN b \ {P})
  BY <1>2, TotalRemove
<1>13. g[P] \in Nat
  BY <1>2
<1> QED BY <1>1, <1>2, <1>9, <1>10, <1>11, <1>12, <1>13 DEF g

\* The memory of a call.
Memory == [heap : Int, left : Nat]

\* What hangs at the end of a way tells its value.
LEMMA HangingShapes ==
  ASSUME NEW k, NEW to, NEW v
  PROVE  /\ Hanging(k, to, v) # Nil
         /\ \A w : Hanging(k, to, w) = Hanging(k, to, v) => w = v
<1>1. Hanging(k, to, v) # Nil
  BY SlotShapes DEF Hanging
<1>2. ASSUME NEW w, Hanging(k, to, w) = Hanging(k, to, v) PROVE w = v
  <2>1. CASE to = Len(k.way)
    <3>1. Val(w) = Val(v)
      BY <1>2, <2>1 DEF Hanging
    <3> QED BY <3>1, SlotShapes
  <2>2. CASE to # Len(k.way)
    <3>1. Leaf(k, w) = Leaf(k, v)
      BY <1>2, <2>2 DEF Hanging
    <3> QED BY <3>1, LeafIs
  <2> QED BY <2>1, <2>2
<1> QED BY <1>1, <1>2

\* The words of a tree that has grown: those of its new leaf come on top.
LEMMA HungWords ==
  ASSUME NEW K, Coded(K), NEW V, NEW a, TreeOK(a, K, V), NEW k \in K, NEW from, NEW to, NEW slot,
         Room(a, k, from, to, slot), Fits(k, to, slot, V)
  PROVE  TreeWords(Hung(a, k, from, to, slot)) =
           TreeWords(a) + (IF slot = Nil \/ to = Len(k.way) THEN 0 ELSE LeafWords(k.size[to]))
<1> DEFINE b == Hung(a, k, from, to, slot)
           P == Path(k.way, to)
<1>0. IsKey(k)
  BY DEF Coded
<1>1. /\ P \in DOMAIN b /\ b[P] = slot
      /\ \A q \in DOMAIN a : q \in DOMAIN b
      /\ \A q \in DOMAIN a : q # P => b[q] = a[q]
      /\ \A i \in (from + 1) .. to : i # to => b[Path(k.way, i)] = Nil
      /\ \A q \in DOMAIN b : q \in DOMAIN a \/ \E i \in (from + 1) .. to : q = Path(k.way, i)
      /\ P \in DOMAIN a => to = from
  BY <1>0, HungDomain
<1>2. P \in DOMAIN a => a[P].t # "leaf"
  BY <1>1, SlotShapes DEF Room
<1>3. TreeOK(b, K, V)
  BY HungTree
<1>4. /\ k.way \in Seq(Index) /\ to \in 0 .. Len(k.way) /\ Len(P) = to
  BY <1>0, PathIs DEF IsKey, Room
<1> HIDE DEF b, P
<1>5. \A q \in DOMAIN b : q # P /\ q \notin DOMAIN a => b[q].t # "leaf"
  BY <1>1, SlotShapes DEF P
<1>6. TreeWords(b) = TreeWords(a) + WordsAt(b)[P]
  BY <1>1, <1>2, <1>3, <1>5, WordsOneMore
<1>7. CASE slot = Nil \/ to = Len(k.way)
  <2>1. b[P].t # "leaf"
    BY <1>1, <1>7, SlotShapes DEF Fits, Hanging
  <2>2. WordsAt(b)[P] = 0
    BY <1>1, <1>3, <2>1, WordsAtType
  <2> QED BY <1>6, <1>7, <2>2 DEF b
<1>8. CASE ~ (slot = Nil \/ to = Len(k.way))
  <2>1. PICK v \in V : b[P] = Leaf(k, v)
    BY <1>1, <1>8 DEF Fits, Hanging
  <2>2. WordsAt(b)[P] = LeafWords(k.size[to])
    BY <1>1, <1>3, <1>4, <2>1, WordsAtType
  <2> QED BY <1>6, <1>8, <2>2 DEF b
<1> QED BY <1>7, <1>8

\* What Grow() makes: all of it, or some of the indexes.
LEMMA GrowIs ==
  ASSUME NEW K, Coded(K), NEW V, NEW a, TreeOK(a, K, V), NEW k \in K, NEW v \in V,
         NEW from, NEW to, Room(a, k, from, to, Hanging(k, to, v)),
         to = Len(k.way) \/ to \in DOMAIN k.size, NEW m \in Memory
  PROVE  LET r == Grow(a, k, v, from, to, m)
         IN  /\ r.ret \in {1, -1} /\ r.m \in Memory
             /\ r.ret = 1 =>
                  /\ r.tree = Hung(a, k, from, to, Hanging(k, to, v))
                  /\ r.m.heap = m.heap + (IF to = Len(k.way) THEN 0 ELSE LeafWords(k.size[to]))
             /\ r.ret = -1 =>
                  /\ r.m.heap = m.heap
                  /\ \E n \in from .. to : n # Len(k.way) /\ r.tree = Hung(a, k, from, n, Nil)
<1> DEFINE made  == Min({m.left, to - from})
           new   == {Path(k.way, i) : i \in (from + 1) .. (from + made)}
           grown == [p \in DOMAIN a \union new |->
                       IF p \in DOMAIN a THEN a[p] ELSE IF p = k.way THEN Val(v) ELSE Nil]
           left  == m.left - made
           full  == [grown EXCEPT ![Path(k.way, to)] = Leaf(k, v)]
           r     == Grow(a, k, v, from, to, m)
<1>0. IsKey(k)
  BY DEF Coded
<1>1. /\ k.way \in Seq(Index) /\ Len(k.way) \in Nat /\ from \in Nat /\ to \in Nat
      /\ from <= to /\ to <= Len(k.way)
  BY <1>0 DEF IsKey, Room
<1>2. m.left \in Nat /\ m.heap \in Int
  BY DEF Memory
<1>3. /\ made \in Nat /\ made <= m.left /\ made <= to - from
      /\ made = m.left \/ made = to - from
  <2>1. to - from \in Nat
    BY <1>1
  <2> QED BY <1>2, <2>1, MinOfTwo
<1>4. \A i \in (from + 1) .. (from + made) : Path(k.way, i) \notin DOMAIN a
  BY <1>1, <1>3 DEF Room
<1>5. from # Len(k.way)
  <2>1. SUFFICES ASSUME from = Len(k.way) PROVE FALSE
    OBVIOUS
  <2>2. k.way \in DOMAIN a /\ a[k.way] = Nil
    BY <1>1, <2>1, PathEnds DEF Room
  <2>3. SlotOK(a, k.way, K, V)
    BY <2>2 DEF TreeOK
  <2> QED BY <2>2, <2>3, SlotShapes DEF SlotOK
<1>6. ASSUME NEW i \in 0 .. Len(k.way), i # Len(k.way) PROVE Path(k.way, i) # k.way
  BY <1>6, Inside
<1>7. ASSUME from + made # Len(k.way) PROVE grown = Hung(a, k, from, from + made, Nil)
  <2>1. ASSUME NEW p \in new, p \notin DOMAIN a PROVE p # k.way
    <3>1. PICK i \in (from + 1) .. (from + made) : p = Path(k.way, i)
      OBVIOUS
    <3>2. i \in 0 .. Len(k.way) /\ i # Len(k.way)
      BY <1>1, <1>3, <1>7
    <3> QED BY <1>6, <3>1, <3>2
  <2>2. Path(k.way, from + made) \in DOMAIN a => a[Path(k.way, from + made)] = Nil
    <3>1. CASE made = 0
      BY <1>1, <3>1 DEF Room
    <3>2. CASE made # 0
      <4>1. from + made \in (from + 1) .. (from + made)
        BY <1>1, <1>3, <3>2
      <4> QED BY <1>4, <4>1
    <3> QED BY <3>1, <3>2
  <2>3. ASSUME NEW p \in DOMAIN a \union new
        PROVE  (IF p \in DOMAIN a THEN a[p] ELSE IF p = k.way THEN Val(v) ELSE Nil)
                 = IF p = Path(k.way, from + made) THEN Nil ELSE IF p \in DOMAIN a THEN a[p] ELSE Nil
    BY <2>1, <2>2
  <2> HIDE DEF made, new
  <2>4. grown = [p \in DOMAIN a \union new |->
                   IF p = Path(k.way, from + made) THEN Nil ELSE IF p \in DOMAIN a THEN a[p] ELSE Nil]
    BY <2>3
  <2> QED BY <2>4 DEF Hung, new
<1>8. ASSUME made = to - from, to = Len(k.way) PROVE grown = Hung(a, k, from, to, Val(v))
  <2>1. Path(k.way, to) = k.way
    BY <1>1, <1>8, PathEnds
  <2>2. k.way \notin DOMAIN a
    <3>1. to \in (from + 1) .. (from + made)
      BY <1>1, <1>3, <1>5, <1>8
    <3> QED BY <1>4, <2>1, <3>1
  <2>3. from + made = to
    BY <1>1, <1>8
  <2> HIDE DEF made
  <2> QED BY <2>1, <2>2, <2>3 DEF Hung
<1>9. ASSUME made = to - from, to # Len(k.way) PROVE full = Hung(a, k, from, to, Leaf(k, v))
  <2>1. from + made = to
    BY <1>1, <1>9
  <2>2. grown = Hung(a, k, from, to, Nil)
    BY <1>7, <1>9, <2>1
  <2>3. full = [Hung(a, k, from, to, Nil) EXCEPT ![Path(k.way, to)] = Leaf(k, v)]
    BY <2>2
  <2> QED BY <2>3 DEF Hung
<1>10. CASE made < to - from
  <2>1. r = Result(grown, -1, [m EXCEPT !.left = 0])
    <3>1. ~ (made = to - from)
      BY <1>1, <1>3, <1>10
    <3> QED BY <1>10, <3>1 DEF Grow
  <2>2. from + made # Len(k.way) /\ from + made \in from .. to
    BY <1>1, <1>3, <1>10
  <2>4. r.ret = -1 /\ r.m = [heap |-> m.heap, left |-> 0] /\ r.tree = grown
    <3> HIDE DEF made, grown
    <3> QED BY <2>1 DEF Result, Memory
  <2> HIDE DEF made, new, grown, left, full, r
  <2>6. r.m \in Memory /\ r.m.heap = m.heap
    BY <1>2, <2>4 DEF Memory
  <2>7. \E n \in from .. to : n # Len(k.way) /\ r.tree = Hung(a, k, from, n, Nil)
    BY <1>7, <2>2, <2>4
  <2> QED BY <1>1, <2>4, <2>6, <2>7 DEF r
<1>11. CASE made = to - from /\ to = Len(k.way)
  <2>1. r = Result(grown, 1, [m EXCEPT !.left = left])
    <3>1. ~ (made < to - from)
      BY <1>1, <1>11
    <3> QED BY <1>11, <3>1 DEF Grow
  <2>2. r.ret = 1 /\ r.m = [heap |-> m.heap, left |-> left] /\ r.tree = grown
    <3> HIDE DEF left, grown
    <3> QED BY <2>1 DEF Result, Memory
  <2>3. left \in Nat
    BY <1>2, <1>3
  <2>4. r.tree = Hung(a, k, from, to, Hanging(k, to, v))
    BY <1>8, <1>11, <2>2 DEF Hanging
  <2> HIDE DEF made, new, grown, left, full, r
  <2>5. r.m \in Memory /\ r.m.heap = m.heap
    BY <1>2, <2>2, <2>3 DEF Memory
  <2> QED BY <1>2, <1>11, <2>2, <2>4, <2>5 DEF r
<1>12. CASE made = to - from /\ to # Len(k.way) /\ left = 0
  <2>1. r = Result(grown, -1, [m EXCEPT !.left = 0])
    <3>1. ~ (made < to - from) /\ to < Len(k.way)
      BY <1>1, <1>12
    <3> QED BY <1>12, <3>1 DEF Grow
  <2>2. r.ret = -1 /\ r.m = [heap |-> m.heap, left |-> 0] /\ r.tree = grown
    <3> HIDE DEF left, grown
    <3> QED BY <2>1 DEF Result, Memory
  <2>3. from + made = to
    BY <1>1, <1>12
  <2>5. to \in from .. to /\ r.tree = Hung(a, k, from, to, Nil)
    <3>1. to \in from .. to
      BY <1>1
    <3>2. grown = Hung(a, k, from, from + made, Nil)
      BY <1>7, <1>12, <2>3
    <3> HIDE DEF grown, made
    <3> QED BY <2>2, <2>3, <3>1, <3>2
  <2> HIDE DEF made, new, grown, left, full, r
  <2>6. r.m \in Memory /\ r.m.heap = m.heap
    BY <1>2, <2>2 DEF Memory
  <2> QED BY <1>1, <1>12, <2>2, <2>5, <2>6 DEF r
<1>13. CASE made = to - from /\ to # Len(k.way) /\ left # 0
  <2> DEFINE words == LeafWords(k.size[to])
  <2>0. words \in Nat
    BY <1>0, <1>13, LeafWordsType DEF IsKey
  <2>1. r = Result(full, 1, [heap |-> m.heap + words, left |-> left - 1])
    <3>1. ~ (made < to - from) /\ to < Len(k.way)
      BY <1>1, <1>13
    <3> QED BY <1>13, <3>1 DEF Grow
  <2> HIDE DEF words
  <2>2. r.ret = 1 /\ r.m = [heap |-> m.heap + words, left |-> left - 1] /\ r.tree = full
    <3> HIDE DEF left, full
    <3> QED BY <2>1 DEF Result
  <2>3. left - 1 \in Nat
    BY <1>2, <1>3, <1>13
  <2>4. r.tree = Hung(a, k, from, to, Hanging(k, to, v))
    BY <1>9, <1>13, <2>2 DEF Hanging
  <2> HIDE DEF made, new, grown, left, full, r
  <2>5. r.m \in Memory /\ r.m.heap = m.heap + words
    BY <1>2, <2>0, <2>2, <2>3 DEF Memory
  <2> QED BY <1>2, <1>13, <2>2, <2>4, <2>5 DEF r, words
<1>14. made < to - from \/ made = to - from
  <2>1. to - from \in Nat
    BY <1>1
  <2> HIDE DEF made
  <2> QED BY <1>3, <2>1
<1> HIDE DEF made, new, grown, left, full, r
<1> QED BY <1>10, <1>11, <1>12, <1>13, <1>14

\* A string grows with its value, or not at all; either way the heap has the words of the
\* leaves.
LEMMA GrowKeeps ==
  ASSUME NEW K, Coded(K), NEW V, NEW a, TreeOK(a, K, V), NEW k \in K, NEW v \in V,
         NEW from, NEW to, Room(a, k, from, to, Hanging(k, to, v)),
         to = Len(k.way) \/ to \in DOMAIN k.size, NEW m \in Memory,
         NEW r, r = Grow(a, k, v, from, to, m)
  PROVE  /\ r.ret \in {1, -1} /\ r.m \in Memory /\ TreeOK(r.tree, K, V)
         /\ r.m.heap - TreeWords(r.tree) = m.heap - TreeWords(a)
         /\ r.ret = 1 =>
              /\ r.tree = Hung(a, k, from, to, Hanging(k, to, v))
              /\ \A l \in K : \A w : Holds(r.tree, l, w) <=> Holds(a, l, w) \/ (l = k /\ w = v)
              /\ DeadEnds(r.tree) \subseteq DeadEnds(a) \ {Path(k.way, from)}
         /\ r.ret = -1 => \A l \in K : \A w : Holds(r.tree, l, w) <=> Holds(a, l, w)
<1> DEFINE slot == Hanging(k, to, v)
           h    == Hung(a, k, from, to, slot)
<1>0. IsKey(k) /\ Len(k.way) \in Nat /\ m.heap \in Int /\ m.left \in Nat
  BY DEF Coded, IsKey, Memory
<1>1. /\ r.ret \in {1, -1} /\ r.m \in Memory
      /\ r.ret = 1 =>
           /\ r.tree = Hung(a, k, from, to, Hanging(k, to, v))
           /\ r.m.heap = m.heap + (IF to = Len(k.way) THEN 0 ELSE LeafWords(k.size[to]))
      /\ r.ret = -1 =>
           /\ r.m.heap = m.heap
           /\ \E n \in from .. to : n # Len(k.way) /\ r.tree = Hung(a, k, from, n, Nil)
  BY GrowIs
<1>2. slot # Nil /\ \A w : slot = Hanging(k, to, w) <=> w = v
  BY HangingShapes
<1>3. Fits(k, to, slot, V)
  BY DEF Fits
<1>4. TreeWords(a) \in Nat
  BY WordsAtType
<1>5. CASE r.ret = 1
  <2>1. TreeOK(h, K, V)
    BY <1>3, HungTree
  <2>2. \A l \in K : \A w : Holds(h, l, w) <=> Holds(a, l, w) \/ (l = k /\ slot = Hanging(k, to, w))
    BY <1>3, HungHolds
  <2>3. DeadEnds(h) \subseteq DeadEnds(a) \ {Path(k.way, from)}
    BY <1>0, <1>2, HungDead
  <2>4. TreeWords(h) =
          TreeWords(a) + (IF slot = Nil \/ to = Len(k.way) THEN 0 ELSE LeafWords(k.size[to]))
    BY <1>3, HungWords
  <2>5. h = r.tree
    BY <1>1, <1>5
  <2>6. TreeWords(h) = TreeWords(a) + (IF to = Len(k.way) THEN 0 ELSE LeafWords(k.size[to]))
    BY <1>2, <2>4
  <2> HIDE DEF h, slot
  <2>7. to # Len(k.way) => LeafWords(k.size[to]) \in Nat
    BY <1>0, LeafWordsType DEF IsKey
  <2>8. r.m.heap - TreeWords(r.tree) = m.heap - TreeWords(a)
    <3>1. CASE to = Len(k.way)
      BY <1>0, <1>1, <1>4, <1>5, <2>5, <2>6, <3>1
    <3>2. CASE to # Len(k.way)
      BY <1>0, <1>1, <1>4, <1>5, <2>5, <2>6, <2>7, <3>2
    <3> QED BY <3>1, <3>2
  <2>9. \A l \in K : \A w : Holds(r.tree, l, w) <=> Holds(a, l, w) \/ (l = k /\ w = v)
    BY <1>2, <2>2, <2>5
  <2> QED BY <1>1, <1>5, <2>1, <2>3, <2>5, <2>8, <2>9
<1>6. CASE r.ret = -1
  <2>1. PICK n \in from .. to : n # Len(k.way) /\ r.tree = Hung(a, k, from, n, Nil)
    BY <1>1, <1>6
  <2>2. Fits(k, n, Nil, V)
    BY <2>1 DEF Fits
  <2>3. Room(a, k, from, n, Nil)
    BY <1>0, <2>1 DEF Room
  <2>4. TreeOK(r.tree, K, V)
    BY <2>1, <2>2, <2>3, HungTree
  <2>5. \A l \in K : \A w : Holds(r.tree, l, w) <=> Holds(a, l, w) \/ (l = k /\ Nil = Hanging(k, n, w))
    BY <2>1, <2>2, <2>3, HungHolds
  <2>6. \A w : Nil # Hanging(k, n, w)
    BY HangingShapes
  <2>7. TreeWords(r.tree) = TreeWords(a) + 0
    BY <2>1, <2>2, <2>3, HungWords
  <2>8. r.m.heap - TreeWords(r.tree) = m.heap - TreeWords(a)
    BY <1>0, <1>1, <1>4, <1>6, <2>7
  <2> QED BY <1>1, <1>6, <2>4, <2>5, <2>6, <2>8
<1> QED BY <1>1, <1>5, <1>6

\* Where a string stops growing, a leaf or its value may be.
LEMMA BottomIs ==
  ASSUME NEW k, IsKey(k), NEW from \in 0 .. Len(k.way)
  PROVE  /\ Bottom(k, from) \in from .. Len(k.way)
         /\ Bottom(k, from) = Len(k.way) \/ Bottom(k, from) \in DOMAIN k.size
<1> DEFINE S == {j \in from .. Len(k.way) : j \in DOMAIN k.size \/ j = Len(k.way)}
<1>1. Len(k.way) \in Nat
  BY DEF IsKey
<1>2. Len(k.way) \in S /\ S \in SUBSET Nat
  BY <1>1
<1>3. Bottom(k, from) = Min(S)
  BY DEF Bottom
<1> HIDE DEF S
<1>4. Min(S) \in S
  BY <1>2, MinOf
<1> QED BY <1>3, <1>4 DEF S

\* How far two keys go together.
LEMMA SharedIs ==
  ASSUME NEW k, IsKey(k), NEW l, IsKey(l)
  PROVE  /\ Shared(k, l) \in 0 .. Len(k.way) /\ Shared(k, l) \in 0 .. Len(l.way)
         /\ Path(k.way, Shared(k, l)) = Path(l.way, Shared(k, l))
         /\ \A i \in 0 .. Len(k.way) :
              i <= Len(l.way) /\ Path(k.way, i) = Path(l.way, i) => i <= Shared(k, l)
<1> DEFINE n == Min({Len(k.way), Len(l.way)})
           S == {i \in 0 .. n : Path(k.way, i) = Path(l.way, i)}
<1>1. k.way \in Seq(Index) /\ l.way \in Seq(Index) /\ Len(k.way) \in Nat /\ Len(l.way) \in Nat
  BY DEF IsKey
<1>2. n = IF Len(k.way) <= Len(l.way) THEN Len(k.way) ELSE Len(l.way)
  BY <1>1, MinOfTwo
<1>3. Shared(k, l) = Max(S)
  BY DEF Shared
<1>4. Path(k.way, 0) = Path(l.way, 0)
  BY <1>1, PathEnds
<1> HIDE DEF n
<1>5. n \in Nat /\ 0 \in S /\ S \in SUBSET (0 .. n)
  BY <1>1, <1>2, <1>4
<1> HIDE DEF S
<1>6. Max(S) \in S /\ \A x \in S : x <= Max(S)
  BY <1>5, MaxOf
<1>7. ASSUME NEW i \in 0 .. Len(k.way), i <= Len(l.way), Path(k.way, i) = Path(l.way, i)
      PROVE  i <= Max(S)
  BY <1>1, <1>2, <1>6, <1>7 DEF S
<1> QED BY <1>1, <1>2, <1>3, <1>6, <1>7 DEF S

\* A slot that is emptied gives back its words.
LEMMA EmptiedWords ==
  ASSUME NEW K, Coded(K), NEW V, NEW a, TreeOK(a, K, V), NEW b, TreeOK(b, K, V),
         DOMAIN b = DOMAIN a, NEW p \in DOMAIN a, b[p] = Nil,
         \A q \in DOMAIN a : q # p => b[q] = a[q]
  PROVE  TreeWords(a) = TreeWords(b) + WordsAt(a)[p]
<1>1. b[p].t # "leaf"
  BY SlotShapes
<1>2. /\ \A q \in DOMAIN a : q # p /\ q \in DOMAIN b => a[q] = b[q]
      /\ \A q \in DOMAIN a : q # p /\ q \notin DOMAIN b => a[q].t # "leaf"
      /\ \A q \in DOMAIN b : q \notin DOMAIN a => b[q].t # "leaf"
  OBVIOUS
<1> QED BY <1>1, <1>2, WordsOneMore

\* A leaf is disconnected.
LEMMA Disconnected ==
  ASSUME NEW K, Coded(K), NEW V, NEW a, TreeOK(a, K, V), NEW k \in K, NEW v,
         NEW p \in DOMAIN a, a[p] = Leaf(k, v),
         NEW b, b = [q \in DOMAIN b |-> b[q]], DOMAIN b = DOMAIN a, b[p] = Nil,
         \A q \in DOMAIN a : q # p => b[q] = a[q]
  PROVE  /\ TreeOK(b, K, V)
         /\ \A l \in K : \A w : Holds(b, l, w) <=> Holds(a, l, w) /\ l # k
         /\ TreeWords(a) = TreeWords(b) + LeafWords(k.size[Depth(a, k)])
         /\ DeadEnds(b) \subseteq DeadEnds(a) \union {p}
         /\ p = Path(k.way, Depth(a, k)) /\ Depth(a, k) \in DOMAIN k.size /\ v \in V
<1> DEFINE d == Depth(a, k)
<1>1. DOMAIN b = DOMAIN a /\ b[p] = Nil /\ \A q \in DOMAIN a : q # p => b[q] = a[q]
  OBVIOUS
<1>2. p = Path(k.way, d) /\ d \in DOMAIN k.size /\ v \in V
  <2>1. HoldsAt(a, p, k, v)
    BY DEF HoldsAt
  <2> QED BY <2>1, Holder
<1>3. IsKey(k) /\ k.way \in Seq(Index) /\ d \in 0 .. Len(k.way) /\ d # Len(k.way) /\ Len(k.way) \in Nat
  BY <1>2 DEF Coded, IsKey
<1> HIDE DEF d
<1>4. TreeOK(b, K, V)
  <2>1. b = [q \in DOMAIN b |-> b[q]]
    OBVIOUS
  <2>2. IsFiniteSet(DOMAIN b) /\ <<>> \in DOMAIN b
    BY <1>1 DEF TreeOK
  <2>3. \A q \in DOMAIN b \ {<<>>} : \E l \in K : \E i \in 0 .. Len(l.way) : q = Path(l.way, i)
    BY <1>1 DEF TreeOK
  <2>4. ASSUME NEW l \in K, NEW i \in 0 .. Len(l.way), Path(l.way, i) \in DOMAIN b,
               NEW j \in 0 .. (i - 1)
        PROVE  Path(l.way, j) \in DOMAIN b /\ b[Path(l.way, j)] = Nil
    <3>1. Path(l.way, j) \in DOMAIN a /\ a[Path(l.way, j)] = Nil
      BY <1>1, <2>4 DEF TreeOK
    <3> QED BY <1>1, <3>1
  <2>5. ASSUME NEW q \in DOMAIN b PROVE SlotOK(b, q, K, V)
    <3>1. CASE q = p
      <4>1. \A l \in K : p # l.way
        BY <1>2, <1>3, Inside
      <4> QED BY <1>1, <3>1, <4>1 DEF SlotOK
    <3>2. CASE q # p
      <4>1. SlotOK(a, q, K, V)
        BY <1>1 DEF TreeOK
      <4> QED BY <1>1, <3>2, <4>1 DEF SlotOK
    <3> QED BY <3>1, <3>2
  <2> QED BY <2>1, <2>2, <2>3, <2>4, <2>5 DEF TreeOK
<1>5. ASSUME NEW l \in K, NEW w PROVE Holds(b, l, w) <=> Holds(a, l, w) /\ l # k
  <2>1. ASSUME Holds(b, l, w) PROVE Holds(a, l, w) /\ l # k
    <3>1. PICK q \in DOMAIN b : HoldsAt(b, q, l, w)
      BY <2>1 DEF Holds
    <3>2. q # p
      BY <1>1, <3>1, SlotShapes DEF HoldsAt
    <3>3. HoldsAt(a, q, l, w) /\ q \in DOMAIN a
      BY <1>1, <3>1, <3>2 DEF HoldsAt
    <3>4. l # k
      BY <1>2, <3>2, <3>3, Holder DEF d
    <3> QED BY <3>3, <3>4 DEF Holds
  <2>2. ASSUME Holds(a, l, w), l # k PROVE Holds(b, l, w)
    <3>1. PICK q \in DOMAIN a : HoldsAt(a, q, l, w)
      BY <2>2 DEF Holds
    <3>2. q # p
      <4>1. SUFFICES ASSUME q = p PROVE FALSE
        OBVIOUS
      <4>2. CASE a[q] = Leaf(l, w)
        <5>1. Leaf(k, v) = Leaf(l, w)
          BY <4>1, <4>2
        <5> QED BY <5>1, <2>2, LeafIs
      <4>3. CASE a[q] = Val(w)
        <5>1. Leaf(k, v) = Val(w)
          BY <4>1, <4>3
        <5> QED BY <5>1, SlotShapes
      <4> QED BY <3>1, <4>2, <4>3 DEF HoldsAt
    <3>3. HoldsAt(b, q, l, w) /\ q \in DOMAIN b
      BY <1>1, <3>1, <3>2 DEF HoldsAt
    <3> QED BY <3>3 DEF Holds
  <2> QED BY <2>1, <2>2
<1>6. TreeWords(a) = TreeWords(b) + LeafWords(k.size[d])
  <2>3. TreeWords(a) = TreeWords(b) + WordsAt(a)[p]
    BY <1>1, <1>4, EmptiedWords
  <2>4. Len(p) = d /\ d \in Nat
    BY <1>2, <1>3, PathIs
  <2>5. WordsAt(a)[p] = LeafWords(k.size[d])
    BY <2>4, WordsAtType
  <2> QED BY <2>3, <2>5
<1>7. DeadEnds(b) \subseteq DeadEnds(a) \union {p}
  <2> SUFFICES ASSUME NEW q \in DeadEnds(b), q # p PROVE q \in DeadEnds(a)
    OBVIOUS
  <2>1. Children(b, q) = Children(a, q)
    BY <1>1 DEF Children
  <2> QED BY <1>1, <2>1 DEF DeadEnds
<1> QED BY <1>1, <1>2, <1>4, <1>5, <1>6, <1>7 DEF d

\* A slot is one of three things.
LEMMA SlotCases ==
  ASSUME NEW K, Coded(K), NEW V, NEW a, TreeOK(a, K, V), NEW k \in K
  PROVE  /\ Depth(a, k) \in 0 .. Len(k.way) /\ Path(k.way, Depth(a, k)) \in DOMAIN a
         /\ Slot(a, k) = a[Path(k.way, Depth(a, k))]
         /\ \A i \in 0 .. Len(k.way) : Path(k.way, i) \in DOMAIN a => i <= Depth(a, k)
         /\ Collides(a, k) =>
              /\ Get(a, k) = Nil
              /\ \E l \in K, v \in V : l # k /\ Slot(a, k) = Leaf(l, v)
         /\ ~ Collides(a, k) /\ Get(a, k) = Nil => Slot(a, k) = Nil /\ Depth(a, k) # Len(k.way)
         /\ ~ Collides(a, k) /\ Get(a, k) # Nil =>
              \E v \in V : /\ Get(a, k) = Val(v)
                           /\ \/ Slot(a, k) = Leaf(k, v) /\ Depth(a, k) \in DOMAIN k.size
                              \/ Slot(a, k) = Val(v) /\ Depth(a, k) = Len(k.way)
<1> DEFINE d == Depth(a, k)
           p == Path(k.way, d)
<1>0. IsKey(k) /\ <<>> \in DOMAIN a
  BY DEF Coded, TreeOK
<1>1. d \in 0 .. Len(k.way) /\ p \in DOMAIN a /\ \A i \in 0 .. Len(k.way) : Path(k.way, i) \in DOMAIN a => i <= d
  BY <1>0, DepthType
<1>2. SlotOK(a, p, K, V)
  BY <1>1 DEF TreeOK
<1>3. Slot(a, k) = a[p]
  BY DEF Slot
<1> HIDE DEF d, p
<1>4. CASE Collides(a, k)
  <2>1. Slot(a, k).t = "leaf" /\ Slot(a, k).key # k
    BY <1>4 DEF Collides
  <2>2. Get(a, k) = Nil
    BY <2>1 DEF Get
  <2>3. PICK l \in K, v \in V : Slot(a, k) = Leaf(l, v)
    BY <1>2, <1>3, <2>1, SlotShapes DEF SlotOK
  <2>4. l # k
    BY <2>1, <2>3, SlotShapes
  <2> QED BY <1>1, <1>3, <1>4, <2>2, <2>3, <2>4 DEF d, p
<1>5. CASE ~ Collides(a, k)
  <2>1. CASE a[p] = Nil /\ \A l \in K : p # l.way
    <3>1. Get(a, k) = Nil
      BY <1>3, <2>1, SlotShapes DEF Get
    <3>2. d # Len(k.way)
      BY <1>0, <2>1, PathEnds DEF IsKey, p
    <3> QED BY <1>1, <1>3, <1>5, <2>1, <3>1, <3>2 DEF d, p
  <2>2. CASE \E l \in K, v \in V : \E j \in DOMAIN l.size : a[p] = Leaf(l, v) /\ p = Path(l.way, j)
    <3>1. PICK l \in K, v \in V : a[p] = Leaf(l, v)
      BY <2>2
    <3>2. l = k
      BY <1>3, <1>5, <3>1, SlotShapes DEF Collides
    <3>3. Get(a, k) = Val(v)
      BY <1>3, <3>1, <3>2, SlotShapes DEF Get
    <3>4. d \in DOMAIN k.size
      <4>1. HoldsAt(a, p, k, v)
        BY <3>1, <3>2 DEF HoldsAt
      <4> QED BY <1>1, <3>1, <3>2, <4>1, Holder DEF d
    <3>5. Get(a, k) # Nil
      BY <3>3, SlotShapes
    <3> QED BY <1>1, <1>3, <1>5, <3>1, <3>2, <3>3, <3>4, <3>5 DEF d, p
  <2>3. CASE \E l \in K, v \in V : a[p] = Val(v) /\ p = l.way
    <3>1. PICK l \in K, v \in V : a[p] = Val(v) /\ p = l.way
      BY <2>3
    <3>2. l = k
      BY <1>1, <3>1 DEF Coded, p
    <3>3. Get(a, k) = Val(v)
      BY <1>3, <3>1, SlotShapes DEF Get
    <3>4. d = Len(k.way)
      <4>1. HoldsAt(a, p, k, v)
        BY <3>1, <3>2 DEF HoldsAt
      <4> QED BY <1>1, <3>1, <4>1, Holder DEF d
    <3>5. Get(a, k) # Nil
      BY <3>3, SlotShapes
    <3> QED BY <1>1, <1>3, <1>5, <3>1, <3>3, <3>4, <3>5 DEF d, p
  <2> QED BY <1>2, <2>1, <2>2, <2>3 DEF SlotOK
<1> QED BY <1>4, <1>5

\* Two keys part before the end of either.
LEMMA Part ==
  ASSUME NEW K, Coded(K), NEW k \in K, NEW l \in K, k # l
  PROVE  /\ Shared(k, l) \in 0 .. (Len(k.way) - 1) /\ Shared(k, l) \in 0 .. (Len(l.way) - 1)
         /\ Path(k.way, Shared(k, l)) = Path(l.way, Shared(k, l))
         /\ \A i \in 0 .. Len(k.way) :
              i <= Len(l.way) /\ Path(k.way, i) = Path(l.way, i) => i <= Shared(k, l)
<1> DEFINE e == Shared(k, l)
<1>1. IsKey(k) /\ IsKey(l) /\ k.way \in Seq(Index) /\ l.way \in Seq(Index)
      /\ Len(k.way) \in Nat /\ Len(l.way) \in Nat
  BY DEF Coded, IsKey
<1>2. /\ e \in 0 .. Len(k.way) /\ e \in 0 .. Len(l.way)
      /\ Path(k.way, e) = Path(l.way, e)
      /\ \A i \in 0 .. Len(k.way) : i <= Len(l.way) /\ Path(k.way, i) = Path(l.way, i) => i <= e
  BY <1>1, SharedIs
<1> HIDE DEF e
<1>3. e # Len(k.way)
  <2> SUFFICES ASSUME e = Len(k.way) PROVE FALSE
    OBVIOUS
  <2>1. k.way = Path(l.way, e)
    BY <1>1, <1>2, PathEnds
  <2> QED BY <1>2, <2>1 DEF Coded
<1>4. e # Len(l.way)
  <2> SUFFICES ASSUME e = Len(l.way) PROVE FALSE
    OBVIOUS
  <2>1. l.way = Path(k.way, e)
    BY <1>1, <1>2, PathEnds
  <2> QED BY <1>2, <2>1 DEF Coded
<1> QED BY <1>1, <1>2, <1>3, <1>4 DEF e

\* What the two steps of a split leave room for.
LEMMA SecondRoom ==
  ASSUME NEW K, Coded(K), NEW V, NEW a, TreeOK(a, K, V), NEW k \in K, NEW l \in K, k # l,
         NEW from, NEW to, NEW slot, Room(a, l, from, to, slot),
         from <= Shared(l, k), to > Shared(l, k),
         \A i \in (from + 1) .. Len(k.way) : Path(k.way, i) \notin DOMAIN a,
         NEW n \in (Shared(l, k) + 1) .. Len(k.way), NEW other
  PROVE  Room(Hung(a, l, from, to, slot), k, Shared(l, k), n, other)
<1> DEFINE b == Hung(a, l, from, to, slot)
           e == Shared(l, k)
<1>1. IsKey(k) /\ IsKey(l) /\ k.way \in Seq(Index) /\ l.way \in Seq(Index)
      /\ Len(k.way) \in Nat /\ Len(l.way) \in Nat
  BY DEF Coded, IsKey
<1>2. /\ e \in 0 .. (Len(k.way) - 1) /\ e \in 0 .. (Len(l.way) - 1)
      /\ Path(k.way, e) = Path(l.way, e)
      /\ \A i \in 0 .. Len(l.way) : i <= Len(k.way) /\ Path(l.way, i) = Path(k.way, i) => i <= e
  BY Part
<1>3. /\ Path(l.way, to) \in DOMAIN b
      /\ \A q \in DOMAIN a : q \in DOMAIN b
      /\ \A q \in DOMAIN a : q # Path(l.way, to) => b[q] = a[q]
      /\ \A i \in (from + 1) .. to : Path(l.way, i) \in DOMAIN b
      /\ \A i \in (from + 1) .. to : i # to => b[Path(l.way, i)] = Nil
      /\ \A q \in DOMAIN b : q \in DOMAIN a \/ \E i \in (from + 1) .. to : q = Path(l.way, i)
  BY <1>1, HungDomain
<1>4. /\ from \in 0 .. Len(l.way) /\ to \in from .. Len(l.way)
      /\ Path(l.way, from) \in DOMAIN a /\ a[Path(l.way, from)] = Nil
  BY DEF Room
<1>5. from <= e /\ to > e /\ n \in (e + 1) .. Len(k.way)
  OBVIOUS
<1> HIDE DEF b, e
<1>6. Path(l.way, e) \in DOMAIN b /\ b[Path(l.way, e)] = Nil
  <2>1. CASE e = from
    <3>1. Path(l.way, from) # Path(l.way, to)
      BY <1>1, <1>4, <1>5, <2>1, PathsAgree
    <3> QED BY <1>3, <1>4, <2>1, <3>1
  <2>2. CASE e # from
    <3>1. e \in (from + 1) .. to /\ e # to
      BY <1>2, <1>4, <1>5, <2>2
    <3> QED BY <1>3, <3>1
  <2> QED BY <2>1, <2>2
<1>7. ASSUME NEW i \in (e + 1) .. Len(k.way), Path(k.way, i) \in DOMAIN b PROVE FALSE
  <2>1. i \in (from + 1) .. Len(k.way) /\ i \in 0 .. Len(k.way)
    BY <1>1, <1>2, <1>4, <1>5
  <2>2. Path(k.way, i) \notin DOMAIN a
    BY <2>1
  <2>3. PICK j \in (from + 1) .. to : Path(k.way, i) = Path(l.way, j)
    BY <1>3, <1>7, <2>2
  <2>4. j \in 0 .. Len(l.way)
    BY <1>1, <1>4
  <2>5. i = j
    BY <1>1, <2>1, <2>3, <2>4, PathsAgree
  <2>6. j <= e
    BY <1>2, <2>1, <2>3, <2>4, <2>5
  <2> QED BY <1>1, <1>2, <2>5, <2>6
<1>8. e \in 0 .. Len(k.way) /\ n \in e .. Len(k.way) /\ n # e
  BY <1>1, <1>2, <1>5
<1> QED BY <1>2, <1>6, <1>7, <1>8 DEF Room, b, e

\* What an insert does to a tree: all or nothing for the strings, and no word is lost.
Keeps(a, k, v, m, r, K, V) ==
  /\ r.ret \in {1, -1} /\ r.m \in Memory /\ TreeOK(r.tree, K, V)
  /\ r.m.heap - TreeWords(r.tree) = m.heap - TreeWords(a)
  /\ r.ret = 1 =>
       /\ \A l \in K : \A w : l # k => (Holds(r.tree, l, w) <=> Holds(a, l, w))
       /\ Holds(r.tree, k, v)
       /\ DeadEnds(r.tree) \subseteq DeadEnds(a)
  /\ r.ret = -1 => \A l \in K : \A w : Holds(r.tree, l, w) <=> Holds(a, l, w)

\* What a split needs: the size that the leaf was made with, and the memory for the old string.
Splits(a, k, m, freed) ==
  /\ freed = Slot(a, k).key.size[Depth(a, k)]
  /\ Carried(a, k, m).ret = 1

\* A leaf in the way is split: both strings are there, and no word is lost.
LEMMA CarryDownKeeps ==
  ASSUME NEW K, Coded(K), NEW V, NEW a, TreeOK(a, K, V), NEW k \in K, NEW v \in V,
         Collides(a, k), NEW m \in Memory, NEW freed, Splits(a, k, m, freed),
         NEW r, r = CarryDown(a, k, v, freed, m)
  PROVE  Keeps(a, k, v, m, r, K, V)
<1> DEFINE d   == Depth(a, k)
           p   == Path(k.way, d)
           old == Slot(a, k)
           l   == old.key
           w   == old.val
           e   == Shared(l, k)
           b   == [a EXCEPT ![p] = Nil]
           s   == Bottom(l, e + 1)
           t   == Bottom(k, e + 1)
           g   == Carried(a, k, m)
           h   == Grow(g.tree, k, v, e, t, Freed(g.m, LeafWords(freed)))
<1>1. /\ d \in 0 .. Len(k.way) /\ p \in DOMAIN a /\ old = a[p]
      /\ \A i \in 0 .. Len(k.way) : Path(k.way, i) \in DOMAIN a => i <= d
  BY SlotCases
<1>2. l \in K /\ l # k /\ w \in V /\ old = Leaf(l, w)
  <2>1. PICK y \in K, x \in V : y # k /\ old = Leaf(y, x)
    BY SlotCases
  <2>2. l = y /\ w = x
    BY <2>1, SlotShapes
  <2> QED BY <2>1, <2>2
<1>3. r = IF g.ret = -1 THEN g ELSE h
  BY DEF CarryDown
<1>4. freed = l.size[d]
  BY DEF Splits
<1>5. g.ret = 1 /\ g = Grow(b, l, w, d, s, m)
  BY DEF Splits, Carried
<1>6. /\ b = [q \in DOMAIN b |-> b[q]] /\ DOMAIN b = DOMAIN a /\ b[p] = Nil
      /\ \A q \in DOMAIN a : q # p => b[q] = a[q]
  <2> HIDE DEF p
  <2> QED BY <1>1
<1> HIDE DEF old, l, w, b, g, h
<1>8. /\ IsKey(k) /\ IsKey(l) /\ k.way \in Seq(Index) /\ l.way \in Seq(Index)
      /\ Len(k.way) \in Nat /\ Len(l.way) \in Nat /\ m.heap \in Int /\ m.left \in Nat
  BY <1>2 DEF Coded, IsKey, Memory
<1>25. Len(k.way) \in Nat /\ Len(l.way) \in Nat /\ m.heap \in Int /\ m.left \in Nat
  BY <1>8
<1>9. a[p] = Leaf(l, w)
  BY <1>1, <1>2
<1> HIDE DEF p
<1>10. /\ TreeOK(b, K, V)
       /\ \A x \in K : \A y : Holds(b, x, y) <=> Holds(a, x, y) /\ x # l
       /\ TreeWords(a) = TreeWords(b) + LeafWords(l.size[Depth(a, l)])
       /\ DeadEnds(b) \subseteq DeadEnds(a) \union {p}
       /\ p = Path(l.way, Depth(a, l)) /\ Depth(a, l) \in DOMAIN l.size
  BY <1>1, <1>2, <1>6, <1>9, Disconnected
<1>11. /\ e \in 0 .. (Len(k.way) - 1) /\ e \in 0 .. (Len(l.way) - 1)
       /\ Path(k.way, e) = Path(l.way, e)
       /\ \A i \in 0 .. Len(l.way) : i <= Len(k.way) /\ Path(l.way, i) = Path(k.way, i) => i <= e
  BY <1>2, Part
<1>12. /\ Depth(a, l) = d /\ d <= e /\ p = Path(l.way, d)
       /\ \A i \in (d + 1) .. Len(l.way) : Path(l.way, i) \notin DOMAIN a
  <2>1. <<>> \in DOMAIN a
    BY DEF TreeOK
  <2>2. Depth(a, l) \in 0 .. Len(l.way) /\ \A i \in 0 .. Len(l.way) : Path(l.way, i) \in DOMAIN a => i <= Depth(a, l)
    BY <1>8, <2>1, DepthType
  <2>3. Depth(a, l) = d
    BY <1>1, <1>8, <1>10, <2>2, PathsAgree DEF p
  <2>4. d <= e
    BY <1>1, <1>8, <1>10, <1>11, <2>2, <2>3 DEF p
  <2> HIDE DEF d, e
  <2>5. \A i \in (d + 1) .. Len(l.way) : Path(l.way, i) \notin DOMAIN a
    BY <1>1, <1>8, <2>2, <2>3
  <2> QED BY <1>10, <2>3, <2>4, <2>5
<1>13. /\ s \in (e + 1) .. Len(l.way) /\ (s = Len(l.way) \/ s \in DOMAIN l.size)
       /\ t \in (e + 1) .. Len(k.way) /\ (t = Len(k.way) \/ t \in DOMAIN k.size)
  <2> HIDE DEF e
  <2>1. e + 1 \in 0 .. Len(l.way) /\ e + 1 \in 0 .. Len(k.way)
    BY <1>8, <1>11
  <2> QED BY <1>8, <2>1, BottomIs
<1> HIDE DEF d, e, s, t
<1>14. Room(b, l, d, s, Hanging(l, s, w))
  <2>1. d \in 0 .. Len(l.way) /\ s \in d .. Len(l.way) /\ s # d
    BY <1>1, <1>8, <1>11, <1>12, <1>13
  <2> QED BY <1>1, <1>6, <1>12, <2>1 DEF Room
<1>15. /\ g.ret = 1 /\ g.m \in Memory /\ TreeOK(g.tree, K, V)
       /\ g.m.heap - TreeWords(g.tree) = m.heap - TreeWords(b)
       /\ g.tree = Hung(b, l, d, s, Hanging(l, s, w))
       /\ \A x \in K : \A y : Holds(g.tree, x, y) <=> Holds(b, x, y) \/ (x = l /\ y = w)
       /\ DeadEnds(g.tree) \subseteq DeadEnds(b) \ {Path(l.way, d)}
  <2>2. g.ret = 1 /\ g = Grow(b, l, w, d, s, m)
    BY <1>5
  <2>3. (s = Len(l.way) \/ s \in DOMAIN l.size) /\ TreeOK(b, K, V) /\ l \in K /\ w \in V
    BY <1>2, <1>10, <1>13
  <2> QED BY <1>14, <2>2, <2>3, GrowKeeps
<1>28. TreeOK(g.tree, K, V)
  BY <1>15
<1> DEFINE n == Freed(g.m, LeafWords(freed))
<1>16. n \in Memory /\ n.left = g.m.left /\ n.heap = g.m.heap - LeafWords(freed) /\ LeafWords(freed) \in Nat
  <2>1. l.size[d] \in Nat
    BY <1>8, <1>10, <1>12 DEF IsKey
  <2>2. LeafWords(freed) \in Nat
    BY <1>4, <2>1, LeafWordsType
  <2> QED BY <1>15, <2>2 DEF Freed, Memory
<1>17. Room(g.tree, k, e, t, Hanging(k, t, v))
  <2>1. \A i \in (d + 1) .. Len(k.way) : Path(k.way, i) \notin DOMAIN b
    BY <1>1, <1>6, <1>8
  <2>2. d <= e /\ s > e
    BY <1>8, <1>11, <1>12, <1>13
  <2> QED BY <1>2, <1>10, <1>13, <1>14, <1>15, <2>1, <2>2, SecondRoom DEF e
<1>18. h = Grow(g.tree, k, v, e, t, n)
  BY DEF h
<1> HIDE DEF n
<1>19. /\ h.ret \in {1, -1} /\ h.m \in Memory /\ TreeOK(h.tree, K, V)
       /\ h.m.heap - TreeWords(h.tree) = n.heap - TreeWords(g.tree)
       /\ h.ret = 1 =>
            /\ \A x \in K : \A y : Holds(h.tree, x, y) <=> Holds(g.tree, x, y) \/ (x = k /\ y = v)
            /\ DeadEnds(h.tree) \subseteq DeadEnds(g.tree)
       /\ h.ret = -1 => \A x \in K : \A y : Holds(h.tree, x, y) <=> Holds(g.tree, x, y)
  <2>1. n \in Memory
    BY <1>16
  <2>2. t = Len(k.way) \/ t \in DOMAIN k.size
    BY <1>13
  <2> QED BY <1>17, <1>18, <1>28, <2>1, <2>2, GrowKeeps
<1>20. r = h
  BY <1>3, <1>15
<1>21. h.m.heap - TreeWords(h.tree) = m.heap - TreeWords(a)
  <2>1. /\ TreeWords(a) \in Nat /\ TreeWords(b) \in Nat /\ TreeWords(g.tree) \in Nat
        /\ TreeWords(h.tree) \in Nat
    BY <1>10, <1>15, <1>19, WordsAtType
  <2>2. h.m.heap \in Int /\ g.m.heap \in Int /\ LeafWords(freed) \in Int
    BY <1>15, <1>16, <1>19 DEF Memory
  <2>3. TreeWords(a) = TreeWords(b) + LeafWords(freed)
    BY <1>4, <1>10, <1>12
  <2>4. h.m.heap - TreeWords(h.tree) = (g.m.heap - LeafWords(freed)) - TreeWords(g.tree)
    BY <1>16, <1>19
  <2>5. g.m.heap - TreeWords(g.tree) = m.heap - TreeWords(b)
    BY <1>15
  <2>6. /\ TreeWords(a) \in Int /\ TreeWords(b) \in Int /\ TreeWords(g.tree) \in Int
        /\ TreeWords(h.tree) \in Int
    BY <2>1
  <2> DEFINE x1 == g.m.heap
             x2 == LeafWords(freed)
             x3 == TreeWords(g.tree)
             x4 == TreeWords(b)
             x5 == m.heap
  <2>8. x1 \in Int /\ x2 \in Int /\ x3 \in Int /\ x4 \in Int /\ x5 \in Int /\ x1 - x3 = x5 - x4
    BY <1>25, <2>2, <2>5, <2>6
  <2>9. (x1 - x2) - x3 = x5 - (x4 + x2)
    <3> HIDE DEF x1, x2, x3, x4, x5
    <3> QED BY <2>8
  <2>7. (g.m.heap - LeafWords(freed)) - TreeWords(g.tree) = m.heap - (TreeWords(b) + LeafWords(freed))
    BY <2>9
  <2> QED BY <2>3, <2>4, <2>7
<1>23. ASSUME NEW x \in K, NEW y PROVE Holds(g.tree, x, y) <=> Holds(a, x, y)
  <2>1. Holds(a, l, y) <=> y = w
    <3>1. Holds(a, l, w)
      BY <1>1, <1>9 DEF Holds, HoldsAt
    <3>2. Get(a, l) = Val(w)
      BY <1>2, <3>1, GetHolds
    <3>3. Holds(a, l, y) <=> Get(a, l) = Val(y)
      BY <1>2, GetHolds
    <3> QED BY <3>1, <3>2, <3>3, SlotShapes
  <2> QED BY <1>10, <1>15, <2>1
<1>24. DeadEnds(g.tree) \subseteq DeadEnds(a)
  BY <1>10, <1>12, <1>15
<1>30. ASSUME r.ret = 1
       PROVE  /\ \A x \in K : \A y : x # k => (Holds(r.tree, x, y) <=> Holds(a, x, y))
              /\ Holds(r.tree, k, v) /\ DeadEnds(r.tree) \subseteq DeadEnds(a)
  BY <1>19, <1>20, <1>23, <1>24, <1>30
<1>29. ASSUME r.ret = -1 PROVE \A x \in K : \A y : Holds(r.tree, x, y) <=> Holds(a, x, y)
  BY <1>19, <1>20, <1>23, <1>29
<1>31. r.ret \in {1, -1} /\ r.m \in Memory /\ TreeOK(r.tree, K, V)
       /\ r.m.heap - TreeWords(r.tree) = m.heap - TreeWords(a)
  BY <1>19, <1>20, <1>21
<1> QED BY <1>29, <1>30, <1>31, Zenon DEF Keeps

\* JudySLIns() and JudyHSIns() put a string in, or leave all strings as they are; no
\* word is lost.  A split has to know the size of the leaf, and to find memory for the old string.
LEMMA InsKeeps ==
  ASSUME NEW K, Coded(K), NEW V, NEW a, TreeOK(a, K, V), NEW k \in K, NEW v \in V,
         Get(a, k) \in {Nil, Val(v)}, NEW m \in Memory, NEW freed,
         Collides(a, k) => Splits(a, k, m, freed),
         NEW r, r = Ins(a, k, v, freed, m)
  PROVE  Keeps(a, k, v, m, r, K, V)
<1> DEFINE d == Depth(a, k)
           p == Path(k.way, d)
           Grown(to) == Grow(a, k, v, d, to, m)
<1>0. IsKey(k) /\ Len(k.way) \in Nat /\ m.heap \in Int /\ m.left \in Nat
  BY DEF Coded, IsKey, Memory
<1>1. /\ d \in 0 .. Len(k.way) /\ p \in DOMAIN a /\ Slot(a, k) = a[p]
      /\ \A i \in 0 .. Len(k.way) : Path(k.way, i) \in DOMAIN a => i <= d
  BY SlotCases
<1>2. CASE Collides(a, k)
  <2>1. r = CarryDown(a, k, v, freed, m)
    <3>1. Get(a, k) = Nil /\ a[p] # Nil
      BY <1>1, <1>2, SlotCases, SlotShapes
    <3> QED BY <1>2, <3>1 DEF Ins
  <2> DEFINE g == CarryDown(a, k, v, freed, m)
  <2>2. g = CarryDown(a, k, v, freed, m) /\ r = g
    BY <2>1
  <2> HIDE DEF g
  <2>3. Splits(a, k, m, freed)
    BY <1>2
  <2>4. Keeps(a, k, v, m, g, K, V)
    BY <1>2, <2>2, <2>3, CarryDownKeeps, Zenon
  <2> QED BY <2>2, <2>4
<1>3. CASE ~ Collides(a, k) /\ Get(a, k) # Nil
  <2>1. r = Result([a EXCEPT ![p].val = v], 1, m)
    <3>1. a[p] # Nil
      BY <1>1, <1>3, SlotCases, SlotShapes
    <3> QED BY <1>3, <3>1 DEF Ins
  <2>2. PICK w \in V : /\ Get(a, k) = Val(w)
                       /\ Slot(a, k) = Leaf(k, w) \/ (Slot(a, k) = Val(w) /\ d = Len(k.way))
    BY <1>3, SlotCases
  <2>3. w = v
    BY <1>3, <2>2, SlotShapes
  <2> HIDE DEF p
  <2>4. [a[p] EXCEPT !.val = v] = a[p]
    BY <1>1, <2>2, <2>3 DEF Leaf, Val
  <2>5. [a EXCEPT ![p].val = v] = a
    <3>1. a = [q \in DOMAIN a |-> a[q]]
      BY DEF TreeOK
    <3> QED BY <1>1, <2>4, <3>1
  <2>6. r.ret = 1 /\ r.m = m /\ r.tree = a
    BY <2>1, <2>5 DEF Result
  <2>7. Holds(a, k, v)
    BY <2>2, <2>3, GetHolds
  <2> QED BY <1>3, <2>6, <2>7 DEF Keeps
<1>4. CASE ~ Collides(a, k) /\ Get(a, k) = Nil
  <2>1. a[p] = Nil /\ d # Len(k.way)
    BY <1>1, <1>4, SlotCases
  <2>2. PICK to : /\ r = Grown(to) /\ to \in d .. Len(k.way)
                  /\ to = Len(k.way) \/ to \in DOMAIN k.size
                  /\ to = d => Children(a, p) = {}
    <3>1. CASE Children(a, p) = {}
      <4>1. r = Grown(Bottom(k, d))
        BY <1>4, <2>1, <3>1 DEF Ins
      <4> HIDE DEF d
      <4>2. Bottom(k, d) \in d .. Len(k.way)
            /\ (Bottom(k, d) = Len(k.way) \/ Bottom(k, d) \in DOMAIN k.size)
        BY <1>0, <1>1, BottomIs
      <4> QED BY <3>1, <4>1, <4>2
    <3>2. CASE Children(a, p) # {}
      <4>1. r = Grown(Bottom(k, d + 1))
        BY <1>4, <2>1, <3>2 DEF Ins
      <4> HIDE DEF d
      <4>2. d + 1 \in 0 .. Len(k.way)
        BY <1>0, <1>1, <2>1
      <4>3. Bottom(k, d + 1) \in (d + 1) .. Len(k.way)
            /\ (Bottom(k, d + 1) = Len(k.way) \/ Bottom(k, d + 1) \in DOMAIN k.size)
        BY <1>0, <4>2, BottomIs
      <4>4. Bottom(k, d + 1) \in d .. Len(k.way) /\ Bottom(k, d + 1) # d
        BY <1>0, <1>1, <4>3
      <4> QED BY <4>1, <4>3, <4>4
    <3> QED BY <3>1, <3>2
  <2>3. Room(a, k, d, to, Hanging(k, to, v))
    <3> HIDE DEF d
    <3>1. \A i \in (d + 1) .. Len(k.way) : Path(k.way, i) \notin DOMAIN a
      BY <1>0, <1>1
    <3> QED BY <1>0, <1>1, <2>1, <2>2, <3>1 DEF Room
  <2>4. r = Grow(a, k, v, d, to, m)
    BY <2>2
  <2> HIDE DEF d, p, Grown
  <2> DEFINE g == Grow(a, k, v, d, to, m)
  <2>5. g = Grow(a, k, v, d, to, m) /\ r = g
    BY <2>4
  <2>7. to = Len(k.way) \/ to \in DOMAIN k.size
    BY <2>2
  <2> HIDE DEF g
  <2>6. /\ g.ret \in {1, -1} /\ g.m \in Memory /\ TreeOK(g.tree, K, V)
        /\ g.m.heap - TreeWords(g.tree) = m.heap - TreeWords(a)
        /\ g.ret = 1 =>
             /\ \A l \in K : \A w : Holds(g.tree, l, w) <=> Holds(a, l, w) \/ (l = k /\ w = v)
             /\ DeadEnds(g.tree) \subseteq DeadEnds(a)
        /\ g.ret = -1 => \A l \in K : \A w : Holds(g.tree, l, w) <=> Holds(a, l, w)
    BY <2>3, <2>5, <2>7, GrowKeeps, SMTT(30)
  <2> QED BY <1>4, <2>5, <2>6 DEF Keeps
<1> QED BY <1>2, <1>3, <1>4

-----------------------------------------------------------------------------
(* A string is taken out.                                                  *)

\* Below the fork of a string each of its indexes is alone in its array.
LEMMA ForkIs ==
  ASSUME NEW K, Coded(K), NEW V, NEW a, TreeOK(a, K, V), NEW k \in K
  PROVE  /\ Fork(a, k) \in 0 .. Depth(a, k)
         /\ Fork(a, k) # 0 =>
              Children(a, Path(k.way, Fork(a, k) - 1)) # {Path(k.way, Fork(a, k))}
         /\ \A j \in (Fork(a, k) + 1) .. Depth(a, k) :
              Children(a, Path(k.way, j - 1)) = {Path(k.way, j)}
<1> DEFINE d == Depth(a, k)
           S == {j \in 1 .. d : Children(a, Path(k.way, j - 1)) # {Path(k.way, j)}}
           T == {0} \union S
<1>1. d \in Nat
  <2>1. d \in 0 .. Len(k.way) /\ Len(k.way) \in Nat
    BY SlotCases DEF Coded, IsKey
  <2> QED BY <2>1
<1>2. Fork(a, k) = Max(T)
  BY DEF Fork
<1> HIDE DEF d
<1>3. T \in SUBSET (0 .. d) /\ T # {}
  BY <1>1
<1> HIDE DEF T
<1>4. Max(T) \in T /\ \A x \in T : x <= Max(T)
  BY <1>1, <1>3, MaxOf
<1>5. ASSUME NEW j \in (Max(T) + 1) .. d PROVE Children(a, Path(k.way, j - 1)) = {Path(k.way, j)}
  <2>1. Max(T) \in 0 .. d
    BY <1>3, <1>4
  <2>2. j \in 1 .. d /\ ~ (j <= Max(T))
    BY <1>1, <2>1
  <2>3. j \notin T
    BY <1>4, <2>2
  <2> QED BY <2>2, <2>3 DEF T
<1> QED BY <1>2, <1>3, <1>4, <1>5 DEF T, d

\* Below its fork there is nothing but the string itself.
LEMMA Alone ==
  ASSUME NEW K, Coded(K), NEW V, NEW a, TreeOK(a, K, V), NEW k \in K, Get(a, k) # Nil,
         NEW l \in K, NEW i \in 0 .. Len(l.way), Path(l.way, i) \in DOMAIN a,
         Fork(a, k) <= i, Path(l.way, Fork(a, k)) = Path(k.way, Fork(a, k))
  PROVE  i <= Depth(a, k) /\ Path(l.way, i) = Path(k.way, i)
<1> DEFINE d == Depth(a, k)
           c == Fork(a, k)
           S == {j \in 0 .. d : c <= j /\ j <= i /\ Path(l.way, j) = Path(k.way, j)}
           e == Max(S)
<1>1. /\ k.way \in Seq(Index) /\ l.way \in Seq(Index) /\ Len(k.way) \in Nat /\ Len(l.way) \in Nat
      /\ d \in 0 .. Len(k.way) /\ d \in Nat /\ i \in Nat /\ c \in 0 .. d
  <2>1. /\ k.way \in Seq(Index) /\ l.way \in Seq(Index) /\ Len(k.way) \in Nat
        /\ Len(l.way) \in Nat
    BY DEF Coded, IsKey
  <2>2. d \in 0 .. Len(k.way)
    BY SlotCases
  <2>3. c \in 0 .. d
    BY ForkIs
  <2> HIDE DEF d, c
  <2> QED BY <2>1, <2>2, <2>3
<1>2. /\ c <= i /\ Path(l.way, c) = Path(k.way, c)
      /\ \A j \in (c + 1) .. d : Children(a, Path(k.way, j - 1)) = {Path(k.way, j)}
  <2>1. \A j \in (c + 1) .. d : Children(a, Path(k.way, j - 1)) = {Path(k.way, j)}
    BY ForkIs, SMTT(30)
  <2> QED BY <2>1
<1>3. a[Path(k.way, d)] # Nil
  <2>1. PICK v \in V : Slot(a, k) = Leaf(k, v) \/ Slot(a, k) = Val(v)
    <3>1. ~ Collides(a, k)
      BY SlotCases
    <3> QED BY <3>1, SlotCases
  <2>2. Slot(a, k) = a[Path(k.way, d)]
    BY SlotCases
  <2> QED BY <2>1, <2>2, SlotShapes
<1> HIDE DEF d, c
<1>4. c \in S /\ S \in SUBSET (0 .. d)
  BY <1>1, <1>2
<1> HIDE DEF S
<1>5. e \in S /\ \A x \in S : x <= e
  BY <1>1, <1>4, MaxOf
<1> HIDE DEF e
<1>6. e \in 0 .. d /\ c <= e /\ e <= i /\ Path(l.way, e) = Path(k.way, e)
  BY <1>5 DEF S
<1>7. e = i
  <2> SUFFICES ASSUME e # i PROVE FALSE
    OBVIOUS
  <2>1. e \in 0 .. (i - 1) /\ e + 1 \in 0 .. Len(l.way) /\ e \in 0 .. (Len(l.way) - 1)
    BY <1>1, <1>6
  <2>2. Path(l.way, e) \in DOMAIN a /\ a[Path(l.way, e)] = Nil
    BY <2>1 DEF TreeOK
  <2>3. e # d
    BY <1>3, <1>6, <2>2
  <2>4. e + 1 \in (c + 1) .. d
    BY <1>1, <1>6, <2>3
  <2>5. Path(l.way, e + 1) \in DOMAIN a
    <3>1. CASE e + 1 = i
      BY <3>1
    <3>2. CASE e + 1 # i
      <4>1. e + 1 \in 0 .. (i - 1)
        BY <1>1, <2>1, <3>2
      <4> QED BY <4>1 DEF TreeOK
    <3> QED BY <3>1, <3>2
  <2>6. Path(l.way, e + 1) \in Children(a, Path(l.way, e))
    BY <1>1, <2>1, <2>5, ChildPath
  <2>7. Children(a, Path(k.way, e)) = {Path(k.way, e + 1)}
    <3>1. (e + 1) - 1 = e
      BY <1>1, <1>6
    <3> QED BY <1>2, <2>4, <3>1
  <2>8. e + 1 \in S
    BY <1>1, <1>6, <2>1, <2>4, <2>6, <2>7 DEF S
  <2> QED BY <1>1, <1>5, <1>6, <2>8
<1> QED BY <1>6, <1>7, <1>1 DEF d

\* A string's own slot, and nothing else, holds its value.
LEMMA OwnSlot ==
  ASSUME NEW K, Coded(K), NEW V, NEW a, TreeOK(a, K, V), NEW k \in K, Get(a, k) # Nil
  PROVE  /\ Path(k.way, Depth(a, k)) \in DOMAIN a /\ Depth(a, k) \in 0 .. Len(k.way)
         /\ a[Path(k.way, Depth(a, k))] # Nil
         /\ \A j \in 0 .. (Depth(a, k) - 1) :
              Path(k.way, j) \in DOMAIN a /\ a[Path(k.way, j)] = Nil
         /\ \A l \in K : \A w : HoldsAt(a, Path(k.way, Depth(a, k)), l, w) => l = k
         /\ WordsAt(a)[Path(k.way, Depth(a, k))] =
              IF Slot(a, k).t = "leaf" THEN LeafWords(k.size[Depth(a, k)]) ELSE 0
         /\ Slot(a, k).t = "leaf" => Depth(a, k) \in DOMAIN k.size
<1> DEFINE d == Depth(a, k)
           p == Path(k.way, d)
<1>1. /\ d \in 0 .. Len(k.way) /\ p \in DOMAIN a /\ Slot(a, k) = a[p]
  BY SlotCases
<1>2. PICK v \in V : \/ Slot(a, k) = Leaf(k, v) /\ d \in DOMAIN k.size
                     \/ Slot(a, k) = Val(v) /\ d = Len(k.way)
  <2>1. ~ Collides(a, k)
    BY SlotCases
  <2> QED BY <2>1, SlotCases
<1>3. \A j \in 0 .. (d - 1) : Path(k.way, j) \in DOMAIN a /\ a[Path(k.way, j)] = Nil
  BY <1>1 DEF TreeOK
<1>4. k.way \in Seq(Index) /\ Len(k.way) \in Nat
  BY DEF Coded, IsKey
<1>5. Len(p) = d /\ d \in Nat
  BY <1>1, <1>4, PathIs
<1> HIDE DEF d
<1>6. ASSUME NEW l \in K, NEW w, HoldsAt(a, p, l, w) PROVE l = k
  <2>1. CASE a[p] = Leaf(l, w)
    <3>1. Slot(a, k) # Val(v)
      BY <1>1, <2>1, SlotShapes
    <3>2. Leaf(k, v) = Leaf(l, w)
      BY <1>1, <1>2, <2>1, <3>1
    <3> QED BY <3>2, LeafIs
  <2>2. CASE p = l.way /\ a[p] = Val(w)
    BY <1>1, <2>2 DEF Coded
  <2> QED BY <1>6, <2>1, <2>2 DEF HoldsAt
<1> HIDE DEF p
<1>7. CASE Slot(a, k) = Leaf(k, v) /\ d \in DOMAIN k.size
  <2>2. a[p] = Leaf(k, v)
    BY <1>1, <1>7
  <2>1. WordsAt(a)[p] = LeafWords(k.size[d])
    BY <1>1, <1>5, <2>2, WordsAtType
  <2> QED BY <1>1, <1>3, <1>6, <1>7, <2>1, SlotShapes DEF d, p
<1>8. CASE Slot(a, k) = Val(v)
  <2>2. a[p].t # "leaf"
    BY <1>1, <1>8, SlotShapes
  <2>1. WordsAt(a)[p] = 0
    BY <1>1, <2>2, WordsAtType
  <2> QED BY <1>1, <1>3, <1>6, <1>8, <2>1, SlotShapes DEF d, p
<1> QED BY <1>2, <1>7, <1>8

\* The words of a string's own leaf.
OwnWords(a, k) == IF Slot(a, k).t = "leaf" THEN LeafWords(k.size[Depth(a, k)]) ELSE 0

\* A tree without a string.
Lost(a, k, b, K, V) ==
  /\ TreeOK(b, K, V)
  /\ \A l \in K : \A w : Holds(b, l, w) <=> Holds(a, l, w) /\ l # k
  /\ TreeWords(a) = TreeWords(b) + OwnWords(a, k)
  /\ DeadEnds(b) \subseteq DeadEnds(a)

\* A string goes with all of its indexes from the fork on.
LEMMA Cut ==
  ASSUME NEW K, Coded(K), NEW V, NEW a, TreeOK(a, K, V), NEW k \in K, Get(a, k) # Nil,
         Fork(a, k) # 0, NEW b, b = [q \in DOMAIN b |-> b[q]],
         DOMAIN b = DOMAIN a \ {Path(k.way, j) : j \in Fork(a, k) .. Depth(a, k)},
         \A q \in DOMAIN b : b[q] = a[q]
  PROVE  Lost(a, k, b, K, V)
<1> DEFINE d == Depth(a, k)
           c == Fork(a, k)
           p == Path(k.way, d)
<1>1. /\ k.way \in Seq(Index) /\ Len(k.way) \in Nat /\ d \in 0 .. Len(k.way) /\ c \in 1 .. d
  <2>1. c \in 0 .. d
    BY ForkIs
  <2>2. d \in 0 .. Len(k.way)
    BY SlotCases
  <2>3. k.way \in Seq(Index) /\ Len(k.way) \in Nat
    BY DEF Coded, IsKey
  <2> QED BY <2>1, <2>2, <2>3
<1>2. Children(a, Path(k.way, c - 1)) # {Path(k.way, c)}
  BY ForkIs, SMTT(30)
<1>3. ASSUME NEW l \in K, NEW i \in 0 .. Len(l.way), Path(l.way, i) \in DOMAIN a,
             c <= i, Path(l.way, c) = Path(k.way, c)
      PROVE  i <= d /\ Path(l.way, i) = Path(k.way, i)
  BY <1>3, Alone
<1>4. /\ p \in DOMAIN a /\ a[p] # Nil
      /\ \A j \in 0 .. (d - 1) : Path(k.way, j) \in DOMAIN a /\ a[Path(k.way, j)] = Nil
      /\ \A l \in K : \A w : HoldsAt(a, p, l, w) => l = k
      /\ WordsAt(a)[p] = OwnWords(a, k)
  <2>1. WordsAt(a)[p] = OwnWords(a, k)
    BY OwnSlot DEF OwnWords
  <2>2. \A l \in K : \A w : HoldsAt(a, p, l, w) => l = k
    BY OwnSlot
  <2>3. \A j \in 0 .. (d - 1) : Path(k.way, j) \in DOMAIN a /\ a[Path(k.way, j)] = Nil
    BY OwnSlot
  <2>4. p \in DOMAIN a /\ a[p] # Nil
    BY OwnSlot
  <2> QED BY <2>1, <2>2, <2>3, <2>4
<1>5. ASSUME NEW q \in DOMAIN a
      PROVE  q \in DOMAIN b <=> \A j \in c .. d : q # Path(k.way, j)
  OBVIOUS
<1>6. DOMAIN b \subseteq DOMAIN a
  OBVIOUS
<1> HIDE DEF d, c, p
<1>7. p \notin DOMAIN b /\ <<>> \in DOMAIN b
  <2>1. d \in c .. d
    BY <1>1
  <2>2. p \notin DOMAIN b
    BY <1>4, <1>5, <2>1 DEF p
  <2>3. <<>> \in DOMAIN a
    BY DEF TreeOK
  <2>4. \A j \in c .. d : Path(k.way, j) # <<>>
    BY <1>1, PathEnds
  <2> QED BY <1>5, <2>2, <2>3, <2>4
<1>8. TreeOK(b, K, V)
  <2>1. IsFiniteSet(DOMAIN b)
    <3>1. IsFiniteSet(DOMAIN a)
      BY DEF TreeOK
    <3> QED BY <1>6, <3>1, FS_Subset
  <2>2. \A q \in DOMAIN b \ {<<>>} : \E l \in K : \E i \in 0 .. Len(l.way) : q = Path(l.way, i)
    BY <1>6 DEF TreeOK
  <2>3. ASSUME NEW l \in K, NEW i \in 0 .. Len(l.way), Path(l.way, i) \in DOMAIN b,
               NEW j \in 0 .. (i - 1)
        PROVE  Path(l.way, j) \in DOMAIN b /\ b[Path(l.way, j)] = Nil
    <3>1. Path(l.way, i) \in DOMAIN a /\ Path(l.way, j) \in DOMAIN a /\ a[Path(l.way, j)] = Nil
      BY <1>6, <2>3 DEF TreeOK
    <3>2. l.way \in Seq(Index) /\ Len(l.way) \in Nat /\ j \in 0 .. Len(l.way)
      BY DEF Coded, IsKey
    <3>3. ASSUME NEW n \in c .. d, Path(l.way, j) = Path(k.way, n) PROVE FALSE
      <4>1. n \in 0 .. Len(k.way) /\ c \in 0 .. n
        BY <1>1
      <4>2. j = n /\ Path(l.way, c) = Path(k.way, c)
        BY <1>1, <3>2, <3>3, <4>1, PathsAgree
      <4>3. c <= i /\ i \in c .. Len(l.way)
        BY <1>1, <3>2, <4>1, <4>2
      <4>4. i <= d /\ Path(l.way, i) = Path(k.way, i)
        BY <1>3, <3>1, <4>2, <4>3
      <4>5. i \in c .. d
        BY <1>1, <3>2, <4>3, <4>4
      <4> QED BY <1>5, <2>3, <3>1, <4>4, <4>5
    <3>4. Path(l.way, j) \in DOMAIN b
      BY <1>5, <3>1, <3>3
    <3> QED BY <3>1, <3>4
  <2>4. ASSUME NEW q \in DOMAIN b PROVE SlotOK(b, q, K, V)
    <3>1. SlotOK(a, q, K, V) /\ b[q] = a[q]
      BY <1>6 DEF TreeOK
    <3> QED BY <3>1 DEF SlotOK
  <2> QED BY <1>7, <2>1, <2>2, <2>3, <2>4 DEF TreeOK
<1>9. ASSUME NEW l \in K, NEW w PROVE Holds(b, l, w) <=> Holds(a, l, w) /\ l # k
  <2>1. ASSUME Holds(b, l, w) PROVE Holds(a, l, w) /\ l # k
    <3>1. PICK q \in DOMAIN b : HoldsAt(b, q, l, w)
      BY <2>1 DEF Holds
    <3>2. HoldsAt(a, q, l, w) /\ q \in DOMAIN a /\ q # p
      BY <1>6, <1>7, <3>1 DEF HoldsAt
    <3>3. l # k
      BY <3>2, Holder DEF p, d
    <3> QED BY <3>2, <3>3 DEF Holds
  <2>2. ASSUME Holds(a, l, w), l # k PROVE Holds(b, l, w)
    <3>1. PICK q \in DOMAIN a : HoldsAt(a, q, l, w)
      BY <2>2 DEF Holds
    <3>2. a[q] # Nil /\ q # p
      BY <1>4, <2>2, <3>1, SlotShapes DEF HoldsAt
    <3>3. ASSUME NEW j \in c .. d, q = Path(k.way, j) PROVE FALSE
      <4>1. j # d /\ j \in 0 .. (d - 1)
        BY <1>1, <3>2, <3>3 DEF p
      <4> QED BY <1>4, <3>2, <3>3, <4>1
    <3>4. q \in DOMAIN b
      BY <1>5, <3>3
    <3> QED BY <3>1, <3>4 DEF Holds, HoldsAt
  <2> QED BY <2>1, <2>2
<1>10. TreeWords(a) = TreeWords(b) + OwnWords(a, k)
  <2>1. ASSUME NEW q \in DOMAIN a, q # p, q \notin DOMAIN b PROVE a[q].t # "leaf"
    <3>1. PICK j \in c .. d : q = Path(k.way, j)
      BY <1>5, <2>1
    <3>2. j \in 0 .. (d - 1)
      BY <1>1, <2>1, <3>1 DEF p
    <3> QED BY <1>4, <3>1, <3>2, SlotShapes
  <2>2. /\ \A q \in DOMAIN a : q # p /\ q \in DOMAIN b => a[q] = b[q]
        /\ \A q \in DOMAIN b : q \notin DOMAIN a => b[q].t # "leaf"
    BY <1>6
  <2>3. p \in DOMAIN b => b[p].t # "leaf"
    BY <1>7
  <2>4. p \in DOMAIN a
    BY <1>4
  <2>5. TreeWords(a) = TreeWords(b) + WordsAt(a)[p]
    BY <1>8, <2>1, <2>2, <2>3, <2>4, WordsOneMore
  <2> QED BY <1>4, <2>5
<1>12. ASSUME NEW q \in DeadEnds(b) PROVE q \in DeadEnds(a)
  <2>1. q \in DOMAIN b /\ q \in DOMAIN a /\ q # <<>> /\ a[q] = Nil /\ Children(b, q) = {}
    BY <1>6 DEF DeadEnds
  <2>2. ASSUME NEW x \in Children(a, q) PROVE FALSE
    <3>1. x \in DOMAIN a /\ Len(x) = Len(q) + 1 /\ Path(x, Len(q)) = q
      BY DEF Children
    <3>2. x \notin DOMAIN b
      BY <2>1, <3>1 DEF Children
    <3>3. PICK n \in c .. d : x = Path(k.way, n)
      BY <1>5, <3>1, <3>2
    <3>4. n \in 1 .. Len(k.way) /\ n - 1 \in 0 .. n /\ n \in 0 .. Len(k.way)
      BY <1>1
    <3>5. Len(x) = n
      BY <1>1, <3>3, <3>4, PathIs
    <3>6. q \in Seq(Index) /\ Len(q) \in Nat
      <4>1. PICK l \in K : \E i \in 0 .. Len(l.way) : q = Path(l.way, i)
        BY <2>1 DEF TreeOK
      <4>2. l.way \in Seq(Index)
        BY DEF Coded, IsKey
      <4>3. q \in Seq(Index)
        BY <4>1, <4>2, PathIs
      <4> QED BY <4>3
    <3>7. Len(q) = n - 1
      BY <3>1, <3>4, <3>5, <3>6
    <3>8. q = Path(k.way, n - 1)
      <4>1. Path(x, n - 1) = Path(k.way, n - 1)
        BY <1>1, <3>3, <3>4, PathOfPath
      <4> QED BY <3>1, <3>7, <4>1
    <3>9. n = c
      <4>1. SUFFICES ASSUME n # c PROVE FALSE
        OBVIOUS
      <4>2. n - 1 \in c .. d
        BY <1>1, <4>1
      <4> QED BY <1>5, <2>1, <3>8, <4>2
    <3>10. PICK y \in Children(a, q) : y # Path(k.way, c)
      <4>1. x \in Children(a, q) /\ x = Path(k.way, c)
        BY <3>3, <3>9
      <4>2. Children(a, q) # {Path(k.way, c)}
        BY <1>2, <3>8, <3>9
      <4> QED BY <4>1, <4>2
    <3>11. y \in DOMAIN a /\ Len(y) = c /\ y \notin Children(b, q)
      BY <2>1, <3>1, <3>5, <3>9 DEF Children
    <3>12. y \notin DOMAIN b
      BY <3>10, <3>11 DEF Children
    <3>13. PICK j \in c .. d : y = Path(k.way, j)
      BY <1>5, <3>11, <3>12
    <3>14. j \in 0 .. Len(k.way)
      BY <1>1
    <3>15. j = c
      BY <1>1, <3>11, <3>13, <3>14, PathIs
    <3> QED BY <3>10, <3>13, <3>15
  <2> QED BY <2>1, <2>2 DEF DeadEnds
<1> QED BY <1>8, <1>9, <1>10, <1>12 DEF Lost

\* The null pointer is a tree of no strings.
LEMMA NoTreeIs ==
  ASSUME NEW K, Coded(K), NEW V
  PROVE  /\ TreeOK(NoTree, K, V) /\ TreeWords(NoTree) = 0 /\ DeadEnds(NoTree) = {}
         /\ \A k \in K : Get(NoTree, k) = Nil
         /\ \A k, v : ~ Holds(NoTree, k, v)
<1>1. DOMAIN NoTree = {<<>>} /\ NoTree[<<>>] = Nil /\ NoTree = [p \in DOMAIN NoTree |-> NoTree[p]]
  BY DEF NoTree
<1>2. TreeOK(NoTree, K, V)
  <2>1. IsFiniteSet(DOMAIN NoTree)
    BY <1>1, FS_Singleton
  <2>2. ASSUME NEW k \in K, NEW i \in 0 .. Len(k.way), Path(k.way, i) \in DOMAIN NoTree,
               NEW j \in 0 .. (i - 1)
        PROVE  FALSE
    <3>1. k.way \in Seq(Index) /\ Len(k.way) \in Nat
      BY DEF Coded, IsKey
    <3>2. i = 0
      BY <1>1, <2>2, <3>1, PathEnds
    <3> QED BY <3>2
  <2>3. \A k \in K : k.way # <<>>
    BY DEF Coded, IsKey
  <2>4. \A p \in DOMAIN NoTree : SlotOK(NoTree, p, K, V)
    BY <1>1, <2>3 DEF SlotOK
  <2> HIDE DEF NoTree
  <2>5. <<>> \in DOMAIN NoTree /\ DOMAIN NoTree \ {<<>>} = {}
    BY <1>1
  <2>6. \A k \in K : \A i \in 0 .. Len(k.way) : Path(k.way, i) \in DOMAIN NoTree =>
          \A j \in 0 .. (i - 1) : Path(k.way, j) \in DOMAIN NoTree /\ NoTree[Path(k.way, j)] = Nil
    BY <2>2
  <2>7. NoTree = [p \in DOMAIN NoTree |-> NoTree[p]]
    BY <1>1
  <2> QED BY <2>1, <2>4, <2>5, <2>6, <2>7 DEF TreeOK
<1>3. ASSUME NEW k, NEW v PROVE ~ Holds(NoTree, k, v)
  BY <1>1, SlotShapes DEF Holds, HoldsAt
<1>4. ASSUME NEW k \in K PROVE Get(NoTree, k) = Nil
  <2>1. CASE Get(NoTree, k) # Nil
    <3>1. PICK v \in V : Get(NoTree, k) = Val(v)
      BY <1>2, <2>1, GetHolds
    <3>2. Holds(NoTree, k, v)
      BY <1>2, <3>1, GetHolds
    <3> QED BY <1>3, <3>2
  <2> QED BY <2>1
<1>5. TreeWords(NoTree) = 0
  <2>1. /\ \A p \in DOMAIN NoTree : WordsAt(NoTree)[p] = 0
        /\ TreeWords(NoTree) = Total(WordsAt(NoTree), DOMAIN NoTree)
        /\ IsFiniteSet(DOMAIN NoTree)
    <3>1. \A p \in DOMAIN NoTree : NoTree[p].t # "leaf"
      BY <1>1, SlotShapes
    <3> HIDE DEF NoTree
    <3> QED BY <1>2, <3>1, WordsAtType
  <2> QED BY <2>1, TotalZero
<1>6. DeadEnds(NoTree) = {}
  BY <1>1 DEF DeadEnds
<1> QED BY <1>2, <1>3, <1>4, <1>5, <1>6

\* The last string goes, and the whole tree with it.
LEMMA CutAll ==
  ASSUME NEW K, Coded(K), NEW V, NEW a, TreeOK(a, K, V), NEW k \in K, Get(a, k) # Nil,
         Fork(a, k) = 0
  PROVE  Lost(a, k, NoTree, K, V)
<1> DEFINE d == Depth(a, k)
           p == Path(k.way, d)
<1>0. /\ TreeOK(NoTree, K, V) /\ TreeWords(NoTree) = 0 /\ DeadEnds(NoTree) = {}
      /\ \A x, v : ~ Holds(NoTree, x, v)
  BY NoTreeIs
<1>1. /\ k.way \in Seq(Index) /\ Len(k.way) \in Nat /\ d \in 0 .. Len(k.way)
  <2>2. d \in 0 .. Len(k.way)
    BY SlotCases
  <2>3. k.way \in Seq(Index) /\ Len(k.way) \in Nat
    BY DEF Coded, IsKey
  <2> QED BY <2>2, <2>3
<1>2. /\ p \in DOMAIN a /\ a[p] # Nil
      /\ \A j \in 0 .. (d - 1) : Path(k.way, j) \in DOMAIN a /\ a[Path(k.way, j)] = Nil
      /\ \A l \in K : \A w : HoldsAt(a, p, l, w) => l = k
      /\ WordsAt(a)[p] = OwnWords(a, k)
  <2>1. WordsAt(a)[p] = OwnWords(a, k)
    BY OwnSlot DEF OwnWords
  <2>2. \A l \in K : \A w : HoldsAt(a, p, l, w) => l = k
    BY OwnSlot
  <2>3. \A j \in 0 .. (d - 1) : Path(k.way, j) \in DOMAIN a /\ a[Path(k.way, j)] = Nil
    BY OwnSlot
  <2>4. p \in DOMAIN a /\ a[p] # Nil
    BY OwnSlot
  <2> QED BY <2>1, <2>2, <2>3, <2>4
<1> HIDE DEF d
<1>3. ASSUME NEW q \in DOMAIN a PROVE \E j \in 0 .. d : q = Path(k.way, j)
  <2>1. CASE q = <<>>
    <3>1. 0 \in 0 .. d /\ q = Path(k.way, 0)
      BY <1>1, <2>1, PathEnds
    <3> QED BY <3>1
  <2>2. CASE q # <<>>
    <3>1. PICK l \in K : \E i \in 0 .. Len(l.way) : q = Path(l.way, i)
      BY <2>2 DEF TreeOK
    <3>2. PICK i \in 0 .. Len(l.way) : q = Path(l.way, i)
      BY <3>1
    <3>3. l.way \in Seq(Index) /\ Len(l.way) \in Nat
      BY DEF Coded, IsKey
    <3>4. Fork(a, k) <= i /\ Path(l.way, Fork(a, k)) = Path(k.way, Fork(a, k))
      BY <1>1, <3>3, PathEnds
    <3>5. i <= d /\ Path(l.way, i) = Path(k.way, i)
      BY <3>2, <3>4, Alone DEF d
    <3>6. i \in 0 .. d
      BY <1>1, <3>3, <3>5
    <3> QED BY <3>2, <3>5, <3>6
  <2> QED BY <2>1, <2>2
<1> HIDE DEF p
<1>4. ASSUME NEW q \in DOMAIN a, q # p PROVE a[q] = Nil
  <2>1. PICK j \in 0 .. d : q = Path(k.way, j)
    BY <1>3
  <2>2. j \in 0 .. (d - 1)
    BY <1>1, <1>4, <2>1 DEF p
  <2> QED BY <1>2, <2>1, <2>2
<1>5. ASSUME NEW l \in K, NEW w, Holds(a, l, w) PROVE l = k
  <2>1. PICK q \in DOMAIN a : HoldsAt(a, q, l, w)
    BY <1>5 DEF Holds
  <2>2. a[q] # Nil
    BY <2>1, SlotShapes DEF HoldsAt
  <2>3. q = p
    BY <1>4, <2>2
  <2> QED BY <1>2, <2>1, <2>3
<1>6. TreeWords(a) = OwnWords(a, k)
  <2> DEFINE f == WordsAt(a)
  <2>1. /\ \A q \in DOMAIN a : f[q] \in Nat
        /\ \A q \in DOMAIN a : a[q].t # "leaf" => f[q] = 0
        /\ TreeWords(a) = Total(f, DOMAIN a) /\ IsFiniteSet(DOMAIN a)
    BY WordsAtType
  <2>2. \A q \in DOMAIN a \ {p} : f[q] = 0
    BY <1>4, <2>1, SlotShapes
  <2>3. IsFiniteSet(DOMAIN a \ {p})
    BY <2>1, FS_RemoveElement
  <2> HIDE DEF f
  <2>4. Total(f, DOMAIN a \ {p}) = 0
    BY <2>2, <2>3, TotalZero
  <2>5. Total(f, DOMAIN a) = f[p] + Total(f, DOMAIN a \ {p})
    BY <1>2, <2>1, TotalRemove
  <2>6. f[p] \in Nat /\ f[p] = OwnWords(a, k)
    BY <1>2, <2>1 DEF f
  <2> QED BY <2>1, <2>4, <2>5, <2>6
<1>7. OwnWords(a, k) \in Nat
  BY <1>6, WordsAtType
<1> HIDE DEF NoTree
<1>8. \A l \in K : \A w : Holds(NoTree, l, w) <=> Holds(a, l, w) /\ l # k
  BY <1>0, <1>5
<1>9. TreeWords(a) = TreeWords(NoTree) + OwnWords(a, k)
  BY <1>0, <1>6, <1>7
<1> QED BY <1>0, <1>8, <1>9 DEF Lost

\* What a removal does, as long as its one allocation is there.
LEMMA DelKeeps ==
  ASSUME NEW K, Coded(K), NEW V, NEW a, TreeOK(a, K, V), NEW k \in K,
         NEW m \in Memory, m.left > 0, NEW r, r = Del(a, k, m)
  PROVE  /\ Get(a, k) = Nil => r.ret = 0 /\ r.tree = a /\ r.m = m
         /\ Get(a, k) # Nil =>
              /\ r.ret = 1 /\ r.m \in Memory /\ r.m.left >= m.left - 1
              /\ r.m.heap = m.heap - OwnWords(a, k)
              /\ Lost(a, k, r.tree, K, V)
<1> DEFINE c    == Fork(a, k)
           d    == Depth(a, k)
           rest == IF Slot(a, k).t = "leaf" THEN Freed(m, LeafWords(k.size[d])) ELSE m
<1>1. CASE Get(a, k) = Nil
  <2>1. r = Result(a, 0, m)
    BY <1>1 DEF Del
  <2> QED BY <1>1, <2>1 DEF Result
<1>2. CASE Get(a, k) # Nil
  <2>1. m.heap \in Int /\ m.left \in Nat /\ IsKey(k)
    BY DEF Memory, Coded
  <2>2. OwnWords(a, k) \in Nat
    <3>1. CASE Slot(a, k).t = "leaf"
      <4>1. Depth(a, k) \in DOMAIN k.size
        BY <1>2, <3>1, OwnSlot
      <4> QED BY <2>1, <3>1, <4>1, LeafWordsType DEF OwnWords, IsKey
    <3>2. CASE Slot(a, k).t # "leaf"
      BY <3>2 DEF OwnWords
    <3> QED BY <3>1, <3>2
  <2>3. rest \in Memory /\ rest.left = m.left /\ rest.heap = m.heap - OwnWords(a, k)
    <3>1. CASE Slot(a, k).t = "leaf"
      BY <2>1, <2>2, <3>1 DEF OwnWords, Freed, Memory
    <3>2. CASE Slot(a, k).t # "leaf"
      BY <2>1, <3>2 DEF OwnWords, Memory
    <3> QED BY <3>1, <3>2
  <2>4. c \in Nat
    <3>1. c \in 0 .. d
      BY ForkIs
    <3> QED BY <3>1
  <2>5. CASE c = 0
    <3>1. r = Result(NoTree, 1, rest)
      BY <1>2, <2>5 DEF Del
    <3> HIDE DEF rest
    <3>2. r.ret = 1 /\ r.tree = NoTree /\ r.m = rest
      BY <3>1 DEF Result
    <3>3. Lost(a, k, NoTree, K, V)
      BY <1>2, <2>5, CutAll
    <3>4. rest.left >= m.left - 1
      BY <2>1, <2>3
    <3> QED BY <1>2, <2>3, <3>2, <3>3, <3>4
  <2>6. CASE c # 0
    <3> DEFINE b == Without(a, k, c)
    <3>1. r = Result(b, 1, [rest EXCEPT !.left = @ - 1])
      <4>1. c > 0
        BY <2>4, <2>6
      <4> QED BY <1>2, <2>6, <4>1 DEF Del
    <3> HIDE DEF rest
    <3>2. r.ret = 1 /\ r.tree = b /\ r.m = [heap |-> rest.heap, left |-> rest.left - 1]
      <4> HIDE DEF b
      <4> QED BY <2>3, <3>1 DEF Result, Memory
    <3>3. r.m \in Memory /\ r.m.left >= m.left - 1 /\ r.m.heap = m.heap - OwnWords(a, k)
      BY <2>1, <2>3, <3>2 DEF Memory
    <3>4. /\ b = [q \in DOMAIN b |-> b[q]]
          /\ DOMAIN b = DOMAIN a \ {Path(k.way, j) : j \in c .. d}
          /\ \A q \in DOMAIN b : b[q] = a[q]
      BY DEF Without, Restrict
    <3> HIDE DEF b
    <3>5. Lost(a, k, b, K, V)
      BY <1>2, <2>6, <3>4, Cut
    <3> QED BY <1>2, <3>2, <3>3, <3>5
  <2> QED BY <2>5, <2>6
<1> QED BY <1>1, <1>2

-----------------------------------------------------------------------------
(* Words.                                                                  *)

\* A number is between two multiples of the word size.
LEMMA Division ==
  ASSUME NEW x \in Nat
  PROVE  /\ x \div WORDSIZE \in Nat /\ x \div WORDSIZE <= x
         /\ (x \div WORDSIZE) * WORDSIZE <= x /\ x < (x \div WORDSIZE + 1) * WORDSIZE
<1>1. WORDSIZE \in Nat /\ WORDSIZE > 0
  BY WordSizeAssumption
<1> DEFINE q == x \div WORDSIZE
<1>2. q \in Nat /\ x = q * WORDSIZE + (x % WORDSIZE) /\ x % WORDSIZE \in 0 .. (WORDSIZE - 1)
  BY <1>1, Z3
<1> HIDE DEF q
<1>3. q * WORDSIZE <= x /\ x < (q + 1) * WORDSIZE
  BY <1>1, <1>2, Z3
<1>4. q <= x
  BY <1>1, <1>2, <1>3, Z3
<1> QED BY <1>2, <1>3, <1>4 DEF q

\* Multiples of the word size are ordered like what they are multiples of.
LEMMA Times ==
  ASSUME NEW i \in Nat, NEW j \in Nat
  PROVE  /\ i * WORDSIZE \in Nat /\ (i + 1) * WORDSIZE = i * WORDSIZE + WORDSIZE
         /\ i <= j => i * WORDSIZE <= j * WORDSIZE
         /\ i * WORDSIZE < (j + 1) * WORDSIZE => i <= j
<1>1. WORDSIZE \in Nat /\ WORDSIZE > 0
  BY WordSizeAssumption
<1>2. i * WORDSIZE \in Nat /\ (i + 1) * WORDSIZE = i * WORDSIZE + WORDSIZE
  BY <1>1, Z3
<1>3. i <= j => i * WORDSIZE <= j * WORDSIZE
  BY <1>1, Z3
<1>4. i * WORDSIZE < (j + 1) * WORDSIZE => i <= j
  BY <1>1, Z3
<1> QED BY <1>2, <1>3, <1>4

\* A word of a string.
Chunk(s, i) == SubSeq(s, (i - 1) * WORDSIZE + 1, Min({i * WORDSIZE, Len(s)}))

\* How long a chunk is, and the bytes of it.
LEMMA ChunkIs ==
  ASSUME NEW s \in Seq(Nat), NEW i \in Nat \ {0}, (i - 1) * WORDSIZE <= Len(s)
  PROVE  /\ Chunk(s, i) \in Seq(Nat)
         /\ Len(Chunk(s, i)) =
              IF i * WORDSIZE <= Len(s) THEN WORDSIZE ELSE Len(s) - (i - 1) * WORDSIZE
         /\ \A p \in 1 .. Len(s) : (i - 1) * WORDSIZE < p /\ p <= i * WORDSIZE =>
              Chunk(s, i)[p - (i - 1) * WORDSIZE] = s[p]
<1> DEFINE x == (i - 1) * WORDSIZE
           y == i * WORDSIZE
           z == Min({y, Len(s)})
<1>1. Len(s) \in Nat /\ WORDSIZE \in Nat /\ WORDSIZE > 0
  BY WordSizeAssumption
<1>2. x \in Nat /\ y \in Nat /\ y = x + WORDSIZE
  <2>1. i - 1 \in Nat /\ (i - 1) + 1 = i
    OBVIOUS
  <2> QED BY <1>1, <2>1, Times
<1>3. x <= Len(s) /\ Chunk(s, i) = SubSeq(s, x + 1, z)
  BY DEF Chunk
<1> HIDE DEF x, y
<1>4. z = IF y <= Len(s) THEN y ELSE Len(s)
  BY <1>1, <1>2, MinOfTwo
<1> HIDE DEF z
<1>5. z \in Nat /\ x <= z /\ z <= Len(s)
  BY <1>1, <1>2, <1>3, <1>4
<1> DEFINE c == SubSeq(s, x + 1, z)
<1>6. z - x \in Nat /\ z - (x + 1) + 1 = z - x /\ (x + 1 <= z <=> z - x # 0)
  BY <1>2, <1>5
<1>7. \A j \in (x + 1) .. z : s[j] \in Nat
  BY <1>1, <1>2, <1>5
<1>8. c \in Seq(Nat) /\ Len(c) = z - x /\ \A j \in 1 .. (z - x) : c[j] = s[x + j]
  <2>1. /\ c \in Seq(Nat)
        /\ Len(c) = IF x + 1 <= z THEN z - (x + 1) + 1 ELSE 0
        /\ \A j \in 1 .. (z - (x + 1) + 1) : c[j] = s[(x + 1) + j - 1]
    BY <1>2, <1>5, <1>7, SubSeqProperties
  <2>2. \A j \in Nat : (x + 1) + j - 1 = x + j
    BY <1>2
  <2> HIDE DEF c
  <2> QED BY <1>6, <2>1, <2>2
<1>9. z - x = IF y <= Len(s) THEN WORDSIZE ELSE Len(s) - x
  BY <1>1, <1>2, <1>4
<1>10. ASSUME NEW p \in 1 .. Len(s), x < p, p <= y PROVE c[p - x] = s[p]
  <2>1. p - x \in 1 .. (z - x) /\ x + (p - x) = p
    BY <1>1, <1>2, <1>4, <1>5, <1>10
  <2> QED BY <1>8, <2>1
<1> HIDE DEF c
<1> QED BY <1>3, <1>8, <1>9, <1>10 DEF x, y, c

\* Strings of the same length with the same words are the same.
LEMMA SameWords ==
  ASSUME NEW s \in Seq(Nat), NEW t \in Seq(Nat), Len(s) = Len(t), NEW n \in Nat,
         Len(s) <= n * WORDSIZE, \A i \in 1 .. n : Chunk(s, i) = Chunk(t, i)
  PROVE  s = t
<1>1. ASSUME NEW p \in 1 .. Len(s) PROVE s[p] = t[p]
  <2> DEFINE q == (p - 1) \div WORDSIZE
  <2>1. Len(s) \in Nat /\ p - 1 \in Nat /\ p \in Nat
    OBVIOUS
  <2>2. q \in Nat /\ q * WORDSIZE <= p - 1 /\ p - 1 < (q + 1) * WORDSIZE
    BY <2>1, Division
  <2> HIDE DEF q
  <2>3. q * WORDSIZE \in Nat /\ (q + 1) * WORDSIZE \in Nat /\ n * WORDSIZE \in Nat
    BY <2>2, Times
  <2>4. q * WORDSIZE <= Len(s) /\ q * WORDSIZE < p /\ p <= (q + 1) * WORDSIZE
    BY <2>1, <2>2, <2>3
  <2>5. q + 1 \in 1 .. n
    <3>1. n # 0
      <4>1. CASE n = 0
        <5>1. n * WORDSIZE = 0
          BY <4>1, WordSizeAssumption
        <5> QED BY <2>1, <5>1
      <4> QED BY <4>1
    <3>2. n - 1 \in Nat /\ (n - 1) + 1 = n
      BY <3>1
    <3>3. q * WORDSIZE < n * WORDSIZE
      BY <2>1, <2>3, <2>4
    <3>4. q <= n - 1
      BY <2>2, <3>2, <3>3, Times
    <3> QED BY <2>2, <3>2, <3>4
  <2>6. q + 1 \in Nat \ {0} /\ (q + 1) - 1 = q
    BY <2>2
  <2>7. Chunk(s, q + 1)[p - q * WORDSIZE] = s[p]
    BY <2>4, <2>6, ChunkIs
  <2>8. Chunk(t, q + 1)[p - q * WORDSIZE] = t[p]
    BY <2>4, <2>6, ChunkIs
  <2> QED BY <2>5, <2>7, <2>8
<1> QED BY <1>1, SeqEqual

-----------------------------------------------------------------------------
(* The keys of JudySL.                                                     *)

\* The way of a string in JudySL is its words, the last one short.
LEMMA SLKeyIs ==
  ASSUME NEW s \in Strings
  PROVE  /\ IsKey(SLKey[s]) /\ SLKey[s].str = s
         /\ Len(SLKey[s].way) = Len(s) \div WORDSIZE + 1
         /\ \A i \in 1 .. Len(SLKey[s].way) :
              SLKey[s].way[i] = Chunk(s, i) /\ (i - 1) * WORDSIZE <= Len(s)
<1> DEFINE q == Len(s) \div WORDSIZE
<1>1. s \in Seq(Nat) /\ Len(s) \in Nat
  BY StringsAssumption
<1>2. q \in Nat /\ q <= Len(s) /\ q * WORDSIZE <= Len(s)
  BY <1>1, Division
<1>3. SLKey[s] = [str |-> s, way |-> SLWay(s), size |-> SLSize(s)]
  BY DEF SLKey
<1>4. /\ SLWay(s) = [i \in 1 .. (q + 1) |-> Chunk(s, i)]
      /\ SLSize(s) = [i \in 0 .. q |-> Len(s) - i * WORDSIZE + 1]
  BY DEF SLWay, SLSize, Chunk
<1> HIDE DEF q
<1>5. ASSUME NEW i \in 1 .. (q + 1)
      PROVE  Chunk(s, i) \in Index /\ (i - 1) * WORDSIZE <= Len(s)
  <2>1. i - 1 \in Nat /\ i - 1 <= q /\ i \in Nat \ {0}
    BY <1>2
  <2>2. (i - 1) * WORDSIZE <= q * WORDSIZE /\ (i - 1) * WORDSIZE \in Nat /\ q * WORDSIZE \in Nat
    BY <1>2, <2>1, Times
  <2>3. (i - 1) * WORDSIZE <= Len(s)
    BY <1>1, <1>2, <2>2
  <2>4. Chunk(s, i) \in Seq(Nat)
    BY <1>1, <2>1, <2>3, ChunkIs
  <2> QED BY <2>3, <2>4 DEF Index
<1>6. ASSUME NEW i \in 0 .. q PROVE Len(s) - i * WORDSIZE + 1 \in Nat
  <2>0. i \in Nat /\ i <= q
    BY <1>2
  <2>1. i * WORDSIZE <= q * WORDSIZE /\ i * WORDSIZE \in Nat /\ q * WORDSIZE \in Nat
    BY <1>2, <2>0, Times
  <2> QED BY <1>1, <1>2, <2>1
<1>7. SLWay(s) \in Seq(Index) /\ Len(SLWay(s)) = q + 1 /\ \A i \in 1 .. (q + 1) : SLWay(s)[i] = Chunk(s, i)
  <2>1. \A i \in 1 .. (q + 1) : Chunk(s, i) \in Index
    BY <1>5
  <2>2. q + 1 \in Nat
    BY <1>2
  <2> QED BY <1>4, <2>1, <2>2
<1>8. SLWay(s) # <<>>
  BY <1>2, <1>7
<1>9. \A j \in DOMAIN SLSize(s) : j \in 0 .. (Len(SLWay(s)) - 1) /\ SLSize(s)[j] \in Nat
  BY <1>2, <1>4, <1>6, <1>7
<1>10. IsKey(SLKey[s])
  BY <1>3, <1>7, <1>8, <1>9 DEF IsKey
<1>11. Len(SLKey[s].way) = q + 1 /\ SLKey[s].str = s
  BY <1>1, <1>2, <1>3, <1>7
<1>12. \A i \in 1 .. Len(SLKey[s].way) :
         SLKey[s].way[i] = Chunk(s, i) /\ (i - 1) * WORDSIZE <= Len(s)
  BY <1>3, <1>5, <1>7
<1> QED BY <1>10, <1>11, <1>12 DEF q

\* In JudySL no string's way goes on from another's: the last word of a string is the only
\* one that is short.
LEMMA SLCoded ==
  ASSUME NEW S \in SUBSET Strings
  PROVE  Coded({SLKey[s] : s \in S})
<1>1. \A s \in S : IsKey(SLKey[s])
  BY SLKeyIs
<1>2. ASSUME NEW s \in S, NEW t \in S, NEW n \in 0 .. Len(SLKey[t].way),
             SLKey[s].way = Path(SLKey[t].way, n)
      PROVE  s = t
  <2> DEFINE q == Len(s) \div WORDSIZE
             u == Len(t) \div WORDSIZE
  <2>1. /\ s \in Seq(Nat) /\ t \in Seq(Nat) /\ Len(s) \in Nat /\ Len(t) \in Nat
        /\ SLKey[s].way \in Seq(Index) /\ SLKey[t].way \in Seq(Index)
    BY <1>1, StringsAssumption DEF IsKey
  <2>2. /\ q \in Nat /\ u \in Nat /\ q * WORDSIZE <= Len(s) /\ Len(s) < (q + 1) * WORDSIZE
        /\ u * WORDSIZE <= Len(t)
    BY <2>1, Division
  <2>3. /\ Len(SLKey[s].way) = q + 1 /\ Len(SLKey[t].way) = u + 1
        /\ \A i \in 1 .. (q + 1) : SLKey[s].way[i] = Chunk(s, i)
        /\ \A i \in 1 .. (u + 1) : SLKey[t].way[i] = Chunk(t, i)
    BY SLKeyIs
  <2> HIDE DEF q, u
  <2>4. n = q + 1 /\ q <= u /\ \A i \in 1 .. (q + 1) : Chunk(s, i) = Chunk(t, i)
    <3>1. Len(Path(SLKey[t].way, n)) = n /\ \A i \in 1 .. n : Path(SLKey[t].way, n)[i] = SLKey[t].way[i]
      BY <2>1, PathIs
    <3>2. n = q + 1 /\ q <= u
      BY <1>2, <2>2, <2>3, <3>1
    <3> QED BY <1>2, <2>2, <2>3, <3>1, <3>2
  <2>5. /\ q * WORDSIZE \in Nat /\ (q + 1) * WORDSIZE = q * WORDSIZE + WORDSIZE
        /\ q * WORDSIZE <= u * WORDSIZE /\ u * WORDSIZE \in Nat /\ WORDSIZE \in Nat
    BY <2>2, <2>4, Times, WordSizeAssumption
  <2>6. q * WORDSIZE <= Len(t)
    <3> DEFINE x == q * WORDSIZE
               y == u * WORDSIZE
    <3>1. x \in Nat /\ y \in Nat /\ x <= y /\ y <= Len(t)
      BY <2>2, <2>5
    <3>2. x <= Len(t)
      <4> HIDE DEF x, y
      <4> QED BY <2>1, <3>1
    <3> QED BY <3>2
  <2>7. q + 1 \in Nat \ {0} /\ (q + 1) - 1 = q /\ q + 1 \in 1 .. (q + 1)
    BY <2>2
  <2>8. Len(Chunk(s, q + 1)) =
          IF (q + 1) * WORDSIZE <= Len(s) THEN WORDSIZE ELSE Len(s) - q * WORDSIZE
    BY <2>1, <2>2, <2>7, ChunkIs
  <2>9. Len(Chunk(t, q + 1)) =
          IF (q + 1) * WORDSIZE <= Len(t) THEN WORDSIZE ELSE Len(t) - q * WORDSIZE
    BY <2>1, <2>6, <2>7, ChunkIs
  <2>10. Len(Chunk(s, q + 1)) = Len(Chunk(t, q + 1))
    BY <2>4, <2>7
  <2>11. Len(s) = Len(t)
    BY <2>1, <2>2, <2>5, <2>6, <2>8, <2>9, <2>10
  <2>12. Len(s) <= (q + 1) * WORDSIZE
    BY <2>1, <2>2, <2>5
  <2> QED BY <2>1, <2>4, <2>7, <2>11, <2>12, SameWords
<1> QED BY <1>1, <1>2 DEF Coded

-----------------------------------------------------------------------------
(* The keys of JudyHS.                                                     *)

\* The level of the last word of a long string of n bytes.
LastWord(n) == (n - 1) \div WORDSIZE + 1

\* The way of a string in JudyHS starts with its length.
LEMMA HSKeyIs ==
  ASSUME NEW s \in Strings
  PROVE  /\ IsKey(HSKey[s]) /\ HSKey[s].str = s
         /\ Len(HSKey[s].way) >= 2
         /\ HSKey[s].way[1] = Len(s)
         /\ HSKey[s].size =
              [i \in (IF Len(s) > WORDSIZE THEN 2 .. LastWord(Len(s)) ELSE {}) |->
                 Len(s) - (i - 2) * WORDSIZE]
         /\ ~ (Len(s) > WORDSIZE) => Len(HSKey[s].way) = 2 /\ HSKey[s].way[2] = s
         /\ Len(s) > WORDSIZE =>
              /\ LastWord(Len(s)) \in Nat /\ Len(s) <= LastWord(Len(s)) * WORDSIZE
              /\ Len(HSKey[s].way) = 2 + LastWord(Len(s))
              /\ \A i \in 1 .. LastWord(Len(s)) : HSKey[s].way[i + 2] = Chunk(s, i)
<1> DEFINE k == HSKey[s]
           n == LastWord(Len(s))
<1>1. s \in Seq(Nat) /\ Len(s) \in Nat /\ WORDSIZE \in Nat /\ WORDSIZE > 0
  BY StringsAssumption, WordSizeAssumption
<1>2. k.str = s /\ k.way = HSWay(s) /\ k.size = HSSize(s)
  BY DEF HSKey
<1> HIDE DEF k
<1>3. Len(s) \in Index /\ s \in Index /\ Hash(s) \in Index
  BY <1>1 DEF Index
<1>4. CASE ~ (Len(s) > WORDSIZE)
  <2>1. HSWay(s) = <<Len(s), s>> /\ HSSize(s) = [i \in {} |-> Len(s) - (i - 2) * WORDSIZE]
    BY <1>4 DEF HSWay, HSSize, Long
  <2>2. HSWay(s) \in Seq(Index) /\ HSWay(s) # <<>> /\ Len(HSWay(s)) = 2
        /\ HSWay(s)[1] = Len(s) /\ HSWay(s)[2] = s
    BY <1>3, <2>1
  <2>3. DOMAIN HSSize(s) = {}
    BY <2>1
  <2>4. IsKey(k)
    BY <1>2, <2>2, <2>3 DEF IsKey
  <2> QED BY <1>1, <1>2, <1>4, <2>1, <2>2, <2>4 DEF k
<1>5. CASE Len(s) > WORDSIZE
  <2> DEFINE q == (Len(s) - 1) \div WORDSIZE
             c == Chunks(s)
  <2>1. Len(s) - 1 \in Nat /\ Len(s) - 1 < Len(s)
    BY <1>1, <1>5
  <2>2. /\ q \in Nat /\ q <= Len(s) - 1 /\ q * WORDSIZE <= Len(s) - 1
        /\ Len(s) - 1 < (q + 1) * WORDSIZE /\ n = q + 1
    BY <2>1, Division DEF LastWord
  <2>3. c = [i \in 1 .. (q + 1) |-> Chunk(s, i)]
    BY DEF Chunks, Chunk
  <2> HIDE DEF q, n
  <2>4. ASSUME NEW i \in 1 .. (q + 1) PROVE Chunk(s, i) \in Index
    <3>1. i - 1 \in Nat /\ i - 1 <= q /\ i \in Nat \ {0}
      BY <2>2
    <3>2. (i - 1) * WORDSIZE <= q * WORDSIZE /\ (i - 1) * WORDSIZE \in Nat /\ q * WORDSIZE \in Nat
      BY <2>2, <3>1, Times
    <3>3. (i - 1) * WORDSIZE <= Len(s)
      <4> DEFINE x == (i - 1) * WORDSIZE
                 y == q * WORDSIZE
      <4>1. x \in Nat /\ y \in Nat /\ x <= y /\ y <= Len(s) - 1
        BY <2>2, <3>2
      <4>2. x <= Len(s)
        <5> HIDE DEF x, y
        <5> QED BY <1>1, <4>1
      <4> QED BY <4>2
    <3>4. Chunk(s, i) \in Seq(Nat)
      BY <1>1, <3>1, <3>3, ChunkIs
    <3> QED BY <3>4 DEF Index
  <2>5. c \in Seq(Index) /\ Len(c) = q + 1 /\ \A i \in 1 .. (q + 1) : c[i] = Chunk(s, i)
    <3>1. q + 1 \in Nat
      BY <2>2
    <3> QED BY <2>3, <2>4, <3>1
  <2> DEFINE b == <<Len(s), Hash(s)>>
  <2>6. b \in Seq(Index) /\ Len(b) = 2 /\ b[1] = Len(s)
    BY <1>3
  <2>7. HSWay(s) = b \o c
    BY <1>5 DEF HSWay, Long
  <2>8. HSSize(s) = [i \in 2 .. n |-> Len(s) - (i - 2) * WORDSIZE]
    BY <1>5, <2>2, <2>5 DEF HSSize, Long
  <2> HIDE DEF b, c
  <2>9. /\ HSWay(s) \in Seq(Index) /\ Len(HSWay(s)) = 2 + n /\ HSWay(s)[1] = Len(s)
        /\ \A i \in 1 .. n : HSWay(s)[i + 2] = c[i]
    <3>1. b \o c \in Seq(Index) /\ Len(b \o c) = Len(b) + Len(c)
          /\ \A i \in 1 .. (Len(b) + Len(c)) : (b \o c)[i] = IF i <= Len(b) THEN b[i] ELSE c[i - Len(b)]
      <4>1. b \in Seq(Index) /\ c \in Seq(Index)
        BY <2>5, <2>6
      <4> QED BY ONLY <4>1, ConcatProperties, Zenon
    <3>2. (b \o c)[1] = b[1]
      BY <2>2, <2>5, <2>6, <3>1
    <3>3. ASSUME NEW i \in 1 .. n PROVE (b \o c)[i + 2] = c[i]
      <4>1. i + 2 \in 1 .. (Len(b) + Len(c)) /\ ~ (i + 2 <= Len(b)) /\ (i + 2) - Len(b) = i
        BY <2>2, <2>5, <2>6
      <4> QED BY <3>1, <4>1
    <3> QED BY <2>2, <2>5, <2>6, <2>7, <3>1, <3>2, <3>3
  <2>10. ASSUME NEW j \in 2 .. n PROVE Len(s) - (j - 2) * WORDSIZE \in Nat
    <3>1. j - 2 \in Nat /\ j - 2 <= q
      BY <2>2
    <3> DEFINE x == (j - 2) * WORDSIZE
               y == q * WORDSIZE
    <3>2. x \in Nat /\ y \in Nat /\ x <= y /\ y <= Len(s) - 1
      BY <2>2, <3>1, Times
    <3> HIDE DEF x, y
    <3>3. Len(s) - x \in Nat
      BY <1>1, <3>2
    <3> QED BY <3>3 DEF x
  <2>11. HSWay(s) # <<>> /\ \A j \in DOMAIN HSSize(s) : j \in 0 .. (Len(HSWay(s)) - 1) /\ HSSize(s)[j] \in Nat
    BY <2>2, <2>8, <2>9, <2>10
  <2>12. IsKey(k)
    BY <1>2, <2>9, <2>11 DEF IsKey
  <2>13. Len(HSWay(s)) >= 2
    BY <1>1, <2>2, <2>9
  <2>14. n \in Nat /\ Len(s) <= n * WORDSIZE
    <3> DEFINE x == (q + 1) * WORDSIZE
    <3>1. x \in Nat /\ Len(s) - 1 < x
      BY <2>2, Times, WordSizeAssumption
    <3> HIDE DEF x
    <3>2. Len(s) <= x
      BY <1>1, <3>1
    <3> QED BY <2>2, <3>2 DEF x
  <2>15. \A i \in 1 .. n : HSWay(s)[i + 2] = Chunk(s, i)
    BY <2>2, <2>5, <2>9
  <2> QED BY <1>2, <1>5, <2>8, <2>9, <2>12, <2>13, <2>14, <2>15 DEF k, n
<1> QED BY <1>4, <1>5

\* In JudyHS no string's way goes on from another's: ways meet only where lengths are the same.
LEMMA HSCoded ==
  ASSUME NEW S \in SUBSET Strings
  PROVE  Coded({HSKey[s] : s \in S})
<1>1. \A s \in S : IsKey(HSKey[s])
  BY HSKeyIs
<1>2. ASSUME NEW s \in S, NEW t \in S, NEW n \in 0 .. Len(HSKey[t].way),
             HSKey[s].way = Path(HSKey[t].way, n)
      PROVE  s = t
  <2> DEFINE k == HSKey[s].way
             l == HSKey[t].way
             q == LastWord(Len(s))
  <2>1. /\ s \in Seq(Nat) /\ t \in Seq(Nat) /\ Len(s) \in Nat /\ Len(t) \in Nat
        /\ k \in Seq(Index) /\ l \in Seq(Index) /\ WORDSIZE \in Nat
    BY <1>1, StringsAssumption, WordSizeAssumption DEF IsKey
  <2>2. /\ Len(k) >= 2 /\ k[1] = Len(s)
        /\ ~ (Len(s) > WORDSIZE) => Len(k) = 2 /\ k[2] = s
        /\ Len(s) > WORDSIZE =>
              /\ q \in Nat /\ Len(s) <= q * WORDSIZE
              /\ Len(k) = 2 + q
              /\ \A i \in 1 .. q : k[i + 2] = Chunk(s, i)
    BY HSKeyIs
  <2>3. /\ Len(l) >= 2 /\ l[1] = Len(t)
        /\ ~ (Len(t) > WORDSIZE) => Len(l) = 2 /\ l[2] = t
        /\ Len(t) > WORDSIZE => \A i \in 1 .. LastWord(Len(t)) : l[i + 2] = Chunk(t, i)
    BY HSKeyIs
  <2>4. n \in 0 .. Len(l) /\ k = Path(l, n)
    BY <1>2
  <2> HIDE DEF k, l
  <2>5. Len(k) = n /\ \A i \in 1 .. n : k[i] = l[i]
    BY <2>1, <2>4, PathIs
  <2>6. 1 \in 1 .. n /\ 2 \in 1 .. n /\ n \in Nat
    BY <2>1, <2>2, <2>4, <2>5
  <2>7. Len(s) = Len(t)
    BY <2>2, <2>3, <2>5, <2>6
  <2>8. CASE ~ (Len(s) > WORDSIZE)
    BY <2>2, <2>3, <2>5, <2>6, <2>7, <2>8
  <2>9. CASE Len(s) > WORDSIZE
    <3>1. q \in Nat /\ Len(s) <= q * WORDSIZE /\ n = 2 + q /\ \A i \in 1 .. q : k[i + 2] = Chunk(s, i)
      BY <2>2, <2>5, <2>9
    <3>2. \A i \in 1 .. q : l[i + 2] = Chunk(t, i)
      BY <2>3, <2>7, <2>9
    <3> HIDE DEF q
    <3>3. ASSUME NEW i \in 1 .. q PROVE Chunk(s, i) = Chunk(t, i)
      <4>1. i + 2 \in 1 .. n
        BY <3>1
      <4> QED BY <2>5, <3>1, <3>2, <4>1
    <3> QED BY <2>1, <2>7, <3>1, <3>3, SameWords
  <2> QED BY <2>8, <2>9
<1> QED BY <1>1, <1>2 DEF Coded

\* The strings that meet in a bucket have one length: the leaf of the one is as long as
\* what is left of the other.
LEMMA HSMeet ==
  ASSUME NEW s \in Strings, NEW t \in Strings,
         NEW d \in 0 .. Len(HSKey[s].way), d # 0, d <= Len(HSKey[t].way),
         Path(HSKey[s].way, d) = Path(HSKey[t].way, d)
  PROVE  HSKey[s].size = HSKey[t].size
<1> DEFINE k == HSKey[s].way
           l == HSKey[t].way
<1>1. k \in Seq(Index) /\ l \in Seq(Index) /\ Len(k) \in Nat /\ Len(l) \in Nat
  <2>1. IsKey(HSKey[s]) /\ IsKey(HSKey[t])
    BY HSKeyIs
  <2> QED BY <2>1 DEF IsKey
<1>2. d \in 0 .. Len(k) /\ d \in 0 .. Len(l) /\ 1 \in 1 .. d /\ Path(k, d) = Path(l, d)
  BY <1>1
<1>3. k[1] = Len(s) /\ l[1] = Len(t)
  BY HSKeyIs
<1> HIDE DEF k, l
<1>4. Len(s) = Len(t)
  <2>1. Path(k, d)[1] = k[1]
    BY <1>1, <1>2, PathIs
  <2>2. Path(l, d)[1] = l[1]
    BY <1>1, <1>2, PathIs
  <2> QED BY <1>2, <1>3, <2>1, <2>2
<1>5. HSKey[s].size = HSKey[t].size
  <2>1. HSKey[s].size =
          [i \in (IF Len(s) > WORDSIZE THEN 2 .. LastWord(Len(s)) ELSE {}) |->
             Len(s) - (i - 2) * WORDSIZE]
    BY HSKeyIs
  <2>2. HSKey[t].size =
          [i \in (IF Len(t) > WORDSIZE THEN 2 .. LastWord(Len(t)) ELSE {}) |->
             Len(t) - (i - 2) * WORDSIZE]
    BY HSKeyIs
  <2> QED BY <1>4, <2>1, <2>2
<1> QED BY <1>5

-----------------------------------------------------------------------------
(* The calls, in terms of the strings of a pool.                           *)

\* The keys of the strings of a pool.
Keys(Key, p) == {Key[s] : s \in p}

\* Keys that tell the strings of a pool apart.
Spelled(Key, p) == Coded(Keys(Key, p)) /\ \A s, t \in p : Key[s] = Key[t] => s = t

\* One string has come in, all have stayed, one has gone; no other one has changed.
PutIn(a, b, Key, p, s) ==
  /\ Get(b, Key[s]) = Val(s)
  /\ \A t \in p : t # s => Get(b, Key[t]) = Get(a, Key[t])

Kept(a, b, Key, p) == \A t \in p : Get(b, Key[t]) = Get(a, Key[t])

TakenOut(a, b, Key, p, s) ==
  /\ Get(b, Key[s]) = Nil
  /\ \A t \in p : t # s => Get(b, Key[t]) = Get(a, Key[t])

\* The words held in leaves have changed by what the tree has changed.
Balanced(a, m, r) == r.m.heap - TreeWords(r.tree) = m.heap - TreeWords(a)

\* What an insert promises for the strings of a pool.
Inserted(a, Key, p, s, m, r) ==
  /\ r.ret \in {1, -1} /\ r.m \in Memory /\ TreeOK(r.tree, Keys(Key, p), p)
  /\ Balanced(a, m, r)
  /\ r.ret = 1 => PutIn(a, r.tree, Key, p, s) /\ DeadEnds(r.tree) \subseteq DeadEnds(a)
  /\ r.ret = -1 => Kept(a, r.tree, Key, p)

\* An insert, as its caller sees it.
LEMMA InsGets ==
  ASSUME NEW Key, NEW p, Spelled(Key, p), NEW a, TreeOK(a, Keys(Key, p), p), NEW s \in p,
         Get(a, Key[s]) \in {Nil, Val(s)}, NEW m \in Memory, NEW freed,
         Collides(a, Key[s]) => Splits(a, Key[s], m, freed),
         NEW r, r = Ins(a, Key[s], s, freed, m)
  PROVE  Inserted(a, Key, p, s, m, r)
<1> DEFINE K == Keys(Key, p)
           k == Key[s]
           g == Ins(a, k, s, freed, m)
<1>1. k \in K /\ Coded(K) /\ \A t \in p : Key[t] \in K /\ (t # s => Key[t] # k)
  BY DEF Keys, Spelled
<1>2. g = Ins(a, k, s, freed, m) /\ r = g
  OBVIOUS
<1>3. Collides(a, k) => Splits(a, k, m, freed)
  OBVIOUS
<1>4. TreeOK(a, K, p) /\ Get(a, k) \in {Nil, Val(s)}
  OBVIOUS
<1>5. \A t \in p : Key[t] \in K
  BY <1>1
<1> HIDE DEF K, k, g
<1>6. Keeps(a, k, s, m, g, K, p)
  BY <1>1, <1>2, <1>3, <1>4, InsKeeps
<1>7. g.ret \in {1, -1} /\ g.m \in Memory /\ TreeOK(g.tree, K, p) /\ Balanced(a, m, g)
  BY <1>6 DEF Keeps, Balanced
<1>8. ASSUME g.ret = 1 PROVE PutIn(a, g.tree, Key, p, s) /\ DeadEnds(g.tree) \subseteq DeadEnds(a)
  <2>1. /\ \A l \in K : \A w : l # k => (Holds(g.tree, l, w) <=> Holds(a, l, w))
        /\ Holds(g.tree, k, s) /\ DeadEnds(g.tree) \subseteq DeadEnds(a)
    BY <1>6, <1>8 DEF Keeps
  <2>2. Get(g.tree, k) = Val(s)
    BY <1>1, <1>7, <2>1, GetHolds
  <2>3. ASSUME NEW t \in p, t # s PROVE Get(g.tree, Key[t]) = Get(a, Key[t])
    <3>1. Key[t] \in K /\ Key[t] # k
      BY <1>1, <2>3
    <3>2. \A w : Holds(g.tree, Key[t], w) <=> Holds(a, Key[t], w)
      BY <2>1, <3>1
    <3> QED BY <1>1, <1>4, <1>7, <3>1, <3>2, GetSame
  <2> QED BY <2>1, <2>2, <2>3 DEF PutIn, k
<1>9. ASSUME g.ret = -1 PROVE Kept(a, g.tree, Key, p)
  <2> SUFFICES ASSUME NEW t \in p PROVE Get(g.tree, Key[t]) = Get(a, Key[t])
    BY DEF Kept
  <2>1. \A w : Holds(g.tree, Key[t], w) <=> Holds(a, Key[t], w)
    BY <1>5, <1>6, <1>9 DEF Keeps
  <2> QED BY <1>1, <1>4, <1>5, <1>7, <2>1, GetSame
<1>10. Inserted(a, Key, p, s, m, g)
  BY <1>7, <1>8, <1>9 DEF Inserted, K
<1> QED BY <1>2, <1>10

\* A removal, as its caller sees it.
LEMMA DelGets ==
  ASSUME NEW Key, NEW p, Spelled(Key, p), NEW a, TreeOK(a, Keys(Key, p), p), NEW s \in p,
         NEW m \in Memory, m.left > 0, NEW r, r = Del(a, Key[s], m)
  PROVE  /\ r.m \in Memory /\ r.m.left >= m.left - 1
         /\ Get(a, Key[s]) = Nil => r.ret = 0 /\ r.tree = a /\ r.m = m
         /\ Get(a, Key[s]) # Nil =>
              /\ r.ret = 1 /\ TreeOK(r.tree, Keys(Key, p), p) /\ Balanced(a, m, r)
              /\ TakenOut(a, r.tree, Key, p, s) /\ DeadEnds(r.tree) \subseteq DeadEnds(a)
<1> DEFINE K == Keys(Key, p)
           k == Key[s]
           g == Del(a, k, m)
<1>1. k \in K /\ Coded(K) /\ \A t \in p : Key[t] \in K /\ (t # s => Key[t] # k)
  BY DEF Keys, Spelled
<1>2. g = Del(a, k, m) /\ r = g
  OBVIOUS
<1>3. TreeOK(a, K, p)
  OBVIOUS
<1>4. m.left \in Nat /\ m.heap \in Int
  BY DEF Memory
<1> HIDE DEF K, k, g
<1>5. /\ Get(a, k) = Nil => g.ret = 0 /\ g.tree = a /\ g.m = m
      /\ Get(a, k) # Nil =>
           /\ g.ret = 1 /\ g.m \in Memory /\ g.m.left >= m.left - 1
           /\ g.m.heap = m.heap - OwnWords(a, k)
           /\ Lost(a, k, g.tree, K, p)
  BY <1>1, <1>2, <1>3, DelKeeps
<1>6. CASE Get(a, k) = Nil
  <2>1. m.left >= m.left - 1
    BY <1>4
  <2> QED BY <1>2, <1>5, <1>6, <2>1 DEF k
<1>7. CASE Get(a, k) # Nil
  <2>1. /\ TreeOK(g.tree, K, p) /\ DeadEnds(g.tree) \subseteq DeadEnds(a)
        /\ \A l \in K : \A w : Holds(g.tree, l, w) <=> Holds(a, l, w) /\ l # k
        /\ TreeWords(a) = TreeWords(g.tree) + OwnWords(a, k)
    BY <1>5, <1>7 DEF Lost
  <2>2. Get(g.tree, k) = Nil
    <3>1. SUFFICES ASSUME Get(g.tree, k) # Nil PROVE FALSE
      OBVIOUS
    <3>2. PICK v \in p : Get(g.tree, k) = Val(v)
      BY <1>1, <2>1, <3>1, GetHolds
    <3>3. Holds(g.tree, k, v)
      BY <1>1, <2>1, <3>2, GetHolds
    <3> QED BY <1>1, <2>1, <3>3
  <2>3. ASSUME NEW t \in p, t # s PROVE Get(g.tree, Key[t]) = Get(a, Key[t])
    <3>1. Key[t] \in K /\ Key[t] # k
      BY <1>1, <2>3
    <3>2. \A w : Holds(g.tree, Key[t], w) <=> Holds(a, Key[t], w)
      BY <2>1, <3>1
    <3> QED BY <1>1, <1>3, <2>1, <3>1, <3>2, GetSame
  <2>4. TakenOut(a, g.tree, Key, p, s)
    BY <2>2, <2>3 DEF TakenOut, k
  <2>5. Balanced(a, m, g)
    <3> DEFINE x == TreeWords(a)
               y == TreeWords(g.tree)
               w == OwnWords(a, k)
               h == g.m.heap
    <3>1. x \in Nat /\ y \in Nat
      BY <1>1, <1>3, <2>1, WordsAtType
    <3>2. w \in Nat
      <4>1. CASE Slot(a, k).t = "leaf"
        <5>1. Depth(a, k) \in DOMAIN k.size
          BY <1>1, <1>3, <1>7, <4>1, OwnSlot
        <5>2. IsKey(k)
          BY <1>1 DEF Coded
        <5> QED BY <4>1, <5>1, <5>2, LeafWordsType DEF OwnWords, IsKey
      <4>2. CASE Slot(a, k).t # "leaf"
        BY <4>2 DEF OwnWords
      <4> QED BY <4>1, <4>2
    <3>3. h = m.heap - w /\ x = y + w
      BY <1>5, <1>7, <2>1
    <3> HIDE DEF x, y, w, h
    <3>4. h - y = m.heap - x
      BY <1>4, <3>1, <3>2, <3>3
    <3> QED BY <3>4 DEF Balanced, x, y, h
  <2> QED BY <1>2, <1>5, <1>7, <2>1, <2>4, <2>5 DEF K, k
<1> QED BY <1>6, <1>7 DEF k

\* The largest budget is a number of allocations.
LEMMA PlentyIs == Plenty \in Nat
<1>1. \E x \in Budgets : \A y \in Budgets : x >= y
  BY BudgetsAssumption, LargestNumber
<1>2. Max(Budgets) \in Budgets
  BY <1>1, Zenon DEF Max
<1> QED BY <1>2, BudgetsAssumption DEF Plenty

\* JudyHS tells strings apart.
LEMMA HSSpelled == \A p \in SUBSET Strings : Spelled(HSKey, p)
<1> SUFFICES ASSUME NEW p \in SUBSET Strings PROVE Spelled(HSKey, p)
  OBVIOUS
<1>1. Coded({HSKey[s] : s \in p})
  BY HSCoded
<1>2. ASSUME NEW s \in p, NEW t \in p, HSKey[s] = HSKey[t] PROVE s = t
  <2>1. HSKey[s].str = s /\ HSKey[t].str = t
    BY HSKeyIs
  <2> QED BY <1>2, <2>1
<1> QED BY <1>1, <1>2 DEF Spelled, Keys

\* JudySL tells strings apart.
LEMMA SLSpelled == \A p \in SUBSET Strings : Spelled(SLKey, p)
<1> SUFFICES ASSUME NEW p \in SUBSET Strings PROVE Spelled(SLKey, p)
  OBVIOUS
<1>1. Coded({SLKey[s] : s \in p})
  BY SLCoded
<1>2. ASSUME NEW s \in p, NEW t \in p, SLKey[s] = SLKey[t] PROVE s = t
  <2>1. SLKey[s].str = s /\ SLKey[t].str = t
    BY SLKeyIs
  <2> QED BY <1>2, <2>1
<1> QED BY <1>1, <1>2 DEF Spelled, Keys

\* The leaf in the way of a string is where the way of its own string ends.
LEMMA CollisionIs ==
  ASSUME NEW K, Coded(K), NEW V, NEW a, TreeOK(a, K, V), NEW k \in K, Collides(a, k)
  PROVE  \E l \in K : /\ Slot(a, k).key = l /\ Depth(a, k) \in DOMAIN l.size
                      /\ Depth(a, k) \in 0 .. Len(k.way) /\ Depth(a, k) \in 0 .. Len(l.way)
                      /\ Path(k.way, Depth(a, k)) = Path(l.way, Depth(a, k))
<1> DEFINE d == Depth(a, k)
           p == Path(k.way, d)
<1>1. d \in 0 .. Len(k.way) /\ p \in DOMAIN a /\ Slot(a, k) = a[p]
  BY SlotCases
<1>2. PICK l \in K, v \in V : Slot(a, k) = Leaf(l, v)
  BY SlotCases
<1>3. /\ IsKey(k) /\ IsKey(l) /\ k.way \in Seq(Index) /\ l.way \in Seq(Index)
      /\ Len(k.way) \in Nat /\ Len(l.way) \in Nat /\ <<>> \in DOMAIN a
  BY DEF Coded, IsKey, TreeOK
<1>4. HoldsAt(a, p, l, v) /\ a[p] = Leaf(l, v)
  BY <1>1, <1>2 DEF HoldsAt
<1>5. p = Path(l.way, Depth(a, l)) /\ Depth(a, l) \in DOMAIN l.size
  BY <1>1, <1>4, Holder
<1>6. Depth(a, l) \in 0 .. Len(l.way)
  BY <1>3, DepthType
<1>7. d = Depth(a, l)
  BY <1>1, <1>3, <1>5, <1>6, PathsAgree
<1>8. Slot(a, k).key = l
  BY <1>2, SlotShapes
<1> QED BY <1>1, <1>5, <1>6, <1>7, <1>8

\* JudyHSIns(): in a bucket that two strings share both have the same length, so that the
\* length of the new one is the size of the leaf in the way.
LEMMA HSInsGets ==
  ASSUME NEW p \in SUBSET Strings, NEW a, TreeOK(a, Keys(HSKey, p), p), NEW s \in p,
         HSGet(a, s) \in {Nil, Val(s)}, NEW m \in Memory,
         Carries(a, HSKey[s], m),
         NEW r, r = HSIns(a, s, s, m)
  PROVE  Inserted(a, HSKey, p, s, m, r)
<1> DEFINE k     == HSKey[s]
           freed == IF Collides(a, k) THEN HSFreed(a, k) ELSE 0
           g     == Ins(a, k, s, freed, m)
<1>1. Spelled(HSKey, p) /\ k \in Keys(HSKey, p) /\ Coded(Keys(HSKey, p))
  BY HSSpelled DEF Keys, Spelled
<1>2. g = Ins(a, k, s, freed, m) /\ r = g
  BY DEF HSIns
<1>3. Get(a, k) \in {Nil, Val(s)}
  BY DEF HSGet
<1>5. ASSUME Collides(a, k) PROVE Splits(a, k, m, freed)
  <2>1. PICK l \in Keys(HSKey, p) :
          /\ Slot(a, k).key = l /\ Depth(a, k) \in DOMAIN l.size
          /\ Depth(a, k) \in 0 .. Len(k.way) /\ Depth(a, k) \in 0 .. Len(l.way)
          /\ Path(k.way, Depth(a, k)) = Path(l.way, Depth(a, k))
    BY <1>1, <1>5, CollisionIs
  <2>2. PICK t \in p : l = HSKey[t]
    BY <2>1 DEF Keys
  <2>3. Depth(a, k) # 0 /\ Depth(a, k) <= Len(HSKey[t].way)
    <3>1. \A j \in DOMAIN HSKey[t].size : j # 0
      <4>1. HSKey[t].size = [i \in (IF Len(t) > WORDSIZE THEN 2 .. LastWord(Len(t)) ELSE {}) |->
                               Len(t) - (i - 2) * WORDSIZE]
        BY HSKeyIs
      <4> QED BY <4>1
    <3> QED BY <2>1, <2>2, <3>1
  <2>4. k.size = l.size
    BY <2>1, <2>2, <2>3, HSMeet
  <2>5. freed = Slot(a, k).key.size[Depth(a, k)]
    BY <1>5, <2>1, <2>4 DEF HSFreed
  <2>6. Carried(a, k, m).ret = 1
    BY <1>5 DEF Carries
  <2> QED BY <2>5, <2>6 DEF Splits
<1>6. Inserted(a, HSKey, p, s, m, g)
  <2>1. Spelled(HSKey, p) /\ TreeOK(a, Keys(HSKey, p), p)
    BY <1>1
  <2>2. Get(a, HSKey[s]) \in {Nil, Val(s)}
    BY <1>3
  <2>3. g = Ins(a, HSKey[s], s, freed, m)
    OBVIOUS
  <2>4. Collides(a, HSKey[s]) => Splits(a, HSKey[s], m, freed)
    BY <1>5
  <2> HIDE DEF g, freed, k
  <2> QED BY <2>1, <2>2, <2>3, <2>4, InsGets
<1> QED BY <1>2, <1>6

\* JudySLIns(): the leaf in the way tells its own size.
LEMMA SLInsGets ==
  ASSUME NEW p \in SUBSET Strings, NEW a, TreeOK(a, Keys(SLKey, p), p), NEW s \in p,
         SLGet(a, s) \in {Nil, Val(s)}, NEW m \in Memory,
         Carries(a, SLKey[s], m),
         NEW r, r = SLIns(a, s, s, m)
  PROVE  Inserted(a, SLKey, p, s, m, r)
<1> DEFINE k     == SLKey[s]
           freed == IF Collides(a, k) THEN SLFreed(a, k) ELSE 0
           g     == Ins(a, k, s, freed, m)
<1>1. Spelled(SLKey, p) /\ k \in Keys(SLKey, p) /\ Coded(Keys(SLKey, p))
  BY SLSpelled DEF Keys, Spelled
<1>2. g = Ins(a, k, s, freed, m) /\ r = g
  BY DEF SLIns
<1>3. Get(a, k) \in {Nil, Val(s)}
  BY DEF SLGet
<1>5. ASSUME Collides(a, k) PROVE Splits(a, k, m, freed)
  <2>5. freed = Slot(a, k).key.size[Depth(a, k)]
    BY <1>5 DEF SLFreed
  <2>6. Carried(a, k, m).ret = 1
    BY <1>5 DEF Carries
  <2> QED BY <2>5, <2>6 DEF Splits
<1>6. Inserted(a, SLKey, p, s, m, g)
  <2>1. Spelled(SLKey, p) /\ TreeOK(a, Keys(SLKey, p), p)
    BY <1>1
  <2>2. Get(a, SLKey[s]) \in {Nil, Val(s)}
    BY <1>3
  <2>3. g = Ins(a, SLKey[s], s, freed, m)
    OBVIOUS
  <2>4. Collides(a, SLKey[s]) => Splits(a, SLKey[s], m, freed)
    BY <1>5
  <2> HIDE DEF g, freed, k
  <2> QED BY <2>1, <2>2, <2>3, <2>4, InsGets
<1> QED BY <1>2, <1>6

-----------------------------------------------------------------------------
(* The invariant.                                                          *)

\* The strings that the value store holds.
Found(p, a) == {s \in p : HSGet(a, s) # Nil}

\* The map of some strings to their values: each is its own value.
Each(S) == [s \in S |-> s]

\* The two arrays are trees of strings of the pool.
Trees(p, a, i) == TreeOK(a, Keys(HSKey, p), p) /\ TreeOK(i, Keys(SLKey, p), p)

\* They hold the same strings, with the same values.
Twins(p, a, i) == \A s \in p : HSGet(a, s) \in {Nil, Val(s)} /\ SLGet(i, s) = HSGet(a, s)

\* The words of both.
Words(a, i) == TreeWords(a) + TreeWords(i)

NoEnds(a, i) == DeadEnds(a) = {} /\ DeadEnds(i) = {}

\* The inductive invariant: two well-formed trees, the same map from strings to values in
\* both of them and in what reads find, its size in the counter, every word of a leaf
\* accounted for, and no dead end unless an allocation has failed.
IInv ==
  /\ pool \in Pools /\ Trees(pool, array, keyIndex) /\ Twins(pool, array, keyIndex)
  /\ seen = [stored |-> Each(Found(pool, array)), indexed |-> Each(Found(pool, array))]
  /\ counter = Cardinality(Found(pool, array))
  /\ heap = Words(array, keyIndex)
  /\ starved \in BOOLEAN /\ (~ starved => NoEnds(array, keyIndex))

\* Two arrays that a call may leave.
Sound(p, a, i, words, failed) ==
  /\ Trees(p, a, i) /\ Twins(p, a, i) /\ words = Words(a, i)
  /\ failed \in BOOLEAN /\ (~ failed => NoEnds(a, i))

\* The strings of the calls have keys, in both libraries.
LEMMA PoolIs ==
  ASSUME NEW p \in Pools
  PROVE  /\ p \in SUBSET Strings /\ IsFiniteSet(p)
         /\ Coded(Keys(HSKey, p)) /\ Coded(Keys(SLKey, p))
         /\ Spelled(HSKey, p) /\ Spelled(SLKey, p)
<1>1. p \in SUBSET Strings /\ IsFiniteSet(p)
  BY PoolsAssumption
<1>2. Spelled(HSKey, p) /\ Spelled(SLKey, p)
  BY <1>1, HSSpelled, SLSpelled
<1> QED BY <1>1, <1>2 DEF Spelled

\* The words of the arrays are numbers.
LEMMA WordsAre ==
  ASSUME NEW p \in Pools, NEW a, NEW i, Trees(p, a, i)
  PROVE  TreeWords(a) \in Nat /\ TreeWords(i) \in Nat
<1>1. Coded(Keys(HSKey, p)) /\ Coded(Keys(SLKey, p))
  BY PoolIs
<1>2. TreeOK(a, Keys(HSKey, p), p) /\ TreeOK(i, Keys(SLKey, p), p)
  BY DEF Trees
<1>3. TreeWords(a) \in Nat
  BY <1>1, <1>2, WordsAtType
<1>4. TreeWords(i) \in Nat
  BY <1>1, <1>2, WordsAtType
<1> QED BY <1>3, <1>4

\* What the reads of a call find, both arrays tell.
LEMMA SeenIs ==
  ASSUME NEW a, NEW i, Twins(pool, a, i)
  PROVE  Stored(a) = Each(Found(pool, a)) /\ Indexed(i) = Each(Found(pool, a))
<1>1. ASSUME NEW s \in pool, HSGet(a, s) # Nil
      PROVE  HSGet(a, s) = Val(s) /\ SLGet(i, s) = Val(s) /\ Val(s).val = s
  BY <1>1, SlotShapes DEF Twins, Val
<1>2. {t \in pool : SLGet(i, t) # Nil} = Found(pool, a)
  BY DEF Twins, Found
<1>3. \A s \in Found(pool, a) : HSGet(a, s).val = s /\ SLGet(i, s).val = s
  BY <1>1 DEF Found
<1>4. Stored(a) = [s \in Found(pool, a) |-> HSGet(a, s).val]
  BY DEF Stored, Found
<1>5. Indexed(i) = [s \in Found(pool, a) |-> SLGet(i, s).val]
  BY <1>2 DEF Indexed
<1> QED BY <1>3, <1>4, <1>5 DEF Each

\* Two arrays that are sound when a call returns keep the invariant.
LEMMA LeavesKeeps ==
  ASSUME IInv, NEW a, NEW i, NEW m, NEW failed, Leaves(a, i, m, failed),
         Sound(pool, a, i, m.heap, starved'),
         counter' = Cardinality(Found(pool, a))
  PROVE  IInv' /\ array' = a /\ keyIndex' = i /\ pool' = pool
<1>1. /\ array' = a /\ keyIndex' = i /\ heap' = m.heap /\ pool' = pool
      /\ seen' = [stored  |-> IF a = array THEN seen.stored ELSE Stored(a),
                  indexed |-> IF i = keyIndex THEN seen.indexed ELSE Indexed(i)]
  BY DEF Leaves
<1>2. Trees(pool, a, i) /\ Twins(pool, a, i) /\ m.heap = Words(a, i)
      /\ starved' \in BOOLEAN /\ (~ starved' => NoEnds(a, i))
  BY DEF Sound
<1>3. Stored(a) = Each(Found(pool, a)) /\ Indexed(i) = Each(Found(pool, a))
  BY <1>2, SeenIs
<1>4. Twins(pool, array, keyIndex) /\ seen.stored = Each(Found(pool, array))
      /\ seen.indexed = Each(Found(pool, array)) /\ pool \in Pools
  BY DEF IInv
<1>5. i = keyIndex => Found(pool, a) = Found(pool, array)
  BY <1>2, <1>4 DEF Found, Twins
<1>6. seen'.stored = Each(Found(pool, a))
  BY <1>1, <1>3, <1>4
<1>7. seen'.indexed = Each(Found(pool, a))
  BY <1>1, <1>3, <1>4, <1>5
<1>10. seen' = [stored |-> Each(Found(pool, a)), indexed |-> Each(Found(pool, a))]
  BY <1>1, <1>6, <1>7
<1>8. Trees(pool', array', keyIndex') /\ Twins(pool', array', keyIndex')
      /\ Found(pool', array') = Found(pool, a)
  BY <1>1, <1>2
<1>9. heap' = Words(array', keyIndex') /\ (~ starved' => NoEnds(array', keyIndex'))
  BY <1>1, <1>2
<1> HIDE DEF Leaves
<1> QED BY <1>1, <1>2, <1>4, <1>8, <1>9, <1>10 DEF IInv

\* The step of the abstract map, in terms of the strings that are there.
Moves(S, T) ==
  \/ T = S
  \/ \E s \in T : s \notin S /\ T = S \union {s}
  \/ \E s \in S : T = S \ {s}
  \/ T = {}

\* What a call does.
Step ==
  /\ IInv' /\ pool' = pool
  /\ Moves(Found(pool, array), Found(pool', array'))
  /\ answer' = "not set" => Found(pool', array') = Found(pool, array)

\* An object starts with two null pointers.
LEMMA InitKeeps == Init => IInv
<1> SUFFICES ASSUME Init PROVE IInv
  OBVIOUS
<1>1. /\ pool \in Pools /\ array = NoTree /\ keyIndex = NoTree /\ counter = 0
      /\ heap = 0 /\ starved = FALSE /\ seen = [stored |-> <<>>, indexed |-> <<>>]
  BY DEF Init
<1>2. Coded(Keys(HSKey, pool)) /\ Coded(Keys(SLKey, pool))
  BY <1>1, PoolIs
<1>3. Trees(pool, array, keyIndex)
  BY <1>1, <1>2, NoTreeIs DEF Trees
<1>4. TreeWords(NoTree) = 0 /\ DeadEnds(NoTree) = {}
  BY <1>2, NoTreeIs
<1>5. ASSUME NEW s \in pool PROVE HSGet(NoTree, s) = Nil /\ SLGet(NoTree, s) = Nil
  <2>1. Get(NoTree, HSKey[s]) = Nil
    <3>1. HSKey[s] \in Keys(HSKey, pool)
      BY DEF Keys
    <3> QED BY <1>2, <3>1, NoTreeIs
  <2>2. Get(NoTree, SLKey[s]) = Nil
    <3>1. SLKey[s] \in Keys(SLKey, pool)
      BY DEF Keys
    <3> QED BY <1>2, <3>1, NoTreeIs
  <2> QED BY <2>1, <2>2 DEF HSGet, SLGet
<1>6. Twins(pool, array, keyIndex) /\ Found(pool, array) = {}
  BY <1>1, <1>5 DEF Twins, Found
<1>7. Each({}) = <<>> /\ Cardinality({}) = 0
  BY FS_EmptySet DEF Each
<1>8. heap = Words(array, keyIndex) /\ NoEnds(array, keyIndex)
  BY <1>1, <1>4 DEF Words, NoEnds
<1>9. seen = [stored |-> <<>>, indexed |-> <<>>] /\ starved \in BOOLEAN
  BY <1>1
<1> QED BY <1>1, <1>3, <1>6, <1>7, <1>8, <1>9 DEF IInv

\* Where no call has failed since both arrays were empty, no dead end is left.
LEMMA EndsOf ==
  ASSUME IInv, NEW a, NEW i, NEW m, NEW failed \in BOOLEAN, Leaves(a, i, m, failed),
         ~ failed => DeadEnds(a) \subseteq DeadEnds(array) /\ DeadEnds(i) \subseteq DeadEnds(keyIndex)
  PROVE  starved' \in BOOLEAN /\ (~ starved' => NoEnds(a, i))
<1>1. starved' = ((starved \/ failed) /\ (a # NoTree \/ i # NoTree)) /\ starved \in BOOLEAN
  BY DEF Leaves, IInv
<1>2. DeadEnds(NoTree) = {}
  <2>1. pool \in Pools
    BY DEF IInv
  <2> QED BY <2>1, PoolIs, NoTreeIs
<1>3. starved' \in BOOLEAN
  BY <1>1
<1>4. ASSUME ~ starved' PROVE NoEnds(a, i)
  <2>1. CASE a = NoTree /\ i = NoTree
    BY <1>2, <2>1 DEF NoEnds
  <2>2. CASE ~ (a = NoTree /\ i = NoTree)
    <3>1. ~ starved /\ ~ failed
      BY <1>1, <1>4, <2>2
    <3>2. DeadEnds(array) = {} /\ DeadEnds(keyIndex) = {}
      BY <3>1 DEF IInv, NoEnds
    <3> QED BY <3>1, <3>2 DEF NoEnds
  <2> QED BY <2>1, <2>2
<1> QED BY <1>3, <1>4

\* The two arrays that a call leaves keep what the invariant says of them.
LEMMA LeavesSound ==
  ASSUME IInv, NEW a, NEW i, NEW m, NEW failed \in BOOLEAN, Leaves(a, i, m, failed),
         ~ failed => DeadEnds(a) \subseteq DeadEnds(array) /\ DeadEnds(i) \subseteq DeadEnds(keyIndex),
         Trees(pool, a, i), Twins(pool, a, i), m.heap = Words(a, i),
         counter' = Cardinality(Found(pool, a)),
         Moves(Found(pool, array), Found(pool, a)),
         answer' = "not set" => Found(pool, a) = Found(pool, array)
  PROVE  Step
<1>1. starved' \in BOOLEAN /\ (~ starved' => NoEnds(a, i))
  BY EndsOf
<1>2. Sound(pool, a, i, m.heap, starved')
  BY <1>1 DEF Sound
<1>3. IInv' /\ array' = a /\ keyIndex' = i /\ pool' = pool
  BY <1>2, LeavesKeeps
<1>4. Found(pool', array') = Found(pool, a)
  BY <1>3
<1> QED BY <1>3, <1>4 DEF Step

\* What the invariant says of the arrays before a call.
LEMMA StateIs ==
  ASSUME IInv
  PROVE  /\ pool \in Pools /\ pool \in SUBSET Strings /\ IsFiniteSet(pool)
         /\ Trees(pool, array, keyIndex) /\ Twins(pool, array, keyIndex)
         /\ TreeWords(array) \in Nat /\ TreeWords(keyIndex) \in Nat /\ heap \in Nat
         /\ heap = TreeWords(array) + TreeWords(keyIndex)
         /\ Found(pool, array) \subseteq pool /\ IsFiniteSet(Found(pool, array))
         /\ counter = Cardinality(Found(pool, array)) /\ counter \in Nat
<1>1. pool \in Pools /\ Trees(pool, array, keyIndex) /\ Twins(pool, array, keyIndex)
      /\ counter = Cardinality(Found(pool, array)) /\ heap = Words(array, keyIndex)
  BY DEF IInv
<1>2. pool \in SUBSET Strings /\ IsFiniteSet(pool)
  BY <1>1, PoolIs
<1>3. TreeWords(array) \in Nat /\ TreeWords(keyIndex) \in Nat
  BY <1>1, WordsAre
<1>4. Found(pool, array) \subseteq pool /\ IsFiniteSet(Found(pool, array))
  <2>1. Found(pool, array) \subseteq pool
    BY DEF Found
  <2> QED BY <1>2, <2>1, FS_Subset
<1>5. counter \in Nat
  BY <1>1, <1>4, FS_CardinalityType
<1>6. heap = TreeWords(array) + TreeWords(keyIndex)
  BY <1>1 DEF Words
<1>7. heap \in Nat
  BY <1>3, <1>6
<1> QED BY <1>1, <1>2, <1>3, <1>4, <1>5, <1>6, <1>7

\* free() leaves nothing.
LEMMA FreeKeeps ==
  ASSUME IInv, Free
  PROVE  Step
<1> DEFINE w == HSFreeArray(array) + SLFreeArray(keyIndex)
           m == Freed(Mem(0), w)
<1>1. Leaves(NoTree, NoTree, m, FALSE) /\ counter' = 0 /\ answer' = "freed"
  BY DEF Free
<1>2. pool \in Pools /\ Coded(Keys(HSKey, pool)) /\ Coded(Keys(SLKey, pool))
  BY StateIs, PoolIs
<1>3. TreeWords(NoTree) = 0 /\ DeadEnds(NoTree) = {}
  BY <1>2, NoTreeIs
<1>4. Trees(pool, NoTree, NoTree)
  BY <1>2, NoTreeIs DEF Trees
<1>5. ASSUME NEW s \in pool PROVE HSGet(NoTree, s) = Nil /\ SLGet(NoTree, s) = Nil
  <2>1. Get(NoTree, HSKey[s]) = Nil
    <3>1. HSKey[s] \in Keys(HSKey, pool)
      BY DEF Keys
    <3> QED BY <1>2, <3>1, NoTreeIs
  <2>2. Get(NoTree, SLKey[s]) = Nil
    <3>1. SLKey[s] \in Keys(SLKey, pool)
      BY DEF Keys
    <3> QED BY <1>2, <3>1, NoTreeIs
  <2> QED BY <2>1, <2>2 DEF HSGet, SLGet
<1>6. Twins(pool, NoTree, NoTree) /\ Found(pool, NoTree) = {}
  BY <1>5 DEF Twins, Found
<1>7. m.heap = Words(NoTree, NoTree)
  <2>1. m.heap = heap - w
    BY DEF Freed, Mem
  <2>2. w = heap /\ heap \in Nat
    BY StateIs DEF HSFreeArray, SLFreeArray
  <2> HIDE DEF w, m
  <2> QED BY <1>3, <2>1, <2>2 DEF Words
<1>8. counter' = Cardinality(Found(pool, NoTree))
  BY <1>1, <1>6, FS_EmptySet
<1>9. Moves(Found(pool, array), Found(pool, NoTree))
  BY <1>6 DEF Moves
<1>10. DeadEnds(NoTree) \subseteq DeadEnds(array) /\ DeadEnds(NoTree) \subseteq DeadEnds(keyIndex)
  BY <1>3
<1>11. answer' # "not set"
  BY <1>1
<1> HIDE DEF m
<1> QED BY <1>1, <1>4, <1>6, <1>7, <1>8, <1>9, <1>10, <1>11, LeavesSound

\* The words of two trees, of which one changes with what it costs.
LEMMA SumOf ==
  ASSUME NEW x \in Nat, NEW y \in Nat, NEW u \in Nat, NEW h \in Int, NEW g \in Int,
         h - u = g - x, g = x + y
  PROVE  h = u + y
OBVIOUS

\* offsetUnset()
LEMMA UnsetKeeps ==
  ASSUME IInv, ~ FailAnywhere, NEW s \in pool, NEW left \in Budgets, Unset(s, left)
  PROVE  Step
<1> DEFINE n == Mem(left)
           h == HSDel(array, s, n)
           i == SLDel(keyIndex, s, h.m)
<1>1. left = Plenty /\ answer' = "unset"
  BY DEF Unset
<1>2. /\ pool \in Pools /\ pool \in SUBSET Strings /\ IsFiniteSet(pool)
      /\ Trees(pool, array, keyIndex) /\ Twins(pool, array, keyIndex)
      /\ TreeWords(array) \in Nat /\ TreeWords(keyIndex) \in Nat /\ heap \in Nat
      /\ heap = TreeWords(array) + TreeWords(keyIndex)
      /\ Found(pool, array) \subseteq pool /\ IsFiniteSet(Found(pool, array))
      /\ counter = Cardinality(Found(pool, array)) /\ counter \in Nat
  BY StateIs
<1>3. Plenty \in Nat /\ Plenty > 1
  BY PlentyIs, PlentyAssumption
<1>4. n \in Memory /\ n.left = Plenty /\ n.heap = heap
  BY <1>1, <1>2, <1>3 DEF Mem, Memory
<1>5. h = Del(array, HSKey[s], n)
  BY DEF HSDel
<1>6. TreeOK(array, Keys(HSKey, pool), pool) /\ TreeOK(keyIndex, Keys(SLKey, pool), pool)
      /\ Spelled(HSKey, pool) /\ Spelled(SLKey, pool) /\ n.left > 0
  BY <1>2, <1>3, <1>4, PoolIs DEF Trees
<1>7. IF h.ret = 1
        THEN /\ Leaves(h.tree, i.tree, i.m, i.ret = -1)
             /\ counter' = IF i.ret = 1 THEN counter - 1 ELSE counter
        ELSE /\ Leaves(h.tree, keyIndex, h.m, h.ret = -1)
             /\ UNCHANGED counter
  BY DEF Unset
<1>8. i = Del(keyIndex, SLKey[s], h.m)
  BY DEF SLDel
<1> HIDE DEF n, h, i
<1>9. /\ h.m \in Memory /\ h.m.left >= n.left - 1
      /\ Get(array, HSKey[s]) = Nil => h.ret = 0 /\ h.tree = array /\ h.m = n
      /\ Get(array, HSKey[s]) # Nil =>
           /\ h.ret = 1 /\ TreeOK(h.tree, Keys(HSKey, pool), pool) /\ Balanced(array, n, h)
           /\ TakenOut(array, h.tree, HSKey, pool, s) /\ DeadEnds(h.tree) \subseteq DeadEnds(array)
  BY <1>4, <1>5, <1>6, DelGets
<1>10. CASE HSGet(array, s) = Nil
  <2>1. h.ret = 0 /\ h.tree = array /\ h.m = n
    BY <1>9, <1>10 DEF HSGet
  <2>2. Leaves(array, keyIndex, n, FALSE) /\ counter' = counter
    <3>1. (h.ret = -1) = FALSE /\ h.ret # 1
      BY <2>1
    <3>2. Leaves(h.tree, keyIndex, h.m, h.ret = -1) /\ counter' = counter
      BY <1>7, <3>1
    <3> QED BY <2>1, <3>1, <3>2
  <2>3. n.heap = Words(array, keyIndex) /\ Moves(Found(pool, array), Found(pool, array))
    BY <1>2, <1>4 DEF Words, Moves
  <2>4. answer' # "not set" /\ counter' = Cardinality(Found(pool, array))
    BY <1>1, <1>2, <2>2
  <2> QED BY <1>2, <2>2, <2>3, <2>4, LeavesSound
<1>11. CASE HSGet(array, s) # Nil
  <2>1. /\ h.ret = 1 /\ TreeOK(h.tree, Keys(HSKey, pool), pool) /\ Balanced(array, n, h)
        /\ TakenOut(array, h.tree, HSKey, pool, s) /\ DeadEnds(h.tree) \subseteq DeadEnds(array)
    BY <1>9, <1>11 DEF HSGet
  <2>2. Get(keyIndex, SLKey[s]) # Nil
    BY <1>2, <1>11 DEF Twins, SLGet
  <2>3. h.m \in Memory /\ h.m.left > 0
    <3>1. h.m.left \in Nat /\ n.left \in Nat
      BY <1>4, <1>9 DEF Memory
    <3> QED BY <1>3, <1>4, <1>9, <3>1
  <2>4. /\ i.m \in Memory
        /\ i.ret = 1 /\ TreeOK(i.tree, Keys(SLKey, pool), pool) /\ Balanced(keyIndex, h.m, i)
        /\ TakenOut(keyIndex, i.tree, SLKey, pool, s) /\ DeadEnds(i.tree) \subseteq DeadEnds(keyIndex)
    BY <1>6, <1>8, <2>2, <2>3, DelGets
  <2>5. Leaves(h.tree, i.tree, i.m, FALSE) /\ counter' = counter - 1
    <3>1. (i.ret = -1) = FALSE
      BY <2>4
    <3> QED BY <1>7, <2>1, <2>4, <3>1
  <2>6. Trees(pool, h.tree, i.tree)
    BY <2>1, <2>4 DEF Trees
  <2>7. HSGet(h.tree, s) = Nil /\ SLGet(i.tree, s) = Nil
        /\ \A t \in pool : t # s => HSGet(h.tree, t) = HSGet(array, t) /\ SLGet(i.tree, t) = SLGet(keyIndex, t)
    BY <2>1, <2>4 DEF HSGet, SLGet, TakenOut
  <2>8. Twins(pool, h.tree, i.tree)
    BY <1>2, <2>7 DEF Twins
  <2>9. Found(pool, h.tree) = Found(pool, array) \ {s} /\ s \in Found(pool, array)
    BY <1>11, <2>7 DEF Found
  <2>10. i.m.heap = Words(h.tree, i.tree)
    <3> DEFINE x == TreeWords(array)
               y == TreeWords(keyIndex)
               u == TreeWords(h.tree)
               v == TreeWords(i.tree)
               c == h.m.heap
               d == i.m.heap
    <3>1. u \in Nat /\ v \in Nat /\ x \in Nat /\ y \in Nat
      BY <1>2, <2>6, WordsAre
    <3>2. c - u = heap - x /\ d - v = c - y /\ heap = x + y
      BY <1>2, <1>4, <2>1, <2>4 DEF Balanced
    <3>3. c \in Int /\ d \in Int
      BY <2>3, <2>4 DEF Memory
    <3> HIDE DEF x, y, u, v, c, d
    <3>4. d = u + v
      BY <1>2, <3>1, <3>2, <3>3
    <3> QED BY <3>4 DEF Words, u, v, d
  <2>11. counter' = Cardinality(Found(pool, h.tree))
    <3> DEFINE F == Found(pool, array)
    <3>1. IsFiniteSet(F) /\ s \in F
      BY <1>2, <2>9
    <3>2. Cardinality(F \ {s}) = Cardinality(F) - 1
      <4> HIDE DEF F
      <4> QED BY <3>1, FS_RemoveElement
    <3> QED BY <1>2, <2>5, <2>9, <3>2
  <2>12. Moves(Found(pool, array), Found(pool, h.tree)) /\ answer' # "not set"
    BY <1>1, <2>9 DEF Moves
  <2> QED BY <2>1, <2>4, <2>5, <2>6, <2>8, <2>10, <2>11, <2>12, LeavesSound
<1> QED BY <1>10, <1>11

\* The value store has a string that the key_index finds no memory for: it goes again.
LEMMA UndoneDoes ==
  ASSUME NEW p \in Pools, NEW s \in p, ~ FailAnywhere, NEW a, TreeOK(a, Keys(HSKey, p), p),
         HSGet(a, s) = Val(s), NEW m \in Memory, NEW u, u = Undone(a, s, m)
  PROVE  /\ TreeOK(u.tree, Keys(HSKey, p), p) /\ TakenOut(a, u.tree, HSKey, p, s)
         /\ Balanced(a, m, u) /\ u.m \in Memory
<1> DEFINE n == [m EXCEPT !.left = Plenty]
<1>1. n.heap = m.heap /\ n.left = Plenty /\ n \in Memory
  BY PlentyIs DEF Memory
<1>2. n.left > 0
  BY <1>1, PlentyIs, PlentyAssumption
<1>3. u = Del(a, HSKey[s], n)
  BY DEF Undone, HSDel
<1>4. Get(a, HSKey[s]) # Nil
  BY SlotShapes DEF HSGet
<1>5. Spelled(HSKey, p)
  BY PoolIs
<1> HIDE DEF n
<1>6. TreeOK(u.tree, Keys(HSKey, p), p) /\ Balanced(a, n, u)
      /\ TakenOut(a, u.tree, HSKey, p, s) /\ u.m \in Memory
  BY <1>1, <1>2, <1>3, <1>4, <1>5, DelGets
<1> QED BY <1>1, <1>6 DEF Balanced

\* judy_string_slot_acquire()
LEMMA SetKeeps ==
  ASSUME IInv, ~ FailAnywhere, NEW s \in pool, NEW left \in Budgets, Set(s, left)
  PROVE  Step
<1> DEFINE n      == Mem(left)
           h      == HSIns(array, s, s, n)
           i      == SLIns(keyIndex, s, s, h.m)
           undone == Undone(h.tree, s, i.m)
           isNew  == SLGet(keyIndex, s) = Nil
<1>1. /\ pool \in Pools /\ pool \in SUBSET Strings /\ IsFiniteSet(pool)
      /\ Trees(pool, array, keyIndex) /\ Twins(pool, array, keyIndex)
      /\ TreeWords(array) \in Nat /\ TreeWords(keyIndex) \in Nat /\ heap \in Nat
      /\ heap = TreeWords(array) + TreeWords(keyIndex)
      /\ Found(pool, array) \subseteq pool /\ IsFiniteSet(Found(pool, array))
      /\ counter = Cardinality(Found(pool, array)) /\ counter \in Nat
  BY StateIs
<1>2. Carries(array, HSKey[s], n) /\ (h.ret = 1 => Carries(keyIndex, SLKey[s], h.m))
  BY DEF Set
<1>3. \/ h.ret = -1 /\ Leaves(h.tree, keyIndex, h.m, TRUE) /\ answer' = "not set" /\ counter' = counter
      \/ /\ h.ret = 1 /\ ~ isNew
         /\ Leaves(h.tree, keyIndex, h.m, FALSE) /\ answer' = "set" /\ counter' = counter
      \/ /\ h.ret = 1 /\ isNew /\ i.ret = -1
         /\ Leaves(undone.tree, i.tree, undone.m, TRUE) /\ answer' = "not set" /\ counter' = counter
      \/ /\ h.ret = 1 /\ isNew /\ i.ret = 1
         /\ Leaves(h.tree, i.tree, i.m, FALSE) /\ answer' = "set" /\ counter' = counter + 1
  BY DEF Set
<1>4. h = HSIns(array, s, s, n) /\ i = SLIns(keyIndex, s, s, h.m) /\ undone = Undone(h.tree, s, i.m)
      /\ n.heap = heap /\ n \in Memory
  <2>1. left \in Nat
    BY BudgetsAssumption
  <2> QED BY <1>1, <2>1 DEF Mem, Memory
<1> HIDE DEF h, i, undone
<1> HIDE DEF n
<1>5. Inserted(array, HSKey, pool, s, n, h)
  <2>1. TreeOK(array, Keys(HSKey, pool), pool) /\ HSGet(array, s) \in {Nil, Val(s)}
    BY <1>1 DEF Trees, Twins
  <2> QED BY <1>1, <1>2, <1>4, <2>1, HSInsGets
<1>6. h.m \in Memory /\ TreeOK(h.tree, Keys(HSKey, pool), pool) /\ Balanced(array, n, h)
  BY <1>5 DEF Inserted
<1>7. TreeOK(keyIndex, Keys(SLKey, pool), pool) /\ SLGet(keyIndex, s) \in {Nil, Val(s)}
  BY <1>1 DEF Trees, Twins
<1>8. ASSUME h.ret = 1 PROVE Inserted(keyIndex, SLKey, pool, s, h.m, i)
  BY <1>1, <1>2, <1>4, <1>6, <1>7, <1>8, SLInsGets
<1>9. ASSUME h.ret = 1
      PROVE  i.m \in Memory /\ TreeOK(i.tree, Keys(SLKey, pool), pool) /\ Balanced(keyIndex, h.m, i)
  BY <1>8, <1>9 DEF Inserted
<1>10. h.m.heap = Words(h.tree, keyIndex) /\ Trees(pool, h.tree, keyIndex)
  <2> DEFINE x == TreeWords(array)
             y == TreeWords(keyIndex)
             u == TreeWords(h.tree)
             c == h.m.heap
  <2>1. Trees(pool, h.tree, keyIndex)
    BY <1>6, <1>7 DEF Trees
  <2>2. u \in Nat /\ x \in Nat /\ y \in Nat
    BY <1>1, <2>1, WordsAre
  <2>3. c - u = heap - x /\ heap = x + y /\ c \in Int
    BY <1>1, <1>4, <1>6 DEF Balanced, Memory
  <2> HIDE DEF x, y, u, c
  <2>4. c = u + y
    BY <1>1, <2>2, <2>3
  <2> QED BY <2>1, <2>4 DEF Words, u, y, c
<1>11. ASSUME h.ret = 1
       PROVE  /\ i.m.heap = TreeWords(h.tree) + TreeWords(i.tree)
              /\ TreeWords(h.tree) \in Nat /\ TreeWords(i.tree) \in Nat
  <2> DEFINE y == TreeWords(keyIndex)
             u == TreeWords(h.tree)
             v == TreeWords(i.tree)
             c == h.m.heap
             d == i.m.heap
  <2>1. Trees(pool, h.tree, i.tree)
    BY <1>6, <1>9, <1>11 DEF Trees
  <2>2. u \in Nat /\ v \in Nat /\ y \in Nat
    BY <1>1, <2>1, WordsAre
  <2>3. d - v = c - y /\ c = u + y /\ c \in Int /\ d \in Int
    BY <1>6, <1>9, <1>10, <1>11 DEF Balanced, Memory, Words
  <2> HIDE DEF y, u, v, c, d
  <2>4. d = u + v
    BY <2>2, <2>3
  <2> QED BY <2>2, <2>4 DEF u, v, d
<1>12. CASE h.ret = -1 /\ Leaves(h.tree, keyIndex, h.m, TRUE) /\ answer' = "not set" /\ counter' = counter
  <2>1. \A t \in pool : HSGet(h.tree, t) = HSGet(array, t)
    BY <1>5, <1>12 DEF Inserted, Kept, HSGet
  <2>2. Twins(pool, h.tree, keyIndex) /\ Found(pool, h.tree) = Found(pool, array)
    BY <1>1, <2>1 DEF Twins, Found
  <2>3. Moves(Found(pool, array), Found(pool, h.tree)) /\ counter' = Cardinality(Found(pool, h.tree))
    BY <1>1, <1>12, <2>2 DEF Moves
  <2> QED BY <1>10, <1>12, <2>2, <2>3, LeavesSound
<1>13. CASE /\ h.ret = 1 /\ ~ isNew
            /\ Leaves(h.tree, keyIndex, h.m, FALSE) /\ answer' = "set" /\ counter' = counter
  <2>1. HSGet(h.tree, s) = Val(s) /\ \A t \in pool : t # s => HSGet(h.tree, t) = HSGet(array, t)
    BY <1>5, <1>13 DEF Inserted, PutIn, HSGet
  <2>2. HSGet(array, s) = Val(s)
    BY <1>1, <1>13 DEF Twins
  <2>3. Twins(pool, h.tree, keyIndex) /\ Found(pool, h.tree) = Found(pool, array)
    BY <1>1, <2>1, <2>2 DEF Twins, Found
  <2>4. Moves(Found(pool, array), Found(pool, h.tree)) /\ counter' = Cardinality(Found(pool, h.tree))
    BY <1>1, <1>13, <2>3 DEF Moves
  <2>5. DeadEnds(h.tree) \subseteq DeadEnds(array)
    BY <1>5, <1>13 DEF Inserted
  <2> QED BY <1>10, <1>13, <2>3, <2>4, <2>5, LeavesSound
<1>14. CASE /\ h.ret = 1 /\ isNew /\ i.ret = -1
            /\ Leaves(undone.tree, i.tree, undone.m, TRUE) /\ answer' = "not set" /\ counter' = counter
  <2>1. HSGet(h.tree, s) = Val(s) /\ \A t \in pool : t # s => HSGet(h.tree, t) = HSGet(array, t)
    BY <1>5, <1>14 DEF Inserted, PutIn, HSGet
  <2>2. /\ TreeOK(undone.tree, Keys(HSKey, pool), pool) /\ TakenOut(h.tree, undone.tree, HSKey, pool, s)
        /\ Balanced(h.tree, i.m, undone) /\ undone.m \in Memory
    BY <1>14, <1>1, <1>4, <1>6, <1>9, <2>1, UndoneDoes
  <2>3. HSGet(undone.tree, s) = Nil /\ \A t \in pool : t # s => HSGet(undone.tree, t) = HSGet(array, t)
    BY <2>1, <2>2 DEF TakenOut, HSGet
  <2>4. \A t \in pool : SLGet(i.tree, t) = SLGet(keyIndex, t)
    BY <1>8, <1>14 DEF Inserted, Kept, SLGet
  <2>5. HSGet(array, s) = Nil
    BY <1>1, <1>14 DEF Twins
  <2>6. Twins(pool, undone.tree, i.tree) /\ Found(pool, undone.tree) = Found(pool, array)
    BY <1>1, <2>3, <2>4, <2>5 DEF Twins, Found
  <2>7. Trees(pool, undone.tree, i.tree)
    BY <1>14, <1>9, <2>2 DEF Trees
  <2>8. undone.m.heap = Words(undone.tree, i.tree)
    <3> DEFINE u == TreeWords(h.tree)
               v == TreeWords(i.tree)
               w == TreeWords(undone.tree)
               d == i.m.heap
               e == undone.m.heap
    <3>1. w \in Nat /\ u \in Nat /\ v \in Nat
      BY <1>14, <1>1, <1>11, <2>7, WordsAre
    <3>2. e - w = d - u /\ d = u + v /\ d \in Int /\ e \in Int
      BY <1>14, <1>9, <1>11, <2>2 DEF Balanced, Memory
    <3> HIDE DEF u, v, w, d, e
    <3>3. e = w + v
      BY <3>1, <3>2
    <3> QED BY <3>3 DEF Words, v, w, e
  <2>9. Moves(Found(pool, array), Found(pool, undone.tree)) /\ counter' = Cardinality(Found(pool, undone.tree))
    BY <1>1, <1>14, <2>6 DEF Moves
  <2> QED BY <1>14, <2>6, <2>7, <2>8, <2>9, LeavesSound
<1>15. CASE /\ h.ret = 1 /\ isNew /\ i.ret = 1
            /\ Leaves(h.tree, i.tree, i.m, FALSE) /\ answer' = "set" /\ counter' = counter + 1
  <2>1. HSGet(h.tree, s) = Val(s) /\ \A t \in pool : t # s => HSGet(h.tree, t) = HSGet(array, t)
    BY <1>5, <1>15 DEF Inserted, PutIn, HSGet
  <2>2. SLGet(i.tree, s) = Val(s) /\ \A t \in pool : t # s => SLGet(i.tree, t) = SLGet(keyIndex, t)
    BY <1>8, <1>15 DEF Inserted, PutIn, SLGet
  <2>3. HSGet(array, s) = Nil /\ Val(s) # Nil
    BY <1>1, <1>15, SlotShapes DEF Twins
  <2>4. Twins(pool, h.tree, i.tree)
    BY <1>1, <2>1, <2>2 DEF Twins
  <2>5. Found(pool, h.tree) = Found(pool, array) \union {s} /\ s \notin Found(pool, array)
    BY <2>1, <2>3 DEF Found
  <2>6. Trees(pool, h.tree, i.tree) /\ i.m.heap = Words(h.tree, i.tree)
    BY <1>15, <1>6, <1>9, <1>11 DEF Trees, Words
  <2>7. counter' = Cardinality(Found(pool, h.tree))
    <3> DEFINE F == Found(pool, array)
    <3>1. IsFiniteSet(F) /\ s \notin F
      BY <1>1, <2>5
    <3>2. Cardinality(F \union {s}) = Cardinality(F) + 1
      <4> HIDE DEF F
      <4> QED BY <3>1, FS_AddElement
    <3> QED BY <1>1, <1>15, <2>5, <3>2
  <2>8. Moves(Found(pool, array), Found(pool, h.tree))
    BY <2>5 DEF Moves
  <2>9. DeadEnds(h.tree) \subseteq DeadEnds(array) /\ DeadEnds(i.tree) \subseteq DeadEnds(keyIndex)
    BY <1>5, <1>8, <1>15 DEF Inserted
  <2>10. answer' # "not set"
    BY <1>15
  <2> QED BY <1>15, <2>4, <2>6, <2>7, <2>8, <2>9, <2>10, LeavesSound
<1> QED BY <1>3, <1>12, <1>13, <1>14, <1>15

\* Every call keeps the invariant, and changes one string at most or drops all.
LEMMA NextKeeps ==
  ASSUME IInv, ~ FailAnywhere, Next
  PROVE  Step
<1>1. ASSUME NEW s \in pool, NEW left \in Budgets, Set(s, left) PROVE Step
  BY <1>1, SetKeeps
<1>2. ASSUME NEW s \in pool, NEW left \in Budgets, Unset(s, left) PROVE Step
  BY <1>2, UnsetKeeps
<1>3. ASSUME Free PROVE Step
  BY <1>3, FreeKeeps
<1> QED BY <1>1, <1>2, <1>3 DEF Next

\* A step of something else keeps it too.
LEMMA StutterKeeps ==
  ASSUME IInv, UNCHANGED vars
  PROVE  IInv'
BY DEF IInv, vars, Trees, Twins, Found, Words, NoEnds

\* As long as allocations fail in inserts only, and not while an old string is carried
\* down, the value store and the key_index are well-formed trees of the same strings with
\* the same values after every call, however their leaves were split and cleaned up.
THEOREM InStep ==
  ASSUME FailAnywhere = FALSE
  PROVE  Spec => []IInv
<1>1. IInv /\ [Next]_vars => IInv'
  <2>1. ASSUME IInv, Next PROVE IInv'
    BY <2>1, NextKeeps DEF Step
  <2>2. ASSUME IInv, UNCHANGED vars PROVE IInv'
    BY <2>2, StutterKeeps
  <2> QED BY <2>1, <2>2
<1> QED BY <1>1, InitKeeps, PTL DEF Spec

\* Under the same assumption every word of a leaf is reachable from one of the two arrays
\* whatever calls failed: splits free what they allocated, and free() gives back all.
THEOREM NothingLeaks ==
  ASSUME FailAnywhere = FALSE
  PROVE  Spec => []Accounted
<1>1. IInv => Accounted
  BY DEF IInv, Words, Accounted, HSFreeArray, SLFreeArray
<1> QED BY <1>1, InStep, PTL

\* Removals leave no index that leads to no string unless an allocation failed before.
THEOREM NothingLeft ==
  ASSUME FailAnywhere = FALSE
  PROVE  Spec => []NoDeadEnds
<1>1. IInv => NoDeadEnds
  BY DEF IInv, NoEnds, NoDeadEnds
<1> QED BY <1>1, InStep, PTL

\* Where no string comes or goes, all readings stay.
LEMMA SeenStays ==
  ASSUME IInv, IInv', Found(pool', array') = Found(pool, array)
  PROVE  seen' = seen /\ counter' = counter
BY DEF IInv

\* A call that reports that it could not set a string has lost and changed no string, in
\* either array, whether the value store or the key_index ran out of memory.
THEOREM FailureCostsNothing ==
  ASSUME FailAnywhere = FALSE
  PROVE  Spec => FailedSetKeeps
<1>1. IInv /\ [Next]_vars => [answer' = "not set" => seen' = seen]_vars
  <2> SUFFICES ASSUME IInv, Next, answer' = "not set" PROVE seen' = seen
    OBVIOUS
  <2>1. IInv' /\ Found(pool', array') = Found(pool, array)
    BY NextKeeps DEF Step
  <2> QED BY <2>1, SeenStays
<1> QED BY <1>1, InStep, PTL DEF Spec, FailedSetKeeps

\* Cardinality is the same in the abstract specification.
LEMMA MapCardinality == \A S : Map!Cardinality(S) = Cardinality(S)
BY Zenon DEF Map!Cardinality, Cardinality

\* What a call does to the strings is a step of the abstract map.
LEMMA MapStepImplements ==
  ASSUME IInv, Step
  PROVE  [Map!Next]_(Map!vars)
<1> DEFINE S == Found(pool, array)
           T == Found(pool', array')
<1>1. /\ seen.stored = Each(S) /\ seen'.stored = Each(T)
      /\ seen'.indexed = Each(T) /\ counter' = Cardinality(T)
  BY DEF IInv, Step
<1>2. Moves(S, T)
  BY DEF Step
<1>3. T = S => seen' = seen /\ counter' = counter
  BY SeenStays DEF Step
<1> HIDE DEF S, T
<1>4. DOMAIN seen.stored = S /\ DOMAIN seen'.stored = T /\ DOMAIN seen'.indexed = T
  BY <1>1 DEF Each
<1>5. Map!Holds'
  BY <1>1, <1>4, MapCardinality DEF Map!Holds
<1>6. CASE T = S
  BY <1>3, <1>6 DEF Map!vars
<1>7. ASSUME NEW s \in T, s \notin S, T = S \union {s} PROVE Map!Next
  <2>1. \A i \in S : seen'.stored[i] = seen.stored[i]
    BY <1>1, <1>7 DEF Each
  <2>2. Map!Put
    BY <1>4, <1>7, <2>1 DEF Map!Put
  <2> QED BY <1>5, <2>2 DEF Map!Next
<1>8. ASSUME NEW s \in S, T = S \ {s} PROVE Map!Next
  <2>1. seen'.stored = [i \in S \ {s} |-> seen.stored[i]]
    BY <1>1, <1>8 DEF Each
  <2>2. Map!Remove
    BY <1>4, <2>1 DEF Map!Remove
  <2> QED BY <1>5, <2>2 DEF Map!Next
<1>9. CASE T = {}
  <2>1. Map!FreeAll
    BY <1>4, <1>9 DEF Map!FreeAll
  <2> QED BY <1>5, <2>1 DEF Map!Next
<1> QED BY <1>2, <1>6, <1>7, <1>8, <1>9 DEF Moves

\* JudyHSGet(), JudySLGet() and the counter are three readings of one map, which a call
\* changes at one string or empties.
THEOREM Refinement ==
  ASSUME FailAnywhere = FALSE
  PROVE  Spec => ImplementsMap
<1>1. Init => Map!Init
  <2> SUFFICES ASSUME Init PROVE Map!Init
    OBVIOUS
  <2>1. DOMAIN seen.stored = {} /\ DOMAIN seen.indexed = {} /\ counter = 0
    BY DEF Init
  <2>2. Cardinality({}) = 0
    BY FS_EmptySet
  <2> QED BY <2>1, <2>2, MapCardinality DEF Map!Init, Map!Holds
<1>2. IInv /\ [Next]_vars => [Map!Next]_(Map!vars)
  <2>1. ASSUME IInv, Next PROVE [Map!Next]_(Map!vars)
    BY <2>1, NextKeeps, MapStepImplements
  <2>2. ASSUME UNCHANGED vars PROVE UNCHANGED Map!vars
    BY <2>2 DEF vars, Map!vars
  <2> QED BY <2>1, <2>2
<1>3. IInv => seen.indexed = seen.stored
  BY DEF IInv
<1> QED BY <1>1, <1>2, <1>3, InStep, PTL DEF Spec, ImplementsMap, Map!Spec

-----------------------------------------------------------------------------
(* The order of strings.                                                   *)

\* Where s first differs from t, t goes on with a larger byte, or s is at its end.
Rises(s, t, i) ==
  /\ i \in 1 .. Len(t) /\ i <= Len(s) + 1
  /\ \A j \in 1 .. (i - 1) : s[j] = t[j]
  /\ i <= Len(s) => s[i] < t[i]

\* One string comes before another where there is such a place.
LEMMA BeforeIs ==
  ASSUME NEW s \in Seq(Nat), NEW t \in Seq(Nat)
  PROVE  Before(s, t) <=> \E i \in Nat : Rises(s, t, i)
<1> DEFINE n == Min({Len(s), Len(t)})
           m == IF Len(s) <= Len(t) THEN Len(s) ELSE Len(t)
<1>1. Len(s) \in Nat /\ Len(t) \in Nat
  OBVIOUS
<1>2. n = m
  BY <1>1, MinOfTwo
<1>3. Before(s, t) <=> \/ \E i \in 1 .. m : s[i] < t[i] /\ \A j \in 1 .. (i - 1) : s[j] = t[j]
                       \/ m < Len(t) /\ \A j \in 1 .. m : s[j] = t[j]
  <2> HIDE DEF m
  <2> QED BY <1>2 DEF Before
<1>4. ASSUME NEW i \in 1 .. m, s[i] < t[i], \A j \in 1 .. (i - 1) : s[j] = t[j]
      PROVE  Rises(s, t, i)
  BY <1>1, <1>4 DEF Rises
<1>5. ASSUME m < Len(t), \A j \in 1 .. m : s[j] = t[j]
      PROVE  Rises(s, t, m + 1)
  BY <1>1, <1>5 DEF Rises
<1>6. ASSUME NEW i \in Nat, Rises(s, t, i)
      PROVE  \/ \E k \in 1 .. m : s[k] < t[k] /\ \A j \in 1 .. (k - 1) : s[j] = t[j]
             \/ m < Len(t) /\ \A j \in 1 .. m : s[j] = t[j]
  <2>1. CASE i <= Len(s)
    <3>1. i \in 1 .. m /\ s[i] < t[i] /\ \A j \in 1 .. (i - 1) : s[j] = t[j]
      BY <1>1, <1>6, <2>1 DEF Rises
    <3> QED BY <3>1
  <2>2. CASE ~ (i <= Len(s))
    <3>1. i = Len(s) + 1 /\ m = Len(s) /\ m < Len(t)
      BY <1>1, <1>6, <2>2 DEF Rises
    <3> QED BY <1>1, <1>6, <3>1 DEF Rises
  <2> QED BY <2>1, <2>2
<1>7. m + 1 \in Nat /\ \A i \in 1 .. m : i \in Nat
  BY <1>1
<1> HIDE DEF m
<1> QED BY <1>3, <1>4, <1>5, <1>6, <1>7

\* The order is strict,
LEMMA BeforeNot ==
  ASSUME NEW s \in Seq(Nat)
  PROVE  ~ Before(s, s)
<1>1. SUFFICES ASSUME NEW i \in Nat, Rises(s, s, i) PROVE FALSE
  BY BeforeIs
<1>2. i \in 1 .. Len(s) /\ Len(s) \in Nat
  BY <1>1 DEF Rises
<1>3. s[i] \in Nat
  BY <1>2
<1> QED BY <1>1, <1>2, <1>3 DEF Rises

\* transitive
LEMMA BeforeTrans ==
  ASSUME NEW s \in Seq(Nat), NEW t \in Seq(Nat), NEW u \in Seq(Nat), Before(s, t), Before(t, u)
  PROVE  Before(s, u)
<1>1. PICK i \in Nat : Rises(s, t, i)
  BY BeforeIs
<1>2. PICK j \in Nat : Rises(t, u, j)
  BY BeforeIs
<1>3. /\ Len(s) \in Nat /\ Len(t) \in Nat /\ Len(u) \in Nat
      /\ \A x \in 1 .. Len(s) : s[x] \in Nat
      /\ \A x \in 1 .. Len(t) : t[x] \in Nat
      /\ \A x \in 1 .. Len(u) : u[x] \in Nat
  OBVIOUS
<1>4. CASE i < j
  <2>1. Rises(s, u, i)
    BY <1>1, <1>2, <1>3, <1>4 DEF Rises
  <2> QED BY <2>1, BeforeIs
<1>5. CASE j < i
  <2>1. /\ i \in 1 .. Len(t) /\ i <= Len(s) + 1
        /\ \A k \in 1 .. (i - 1) : s[k] = t[k]
        /\ j \in 1 .. Len(u) /\ j <= Len(t) + 1
        /\ \A k \in 1 .. (j - 1) : t[k] = u[k]
        /\ j <= Len(t) => t[j] < u[j]
    BY <1>1, <1>2 DEF Rises
  <2>2. j \in 1 .. (i - 1) /\ j <= Len(t) /\ j <= Len(s)
    BY <1>3, <1>5, <2>1
  <2>3. s[j] = t[j] /\ t[j] < u[j]
    BY <2>1, <2>2
  <2>4. \A k \in 1 .. (j - 1) : s[k] = u[k]
    <3> SUFFICES ASSUME NEW k \in 1 .. (j - 1) PROVE s[k] = u[k]
      OBVIOUS
    <3>1. k \in 1 .. (i - 1)
      BY <2>2
    <3> QED BY <2>1, <3>1
  <2>5. j <= Len(s) + 1 /\ s[j] < u[j] /\ j \in 1 .. Len(u)
    BY <1>3, <2>1, <2>2, <2>3
  <2>6. Rises(s, u, j)
    BY <2>4, <2>5 DEF Rises
  <2> QED BY <2>6, BeforeIs
<1>6. CASE i = j
  <2>1. Rises(s, u, i)
    BY <1>1, <1>2, <1>3, <1>6 DEF Rises
  <2> QED BY <2>1, BeforeIs
<1> QED BY <1>4, <1>5, <1>6

\* and total.
LEMMA BeforeTotal ==
  ASSUME NEW s \in Seq(Nat), NEW t \in Seq(Nat), s # t
  PROVE  Before(s, t) \/ Before(t, s)
<1> DEFINE N == {i \in Nat \ {0} : ~ (i \in 1 .. Len(s) /\ i \in 1 .. Len(t) /\ s[i] = t[i])}
<1>1. /\ Len(s) \in Nat /\ Len(t) \in Nat
      /\ \A x \in 1 .. Len(s) : s[x] \in Nat
      /\ \A x \in 1 .. Len(t) : t[x] \in Nat
  OBVIOUS
<1>2. Len(s) + 1 \in N /\ N \subseteq Nat
  BY <1>1
<1>3. PICK i \in N : \A j \in N : i <= j
  <2> HIDE DEF N
  <2> QED BY <1>2, SmallestNumber
<1>4. \A j \in 1 .. (i - 1) : j \in 1 .. Len(s) /\ j \in 1 .. Len(t) /\ s[j] = t[j]
  <2> SUFFICES ASSUME NEW j \in 1 .. (i - 1) PROVE j \notin N
    OBVIOUS
  <2> QED BY <1>3
<1>5. i \in Nat \ {0} /\ i <= Len(s) + 1 /\ i <= Len(t) + 1
  <2>1. Len(t) + 1 \in N
    BY <1>1
  <2> QED BY <1>1, <1>2, <1>3, <2>1
<1>6. CASE i <= Len(s) /\ i <= Len(t)
  <2>1. s[i] # t[i] /\ s[i] \in Nat /\ t[i] \in Nat
    BY <1>1, <1>5, <1>6
  <2>2. CASE s[i] < t[i]
    <3>1. Rises(s, t, i)
      BY <1>4, <1>5, <1>6, <2>2 DEF Rises
    <3> QED BY <1>5, <3>1, BeforeIs
  <2>3. CASE t[i] < s[i]
    <3>1. Rises(t, s, i)
      BY <1>4, <1>5, <1>6, <2>3 DEF Rises
    <3> QED BY <1>5, <3>1, BeforeIs
  <2> QED BY <2>1, <2>2, <2>3
<1>7. CASE i = Len(s) + 1 /\ i <= Len(t)
  <2>1. Rises(s, t, i)
    BY <1>1, <1>4, <1>5, <1>7 DEF Rises
  <2> QED BY <1>5, <2>1, BeforeIs
<1>8. CASE i = Len(t) + 1 /\ i <= Len(s)
  <2>1. Rises(t, s, i)
    BY <1>1, <1>4, <1>5, <1>8 DEF Rises
  <2> QED BY <1>5, <2>1, BeforeIs
<1>9. CASE i = Len(s) + 1 /\ i = Len(t) + 1
  <2>1. Len(s) = Len(t) /\ \A j \in 1 .. Len(s) : s[j] = t[j]
    BY <1>1, <1>4, <1>9
  <2> HIDE DEF N
  <2> QED BY <2>1, SeqEqual
<1> QED BY <1>1, <1>5, <1>6, <1>7, <1>8, <1>9

\* Strings that go together for some words are ordered by the next one.
LEMMA ChunksRise ==
  ASSUME NEW s \in Seq(Nat), NEW t \in Seq(Nat), NEW e \in Nat,
         e * WORDSIZE <= Len(s), e * WORDSIZE <= Len(t),
         \A i \in 1 .. e : Chunk(s, i) = Chunk(t, i),
         Before(Chunk(s, e + 1), Chunk(t, e + 1))
  PROVE  Before(s, t)
<1> DEFINE c == Chunk(s, e + 1)
           d == Chunk(t, e + 1)
           x == e * WORDSIZE
<1>1. /\ x \in Nat /\ (e + 1) * WORDSIZE = x + WORDSIZE /\ e + 1 \in Nat \ {0}
      /\ (e + 1) - 1 = e /\ WORDSIZE \in Nat \ {0}
      /\ Len(s) \in Nat /\ Len(t) \in Nat /\ x <= Len(s) /\ x <= Len(t)
  BY Times, WordSizeAssumption
<1>2. /\ c \in Seq(Nat)
      /\ Len(c) = IF (e + 1) * WORDSIZE <= Len(s) THEN WORDSIZE ELSE Len(s) - ((e + 1) - 1) * WORDSIZE
      /\ \A p \in 1 .. Len(s) : ((e + 1) - 1) * WORDSIZE < p /\ p <= (e + 1) * WORDSIZE =>
           c[p - ((e + 1) - 1) * WORDSIZE] = s[p]
  BY <1>1, ChunkIs
<1>3. /\ d \in Seq(Nat)
      /\ Len(d) = IF (e + 1) * WORDSIZE <= Len(t) THEN WORDSIZE ELSE Len(t) - ((e + 1) - 1) * WORDSIZE
      /\ \A p \in 1 .. Len(t) : ((e + 1) - 1) * WORDSIZE < p /\ p <= (e + 1) * WORDSIZE =>
           d[p - ((e + 1) - 1) * WORDSIZE] = t[p]
  BY <1>1, ChunkIs
<1>4. /\ Len(c) = IF x + WORDSIZE <= Len(s) THEN WORDSIZE ELSE Len(s) - x
      /\ \A p \in 1 .. Len(s) : x < p /\ p <= x + WORDSIZE => c[p - x] = s[p]
  BY <1>1, <1>2
<1>5. /\ Len(d) = IF x + WORDSIZE <= Len(t) THEN WORDSIZE ELSE Len(t) - x
      /\ \A p \in 1 .. Len(t) : x < p /\ p <= x + WORDSIZE => d[p - x] = t[p]
  BY <1>1, <1>3
<1>6. ASSUME NEW p \in 1 .. Len(s), NEW r \in 1 .. Len(t), p = r, p <= x PROVE s[p] = t[p]
  <2> DEFINE q == (p - 1) \div WORDSIZE
             y == q * WORDSIZE
             z == (q + 1) * WORDSIZE
  <2>1. p - 1 \in Nat /\ p \in Nat
    BY <1>1
  <2>2. q \in Nat /\ y <= p - 1 /\ p - 1 < z
    BY <2>1, Division
  <2>3. y \in Nat /\ z = y + WORDSIZE
    <3> HIDE DEF q
    <3> QED BY <2>2, Times
  <2>4. /\ (q + 1) * WORDSIZE = z /\ ((q + 1) - 1) * WORDSIZE = y /\ q + 1 \in Nat \ {0}
        /\ q < e
    <3> HIDE DEF q
    <3>1. ((q + 1) - 1) = q
      BY <2>2
    <3>2. q < e
      <4>1. CASE e <= q
        <5>1. e * WORDSIZE <= q * WORDSIZE
          BY <2>2, <4>1, Times
        <5>2. x <= y
          BY <5>1
        <5> HIDE DEF x, y, z
        <5> QED BY <1>1, <1>6, <2>1, <2>2, <2>3, <5>2
      <4> QED BY <2>2, <4>1
    <3> QED BY <2>2, <3>1, <3>2
  <2> HIDE DEF q, y, z, x
  <2>5. y <= Len(s) /\ y <= Len(t) /\ y < p /\ p <= z /\ q + 1 \in 1 .. e
    BY <1>1, <1>6, <2>1, <2>2, <2>3, <2>4
  <2>6. \A k \in 1 .. Len(s) : y < k /\ k <= z => Chunk(s, q + 1)[k - y] = s[k]
    <3>1. ((q + 1) - 1) * WORDSIZE <= Len(s)
      BY <2>4, <2>5
    <3>2. \A k \in 1 .. Len(s) :
            ((q + 1) - 1) * WORDSIZE < k /\ k <= (q + 1) * WORDSIZE =>
              Chunk(s, q + 1)[k - ((q + 1) - 1) * WORDSIZE] = s[k]
      BY <2>4, <3>1, ChunkIs
    <3> QED BY <2>4, <3>2
  <2>7. \A k \in 1 .. Len(t) : y < k /\ k <= z => Chunk(t, q + 1)[k - y] = t[k]
    <3>1. ((q + 1) - 1) * WORDSIZE <= Len(t)
      BY <2>4, <2>5
    <3>2. \A k \in 1 .. Len(t) :
            ((q + 1) - 1) * WORDSIZE < k /\ k <= (q + 1) * WORDSIZE =>
              Chunk(t, q + 1)[k - ((q + 1) - 1) * WORDSIZE] = t[k]
      BY <2>4, <3>1, ChunkIs
    <3> QED BY <2>4, <3>2
  <2>8. Chunk(s, q + 1) = Chunk(t, q + 1)
    BY <2>5
  <2>9. Chunk(s, q + 1)[p - y] = s[p] /\ Chunk(t, q + 1)[p - y] = t[p]
    BY <1>6, <2>5, <2>6, <2>7
  <2> QED BY <1>6, <2>8, <2>9
<1> HIDE DEF c, d, x
<1>7. PICK i \in Nat : Rises(c, d, i)
  <2>1. Before(c, d)
    BY DEF c, d
  <2> QED BY <1>2, <1>3, <2>1, BeforeIs
<1>8. /\ i \in 1 .. Len(d) /\ i <= Len(c) + 1
      /\ \A j \in 1 .. (i - 1) : c[j] = d[j]
      /\ i <= Len(c) => c[i] < d[i]
  BY <1>7 DEF Rises
<1>9. /\ x + i \in Nat /\ x + i \in 1 .. Len(t) /\ x + i <= Len(s) + 1 /\ i <= WORDSIZE
      /\ x + i <= Len(s) => i <= Len(c)
  BY <1>1, <1>4, <1>5, <1>8
<1>10. ASSUME NEW j \in 1 .. (x + i - 1) PROVE s[j] = t[j]
  <2>1. j \in 1 .. Len(s) /\ j \in 1 .. Len(t)
    BY <1>1, <1>9
  <2>2. CASE j <= x
    BY <1>6, <2>1, <2>2
  <2>3. CASE ~ (j <= x)
    <3>1. j - x \in 1 .. (i - 1) /\ x < j /\ j <= x + WORDSIZE
      BY <1>1, <1>9, <2>1, <2>3
    <3>2. c[j - x] = s[j] /\ d[j - x] = t[j]
      BY <1>4, <1>5, <2>1, <3>1
    <3> QED BY <1>8, <3>1, <3>2
  <2> QED BY <2>2, <2>3
<1>11. ASSUME x + i <= Len(s) PROVE s[x + i] < t[x + i]
  <2>1. x + i \in 1 .. Len(s) /\ x < x + i /\ x + i <= x + WORDSIZE /\ (x + i) - x = i
    BY <1>1, <1>8, <1>9, <1>11
  <2>2. c[(x + i) - x] = s[x + i] /\ d[(x + i) - x] = t[x + i]
    BY <1>4, <1>5, <1>9, <2>1
  <2>3. c[i] < d[i]
    BY <1>8, <1>9, <1>11
  <2> QED BY <2>1, <2>2, <2>3
<1>12. Rises(s, t, x + i)
  <2> DEFINE k == x + i
  <2>1. k \in 1 .. Len(t) /\ k <= Len(s) + 1
    BY <1>9
  <2>3. ASSUME NEW j \in 1 .. (k - 1) PROVE s[j] = t[j]
    <3>1. j \in 1 .. (x + i - 1)
      BY <1>1
    <3> QED BY <1>10, <3>1
  <2>4. k <= Len(s) => s[k] < t[k]
    BY <1>11
  <2> HIDE DEF k
  <2>2. Rises(s, t, k)
    BY <2>1, <2>3, <2>4 DEF Rises
  <2> QED BY <2>2 DEF k
<1> QED BY <1>9, <1>12, BeforeIs

\* The order of strings is that of the first words in which they differ.
LEMMA WordsOrder ==
  ASSUME NEW s \in Seq(Nat), NEW t \in Seq(Nat), NEW e \in Nat,
         e * WORDSIZE <= Len(s), e * WORDSIZE <= Len(t),
         \A i \in 1 .. e : Chunk(s, i) = Chunk(t, i), Chunk(s, e + 1) # Chunk(t, e + 1)
  PROVE  Before(s, t) <=> Before(Chunk(s, e + 1), Chunk(t, e + 1))
<1> DEFINE c == Chunk(s, e + 1)
           d == Chunk(t, e + 1)
<1>1. e + 1 \in Nat \ {0} /\ (e + 1) - 1 = e
  OBVIOUS
<1>2. c \in Seq(Nat) /\ d \in Seq(Nat)
  BY <1>1, ChunkIs
<1>3. Before(c, d) => Before(s, t)
  BY ChunksRise
<1>4. Before(d, c) => Before(t, s)
  BY ChunksRise
<1>5. c # d
  OBVIOUS
<1> HIDE DEF c, d
<1>6. Before(s, t) => ~ Before(t, s)
  BY BeforeNot, BeforeTrans
<1>7. Before(c, d) \/ Before(d, c)
  BY <1>2, <1>5, BeforeTotal
<1> QED BY <1>3, <1>4, <1>6, <1>7 DEF c, d

\* The order of a walk, in either direction.
LEMMA BeyondIs ==
  ASSUME NEW s \in Seq(Nat), NEW t \in Seq(Nat), NEW u \in Seq(Nat), NEW next
  PROVE  /\ ~ Beyond(s, s, next)
         /\ s # t => Beyond(s, t, next) \/ Beyond(t, s, next)
         /\ Beyond(s, t, next) /\ Beyond(t, u, next) => Beyond(s, u, next)
         /\ Beyond(s, t, next) => ~ Beyond(t, s, next)
<1>1. ~ Before(s, s) /\ ~ Before(t, t)
  BY BeforeNot
<1>2. s # t => Before(s, t) \/ Before(t, s)
  BY BeforeTotal
<1>3. Before(s, t) /\ Before(t, u) => Before(s, u)
  BY BeforeTrans
<1>4. Before(u, t) /\ Before(t, s) => Before(u, s)
  BY BeforeTrans
<1>5. Before(s, t) /\ Before(t, s) => Before(s, s)
  BY BeforeTrans
<1> QED BY <1>1, <1>2, <1>3, <1>4, <1>5 DEF Beyond

\* The same for ways: where two ways part, their words tell the order of the strings.
LEMMA WayOrder ==
  ASSUME NEW s \in Strings, NEW t \in Strings, NEW e \in Nat,
         e < Len(SLKey[s].way), e < Len(SLKey[t].way),
         Path(SLKey[s].way, e) = Path(SLKey[t].way, e),
         SLKey[s].way[e + 1] # SLKey[t].way[e + 1], NEW next
  PROVE  Beyond(s, t, next) <=> Beyond(SLKey[s].way[e + 1], SLKey[t].way[e + 1], next)
<1> DEFINE k == SLKey[s].way
           l == SLKey[t].way
<1>1. /\ s \in Seq(Nat) /\ t \in Seq(Nat)
      /\ k \in Seq(Index) /\ l \in Seq(Index)
      /\ \A i \in 1 .. Len(k) : k[i] = Chunk(s, i) /\ (i - 1) * WORDSIZE <= Len(s)
      /\ \A i \in 1 .. Len(l) : l[i] = Chunk(t, i) /\ (i - 1) * WORDSIZE <= Len(t)
  BY SLKeyIs, StringsAssumption DEF IsKey
<1>2. e < Len(k) /\ e < Len(l) /\ Path(k, e) = Path(l, e) /\ k[e + 1] # l[e + 1]
  OBVIOUS
<1> HIDE DEF k, l
<1>3. e \in 0 .. Len(k) /\ e \in 0 .. Len(l) /\ e + 1 \in 1 .. Len(k) /\ e + 1 \in 1 .. Len(l)
  BY <1>1, <1>2
<1>4. \A i \in 1 .. e : k[i] = l[i]
  <2>1. \A i \in 1 .. e : Path(k, e)[i] = k[i]
    BY <1>1, <1>3, PathIs
  <2>2. \A i \in 1 .. e : Path(l, e)[i] = l[i]
    BY <1>1, <1>3, PathIs
  <2> QED BY <1>2, <2>1, <2>2
<1>5. ASSUME NEW i \in 1 .. e PROVE Chunk(s, i) = Chunk(t, i)
  <2>1. i \in 1 .. Len(k) /\ i \in 1 .. Len(l)
    BY <1>1, <1>2
  <2> QED BY <1>1, <1>4, <2>1
<1>6. /\ k[e + 1] = Chunk(s, e + 1) /\ l[e + 1] = Chunk(t, e + 1)
      /\ e * WORDSIZE <= Len(s) /\ e * WORDSIZE <= Len(t)
  <2>1. (e + 1) - 1 = e
    OBVIOUS
  <2> QED BY <1>1, <1>3, <2>1
<1>7. Before(s, t) <=> Before(k[e + 1], l[e + 1])
  BY <1>1, <1>2, <1>5, <1>6, WordsOrder
<1>8. Before(t, s) <=> Before(l[e + 1], k[e + 1])
  BY <1>1, <1>2, <1>5, <1>6, WordsOrder
<1> QED BY <1>7, <1>8 DEF Beyond, k, l

\* The indexes of JudySL are words.
LEMMA WayWords ==
  ASSUME NEW s \in Strings
  PROVE  /\ SLKey[s].way \in Seq(Index) /\ Len(SLKey[s].way) \in Nat
         /\ \A i \in 1 .. Len(SLKey[s].way) : SLKey[s].way[i] \in Seq(Nat)
<1>1. s \in Seq(Nat) /\ SLKey[s].way \in Seq(Index)
  BY SLKeyIs, StringsAssumption DEF IsKey
<1>2. ASSUME NEW i \in 1 .. Len(SLKey[s].way) PROVE SLKey[s].way[i] \in Seq(Nat)
  <2>1. SLKey[s].way[i] = Chunk(s, i) /\ (i - 1) * WORDSIZE <= Len(s)
    BY SLKeyIs
  <2>2. i \in Nat \ {0}
    BY <1>1
  <2>3. Chunk(s, i) \in Seq(Nat)
    BY <1>1, <2>1, <2>2, ChunkIs
  <2> QED BY <2>1, <2>3
<1> QED BY <1>1, <1>2

\* Some of the slots of an array, with their last words.
Row(S) == /\ IsFiniteSet(S) /\ \A q \in S : q[Len(q)] \in Seq(Nat)
          /\ \A q, r \in S : q[Len(q)] = r[Len(r)] => q = r

\* An array has one first index on a walk, and it comes before the others.
LEMMA ClosestIs ==
  ASSUME NEW S, Row(S), S # {}, NEW next
  PROVE  /\ Closest(S, next) \in S
         /\ \A q \in S \ {Closest(S, next)} :
              Beyond(Closest(S, next)[Len(Closest(S, next))], q[Len(q)], next)
<1> DEFINE D(q) == {r \in S : Beyond(r[Len(r)], q[Len(q)], next)}
           F == {D(q) : q \in S}
<1>1. PICK T \in F : \A U \in F : U \subseteq T => U = T
  <2>0. IsFiniteSet(S)
    BY DEF Row
  <2>1. F \subseteq SUBSET S /\ F # {}
    <3>1. \A q \in S : D(q) \subseteq S
      OBVIOUS
    <3> HIDE DEF D
    <3> QED BY <3>1
  <2> HIDE DEF F
  <2> QED BY <2>0, <2>1, SmallestSubset
<1>2. PICK q \in S : T = D(q)
  OBVIOUS
<1>3. ASSUME NEW r \in S, Beyond(r[Len(r)], q[Len(q)], next) PROVE FALSE
  <2>1. D(r) \in F
    OBVIOUS
  <2>2. r[Len(r)] \in Seq(Nat) /\ q[Len(q)] \in Seq(Nat)
    BY DEF Row
  <2>3. ASSUME NEW x \in D(r) PROVE x \in D(q)
    <3>1. x \in S /\ Beyond(x[Len(x)], r[Len(r)], next) /\ x[Len(x)] \in Seq(Nat)
      BY <2>3 DEF Row
    <3> QED BY <1>3, <2>2, <3>1, BeyondIs
  <2>4. r \in D(q)
    BY <1>3
  <2>5. r \notin D(r)
    BY <2>2, BeyondIs
  <2>6. D(r) \subseteq T /\ D(r) # T
    BY <1>2, <2>3, <2>4, <2>5
  <2> HIDE DEF F, D
  <2> QED BY <1>1, <2>1, <2>6
<1>4. ASSUME NEW r \in S \ {q} PROVE Beyond(q[Len(q)], r[Len(r)], next)
  <2>1. r[Len(r)] \in Seq(Nat) /\ q[Len(q)] \in Seq(Nat) /\ r[Len(r)] # q[Len(q)]
    BY DEF Row
  <2> QED BY <1>3, <2>1, BeyondIs
<1> HIDE DEF D, F
<1> QED BY <1>4, Zenon DEF Closest

\* The slots of an array are the next steps of the ways through its root.
LEMMA ChildrenAre ==
  ASSUME NEW P \in SUBSET Strings, NEW K, K = Keys(SLKey, P), Coded(K), NEW V, NEW a, TreeOK(a, K, V),
         NEW p \in DOMAIN a
  PROVE  /\ p \in Seq(Index) /\ Len(p) \in Nat /\ Row(Children(a, p))
         /\ \A q \in Children(a, p) :
              q \in DOMAIN a /\ q \in Seq(Index) /\ Len(q) = Len(p) + 1 /\ Path(q, Len(p)) = p
<1>1. ASSUME NEW q \in DOMAIN a
      PROVE  q \in Seq(Index) /\ Len(q) \in Nat /\ (q # <<>> => q[Len(q)] \in Seq(Nat))
  <2>1. CASE q = <<>>
    BY <2>1
  <2>2. CASE q # <<>>
    <3>1. PICK k \in K : \E i \in 0 .. Len(k.way) : q = Path(k.way, i)
      BY <2>2 DEF TreeOK
    <3>2. PICK s \in P : k = SLKey[s]
      BY <3>1 DEF Keys
    <3>3. k.way \in Seq(Index) /\ Len(k.way) \in Nat /\ \A i \in 1 .. Len(k.way) : k.way[i] \in Seq(Nat)
      BY <3>2, WayWords
    <3>4. PICK i \in 0 .. Len(k.way) : q = Path(k.way, i)
      BY <3>1
    <3>5. q \in Seq(Index) /\ Len(q) = i /\ \A j \in 1 .. i : q[j] = k.way[j]
      BY <3>3, <3>4, PathIs
    <3>6. i # 0
      BY <2>2, <3>3, <3>4, PathEnds
    <3> QED BY <3>3, <3>5, <3>6
  <2> QED BY <2>1, <2>2
<1>2. ASSUME NEW q \in Children(a, p)
      PROVE  q \in DOMAIN a /\ Len(q) = Len(p) + 1 /\ Path(q, Len(p)) = p
  BY DEF Children
<1>3. IsFiniteSet(Children(a, p))
  <2>1. IsFiniteSet(DOMAIN a) /\ Children(a, p) \subseteq DOMAIN a
    BY DEF TreeOK, Children
  <2> QED BY <2>1, FS_Subset
<1>4. ASSUME NEW q \in Children(a, p) PROVE q[Len(q)] \in Seq(Nat)
  <2>1. q # <<>>
    BY <1>1, <1>2
  <2> QED BY <1>1, <1>2, <2>1
<1>5. ASSUME NEW q \in Children(a, p), NEW r \in Children(a, p), q[Len(q)] = r[Len(r)]
      PROVE  q = r
  <2> DEFINE n == Len(p)
  <2>1. /\ q \in Seq(Index) /\ r \in Seq(Index) /\ n \in Nat
        /\ Len(q) = n + 1 /\ Len(r) = n + 1 /\ Path(q, n) = Path(r, n)
    BY <1>1, <1>2
  <2> HIDE DEF n
  <2>2. \A j \in 1 .. n : Path(q, n)[j] = q[j]
    BY <2>1, PathIs
  <2>3. \A j \in 1 .. n : Path(r, n)[j] = r[j]
    BY <2>1, PathIs
  <2>4. \A j \in 1 .. Len(q) : q[j] = r[j]
    <3> SUFFICES ASSUME NEW j \in 1 .. Len(q) PROVE q[j] = r[j]
      OBVIOUS
    <3>1. j \in 1 .. n \/ j = n + 1
      BY <2>1
    <3> QED BY <1>5, <2>1, <2>2, <2>3, <3>1
  <2> QED BY <2>1, <2>4, SeqEqual
<1> QED BY <1>1, <1>2, <1>3, <1>4, <1>5 DEF Row

\* The remainder is what is left of a number above the multiple below it.
LEMMA Remainder ==
  ASSUME NEW x \in Nat
  PROVE  x % WORDSIZE = x - (x \div WORDSIZE) * WORDSIZE
<1>1. WORDSIZE \in Nat /\ WORDSIZE > 0
  BY WordSizeAssumption
<1> QED BY <1>1, Z3

\* The words of a string spell it.
LEMMA SpellIs ==
  ASSUME NEW s \in Strings
  PROVE  Spell(SLKey[s].way) = s
<1> DEFINE w == SLKey[s].way
           n == Len(s) \div WORDSIZE
           x == n * WORDSIZE
           z == (n + 1) * WORDSIZE
<1>1. /\ s \in Seq(Nat) /\ Len(s) \in Nat /\ w \in Seq(Index) /\ Len(w) = n + 1
      /\ \A i \in 1 .. Len(w) : w[i] = Chunk(s, i) /\ (i - 1) * WORDSIZE <= Len(s)
  BY SLKeyIs, StringsAssumption DEF IsKey
<1>2. n \in Nat /\ x <= Len(s) /\ Len(s) < z
  BY <1>1, Division
<1>3. x \in Nat /\ z = x + WORDSIZE /\ WORDSIZE \in Nat \ {0}
  <2> HIDE DEF n
  <2> QED BY <1>2, Times, WordSizeAssumption
<1> HIDE DEF w
<1>4. w[n + 1] = Chunk(s, n + 1) /\ Len(w) - 1 = n
  <2> HIDE DEF n
  <2> QED BY <1>1, <1>2
<1>5. Len(Chunk(s, n + 1)) = Len(s) - x
  <2> HIDE DEF n
  <2>1. n + 1 \in Nat \ {0} /\ (n + 1) - 1 = n
    BY <1>2
  <2>2. ((n + 1) - 1) * WORDSIZE = x
    BY <2>1
  <2>3. Len(Chunk(s, n + 1)) =
          IF (n + 1) * WORDSIZE <= Len(s) THEN WORDSIZE ELSE Len(s) - ((n + 1) - 1) * WORDSIZE
    BY <1>1, <1>2, <2>1, <2>2, ChunkIs
  <2> HIDE DEF x
  <2>4. ~ ((n + 1) * WORDSIZE <= Len(s))
    BY <1>1, <1>2, <1>3
  <2> QED BY <2>2, <2>3, <2>4
<1>6. (Len(w) - 1) * WORDSIZE + Len(w[Len(w)]) = Len(s)
  <2> HIDE DEF n
  <2>1. (Len(w) - 1) * WORDSIZE = x /\ Len(w[Len(w)]) = Len(s) - x
    BY <1>1, <1>4, <1>5
  <2> HIDE DEF x
  <2> QED BY <1>1, <1>3, <2>1
<1>7. ASSUME NEW i \in 1 .. Len(s)
      PROVE  w[(i - 1) \div WORDSIZE + 1][((i - 1) % WORDSIZE) + 1] = s[i]
  <2> DEFINE q == (i - 1) \div WORDSIZE
             y == q * WORDSIZE
             v == (q + 1) * WORDSIZE
  <2>1. i - 1 \in Nat /\ i \in Nat
    BY <1>1
  <2>2. q \in Nat /\ y <= i - 1 /\ i - 1 < v
    BY <2>1, Division
  <2>3. (i - 1) % WORDSIZE = (i - 1) - y
    BY <2>1, Remainder
  <2> HIDE DEF q, n
  <2>4. y \in Nat /\ v = y + WORDSIZE
    BY <2>2, Times
  <2>5. q <= n
    <3>1. y < z
      <4> HIDE DEF x, y, z, v
      <4> QED BY <1>1, <1>2, <1>3, <2>1, <2>2, <2>4
    <3> QED BY <1>2, <2>2, <3>1, Times
  <2>6. q + 1 \in 1 .. Len(w) /\ q + 1 \in Nat \ {0} /\ (q + 1) - 1 = q
    BY <1>1, <1>2, <2>2, <2>5
  <2>7. w[q + 1] = Chunk(s, q + 1) /\ ((q + 1) - 1) * WORDSIZE = y /\ y <= Len(s)
    BY <1>1, <2>6
  <2>8. \A p \in 1 .. Len(s) : ((q + 1) - 1) * WORDSIZE < p /\ p <= (q + 1) * WORDSIZE =>
          Chunk(s, q + 1)[p - ((q + 1) - 1) * WORDSIZE] = s[p]
    BY <1>1, <2>6, <2>7, ChunkIs
  <2>9. \A p \in 1 .. Len(s) : y < p /\ p <= v => Chunk(s, q + 1)[p - y] = s[p]
    BY <2>7, <2>8
  <2> HIDE DEF y, v
  <2>10. Chunk(s, q + 1)[i - y] = s[i]
    BY <2>1, <2>2, <2>4, <2>9
  <2>11. ((i - 1) % WORDSIZE) + 1 = i - y
    BY <2>1, <2>3, <2>4
  <2>12. w[q + 1][((i - 1) % WORDSIZE) + 1] = s[i]
    BY <2>7, <2>10, <2>11
  <2> QED BY <2>12 DEF q
<1>8. Spell(w) = [i \in 1 .. Len(s) |-> w[(i - 1) \div WORDSIZE + 1][((i - 1) % WORDSIZE) + 1]]
  BY <1>6 DEF Spell
<1>9. s = [i \in 1 .. Len(s) |-> s[i]]
  BY <1>1
<1> HIDE DEF n, x, z
<1>10. Spell(w) = [i \in 1 .. Len(s) |-> s[i]]
  BY <1>7, <1>8, Zenon
<1> QED BY <1>9, <1>10 DEF w

\* Down the first or last indexes from p.
Follows(a, p, next, q) ==
  /\ q \in DOMAIN a /\ Len(q) >= Len(p) /\ Path(q, Len(p)) = p
  /\ \A i \in (Len(p) + 1) .. Len(q) : Path(q, i) = Closest(Children(a, Path(q, i - 1)), next)

\* From every slot the first or last indexes lead to one below which there is none.
LEMMA SLBottomIs ==
  ASSUME NEW P \in SUBSET Strings, NEW K, K = Keys(SLKey, P), Coded(K), NEW V, NEW a, TreeOK(a, K, V),
         NEW p \in DOMAIN a, NEW next
  PROVE  Follows(a, p, next, SLBottom(a, p, next)) /\ Children(a, SLBottom(a, p, next)) = {}
<1> DEFINE G == {q \in DOMAIN a : Follows(a, p, next, q)}
           N == {Len(q) : q \in G}
<1>1. \A q \in DOMAIN a : q \in Seq(Index) /\ Len(q) \in Nat
  BY ChildrenAre
<1>2. p \in G
  <2>1. Path(p, Len(p)) = p
    BY <1>1, PathEnds
  <2>2. Len(p) \in Nat
    BY <1>1
  <2>3. (Len(p) + 1) .. Len(p) = {} /\ Len(p) >= Len(p)
    BY <2>2
  <2> QED BY <2>1, <2>3 DEF Follows
<1>3. IsFiniteSet(N)
  <2>1. IsFiniteSet(DOMAIN a) /\ G \subseteq DOMAIN a
    BY DEF TreeOK
  <2>2. IsFiniteSet(G)
    BY <2>1, FS_Subset
  <2> DEFINE f == [x \in G |-> Len(x)]
  <2>3. f \in [G -> N] /\ \A y \in N : \E x \in G : f[x] = y
    OBVIOUS
  <2> HIDE DEF G, N, f
  <2>4. f \in Surjection(G, N)
    BY <2>3 DEF Surjection
  <2> QED BY <2>2, <2>4, FS_Surjection
<1>4. N \subseteq Nat /\ N # {}
  BY <1>1, <1>2
<1>5. PICK n \in N : \A m \in N : n >= m
  <2> HIDE DEF N
  <2> QED BY <1>3, <1>4, LargestNumber
<1>6. PICK q \in G : n = Len(q)
  OBVIOUS
<1>7. Children(a, q) = {}
  <2> SUFFICES ASSUME Children(a, q) # {} PROVE FALSE
    OBVIOUS
  <2> DEFINE r == Closest(Children(a, q), next)
  <2>1. Row(Children(a, q)) /\ q \in Seq(Index) /\ Len(q) \in Nat
    BY <1>6, ChildrenAre
  <2>2. r \in Children(a, q)
    BY <2>1, ClosestIs
  <2> HIDE DEF r
  <2>3. r \in DOMAIN a /\ r \in Seq(Index) /\ Len(r) = Len(q) + 1 /\ Path(r, Len(q)) = q
    BY <1>6, <2>2, ChildrenAre
  <2>4. /\ Len(q) >= Len(p) /\ Path(q, Len(p)) = p /\ Len(p) \in Nat
        /\ \A i \in (Len(p) + 1) .. Len(q) : Path(q, i) = Closest(Children(a, Path(q, i - 1)), next)
    BY <1>1, <1>6 DEF Follows
  <2>5. ASSUME NEW i \in 0 .. Len(q) PROVE Path(r, i) = Path(q, i)
    <3>1. Len(q) \in 0 .. Len(r)
      BY <2>1, <2>3
    <3>2. Path(Path(r, Len(q)), i) = Path(r, i)
      BY <2>3, <3>1, PathOfPath
    <3> QED BY <2>3, <3>2
  <2>6. Path(r, Len(p)) = p /\ Len(r) >= Len(p)
    <3>1. Len(p) \in 0 .. Len(q)
      BY <2>1, <2>4
    <3> QED BY <2>1, <2>3, <2>4, <2>5, <3>1
  <2>7. ASSUME NEW i \in (Len(p) + 1) .. Len(r)
        PROVE  Path(r, i) = Closest(Children(a, Path(r, i - 1)), next)
    <3>1. CASE i <= Len(q)
      <4>1. i \in 0 .. Len(q) /\ i - 1 \in 0 .. Len(q) /\ i \in (Len(p) + 1) .. Len(q)
        BY <2>1, <2>3, <2>4, <3>1
      <4>2. Path(r, i) = Path(q, i) /\ Path(r, i - 1) = Path(q, i - 1)
        BY <2>5, <4>1
      <4> QED BY <2>4, <4>1, <4>2
    <3>2. CASE ~ (i <= Len(q))
      <4>1. i = Len(r) /\ i - 1 = Len(q)
        BY <2>1, <2>3, <2>4, <3>2
      <4>2. Path(r, i) = r
        BY <2>3, <4>1, PathEnds
      <4>3. Path(r, i - 1) = q
        BY <2>3, <4>1
      <4> QED BY <4>2, <4>3 DEF r
    <3> QED BY <3>1, <3>2
  <2>8. r \in G
    BY <2>3, <2>6, <2>7 DEF Follows
  <2>9. Len(r) \in N
    BY <2>8
  <2>10. n >= Len(r)
    BY <1>5, <2>9
  <2> HIDE DEF G, N
  <2> QED BY <1>6, <2>1, <2>3, <2>10
<1>8. SLBottom(a, p, next) =
        CHOOSE x \in DOMAIN a : Follows(a, p, next, x) /\ Children(a, x) = {}
  <2>1. ASSUME NEW x \in DOMAIN a
        PROVE  (Follows(a, p, next, x) /\ Children(a, x) = {}) <=>
                 /\ Len(x) >= Len(p) /\ Path(x, Len(p)) = p /\ Children(a, x) = {}
                 /\ \A i \in (Len(p) + 1) .. Len(x) :
                      Path(x, i) = Closest(Children(a, Path(x, i - 1)), next)
    BY DEF Follows
  <2> QED BY <2>1, Zenon DEF SLBottom
<1>9. q \in DOMAIN a /\ Follows(a, p, next, q) /\ Children(a, q) = {}
  BY <1>6, <1>7
<1> HIDE DEF G, N
<1> QED BY <1>8, <1>9, Zenon

\* Where the ways of two strings part.
Parts(s, t, e) ==
  /\ e \in Nat /\ e < Len(SLKey[s].way) /\ e < Len(SLKey[t].way)
  /\ Path(SLKey[s].way, e) = Path(SLKey[t].way, e)
  /\ SLKey[s].way[e + 1] # SLKey[t].way[e + 1]

\* Two paths that have been the same are the same one step on if their indexes are.
LEMMA PathStep ==
  ASSUME NEW w \in Seq(Index), NEW u \in Seq(Index), NEW e \in Nat, e < Len(w), e < Len(u),
         Path(w, e) = Path(u, e)
  PROVE  /\ Path(w, e + 1) = Path(u, e + 1) <=> w[e + 1] = u[e + 1]
         /\ Path(w, e + 1)[e + 1] = w[e + 1] /\ Len(Path(w, e + 1)) = e + 1
<1>1. e \in 0 .. Len(w) /\ e \in 0 .. Len(u) /\ e + 1 \in 0 .. Len(w) /\ e + 1 \in 0 .. Len(u)
  OBVIOUS
<1>2. /\ Path(w, e) = [j \in 1 .. e |-> w[j]] /\ Path(u, e) = [j \in 1 .. e |-> u[j]]
      /\ \A j \in 1 .. e : Path(w, e)[j] = w[j] /\ Path(u, e)[j] = u[j]
  BY <1>1, PathIs
<1>3. /\ Path(w, e + 1) = [j \in 1 .. (e + 1) |-> w[j]]
      /\ Path(u, e + 1) = [j \in 1 .. (e + 1) |-> u[j]]
      /\ Len(Path(w, e + 1)) = e + 1
      /\ Path(w, e + 1)[e + 1] = w[e + 1] /\ Path(u, e + 1)[e + 1] = u[e + 1]
  <2>1. e + 1 \in 1 .. (e + 1)
    OBVIOUS
  <2>2. /\ Path(w, e + 1) = [j \in 1 .. (e + 1) |-> w[j]] /\ Len(Path(w, e + 1)) = e + 1
        /\ \A j \in 1 .. (e + 1) : Path(w, e + 1)[j] = w[j]
    BY <1>1, PathIs
  <2>3. /\ Path(u, e + 1) = [j \in 1 .. (e + 1) |-> u[j]]
        /\ \A j \in 1 .. (e + 1) : Path(u, e + 1)[j] = u[j]
    BY <1>1, PathIs
  <2> QED BY <2>1, <2>2, <2>3
<1>4. \A j \in 1 .. e : w[j] = u[j]
  BY <1>2
<1>5. ASSUME w[e + 1] = u[e + 1] PROVE Path(w, e + 1) = Path(u, e + 1)
  <2>1. \A j \in 1 .. (e + 1) : w[j] = u[j]
    <3>1. \A j \in 1 .. (e + 1) : j = e + 1 \/ j \in 1 .. e
      OBVIOUS
    <3> QED BY <1>4, <1>5, <3>1
  <2>2. [j \in 1 .. (e + 1) |-> w[j]] = [j \in 1 .. (e + 1) |-> u[j]]
    BY <2>1
  <2> QED BY <1>3, <2>2
<1> QED BY <1>3, <1>5

\* The ways of two strings part somewhere.
LEMMA PartsAre ==
  ASSUME NEW s \in Strings, NEW t \in Strings, s # t
  PROVE  \E e : Parts(s, t, e)
<1> DEFINE k == SLKey[s]
           l == SLKey[t]
           K == {SLKey[u] : u \in {s, t}}
           e == Shared(k, l)
<1>1. Coded(K)
  BY SLCoded
<1>2. k # l /\ IsKey(k) /\ IsKey(l)
  BY SLKeyIs
<1>3. k \in K /\ l \in K
  OBVIOUS
<1>4. k.way \in Seq(Index) /\ l.way \in Seq(Index)
  BY <1>2 DEF IsKey
<1> HIDE DEF k, l, K
<1>5. /\ e \in 0 .. (Len(k.way) - 1) /\ e \in 0 .. (Len(l.way) - 1)
      /\ Path(k.way, e) = Path(l.way, e)
      /\ \A i \in 0 .. Len(k.way) : i <= Len(l.way) /\ Path(k.way, i) = Path(l.way, i) => i <= e
  BY <1>1, <1>2, <1>3, Part
<1> HIDE DEF e
<1>6. e \in Nat /\ e < Len(k.way) /\ e < Len(l.way)
  BY <1>4, <1>5
<1>7. k.way[e + 1] # l.way[e + 1]
  <2> SUFFICES ASSUME k.way[e + 1] = l.way[e + 1] PROVE FALSE
    OBVIOUS
  <2>1. Path(k.way, e + 1) = Path(l.way, e + 1)
    BY <1>4, <1>5, <1>6, PathStep
  <2>2. e + 1 \in 0 .. Len(k.way) /\ e + 1 <= Len(l.way)
    BY <1>4, <1>6
  <2>3. e + 1 <= e
    BY <1>5, <2>1, <2>2
  <2> QED BY <1>6, <2>3
<1>8. Parts(s, t, e)
  BY <1>5, <1>6, <1>7 DEF Parts, k, l
<1> QED BY <1>8

\* A string that goes with s one word beyond where u parts from s is on the same side of u.
LEMMA Farther ==
  ASSUME NEW s \in Strings, NEW t \in Strings, NEW u \in Strings, NEW e, Parts(s, u, e),
         e < Len(SLKey[t].way), Path(SLKey[t].way, e + 1) = Path(SLKey[s].way, e + 1), NEW next,
         Beyond(s, u, next)
  PROVE  Beyond(t, u, next)
<1> DEFINE w == SLKey[s].way
           x == SLKey[t].way
           y == SLKey[u].way
<1>1. w \in Seq(Index) /\ x \in Seq(Index) /\ Len(w) \in Nat /\ Len(x) \in Nat
  BY WayWords
<1>2. e \in Nat /\ e < Len(w) /\ e < Len(x) /\ e < Len(y) /\ Path(w, e) = Path(y, e)
      /\ w[e + 1] # y[e + 1]
  BY DEF Parts
<1> HIDE DEF w, x, y
<1>3. e + 1 \in 0 .. Len(w) /\ e + 1 \in 0 .. Len(x) /\ e \in 0 .. (e + 1)
  BY <1>1, <1>2
<1>4. Path(x, e + 1) = Path(w, e + 1)
  BY DEF x, w
<1>5. Path(x, e) = Path(w, e)
  BY <1>1, <1>3, <1>4, PathsAgree
<1>6. x[e + 1] = w[e + 1]
  BY <1>1, <1>2, <1>4, <1>5, PathStep
<1>7. Beyond(s, u, next) <=> Beyond(w[e + 1], y[e + 1], next)
  BY <1>2, WayOrder DEF w, y
<1>8. Beyond(t, u, next) <=> Beyond(x[e + 1], y[e + 1], next)
  BY <1>2, <1>5, <1>6, WayOrder DEF x, y
<1> QED BY <1>6, <1>7, <1>8

\* The paths of a key down to its depth, above which there are only arrays.
LEMMA PathDown ==
  ASSUME NEW K, Coded(K), NEW V, NEW a, TreeOK(a, K, V), NEW k \in K
  PROVE  /\ k.way \in Seq(Index) /\ Len(k.way) \in Nat
         /\ Depth(a, k) \in 0 .. Len(k.way)
         /\ \A i \in 0 .. Depth(a, k) : Path(k.way, i) \in DOMAIN a /\ Len(Path(k.way, i)) = i
         /\ \A i \in 0 .. Depth(a, k) : i < Depth(a, k) => a[Path(k.way, i)] = Nil
         /\ \A i \in 0 .. Len(k.way) : Path(k.way, i) \in DOMAIN a => i <= Depth(a, k)
<1> DEFINE d == Depth(a, k)
<1>1. IsKey(k) /\ <<>> \in DOMAIN a
  BY DEF Coded, TreeOK
<1>2. d \in 0 .. Len(k.way) /\ Path(k.way, d) \in DOMAIN a
      /\ \A i \in 0 .. Len(k.way) : Path(k.way, i) \in DOMAIN a => i <= d
  BY <1>1, DepthType
<1>3. k.way \in Seq(Index) /\ Len(k.way) \in Nat
  BY <1>1 DEF IsKey
<1> HIDE DEF d
<1>4. \A j \in 0 .. (d - 1) : Path(k.way, j) \in DOMAIN a /\ a[Path(k.way, j)] = Nil
  BY <1>2 DEF TreeOK
<1>5. ASSUME NEW i \in 0 .. d
      PROVE  /\ Path(k.way, i) \in DOMAIN a /\ Len(Path(k.way, i)) = i
             /\ i < d => a[Path(k.way, i)] = Nil
  <2>1. i \in 0 .. Len(k.way) /\ (i = d \/ i \in 0 .. (d - 1))
    BY <1>2, <1>3
  <2>2. Len(Path(k.way, i)) = i
    BY <1>3, <2>1, PathIs
  <2>3. i < d => i \in 0 .. (d - 1)
    BY <1>2, <1>3
  <2> QED BY <1>2, <1>4, <2>1, <2>2, <2>3
<1> QED BY <1>2, <1>3, <1>5 DEF d

\* Where two ways part there is an array, of which both strings have an index.
LEMMA Deep ==
  ASSUME NEW K, Coded(K), NEW V, NEW a, TreeOK(a, K, V), NEW k \in K, NEW l \in K, k # l,
         Get(a, k) # Nil, Get(a, l) # Nil, NEW e \in 0 .. Len(k.way), e <= Len(l.way),
         Path(k.way, e) = Path(l.way, e)
  PROVE  e < Depth(a, k)
<1> DEFINE d == Depth(a, k)
           f == Depth(a, l)
<1>1. /\ k.way \in Seq(Index) /\ Len(k.way) \in Nat /\ d \in 0 .. Len(k.way)
      /\ Path(k.way, d) \in DOMAIN a
  BY PathDown
<1>2. /\ l.way \in Seq(Index) /\ Len(l.way) \in Nat /\ f \in 0 .. Len(l.way)
      /\ Path(l.way, f) \in DOMAIN a
      /\ \A i \in 0 .. f : i < f => a[Path(l.way, i)] = Nil
      /\ \A i \in 0 .. Len(l.way) : Path(l.way, i) \in DOMAIN a => i <= f
  BY PathDown
<1>3. /\ a[Path(k.way, d)] # Nil
      /\ \A g \in K : \A w : HoldsAt(a, Path(k.way, d), g, w) => g = k
  BY OwnSlot
<1>4. PICK w \in V : Get(a, l) = Val(w)
  BY GetHolds
<1>5. Holds(a, l, w)
  BY <1>4, GetHolds
<1>6. PICK p \in DOMAIN a : HoldsAt(a, p, l, w)
  BY <1>5 DEF Holds
<1>7. p = Path(l.way, f)
  BY <1>6, Holder
<1> HIDE DEF d, f
<1> SUFFICES ASSUME ~ (e < d) PROVE FALSE
  BY DEF d
<1>8. d \in 0 .. e /\ e \in 0 .. Len(l.way) /\ d \in 0 .. Len(l.way)
  BY <1>1, <1>2
<1>9. Path(k.way, d) = Path(l.way, d)
  BY <1>1, <1>2, <1>8, PathsAgree
<1>10. d <= f /\ d \in 0 .. f
  BY <1>1, <1>2, <1>8, <1>9
<1>11. ~ (d < f)
  BY <1>2, <1>3, <1>9, <1>10
<1>12. d = f
  BY <1>2, <1>10, <1>11
<1>13. HoldsAt(a, Path(k.way, d), l, w)
  BY <1>6, <1>7, <1>9, <1>12
<1> QED BY <1>3, <1>13

\* A string of the tree.
Held(a, s) == Get(a, SLKey[s]) # Nil

\* What a walk returns when it ends is not a string.
LEMMA NoStringIs == \A s \in Strings : s # NoString
<1>1. NoString \notin Seq(Nat)
  <2>1. NoString[1] = -1 /\ Len(NoString) = 1
    BY DEF NoString
  <2>2. ASSUME NEW s \in Seq(Nat), Len(s) = 1 PROVE s[1] \in Nat
    <3>1. 1 \in 1 .. Len(s)
      BY <2>2
    <3> QED BY <3>1, ElementOfSeq
  <2> QED BY <2>1, <2>2
<1> QED BY <1>1, StringsAssumption

\* The string that the first or last indexes lead to comes before all others below p.
LEMMA Leads ==
  ASSUME NEW P \in SUBSET Strings, NEW K, K = Keys(SLKey, P), Coded(K), NEW V, NEW a, TreeOK(a, K, V),
         NEW p \in DOMAIN a, NEW next, NEW t \in P, NEW u \in P, t # u, Held(a, t), Held(a, u),
         Follows(a, p, next, Path(SLKey[t].way, Depth(a, SLKey[t]))),
         Len(p) <= Len(SLKey[u].way), Path(SLKey[u].way, Len(p)) = p
  PROVE  Beyond(t, u, next)
<1> DEFINE k == SLKey[t]
           l == SLKey[u]
           q == Path(k.way, Depth(a, k))
<1>1. k \in K /\ l \in K /\ t \in Strings /\ u \in Strings
  BY DEF Keys
<1>2. k # l
  BY <1>1, SLKeyIs
<1>3. PICK e : Parts(t, u, e)
  BY <1>1, PartsAre
<1>4. /\ e \in Nat /\ e < Len(k.way) /\ e < Len(l.way) /\ Path(k.way, e) = Path(l.way, e)
      /\ k.way[e + 1] # l.way[e + 1]
  BY <1>3 DEF Parts
<1>5. Get(a, k) # Nil /\ Get(a, l) # Nil
  BY DEF Held
<1>6. /\ Follows(a, p, next, q) /\ Len(p) <= Len(l.way) /\ Path(l.way, Len(p)) = p
  OBVIOUS
<1>7. Beyond(t, u, next) <=> Beyond(k.way[e + 1], l.way[e + 1], next)
  BY <1>1, <1>4, WayOrder
<1> HIDE DEF k, l
<1>8. /\ k.way \in Seq(Index) /\ Len(k.way) \in Nat /\ Depth(a, k) \in 0 .. Len(k.way)
      /\ \A i \in 0 .. Depth(a, k) : Path(k.way, i) \in DOMAIN a /\ Len(Path(k.way, i)) = i
  BY <1>1, PathDown
<1>9. /\ l.way \in Seq(Index) /\ Len(l.way) \in Nat /\ Depth(a, l) \in 0 .. Len(l.way)
      /\ \A i \in 0 .. Depth(a, l) : Path(l.way, i) \in DOMAIN a /\ Len(Path(l.way, i)) = i
  BY <1>1, PathDown
<1>10. e < Depth(a, k)
  <2>1. e \in 0 .. Len(k.way) /\ e <= Len(l.way)
    BY <1>4, <1>8, <1>9
  <2> QED BY <1>1, <1>2, <1>4, <1>5, <2>1, Deep
<1>11. e < Depth(a, l)
  <2>1. e \in 0 .. Len(l.way) /\ e <= Len(k.way)
    BY <1>4, <1>8, <1>9
  <2> QED BY <1>1, <1>2, <1>4, <1>5, <2>1, Deep
<1>12. Len(q) = Depth(a, k) /\ q \in DOMAIN a
  BY <1>8
<1>13. \A i \in 0 .. Depth(a, k) : Path(q, i) = Path(k.way, i)
  BY <1>8, PathOfPath
<1>14. /\ Len(p) \in Nat /\ Len(q) >= Len(p) /\ Path(q, Len(p)) = p
       /\ \A i \in (Len(p) + 1) .. Len(q) : Path(q, i) = Closest(Children(a, Path(q, i - 1)), next)
  <2>1. Len(p) \in Nat
    BY ChildrenAre
  <2> QED BY <1>6, <2>1 DEF Follows
<1> HIDE DEF q
<1>15. Len(p) <= e
  <2> SUFFICES ASSUME e + 1 <= Len(p) PROVE FALSE
    BY <1>4, <1>14
  <2>1. Len(p) \in 0 .. Depth(a, k)
    BY <1>8, <1>12, <1>14
  <2>2. Path(k.way, Len(p)) = p
    BY <1>13, <1>14, <2>1
  <2>3. e + 1 \in 0 .. Len(p) /\ Len(p) \in 0 .. Len(k.way) /\ Len(p) \in 0 .. Len(l.way)
    BY <1>4, <1>6, <1>8, <1>9, <1>14, <2>1
  <2>4. Path(k.way, e + 1) = Path(l.way, e + 1)
    BY <1>6, <1>8, <1>9, <2>2, <2>3, PathsAgree
  <2> QED BY <1>4, <1>8, <1>9, <2>4, PathStep
<1> DEFINE S == Children(a, Path(k.way, e))
           x == Path(k.way, e + 1)
           y == Path(l.way, e + 1)
<1>16. e + 1 \in 0 .. Depth(a, k) /\ e + 1 \in 0 .. Depth(a, l) /\ e \in 0 .. Depth(a, k)
  BY <1>4, <1>8, <1>9, <1>10, <1>11
<1>17. x \in DOMAIN a /\ y \in DOMAIN a /\ Path(k.way, e) \in DOMAIN a
  BY <1>8, <1>9, <1>16
<1>18. x = Closest(S, next)
  <2>1. e + 1 \in (Len(p) + 1) .. Len(q) /\ (e + 1) - 1 = e
    BY <1>4, <1>12, <1>14, <1>15, <1>16
  <2>2. Path(q, e + 1) = Closest(Children(a, Path(q, e)), next)
    BY <1>14, <2>1
  <2> QED BY <1>13, <1>16, <2>2
<1>19. y \in S
  <2>1. e \in 0 .. (Len(l.way) - 1)
    BY <1>4, <1>9
  <2> QED BY <1>4, <1>9, <1>17, <2>1, ChildPath
<1>20. /\ x # y /\ Len(x) = e + 1 /\ x[e + 1] = k.way[e + 1]
       /\ Len(y) = e + 1 /\ y[e + 1] = l.way[e + 1]
  BY <1>4, <1>8, <1>9, PathStep
<1>21. Row(S)
  BY <1>17, ChildrenAre
<1> HIDE DEF S, x, y
<1>22. Beyond(x[Len(x)], y[Len(y)], next)
  <2>1. y \in S \ {Closest(S, next)} /\ S # {}
    BY <1>18, <1>19, <1>20
  <2> QED BY <1>18, <1>21, <2>1, ClosestIs
<1> QED BY <1>7, <1>20, <1>22

\* What the last slot on the way down makes of it.
LEMMA SLEndIs ==
  ASSUME NEW a, NEW p, NEW next, NEW q, q = SLBottom(a, p, next)
  PROVE  /\ a[q] = Nil => SLEnd(a, p, next) = NoString
         /\ \A k : \A v : a[q] = Leaf(k, v) => SLEnd(a, p, next) = k.str
         /\ \A v : a[q] = Val(v) => SLEnd(a, p, next) = Spell(q)
<1>1. a[q] = Nil => a[q].t = "nil"
  BY SlotShapes
<1>2. \A k : \A v : a[q] = Leaf(k, v) => a[q].t = "leaf" /\ a[q].key = k
  BY SlotShapes
<1>3. \A v : a[q] = Val(v) => a[q].t = "val"
  BY SlotShapes
<1>4. /\ a[q].t = "nil" => SLEnd(a, p, next) = NoString
      /\ a[q].t = "leaf" => SLEnd(a, p, next) = a[q].key.str
      /\ a[q].t = "val" => SLEnd(a, p, next) = Spell(q)
  BY DEF SLEnd
<1> QED BY <1>1, <1>2, <1>3, <1>4

\* The string t is the first or last of those below p.
FirstBelow(a, P, p, next, t) ==
  /\ t \in P /\ Held(a, t) /\ Len(p) <= Len(SLKey[t].way) /\ Path(SLKey[t].way, Len(p)) = p
  /\ \A u \in P : /\ u # t /\ Held(a, u)
                  /\ Len(p) <= Len(SLKey[u].way) /\ Path(SLKey[u].way, Len(p)) = p
                  => Beyond(t, u, next)

\* Below every slot the walk finds the first or last string, or a dead end.
LEMMA EndIs ==
  ASSUME NEW P \in SUBSET Strings, NEW K, K = Keys(SLKey, P), Coded(K), NEW V, NEW a, TreeOK(a, K, V),
         NEW p \in DOMAIN a, p # <<>>, NEW next, NEW t, t = SLEnd(a, p, next)
  PROVE  /\ t = NoString => DeadEnds(a) # {}
         /\ t # NoString => FirstBelow(a, P, p, next, t)
<1> DEFINE q == SLBottom(a, p, next)
<1>1. Follows(a, p, next, q) /\ Children(a, q) = {}
  BY SLBottomIs
<1>2. /\ a[q] = Nil => t = NoString
      /\ \A k : \A v : a[q] = Leaf(k, v) => t = k.str
      /\ \A v : a[q] = Val(v) => t = Spell(q)
  BY SLEndIs
<1> HIDE DEF q
<1>3. /\ q \in DOMAIN a /\ Len(q) >= Len(p) /\ Path(q, Len(p)) = p
  BY <1>1 DEF Follows
<1>4. p \in Seq(Index) /\ Len(p) \in Nat /\ q \in Seq(Index) /\ Len(q) \in Nat
  BY <1>3, ChildrenAre
<1>5. SlotOK(a, q, K, V)
  BY <1>3 DEF TreeOK
<1>6. CASE a[q] = Nil
  <2>1. q # <<>>
    BY <1>3, <1>4
  <2>2. q \in DeadEnds(a)
    BY <1>1, <1>3, <1>6, <2>1 DEF DeadEnds
  <2> QED BY <1>2, <1>6, <2>2
<1>7. CASE a[q] # Nil
  <2>1. PICK k \in K, v \in V : a[q] = Leaf(k, v) \/ (a[q] = Val(v) /\ q = k.way)
    BY <1>5, <1>7 DEF SlotOK
  <2>2. HoldsAt(a, q, k, v)
    BY <2>1 DEF HoldsAt
  <2>3. PICK s \in P : k = SLKey[s]
    BY DEF Keys
  <2>4. s \in Strings /\ k.str = s /\ Spell(k.way) = s
    BY <2>3, SLKeyIs, SpellIs
  <2>5. t = s
    BY <1>2, <2>1, <2>4
  <2>6. Holds(a, k, v)
    BY <1>3, <2>2 DEF Holds
  <2>7. Get(a, k) = Val(v)
    BY <2>6, GetHolds
  <2>8. Held(a, t)
    BY <2>3, <2>5, <2>7, SlotShapes DEF Held
  <2>9. q = Path(k.way, Depth(a, k))
    BY <1>3, <2>2, Holder
  <2>10. /\ k.way \in Seq(Index) /\ Len(k.way) \in Nat /\ Depth(a, k) \in 0 .. Len(k.way)
         /\ Len(q) = Depth(a, k)
    <3>1. /\ k.way \in Seq(Index) /\ Len(k.way) \in Nat /\ Depth(a, k) \in 0 .. Len(k.way)
          /\ \A i \in 0 .. Depth(a, k) : Len(Path(k.way, i)) = i
      BY PathDown
    <3> QED BY <2>9, <3>1
  <2>11. Len(p) <= Len(k.way) /\ Path(k.way, Len(p)) = p
    <3>1. Len(p) \in 0 .. Depth(a, k)
      BY <1>3, <1>4, <2>10
    <3>2. Path(q, Len(p)) = Path(k.way, Len(p))
      BY <2>9, <2>10, <3>1, PathOfPath
    <3> QED BY <1>3, <1>4, <2>10, <3>1, <3>2
  <2>12. ASSUME NEW u \in P, u # t, Held(a, u), Len(p) <= Len(SLKey[u].way),
                Path(SLKey[u].way, Len(p)) = p
         PROVE  Beyond(t, u, next)
    <3>1. Follows(a, p, next, Path(SLKey[t].way, Depth(a, SLKey[t]))) /\ t \in P
      BY <1>1, <2>3, <2>5, <2>9
    <3> QED BY <2>8, <2>12, <3>1, Leads
  <2>13. FirstBelow(a, P, p, next, t)
    BY <2>3, <2>5, <2>8, <2>11, <2>12 DEF FirstBelow
  <2> QED BY <2>4, <2>5, <2>13, NoStringIs
<1> QED BY <1>6, <1>7

\* On the way of s the walk may look past level i.
Level(a, s, i) == i \in 1 .. Len(SLKey[s].way) /\ i <= Depth(a, SLKey[s]) + 1

\* A string that parts from s at level i, where the tree has an index of it.
PartsAt(a, s, u, i) ==
  /\ Parts(s, u, i - 1) /\ i <= Depth(a, SLKey[u])

\* What the walk finds past level i: none only where there is none or a dead end, or the
\* first of all that part from s there or further up.
LEMMA PastIs ==
  ASSUME NEW P \in SUBSET Strings, NEW K, K = Keys(SLKey, P), Coded(K), NEW V, NEW a, TreeOK(a, K, V),
         NEW s \in P, NEW i, Level(a, s, i), NEW next, NEW t, t = SLPast(a, s, i, next)
  PROVE  /\ t = NoString => \/ DeadEnds(a) # {}
                            \/ \A u \in P : Held(a, u) /\ Beyond(s, u, next) => ~ PartsAt(a, s, u, i)
         /\ t # NoString =>
              /\ t \in P /\ Held(a, t) /\ Beyond(s, t, next)
              /\ \A u \in P : Held(a, u) /\ Beyond(s, u, next) /\ u # t =>
                   /\ PartsAt(a, s, u, i) => Beyond(t, u, next)
                   /\ \A j \in 1 .. (i - 1) : Parts(s, u, j - 1) => Beyond(t, u, next)
<1> DEFINE w == SLKey[s].way
           o == Path(w, i - 1)
           past == {q \in Children(a, o) : Beyond(w[i], q[i], next)}
           c == Closest(past, next)
<1>1. SLKey[s] \in K /\ s \in Strings
  BY DEF Keys
<1>2. /\ w \in Seq(Index) /\ Len(w) \in Nat /\ Depth(a, SLKey[s]) \in 0 .. Len(w)
      /\ \A j \in 0 .. Depth(a, SLKey[s]) : Path(w, j) \in DOMAIN a /\ Len(Path(w, j)) = j
  BY <1>1, PathDown
<1>3. i \in 1 .. Len(w) /\ i <= Depth(a, SLKey[s]) + 1
  BY DEF Level
<1>4. t = IF past = {} THEN NoString ELSE SLEnd(a, c, next)
  BY DEF SLPast
<1> HIDE DEF w
<1>5. i - 1 \in 0 .. Depth(a, SLKey[s]) /\ i \in Nat /\ i - 1 \in Nat /\ i - 1 < Len(w) /\ (i - 1) + 1 = i
  BY <1>2, <1>3
<1>6. o \in DOMAIN a /\ Len(o) = i - 1
  BY <1>2, <1>5
<1>7. /\ Row(Children(a, o))
      /\ \A q \in Children(a, o) : /\ q \in DOMAIN a /\ q \in Seq(Index) /\ Len(q) = i
                                   /\ Path(q, i - 1) = o
  BY <1>5, <1>6, ChildrenAre
<1>8. Row(past)
  <2>1. past \subseteq Children(a, o)
    OBVIOUS
  <2> HIDE DEF past
  <2> QED BY <1>7, <2>1, FS_Subset DEF Row
\* The index of a string that parts there.
<1>9. ASSUME NEW u \in P, Beyond(s, u, next), PartsAt(a, s, u, i)
      PROVE  Path(SLKey[u].way, i) \in past
  <2> DEFINE y == SLKey[u].way
  <2>1. /\ i - 1 < Len(y) /\ o = Path(y, i - 1) /\ w[i] # y[i] /\ i <= Depth(a, SLKey[u])
    BY <1>5, <1>9 DEF PartsAt, Parts, w
  <2>2. SLKey[u] \in K /\ u \in Strings
    BY DEF Keys
  <2>3. /\ y \in Seq(Index) /\ Len(y) \in Nat /\ Depth(a, SLKey[u]) \in 0 .. Len(y)
        /\ \A j \in 0 .. Depth(a, SLKey[u]) : Path(y, j) \in DOMAIN a
    BY <2>2, PathDown
  <2>4. Parts(s, u, i - 1)
    BY <1>9 DEF PartsAt
  <2>5. Beyond(s, u, next) <=> Beyond(w[(i - 1) + 1], y[(i - 1) + 1], next)
    BY <1>1, <2>2, <2>4, WayOrder DEF Parts, w
  <2> HIDE DEF y
  <2>6. Beyond(w[i], y[i], next)
    BY <1>5, <1>9, <2>5
  <2>7. i - 1 \in 0 .. (Len(y) - 1) /\ i \in 0 .. Depth(a, SLKey[u])
    BY <1>5, <2>1, <2>3
  <2>8. Path(y, i) \in DOMAIN a
    BY <2>3, <2>7
  <2>9. Path(y, i) \in Children(a, o)
    BY <1>5, <2>1, <2>3, <2>7, <2>8, ChildPath
  <2>10. i \in 0 .. Len(y) /\ i \in 1 .. i
    BY <1>3, <1>5, <2>1, <2>3
  <2>11. Path(y, i)[i] = y[i]
    BY <2>3, <2>10, PathIs
  <2> QED BY <2>6, <2>9, <2>11 DEF y
<1>10. CASE past = {}
  <2>1. t = NoString
    BY <1>4, <1>10
  <2> HIDE DEF past
  <2> QED BY <1>9, <1>10, <2>1
<1>11. CASE past # {}
  <2>1. t = SLEnd(a, c, next)
    BY <1>4, <1>11
  <2>2. c \in past /\ \A q \in past \ {c} : Beyond(c[Len(c)], q[Len(q)], next)
    <3> HIDE DEF past
    <3> QED BY <1>8, <1>11, ClosestIs
  <2>3. c \in Children(a, o) /\ Beyond(w[i], c[i], next)
    BY <2>2
  <2> HIDE DEF c
  <2>4. /\ c \in DOMAIN a /\ c \in Seq(Index) /\ Len(c) = i /\ Path(c, i - 1) = o
    BY <1>7, <2>3
  <2>5. c # <<>>
    BY <1>3, <2>4
  <2>6. /\ t = NoString => DeadEnds(a) # {}
        /\ t # NoString => FirstBelow(a, P, c, next, t)
    BY <2>1, <2>4, <2>5, EndIs
  <2>7. SUFFICES ASSUME t # NoString
        PROVE  /\ t \in P /\ Held(a, t) /\ Beyond(s, t, next)
               /\ \A u \in P : Held(a, u) /\ Beyond(s, u, next) /\ u # t =>
                   /\ PartsAt(a, s, u, i) => Beyond(t, u, next)
                   /\ \A j \in 1 .. (i - 1) : Parts(s, u, j - 1) => Beyond(t, u, next)
    BY <2>6
  <2> DEFINE x == SLKey[t].way
  <2>8. /\ t \in P /\ Held(a, t) /\ i <= Len(x) /\ Path(x, i) = c
        /\ \A u \in P : /\ u # t /\ Held(a, u)
                        /\ i <= Len(SLKey[u].way) /\ Path(SLKey[u].way, i) = c
                        => Beyond(t, u, next)
    BY <2>4, <2>6, <2>7 DEF FirstBelow
  <2>9. t \in Strings /\ x \in Seq(Index) /\ Len(x) \in Nat
    BY <2>8, WayWords
  <2> HIDE DEF x
  <2>10. i \in 0 .. Len(x) /\ i \in 1 .. i /\ i - 1 \in 0 .. i
    BY <1>5, <1>3, <2>8, <2>9
  <2>11. x[i] = c[i]
    <3>1. Path(x, i)[i] = x[i]
      BY <2>9, <2>10, PathIs
    <3> QED BY <2>8, <3>1
  <2>12. Path(x, i - 1) = o
    BY <2>4, <2>8, <2>9, <2>10, PathOfPath
  <2>13. w[i] # c[i]
    <3>1. ASSUME w[i] = c[i] PROVE FALSE
      <4>1. w[i] \in Seq(Nat)
        BY <1>1, <1>3, WayWords DEF w
      <4> QED BY <2>3, <3>1, <4>1, BeyondIs
    <3> QED BY <3>1
  <2>14. Parts(s, t, i - 1)
    BY <1>5, <1>6, <2>8, <2>9, <2>11, <2>12, <2>13 DEF Parts, w, x
  <2>15. Beyond(s, t, next)
    <3>1. Beyond(s, t, next) <=> Beyond(w[(i - 1) + 1], x[(i - 1) + 1], next)
      BY <1>1, <2>9, <2>14, WayOrder DEF Parts, w, x
    <3> QED BY <1>5, <2>3, <2>11, <3>1
  <2>16. ASSUME NEW u \in P, Held(a, u), Beyond(s, u, next), u # t, PartsAt(a, s, u, i)
         PROVE  Beyond(t, u, next)
    <3> DEFINE y == SLKey[u].way
    <3>1. u \in Strings /\ y \in Seq(Index) /\ Len(y) \in Nat
      BY WayWords
    <3>2. i - 1 < Len(y) /\ Path(y, i - 1) = o
      BY <2>16 DEF PartsAt, Parts, w
    <3>3. Path(y, i) \in past
      BY <1>9, <2>16
    <3> HIDE DEF y, past
    <3>4. i \in 0 .. Len(y) /\ i <= Len(y)
      BY <1>5, <3>1, <3>2
    <3>5. Len(Path(y, i)) = i /\ Path(y, i)[i] = y[i]
      BY <2>10, <3>1, <3>4, PathIs
    <3>6. CASE Path(y, i) = c
      BY <2>8, <2>16, <3>4, <3>6 DEF y
    <3>7. CASE Path(y, i) # c
      <4>1. Beyond(c[i], y[i], next)
        BY <2>2, <2>4, <3>3, <3>5, <3>7
      <4>2. Path(x, i) # Path(y, i)
        BY <2>8, <3>7
      <4>3. x[i] # y[i]
        <5>1. i - 1 < Len(x)
          BY <1>5, <2>8, <2>9
        <5>2. Path(x, (i - 1) + 1) = Path(y, (i - 1) + 1) <=> x[(i - 1) + 1] = y[(i - 1) + 1]
          BY <1>5, <2>9, <2>12, <3>1, <3>2, <5>1, PathStep
        <5> QED BY <1>5, <4>2, <5>2
      <4>4. Parts(t, u, i - 1)
        BY <1>5, <2>8, <2>9, <2>12, <3>1, <3>2, <4>3 DEF Parts, x, y
      <4>5. Beyond(t, u, next) <=> Beyond(x[(i - 1) + 1], y[(i - 1) + 1], next)
        BY <2>9, <3>1, <4>4, WayOrder DEF Parts, x, y
      <4> QED BY <1>5, <2>11, <4>1, <4>5
    <3> QED BY <3>6, <3>7
  <2>17. ASSUME NEW u \in P, Beyond(s, u, next), NEW j \in 1 .. (i - 1), Parts(s, u, j - 1)
         PROVE  Beyond(t, u, next)
    <3>1. j - 1 \in Nat /\ (j - 1) + 1 = j /\ j \in 0 .. (i - 1)
      BY <1>5
    <3>2. i - 1 \in 0 .. Len(x) /\ i - 1 \in 0 .. Len(w)
      BY <1>5, <2>8, <2>9
    <3>3. Path(x, j) = Path(w, j)
      BY <1>2, <2>9, <2>12, <3>1, <3>2, PathsAgree
    <3>4. j - 1 < Len(x) /\ u \in Strings
      BY <1>5, <2>8, <2>9, <3>1
    <3> QED BY <1>1, <2>9, <2>17, <3>1, <3>3, <3>4, Farther DEF x, w
  <2> QED BY <2>8, <2>15, <2>16, <2>17
<1> QED BY <1>10, <1>11

\* A tree of strings is also one of more strings, where none of the others is found.
LEMMA TreeMore ==
  ASSUME NEW K, NEW L, K \subseteq L, Coded(L), NEW V, NEW a, TreeOK(a, K, V)
  PROVE  TreeOK(a, L, V)
<1>1. \A k \in L : k.way \in Seq(Index) /\ k.way # <<>>
  BY DEF Coded, IsKey
<1>2. \A p \in DOMAIN a \ {<<>>} : \E k \in K : \E i \in 0 .. Len(k.way) : p = Path(k.way, i)
  BY DEF TreeOK
<1>3. ASSUME NEW k \in L, NEW i \in 0 .. Len(k.way), Path(k.way, i) \in DOMAIN a
      PROVE  \A j \in 0 .. (i - 1) : Path(k.way, j) \in DOMAIN a /\ a[Path(k.way, j)] = Nil
  <2>1. CASE i = 0
    BY <2>1
  <2>2. CASE i # 0
    <3>1. Path(k.way, i) # <<>>
      BY <1>1, <2>2, PathEnds
    <3>2. PICK l \in K : \E f \in 0 .. Len(l.way) : Path(k.way, i) = Path(l.way, f)
      BY <1>2, <1>3, <3>1
    <3>3. PICK f \in 0 .. Len(l.way) : Path(k.way, i) = Path(l.way, f)
      BY <3>2
    <3>4. i = f /\ \A j \in 0 .. i : Path(k.way, j) = Path(l.way, j)
      BY <1>1, <3>3, PathsAgree
    <3>5. \A j \in 0 .. (f - 1) : Path(l.way, j) \in DOMAIN a /\ a[Path(l.way, j)] = Nil
      BY <1>3, <3>3 DEF TreeOK
    <3>6. \A j \in 0 .. (i - 1) : j \in 0 .. i
      OBVIOUS
    <3> QED BY <3>4, <3>5, <3>6
  <2> QED BY <2>1, <2>2
<1>4. ASSUME NEW p \in DOMAIN a PROVE SlotOK(a, p, L, V)
  <2>1. SlotOK(a, p, K, V)
    BY DEF TreeOK
  <2>2. CASE a[p] = Nil /\ \A k \in K : p # k.way
    <3>1. ASSUME NEW k \in L, p = k.way PROVE FALSE
      <4>1. p # <<>>
        BY <1>1, <3>1
      <4>2. PICK l \in K : \E i \in 0 .. Len(l.way) : k.way = Path(l.way, i)
        BY <1>2, <3>1, <4>1
      <4>3. k = l
        BY <4>2 DEF Coded
      <4> QED BY <2>2, <3>1, <4>3
    <3> QED BY <2>2, <3>1 DEF SlotOK
  <2>3. CASE ~ (a[p] = Nil /\ \A k \in K : p # k.way)
    BY <2>1, <2>3 DEF SlotOK
  <2> QED BY <2>2, <2>3
<1>5. \A p \in DOMAIN a \ {<<>>} : \E k \in L : \E i \in 0 .. Len(k.way) : p = Path(k.way, i)
  BY <1>2
<1>6. a = [p \in DOMAIN a |-> a[p]] /\ IsFiniteSet(DOMAIN a) /\ <<>> \in DOMAIN a
  BY DEF TreeOK
<1> QED BY <1>3, <1>4, <1>5, <1>6 DEF TreeOK

\* Where a string is, seen from the way of another one: in the leaf at its end, or past
\* one of its levels.
LEMMA Aside ==
  ASSUME NEW P \in SUBSET Strings, NEW K, K = Keys(SLKey, P), Coded(K), NEW V, NEW a, TreeOK(a, K, V),
         NEW s \in P, NEW u \in P, Held(a, u), NEW e, Parts(s, u, e)
  PROVE  \/ \E v \in V : Slot(a, SLKey[s]) = Leaf(SLKey[u], v)
         \/ /\ Level(a, s, e + 1) /\ PartsAt(a, s, u, e + 1)
            /\ Slot(a, SLKey[s]).t = "leaf" => e < Depth(a, SLKey[s])
<1> DEFINE k == SLKey[s]
           l == SLKey[u]
           d == Depth(a, k)
           f == Depth(a, l)
<1>1. k \in K /\ l \in K
  BY DEF Keys
<1>2. /\ e \in Nat /\ e < Len(k.way) /\ e < Len(l.way) /\ Path(k.way, e) = Path(l.way, e)
      /\ Get(a, l) # Nil
  BY DEF Parts, Held
<1>3. Slot(a, k) = a[Path(k.way, d)]
  BY DEF Slot
<1>4. Level(a, s, e + 1) <=> e + 1 \in 1 .. Len(k.way) /\ e + 1 <= d + 1
  BY DEF Level
<1>5. e + 1 <= f => PartsAt(a, s, u, e + 1)
  BY <1>2 DEF PartsAt
<1> SUFFICES \/ \E v \in V : Slot(a, k) = Leaf(l, v)
             \/ e + 1 \in 1 .. Len(k.way) /\ e + 1 <= d + 1 /\ e + 1 <= f
                /\ (Slot(a, k).t = "leaf" => e < d)
  BY <1>4, <1>5
<1> HIDE DEF k, l
<1>6. /\ k.way \in Seq(Index) /\ Len(k.way) \in Nat /\ d \in 0 .. Len(k.way)
      /\ \A i \in 0 .. d : Path(k.way, i) \in DOMAIN a
      /\ \A i \in 0 .. d : i < d => a[Path(k.way, i)] = Nil
      /\ \A i \in 0 .. Len(k.way) : Path(k.way, i) \in DOMAIN a => i <= d
  BY <1>1, PathDown
<1>7. /\ l.way \in Seq(Index) /\ Len(l.way) \in Nat /\ f \in 0 .. Len(l.way)
      /\ \A i \in 0 .. f : Path(l.way, i) \in DOMAIN a
      /\ \A i \in 0 .. f : i < f => a[Path(l.way, i)] = Nil
      /\ \A i \in 0 .. Len(l.way) : Path(l.way, i) \in DOMAIN a => i <= f
  BY <1>1, PathDown
<1>8. a[Path(l.way, f)] # Nil
  BY <1>1, <1>2, OwnSlot
<1>9. PICK v \in V : Get(a, l) = Val(v)
  BY <1>1, <1>2, GetHolds
<1>10. Holds(a, l, v)
  BY <1>1, <1>9, GetHolds
<1>11. PICK q \in DOMAIN a : HoldsAt(a, q, l, v)
  BY <1>10 DEF Holds
<1>12. q = Path(l.way, f) /\ (a[q] = Val(v) => f = Len(l.way))
  BY <1>1, <1>11, Holder
<1>13. a[Path(l.way, f)] = Leaf(l, v) \/ f = Len(l.way)
  BY <1>11, <1>12 DEF HoldsAt
<1> HIDE DEF d, f
<1>14. e \in 0 .. Len(k.way) /\ e \in 0 .. Len(l.way)
  BY <1>2, <1>6, <1>7
<1>15. \A j \in 0 .. e : Path(k.way, j) = Path(l.way, j)
  BY <1>2, <1>6, <1>7, <1>14, PathsAgree
<1>16. CASE e < d
  <2>1. e < f
    <3> SUFFICES ASSUME ~ (e < f) PROVE FALSE
      OBVIOUS
    <3>1. f \in 0 .. e /\ f \in 0 .. d /\ f < d
      BY <1>2, <1>6, <1>7, <1>16
    <3>2. a[Path(k.way, f)] = Nil
      BY <1>6, <3>1
    <3> QED BY <1>8, <1>15, <3>1, <3>2
  <2> QED BY <1>2, <1>6, <1>7, <1>16, <2>1
<1>17. CASE ~ (e < d)
  <2>1. d \in 0 .. e /\ d \in 0 .. Len(l.way) /\ d \in 0 .. d
    BY <1>2, <1>6, <1>7, <1>17
  <2>2. Path(k.way, d) = Path(l.way, d) /\ Path(k.way, d) \in DOMAIN a
    BY <1>6, <1>15, <2>1
  <2>3. d <= f
    BY <1>7, <2>1, <2>2
  <2>4. CASE d < f
    <3>1. d \in 0 .. f /\ d + 1 \in 0 .. f
      BY <1>6, <1>7, <2>4
    <3>2. Slot(a, k) = Nil
      BY <1>3, <1>7, <2>2, <2>4, <3>1
    <3>3. e = d
      <4> SUFFICES ASSUME e # d PROVE FALSE
        OBVIOUS
      <4>1. d + 1 \in 0 .. e /\ d + 1 \in 0 .. Len(k.way)
        BY <1>2, <1>6, <1>17
      <4>2. Path(k.way, d + 1) \in DOMAIN a
        BY <1>7, <1>15, <3>1, <4>1
      <4>3. d + 1 <= d
        BY <1>6, <4>1, <4>2
      <4> QED BY <1>6, <4>3
    <3>4. Slot(a, k).t # "leaf"
      BY <3>2, SlotShapes
    <3> QED BY <1>2, <1>6, <1>7, <2>4, <3>3, <3>4
  <2>5. CASE ~ (d < f)
    <3>1. d = f
      BY <1>6, <1>7, <2>3, <2>5
    <3>2. f # Len(l.way)
      BY <1>2, <1>6, <1>7, <1>17, <3>1
    <3> QED BY <1>3, <1>13, <2>2, <3>1, <3>2
  <2> QED BY <2>4, <2>5
<1> QED BY <1>16, <1>17

\* What a walk from s may return.
Nearest(a, P, s, next, t) ==
  LET on == {u \in P : Held(a, u) /\ Beyond(s, u, next)}
  IN  /\ t = NoString => on = {} \/ DeadEnds(a) # {}
      /\ t # NoString => t \in on /\ (DeadEnds(a) # {} \/ \A u \in on \ {t} : Beyond(t, u, next))

\* The levels at which there is something past the way of s.
Levels(a, s, next) ==
  {i \in 1 .. Min({Depth(a, SLKey[s]) + 1, Len(SLKey[s].way)}) : SLPast(a, s, i, next) # NoString}

\* The three ends of a search: the leaf on the way, none, or past the last level that has something.
LEMMA SeekCases ==
  ASSUME NEW a, NEW s, NEW next, NEW slot, slot = Slot(a, SLKey[s])
  PROVE  /\ slot.t = "leaf" /\ Beyond(s, slot.key.str, next) => SLSeek(a, s, next) = slot.key.str
         /\ ~ (slot.t = "leaf" /\ Beyond(s, slot.key.str, next)) /\ Levels(a, s, next) = {} =>
              SLSeek(a, s, next) = NoString
         /\ ~ (slot.t = "leaf" /\ Beyond(s, slot.key.str, next)) /\ Levels(a, s, next) # {} =>
              SLSeek(a, s, next) = SLPast(a, s, Max(Levels(a, s, next)), next)
<1> DEFINE leafward == slot.t = "leaf" /\ Beyond(s, slot.key.str, next)
           g == Levels(a, s, next)
<1>1. SLSeek(a, s, next) =
        CASE leafward -> slot.key.str
          [] (slot.t = "leaf" => ~ Beyond(s, slot.key.str, next)) /\ g = {} -> NoString
          [] OTHER -> SLPast(a, s, Max(g), next)
  BY DEF SLSeek, Levels
<1>2. (slot.t = "leaf" => ~ Beyond(s, slot.key.str, next)) <=> ~ leafward
  OBVIOUS
<1> HIDE DEF leafward, g
<1>3. SLSeek(a, s, next) =
        CASE leafward -> slot.key.str
          [] ~ leafward /\ g = {} -> NoString
          [] OTHER -> SLPast(a, s, Max(g), next)
  BY <1>1, <1>2
<1>4. /\ leafward => SLSeek(a, s, next) = slot.key.str
      /\ ~ leafward /\ g = {} => SLSeek(a, s, next) = NoString
      /\ ~ leafward /\ g # {} => SLSeek(a, s, next) = SLPast(a, s, Max(g), next)
  BY <1>3
<1> QED BY <1>4 DEF leafward, g

\* The levels of the way of a string that has its slots in the tree.
LEMMA LevelsAre ==
  ASSUME NEW P \in SUBSET Strings, NEW K, K = Keys(SLKey, P), Coded(K), NEW V, NEW a, TreeOK(a, K, V),
         NEW s \in P, NEW next
  PROVE  /\ \A i : i \in Levels(a, s, next) <=> Level(a, s, i) /\ SLPast(a, s, i, next) # NoString
         /\ Levels(a, s, next) # {} =>
              /\ Max(Levels(a, s, next)) \in Levels(a, s, next)
              /\ \A i \in Levels(a, s, next) : i <= Max(Levels(a, s, next))
<1> DEFINE k == SLKey[s]
           n == Min({Depth(a, k) + 1, Len(k.way)})
           g == Levels(a, s, next)
<1>1. k \in K
  BY DEF Keys
<1>2. Len(k.way) \in Nat /\ Depth(a, k) \in 0 .. Len(k.way)
  BY <1>1, PathDown
<1>3. n = IF Depth(a, k) + 1 <= Len(k.way) THEN Depth(a, k) + 1 ELSE Len(k.way)
  BY <1>2, MinOfTwo
<1>4. g = {i \in 1 .. n : SLPast(a, s, i, next) # NoString}
  BY DEF Levels
<1>5. \A i : Level(a, s, i) <=> i \in 1 .. Len(k.way) /\ i <= Depth(a, k) + 1
  BY DEF Level
<1> HIDE DEF k, n, g
<1>6. \A i : i \in 1 .. n <=> i \in 1 .. Len(k.way) /\ i <= Depth(a, k) + 1
  BY <1>2, <1>3
<1>7. n \in Nat /\ g \subseteq 0 .. n
  BY <1>2, <1>3, <1>4
<1>8. g # {} => Max(g) \in g /\ \A i \in g : i <= Max(g)
  BY <1>7, MaxOf
<1> QED BY <1>4, <1>5, <1>6, <1>8 DEF g

\* JudySLNext() and JudySLPrev() in any tree of strings.
LEMMA SeekIs ==
  ASSUME NEW P \in SUBSET Strings, NEW K, K = Keys(SLKey, P), Coded(K), NEW V, NEW a, TreeOK(a, K, V),
         NEW s \in P, NEW next, NEW t, t = SLSeek(a, s, next)
  PROVE  Nearest(a, P, s, next, t)
<1> DEFINE k == SLKey[s]
           slot == Slot(a, k)
           on == {u \in P : Held(a, u) /\ Beyond(s, u, next)}
           g == Levels(a, s, next)
           m == Max(g)
<1>1. k \in K /\ s \in Strings
  BY DEF Keys
<1>2. /\ slot.t = "leaf" /\ Beyond(s, slot.key.str, next) => t = slot.key.str
      /\ ~ (slot.t = "leaf" /\ Beyond(s, slot.key.str, next)) /\ g = {} => t = NoString
      /\ ~ (slot.t = "leaf" /\ Beyond(s, slot.key.str, next)) /\ g # {} =>
           t = SLPast(a, s, m, next)
  BY SeekCases
<1>3. /\ \A i : i \in g <=> Level(a, s, i) /\ SLPast(a, s, i, next) # NoString
      /\ g # {} => m \in g /\ \A i \in g : i <= m
  BY LevelsAre
<1>4. ASSUME NEW u \in on
      PROVE  u \in P /\ u \in Strings /\ Held(a, u) /\ Beyond(s, u, next) /\ u # s
  <2>1. s \in Seq(Nat)
    BY <1>1, StringsAssumption
  <2> QED BY <2>1, BeyondIs
<1>5. SUFFICES /\ t = NoString => on = {} \/ DeadEnds(a) # {}
               /\ t # NoString =>
                    t \in on /\ (DeadEnds(a) # {} \/ \A u \in on \ {t} : Beyond(t, u, next))
  BY DEF Nearest
<1>6. ASSUME NEW u \in on
      PROVE  \E e : /\ Parts(s, u, e) /\ e \in Nat
                    /\ \/ \E v \in V : slot = Leaf(SLKey[u], v)
                       \/ /\ Level(a, s, e + 1) /\ PartsAt(a, s, u, e + 1)
                          /\ slot.t = "leaf" => e < Depth(a, k)
  <2>1. PICK e : Parts(s, u, e)
    BY <1>1, <1>4, PartsAre
  <2>2. e \in Nat
    BY <2>1 DEF Parts
  <2> QED BY <1>4, <2>1, <2>2, Aside
\* The string of a leaf.
<1>7. ASSUME NEW u \in Strings, NEW v, slot = Leaf(SLKey[u], v)
      PROVE  slot.t = "leaf" /\ slot.key = SLKey[u] /\ slot.key.str = u
  BY <1>7, SlotShapes, SLKeyIs
<1>8. CASE slot.t = "leaf" /\ Beyond(s, slot.key.str, next)
  <2>1. /\ k.way \in Seq(Index) /\ Len(k.way) \in Nat /\ Depth(a, k) \in 0 .. Len(k.way)
        /\ \A i \in 0 .. Depth(a, k) : Path(k.way, i) \in DOMAIN a
    BY <1>1, PathDown
  <2> DEFINE q == Path(k.way, Depth(a, k))
  <2>2. q \in DOMAIN a /\ slot = a[q]
    BY <2>1 DEF Slot
  <2>3. SlotOK(a, q, K, V)
    BY <2>2 DEF TreeOK
  <2> HIDE DEF q
  <2>4. PICK l \in K, v \in V : a[q] = Leaf(l, v)
    BY <1>8, <2>2, <2>3, SlotShapes DEF SlotOK
  <2>5. PICK x \in P : l = SLKey[x]
    BY DEF Keys
  <2>6. t = x /\ x \in Strings
    BY <1>2, <1>7, <1>8, <2>2, <2>4, <2>5
  <2>7. HoldsAt(a, q, l, v) /\ Holds(a, l, v)
    BY <2>2, <2>4 DEF HoldsAt, Holds
  <2>8. Get(a, l) = Val(v)
    BY <2>7, GetHolds
  <2>9. Held(a, x)
    BY <2>5, <2>8, SlotShapes DEF Held
  <2>10. Beyond(s, x, next)
    BY <1>7, <1>8, <2>2, <2>4, <2>5, <2>6
  <2>11. t \in on
    BY <2>6, <2>9, <2>10
  <2>12. q = Path(l.way, Depth(a, l)) /\ l.way \in Seq(Index) /\ Len(l.way) \in Nat
         /\ Depth(a, l) \in 0 .. Len(l.way)
    BY <2>2, <2>7, Holder, PathDown
  <2>13. Depth(a, k) = Depth(a, l) /\ \A j \in 0 .. Depth(a, k) : Path(k.way, j) = Path(l.way, j)
    BY <2>1, <2>12, PathsAgree DEF q
  <2>14. ASSUME NEW u \in on, u # t PROVE Beyond(t, u, next)
    <3>1. PICK e : /\ Parts(s, u, e) /\ e \in Nat
                   /\ \/ \E w \in V : slot = Leaf(SLKey[u], w)
                      \/ /\ Level(a, s, e + 1) /\ PartsAt(a, s, u, e + 1)
                         /\ slot.t = "leaf" => e < Depth(a, k)
      BY <1>6
    <3>2. ~ \E w \in V : slot = Leaf(SLKey[u], w)
      BY <1>2, <1>4, <1>7, <1>8, <2>14
    <3>3. e < Depth(a, k)
      BY <1>8, <3>1, <3>2
    <3>4. e + 1 \in 0 .. Depth(a, k) /\ e < Len(l.way)
      BY <2>1, <2>12, <2>13, <3>1, <3>3
    <3>5. Path(l.way, e + 1) = Path(k.way, e + 1)
      BY <2>13, <3>4
    <3> QED BY <1>1, <1>4, <2>5, <2>6, <3>1, <3>4, <3>5, Farther DEF k
  <2>15. t # NoString
    BY <2>6, NoStringIs
  <2> QED BY <2>11, <2>14, <2>15
<1>9. CASE ~ (slot.t = "leaf" /\ Beyond(s, slot.key.str, next))
  <2>1. ASSUME NEW u \in on
        PROVE  \E i \in Nat : Parts(s, u, i - 1) /\ Level(a, s, i) /\ PartsAt(a, s, u, i)
    <3>1. PICK e : /\ Parts(s, u, e) /\ e \in Nat
                   /\ \/ \E w \in V : slot = Leaf(SLKey[u], w)
                      \/ /\ Level(a, s, e + 1) /\ PartsAt(a, s, u, e + 1)
                         /\ slot.t = "leaf" => e < Depth(a, k)
      BY <1>6
    <3>2. ~ \E w \in V : slot = Leaf(SLKey[u], w)
      BY <1>4, <1>7, <1>9
    <3>3. e + 1 \in Nat /\ (e + 1) - 1 = e
      BY <3>1
    <3> QED BY <3>1, <3>2, <3>3
  \* Past a level that the walk does not take there is nothing, or a dead end.
  <2>2. ASSUME NEW u \in on, NEW i, Level(a, s, i), PartsAt(a, s, u, i), i \notin g
        PROVE  DeadEnds(a) # {}
    <3>1. SLPast(a, s, i, next) = NoString
      BY <1>3, <2>2
    <3> QED BY <1>4, <2>2, <3>1, PastIs
  <2>3. CASE g = {}
    <3>1. t = NoString
      BY <1>2, <1>9, <2>3
    <3>2. ASSUME on # {} PROVE DeadEnds(a) # {}
      <4>1. PICK u \in on : TRUE
        BY <3>2
      <4> HIDE DEF on, g
      <4> QED BY <2>1, <2>2, <2>3
    <3> QED BY <3>1, <3>2
  <2>4. CASE g # {}
    <3>1. t = SLPast(a, s, m, next) /\ m \in g /\ \A i \in g : i <= m
      BY <1>2, <1>3, <1>9, <2>4
    <3>2. Level(a, s, m) /\ t # NoString
      BY <1>3, <3>1
    <3>3. m \in Nat
      BY <3>2 DEF Level
    <3> HIDE DEF m
    <3>4. /\ t \in P /\ Held(a, t) /\ Beyond(s, t, next)
          /\ \A u \in P : Held(a, u) /\ Beyond(s, u, next) /\ u # t =>
               /\ PartsAt(a, s, u, m) => Beyond(t, u, next)
               /\ \A j \in 1 .. (m - 1) : Parts(s, u, j - 1) => Beyond(t, u, next)
      BY <3>1, <3>2, PastIs
    <3>5. t \in on
      BY <3>4
    <3>6. ASSUME NEW u \in on, u # t, DeadEnds(a) = {} PROVE Beyond(t, u, next)
      <4>1. PICK i \in Nat : Parts(s, u, i - 1) /\ Level(a, s, i) /\ PartsAt(a, s, u, i)
        BY <2>1
      <4>2. i \in g
        BY <2>2, <3>6, <4>1
      <4>3. i <= m
        BY <3>1, <4>2
      <4>4. i = m \/ i \in 1 .. (m - 1)
        BY <3>3, <4>1, <4>3 DEF Level
      <4> QED BY <1>4, <3>4, <3>6, <4>1, <4>4
    <3> QED BY <3>2, <3>5, <3>6
  <2> QED BY <2>3, <2>4
<1> QED BY <1>8, <1>9

\* A walk from any string, of the pool or not.
LEMMA WalkIs ==
  ASSUME IInv, NEW s \in Strings, NEW next, NEW t, t = SLSeek(keyIndex, s, next),
         NEW on, on = {u \in DOMAIN seen.indexed : Beyond(s, u, next)}
  PROVE  /\ t = NoString => on = {} \/ DeadEnds(keyIndex) # {}
         /\ t # NoString =>
              t \in on /\ (DeadEnds(keyIndex) # {} \/ \A u \in on \ {t} : Beyond(t, u, next))
<1> DEFINE P == pool \union {s}
           K == Keys(SLKey, P)
           O == {u \in P : Held(keyIndex, u) /\ Beyond(s, u, next)}
<1>1. pool \in SUBSET Strings /\ Trees(pool, array, keyIndex) /\ Twins(pool, array, keyIndex)
  BY StateIs
<1>2. P \in SUBSET Strings /\ s \in P
  BY <1>1
<1>3. Coded(K)
  BY <1>2, SLCoded DEF Keys
<1>4. TreeOK(keyIndex, Keys(SLKey, pool), pool) /\ Keys(SLKey, pool) \subseteq K
  BY <1>1 DEF Trees, Keys
<1>5. DOMAIN seen.indexed = {u \in pool : Held(keyIndex, u)}
  <2>1. DOMAIN seen.indexed = Found(pool, array)
    BY DEF IInv, Each
  <2>2. \A u \in pool : HSGet(array, u) = SLGet(keyIndex, u)
    BY <1>1 DEF Twins
  <2> QED BY <2>1, <2>2 DEF Found, Held, SLGet
<1>6. ~ Beyond(s, s, next)
  <2>1. s \in Seq(Nat)
    BY StringsAssumption
  <2> QED BY <2>1, BeyondIs
<1>7. on = O
  BY <1>5, <1>6
<1> HIDE DEF K
<1>8. TreeOK(keyIndex, K, pool)
  BY <1>3, <1>4, TreeMore
<1>9. Nearest(keyIndex, P, s, next, t)
  <2> HIDE DEF P
  <2> QED BY <1>2, <1>3, <1>8, SeekIs DEF K
<1> QED BY <1>7, <1>9 DEF Nearest

\* A walk finds the nearest string on its side of any string, in the order of strcmp().
\* A dead end can cost it strings, but it never returns one that is not there.
THEOREM WalksFind ==
  ASSUME FailAnywhere = FALSE
  PROVE  Spec => []WalksAgree
<1>1. IInv => WalksAgree
  <2> SUFFICES ASSUME IInv PROVE WalksAgree
    OBVIOUS
  <2> SUFFICES ASSUME NEW s \in Probes \union pool, NEW next \in BOOLEAN
               PROVE  LET on == {u \in DOMAIN seen.indexed : Beyond(s, u, next)}
                          t  == SLSeek(keyIndex, s, next)
                      IN  IF t = NoString THEN on = {} \/ DeadEnds(keyIndex) # {}
                          ELSE t \in on /\ (DeadEnds(keyIndex) # {} \/ \A u \in on \ {t} : Beyond(t, u, next))
    BY DEF WalksAgree
  <2> DEFINE on == {u \in DOMAIN seen.indexed : Beyond(s, u, next)}
             t  == SLSeek(keyIndex, s, next)
  <2>1. s \in Strings
    BY ProbesAssumption, StateIs
  <2>2. /\ t = NoString => on = {} \/ DeadEnds(keyIndex) # {}
        /\ t # NoString =>
             t \in on /\ (DeadEnds(keyIndex) # {} \/ \A u \in on \ {t} : Beyond(t, u, next))
    BY <2>1, WalkIs
  <2> QED BY <2>2
<1> QED BY <1>1, InStep, PTL

=============================================================================
