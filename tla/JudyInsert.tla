----------------------------- MODULE JudyInsert -----------------------------
(***************************************************************************)
(* Judy1Set() and JudyLIns(): the insertion walk, the branches it creates  *)
(* and converts, and the cascade of a full leaf into smaller ones.  Every  *)
(* step of the walk returns rc (-1: out of memory, 0: the index was there, *)
(* 1: inserted), the new JP and the new m.                                 *)
(***************************************************************************)
EXTENDS JudyTree

Ret(rc, jp, m) == [rc |-> rc, jp |-> jp, m |-> m]

NoMem(jp, m) == Ret(-1, jp, Failed(m))

-----------------------------------------------------------------------------
(* Branches. *)

\* Whatever the old JP was, its children move to the new branch.
CreateBranchL(k, dcd, pop0, jps, m) ==
  IF ~CanAlloc(m, 1) THEN NoMem(Null(k), m)
  ELSE Ret(1, Branch("branchL", k, dcd, pop0, jps), Alloced(m, 1, BranchLWords))

\* One JBB, and one sub-array of JPs for each sub-expanse that has some.
CreateBranchB(jp, m) ==
  LET ds == DOMAIN jp.jps
      n  == 1 + Cardinality(SubExpanses(ds))
  IN  IF ~CanAlloc(m, n) THEN NoMem(jp, m)
      ELSE Ret(1, [jp EXCEPT !.t = "branchB"],
               Alloced(m, n, BranchBWords + SubWords(ds, JPWords)))

Uncompressed(jp) ==
  [jp EXCEPT !.t = "branchU",
             !.jps = [d \in Digits |-> IF d \in DOMAIN jp.jps THEN jp.jps[d]
                                       ELSE Null(jp.lvl - 1)]]

\* The JBU is allocated first, then the bitmap and its sub-arrays are freed.
CreateBranchU(jp, m) ==
  IF ~CanAlloc(m, 1) THEN NoMem(jp, m)
  ELSE Ret(1, Uncompressed(jp),
           [Freed(Alloced(m, 1, BranchUWords), OwnWords(jp)) EXCEPT !.lastU = m.pop0])

ConvertBranchLtoU(jp, m) ==
  IF ~CanAlloc(m, 1) THEN NoMem(jp, m)
  ELSE Ret(1, Uncompressed(jp),
           [Freed(Alloced(m, 1, BranchUWords), BranchLWords) EXCEPT !.lastU = m.pop0])

\* The lowest level whose digit tells the narrow pointer from the index.
BranchLevel(jp, idx) ==
  CHOOSE k \in (jp.lvl + 1)..(Levels - 1) :
    /\ Digit(jp.dcd * Base^jp.lvl, k) # Digit(Trim(idx), k)
    /\ Dcd(idx, k) = jp.dcd \div Base^(k - jp.lvl)

\* An index that does not belong under a narrow pointer: a branch of the two.
InsertBranch(jp, idx, m) ==
  LET k   == BranchLevel(jp, idx)
      jps == (Digit(jp.dcd * Base^jp.lvl, k) :> jp) @@ (Digit(idx, k) :> Immed1(k - 1, idx, 0))
      r   == CreateBranchL(k, jp.dcd \div Base^(k - jp.lvl), jp.pop0, jps, m)
  IN  IF r.rc = -1 THEN NoMem(jp, m) ELSE r

-----------------------------------------------------------------------------
(* The cascade of a full leaf. *)

\* The digits at level k of a set of keys, and the keys below one of them.
DigitsAt(keys, k) == {Digit(x, k) : x \in DOMAIN keys}

Below(keys, k, d) ==
  [y \in {Low(x, k - 1) : x \in {z \in DOMAIN keys : Digit(z, k) = d}} |->
     keys[d * Base^(k - 1) + y]]

ToLeafB1(dcd, pop0, keys, m) ==
  LET n == 1 + (IF Judy1 THEN 0 ELSE Cardinality(SubExpanses(DOMAIN keys)))
  IN  IF ~CanAlloc(m, n) THEN NoMem(Null(1), m)
      ELSE Ret(1, LeafB1(dcd, pop0, keys), Alloced(m, n, OwnWords(LeafB1(dcd, pop0, keys))))

\* Cascade1: the bitmap takes the place of the leaf, under the same JP.
Cascade1(jp, m) ==
  LET r == ToLeafB1(jp.dcd, jp.pop0, jp.keys, m)
  IN  IF r.rc = -1 THEN NoMem(jp, m) ELSE r

\* JLL2toJLB1 or a lower leaf: every key of the leaf is in one expanse.
CascadeCompress(jp, m) ==
  LET k    == jp.lvl
      d    == CHOOSE x \in DigitsAt(jp.keys, k) : TRUE
      keys == Below(jp.keys, k, d)
  IN  IF k = 2
      THEN LET r == ToLeafB1(jp.dcd * Base + d, jp.pop0, keys, m)
           IN  IF r.rc = -1 THEN NoMem(jp, m) ELSE r
      ELSE IF ~CanAlloc(m, 1) THEN NoMem(jp, m)
      ELSE Ret(1, Leaf(k - 1, jp.dcd * Base + d, jp.pop0, keys),
               Alloced(m, 1, LeafWords(Cardinality(DOMAIN keys))))

\* The JP staged for one expanse of the leaf, by its population.
StageJP(k, dcd, keys, d) ==
  LET sub  == Below(keys, k, d)
      pop1 == Cardinality(DOMAIN sub)
      at   == dcd * Base^k + d * Base^(k - 1)
  IN  IF pop1 = 1
      THEN LET y == CHOOSE x \in DOMAIN sub : TRUE IN Immed1(k - 1, at + y, sub[y])
      ELSE IF pop1 <= ImmedMax[k - 1] THEN Immed(k - 1, sub)
      ELSE IF k > 2 \/ (~Judy1 /\ pop1 <= LeafMax[1])
      THEN Leaf(k - 1, Dcd(at, k - 1), pop1 - 1, sub)
      ELSE LeafB1(Dcd(at, k - 1), pop1 - 1, sub)

\* How often StageJP calls malloc().
Mallocs(jp) ==
  CASE jp.t = "immed" -> IF Judy1 THEN 0 ELSE 1
    [] jp.t = "leaf" -> 1
    [] jp.t = "leafB1" -> 1 + (IF Judy1 THEN 0 ELSE Cardinality(SubExpanses(DOMAIN jp.keys)))
    [] OTHER -> 0

StageMallocs(jps) == MapThenSumSet(LAMBDA d : Mallocs(jps[d]), DOMAIN jps)

\* Everything staged is freed when an allocation fails (FREEALLEXIT).
Staged(jps, m) ==
  IF ~CanAlloc(m, StageMallocs(jps)) THEN Failed(m)
  ELSE Alloced(m, StageMallocs(jps), MapThenSumSet(LAMBDA d : OwnWords(jps[d]), DOMAIN jps))

\* A mutant of StagedBranch: what is staged is kept when the branch cannot be had.
StagedBranchLeaks(jp, jps, m) ==
  LET s == Staged(jps, m)
      r == IF Cardinality(DOMAIN jps) <= BranchLMaxJPs
           THEN CreateBranchL(jp.lvl, jp.dcd, jp.pop0, jps, s)
           ELSE CreateBranchB(Branch("branchL", jp.lvl, jp.dcd, jp.pop0, jps), s)
  IN  IF r.rc = -1 THEN NoMem(jp, s) ELSE r

StagedBranch(jp, jps, m) ==
  LET s == Staged(jps, m)
      r == IF Cardinality(DOMAIN jps) <= BranchLMaxJPs
           THEN CreateBranchL(jp.lvl, jp.dcd, jp.pop0, jps, s)
           ELSE CreateBranchB(Branch("branchL", jp.lvl, jp.dcd, jp.pop0, jps), s)
  IN  IF r.rc = -1 THEN NoMem(jp, m) ELSE r

\* Cascade2 .. Cascade7.
Cascade(jp, m) ==
  LET ds == DigitsAt(jp.keys, jp.lvl)
  IN  IF Cardinality(ds) = 1 THEN CascadeCompress(jp, m)
      ELSE StagedBranch(jp, [d \in ds |-> StageJP(jp.lvl, jp.dcd, jp.keys, d)], m)

\* What CascadeL has staged when it gives up: its early returns free nothing.
LostWords(jps, left) ==
  LET leaves == {d \in DOMAIN jps : jps[d].t = "leaf"}
      got    == {d \in leaves : Cardinality({e \in leaves : e < d}) < left}
  IN  MapThenSumSet(LAMBDA d : OwnWords(jps[d]), got)

\* CascadeL: the root leaf becomes a branch of the root level, even of one JP.
CascadeL(keys, m) ==
  LET k    == Levels
      ds   == DigitsAt(keys, k)
      one  == Cardinality(ds) = 1
      jps  == [d \in ds |-> IF one THEN Leaf(k - 1, 0, Cardinality(DOMAIN keys) - 1, Below(keys, k, d))
                            ELSE StageJP(k, 0, keys, d)]
      root == Leaf(k, 0, 0, keys)
      r    == StagedBranch(root, jps, m)
      lost == IF one \/ ~CanAlloc(m, StageMallocs(jps)) THEN LostWords(jps, m.left) ELSE 0
  IN  IF r.rc = -1 THEN Ret(-1, root, [Failed(m) EXCEPT !.heap = @ + lost]) ELSE r

-----------------------------------------------------------------------------
(* The walk. *)

Added(f, x) == f @@ (x :> 0)

\* An immediate takes the index in the JP (JudyL: values in an area of their
\* own), and the last one that fits turns into a leaf or a bitmap.
InsImmed1(jp, idx, m) ==
  LET k    == jp.lvl
      keys == (Low(jp.key, k) :> jp.val) @@ (Low(idx, k) :> 0)
  IN  IF jp.key = Trim(idx) THEN Ret(0, jp, m)
      ELSE IF ImmedMax[k] >= 2
      THEN IF Judy1 THEN Ret(1, Immed(k, keys), m)
           ELSE IF ~CanAlloc(m, 1) THEN NoMem(jp, m)
           ELSE Ret(1, Immed(k, keys), Alloced(m, 1, ValueWords(2)))
      ELSE IF ~CanAlloc(m, 1) THEN NoMem(jp, m)
      ELSE Ret(1, Leaf(k, Dcd(idx, k), 0, keys), Alloced(m, 1, LeafWords(2)))

\* JU_IMMSETINPLACE: JudyL always takes a new value area.
InsImmedInPlace(jp, idx, m) ==
  LET n == Cardinality(DOMAIN jp.keys)
      r == [jp EXCEPT !.keys = Added(@, Low(idx, jp.lvl))]
  IN  IF Judy1 THEN Ret(1, r, m)
      ELSE IF ~CanAlloc(m, 1) THEN NoMem(jp, m)
      ELSE Ret(1, r, Freed(Alloced(m, 1, ValueWords(n + 1)), ValueWords(n)))

\* JU_IMMSETCASCADE, and cJ1_JPIMMED_1_15: pop0 is that of the old immediate,
\* the caller adds the new index.
InsImmedCascade(jp, idx, m) ==
  LET k    == jp.lvl
      n    == Cardinality(DOMAIN jp.keys)
      keys == Added(jp.keys, Low(idx, k))
  IN  IF ~CanAlloc(m, 1) THEN NoMem(jp, m)
      ELSE IF Judy1 /\ k = 1
      THEN Ret(1, LeafB1(Dcd(idx, 1), n - 1, keys), Alloced(m, 1, LeafB1Words))
      ELSE Ret(1, Leaf(k, Dcd(idx, k), n - 1, keys),
               Freed(Alloced(m, 1, LeafWords(n + 1)), ValueWords(n)))

InsImmed(jp, idx, m) ==
  IF Low(idx, jp.lvl) \in DOMAIN jp.keys THEN Ret(0, jp, m)
  ELSE IF Cardinality(DOMAIN jp.keys) < ImmedMax[jp.lvl] THEN InsImmedInPlace(jp, idx, m)
  ELSE InsImmedCascade(jp, idx, m)

\* JU_LEAFGROW: in the slack of the chunk, or in a copy one index larger.
LeafGrow(jp, idx, m) ==
  LET n == jp.pop0 + 1
      r == [jp EXCEPT !.keys = Added(@, Low(idx, jp.lvl))]
  IN  IF GrowsInPlace(n, LeafMax[jp.lvl], LeafWords) THEN Ret(1, r, m)
      ELSE IF ~CanAlloc(m, 1) THEN NoMem(jp, m)
      ELSE Ret(1, r, Freed(Alloced(m, 1, LeafWords(n + 1)), LeafWords(n)))

\* cJU_JPLEAF_B1: Judy1 sets the bit, or drops the bitmap of a full expanse;
\* JudyL makes room in the value area of the sub-expanse.
InsLeafB1(jp, idx, m) ==
  LET x == Low(idx, 1)
      n == Cardinality(InSubExpanse(DOMAIN jp.keys, x \div SubExpanse))
      r == [jp EXCEPT !.keys = Added(@, x)]
  IN  IF x \in DOMAIN jp.keys THEN Ret(0, jp, m)
      ELSE IF Judy1
      THEN IF jp.pop0 + 1 < Base - 1 THEN Ret(1, r, m)
           ELSE Ret(1, Full(jp.dcd, jp.pop0), Freed(m, LeafB1Words))
      ELSE IF n > 0 /\ GrowsInPlace(n, SubExpanse, ValueWords) THEN Ret(1, r, m)
      ELSE IF ~CanAlloc(m, 1) THEN NoMem(jp, m)
      ELSE Ret(1, r, Freed(Alloced(m, 1, ValueWords(n + 1)), ValueWords(n)))

\* A linear branch with room for the new digit takes an immediate of one index.
BranchLAdd(jp, idx, m) ==
  LET d == Digit(idx, jp.lvl)
  IN  Ret(1, [jp EXCEPT !.jps = @ @@ (d :> Immed1(jp.lvl - 1, idx, 0))], m)

\* The same in a bitmap branch: the sub-array of JPs grows.
BranchBAdd(jp, idx, m) ==
  LET d == Digit(idx, jp.lvl)
      n == Cardinality(InSubExpanse(DOMAIN jp.jps, d \div SubExpanse))
      r == BranchLAdd(jp, idx, m)
  IN  IF n > 0 /\ GrowsInPlace(n, SubExpanse, JPWords) THEN r
      ELSE IF ~CanAlloc(m, 1) THEN NoMem(jp, m)
      ELSE Ret(1, r.jp, Freed(Alloced(m, 1, JPWords(n + 1)), IF n = 0 THEN 0 ELSE JPWords(n)))

\* exppop1 is a population minus one, for all its name.
ExpPop(jp, m) == IF jp.lvl = Levels THEN m.pop0 ELSE jp.pop0

\* jpm_Pop0 - jpm_LastUPop0 is unsigned: after deletions it wraps to a huge number.
PopIncremented(m) == m.pop0 - m.lastU > BtoUIncrement \/ m.pop0 < m.lastU

TooBigForBranchB(jp, m) ==
  PopIncremented(m) /\ m.pop0 > BranchBMaxPop /\ ExpPop(jp, m) > BranchBMinPop

\* On the way back, a JP below which an index was added counts it.
Counted(r) ==
  IF r.rc = 1 /\ HasPop0(r.jp) THEN [r EXCEPT !.jp.pop0 = @ + 1] ELSE r

\* goto ContinueInsWalk, unless the conversion ran out of memory.
RECURSIVE InsWalk(_, _, _)
Retry(jp, c, idx) == IF c.rc = -1 THEN Ret(-1, jp, c.m) ELSE InsWalk(c.jp, idx, c.m)

Descend(jp, idx, m) ==
  LET d == Digit(idx, jp.lvl)
      r == Counted(InsWalk(jp.jps[d], idx, m))
  IN  Ret(r.rc, [jp EXCEPT !.jps[d] = r.jp], r.m)

InsBranch(jp, idx, m) ==
  LET d == Digit(idx, jp.lvl)
  IN  CASE jp.t = "branchL" /\ ExpPop(jp, m) > BranchLMaxPop ->
             Retry(jp, ConvertBranchLtoU(jp, m), idx)
        [] jp.t = "branchB" /\ TooBigForBranchB(jp, m) ->
             Retry(jp, CreateBranchU(jp, m), idx)
        [] OTHER ->
             IF d \in DOMAIN jp.jps THEN Descend(jp, idx, m)
             ELSE IF jp.t = "branchB" THEN BranchBAdd(jp, idx, m)
             ELSE IF Cardinality(DOMAIN jp.jps) < BranchLMaxJPs THEN BranchLAdd(jp, idx, m)
             ELSE LET c == CreateBranchB(jp, m)
                  IN  Retry(jp, [c EXCEPT !.m = IF c.rc = -1 THEN @ ELSE Freed(@, BranchLWords)], idx)

\* The full leaf is freed only once its cascade has succeeded.
InsLeaf(jp, idx, m) ==
  IF Low(idx, jp.lvl) \in DOMAIN jp.keys THEN Ret(0, jp, m)
  ELSE IF jp.pop0 + 1 < LeafMax[jp.lvl] THEN LeafGrow(jp, idx, m)
  ELSE LET c == IF jp.lvl = 1 THEN Cascade1(jp, m) ELSE Cascade(jp, m)
       IN  Retry(jp, [c EXCEPT !.m = IF c.rc = -1 THEN @ ELSE Freed(@, OwnWords(jp))], idx)

InsWalk(jp, idx, m) ==
  CASE jp.t = "null" -> Ret(1, Immed1(jp.lvl, idx, 0), m)
    [] jp.t = "immed1" -> InsImmed1(jp, idx, m)
    [] jp.t = "immed" -> InsImmed(jp, idx, m)
    [] jp.lvl < Levels /\ HasPop0(jp) /\ Outlier(jp, idx) -> InsertBranch(jp, idx, m)
    [] jp.t = "leaf" -> InsLeaf(jp, idx, m)
    [] jp.t = "leafB1" -> InsLeafB1(jp, idx, m)
    [] jp.t = "full" -> Ret(0, jp, m)
    [] jp.t \in Branches -> InsBranch(jp, idx, m)

-----------------------------------------------------------------------------
(* The root: nothing, a leaf of whole words, or a jpm with the tree below it. *)

None == [t |-> "none"]

LeafW(keys) == [t |-> "leafW", keys |-> keys]

Jpm(jp, m) == [t |-> "jpm", jp |-> jp, pop0 |-> m.pop0, lastU |-> m.lastU, words |-> m.words]

LeafWWords(n) == Rounded(n + 1) + (IF Judy1 THEN 0 ELSE Rounded(n))

\* What a call sees: a LEAFW is not counted in any jpm.
Mem(root, heap, left) ==
  IF root.t = "jpm"
  THEN [pop0 |-> root.pop0, lastU |-> root.lastU, words |-> root.words, heap |-> heap, left |-> left]
  ELSE [pop0 |-> 0, lastU |-> 0, words |-> 0, heap |-> heap, left |-> left]

Result(ret, root, heap) == [ret |-> ret, root |-> root, heap |-> heap]

InsTree(root, idx, m) ==
  LET r == InsWalk(root.jp, idx, m)
  IN  Result(r.rc, Jpm(r.jp, [r.m EXCEPT !.pop0 = @ + (IF r.rc = 1 THEN 1 ELSE 0)]), r.m.heap)

\* The JPM takes over from the full leaf before the index is inserted, and is
\* not given back when the cascade fails.
InsLeafWFull(root, idx, heap, left) ==
  LET n == LeafWMaxPop1
      m == [pop0 |-> n - 1, lastU |-> 0, words |-> JPMWords, heap |-> heap + JPMWords, left |-> left - 1]
      c == CascadeL(root.keys, m)
  IN  IF left = 0 THEN Result(-1, root, heap)
      ELSE IF c.rc = -1 THEN Result(-1, root, c.m.heap)
      ELSE InsTree(Jpm(c.jp, c.m), idx, [c.m EXCEPT !.heap = @ - LeafWWords(n)])

InsLeafW(root, idx, heap, left) ==
  LET n == Cardinality(DOMAIN root.keys)
      r == LeafW(Added(root.keys, idx))
  IN  CASE idx \in DOMAIN root.keys -> Result(0, root, heap)
        [] GrowsInPlace(n, LeafWMaxPop1, LeafWWords) -> Result(1, r, heap)
        [] n = LeafWMaxPop1 -> InsLeafWFull(root, idx, heap, left)
        [] OTHER -> IF left = 0 THEN Result(-1, root, heap)
                    ELSE Result(1, r, heap + LeafWWords(n + 1) - LeafWWords(n))

\* Judy1Set() and JudyLIns().
Insert(root, idx, heap, left) ==
  CASE root.t = "none" ->
         IF left = 0 THEN Result(-1, root, heap)
         ELSE Result(1, LeafW(idx :> 0), heap + LeafWWords(1))
    [] root.t = "leafW" -> InsLeafW(root, idx, heap, left)
    [] root.t = "jpm" -> InsTree(root, idx, Mem(root, heap, left))
=============================================================================
