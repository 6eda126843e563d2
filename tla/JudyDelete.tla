----------------------------- MODULE JudyDelete -----------------------------
(***************************************************************************)
(* Judy1Unset() and JudyLDel(): the deletion walk, which on its way down   *)
(* turns a branch or a narrow leaf that is about to become small enough    *)
(* into a leaf of the same or the next higher level, and Judy*FreeArray(). *)
(* A step of the walk returns rc: -1 out of memory, 1 deleted, 2 deleted   *)
(* and the linear branch has a single JP left, which the caller moves up.  *)
(***************************************************************************)
EXTENDS JudyInsert, JudyReads

\* A set of <<key, value>> pairs as a function.
AsMap(S) == [x \in {p[1] : p \in S} |-> (CHOOSE p \in S : p[1] = x)[2]]

\* j__udyLeafMToLeafN: copies a leaf or an immediate of exactly the level
\* below; it knows no branch and no narrower leaf (JU_ERRNO_CORRUPT, 0 copied).
LeafToLeaf(jp, at) ==
  CASE jp.t = "full" -> {<<at + x, 0>> : x \in Digits}
    [] jp.t \in {"leaf", "leafB1", "immed"} -> {<<at + x, jp.keys[x]>> : x \in DOMAIN jp.keys}
    [] OTHER -> {}

Gathered(jp) ==
  UNION {LET c == jp.jps[d]
             at == d * Base^(jp.lvl - 1)
         IN  CASE c.t = "immed1" ->
                    {<<IF jp.lvl = Levels THEN at + c.key ELSE Low(c.key, jp.lvl), c.val>>}
               [] c.t # "immed1" /\ c.lvl = jp.lvl - 1 -> LeafToLeaf(c, at)
               [] OTHER -> {}
         : d \in JPs(jp)}

\* The branch itself and the leaves that were copied.
GatheredWords(jp) == OwnWords(jp) + MapThenSumSet(LAMBDA d : OwnWords(jp.jps[d]), JPs(jp))

\* JU_BRANCHx_COMPRESS: one leaf takes the place of a branch of that population.
Compress(jp, m) ==
  LET k == jp.lvl
  IN  IF ~CanAlloc(m, 1) THEN NoMem(jp, m)
      ELSE Ret(1, Leaf(k, jp.dcd, jp.pop0, AsMap(Gathered(jp))),
               Freed(Alloced(m, 1, LeafWords(LeafMax[k])), GatheredWords(jp)))

\* JU_LEAF_UPLEVEL: the lowest skipped digit of a narrow leaf moves into the keys.
UpLevel(jp, idx, m) ==
  LET k    == jp.lvl + 1
      keys == AsMap(LeafToLeaf(jp, Digit(idx, k) * Base^jp.lvl))
  IN  IF ~CanAlloc(m, 1) THEN NoMem(jp, m)
      ELSE Ret(1, Leaf(k, jp.dcd \div Base, jp.pop0, keys),
               Freed(Alloced(m, 1, LeafWords(LeafMax[k])), OwnWords(jp)))

\* A mutant of MovesUp: the leaf goes up one index too late.
MovesUpLate(jp, parent) == jp.lvl < parent - 1 /\ jp.pop0 + 1 < LeafMax[jp.lvl + 1]

MovesUp(jp, parent) == jp.lvl < parent - 1 /\ jp.pop0 + 1 = LeafMax[jp.lvl + 1]

-----------------------------------------------------------------------------
(* Leaves and immediates. *)

\* A mutant of ToImmed1: the value stays behind.
ToImmed1Zeroed(k, keys, idx) ==
  LET y == CHOOSE x \in DOMAIN keys : TRUE IN Immed1(k, SetDigits(idx, y, k), 0)

\* JU_TOIMMED_01: the index that stays, with its value, moves into the JP.
ToImmed1(k, keys, idx) ==
  LET y == CHOOSE x \in DOMAIN keys : TRUE IN Immed1(k, SetDigits(idx, y, k), keys[y])

\* JU_LEAF_TOIMMED: JudyL keeps two or more values in an area of their own.
LeafToImmed(jp, keys, idx, m) ==
  LET k == jp.lvl
      n == jp.pop0 + 1
  IN  IF ImmedMax[k] = 1 THEN Ret(1, ToImmed1(k, keys, idx), Freed(m, LeafWords(n)))
      ELSE IF Judy1 THEN Ret(1, Immed(k, keys), Freed(m, LeafWords(n)))
      ELSE IF ~CanAlloc(m, 1) THEN NoMem(jp, m)
      ELSE Ret(1, Immed(k, keys), Freed(Alloced(m, 1, ValueWords(n - 1)), LeafWords(n)))

DelLeaf(jp, idx, m) ==
  LET k    == jp.lvl
      n    == jp.pop0 + 1
      keys == Without(jp.keys, Low(idx, k))
      r    == [jp EXCEPT !.keys = keys]
  IN  IF n - 1 = ImmedMax[k] THEN LeafToImmed(jp, keys, idx, m)
      ELSE IF GrowsInPlace(n - 1, LeafMax[k], LeafWords) THEN Ret(1, r, m)
      ELSE IF ~CanAlloc(m, 1) THEN NoMem(jp, m)
      ELSE Ret(1, r, Freed(Alloced(m, 1, LeafWords(n - 1)), LeafWords(n)))

\* A value area that loses one of n values.
ShrinkValues(jp, r, n, m) ==
  IF GrowsInPlace(n - 1, SubExpanse, ValueWords) THEN Ret(1, r, m)
  ELSE IF ~CanAlloc(m, 1) THEN NoMem(jp, m)
  ELSE Ret(1, r, Freed(Alloced(m, 1, ValueWords(n - 1)), ValueWords(n)))

DelLeafB1(jp, idx, m) ==
  LET keys == Without(jp.keys, Low(idx, 1))
      n    == Cardinality(InSubExpanse(DOMAIN jp.keys, Low(idx, 1) \div SubExpanse))
      r    == [jp EXCEPT !.keys = keys]
  IN  IF Judy1
      THEN IF jp.pop0 = ImmedMax[1] THEN Ret(1, Immed(1, keys), Freed(m, LeafB1Words))
           ELSE Ret(1, r, m)
      ELSE IF n = 1 THEN Ret(1, r, Freed(m, ValueWords(1)))
      ELSE ShrinkValues(jp, r, n, m)

\* j__udyLeafB1ToLeaf1 (JudyL): the bitmap is as small as the largest leaf.
LeafB1ToLeaf1(jp, m) ==
  IF ~CanAlloc(m, 1) THEN NoMem(jp, m)
  ELSE Ret(1, [jp EXCEPT !.t = "leaf"],
           Freed(Alloced(m, 1, LeafWords(LeafMax[1])), OwnWords(jp)))

\* cJ1_JPFULLPOPU1: a bitmap of all the other digits.
DelFull(jp, idx, m) ==
  IF ~CanAlloc(m, 1) THEN NoMem(jp, m)
  ELSE Ret(1, LeafB1(jp.dcd, jp.pop0, [x \in Digits \ {Low(idx, 1)} |-> 0]),
           Alloced(m, 1, LeafB1Words))

DelImmed(jp, idx, m) ==
  LET keys == Without(jp.keys, Low(idx, jp.lvl))
      n    == Cardinality(DOMAIN jp.keys)
      r    == [jp EXCEPT !.keys = keys]
  IN  IF n = 2 THEN Ret(1, ToImmed1(jp.lvl, keys, idx), Freed(m, ValueWords(2)))
      ELSE IF Judy1 THEN Ret(1, r, m)
      ELSE ShrinkValues(jp, r, n, m)

-----------------------------------------------------------------------------
(* Branches. *)

\* An immediate of one index goes with its slot.
DelFromBranchL(jp, d, m) ==
  Ret(IF Cardinality(DOMAIN jp.jps) - 1 <= 1 THEN 2 ELSE 1, [jp EXCEPT !.jps = Without(@, d)], m)

\* A mutant of BranchBToBranchL: its failure is forwarded.
BranchBToBranchLFails(jp, m) ==
  IF ~CanAlloc(m, 1) THEN NoMem(jp, m)
  ELSE Ret(1, [jp EXCEPT !.t = "branchL"], Freed(Alloced(m, 1, BranchLWords), OwnWords(jp)))

\* j__udyBranchBToBranchL; a branch that cannot have the memory stays as it is.
BranchBToBranchL(jp, m) ==
  IF ~CanAlloc(m, 1) THEN Ret(1, jp, m)
  ELSE Ret(1, [jp EXCEPT !.t = "branchL"], Freed(Alloced(m, 1, BranchLWords), OwnWords(jp)))

\* The same in a bitmap branch; a branch of few JPs turns linear.
DelFromBranchB(jp, d, m) ==
  LET n       == Cardinality(InSubExpanse(DOMAIN jp.jps, d \div SubExpanse))
      inPlace == GrowsInPlace(n - 1, SubExpanse, JPWords)
      r       == [jp EXCEPT !.jps = Without(@, d)]
      s       == CASE n = 1 -> Freed(m, JPWords(1))
                   [] n > 1 /\ inPlace -> m
                   [] n > 1 /\ ~inPlace -> Freed(Alloced(m, 1, JPWords(n - 1)), JPWords(n))
  IN  IF n > 1 /\ ~inPlace /\ ~CanAlloc(m, 1) THEN NoMem(jp, m)
      ELSE IF Cardinality(DOMAIN jp.jps) <= BranchLMaxJPs THEN BranchBToBranchL(r, s)
      ELSE Ret(1, r, s)

\* On the way back a JP counts the deletion, or gives way to its only child.
Uncounted(r) ==
  CASE r.rc = 1 /\ HasPop0(r.jp) -> [r EXCEPT !.jp.pop0 = @ - 1]
    [] r.rc = 2 -> Ret(1, r.jp.jps[CHOOSE d \in DOMAIN r.jp.jps : TRUE], Freed(r.m, BranchLWords))
    [] OTHER -> r

RECURSIVE DelWalk(_, _, _, _)
\* goto ContinueDelWalk, unless the conversion ran out of memory.
Redo(c, idx, parent) == IF c.rc = -1 THEN c ELSE DelWalk(c.jp, idx, parent, c.m)

DelBranch(jp, idx, m) ==
  LET d == Digit(idx, jp.lvl)
      c == jp.jps[d]
      r == Uncounted(DelWalk(c, idx, jp.lvl, m))
  IN  CASE c.t = "immed1" /\ jp.t = "branchL" -> DelFromBranchL(jp, d, m)
        [] c.t = "immed1" /\ jp.t = "branchB" -> DelFromBranchB(jp, d, m)
        [] OTHER -> Ret(r.rc, [jp EXCEPT !.jps[d] = r.jp], r.m)

DelWalk(jp, idx, parent, m) ==
  CASE jp.t \in Branches ->
         IF jp.lvl < Levels /\ jp.pop0 + 1 <= LeafMax[jp.lvl] THEN Redo(Compress(jp, m), idx, parent)
         ELSE DelBranch(jp, idx, m)
    [] jp.t = "leaf" ->
         IF MovesUp(jp, parent) THEN Redo(UpLevel(jp, idx, m), idx, parent)
         ELSE DelLeaf(jp, idx, m)
    [] jp.t = "leafB1" ->
         IF MovesUp(jp, parent) THEN Redo(UpLevel(jp, idx, m), idx, parent)
         ELSE IF ~Judy1 /\ jp.pop0 + 1 = LeafMax[1] THEN Redo(LeafB1ToLeaf1(jp, m), idx, parent)
         ELSE DelLeafB1(jp, idx, m)
    [] jp.t = "full" -> DelFull(jp, idx, m)
    [] jp.t = "immed1" -> Ret(1, Null(jp.lvl), m)
    [] jp.t = "immed" -> DelImmed(jp, idx, m)

-----------------------------------------------------------------------------
(* The root. *)

DelLeafW(root, idx, heap, left) ==
  LET n == Cardinality(DOMAIN root.keys)
      r == LeafW(Without(root.keys, idx))
  IN  IF n = 1 THEN Result(1, None, heap - LeafWWords(1))
      ELSE IF GrowsInPlace(n - 1, LeafWMaxPop1, LeafWWords) THEN Result(1, r, heap)
      ELSE IF left = 0 THEN Result(-1, root, heap)
      ELSE Result(1, r, heap + LeafWWords(n - 1) - LeafWWords(n))

\* The tree gives way to a root leaf of LeafWMaxPop1 indexes: the index is
\* already gone when the leaf cannot be had.
ToLeafW(jp, m) ==
  IF ~CanAlloc(m, 1) THEN Result(-1, Jpm(jp, m), m.heap)
  ELSE Result(1, LeafW(AsMap(Gathered(jp))),
              m.heap + LeafWWords(LeafWMaxPop1) - GatheredWords(jp) - JPMWords)

DelTree(root, idx, heap, left) ==
  LET r == DelWalk(root.jp, idx, Levels, Mem(root, heap, left))
      m == [r.m EXCEPT !.pop0 = @ - 1]
  IN  IF r.rc = -1 THEN Result(-1, Jpm(r.jp, r.m), r.m.heap)
      ELSE IF m.pop0 + 1 # LeafWMaxPop1 THEN Result(1, Jpm(r.jp, m), m.heap)
      ELSE ToLeafW(r.jp, m)

\* Judy1Unset() and JudyLDel().
Delete(root, idx, heap, left) ==
  IF ~Get(root, idx).found THEN Result(0, root, heap)
  ELSE IF root.t = "leafW" THEN DelLeafW(root, idx, heap, left)
  ELSE DelTree(root, idx, heap, left)

\* Judy1FreeArray() and JudyLFreeArray(): the words freed; -1 when they are not
\* what the jpm says the array holds.
FreeArray(root, heap) ==
  LET freed == CASE root.t = "none" -> 0
                 [] root.t = "leafW" -> LeafWWords(Cardinality(DOMAIN root.keys))
                 [] root.t = "jpm" -> WordsBelow(root.jp) + JPMWords
  IN  Result(IF root.t = "jpm" /\ root.words # freed THEN -1 ELSE freed, None, heap - freed)

-----------------------------------------------------------------------------
(* The caller of JudyLIns() writes the value through the pointer it returns. *)

RECURSIVE AssignWalk(_, _, _)
AssignWalk(jp, idx, v) ==
  CASE jp.t = "immed1" -> [jp EXCEPT !.val = v]
    [] jp.t \in {"immed", "leaf", "leafB1"} -> [jp EXCEPT !.keys[Low(idx, jp.lvl)] = v]
    [] jp.t \in Branches -> [jp EXCEPT !.jps[Digit(idx, jp.lvl)] = AssignWalk(@, idx, v)]
    [] OTHER -> jp

Assign(root, idx, v) ==
  CASE root.t = "leafW" -> [root EXCEPT !.keys[idx] = v]
    [] root.t = "jpm" -> [root EXCEPT !.jp = AssignWalk(@, idx, v)]
    [] OTHER -> root
=============================================================================
