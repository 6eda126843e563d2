----------------------------- MODULE JudyReads -----------------------------
(***************************************************************************)
(* The read-only walks of libjudy: Get, CheckPop, First / Next / Prev /    *)
(* Last and their Empty counterparts, Count and ByCount.  The walks that   *)
(* the sources compile twice (JUDYNEXT and JUDYPREV) take next as a flag.  *)
(* None of them trusts only the keys: they steer by dcd, by pop0 and by    *)
(* the type of the JP, so a wrong one leads them astray.                   *)
(***************************************************************************)
EXTENDS JudyTree

\* No index: a walk that falls off its end, or a search that finds nothing.
NotFound == -1

AllOnes == Base^Levels - 1

\* JU_SETDIGIT, JU_SETDIGITS, JU_SETDCD.
SetDigits(idx, x, k) == (idx \div Base^k) * Base^k + x
SetDigit(idx, d, k) == (idx \div Base^k) * Base^k + d * Base^(k - 1) + Low(idx, k - 1)
SetDcd(idx, jp) ==
  (idx \div Base^(Levels - 1)) * Base^(Levels - 1) + jp.dcd * Base^jp.lvl + Low(idx, jp.lvl)

\* A root branch covers every digit.
Strays(jp, idx) == jp.lvl < Levels /\ Outlier(jp, idx)

\* The digits, or low parts of indexes, that a JP of level lvl holds itself.
Held(jp) ==
  CASE jp.t = "immed1" -> {Low(jp.key, jp.lvl)}
    [] jp.t = "full" -> Digits
    [] OTHER -> DOMAIN jp.keys

-----------------------------------------------------------------------------
(* Judy1Test() and JudyLGet(). *)

Hit(v) == [found |-> TRUE, val |-> v]
Miss == [found |-> FALSE, val |-> 0]

GetImmed(jp, idx) ==
  LET x == Low(idx, jp.lvl)
  IN  IF jp.t = "immed1"
      THEN IF jp.key = Trim(idx) THEN Hit(jp.val) ELSE Miss
      ELSE IF x \in DOMAIN jp.keys THEN Hit(jp.keys[x]) ELSE Miss

GetLeaf(jp, idx) ==
  LET x == Low(idx, jp.lvl)
  IN  IF Strays(jp, idx) \/ x \notin DOMAIN jp.keys THEN Miss ELSE Hit(jp.keys[x])

RECURSIVE GetWalk(_, _)
GetBranch(jp, idx) ==
  LET d == Digit(idx, jp.lvl)
  IN  IF Strays(jp, idx) \/ d \notin DOMAIN jp.jps THEN Miss ELSE GetWalk(jp.jps[d], idx)

GetWalk(jp, idx) ==
  CASE jp.t = "null" -> Miss
    [] jp.t = "full" -> IF Strays(jp, idx) THEN Miss ELSE Hit(0)
    [] Immediate(jp) -> GetImmed(jp, idx)
    [] jp.t \in {"leaf", "leafB1"} -> GetLeaf(jp, idx)
    [] jp.t \in Branches -> GetBranch(jp, idx)

Get(root, idx) ==
  CASE root.t = "none" -> Miss
    [] root.t = "leafW" -> IF idx \in DOMAIN root.keys THEN Hit(root.keys[idx]) ELSE Miss
    [] root.t = "jpm" -> GetWalk(root.jp, idx)

-----------------------------------------------------------------------------
(* JudyCheckPop(): -1 where an assertion of the debug build would fail. *)

RECURSIVE CheckPopSM(_)
CheckBranch(jp) ==
  LET pops == [d \in JPs(jp) |-> CheckPopSM(jp.jps[d])]
      sum  == MapThenSumSet(LAMBDA d : pops[d], JPs(jp))
  IN  IF (\A d \in JPs(jp) : pops[d] > 0) /\ (jp.lvl = Levels \/ sum = jp.pop0 + 1)
      THEN sum ELSE -1

CheckPopSM(jp) ==
  CASE jp.t = "null" -> 0
    [] jp.t = "immed1" -> 1
    [] jp.t = "immed" -> Cardinality(DOMAIN jp.keys)
    [] jp.t = "full" -> IF jp.pop0 = Base - 1 THEN Base ELSE -1
    [] jp.t \in {"leaf", "leafB1"} ->
         IF Cardinality(DOMAIN jp.keys) = jp.pop0 + 1 THEN jp.pop0 + 1 ELSE -1
    [] jp.t \in Branches -> CheckBranch(jp)

CheckPop(root) ==
  CASE root.t = "none" -> 0
    [] root.t = "leafW" -> Cardinality(DOMAIN root.keys)
    [] root.t = "jpm" -> IF CheckPopSM(root.jp) = root.pop0 + 1 THEN root.pop0 + 1 ELSE -1

-----------------------------------------------------------------------------
(* First, Next, Prev, Last. *)

Nearest(S, next) == IF next THEN Min(S) ELSE Max(S)
From(S, x, next) == {y \in S : IF next THEN y >= x ELSE y <= x}
Past(S, x, next) == From(S, x, next) \ {x}

\* SM3Findlimit: the first or the last index below jp.
RECURSIVE Limit(_, _, _)
Limit(jp, idx, next) ==
  LET at == IF HasPop0(jp) /\ jp.lvl < Levels THEN SetDcd(idx, jp) ELSE idx
  IN  IF jp.t \in Branches
      THEN LET d == Nearest(JPs(jp), next)
           IN  Limit(jp.jps[d], SetDigit(at, d, jp.lvl), next)
      ELSE SetDigits(at, Nearest(Held(jp), next), jp.lvl)

\* SM2Backtrack: the nearest JP past digit d of the same branch.
Backtrack(jp, idx, d, next) ==
  LET rest == Past(JPs(jp), d, next)
      e    == Nearest(rest, next)
  IN  IF rest = {} THEN NotFound ELSE Limit(jp.jps[e], SetDigit(idx, e, jp.lvl), next)

\* SM1Get: the first index at or past idx; NotFound backtracks.
RECURSIVE Seek(_, _, _)
SeekBranch(jp, idx, next) ==
  LET d   == Digit(idx, jp.lvl)
      own == IF d \in JPs(jp) THEN Seek(jp.jps[d], idx, next) ELSE NotFound
  IN  IF own # NotFound THEN own ELSE Backtrack(jp, idx, d, next)

\* A mutant of SeekStray: a narrow expanse behind the index is taken for one past it.
SeekStrayAnySide(jp, idx, next) == Limit(jp, idx, next)

\* CHECKDCD: the whole narrow expanse is on one side of the index.
SeekStray(jp, idx, next) ==
  IF Past({jp.dcd}, Dcd(idx, jp.lvl), next) = {} THEN NotFound ELSE Limit(jp, idx, next)

SeekImmed1(jp, idx, next) ==
  IF From({jp.key}, Trim(idx), next) = {} THEN NotFound
  ELSE SetDigits(idx, Low(jp.key, jp.lvl), jp.lvl)

SeekHeld(jp, idx, next) ==
  LET found == From(Held(jp), Low(idx, jp.lvl), next)
  IN  IF found = {} THEN NotFound ELSE SetDigits(idx, Nearest(found, next), jp.lvl)

Seek(jp, idx, next) ==
  CASE HasPop0(jp) /\ Strays(jp, idx) -> SeekStray(jp, idx, next)
    [] jp.t = "immed1" -> SeekImmed1(jp, idx, next)
    [] jp.t \in Branches /\ ~Strays(jp, idx) -> SeekBranch(jp, idx, next)
    [] OTHER -> SeekHeld(jp, idx, next)

SeekLeafW(root, idx, next) ==
  LET found == From(DOMAIN root.keys, idx, next)
  IN  IF found = {} THEN NotFound ELSE Nearest(found, next)

\* At 0 and at all ones there is nothing past the index: it must not wrap.
AtEdge(idx, next) == idx = IF next THEN AllOnes ELSE 0
Step(idx, next) == IF next THEN idx + 1 ELSE idx - 1

Next1(root, idx, next) ==
  CASE root.t = "none" \/ AtEdge(idx, next) -> NotFound
    [] root.t = "leafW" /\ ~AtEdge(idx, next) -> SeekLeafW(root, Step(idx, next), next)
    [] OTHER -> Seek(root.jp, Step(idx, next), next)

\* First and Last try the index itself before they walk.
First1(root, idx, next) ==
  IF Get(root, idx).found THEN idx ELSE Next1(root, idx, next)

-----------------------------------------------------------------------------
(* FirstEmpty, NextEmpty, PrevEmpty, LastEmpty. *)

\* A mutant of JPFull: a branch one index short passes for full.
JPFullAlmost(jp, lvl) ==
  IF lvl = 2 THEN jp.t = "full"
  ELSE jp.t \in Branches /\ jp.lvl = lvl - 1 /\ jp.pop0 >= Base^(lvl - 1) - 2

\* JPFULL: only a JP of the next lower level can be full, and its pop0 says so.
JPFull(jp, lvl) ==
  IF lvl = 2
  THEN IF Judy1 THEN jp.t = "full" ELSE jp.t = "leafB1" /\ jp.pop0 = Base - 1
  ELSE jp.t \in Branches /\ jp.lvl = lvl - 1 /\ jp.pop0 = Base^(lvl - 1) - 1

\* Digits whose expanse has room.
Holes(jp) == {d \in Digits : d \notin JPs(jp) \/ ~JPFull(jp.jps[d], jp.lvl)}

\* CLEARLEASTDIGITS_D, SETLEASTDIGITS_D: the near edge of the expanse of d.
Edge(idx, d, k, next) ==
  SetDigits(idx, d * Base^(k - 1) + (IF next THEN 0 ELSE Base^(k - 1) - 1), k)

\* LEAF_HOLE: what follows the run of consecutive keys from x on.
HolesPast(keys, x, lvl, next) ==
  From(((keys \union {x - 1, x + 1, x}) \union {Step(y, next) : y \in keys}) \ keys, x, next)
    \intersect 0..(Base^lvl - 1)

Empty(idx) == [found |-> TRUE, idx |-> idx]
\* SMRESTART: the digits below lvl are all taken from here on.
Restart(idx, lvl, next) ==
  [found |-> FALSE, idx |-> SetDigits(idx, IF next THEN Base^lvl - 1 ELSE 0, lvl)]

EmptyAmong(keys, idx, lvl, next) ==
  LET holes == HolesPast(keys, Low(idx, lvl), lvl, next)
  IN  IF holes = {} THEN Restart(idx, lvl, next)
      ELSE Empty(SetDigits(idx, Nearest(holes, next), lvl))

RECURSIVE EmptyWalk(_, _, _)
EmptyBranch(jp, idx, next) ==
  LET d     == Digit(idx, jp.lvl)
      holes == From(Holes(jp), d, next)
      e     == Nearest(holes, next)
      at    == IF e = d THEN idx ELSE Edge(idx, e, jp.lvl, next)
  IN  CASE holes = {} -> Restart(idx, jp.lvl, next)
        [] holes # {} /\ e \notin JPs(jp) -> Empty(at)
        [] OTHER -> EmptyWalk(jp.jps[e], at, next)

EmptyWalk(jp, idx, next) ==
  CASE HasPop0(jp) /\ Strays(jp, idx) -> Empty(idx)
    [] jp.t = "immed1" /\ jp.key # Trim(idx) -> Empty(idx)
    [] jp.t \in Branches /\ ~Strays(jp, idx) -> EmptyBranch(jp, idx, next)
    [] jp.t = "full" /\ ~Strays(jp, idx) -> Restart(idx, 1, next)
    [] OTHER -> EmptyAmong(Held(jp), idx, jp.lvl, next)

\* SMGetRestart.
RECURSIVE NextEmpty(_, _, _)
NextEmpty(root, idx, next) ==
  LET at == Step(idx, next)
      r  == CASE root.t = "none" -> Empty(at)
              [] root.t = "leafW" -> EmptyAmong(DOMAIN root.keys, at, Levels, next)
              [] root.t = "jpm" -> EmptyWalk(root.jp, at, next)
  IN  IF AtEdge(idx, next) THEN NotFound
      ELSE IF r.found THEN r.idx ELSE NextEmpty(root, r.idx, next)

FirstEmpty(root, idx, next) ==
  IF Get(root, idx).found THEN NextEmpty(root, idx, next) ELSE idx

-----------------------------------------------------------------------------
(* Count and ByCount: populations are read from the JPs (j__udyJPPop1). *)

JPPop1(jp) ==
  CASE jp.t = "null" -> 0
    [] jp.t = "immed1" -> 1
    [] jp.t = "immed" -> Cardinality(DOMAIN jp.keys)
    [] jp.t = "full" -> Base
    [] OTHER -> jp.pop0 + 1

Pops(jp, ds) == MapThenSumSet(LAMBDA d : JPPop1(jp.jps[d]), ds)

\* A root branch has no pop0 of its own.
Pop1(jp, root) == IF jp.lvl = Levels THEN root.pop0 + 1 ELSE jp.pop0 + 1

Below1(S, x) == {y \in S : y < x}
Above1(S, x) == {y \in S : y > x}

\* The cache lines of a bitmap branch before and behind a digit.
CacheLines(n) == (2 * n + 7) \div 8

LinesOf(ds) == SubWords(ds, CacheLines)

LinesBelow(ds, d) ==
  LET own == InSubExpanse(ds, d \div SubExpanse)
  IN  LinesOf(Below1(ds, d) \ own) + CacheLines(Cardinality(own \ Above1(own, d))) - 1

\* The digits in the same sub-expanse behind d share their lines with it.
LinesAbove(ds, d) == LinesOf(ds) - LinesBelow(ds, d) - 1

CountsUpward(jp, d) ==
  CASE jp.t = "branchL" -> FALSE
    [] jp.t = "branchB" -> LinesBelow(DOMAIN jp.jps, d) < LinesAbove(DOMAIN jp.jps, d)
    [] jp.t = "branchU" -> d < Base \div 2

\* A mutant of CountHeld: the count from the far end is not turned round.
CountHeldFarEnd(jp, x) ==
  LET below == Below1(Held(jp), x)
      pop1  == JPPop1(jp)
  IN  IF jp.t = "leafB1" /\ x >= Base \div 2 THEN pop1 - Cardinality(Held(jp) \ below)
      ELSE IF jp.t = "immed1" THEN 1
      ELSE pop1 - Cardinality(below)

\* j__udyCountLeafB1 works from the near end, and pop1 - offset is the answer.
CountHeld(jp, x) ==
  LET below == Below1(Held(jp), x)
      pop1  == JPPop1(jp)
  IN  CASE jp.t = "immed1" -> 1
        [] jp.t = "leafB1" /\ x >= Base \div 2 -> pop1 - (pop1 - Cardinality(Held(jp) \ below))
        [] OTHER -> pop1 - Cardinality(below)

\* j__udy1LCountSM: how many indexes are at or above idx, which is present.
RECURSIVE CountSM(_, _, _)
CountSM(jp, idx, root) ==
  LET d     == Digit(idx, jp.lvl)
      above == IF CountsUpward(jp, d) THEN Pop1(jp, root) - Pops(jp, JPs(jp) \ Above1(JPs(jp), d))
               ELSE Pops(jp, Above1(JPs(jp), d))
  IN  IF jp.t \in Branches THEN above + CountSM(jp.jps[d], idx, root)
      ELSE CountHeld(jp, Low(idx, jp.lvl))

CountFrom(root, idx) ==
  IF root.t = "leafW" THEN Cardinality(From(DOMAIN root.keys, idx, TRUE))
  ELSE CountSM(root.jp, idx, root)

RootPop1(root) == IF root.t = "leafW" THEN Cardinality(DOMAIN root.keys) ELSE root.pop0 + 1

\* Judy1Count(idx1, idx2) and JudyLCount().
Count(root, idx1, idx2) ==
  LET first  == First1(root, idx1, TRUE)
      above1 == IF idx1 = 0 THEN RootPop1(root) ELSE CountFrom(root, first)
      past2  == First1(root, idx2 + 1, TRUE)
      none   == idx1 # 0 /\ first = NotFound
      all    == idx2 = AllOnes \/ past2 = NotFound
  IN  CASE root.t = "none" \/ idx1 > idx2 -> 0
        [] root.t # "none" /\ idx1 = idx2 -> IF Get(root, idx1).found THEN 1 ELSE 0
        [] root.t # "none" /\ idx1 < idx2 /\ none -> 0
        [] root.t # "none" /\ idx1 < idx2 /\ ~none ->
             IF all THEN above1 ELSE above1 - CountFrom(root, past2)

\* The expanse of the (c + 1)th index, walking up from the first digit or,
\* past LOWERHALF, down from the last one.
Expanse(jp, c, pop1, up) ==
  LET found == IF up THEN {d \in JPs(jp) : Pops(jp, Below1(JPs(jp), d)) + JPPop1(jp.jps[d]) > c}
               ELSE {d \in JPs(jp) : pop1 - Pops(jp, Above1(JPs(jp), d)) - JPPop1(jp.jps[d]) <= c}
  IN  Nearest(found, up)

Skipped(jp, d, pop1, up) ==
  IF up THEN Pops(jp, Below1(JPs(jp), d)) ELSE pop1 - Pops(jp, JPs(jp) \ Below1(JPs(jp), d))

\* SMByCount: c indexes of jp come before the one that is asked for.
RECURSIVE ByCountWalk(_, _, _, _)
ByCountWalk(jp, idx, c, root) ==
  LET at   == IF HasPop0(jp) /\ jp.lvl < Levels THEN SetDcd(idx, jp) ELSE idx
      pop1 == IF jp.lvl = Levels THEN root.pop0 + 1 ELSE JPPop1(jp)
      up   == jp.t = "branchL" \/ c < pop1 \div 2
      d    == Expanse(jp, c, pop1, up)
      nth  == CHOOSE x \in Held(jp) :
                c = IF jp.t = "leafB1" /\ ~up THEN pop1 - Cardinality(Held(jp) \ Below1(Held(jp), x))
                    ELSE Cardinality(Below1(Held(jp), x))
  IN  IF jp.t \in Branches
      THEN ByCountWalk(jp.jps[d], SetDigit(at, d, jp.lvl), c - Skipped(jp, d, pop1, up), root)
      ELSE SetDigits(at, nth, jp.lvl)

ByCount(root, n) ==
  CASE root.t = "none" -> NotFound
    [] root.t # "none" /\ (n = 0 \/ n > RootPop1(root)) -> NotFound
    [] root.t = "leafW" /\ n \in 1..RootPop1(root) ->
         CHOOSE x \in DOMAIN root.keys : Cardinality(Below1(DOMAIN root.keys, x)) = n - 1
    [] OTHER -> ByCountWalk(root.jp, 0, n - 1, root)
=============================================================================
