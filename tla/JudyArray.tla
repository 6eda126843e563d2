----------------------------- MODULE JudyArray -----------------------------
(***************************************************************************)
(* One Judy1 or JudyL array and its caller: php_judy.c sets, assigns and   *)
(* unsets indexes, frees the array, and any malloc() of a call may fail.   *)
(* Some indexes are set before the others come and go.                     *)
(***************************************************************************)
EXTENDS JudyDelete

CONSTANTS Pools,       \* choices of indexes that are set first and indexes the calls name
          Budgets,     \* how many malloc()s of a call succeed
          FailAtRoot   \* whether they may fail while the root changes its form

Plenty == Max(Budgets)

VARIABLES root, heap, pool, ret,
          seen       \* what the reads of php_judy.c make of the root

vars == <<Judy1, root, heap, pool, ret, seen>>

Value(k) == IF Judy1 THEN 0 ELSE k + 1

\* J1S, and JLI followed by the write of the value.
Stored(r, k) == IF r.ret = -1 THEN r ELSE [r EXCEPT !.root = Assign(@, k, Value(k))]

\* A root leaf that is full, or a tree that is one index too large for one.
AtRootLimit(pop1) == root.t # "none" /\ RootPop1(root) = pop1

MayFail(left, pop1) == left = Plenty \/ FailAtRoot \/ ~AtRootLimit(pop1)

Known(p) == p.fixed \union p.keys

\* Lookups, J1F and J1N, and J1C, read anew after every call.
Reading(r, p) ==
  LET on == {k \in Known(p) : Get(r, k).found}
  IN  [map     |-> [k \in on |-> Get(r, k).val],
       walked  |-> ({First1(r, 0, TRUE)} \union {Next1(r, k, TRUE) : k \in on}) \ {NotFound},
       counted |-> Count(r, 0, AllOnes)]

Apply(r) ==
  /\ root' = r.root /\ heap' = r.heap /\ ret' = r.ret
  /\ seen' = IF r.root = root THEN seen ELSE Reading(r.root, pool)

Present == DOMAIN seen.map

Init == /\ Judy1 \in BOOLEAN /\ pool \in Pools
        /\ root = None /\ heap = 0 /\ ret = 0
        /\ seen = [map |-> <<>>, walked |-> {}, counted |-> 0]

Fill == \E k \in pool.fixed \ Present :
          /\ \A i \in pool.fixed \ Present : k <= i
          /\ Apply(Stored(Insert(root, k, heap, Plenty), k))
          /\ pool' = [pool EXCEPT !.filled = pool.fixed \subseteq Present \union {k}]
          /\ UNCHANGED Judy1

Set(k, left) ==
  /\ MayFail(left, LeafWMaxPop1)
  /\ Apply(Stored(Insert(root, k, heap, left), k))
  /\ UNCHANGED <<Judy1, pool>>

Unset(k, left) ==
  /\ MayFail(left, LeafWMaxPop1 + 1)
  /\ Apply(Delete(root, k, heap, left))
  /\ UNCHANGED <<Judy1, pool>>

Free ==
  /\ root.t # "none"
  /\ Apply(FreeArray(root, heap))
  /\ UNCHANGED <<Judy1, pool>>

Next == \/ ~pool.filled /\ Fill
        \/ pool.filled /\ \E k \in pool.keys, left \in Budgets : Set(k, left) \/ Unset(k, left)
        \/ pool.filled /\ Free

Spec == Init /\ [][Next]_vars

-----------------------------------------------------------------------------
\* Indexes around those that the calls name, and the ends of the key space.
Probes == (0..AllOnes) \intersect
          ({0, AllOnes} \union UNION {{k - 1, k, k + 1} : k \in pool.keys})

-----------------------------------------------------------------------------
(* The form of the tree. *)

\* The digits above the slot that a JP hangs in, at being the least index there.
InSlot(jp, parent, at) ==
  CASE jp.t = "immed1" -> jp.lvl = parent - 1 /\ jp.key \div Base^jp.lvl = Dcd(at, jp.lvl)
    [] HasPop0(jp) -> /\ jp.lvl < parent
                      /\ jp.dcd \div Base^(parent - 1 - jp.lvl) = Dcd(at, parent - 1)
    [] OTHER -> jp.lvl = parent - 1

\* The sizes that insertions and deletions keep a JP between: a narrow leaf
\* that falls to LeafMax of the next level goes up, a branch that falls to
\* LeafMax of its own turns into a leaf.
SizeOK(jp, parent) ==
  LET n == Cardinality(DOMAIN jp.keys)
      j == Cardinality(JPs(jp))
  IN  CASE jp.t \in {"leaf", "leafB1"} ->
             /\ n > ImmedMax[jp.lvl]
             /\ jp.t = "leaf" => n <= LeafMax[jp.lvl]
             /\ jp.t = "leafB1" => n < Base + (IF Judy1 THEN 0 ELSE 1)
             /\ jp.t = "leafB1" /\ ~Judy1 => n >= LeafMax[1]
             /\ jp.lvl < parent - 1 => n >= LeafMax[jp.lvl + 1]
        [] jp.t = "immed" -> n \in 2..ImmedMax[jp.lvl]
        [] jp.t \in Branches /\ jp.lvl < Levels ->
             /\ jp.pop0 + 1 >= LeafMax[jp.lvl] /\ j >= 1
             /\ jp.t = "branchL" => j <= BranchLMaxJPs
        [] jp.t \in Branches /\ jp.lvl = Levels ->
             j >= 1 /\ (jp.t = "branchL" => j <= BranchLMaxJPs)
        [] OTHER -> TRUE

RECURSIVE WellFormedBelow(_, _, _)
WellFormedBelow(jp, parent, at) ==
  /\ InSlot(jp, parent, at) /\ SizeOK(jp, parent)
  /\ jp.t \in Branches =>
       LET low == IF jp.lvl = Levels THEN 0 ELSE SetDcd(at, jp)
       IN  \A d \in JPs(jp) :
             WellFormedBelow(jp.jps[d], jp.lvl, SetDigits(low, d * Base^(jp.lvl - 1), jp.lvl))

-----------------------------------------------------------------------------
(* Every JP hangs in the slot that its digits name, holds no more than its  *)
(* form allows and no less than the deletions leave in it: what            *)
(* JudyDecascade.c takes for granted when it copies a branch into a leaf.   *)
WellFormed ==
  root.t = "jpm" => root.pop0 >= LeafWMaxPop1 /\ WellFormedBelow(root.jp, Levels + 1, 0)

(* The populations that the walks keep up to date on their way back, a      *)
(* failed call included, are those of the JPs below (JudyCheckPop), and the *)
(* words counted in the jpm are those that FreeArray() gives back: nothing  *)
(* leaks when an allocation fails half way through a call.                  *)
Accounted ==
  /\ CheckPop(root) = Cardinality(Present)
  /\ LET f == FreeArray(root, heap) IN f.ret # -1 /\ f.heap = 0

(* Next and Prev find the nearest index present on their side of any index, *)
(* through narrow pointers, empty slots and both ends of the key space.     *)
NextAgrees ==
  \A k \in Probes, next \in BOOLEAN :
    LET on == Past(Present, k, next)
    IN  Next1(root, k, next) = IF on = {} THEN NotFound ELSE Nearest(on, next)

(* NextEmpty and PrevEmpty find the nearest index that is NOT present, over *)
(* full expanses of every form, and none beyond the ends of the key space.  *)
EmptyAgrees ==
  \A k \in Probes, next \in BOOLEAN :
    LET e    == NextEmpty(root, k, next)
        last == IF e # NotFound THEN e ELSE IF next THEN AllOnes + 1 ELSE -1
    IN  /\ e # NotFound => e \in 0..AllOnes /\ e \notin Present /\ (e > k) = next /\ e # k
        /\ \A i \in (k + 1)..(last - 1) \union (last + 1)..(k - 1) : i \in Present

(* Count() of a range and ByCount() agree with what is present, whichever   *)
(* end of a branch they count from.                                         *)
CountAgrees ==
  /\ \A i, j \in pool.keys \union {0, AllOnes} :
       Count(root, i, j) = Cardinality({k \in Present : i <= k /\ k <= j})
  /\ \A k \in Present : ByCount(root, Cardinality({i \in Present : i <= k})) = k
  /\ ByCount(root, Cardinality(Present) + 1) = NotFound

(* A call answers 1 exactly when it changed what is present, and an array   *)
(* whose call ran out of memory still holds what it held.                   *)
AnswersTell ==
  [][/\ ret' = 1 /\ root'.t # "none" => Cardinality(Present' \ Present) + Cardinality(Present \ Present') = 1
     /\ ret' \in {0, -1} => seen'.map = seen.map]_vars

(* Judy1Set()/JudyLIns() and Judy1Unset()/JudyLDel() implement one map.     *)
Map == INSTANCE IndexMap
         WITH map <- seen.map, walked <- seen.walked, counted <- seen.counted

ImplementsMap == Map!Spec

(* cJU_LEAFW_MAXPOP1 tells a root leaf from a tree: the first word of what  *)
(* the root points at is a population of a leaf if and only if it is less.  *)
RootReadable == root.t = "jpm" => root.pop0 >= LeafWMaxPop1
=============================================================================
