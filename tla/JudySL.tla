------------------------------- MODULE JudySL -------------------------------
(***************************************************************************)
(* JudySL: null-terminated strings in a tree of JudyL arrays.  A chunk     *)
(* with room for the null byte is the last word of its string.             *)
(***************************************************************************)
EXTENDS JudyWords

NoString == <<-1>>      \* no byte is negative

\* COPYSTRINGtoWORD: the words of a string, of which only the last has fewer bytes than
\* there is room for.
SLWay(s) ==
  [i \in 1..(Len(s) \div WORDSIZE + 1) |->
     SubSeq(s, (i - 1) * WORDSIZE + 1, Min({i * WORDSIZE, Len(s)}))]

\* What is left of a string at each level, with the null byte that STRLEN counts.
SLSize(s) == [i \in 0..(Len(s) \div WORDSIZE) |-> Len(s) - i * WORDSIZE + 1]

SLKey == [s \in Strings |-> [str |-> s, way |-> SLWay(s), size |-> SLSize(s)]]

\* JudySLGet(): the value of a string, nil if it has none.
SLGet(a, s) == Get(a, SLKey[s])

\* Mutant of SLFreed: the string that comes is measured.
SLFreedNew(a, k) == k.size[Depth(a, k)]

\* The leaf in the way is freed with the size of its own string.
SLFreed(a, k) == Slot(a, k).key.size[Depth(a, k)]

\* JudySLIns(), and the write of the value that follows it.
SLIns(a, s, v, m) ==
  LET k == SLKey[s]
  IN  Ins(a, k, v, IF Collides(a, k) THEN SLFreed(a, k) ELSE 0, m)

\* JudySLDel(): arrays that become empty go on the way back, leaves are not built again.
SLDel(a, s, m) == Del(a, SLKey[s], m)

\* JudySLFreeArray(): the words it gives back.
SLFreeArray(a) == TreeWords(a)

-----------------------------------------------------------------------------
(* JudySLNext() and JudySLPrev(): the string after or before s.             *)

\* Whether t comes after s on a walk.
Beyond(s, t, next) == IF next THEN Before(s, t) ELSE Before(t, s)

\* The first of the slots of an array on a walk.
Closest(slots, next) ==
  CHOOSE p \in slots : \A q \in slots \ {p} : Beyond(p[Len(p)], q[Len(q)], next)

\* The slot that the first or last index of every array below p leads to.
SLBottom(a, p, next) ==
  CHOOSE q \in DOMAIN a :
    /\ Len(q) >= Len(p) /\ Path(q, Len(p)) = p /\ Children(a, q) = {}
    /\ \A i \in (Len(p) + 1)..Len(q) : Path(q, i) = Closest(Children(a, Path(q, i - 1)), next)

\* COPYWORDtoSTRING: the string that a whole path spells.
Spell(p) ==
  [i \in 1..((Len(p) - 1) * WORDSIZE + Len(p[Len(p)])) |->
     p[(i - 1) \div WORDSIZE + 1][((i - 1) % WORDSIZE) + 1]]

\* The first or the last string below a slot.  A dead end has none.
SLEnd(a, p, next) ==
  LET q == SLBottom(a, p, next)
  IN  CASE a[q].t = "nil"  -> NoString
        [] a[q].t = "leaf" -> a[q].key.str
        [] a[q].t = "val"  -> Spell(q)

\* The first or last string below the nearest slot past the way of s at level i.
SLPast(a, s, i, next) ==
  LET w    == SLKey[s].way
      past == {q \in Children(a, Path(w, i - 1)) : Beyond(w[i], q[i], next)}
  IN  IF past = {} THEN NoString ELSE SLEnd(a, Closest(past, next), next)

\* Mutant of SLSeek: where nothing follows below the last word, the search ends.
SLSeekNoBacktrack(a, s, next) ==
  LET k    == SLKey[s]
      slot == Slot(a, k)
  IN  IF slot.t = "leaf" THEN IF Beyond(s, slot.key.str, next) THEN slot.key.str ELSE NoString
      ELSE SLPast(a, s, Min({Depth(a, k) + 1, Len(k.way)}), next)

SLSeek(a, s, next) ==
  LET k      == SLKey[s]
      slot   == Slot(a, k)
      levels == {i \in 1..Min({Depth(a, k) + 1, Len(k.way)}) : SLPast(a, s, i, next) # NoString}
  IN  CASE slot.t = "leaf" /\ Beyond(s, slot.key.str, next) -> slot.key.str
        [] (slot.t = "leaf" => ~Beyond(s, slot.key.str, next)) /\ levels = {} -> NoString
        [] OTHER -> SLPast(a, s, Max(levels), next)

\* JudySLFirst() and JudySLLast()
SLFrom(a, s, next) == IF SLGet(a, s) # Nil THEN s ELSE SLSeek(a, s, next)
=============================================================================
