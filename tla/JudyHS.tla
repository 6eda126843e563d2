------------------------------- MODULE JudyHS -------------------------------
(***************************************************************************)
(* JudyHS: strings of any bytes.  The root is a JudyL array over lengths.  *)
(* A string of one word hangs there in an array over its chunk; longer     *)
(* ones hang in a hash table, and in a tree of JudyL arrays where two of   *)
(* them have the same hash value.                                          *)
(***************************************************************************)
EXTENDS JudyWords, SequencesExt

CONSTANT HashRange      \* values of a hash: 2^32

ASSUME HashAssumption == HashRange \in Nat \ {0}

\* JUDYHASHSTR
Hash(s) == FoldLeft(LAMBDA c, b : (c * 31 + b) % HashRange, 0, s)

Long(s) == Len(s) > WORDSIZE

\* The words of a string; the last one may be short of bytes.
Chunks(s) ==
  [i \in 1..((Len(s) - 1) \div WORDSIZE + 1) |->
     SubSeq(s, (i - 1) * WORDSIZE + 1, Min({i * WORDSIZE, Len(s)}))]

HSWay(s) == IF Long(s) THEN <<Len(s), Hash(s)>> \o Chunks(s) ELSE <<Len(s), s>>

\* What is left of a long string at each level, from its bucket on to where only one word
\* is left.
HSSize(s) ==
  [i \in (IF Long(s) THEN 2..Len(Chunks(s)) ELSE {}) |-> Len(s) - (i - 2) * WORDSIZE]

HSKey == [s \in Strings |-> [str |-> s, way |-> HSWay(s), size |-> HSSize(s)]]

\* JudyHSGet(): the value of a string, nil if it has none.
HSGet(a, s) == Get(a, HSKey[s])

\* The leaf in the way is freed with the length of what is left of the new string.
HSFreed(a, k) == k.size[Depth(a, k)]

\* JudyHSIns(), and the write of the value that follows it.
HSIns(a, s, v, m) ==
  LET k == HSKey[s]
  IN  Ins(a, k, v, IF Collides(a, k) THEN HSFreed(a, k) ELSE 0, m)

\* JudyHSDel(): a bucket, a hash table and a length that hold nothing more go too.
HSDel(a, s, m) == Del(a, HSKey[s], m)

\* JudyHSFreeArray(): the words it gives back.
HSFreeArray(a) == TreeWords(a)
=============================================================================
