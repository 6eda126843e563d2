-------------------------- MODULE JudyValues_proofs --------------------------
(***************************************************************************)
(* Proofs about JudyValues: for every set of keys and of values, every     *)
(* mixed type, every depth of re-entrancy and wherever clone runs out of   *)
(* memory, the reference count of a value is the number of its holders,    *)
(* and a value is freed exactly when the last holder is gone.              *)
(*                                                                         *)
(* The theorems need what the other runs show to be needed: that no        *)
(* destructor uses key_scratch while a free() walks with it, and that none *)
(* moves the cursor while a move of it has given iterator_data up.         *)
(*                                                                         *)
(* The counts alone are not inductive.  What a suspended handler does when *)
(* it goes on depends on what is above and below it on the stack: a free() *)
(* still owes the elements ahead of its cursor, which no other handler may *)
(* have moved; one move at most has given iterator_data up; and what       *)
(* filter() has stored is behind the element its callback runs on, so that *)
(* the next value finds its slot empty.                                    *)
(***************************************************************************)
EXTENDS JudyValues, DataLemmas, SequenceTheorems

\* The frames of the suspended handlers.
Frames ==
  [op : {"dtor"}, value : Values]
  \cup [op : {"range"}, at : Nat, last : Keys]
  \cup [op : {"free"}, arr : [Keys -> Values \cup {NONE}], owed : SUBSET Keys,
        at : Keys \cup {BEFORE}, shared : BOOLEAN]
  \cup [op : {"destroy", "destroyed"}]
  \cup [op : {"move"}, goal : {"next", "rewind"}]
  \cup [op : {"each"}, at : Keys, value : Values, filters : BOOLEAN]
  \cup [op : {"eachnext"}, at : Keys, filters : BOOLEAN]
  \cup [op : {"merged"}, at : Keys, value : Values]
  \cup [op : {"mergenext"}, at : Keys]

-----------------------------------------------------------------------------
(* The invariant.                                                          *)

\* What a frame is: it has given up iterator_data, it walks with key_scratch, it is
\* building the second object.
Gives(f) == f.op \in {"move", "destroy"}
SharesScratch(f) == f.op = "free" /\ f.shared
Filters(f) == f.op \in {"each", "eachnext"} /\ f.filters

\* A frame e above a frame f: what they share has one user.
Apart(e, f) == /\ ~(Gives(e) /\ Gives(f))
               /\ ~((Gives(e) \/ SharesScratch(e)) /\ SharesScratch(f))
               /\ ~(Filters(e) /\ Filters(f))

\* A free() owes what is ahead of its cursor, a filter() has stored behind its own.
Sound(f, scratch, second) ==
  /\ f.op = "free" => /\ f.owed = After(f.arr, IF f.shared THEN scratch ELSE f.at)
                      /\ f.shared => WalksScratch
  /\ f.op = "each" /\ f.filters => \A k \in Filled(second) : k < f.at
  /\ f.op = "eachnext" /\ f.filters => \A k \in Filled(second) : k <= f.at

AllApart(s) == \A i, j \in DOMAIN s : i < j => Apart(s[i], s[j])

Framed(s, scratch, second) == /\ s \in Seq(Frames)
                              /\ AllApart(s)
                              /\ \A f \in Elements(s) : Sound(f, scratch, second)

\* How often an array holds a value.
Count(a, v) == Cardinality({k \in Keys : a[k] = v})

\* The references of a stack of handlers.
Held(s, v) == LET w == [i \in DOMAIN s |-> FrameHolds(s[i], v)] IN Total(w, DOMAIN w)

\* What the object still holds of iterator_data.
Kept(s, data) == IF \E f \in Elements(s) : Gives(f) THEN NONE ELSE data

\* The references of everybody.
Claims(array, data, second, inVariables, s, v) ==
  Count(array, v) + (IF data = v THEN 1 ELSE 0) + Count(second, v)
  + (IF v \in inVariables THEN 1 ELSE 0) + Held(s, v)

Counted == \A v \in Values :
             refs[v] = Claims(slots, Kept(stack, iteratorData), other, variables, stack, v)

Inv == TypeOK /\ Framed(stack, keyScratch, other) /\ Counted /\ FreedWhenUnheld

-----------------------------------------------------------------------------
(* Arrays of values.                                                       *)

Arrays == [Keys -> Values \cup {NONE}]

LEMMA CountType == \A a, v : Count(a, v) \in Nat
<1> SUFFICES ASSUME NEW a, NEW v PROVE Count(a, v) \in Nat
  OBVIOUS
<1>1. IsFiniteSet({k \in Keys : a[k] = v})
  BY KeysAssumption, FS_Subset
<1> QED
  BY <1>1, FS_CardinalityType DEF Count

\* A value that is somewhere is counted.
LEMMA CountSome ==
  ASSUME NEW a, NEW k \in Keys
  PROVE  Count(a, a[k]) >= 1
<1> DEFINE S == {j \in Keys : a[j] = a[k]}
<1>1. IsFiniteSet(S) /\ k \in S
  BY KeysAssumption, FS_Subset
<1>2. Cardinality(S) # 0 /\ Cardinality(S) \in Nat
  BY <1>1, FS_EmptySet, FS_CardinalityType
<1> QED
  BY <1>2 DEF Count

\* What a write to one slot changes.
LEMMA CountWrite ==
  \A a \in Arrays : \A k \in Keys : \A w, v :
    Count([a EXCEPT ![k] = w], v) =
      Count(a, v) - (IF a[k] = v THEN 1 ELSE 0) + (IF w = v THEN 1 ELSE 0)
<1> SUFFICES ASSUME NEW a \in Arrays, NEW k \in Keys, NEW w, NEW v
             PROVE  Count([a EXCEPT ![k] = w], v) =
                      Count(a, v) - (IF a[k] = v THEN 1 ELSE 0) + (IF w = v THEN 1 ELSE 0)
  OBVIOUS
<1> DEFINE b == [a EXCEPT ![k] = w]
           R == {j \in Keys \ {k} : a[j] = v}
           A == {j \in Keys : a[j] = v}
           B == {j \in Keys : b[j] = v}
<1>1. IsFiniteSet(R) /\ k \notin R /\ Cardinality(R) \in Nat
  BY KeysAssumption, FS_Subset, FS_CardinalityType
<1>2. Cardinality(R \cup {k}) = Cardinality(R) + 1
  BY <1>1, FS_AddElement
<1>3. A = IF a[k] = v THEN R \cup {k} ELSE R
  OBVIOUS
<1>4. B = IF w = v THEN R \cup {k} ELSE R
  BY DEF Arrays
<1>5. Count(a, v) = Cardinality(A) /\ Count(b, v) = Cardinality(B)
  BY DEF Count
<1> HIDE DEF b, R, A, B
<1>6. Count(b, v) = Count(a, v) - (IF a[k] = v THEN 1 ELSE 0) + (IF w = v THEN 1 ELSE 0)
  BY <1>1, <1>2, <1>3, <1>4, <1>5
<1> QED
  BY <1>6 DEF b

LEMMA CountEmpty == \A v \in Values : Count(Empty, v) = 0
<1> SUFFICES ASSUME NEW v \in Values PROVE Count(Empty, v) = 0
  OBVIOUS
<1>1. {k \in Keys : Empty[k] = v} = {}
  BY ValuesAssumption DEF Empty
<1> QED
  BY <1>1, FS_EmptySet DEF Count

\* An array without a value is empty.
LEMMA EmptyArray ==
  ASSUME NEW a \in Arrays, Filled(a) = {}
  PROVE  a = Empty
BY DEF Arrays, Filled, Empty

\* A search among the keys finds the least of them.
LEMMA LeastKey ==
  ASSUME NEW S \in SUBSET Keys, S # {}
  PROVE  /\ Min(S) \in S /\ Min(S) \in Keys /\ Min(S) \in Nat
         /\ \A k \in S : Min(S) <= k
<1>1. S \subseteq Nat
  BY KeysAssumption
<1>2. \E k \in S : \A j \in S : k <= j
  BY <1>1, SmallestNumber
<1> QED
  BY <1>1, <1>2 DEF Min

\* There is a greatest one as well.
LEMMA GreatestKey ==
  ASSUME NEW S \in SUBSET Keys, S # {}
  PROVE  Max(S) \in S /\ Max(S) \in Keys
<1> DEFINE F == {T \in SUBSET S : T # {} /\ ~ \E k \in T : \A j \in T : k >= j}
<1>1. S \subseteq Nat /\ IsFiniteSet(S)
  BY KeysAssumption, FS_Subset
<1>2. F = {}
  <2> SUFFICES ASSUME F # {} PROVE FALSE
    OBVIOUS
  <2>1. PICK T \in F : \A U \in F : U \subseteq T => U = T
    <3> HIDE DEF F
    <3>1. F \subseteq SUBSET S /\ IsFiniteSet(S) /\ F # {}
      BY <1>1 DEF F
    <3> QED
      BY <3>1, SmallestSubset
  <2>2. PICK t \in T : TRUE
    OBVIOUS
  <2>3. T \ {t} \notin F
    BY <2>1, <2>2
  <2>4. T \ {t} = {} => t >= t /\ \A j \in T : j = t
    BY <1>1, <2>2
  <2>5. T \ {t} # {}
    BY <2>2, <2>4
  <2>6. PICK m \in T \ {t} : \A j \in T \ {t} : m >= j
    BY <2>3, <2>5
  <2>7. T \subseteq Nat
    BY <1>1
  <2>8. (m >= t => \A j \in T : m >= j) /\ (t >= m => \A j \in T : t >= j)
    BY <2>6, <2>7
  <2> QED
    BY <2>1, <2>2, <2>6, <2>7, <2>8
<1>3. \E k \in S : \A j \in S : k >= j
  BY <1>2
<1> QED
  BY <1>3 DEF Max

\* A search ahead of a key finds a key that is ahead of it; what is ahead of that one is
\* the rest.
LEMMA SearchAhead ==
  ASSUME NEW a \in Arrays, NEW n \in Int, After(a, n) # {}
  PROVE  /\ Min(After(a, n)) \in Keys /\ Min(After(a, n)) > n
         /\ a[Min(After(a, n))] \in Values
         /\ After(a, Min(After(a, n))) = After(a, n) \ {Min(After(a, n))}
         /\ Min(After(a, n)) \in After(a, n)
<1> DEFINE S == After(a, n)
           m == Min(S)
<1>1. S \in SUBSET Keys
  BY DEF After, Filled
<1>2. m \in S /\ m \in Keys /\ \A k \in S : m <= k
  BY <1>1, LeastKey
<1> HIDE DEF m
<1>3. \A k \in Keys : k \in Nat
  BY KeysAssumption
<1>4. m > n /\ a[m] # NONE /\ a[m] \in Values
  BY <1>2 DEF After, Filled, Arrays
<1>5. After(a, m) = S \ {m}
  BY <1>2, <1>3, <1>4 DEF After, Filled
<1> QED
  BY <1>2, <1>4, <1>5 DEF m

\* Nothing is before the first key.
LEMMA AllAhead == \A a : After(a, BEFORE) = Filled(a)
<1>1. \A k \in Keys : k > BEFORE
  BY KeysAssumption DEF BEFORE
<1> QED
  BY <1>1 DEF After, Filled

-----------------------------------------------------------------------------
(* Frames.                                                                 *)

LEMMA FrameFields ==
  ASSUME NEW f \in Frames
  PROVE  /\ f.op \in {"dtor", "range", "free", "destroy", "destroyed", "move", "each",
                       "eachnext", "merged", "mergenext"}
         /\ f.op \in {"dtor", "each", "merged"} => f.value \in Values
         /\ f.op = "free" => /\ f.arr \in Arrays /\ f.owed \in SUBSET Keys
                             /\ f.at \in Keys \cup {BEFORE} /\ f.shared \in BOOLEAN
         /\ f.op \in {"each", "eachnext", "merged", "mergenext"} => f.at \in Keys
         /\ f.op \in {"each", "eachnext"} => f.filters \in BOOLEAN
         /\ f.op = "range" => f.at \in Nat /\ f.last \in Keys
         /\ f.op = "move" => f.goal \in {"next", "rewind"}
BY DEF Frames, Arrays

LEMMA HoldsType ==
  ASSUME NEW f \in Frames, NEW v
  PROVE  FrameHolds(f, v) \in Nat
<1>1. CASE f.op = "free"
  <2>1. f.owed \in SUBSET Keys
    BY <1>1, FrameFields
  <2>2. IsFiniteSet({k \in f.owed : f.arr[k] = v})
    BY <2>1, KeysAssumption, FS_Subset
  <2> QED
    BY <1>1, <2>2, FS_CardinalityType DEF FrameHolds
<1>2. CASE f.op # "free"
  BY <1>2 DEF FrameHolds
<1> QED
  BY <1>1, <1>2

\* What a frame on top adds to the references of a stack.
LEMMA HeldPush ==
  ASSUME NEW s \in Seq(Frames), NEW e \in Frames, NEW v
  PROVE  /\ Held(s, v) \in Nat
         /\ Held(<<e>> \o s, v) = FrameHolds(e, v) + Held(s, v)
<1> DEFINE h == [f \in Frames |-> FrameHolds(f, v)]
<1>1. h \in [Frames -> Nat] /\ h[e] = FrameHolds(e, v)
  BY HoldsType
<1> HIDE DEF h
<1>2. Along(h, s) \in Nat /\ Along(h, <<e>> \o s) = h[e] + Along(h, s)
  BY <1>1, AlongPush
<1>3. ASSUME NEW t \in Seq(Frames) PROVE Held(t, v) = Along(h, t)
  <2>1. [i \in DOMAIN t |-> FrameHolds(t[i], v)] = [i \in DOMAIN t |-> h[t[i]]]
    BY DEF h
  <2> QED
    BY <2>1, Zenon DEF Held, Along
<1>4. <<e>> \o s \in Seq(Frames)
  OBVIOUS
<1> QED
  BY <1>1, <1>2, <1>3, <1>4

LEMMA HeldNone == \A v : Held(<< >>, v) = 0
<1> SUFFICES ASSUME NEW v PROVE Held(<< >>, v) = 0
  OBVIOUS
<1>1. DOMAIN [i \in DOMAIN << >> |-> FrameHolds(<< >>[i], v)] = {}
  OBVIOUS
<1> QED
  BY <1>1, TotalEmpty DEF Held

LEMMA HeldType ==
  ASSUME NEW s \in Seq(Frames), NEW v
  PROVE  Held(s, v) \in Nat
<1>1. [op |-> "destroyed"] \in Frames
  BY DEF Frames
<1> QED
  BY <1>1, HeldPush

\* A stack is its top on what is below.
LEMMA HeldPop ==
  ASSUME NEW s \in Seq(Frames), s # << >>, NEW v
  PROVE  /\ Held(s, v) = FrameHolds(Head(s), v) + Held(Tail(s), v)
         /\ Held(Tail(s), v) \in Nat
<1>1. Head(s) \in Frames /\ Tail(s) \in Seq(Frames) /\ s = <<Head(s)>> \o Tail(s)
  OBVIOUS
<1> QED
  BY <1>1, HeldPush

\* What one frame holds is part of what its stack holds.
LEMMA HeldSome ==
  ASSUME NEW s \in Seq(Frames), NEW f \in Elements(s), NEW v
  PROVE  Held(s, v) >= FrameHolds(f, v)
<1> DEFINE w == [i \in DOMAIN s |-> FrameHolds(s[i], v)]
           D == DOMAIN w
<1>1. PICK i \in DOMAIN s : f = s[i]
  BY DEF Elements
<1>2. \A j \in D : w[j] \in Nat
  BY HoldsType
<1>3. IsFiniteSet(D)
  <2>1. D = 1 .. Len(s) /\ Len(s) \in Nat
    OBVIOUS
  <2>2. IsFiniteSet(1 .. Len(s))
    BY FS_Interval
  <2> QED
    BY <2>1, <2>2
<1>4. i \in D /\ w[i] = FrameHolds(f, v) /\ Held(s, v) = Total(w, D)
  BY <1>1 DEF Held
<1> HIDE DEF w, D
<1>5. Total(w, D) = w[i] + Total(w, D \ {i})
  BY <1>2, <1>3, <1>4, TotalRemove
<1>6. Total(w, D \ {i}) \in Nat
  <2>1. IsFiniteSet(D \ {i})
    BY <1>3, FS_Subset
  <2> QED
    BY <1>2, <2>1, TotalType
<1> QED
  BY <1>2, <1>4, <1>5, <1>6

\* Pushing a frame that is sound and apart from those below.
LEMMA FramedPush ==
  ASSUME NEW s, NEW scratch, NEW second, Framed(s, scratch, second),
         NEW e \in Frames, Sound(e, scratch, second), \A f \in Elements(s) : Apart(e, f)
  PROVE  Framed(<<e>> \o s, scratch, second)
<1> DEFINE t == <<e>> \o s
<1>1. s \in Seq(Frames) /\ AllApart(s) /\ \A f \in Elements(s) : Sound(f, scratch, second)
  BY DEF Framed
<1>2. t \in Seq(Frames) /\ Elements(t) = {e} \cup Elements(s)
  BY <1>1, Push
<1>3. ASSUME NEW i \in DOMAIN t, NEW j \in DOMAIN t, i < j PROVE Apart(t[i], t[j])
  <2>1. /\ DOMAIN t = 1 .. Len(s) + 1 /\ DOMAIN s = 1 .. Len(s) /\ Len(s) \in Nat
        /\ t[1] = e /\ \A n \in 1 .. Len(s) : t[n + 1] = s[n]
    BY <1>1
  <2>2. j - 1 \in DOMAIN s /\ t[j] = s[j - 1]
    <3>1. j - 1 \in 1 .. Len(s) /\ (j - 1) + 1 = j
      BY <1>3, <2>1
    <3> HIDE DEF t
    <3> QED
      BY <2>1, <3>1
  <2>3. CASE i = 1
    BY <2>1, <2>2, <2>3 DEF Elements
  <2>4. CASE i # 1
    <3>1. i - 1 \in 1 .. Len(s) /\ (i - 1) + 1 = i /\ i - 1 < j - 1
      BY <1>3, <2>1, <2>4
    <3>2. t[i] = s[i - 1]
      <4> HIDE DEF t
      <4> QED
        BY <2>1, <3>1
    <3> HIDE DEF t
    <3> QED
      BY <1>1, <2>1, <2>2, <3>1, <3>2 DEF AllApart
  <2> QED
    BY <2>3, <2>4
<1>4. AllApart(t)
  BY <1>3 DEF AllApart
<1> QED
  BY <1>1, <1>2, <1>4 DEF Framed

\* Popping the top.
LEMMA FramedPop ==
  ASSUME NEW s, NEW scratch, NEW second, Framed(s, scratch, second), s # << >>
  PROVE  /\ Head(s) \in Frames /\ Sound(Head(s), scratch, second)
         /\ \A f \in Elements(Tail(s)) : Apart(Head(s), f)
         /\ Framed(Tail(s), scratch, second)
<1>1. s \in Seq(Frames) /\ AllApart(s) /\ \A f \in Elements(s) : Sound(f, scratch, second)
  BY DEF Framed
<1>2. /\ Head(s) \in Frames /\ Head(s) \in Elements(s)
      /\ Tail(s) \in Seq(Frames) /\ Elements(Tail(s)) \subseteq Elements(s)
  BY <1>1, Pop
<1>3. /\ \A i \in DOMAIN Tail(s) : i + 1 \in DOMAIN s /\ Tail(s)[i] = s[i + 1] /\ i \in Nat /\ 1 < i + 1
      /\ 1 \in DOMAIN s /\ s[1] = Head(s)
  BY <1>1
<1>4. AllApart(Tail(s))
  BY <1>1, <1>3 DEF AllApart
<1>5. \A f \in Elements(Tail(s)) : Apart(Head(s), f)
  BY <1>1, <1>3 DEF AllApart, Elements
<1> QED
  BY <1>1, <1>2, <1>4, <1>5 DEF Framed

\* key_scratch may move when no free() walks with it, the second object may change while
\* no filter() is building it, and may become empty at any time.
LEMMA FramedKept ==
  ASSUME NEW s, NEW scratch, NEW second, Framed(s, scratch, second),
         NEW scratch2, scratch2 = scratch \/ \A f \in Elements(s) : ~SharesScratch(f),
         NEW second2, \/ second2 = second
                      \/ Filled(second2) = {}
                      \/ \A f \in Elements(s) : ~Filters(f)
  PROVE  Framed(s, scratch2, second2)
<1>1. ASSUME NEW f \in Elements(s) PROVE Sound(f, scratch2, second2)
  <2>1. Sound(f, scratch, second)
    BY DEF Framed
  <2>2. f.op = "free" => /\ f.owed = After(f.arr, IF f.shared THEN scratch2 ELSE f.at)
                         /\ f.shared => WalksScratch
    BY <2>1 DEF Sound, SharesScratch
  <2>3. /\ f.op = "each" /\ f.filters => \A k \in Filled(second2) : k < f.at
        /\ f.op = "eachnext" /\ f.filters => \A k \in Filled(second2) : k <= f.at
    BY <2>1 DEF Sound, Filters
  <2> QED
    BY <2>2, <2>3 DEF Sound
<1> QED
  BY <1>1 DEF Framed

LEMMA KeptPush ==
  ASSUME NEW s \in Seq(Frames), NEW e \in Frames, NEW data
  PROVE  Kept(<<e>> \o s, data) = IF Gives(e) THEN NONE ELSE Kept(s, data)
<1>1. Elements(<<e>> \o s) = {e} \cup Elements(s)
  BY Push
<1> QED
  BY <1>1 DEF Kept

LEMMA KeptPop ==
  ASSUME NEW s \in Seq(Frames), s # << >>, NEW data
  PROVE  Kept(s, data) = IF Gives(Head(s)) THEN NONE ELSE Kept(Tail(s), data)
<1>1. Elements(s) = {Head(s)} \cup Elements(Tail(s))
  BY Pop
<1> QED
  BY <1>1 DEF Kept

\* Holders() counts the claims of everybody.
LEMMA HoldersAre ==
  ASSUME Framed(stack, keyScratch, other), TypeOK, NEW v \in Values
  PROVE  Holders(v) = Claims(slots, Kept(stack, iteratorData), other, variables, stack, v)
<1> DEFINE D == DOMAIN stack
           w == [i \in D |-> FrameHolds(stack[i], v)]
           g == CHOOSE g : g = [s \in SUBSET D |->
                  IF s = {} THEN 0
                  ELSE FrameHolds(stack[Pick(s)], v) + g[s \ {Pick(s)}]]
<1>1. stack \in Seq(Frames)
  BY DEF Framed
<1>2. IsFiniteSet(D)
  <2>1. D = 1 .. Len(stack) /\ Len(stack) \in Nat
    BY <1>1
  <2>2. IsFiniteSet(1 .. Len(stack))
    BY <2>1, FS_Interval
  <2> QED
    BY <2>1, <2>2
<1>3. MapThenSumSet(LAMBDA i : FrameHolds(stack[i], v), DOMAIN stack) = g[D]
  BY DEF MapThenSumSet, MapThenFoldSet, Pick
<1>4. Sums(g, w, D)
  <2>1. \A s \in SUBSET D : s # {} => w[Pick(s)] = FrameHolds(stack[Pick(s)], v)
    BY DEF Pick
  <2>2. PICK h : Sums(h, w, D)
    BY <1>2, SumsExist
  <2>3. h = [s \in SUBSET D |-> IF s = {} THEN 0
                                ELSE FrameHolds(stack[Pick(s)], v) + h[s \ {Pick(s)}]]
    <3> HIDE DEF w, D
    <3> QED
      BY <2>1, <2>2 DEF Sums, SumsOn
  <2>4. g = [s \in SUBSET D |-> IF s = {} THEN 0
                                ELSE FrameHolds(stack[Pick(s)], v) + g[s \ {Pick(s)}]]
    BY <2>3
  <2> HIDE DEF w, D, g
  <2> QED
    BY <2>1, <2>4 DEF Sums, SumsOn
<1>5. Held(stack, v) = g[D]
  <2>1. Held(stack, v) = Total(w, D)
    BY DEF Held
  <2> HIDE DEF w, D, g
  <2> QED
    BY <1>2, <1>4, <2>1, TotalIs
<1>6. DataGivenUp <=> \E f \in Elements(stack) : Gives(f)
  BY DEF DataGivenUp, Suspended, Elements, Gives
<1>7. v # NONE
  BY ValuesAssumption
<1>8. (IF iteratorData = v THEN 1 ELSE 0) - (IF DataGivenUp /\ iteratorData = v THEN 1 ELSE 0)
      = IF Kept(stack, iteratorData) = v THEN 1 ELSE 0
  BY <1>6, <1>7 DEF Kept
<1>9. Count(slots, v) \in Nat /\ Count(other, v) \in Nat /\ Held(stack, v) \in Nat
  BY <1>1, CountType, HeldType
<1> HIDE DEF g, w, D
<1> QED
  BY <1>3, <1>5, <1>8, <1>9 DEF Holders, Reported, Count, Claims

-----------------------------------------------------------------------------
(* What every step comes to: at most one reference is given back.          *)

\* The fields of the object and the PHP variables.
FieldsOK == /\ type \in Types
            /\ slots \in Arrays /\ other \in Arrays
            /\ keyScratch \in Keys \cup {BEFORE}
            /\ iteratorKey \in Keys \cup {NONE} /\ iteratorData \in Values \cup {NONE}
            /\ variables \subseteq Values

\* Everybody's claims, when one more reference, to v, is about to be given back.
Balanced(r, v, rest, array, data, second, inVariables) ==
  \A u \in Values : r[u] = Claims(array, Kept(rest, data), second, inVariables, rest, u)
                          + (IF u = v THEN 1 ELSE 0)

LEMMA InvFacts ==
  ASSUME Inv
  PROVE  /\ FieldsOK
         /\ refs \in [Values -> Nat]
         /\ life \in [Values -> {"new", "live", "dying", "spent", "gone"}]
         /\ stack \in Seq(Frames) /\ Framed(stack, keyScratch, other)
         /\ Balanced(refs, NONE, stack, slots, iteratorData, other, variables)
<1>1. \A u \in Values : u # NONE
  BY ValuesAssumption
<1>2. \A u \in Values :
        Claims(slots, Kept(stack, iteratorData), other, variables, stack, u) \in Nat
  <2>1. stack \in Seq(Frames)
    BY DEF Inv, Framed
  <2> QED
    BY <2>1, CountType, HeldType DEF Claims
<1>3. Balanced(refs, NONE, stack, slots, iteratorData, other, variables)
  BY <1>1, <1>2 DEF Inv, Counted, Balanced
<1> QED
  BY <1>3 DEF Inv, TypeOK, FieldsOK, Arrays, Framed

\* A destructor may run on top of any handler.
LEMMA DtorFrame ==
  ASSUME NEW s, NEW scratch, NEW second, Framed(s, scratch, second), NEW v \in Values
  PROVE  LET e == [op |-> "dtor", value |-> v]
         IN /\ e \in Frames
            /\ Framed(<<e>> \o s, scratch, second)
            /\ \A data : Kept(<<e>> \o s, data) = Kept(s, data)
            /\ \A u : Held(<<e>> \o s, u) = Held(s, u) + (IF u = v THEN 1 ELSE 0)
<1> DEFINE e == [op |-> "dtor", value |-> v]
<1>1. e \in Frames /\ s \in Seq(Frames)
  BY DEF Frames, Framed
<1>2. Sound(e, scratch, second) /\ ~Gives(e) /\ \A f \in Elements(s) : Apart(e, f)
  BY DEF Sound, Apart, Gives, SharesScratch, Filters
<1>3. \A u : FrameHolds(e, u) = IF u = v THEN 1 ELSE 0
  BY DEF FrameHolds
<1> HIDE DEF e
<1>4. Framed(<<e>> \o s, scratch, second)
  BY <1>1, <1>2, FramedPush
<1>5. \A data : Kept(<<e>> \o s, data) = Kept(s, data)
  BY <1>1, <1>2, KeptPush
<1>6. \A u : Held(<<e>> \o s, u) = Held(s, u) + (IF u = v THEN 1 ELSE 0)
  <2> SUFFICES ASSUME NEW u
               PROVE  Held(<<e>> \o s, u) = Held(s, u) + (IF u = v THEN 1 ELSE 0)
    OBVIOUS
  <2>1. Held(s, u) \in Nat /\ Held(<<e>> \o s, u) = FrameHolds(e, u) + Held(s, u)
    BY <1>1, HeldPush
  <2> QED
    BY <1>3, <2>1
<1> QED
  BY <1>1, <1>4, <1>5, <1>6 DEF e

\* A step that gives back one reference keeps the invariant, if the claims balance once
\* the reference is counted with them.
LEMMA Settles ==
  ASSUME Inv, NEW r \in [Values -> Nat], NEW v \in Values \cup {NONE}, NEW rest,
         ReleaseIfAny(r, v, rest), FieldsOK', type' = type,
         Framed(rest, keyScratch', other'),
         Balanced(r, v, rest, slots', iteratorData', other', variables'),
         \A u \in Values : r[u] = 0 <=> refs[u] = 0
  PROVE  Inv'
<1> DEFINE Claimed(s, u) == Claims(slots', Kept(s, iteratorData'), other', variables', s, u)
<1>1. /\ refs \in [Values -> Nat]
      /\ life \in [Values -> {"new", "live", "dying", "spent", "gone"}]
      /\ \A u \in Values : life[u] \in {"new", "gone"} <=> refs[u] = 0
  BY InvFacts DEF Inv, FreedWhenUnheld
<1>2. \A u \in Values : r[u] = Claimed(rest, u) + (IF u = v THEN 1 ELSE 0)
  BY DEF Balanced
<1>3. rest \in Seq(Frames) /\ \A u \in Values : Held(rest, u) \in Nat
  <2>1. rest \in Seq(Frames)
    BY DEF Framed
  <2> QED
    BY <2>1, HeldType
<1>4. \A u \in Values : Claimed(rest, u) \in Nat
  BY <1>3, CountType DEF Claims
<1>5. /\ Framed(stack', keyScratch', other')
      /\ refs' \in [Values -> Nat]
      /\ life' \in [Values -> {"new", "live", "dying", "spent", "gone"}]
      /\ \A u \in Values : refs'[u] = Claimed(stack', u)
      /\ \A u \in Values : life'[u] \in {"new", "gone"} <=> refs'[u] = 0
  <2>1. CASE v = NONE
    <3>1. refs' = r /\ stack' = rest /\ life' = life
      BY <2>1 DEF ReleaseIfAny
    <3>2. \A u \in Values : u # v
      BY <2>1, ValuesAssumption
    <3> HIDE DEF Claimed
    <3> QED
      BY <1>1, <1>2, <1>4, <3>1, <3>2
  <2>2. CASE v # NONE
    <3>1. v \in Values /\ Release(r, v, rest)
      BY <2>2 DEF ReleaseIfAny
    <3>2. r[v] >= 1 /\ r[v] \in Nat
      <4> HIDE DEF Claimed
      <4> QED
        BY <1>2, <1>4, <3>1
    <3>3. CASE r[v] = 1 /\ life[v] = "live"
      <4> DEFINE e == [op |-> "dtor", value |-> v]
      <4>1. refs' = r /\ life' = [life EXCEPT ![v] = "dying"] /\ stack' = <<e>> \o rest
        BY <3>1, <3>3 DEF Release
      <4>2. /\ Framed(<<e>> \o rest, keyScratch', other')
            /\ \A data : Kept(<<e>> \o rest, data) = Kept(rest, data)
            /\ \A u : Held(<<e>> \o rest, u) = Held(rest, u) + (IF u = v THEN 1 ELSE 0)
        BY <3>1, DtorFrame
      <4> HIDE DEF e
      <4>3. \A u \in Values : Claimed(stack', u) = Claimed(rest, u) + (IF u = v THEN 1 ELSE 0)
        <5> SUFFICES ASSUME NEW u \in Values
                     PROVE  Claimed(stack', u) = Claimed(rest, u) + (IF u = v THEN 1 ELSE 0)
          OBVIOUS
        <5>1. Count(slots', u) \in Nat /\ Count(other', u) \in Nat /\ Held(rest, u) \in Nat
          BY <1>3, CountType
        <5>2. /\ Kept(stack', iteratorData') = Kept(rest, iteratorData')
              /\ Held(stack', u) = Held(rest, u) + (IF u = v THEN 1 ELSE 0)
          BY <4>1, <4>2
        <5> QED
          BY <5>1, <5>2 DEF Claims
      <4> HIDE DEF Claimed
      <4> QED
        BY <1>1, <1>2, <3>1, <3>3, <4>1, <4>2, <4>3
    <3>4. CASE ~(r[v] = 1 /\ life[v] = "live")
      <4>1. /\ refs' = [r EXCEPT ![v] = @ - 1] /\ stack' = rest
            /\ life' = IF r[v] = 1 THEN [life EXCEPT ![v] = "gone"] ELSE life
        BY <3>1, <3>4 DEF Release
      <4>2. \A u \in Values : refs'[u] = r[u] - (IF u = v THEN 1 ELSE 0)
        BY <3>1, <4>1
      <4> HIDE DEF Claimed
      <4>3. \A u \in Values : refs'[u] = Claimed(rest, u)
        BY <1>2, <1>4, <4>2
      <4>4. \A u \in Values : life'[u] \in {"new", "gone"} <=> refs'[u] = 0
        BY <1>1, <3>1, <3>2, <4>1, <4>2
      <4>5. refs' \in [Values -> Nat]
        BY <3>1, <3>2, <4>1
      <4>6. life' \in [Values -> {"new", "live", "dying", "spent", "gone"}]
        BY <1>1, <3>1, <4>1
      <4> QED
        BY <4>1, <4>3, <4>4, <4>5, <4>6
    <3> QED
      BY <3>3, <3>4
  <2> QED
    BY <2>1, <2>2
<1>6. TypeOK'
  BY <1>5 DEF FieldsOK, TypeOK, Arrays
<1>7. Framed(stack, keyScratch, other)'
  BY <1>5 DEF Framed, Sound, WalksScratch
<1>8. Counted' /\ FreedWhenUnheld'
  BY <1>5 DEF Counted, FreedWhenUnheld
<1> QED
  BY <1>6, <1>7, <1>8 DEF Inv

-----------------------------------------------------------------------------
(* What the guards say of the stack, and what user code can get at.        *)

LEMMA ScratchFree ==
  ASSUME Inv, ScratchReentry = FALSE, MayUseScratch
  PROVE  \A f \in Elements(stack) : ~SharesScratch(f)
<1> SUFFICES ASSUME NEW f \in Elements(stack), SharesScratch(f) PROVE FALSE
  OBVIOUS
<1>1. Sound(f, keyScratch, other)
  BY DEF Inv, Framed
<1>2. WalksScratch
  BY <1>1 DEF Sound, SharesScratch
<1>3. FreesWithScratch
  BY DEF FreesWithScratch, Suspended, SharesScratch, Elements
<1> QED
  BY <1>2, <1>3 DEF MayUseScratch

LEMMA NoFilters == ~Building => \A f \in Elements(stack) : ~Filters(f)
BY DEF Building, Suspended, Elements, Filters

LEMMA NoneGives == ~DataGivenUp <=> \A f \in Elements(stack) : ~Gives(f)
BY DEF DataGivenUp, Suspended, Elements, Gives

\* One reference more.
LEMMA PlusFacts ==
  ASSUME NEW r \in [Values -> Nat], NEW v \in Values
  PROVE  /\ Plus(r, v) \in [Values -> Nat]
         /\ \A u \in Values : Plus(r, v)[u] = r[u] + (IF u = v THEN 1 ELSE 0)
BY DEF Plus

\* A value in a slot of either object, or in a frame, is counted.
LEMMA SlotHeld ==
  ASSUME Inv, NEW k \in Keys
  PROVE  /\ slots[k] \in Values => refs[slots[k]] >= 1
         /\ other[k] \in Values => refs[other[k]] >= 1
<1>1. /\ \A u \in Values : /\ Count(slots, u) \in Nat /\ Count(other, u) \in Nat
                           /\ Held(stack, u) \in Nat
      /\ Count(slots, slots[k]) >= 1 /\ Count(other, other[k]) >= 1
  BY InvFacts, CountType, CountSome, HeldType
<1> QED
  BY <1>1 DEF Inv, Counted, Claims

LEMMA FrameHeld ==
  ASSUME Inv, NEW f \in Elements(stack), f.op \in {"dtor", "each", "merged"}
  PROVE  f.value \in Values /\ refs[f.value] >= 1
<1>1. stack \in Seq(Frames) /\ f \in Frames
  BY InvFacts DEF Elements
<1>2. f.value \in Values
  BY <1>1, FrameFields
<1>3. FrameHolds(f, f.value) = 1
  BY DEF FrameHolds
<1>4. Held(stack, f.value) >= 1 /\ Held(stack, f.value) \in Nat
  BY <1>1, <1>3, HeldSome, HeldType
<1>5. Count(slots, f.value) \in Nat /\ Count(other, f.value) \in Nat
  BY CountType
<1> QED
  BY <1>2, <1>4, <1>5 DEF Inv, Counted, Claims

\* Nobody gets at a value that has been freed.
LEMMA ReachableHeld ==
  ASSUME Inv, NEW v \in Values, Reachable(v)
  PROVE  refs[v] >= 1
<1>1. Count(slots, v) \in Nat /\ Count(other, v) \in Nat /\ Held(stack, v) \in Nat
  BY InvFacts, CountType, HeldType
<1>2. CASE v \in variables
  BY <1>1, <1>2 DEF Inv, Counted, Claims
<1>3. CASE \E i \in Suspended({"dtor", "each"}) : stack[i].value = v
  BY <1>3, FrameHeld DEF Suspended, Elements
<1>4. CASE v = iteratorData /\ ~DataGivenUp
  <2>1. Kept(stack, iteratorData) = v
    BY <1>4, NoneGives DEF Kept
  <2> QED
    BY <1>1, <2>1 DEF Inv, Counted, Claims
<1>5. CASE \E k \in Keys : v = slots[k] /\ Alive
  BY <1>5, SlotHeld
<1> QED
  BY <1>2, <1>3, <1>4, <1>5 DEF Reachable

-----------------------------------------------------------------------------
(* The program and the elements.                                           *)

LEMMA CreateKeeps ==
  ASSUME Inv, NEW v \in Values, Create(v)
  PROVE  Inv'
<1>1. /\ life[v] \in {"new", "gone"}
      /\ life' = [life EXCEPT ![v] = "live"] /\ refs' = [refs EXCEPT ![v] = 1]
      /\ variables' = variables \cup {v}
      /\ UNCHANGED <<type, slots, keyScratch, iteratorKey, iteratorData, other, stack>>
  BY DEF Create, object
<1>2. refs[v] = 0
  BY <1>1 DEF Inv, FreedWhenUnheld
<1>3. \A u \in Values : Count(slots, u) \in Nat /\ Count(other, u) \in Nat /\ Held(stack, u) \in Nat
  BY InvFacts, CountType, HeldType
<1>4. v \notin variables
  BY <1>2, <1>3 DEF Inv, Counted, Claims
<1>5. TypeOK'
  BY <1>1 DEF Inv, TypeOK
<1>6. Framed(stack, keyScratch, other)'
  BY <1>1 DEF Inv, Framed, Sound, WalksScratch
<1>7. Counted'
  <2>1. ASSUME NEW u \in Values
        PROVE  refs'[u] = Claims(slots, Kept(stack, iteratorData), other, variables', stack, u)
    <3>1. refs[u] = Claims(slots, Kept(stack, iteratorData), other, variables, stack, u)
      BY DEF Inv, Counted
    <3>2. refs'[u] = refs[u] + IF u = v THEN 1 ELSE 0
      BY <1>1, <1>2, InvFacts
    <3> QED
      BY <1>1, <1>3, <1>4, <3>1, <3>2 DEF Claims
  <2> QED
    BY <1>1, <2>1 DEF Counted
<1>8. FreedWhenUnheld'
  BY <1>1, InvFacts DEF Inv, FreedWhenUnheld
<1> QED
  BY <1>5, <1>6, <1>7, <1>8 DEF Inv

LEMMA ForgetKeeps ==
  ASSUME Inv, NEW v \in Values, Forget(v)
  PROVE  Inv'
<1>1. /\ v \in variables /\ variables' = variables \ {v}
      /\ Release(refs, v, stack)
      /\ UNCHANGED <<type, slots, keyScratch, iteratorKey, iteratorData, other>>
  BY DEF Forget, object
<1>2. ReleaseIfAny(refs, v, stack)
  BY <1>1, ValuesAssumption DEF ReleaseIfAny
<1>3. FieldsOK'
  BY <1>1, InvFacts DEF FieldsOK
<1>4. Balanced(refs, v, stack, slots', iteratorData', other', variables')
  <2>1. \A u \in Values : Count(slots, u) \in Nat /\ Count(other, u) \in Nat /\ Held(stack, u) \in Nat
    BY InvFacts, CountType, HeldType
  <2> QED
    BY <1>1, <2>1 DEF Inv, Counted, Balanced, Claims
<1>5. Framed(stack, keyScratch', other')
  BY <1>1, InvFacts
<1> QED
  BY <1>1, <1>2, <1>3, <1>4, <1>5, InvFacts, Settles

LEMMA StoreKeeps ==
  ASSUME Inv, NEW k \in Keys, NEW v \in Values, Store(k, v)
  PROVE  Inv'
<1> DEFINE r == Plus(refs, v)
<1>1. /\ Reachable(v) /\ slots' = [slots EXCEPT ![k] = v]
      /\ ReleaseIfAny(r, slots[k], stack)
      /\ UNCHANGED <<type, keyScratch, iteratorKey, iteratorData, other, variables>>
  BY DEF Store
<1>2. r \in [Values -> Nat] /\ \A u \in Values : r[u] = refs[u] + (IF u = v THEN 1 ELSE 0)
  BY InvFacts, PlusFacts
<1> HIDE DEF r
<1>3. slots \in Arrays /\ slots[k] \in Values \cup {NONE} /\ slots' \in Arrays
  BY <1>1, InvFacts DEF FieldsOK, Arrays
<1>4. FieldsOK'
  BY <1>1, <1>3, InvFacts DEF FieldsOK
<1>5. Balanced(r, slots[k], stack, slots', iteratorData', other', variables')
  <2> SUFFICES ASSUME NEW u \in Values
               PROVE  r[u] = Claims(slots', Kept(stack, iteratorData), other, variables, stack, u)
                             + (IF u = slots[k] THEN 1 ELSE 0)
    BY <1>1 DEF Balanced
  <2>1. Count(slots, u) \in Nat /\ Count(other, u) \in Nat /\ Held(stack, u) \in Nat
    BY InvFacts, CountType, HeldType
  <2>2. Count(slots', u) = Count(slots, u) - (IF slots[k] = u THEN 1 ELSE 0) + (IF v = u THEN 1 ELSE 0)
    <3>1. Count([slots EXCEPT ![k] = v], u) =
            Count(slots, u) - (IF slots[k] = u THEN 1 ELSE 0) + (IF v = u THEN 1 ELSE 0)
      BY <1>3, CountWrite
    <3> QED
      BY <1>1, <3>1
  <2>3. refs[u] = Claims(slots, Kept(stack, iteratorData), other, variables, stack, u)
    BY DEF Inv, Counted
  <2> QED
    BY <1>2, <2>1, <2>2, <2>3 DEF Claims
<1>6. \A u \in Values : r[u] = 0 <=> refs[u] = 0
  <2>1. refs[v] >= 1 /\ refs \in [Values -> Nat]
    BY <1>1, ReachableHeld, InvFacts
  <2> QED
    BY <1>2, <2>1
<1>7. Framed(stack, keyScratch', other')
  BY <1>1, InvFacts
<1> QED
  BY <1>1, <1>2, <1>3, <1>4, <1>5, <1>6, <1>7, Settles

LEMMA UnsetKeeps ==
  ASSUME Inv, NEW k \in Keys, Unset(k)
  PROVE  Inv'
<1>1. /\ slots[k] # NONE /\ slots' = [slots EXCEPT ![k] = NONE]
      /\ ReleaseIfAny(refs, slots[k], stack)
      /\ UNCHANGED <<type, keyScratch, iteratorKey, iteratorData, other, variables>>
  BY DEF Unset, ReleaseIfAny
<1>2. slots \in Arrays /\ slots[k] \in Values /\ slots' \in Arrays
  BY <1>1, InvFacts DEF FieldsOK, Arrays
<1>3. FieldsOK'
  BY <1>1, <1>2, InvFacts DEF FieldsOK
<1>4. Balanced(refs, slots[k], stack, slots', iteratorData', other', variables')
  <2> SUFFICES ASSUME NEW u \in Values
               PROVE  refs[u] =
                        Claims(slots', Kept(stack, iteratorData), other, variables, stack, u)
                                + (IF u = slots[k] THEN 1 ELSE 0)
    BY <1>1 DEF Balanced
  <2>1. Count(slots, u) \in Nat /\ Count(other, u) \in Nat /\ Held(stack, u) \in Nat
    BY InvFacts, CountType, HeldType
  <2>2. Count(slots', u) = Count(slots, u) - (IF slots[k] = u THEN 1 ELSE 0)
    <3>1. Count([slots EXCEPT ![k] = NONE], u) =
            Count(slots, u) - (IF slots[k] = u THEN 1 ELSE 0) + (IF NONE = u THEN 1 ELSE 0)
      BY <1>2, CountWrite
    <3>2. NONE # u
      BY ValuesAssumption
    <3> QED
      BY <1>1, <2>1, <3>1, <3>2
  <2>3. refs[u] = Claims(slots, Kept(stack, iteratorData), other, variables, stack, u)
    BY DEF Inv, Counted
  <2> QED
    BY <2>1, <2>2, <2>3 DEF Claims
<1>5. Framed(stack, keyScratch', other')
  BY <1>1, InvFacts
<1> QED
  BY <1>1, <1>2, <1>3, <1>4, <1>5, InvFacts, Settles

LEMMA SearchKeeps ==
  ASSUME Inv, ScratchReentry = FALSE, NEW n \in Keys, Search(n)
  PROVE  Inv'
<1>1. /\ MayUseScratch
      /\ \E found \in {After(slots, n - 1), After(slots, n)} :
           keyScratch' = IF found = {} THEN n ELSE Min(found)
      /\ UNCHANGED <<type, slots, iteratorKey, iteratorData, other, refs, life, variables, stack>>
  BY DEF Search
<1>2. keyScratch' \in Keys
  <2>1. \A m : After(slots, m) \in SUBSET Keys
    BY DEF After, Filled
  <2> QED
    BY <1>1, <2>1, LeastKey
<1>3. FieldsOK'
  BY <1>1, <1>2, InvFacts DEF FieldsOK
<1>4. Framed(stack, keyScratch', other')
  BY <1>1, InvFacts, ScratchFree, FramedKept
<1>5. ReleaseIfAny(refs, NONE, stack)
  BY <1>1 DEF ReleaseIfAny
<1>6. Balanced(refs, NONE, stack, slots', iteratorData', other', variables')
  BY <1>1, InvFacts
<1> QED
  BY <1>1, <1>3, <1>4, <1>5, <1>6, InvFacts, Settles

-----------------------------------------------------------------------------
(* Handlers that are suspended and resumed.                                *)

\* A stack for the rest of a step on which all references are accounted for.
Ready(rest) == /\ rest \in Seq(Frames)
               /\ Framed(rest, keyScratch, other)
               /\ Balanced(refs, NONE, rest, slots, iteratorData, other, variables)

LEMMA ClaimsType ==
  ASSUME NEW s \in Seq(Frames)
  PROVE  \A array, data, second, inVariables, u : Claims(array, data, second, inVariables, s, u) \in Nat
BY CountType, HeldType DEF Claims

\* What a frame on top claims, and what it gives up.
LEMMA Pushed ==
  ASSUME NEW s, NEW scratch, NEW second, Framed(s, scratch, second),
         NEW e \in Frames, Sound(e, scratch, second), \A f \in Elements(s) : Apart(e, f)
  PROVE  /\ Framed(<<e>> \o s, scratch, second)
         /\ \A data : Kept(<<e>> \o s, data) = IF Gives(e) THEN NONE ELSE Kept(s, data)
         /\ \A array, data, inVariables, u :
              Claims(array, data, second, inVariables, <<e>> \o s, u) =
                Claims(array, data, second, inVariables, s, u) + FrameHolds(e, u)
<1>1. s \in Seq(Frames)
  BY DEF Framed
<1>2. Framed(<<e>> \o s, scratch, second)
  BY FramedPush
<1>3. \A data : Kept(<<e>> \o s, data) = IF Gives(e) THEN NONE ELSE Kept(s, data)
  BY <1>1, KeptPush
<1>4. ASSUME NEW array, NEW data, NEW inVariables, NEW u
      PROVE  Claims(array, data, second, inVariables, <<e>> \o s, u) =
               Claims(array, data, second, inVariables, s, u) + FrameHolds(e, u)
  <2>1. Count(array, u) \in Nat /\ Count(second, u) \in Nat
    BY CountType
  <2>2. Held(s, u) \in Nat /\ Held(<<e>> \o s, u) = FrameHolds(e, u) + Held(s, u)
    BY <1>1, HeldPush
  <2>3. FrameHolds(e, u) \in Nat
    BY HoldsType
  <2> QED
    BY <2>1, <2>2, <2>3 DEF Claims
<1> QED
  BY <1>2, <1>3, <1>4

\* What the handler on top leaves behind when it is resumed.
LEMMA Popped ==
  ASSUME Inv, stack # << >>
  PROVE  /\ Head(stack) \in Frames /\ Head(stack) \in Elements(stack)
         /\ Sound(Head(stack), keyScratch, other)
         /\ \A g \in Elements(Tail(stack)) : Apart(Head(stack), g)
         /\ Tail(stack) \in Seq(Frames) /\ Framed(Tail(stack), keyScratch, other)
         /\ \A u \in Values :
              refs[u] = Claims(slots, IF Gives(Head(stack)) THEN NONE
                                      ELSE Kept(Tail(stack), iteratorData),
                               other, variables, Tail(stack), u) + FrameHolds(Head(stack), u)
<1> DEFINE f == Head(stack)
           rest == Tail(stack)
<1>1. stack \in Seq(Frames) /\ Framed(stack, keyScratch, other)
  BY InvFacts
<1>2. /\ f \in Frames /\ f \in Elements(stack) /\ Sound(f, keyScratch, other)
      /\ \A g \in Elements(rest) : Apart(f, g)
      /\ rest \in Seq(Frames) /\ Framed(rest, keyScratch, other)
  BY <1>1, FramedPop, Pop
<1>3. stack = <<f>> \o rest
  BY <1>1
<1>4. \A u \in Values : refs[u] = Claims(slots, Kept(stack, iteratorData), other, variables, stack, u)
  BY DEF Inv, Counted
<1> HIDE DEF f, rest
<1>5. /\ \A data : Kept(stack, data) = IF Gives(f) THEN NONE ELSE Kept(rest, data)
      /\ \A array, data, inVariables, u :
           Claims(array, data, other, inVariables, stack, u) =
             Claims(array, data, other, inVariables, rest, u) + FrameHolds(f, u)
  BY <1>2, <1>3, Pushed
<1> QED
  BY <1>2, <1>4, <1>5 DEF f, rest

\* A handler that holds nothing leaves the references as they are.
LEMMA PoppedPlain ==
  ASSUME Inv, stack # << >>, ~Gives(Head(stack)),
         \A u \in Values : FrameHolds(Head(stack), u) = 0
  PROVE  Ready(Tail(stack))
<1> DEFINE c(u) == Claims(slots, Kept(Tail(stack), iteratorData), other, variables, Tail(stack), u)
<1>1. Tail(stack) \in Seq(Frames) /\ Framed(Tail(stack), keyScratch, other)
  BY Popped
<1>2. \A u \in Values : refs[u] = c(u) + 0
  BY Popped
<1>3. \A u \in Values : c(u) \in Nat /\ u # NONE
  BY <1>1, ClaimsType, ValuesAssumption
<1> QED
  BY <1>1, <1>2, <1>3 DEF Ready, Balanced

LEMMA ReadyNow == Inv => Ready(stack)
BY InvFacts DEF Ready

\* deleteRange().
LEMMA RangeTurnKeeps ==
  ASSUME Inv, NEW from \in Nat, NEW last \in Keys, NEW rest, Ready(rest),
         RangeTurn(from, last, rest)
  PROVE  Inv'
<1> DEFINE found == {k \in Filled(slots) : from <= k /\ k <= last}
<1>1. CASE found = {}
  <2>1. /\ stack' = rest /\ refs' = refs /\ life' = life
        /\ UNCHANGED <<type, slots, keyScratch, iteratorKey, iteratorData, other, variables>>
    BY <1>1 DEF RangeTurn, object
  <2>2. FieldsOK'
    BY <2>1, InvFacts DEF FieldsOK
  <2>3. ReleaseIfAny(refs, NONE, rest)
    BY <2>1 DEF ReleaseIfAny
  <2>4. Balanced(refs, NONE, rest, slots', iteratorData', other', variables')
        /\ Framed(rest, keyScratch', other')
    BY <2>1 DEF Ready
  <2> QED
    BY <2>1, <2>2, <2>3, <2>4, InvFacts, Settles
<1>2. CASE found # {}
  <2> DEFINE k == Min(found)
             e == [op |-> "range", at |-> k + 1, last |-> last]
  <2>1. k \in found /\ k \in Keys /\ k \in Nat
    <3>1. found \in SUBSET Keys
      BY DEF Filled
    <3> HIDE DEF found
    <3> QED
      BY <1>2, <3>1, LeastKey
  <2>2. /\ slots' = [slots EXCEPT ![k] = NONE]
        /\ Release(refs, slots[k], <<e>> \o rest)
        /\ UNCHANGED <<type, keyScratch, iteratorKey, iteratorData, other, variables>>
    BY <1>2 DEF RangeTurn
  <2>3. slots \in Arrays /\ slots[k] \in Values /\ slots' \in Arrays
    BY <2>1, <2>2, InvFacts DEF FieldsOK, Arrays, Filled
  <2>4. e \in Frames
    BY <2>1 DEF Frames
  <2>5. /\ Sound(e, keyScratch, other) /\ ~Gives(e) /\ \A f \in Elements(rest) : Apart(e, f)
        /\ \A u : FrameHolds(e, u) = 0
    BY DEF Sound, Apart, Gives, SharesScratch, Filters, FrameHolds
  <2> HIDE DEF e, k, found
  <2>6. /\ Framed(<<e>> \o rest, keyScratch, other)
        /\ \A data : Kept(<<e>> \o rest, data) = Kept(rest, data)
        /\ \A array, data, inVariables, u :
             Claims(array, data, other, inVariables, <<e>> \o rest, u) =
               Claims(array, data, other, inVariables, rest, u) + 0
    BY <2>4, <2>5, Pushed DEF Ready
  <2>7. Balanced(refs, slots[k], <<e>> \o rest, slots', iteratorData', other', variables')
    <3> SUFFICES ASSUME NEW u \in Values
                 PROVE  refs[u] =
                          Claims(slots', Kept(<<e>> \o rest, iteratorData), other, variables, <<e>> \o rest, u)
                                  + (IF u = slots[k] THEN 1 ELSE 0)
      BY <2>2 DEF Balanced
    <3>1. Count(slots, u) \in Nat /\ Count(other, u) \in Nat /\ Held(rest, u) \in Nat
      BY CountType, HeldType DEF Ready
    <3>2. Count([slots EXCEPT ![k] = NONE], u) =
            Count(slots, u) - (IF slots[k] = u THEN 1 ELSE 0) + (IF NONE = u THEN 1 ELSE 0)
      BY <2>1, <2>3, CountWrite
    <3>3. u # NONE
      BY ValuesAssumption
    <3>4. refs[u] = Claims(slots, Kept(rest, iteratorData), other, variables, rest, u)
                    + (IF u = NONE THEN 1 ELSE 0)
      BY DEF Ready, Balanced
    <3>5. Count(slots', u) = Count(slots, u) - (IF slots[k] = u THEN 1 ELSE 0)
      BY <2>2, <3>1, <3>2, <3>3
    <3>6. Claims(slots', Kept(<<e>> \o rest, iteratorData), other, variables, <<e>> \o rest, u)
          = Claims(slots', Kept(rest, iteratorData), other, variables, rest, u) + 0
      BY <2>6
    <3> QED
      BY <3>1, <3>3, <3>4, <3>5, <3>6 DEF Claims
  <2>8. FieldsOK'
    BY <2>2, <2>3, InvFacts DEF FieldsOK
  <2>9. ReleaseIfAny(refs, slots[k], <<e>> \o rest)
    BY <2>2, <2>3, ValuesAssumption DEF ReleaseIfAny
  <2>10. Framed(<<e>> \o rest, keyScratch', other')
    BY <2>2, <2>6
  <2> QED
    BY <2>2, <2>3, <2>7, <2>8, <2>9, <2>10, InvFacts, Settles
<1> QED
  BY <1>1, <1>2

-----------------------------------------------------------------------------
(* free().                                                                 *)

\* How often an array has a value under the keys of S.
Owing(a, S, u) == Cardinality({j \in S : a[j] = u})

\* What one element less to destroy changes.
LEMMA OwedLess ==
  \A a, u : \A S \in SUBSET Keys : \A k \in S :
    Owing(a, S, u) = Owing(a, S \ {k}, u) + (IF a[k] = u THEN 1 ELSE 0)
<1> SUFFICES ASSUME NEW a, NEW u, NEW S \in SUBSET Keys, NEW k \in S
             PROVE  Owing(a, S, u) = Owing(a, S \ {k}, u) + (IF a[k] = u THEN 1 ELSE 0)
  OBVIOUS
<1> DEFINE A == {j \in S : a[j] = u}
           B == {j \in S \ {k} : a[j] = u}
<1>1. IsFiniteSet(B) /\ k \notin B /\ Cardinality(B) \in Nat
  BY KeysAssumption, FS_Subset, FS_CardinalityType
<1>2. Cardinality(B \cup {k}) = Cardinality(B) + 1
  BY <1>1, FS_AddElement
<1>3. A = IF a[k] = u THEN B \cup {k} ELSE B
  OBVIOUS
<1> HIDE DEF A, B
<1>4. Cardinality(A) = Cardinality(B) + (IF a[k] = u THEN 1 ELSE 0)
  BY <1>1, <1>2, <1>3
<1> QED
  BY <1>4 DEF A, B, Owing

\* A free() that begins owes every element of the array it has detached.
LEMMA NewFree ==
  ASSUME NEW arr \in Arrays, NEW shared \in BOOLEAN, shared => WalksScratch,
         NEW scratch, shared => scratch = BEFORE, NEW second
  PROVE  LET e == FreeFrame(arr, Filled(arr), BEFORE, shared)
         IN /\ e \in Frames /\ Sound(e, scratch, second)
            /\ ~Gives(e) /\ ~Filters(e) /\ (SharesScratch(e) <=> shared)
            /\ \A u \in Values : FrameHolds(e, u) = Count(arr, u)
<1> DEFINE e == FreeFrame(arr, Filled(arr), BEFORE, shared)
<1>1. /\ e.op = "free" /\ e.arr = arr /\ e.owed = Filled(arr) /\ e.at = BEFORE
      /\ e.shared = shared
  BY DEF FreeFrame
<1>2. e \in Frames
  BY DEF FreeFrame, Frames, Arrays, Filled
<1> HIDE DEF e
<1>3. Sound(e, scratch, second)
  BY <1>1, AllAhead DEF Sound
<1>4. ASSUME NEW u \in Values PROVE FrameHolds(e, u) = Count(arr, u)
  <2>1. {k \in Filled(arr) : arr[k] = u} = {k \in Keys : arr[k] = u}
    BY ValuesAssumption DEF Filled
  <2> QED
    BY <1>1, <2>1 DEF FrameHolds, Count
<1>5. ~Gives(e) /\ ~Filters(e) /\ (SharesScratch(e) <=> shared)
  BY <1>1 DEF Gives, Filters, SharesScratch
<1> QED
  BY <1>2, <1>3, <1>4, <1>5 DEF e

LEMMA FreeTurnKeeps ==
  ASSUME Inv, stack # << >>, Head(stack).op = "free",
         FreeTurn(Head(stack), Tail(stack)),
         UNCHANGED <<type, slots, iteratorKey, iteratorData, other, variables>>
  PROVE  Inv'
<1> DEFINE f == Head(stack)
           rest == Tail(stack)
           n == IF f.shared THEN keyScratch ELSE f.at
           found == After(f.arr, n)
<1>1. /\ f \in Frames /\ Sound(f, keyScratch, other)
      /\ \A g \in Elements(rest) : Apart(f, g)
      /\ rest \in Seq(Frames) /\ Framed(rest, keyScratch, other)
  BY Popped
<1>2. f.op = "free"
  OBVIOUS
<1>3. \A u \in Values :
        refs[u] = Claims(slots, Kept(rest, iteratorData), other, variables, rest, u) + FrameHolds(f, u)
  <2>1. ~Gives(f)
    BY DEF Gives
  <2> QED
    BY <2>1, Popped
<1>4. FreeTurn(f, rest)
  OBVIOUS
<1> HIDE DEF f, rest
<1>5. /\ f.arr \in Arrays /\ f.owed \in SUBSET Keys /\ f.at \in Keys \cup {BEFORE}
      /\ f.shared \in BOOLEAN
  BY <1>1, <1>2, FrameFields
<1>6. f.owed = found /\ (f.shared => WalksScratch)
  BY <1>1, <1>2 DEF Sound
<1>7. n \in Int
  <2>1. \A i \in Keys \cup {BEFORE} : i \in Int
    BY KeysAssumption DEF BEFORE
  <2>2. keyScratch \in Keys \cup {BEFORE}
    BY InvFacts DEF FieldsOK
  <2> QED
    BY <1>5, <2>1, <2>2
<1>8. CASE found = {}
  <2>1. stack' = rest /\ UNCHANGED <<refs, life, keyScratch>>
    BY <1>4, <1>8 DEF FreeTurn
  <2>2. \A u \in Values : FrameHolds(f, u) = 0 /\ u # NONE
    BY <1>2, <1>6, <1>8, FS_EmptySet, ValuesAssumption DEF FrameHolds
  <2>3. FieldsOK'
    BY <2>1, InvFacts DEF FieldsOK
  <2>4. ReleaseIfAny(refs, NONE, rest)
    BY <2>1 DEF ReleaseIfAny
  <2>5. Balanced(refs, NONE, rest, slots', iteratorData', other', variables')
    <3>1. \A u \in Values : Claims(slots, Kept(rest, iteratorData), other, variables, rest, u) \in Nat
      BY <1>1, ClaimsType
    <3> QED
      BY <1>3, <2>2, <3>1 DEF Balanced
  <2>6. Framed(rest, keyScratch', other')
    BY <1>1, <2>1
  <2> QED
    BY <2>3, <2>4, <2>5, <2>6, InvFacts, Settles
<1>9. CASE found # {}
  <2> DEFINE k == Min(found)
             e == FreeFrame(f.arr, f.owed \ {k}, k, f.shared)
  <2>1. /\ k \in Keys /\ f.arr[k] \in Values /\ k \in found
        /\ After(f.arr, k) = found \ {k}
    <3> HIDE DEF n
    <3> QED
      BY <1>5, <1>7, <1>9, SearchAhead
  <2>2. /\ Release(refs, f.arr[k], <<e>> \o rest)
        /\ keyScratch' = IF f.shared THEN k ELSE keyScratch
    BY <1>4, <1>9 DEF FreeTurn
  <2> HIDE DEF n, found, k
  <2>3. /\ e.op = "free" /\ e.arr = f.arr /\ e.owed = f.owed \ {k} /\ e.at = k
        /\ e.shared = f.shared
    BY DEF FreeFrame
  <2>4. e \in Frames
    BY <1>5, <2>1 DEF FreeFrame, Frames, Arrays
  <2> HIDE DEF e
  <2>5. Sound(e, keyScratch', other)
    <3>1. e.owed = After(e.arr, IF e.shared THEN keyScratch' ELSE e.at)
      BY <1>6, <2>1, <2>2, <2>3
    <3> QED
      BY <1>6, <2>3, <3>1 DEF Sound
  <2>6. ~Gives(e) /\ \A g \in Elements(rest) : Apart(e, g)
    BY <1>1, <1>2, <2>3 DEF Apart, Gives, SharesScratch, Filters
  <2>7. Framed(rest, keyScratch', other)
    <3>1. f.shared => \A g \in Elements(rest) : ~SharesScratch(g)
      BY <1>1, <1>2 DEF Apart, SharesScratch
    <3> QED
      BY <1>1, <1>5, <2>2, <3>1, FramedKept
  <2>8. /\ Framed(<<e>> \o rest, keyScratch', other)
        /\ \A data : Kept(<<e>> \o rest, data) = Kept(rest, data)
        /\ \A array, data, inVariables, u :
             Claims(array, data, other, inVariables, <<e>> \o rest, u) =
               Claims(array, data, other, inVariables, rest, u) + FrameHolds(e, u)
    BY <2>4, <2>5, <2>6, <2>7, Pushed
  <2>9. Balanced(refs, f.arr[k], <<e>> \o rest, slots', iteratorData', other', variables')
    <3> SUFFICES ASSUME NEW u \in Values
                 PROVE  refs[u] =
                          Claims(slots, Kept(<<e>> \o rest, iteratorData), other, variables, <<e>> \o rest, u)
                                  + (IF u = f.arr[k] THEN 1 ELSE 0)
      BY DEF Balanced
    <3>1. Owing(f.arr, f.owed, u) = Owing(f.arr, f.owed \ {k}, u) + (IF f.arr[k] = u THEN 1 ELSE 0)
      <4>1. k \in f.owed
        BY <1>6, <2>1
      <4> QED
        BY <1>5, <4>1, OwedLess
    <3>2. FrameHolds(f, u) = FrameHolds(e, u) + (IF u = f.arr[k] THEN 1 ELSE 0)
      BY <1>2, <2>3, <3>1 DEF FrameHolds, Owing
    <3>3. FrameHolds(e, u) \in Nat /\ Claims(slots, Kept(rest, iteratorData), other, variables, rest, u) \in Nat
      BY <1>1, <2>4, HoldsType, ClaimsType
    <3> QED
      BY <1>3, <2>8, <3>2, <3>3
  <2>10. FieldsOK'
    BY <2>1, <2>2, InvFacts DEF FieldsOK
  <2>11. ReleaseIfAny(refs, f.arr[k], <<e>> \o rest)
    BY <2>1, <2>2, ValuesAssumption DEF ReleaseIfAny, e
  <2>12. Framed(<<e>> \o rest, keyScratch', other')
    BY <2>8
  <2> QED
    BY <2>1, <2>9, <2>10, <2>11, <2>12, InvFacts, Settles
<1> QED
  BY <1>8, <1>9

LEMMA FreeKeeps ==
  ASSUME Inv, ScratchReentry = FALSE, Free
  PROVE  Inv'
<1> DEFINE e == FreeFrame(slots, Filled(slots), BEFORE, WalksScratch)
<1>1. /\ MayUseScratch /\ slots' = Empty
      /\ keyScratch' = IF WalksScratch THEN BEFORE ELSE keyScratch
      /\ stack' = <<e>> \o stack
      /\ UNCHANGED <<type, iteratorKey, iteratorData, other, refs, life, variables>>
  BY DEF Free
<1>2. \A f \in Elements(stack) : ~SharesScratch(f)
  BY <1>1, ScratchFree
<1>3. Framed(stack, keyScratch', other)
  BY <1>2, InvFacts, FramedKept
<1>4. WalksScratch \in BOOLEAN /\ (WalksScratch => keyScratch' = BEFORE) /\ slots \in Arrays
  BY <1>1, InvFacts DEF WalksScratch, FieldsOK
<1>5. /\ e \in Frames /\ Sound(e, keyScratch', other) /\ ~Gives(e) /\ ~Filters(e)
      /\ \A u \in Values : FrameHolds(e, u) = Count(slots, u)
  BY <1>4, NewFree
<1>6. \A f \in Elements(stack) : Apart(e, f)
  BY <1>2, <1>5 DEF Apart
<1> HIDE DEF e
<1>7. /\ Framed(<<e>> \o stack, keyScratch', other)
      /\ \A data : Kept(<<e>> \o stack, data) = Kept(stack, data)
      /\ \A array, data, inVariables, u :
           Claims(array, data, other, inVariables, <<e>> \o stack, u) =
             Claims(array, data, other, inVariables, stack, u) + FrameHolds(e, u)
  BY <1>3, <1>5, <1>6, Pushed
<1>8. Balanced(refs, NONE, <<e>> \o stack, slots', iteratorData', other', variables')
  <2> SUFFICES ASSUME NEW u \in Values
               PROVE  refs[u] =
                        Claims(Empty, Kept(<<e>> \o stack, iteratorData), other, variables, <<e>> \o stack, u)
                                + (IF u = NONE THEN 1 ELSE 0)
    BY <1>1 DEF Balanced
  <2>1. Count(slots, u) \in Nat /\ Count(other, u) \in Nat /\ Held(stack, u) \in Nat
        /\ Count(Empty, u) = 0 /\ u # NONE
    BY CountType, HeldType, CountEmpty, ValuesAssumption, InvFacts
  <2>2. refs[u] = Claims(slots, Kept(stack, iteratorData), other, variables, stack, u)
    BY DEF Inv, Counted
  <2>3. Claims(Empty, Kept(<<e>> \o stack, iteratorData), other, variables, <<e>> \o stack, u)
        = Claims(Empty, Kept(stack, iteratorData), other, variables, stack, u) + Count(slots, u)
    BY <1>5, <1>7
  <2> QED
    BY <2>1, <2>2, <2>3 DEF Claims
<1>9. FieldsOK'
  <2>1. Empty \in Arrays
    BY DEF Empty, Arrays
  <2> QED
    BY <1>1, <2>1, InvFacts DEF FieldsOK
<1>10. ReleaseIfAny(refs, NONE, <<e>> \o stack)
  BY <1>1 DEF ReleaseIfAny
<1>11. Framed(<<e>> \o stack, keyScratch', other')
  BY <1>1, <1>7
<1> QED
  BY <1>1, <1>8, <1>9, <1>10, <1>11, InvFacts, Settles

LEMMA FreeOtherKeeps ==
  ASSUME Inv, FreeOther
  PROVE  Inv'
<1> DEFINE e == FreeFrame(other, Filled(other), BEFORE, FALSE)
<1>1. /\ ~Building /\ other' = Empty
      /\ stack' = <<e>> \o stack
      /\ UNCHANGED <<type, slots, keyScratch, iteratorKey, iteratorData, refs, life, variables>>
  BY DEF FreeOther
<1>2. Framed(stack, keyScratch, Empty)
  <2>1. Filled(Empty) = {}
    BY DEF Filled, Empty
  <2> QED
    BY <2>1, InvFacts, FramedKept
<1>3. other \in Arrays
  BY InvFacts DEF FieldsOK
<1>4. /\ e \in Frames /\ Sound(e, keyScratch, Empty) /\ ~Gives(e) /\ ~Filters(e)
      /\ ~SharesScratch(e)
      /\ \A u \in Values : FrameHolds(e, u) = Count(other, u)
  BY <1>3, NewFree
<1>5. \A f \in Elements(stack) : Apart(e, f)
  BY <1>4 DEF Apart
<1> HIDE DEF e
<1>6. /\ Framed(<<e>> \o stack, keyScratch, Empty)
      /\ \A data : Kept(<<e>> \o stack, data) = Kept(stack, data)
      /\ \A array, data, inVariables, u :
           Claims(array, data, Empty, inVariables, <<e>> \o stack, u) =
             Claims(array, data, Empty, inVariables, stack, u) + FrameHolds(e, u)
  BY <1>2, <1>4, <1>5, Pushed
<1>7. Balanced(refs, NONE, <<e>> \o stack, slots', iteratorData', other', variables')
  <2> SUFFICES ASSUME NEW u \in Values
               PROVE  refs[u] =
                        Claims(slots, Kept(<<e>> \o stack, iteratorData), Empty, variables, <<e>> \o stack, u)
                                + (IF u = NONE THEN 1 ELSE 0)
    BY <1>1 DEF Balanced
  <2>1. Count(slots, u) \in Nat /\ Count(other, u) \in Nat /\ Held(stack, u) \in Nat
        /\ Count(Empty, u) = 0 /\ u # NONE
    BY CountType, HeldType, CountEmpty, ValuesAssumption, InvFacts
  <2>2. refs[u] = Claims(slots, Kept(stack, iteratorData), other, variables, stack, u)
    BY DEF Inv, Counted
  <2>3. Claims(slots, Kept(<<e>> \o stack, iteratorData), Empty, variables, <<e>> \o stack, u)
        = Claims(slots, Kept(stack, iteratorData), Empty, variables, stack, u) + Count(other, u)
    BY <1>4, <1>6
  <2> QED
    BY <2>1, <2>2, <2>3 DEF Claims
<1>8. FieldsOK'
  <2>1. Empty \in Arrays
    BY DEF Empty, Arrays
  <2> QED
    BY <1>1, <2>1, InvFacts DEF FieldsOK
<1>9. ReleaseIfAny(refs, NONE, <<e>> \o stack)
  BY <1>1 DEF ReleaseIfAny
<1>10. Framed(<<e>> \o stack, keyScratch', other')
  BY <1>1, <1>6
<1> QED
  BY <1>1, <1>7, <1>8, <1>9, <1>10, InvFacts, Settles

LEMMA EmptyStack ==
  ASSUME NEW scratch, NEW second
  PROVE  Framed(<< >>, scratch, second)
BY NoElements DEF Framed, AllApart

\* The frame under which iterator_data is given up.
LEMMA GivingFrame ==
  ASSUME NEW s, NEW scratch, NEW second, Framed(s, scratch, second),
         NEW e \in Frames, Gives(e),
         \A f \in Elements(s) : ~Gives(f) /\ ~SharesScratch(f)
  PROVE  /\ Framed(<<e>> \o s, scratch, second)
         /\ \A data : Kept(<<e>> \o s, data) = NONE /\ Kept(s, data) = data
         /\ \A array, data, inVariables, u :
              Claims(array, data, second, inVariables, <<e>> \o s, u) =
                Claims(array, data, second, inVariables, s, u)
<1>1. Sound(e, scratch, second) /\ \A f \in Elements(s) : Apart(e, f)
  BY DEF Sound, Apart, Gives, SharesScratch, Filters
<1>2. \A u : FrameHolds(e, u) = 0
  BY DEF FrameHolds, Gives
<1>3. /\ Framed(<<e>> \o s, scratch, second)
      /\ \A data : Kept(<<e>> \o s, data) = NONE
      /\ \A array, data, inVariables, u :
           Claims(array, data, second, inVariables, <<e>> \o s, u) =
             Claims(array, data, second, inVariables, s, u) + 0
  BY <1>1, <1>2, Pushed
<1>4. \A data : Kept(s, data) = data
  BY DEF Kept
<1>5. \A array, data, inVariables, u : Claims(array, data, second, inVariables, s, u) \in Nat
  BY ClaimsType DEF Framed
<1> QED
  BY <1>3, <1>4, <1>5

\* Move() and Destroy: iterator_data is destroyed while the slots are what they were.
LEMMA GivesUpKeeps ==
  ASSUME Inv, NEW e \in Frames, Gives(e),
         \A f \in Elements(stack) : ~Gives(f) /\ ~SharesScratch(f),
         ReleaseIfAny(refs, iteratorData, <<e>> \o stack), UNCHANGED <<object, variables>>
  PROVE  Inv'
<1>1. UNCHANGED <<type, slots, keyScratch, iteratorKey, iteratorData, other, variables>>
  BY DEF object
<1>2. /\ Framed(<<e>> \o stack, keyScratch, other)
      /\ \A data : Kept(<<e>> \o stack, data) = NONE /\ Kept(stack, data) = data
      /\ \A array, data, inVariables, u :
           Claims(array, data, other, inVariables, <<e>> \o stack, u) =
             Claims(array, data, other, inVariables, stack, u)
  BY InvFacts, GivingFrame
<1>3. FieldsOK'
  BY <1>1, InvFacts DEF FieldsOK
<1>4. Balanced(refs, iteratorData, <<e>> \o stack, slots', iteratorData', other', variables')
  <2> SUFFICES ASSUME NEW u \in Values
               PROVE  refs[u] =
                        Claims(slots, Kept(<<e>> \o stack, iteratorData), other, variables, <<e>> \o stack, u)
                                + (IF u = iteratorData THEN 1 ELSE 0)
    BY <1>1 DEF Balanced
  <2>1. Count(slots, u) \in Nat /\ Count(other, u) \in Nat /\ Held(stack, u) \in Nat /\ u # NONE
    BY CountType, HeldType, ValuesAssumption, InvFacts
  <2>2. refs[u] = Claims(slots, iteratorData, other, variables, stack, u)
    BY <1>2 DEF Inv, Counted
  <2>3. Claims(slots, Kept(<<e>> \o stack, iteratorData), other, variables, <<e>> \o stack, u)
        = Claims(slots, NONE, other, variables, stack, u)
    BY <1>2
  <2> QED
    BY <2>1, <2>2, <2>3 DEF Claims
<1>5. Framed(<<e>> \o stack, keyScratch', other')
  BY <1>1, <1>2
<1>6. iteratorData \in Values \cup {NONE}
  BY InvFacts DEF FieldsOK
<1> QED
  BY <1>1, <1>3, <1>4, <1>5, <1>6, InvFacts, Settles

LEMMA DestroyKeeps ==
  ASSUME Inv, Destroy
  PROVE  Inv'
<1> DEFINE e == [op |-> "destroy"]
<1>1. /\ stack = << >> /\ ReleaseIfAny(refs, iteratorData, <<e>>) /\ UNCHANGED <<object, variables>>
  BY DEF Destroy
<1>2. e \in Frames /\ Gives(e)
  BY DEF Frames, Gives
<1> HIDE DEF e
<1>3. <<e>> \o stack = <<e>>
  BY <1>1
<1>4. Elements(stack) = {}
  BY <1>1, NoElements
<1> QED
  BY <1>1, <1>2, <1>3, <1>4, GivesUpKeeps

LEMMA MoveKeeps ==
  ASSUME Inv, ScratchReentry = FALSE, DataReentry = FALSE,
         NEW goal \in {"next", "rewind"}, Move(goal)
  PROVE  Inv'
<1> DEFINE e == [op |-> "move", goal |-> goal]
<1>1. /\ MayUseScratch /\ ~DataGivenUp
      /\ ReleaseIfAny(refs, iteratorData, <<e>> \o stack) /\ UNCHANGED <<object, variables>>
  BY DEF Move
<1>2. e \in Frames /\ Gives(e)
  BY DEF Frames, Gives
<1>3. \A f \in Elements(stack) : ~Gives(f) /\ ~SharesScratch(f)
  BY <1>1, ScratchFree, NoneGives
<1> HIDE DEF e
<1> QED
  BY <1>1, <1>2, <1>3, GivesUpKeeps

\* A handler that gave iterator_data up is resumed: the rest of the stack has neither a
\* move nor a free() that walks with key_scratch.
LEMMA GiverResumes ==
  ASSUME Inv, stack # << >>, Gives(Head(stack))
  PROVE  /\ Tail(stack) \in Seq(Frames) /\ Framed(Tail(stack), keyScratch, other)
         /\ \A f \in Elements(Tail(stack)) : ~Gives(f) /\ ~SharesScratch(f)
         /\ \A data : Kept(Tail(stack), data) = data
         /\ \A u \in Values : refs[u] = Claims(slots, NONE, other, variables, Tail(stack), u)
<1>1. /\ Tail(stack) \in Seq(Frames) /\ Framed(Tail(stack), keyScratch, other)
      /\ \A f \in Elements(Tail(stack)) : ~Gives(f) /\ ~SharesScratch(f)
  BY Popped DEF Apart
<1>2. \A data : Kept(Tail(stack), data) = data
  BY <1>1 DEF Kept
<1>3. \A u \in Values : FrameHolds(Head(stack), u) = 0
  BY DEF FrameHolds, Gives
<1>4. \A u \in Values : Claims(slots, NONE, other, variables, Tail(stack), u) \in Nat
  BY <1>1, ClaimsType
<1>5. \A u \in Values : refs[u] = Claims(slots, NONE, other, variables, Tail(stack), u) + 0
  BY <1>3, Popped
<1> QED
  BY <1>1, <1>2, <1>4, <1>5

LEMMA DestroyResumesKeeps ==
  ASSUME Inv, stack # << >>, Head(stack).op = "destroy", DestroyResumes(Tail(stack))
  PROVE  Inv'
<1> DEFINE rest == Tail(stack)
           e == FreeFrame(slots, Filled(slots), BEFORE, WalksScratch)
           d == [op |-> "destroyed"]
           below == <<d>> \o rest
<1>1. /\ rest \in Seq(Frames) /\ Framed(rest, keyScratch, other)
      /\ \A f \in Elements(rest) : ~Gives(f) /\ ~SharesScratch(f)
      /\ \A data : Kept(rest, data) = data
      /\ \A u \in Values : refs[u] = Claims(slots, NONE, other, variables, rest, u)
  BY GiverResumes DEF Gives
<1>2. /\ iteratorKey' = NONE /\ iteratorData' = NONE
      /\ slots' = Empty /\ keyScratch' = BEFORE
      /\ stack' = <<e, d>> \o rest
      /\ UNCHANGED <<type, other, refs, life, variables>>
  BY DEF DestroyResumes
<1>3. stack' = <<e>> \o below /\ d \in Frames /\ e \in Frames
  <2>1. d \in Frames
    BY DEF Frames
  <2>2. e \in Frames
    BY InvFacts, NewFree DEF FieldsOK, WalksScratch
  <2> HIDE DEF d, e, rest
  <2>3. <<e, d>> = <<e>> \o <<d>> /\ <<e>> \in Seq(Frames) /\ <<d>> \in Seq(Frames)
    <3>1. <<e>> \in Seq(Frames) /\ <<d>> \in Seq(Frames) /\ <<e, d>> \in Seq(Frames)
      BY <2>1, <2>2
    <3> DEFINE t == <<e>> \o <<d>>
               p == <<e, d>>
    <3>2. t \in Seq(Frames) /\ Len(t) = 2 /\ t[1] = e /\ t[2] = d
      BY <3>1
    <3>3. p \in Seq(Frames) /\ Len(p) = 2 /\ p[1] = e /\ p[2] = d
      BY <3>1
    <3> HIDE DEF t, p
    <3>4. \A i \in 1 .. Len(p) : p[i] = t[i]
      BY <3>2, <3>3
    <3>5. p = t
      BY <3>2, <3>3, <3>4, SeqEqual
    <3> QED
      BY <3>1, <3>5 DEF t, p
  <2>4. (<<e>> \o <<d>>) \o rest = <<e>> \o (<<d>> \o rest)
    BY <1>1, <2>3, ConcatAssociative
  <2> QED
    BY <1>2, <2>1, <2>2, <2>3, <2>4
<1>4. Framed(rest, BEFORE, other)
  BY <1>1, FramedKept
<1>5. /\ Sound(d, BEFORE, other) /\ ~Gives(d) /\ ~SharesScratch(d)
      /\ \A f \in Elements(rest) : Apart(d, f)
      /\ \A u : FrameHolds(d, u) = 0
  BY <1>1 DEF Sound, Gives, SharesScratch, Filters, Apart, FrameHolds
<1>6. /\ WalksScratch \in BOOLEAN /\ slots \in Arrays
  BY InvFacts DEF WalksScratch, FieldsOK
<1>7. /\ Sound(e, BEFORE, other) /\ ~Gives(e) /\ ~Filters(e)
      /\ \A u \in Values : FrameHolds(e, u) = Count(slots, u)
  BY <1>6, NewFree
<1>8. Elements(below) = {d} \cup Elements(rest)
  <2> HIDE DEF d, rest
  <2> QED
    BY <1>1, <1>3, Push
<1>9. \A f \in Elements(below) : Apart(e, f)
  BY <1>1, <1>5, <1>7, <1>8 DEF Apart
<1> HIDE DEF e, d, rest, below
<1>10. /\ Framed(below, BEFORE, other)
       /\ \A data : Kept(below, data) = data
       /\ \A array, data, inVariables, u :
            Claims(array, data, other, inVariables, below, u) =
              Claims(array, data, other, inVariables, rest, u) + 0
  BY <1>1, <1>3, <1>4, <1>5, Pushed DEF below
<1>11. /\ Framed(<<e>> \o below, BEFORE, other)
       /\ \A data : Kept(<<e>> \o below, data) = Kept(below, data)
       /\ \A array, data, inVariables, u :
            Claims(array, data, other, inVariables, <<e>> \o below, u) =
              Claims(array, data, other, inVariables, below, u) + FrameHolds(e, u)
  BY <1>3, <1>7, <1>9, <1>10, Pushed
<1>12. Balanced(refs, NONE, stack', slots', iteratorData', other', variables')
  <2> SUFFICES ASSUME NEW u \in Values
               PROVE  refs[u] =
                        Claims(Empty, Kept(<<e>> \o below, NONE), other, variables, <<e>> \o below, u)
                                + (IF u = NONE THEN 1 ELSE 0)
    BY <1>2, <1>3 DEF Balanced
  <2>1. Count(slots, u) \in Nat /\ Count(other, u) \in Nat /\ Held(rest, u) \in Nat
        /\ Count(Empty, u) = 0 /\ u # NONE
    BY <1>1, CountType, HeldType, CountEmpty, ValuesAssumption
  <2>2. Claims(Empty, Kept(<<e>> \o below, NONE), other, variables, <<e>> \o below, u)
        = Claims(Empty, NONE, other, variables, rest, u) + 0 + Count(slots, u)
    BY <1>7, <1>10, <1>11
  <2> QED
    BY <1>1, <2>1, <2>2 DEF Claims
<1>13. FieldsOK'
  <2>1. Empty \in Arrays
    BY DEF Empty, Arrays
  <2> QED
    BY <1>2, <2>1, InvFacts DEF FieldsOK
<1>14. ReleaseIfAny(refs, NONE, stack')
  BY <1>2 DEF ReleaseIfAny
<1>15. Framed(stack', keyScratch', other')
  BY <1>2, <1>3, <1>11
<1> QED
  BY <1>2, <1>12, <1>13, <1>14, <1>15, InvFacts, Settles

\* rewind() and next() come to their new element, and copy its value.
LEMMA MoveResumesKeeps ==
  ASSUME Inv, stack # << >>, Head(stack).op = "move", MoveResumes(Head(stack), Tail(stack))
  PROVE  Inv'
<1> DEFINE rest == Tail(stack)
<1>1. /\ rest \in Seq(Frames) /\ Framed(rest, keyScratch, other)
      /\ \A f \in Elements(rest) : ~Gives(f) /\ ~SharesScratch(f)
      /\ \A data : Kept(rest, data) = data
      /\ \A u \in Values : refs[u] = Claims(slots, NONE, other, variables, rest, u)
  BY GiverResumes DEF Gives
<1>2. Head(stack).goal \in {"next", "rewind"}
  BY Popped, FrameFields
<1>3. stack' = rest /\ UNCHANGED <<type, slots, other, life, variables>>
  BY DEF MoveResumes
<1>4. \/ \E from \in Keys \cup {BEFORE} : Arrive(from)
      \/ iteratorData' = NONE /\ UNCHANGED <<iteratorKey, keyScratch, refs>>
  <2>1. iteratorKey \in Keys \cup {NONE}
    BY InvFacts DEF FieldsOK
  <2> QED
    BY <1>2, <2>1 DEF MoveResumes
<1>5. \A u \in Values : /\ Count(slots, u) \in Nat /\ Count(other, u) \in Nat
                       /\ Held(rest, u) \in Nat /\ u # NONE
  BY <1>1, CountType, HeldType, ValuesAssumption
<1>6. slots \in Arrays /\ refs \in [Values -> Nat] /\ FieldsOK
  BY InvFacts DEF FieldsOK
<1> HIDE DEF rest
<1>7. ASSUME NEW r \in [Values -> Nat], refs' = r, FieldsOK',
             \A u \in Values : r[u] = refs[u] + (IF iteratorData' = u THEN 1 ELSE 0),
             \A u \in Values : r[u] = 0 <=> refs[u] = 0
      PROVE  Inv'
  <2>1. Balanced(r, NONE, rest, slots', iteratorData', other', variables')
    <3> SUFFICES ASSUME NEW u \in Values
                 PROVE  r[u] = Claims(slots, Kept(rest, iteratorData'), other, variables, rest, u)
                               + (IF u = NONE THEN 1 ELSE 0)
      BY <1>3 DEF Balanced
    <3>1. Kept(rest, iteratorData') = iteratorData'
      BY <1>1
    <3> QED
      BY <1>1, <1>5, <1>7, <3>1 DEF Claims
  <2>2. ReleaseIfAny(r, NONE, rest)
    BY <1>3, <1>7 DEF ReleaseIfAny
  <2>3. Framed(rest, keyScratch', other')
    BY <1>1, <1>3, FramedKept
  <2> QED
    BY <1>3, <1>7, <2>1, <2>2, <2>3, Settles
<1>8. CASE \E from \in Keys \cup {BEFORE} : Arrive(from)
  <2>1. PICK from \in Keys \cup {BEFORE} : Arrive(from)
    BY <1>8
  <2> DEFINE found == After(slots, from)
             k == Min(found)
  <2>2. CASE found = {}
    <3>1. /\ iteratorKey' = NONE /\ iteratorData' = NONE /\ refs' = refs
          /\ keyScratch' \in {keyScratch, from}
      BY <2>1, <2>2 DEF Arrive
    <3>2. FieldsOK'
      BY <1>3, <1>6, <3>1 DEF FieldsOK
    <3> QED
      BY <1>5, <1>6, <1>7, <3>1, <3>2
  <2>3. CASE found # {}
    <3>1. from \in Int
      BY KeysAssumption DEF BEFORE
    <3>2. k \in Keys /\ slots[k] \in Values
      BY <1>6, <2>3, <3>1, SearchAhead
    <3>3. /\ iteratorKey' = k /\ iteratorData' = slots[k] /\ refs' = Plus(refs, slots[k])
          /\ keyScratch' \in {keyScratch, k}
      BY <2>1, <2>3 DEF Arrive
    <3> HIDE DEF found, k
    <3>4. FieldsOK'
      BY <1>3, <1>6, <3>2, <3>3 DEF FieldsOK
    <3>5. /\ Plus(refs, slots[k]) \in [Values -> Nat]
          /\ \A u \in Values : Plus(refs, slots[k])[u] = refs[u] + (IF u = slots[k] THEN 1 ELSE 0)
      BY <1>6, <3>2, PlusFacts
    <3>6. refs[slots[k]] >= 1
      BY <3>2, SlotHeld
    <3> QED
      BY <1>6, <1>7, <3>2, <3>3, <3>4, <3>5, <3>6
  <2> QED
    BY <2>2, <2>3
<1>9. CASE iteratorData' = NONE /\ UNCHANGED <<iteratorKey, keyScratch, refs>>
  <2>1. FieldsOK'
    BY <1>3, <1>6, <1>9 DEF FieldsOK
  <2> QED
    BY <1>5, <1>6, <1>7, <1>9, <2>1
<1> QED
  BY <1>4, <1>8, <1>9

-----------------------------------------------------------------------------
(* Destructors and callbacks.                                              *)

\* The engine's own reference goes with the destructor's frame.
LEMMA DtorReturnsKeeps ==
  ASSUME Inv, stack # << >>, Head(stack).op = "dtor", DtorReturns(Head(stack), Tail(stack))
  PROVE  Inv'
<1> DEFINE f == Head(stack)
           rest == Tail(stack)
           v == f.value
           claimed(u) == Claims(slots, Kept(rest, iteratorData), other, variables, rest, u)
<1>1. /\ refs' = [refs EXCEPT ![v] = @ - 1]
      /\ life' = [life EXCEPT ![v] = IF refs[v] = 1 THEN "gone" ELSE "spent"]
      /\ stack' = rest
      /\ UNCHANGED <<type, slots, keyScratch, iteratorKey, iteratorData, other, variables>>
  BY DEF DtorReturns, object
<1>2. v \in Values /\ refs[v] >= 1
  BY Popped, FrameHeld
<1>3. rest \in Seq(Frames) /\ Framed(rest, keyScratch, other)
  BY Popped
<1>4. \A u \in Values : refs[u] = claimed(u) + (IF u = v THEN 1 ELSE 0)
  <2>1. ~Gives(f) /\ \A u : FrameHolds(f, u) = IF u = v THEN 1 ELSE 0
    BY DEF Gives, FrameHolds
  <2> QED
    BY <2>1, Popped
<1>5. \A u \in Values : claimed(u) \in Nat
  BY <1>3, ClaimsType
<1> HIDE DEF f, rest, v
<1>6. Counted'
  <2>1. \A u \in Values : refs'[u] = claimed(u)
    <3> HIDE DEF claimed
    <3> QED
      BY <1>1, <1>2, <1>4, <1>5, InvFacts
  <2>2. \A u \in Values :
          refs'[u] = Claims(slots', Kept(stack', iteratorData'), other', variables', stack', u)
    BY <1>1, <2>1
  <2> QED
    BY <2>2 DEF Counted
<1>7. TypeOK'
  <2>1. refs' \in [Values -> Nat]
    BY <1>1, <1>2, InvFacts
  <2>2. life' \in [Values -> {"new", "live", "dying", "spent", "gone"}]
    BY <1>1, <1>2, InvFacts
  <2> QED
    BY <1>1, <2>1, <2>2 DEF Inv, TypeOK
<1>8. FreedWhenUnheld'
  <2> SUFFICES ASSUME NEW u \in Values
               PROVE  life'[u] \in {"new", "gone"} <=> refs'[u] = 0
    BY DEF FreedWhenUnheld
  <2>1. CASE u = v
    <3>1. refs'[v] = refs[v] - 1 /\ life'[v] = IF refs[v] = 1 THEN "gone" ELSE "spent"
      BY <1>1, <1>2, InvFacts
    <3> QED
      BY <1>2, <2>1, <3>1, InvFacts
  <2>2. CASE u # v
    <3>1. refs'[u] = refs[u] /\ life'[u] = life[u]
      BY <1>1, <2>2, InvFacts
    <3> QED
      BY <3>1 DEF Inv, FreedWhenUnheld
  <2> QED
    BY <2>1, <2>2
<1>9. Framed(stack, keyScratch, other)'
  <2>1. Framed(stack', keyScratch', other')
    BY <1>1, <1>3
  <2> QED
    BY <1>1, <2>1 DEF Framed, Sound, WalksScratch
<1> QED
  BY <1>6, <1>7, <1>8, <1>9 DEF Inv

\* The callback gets a copy of the next value.
LEMMA EachTurnKeeps ==
  ASSUME Inv, NEW at \in Keys \cup {BEFORE}, NEW filters \in BOOLEAN, NEW rest, Ready(rest),
         filters => /\ \A f \in Elements(rest) : ~Filters(f)
                    /\ \A j \in Filled(other) : j <= at,
         EachTurn(at, filters, rest)
  PROVE  Inv'
<1>1. at \in Int /\ \A j \in Keys : j \in Int
  BY KeysAssumption DEF BEFORE
<1>2. CASE After(slots, at) = {}
  <2>1. /\ stack' = rest /\ refs' = refs /\ life' = life
        /\ UNCHANGED <<type, slots, keyScratch, iteratorKey, iteratorData, other, variables>>
    BY <1>2 DEF EachTurn, object
  <2>2. FieldsOK'
    BY <2>1, InvFacts DEF FieldsOK
  <2>3. ReleaseIfAny(refs, NONE, rest)
    BY <2>1 DEF ReleaseIfAny
  <2>4. Balanced(refs, NONE, rest, slots', iteratorData', other', variables')
        /\ Framed(rest, keyScratch', other')
    BY <2>1 DEF Ready
  <2> QED
    BY <2>1, <2>2, <2>3, <2>4, InvFacts, Settles
<1>3. CASE After(slots, at) # {}
  <2> DEFINE k == Min(After(slots, at))
             v == slots[k]
             e == [op |-> "each", at |-> k, value |-> v, filters |-> filters]
             r == Plus(refs, v)
  <2>1. k \in Keys /\ k > at /\ v \in Values
    BY <1>1, <1>3, InvFacts, SearchAhead DEF FieldsOK
  <2>2. /\ refs' = r /\ stack' = <<e>> \o rest
        /\ UNCHANGED <<type, slots, keyScratch, iteratorKey, iteratorData, other, variables, life>>
    BY <1>3 DEF EachTurn, object
  <2> HIDE DEF k, v
  <2>3. e \in Frames
    BY <2>1 DEF Frames
  <2>4. Sound(e, keyScratch, other)
    <3>1. filters => \A j \in Filled(other) : j < k
      BY <1>1, <2>1 DEF Filled
    <3> QED
      BY <3>1 DEF Sound
  <2>5. /\ ~Gives(e) /\ \A f \in Elements(rest) : Apart(e, f)
        /\ \A u : FrameHolds(e, u) = IF u = v THEN 1 ELSE 0
    BY DEF Apart, Gives, SharesScratch, Filters, FrameHolds
  <2>6. r \in [Values -> Nat] /\ \A u \in Values : r[u] = refs[u] + (IF u = v THEN 1 ELSE 0)
    BY <2>1, InvFacts, PlusFacts
  <2> HIDE DEF e, r
  <2>7. /\ Framed(<<e>> \o rest, keyScratch, other)
        /\ \A data : Kept(<<e>> \o rest, data) = Kept(rest, data)
        /\ \A array, data, inVariables, u :
             Claims(array, data, other, inVariables, <<e>> \o rest, u) =
               Claims(array, data, other, inVariables, rest, u) + FrameHolds(e, u)
    BY <2>3, <2>4, <2>5, Pushed DEF Ready
  <2>8. Balanced(r, NONE, <<e>> \o rest, slots', iteratorData', other', variables')
    <3> SUFFICES ASSUME NEW u \in Values
                 PROVE  r[u] =
                          Claims(slots, Kept(<<e>> \o rest, iteratorData), other, variables, <<e>> \o rest, u)
                               + (IF u = NONE THEN 1 ELSE 0)
      BY <2>2 DEF Balanced
    <3>1. refs[u] = Claims(slots, Kept(rest, iteratorData), other, variables, rest, u)
                    + (IF u = NONE THEN 1 ELSE 0)
      BY DEF Ready, Balanced
    <3>2. u # NONE /\ Claims(slots, Kept(rest, iteratorData), other, variables, rest, u) \in Nat
      BY ClaimsType, ValuesAssumption DEF Ready
    <3> QED
      BY <2>5, <2>6, <2>7, <3>1, <3>2
  <2>9. \A u \in Values : r[u] = 0 <=> refs[u] = 0
    <3>1. refs[v] >= 1 /\ refs \in [Values -> Nat]
      BY <2>1, SlotHeld, InvFacts DEF v
    <3> QED
      BY <2>1, <2>6, <3>1
  <2>10. FieldsOK'
    BY <2>2, InvFacts DEF FieldsOK
  <2>11. ReleaseIfAny(r, NONE, <<e>> \o rest)
    BY <2>2 DEF ReleaseIfAny
  <2>12. Framed(<<e>> \o rest, keyScratch', other')
    BY <2>2, <2>7
  <2> QED
    BY <2>2, <2>6, <2>8, <2>9, <2>10, <2>11, <2>12, Settles
<1> QED
  BY <1>2, <1>3

\* The callback returns, or throws: what filter() keeps finds its slot empty, and what it
\* has stored before is freed when it does not return.
LEMMA EachReturnsKeeps ==
  ASSUME Inv, stack # << >>, Head(stack).op = "each", EachReturns(Head(stack), Tail(stack))
  PROVE  Inv'
<1> DEFINE f == Head(stack)
           rest == Tail(stack)
           v == f.value
           n == [op |-> "eachnext", at |-> f.at, filters |-> f.filters]
           e == FreeFrame(other, Filled(other), BEFORE, FALSE)
           claimed(u) == Claims(slots, Kept(rest, iteratorData), other, variables, rest, u)
<1>1. /\ f \in Frames /\ Sound(f, keyScratch, other)
      /\ \A g \in Elements(rest) : Apart(f, g)
      /\ rest \in Seq(Frames) /\ Framed(rest, keyScratch, other)
  BY Popped
<1>2. \A u \in Values : refs[u] = claimed(u) + (IF u = v THEN 1 ELSE 0)
  <2>1. ~Gives(f) /\ \A u : FrameHolds(f, u) = IF u = v THEN 1 ELSE 0
    BY DEF Gives, FrameHolds
  <2> QED
    BY <2>1, Popped
<1>3. v \in Values /\ refs[v] >= 1 /\ v # NONE
  BY Popped, FrameHeld, ValuesAssumption
<1>4. f.op = "each" /\ EachReturns(f, rest)
  OBVIOUS
<1> HIDE DEF f, rest
<1>5. f.at \in Keys /\ f.filters \in BOOLEAN
  BY <1>1, <1>4, FrameFields
<1>6. f.filters => /\ \A g \in Elements(rest) : ~Filters(g)
                   /\ \A k \in Filled(other) : k < f.at
  BY <1>1, <1>4 DEF Apart, Filters, Sound
<1>7. /\ n \in Frames /\ ~Gives(n) /\ \A g \in Elements(rest) : Apart(n, g)
      /\ \A u : FrameHolds(n, u) = 0
  <2>1. n \in Frames
    BY <1>5 DEF Frames
  <2> QED
    BY <2>1, <1>1, <1>4 DEF Apart, Gives, SharesScratch, Filters, FrameHolds
<1>8. UNCHANGED <<type, slots, keyScratch, iteratorKey, iteratorData, variables>>
  BY <1>4 DEF EachReturns
<1>9. \A u \in Values : /\ Count(slots, u) \in Nat /\ Count(other, u) \in Nat
                       /\ Held(rest, u) \in Nat /\ u # NONE /\ Count(Empty, u) = 0
  BY <1>1, CountType, CountEmpty, HeldType, ValuesAssumption
<1>10. \A k \in Keys : k \in Nat
  BY KeysAssumption
<1>11. other \in Arrays /\ FieldsOK /\ refs \in [Values -> Nat]
  BY InvFacts DEF FieldsOK
<1>12. CASE Release(refs, v, <<n>> \o rest) /\ UNCHANGED other
  <2>1. Sound(n, keyScratch, other)
    BY <1>5, <1>6, <1>10 DEF Sound, Filled
  <2> HIDE DEF n
  <2>2. /\ Framed(<<n>> \o rest, keyScratch, other)
        /\ \A data : Kept(<<n>> \o rest, data) = Kept(rest, data)
        /\ \A array, data, inVariables, u :
             Claims(array, data, other, inVariables, <<n>> \o rest, u) =
               Claims(array, data, other, inVariables, rest, u) + FrameHolds(n, u)
    BY <1>1, <1>7, <2>1, Pushed
  <2>3. Balanced(refs, v, <<n>> \o rest, slots', iteratorData', other', variables')
    <3> SUFFICES ASSUME NEW u \in Values
                 PROVE  refs[u] =
                          Claims(slots, Kept(<<n>> \o rest, iteratorData), other, variables, <<n>> \o rest, u)
                                  + (IF u = v THEN 1 ELSE 0)
      BY <1>8, <1>12 DEF Balanced
    <3>1. claimed(u) \in Nat
      BY <1>1, ClaimsType
    <3> QED
      BY <1>2, <1>7, <2>2, <3>1
  <2>4. FieldsOK'
    BY <1>8, <1>11, <1>12 DEF FieldsOK
  <2>5. ReleaseIfAny(refs, v, <<n>> \o rest)
    BY <1>3, <1>12 DEF ReleaseIfAny
  <2>6. Framed(<<n>> \o rest, keyScratch', other')
    BY <1>8, <1>12, <2>2
  <2> HIDE DEF v
  <2> QED
    BY <1>3, <1>8, <1>11, <2>3, <2>4, <2>5, <2>6, Settles
<1>13. CASE /\ f.filters
            /\ other' = [other EXCEPT ![f.at] = v]
            /\ Release(Plus(refs, v), v, <<n>> \o rest)
  <2> DEFINE second == [other EXCEPT ![f.at] = v]
             r == Plus(refs, v)
  <2>1. second \in Arrays /\ other[f.at] = NONE
    <3>1. f.at \notin Filled(other)
      BY <1>5, <1>6, <1>10, <1>13
    <3> QED
      BY <1>3, <1>5, <1>11, <3>1 DEF Arrays, Filled
  <2>2. Sound(n, keyScratch, second)
    <3>1. \A k \in Filled(second) : k <= f.at
      BY <1>5, <1>6, <1>10, <1>11, <1>13 DEF Filled, Arrays
    <3> HIDE DEF second
    <3> QED
      BY <3>1 DEF Sound
  <2>3. \A u \in Values : Count(second, u) = Count(other, u) + (IF u = v THEN 1 ELSE 0)
    <3> SUFFICES ASSUME NEW u \in Values
                 PROVE  Count(second, u) = Count(other, u) + (IF u = v THEN 1 ELSE 0)
      OBVIOUS
    <3>1. Count([other EXCEPT ![f.at] = v], u) =
            Count(other, u) - (IF other[f.at] = u THEN 1 ELSE 0) + (IF v = u THEN 1 ELSE 0)
      <4> DEFINE k == f.at
      <4>1. k \in Keys
        BY <1>5
      <4> HIDE DEF k, v
      <4>2. Count([other EXCEPT ![k] = v], u) =
              Count(other, u) - (IF other[k] = u THEN 1 ELSE 0) + (IF v = u THEN 1 ELSE 0)
        <5>1. other \in Arrays
          BY <1>11
        <5> HIDE DEF second, r, n, e, claimed
        <5>2. \A w, x : Count([other EXCEPT ![k] = w], x) =
                         Count(other, x) - (IF other[k] = x THEN 1 ELSE 0)
                         + (IF w = x THEN 1 ELSE 0)
          BY <4>1, <5>1, CountWrite
        <5> QED
          BY <5>2
      <4> QED
        BY <4>2 DEF k
    <3> QED
      BY <1>9, <2>1, <3>1
  <2>4. r \in [Values -> Nat] /\ \A u \in Values : r[u] = refs[u] + (IF u = v THEN 1 ELSE 0)
    BY <1>3, <1>11, PlusFacts
  <2>5. other' = second /\ Release(r, v, <<n>> \o rest)
    BY <1>13
  <2> HIDE DEF n, second, r, v
  <2>6. Framed(rest, keyScratch, second)
    BY <1>1, <1>6, <1>13, FramedKept
  <2>7. /\ Framed(<<n>> \o rest, keyScratch, second)
        /\ \A data : Kept(<<n>> \o rest, data) = Kept(rest, data)
        /\ \A array, data, inVariables, u :
             Claims(array, data, second, inVariables, <<n>> \o rest, u) =
               Claims(array, data, second, inVariables, rest, u) + FrameHolds(n, u)
    BY <1>7, <2>2, <2>6, Pushed
  <2>8. Balanced(r, v, <<n>> \o rest, slots', iteratorData', other', variables')
    <3> SUFFICES ASSUME NEW u \in Values
                 PROVE  r[u] =
                          Claims(slots, Kept(<<n>> \o rest, iteratorData), second, variables, <<n>> \o rest, u)
                               + (IF u = v THEN 1 ELSE 0)
      BY <1>8, <2>5 DEF Balanced
    <3>1. Claims(slots, Kept(<<n>> \o rest, iteratorData), second, variables, <<n>> \o rest, u)
          = Claims(slots, Kept(rest, iteratorData), second, variables, rest, u) + 0
      BY <1>7, <2>7
    <3>2. Claims(slots, Kept(rest, iteratorData), second, variables, rest, u)
          = claimed(u) + (IF u = v THEN 1 ELSE 0)
      BY <1>9, <2>3 DEF Claims
    <3>3. claimed(u) \in Nat
      BY <1>1, ClaimsType
    <3> HIDE DEF claimed
    <3> QED
      BY <1>2, <2>4, <3>1, <3>2, <3>3
  <2>9. FieldsOK'
    BY <1>8, <1>11, <2>1, <2>5 DEF FieldsOK
  <2>10. ReleaseIfAny(r, v, <<n>> \o rest)
    BY <1>3, <2>5 DEF ReleaseIfAny
  <2>11. Framed(<<n>> \o rest, keyScratch', other')
    BY <1>8, <2>5, <2>7
  <2>12. \A u \in Values : r[u] = 0 <=> refs[u] = 0
    BY <1>3, <1>11, <2>4
  <2> QED
    BY <1>3, <1>8, <2>4, <2>8, <2>9, <2>10, <2>11, <2>12, Settles
<1>14. CASE /\ f.filters
            /\ other' = Empty
            /\ Release(refs, v, <<e>> \o rest)
  <2>1. Framed(rest, keyScratch, Empty)
    <3>1. Filled(Empty) = {}
      BY DEF Filled, Empty
    <3> QED
      BY <1>1, <3>1, FramedKept
  <2>2. /\ e \in Frames /\ Sound(e, keyScratch, Empty) /\ ~Gives(e) /\ ~Filters(e)
        /\ ~SharesScratch(e)
        /\ \A u \in Values : FrameHolds(e, u) = Count(other, u)
    BY <1>11, NewFree
  <2> HIDE DEF e, v
  <2>3. \A g \in Elements(rest) : Apart(e, g)
    BY <2>2 DEF Apart
  <2>4. /\ Framed(<<e>> \o rest, keyScratch, Empty)
        /\ \A data : Kept(<<e>> \o rest, data) = Kept(rest, data)
        /\ \A array, data, inVariables, u :
             Claims(array, data, Empty, inVariables, <<e>> \o rest, u) =
               Claims(array, data, Empty, inVariables, rest, u) + FrameHolds(e, u)
    BY <2>1, <2>2, <2>3, Pushed
  <2>5. Balanced(refs, v, <<e>> \o rest, slots', iteratorData', other', variables')
    <3> SUFFICES ASSUME NEW u \in Values
                 PROVE  refs[u] =
                          Claims(slots, Kept(<<e>> \o rest, iteratorData), Empty, variables, <<e>> \o rest, u)
                                  + (IF u = v THEN 1 ELSE 0)
      BY <1>8, <1>14 DEF Balanced
    <3>1. Claims(slots, Kept(<<e>> \o rest, iteratorData), Empty, variables, <<e>> \o rest, u)
          = Claims(slots, Kept(rest, iteratorData), Empty, variables, rest, u) + Count(other, u)
      BY <2>2, <2>4
    <3> QED
      BY <1>2, <1>9, <3>1 DEF Claims
  <2>6. FieldsOK'
    <3>1. Empty \in Arrays
      BY DEF Empty, Arrays
    <3> QED
      BY <1>8, <1>11, <1>14, <3>1 DEF FieldsOK
  <2>7. ReleaseIfAny(refs, v, <<e>> \o rest)
    BY <1>3, <1>14 DEF ReleaseIfAny
  <2>8. Framed(<<e>> \o rest, keyScratch', other')
    BY <1>8, <1>14, <2>4
  <2> QED
    BY <1>3, <1>8, <1>11, <2>5, <2>6, <2>7, <2>8, Settles
<1>15. CASE /\ ~f.filters
            /\ other' = other
            /\ Release(refs, v, rest)
  <2>1. Balanced(refs, v, rest, slots', iteratorData', other', variables')
    BY <1>2, <1>8, <1>15 DEF Balanced
  <2>2. FieldsOK'
    BY <1>8, <1>11, <1>15 DEF FieldsOK
  <2>3. ReleaseIfAny(refs, v, rest)
    BY <1>3, <1>15 DEF ReleaseIfAny
  <2>4. Framed(rest, keyScratch', other')
    BY <1>1, <1>8, <1>15
  <2> HIDE DEF v
  <2> QED
    BY <1>3, <1>8, <1>11, <2>1, <2>2, <2>3, <2>4, Settles
<1> QED
  BY <1>4, <1>12, <1>13, <1>14, <1>15 DEF EachReturns

-----------------------------------------------------------------------------
(* The second object.                                                      *)

LEMMA CloneKeeps ==
  ASSUME Inv, ScratchReentry = FALSE, Clone
  PROVE  Inv'
<1>1. /\ MayUseScratch /\ OtherIsFree
      /\ keyScratch' = IF WalksScratch /\ Filled(slots) # {} THEN Max(Filled(slots)) ELSE keyScratch
      /\ UNCHANGED <<type, slots, iteratorKey, iteratorData, life, variables, stack>>
  BY DEF Clone
<1>2. Framed(stack, keyScratch', other')
  <2>1. /\ \A f \in Elements(stack) : ~SharesScratch(f)
        /\ \A f \in Elements(stack) : ~Filters(f)
    BY <1>1, ScratchFree, NoFilters DEF OtherIsFree
  <2> QED
    BY <2>1, InvFacts, FramedKept
<1>3. slots \in Arrays /\ other \in Arrays /\ FieldsOK /\ refs \in [Values -> Nat]
  BY InvFacts DEF FieldsOK
<1>4. keyScratch' \in Keys \cup {BEFORE}
  <2>1. Filled(slots) \in SUBSET Keys
    BY DEF Filled
  <2>2. Filled(slots) # {} => Max(Filled(slots)) \in Keys
    BY <2>1, GreatestKey
  <2> QED
    BY <1>1, <1>3, <2>2 DEF FieldsOK
<1>5. CASE UNCHANGED <<other, refs>>
  <2>1. FieldsOK'
    BY <1>1, <1>3, <1>4, <1>5 DEF FieldsOK
  <2>2. ReleaseIfAny(refs, NONE, stack)
    BY <1>1, <1>5 DEF ReleaseIfAny
  <2>3. Balanced(refs, NONE, stack, slots', iteratorData', other', variables')
    BY <1>1, <1>5, InvFacts
  <2> QED
    BY <1>1, <1>2, <1>3, <2>1, <2>2, <2>3, Settles
<1>6. CASE /\ other' = slots
           /\ refs' = [v \in Values |-> refs[v] + Cardinality({k \in Keys : slots[k] = v})]
  <2> DEFINE r == [v \in Values |-> refs[v] + Count(slots, v)]
  <2>1. refs' = r
    BY <1>6 DEF Count
  <2>2. \A u \in Values : /\ Count(slots, u) \in Nat /\ Held(stack, u) \in Nat
                         /\ Count(other, u) = 0 /\ u # NONE
    <3>1. other = Empty
      BY <1>1, <1>3, EmptyArray DEF OtherIsFree
    <3> QED
      BY <3>1, InvFacts, CountType, CountEmpty, HeldType, ValuesAssumption
  <2>3. r \in [Values -> Nat] /\ \A u \in Values : r[u] = refs[u] + Count(slots, u)
    BY <1>3, <2>2
  <2> HIDE DEF r
  <2>4. \A u \in Values : refs[u] = Claims(slots, Kept(stack, iteratorData), other, variables, stack, u)
    BY DEF Inv, Counted
  <2>5. Balanced(r, NONE, stack, slots', iteratorData', other', variables')
    <3> SUFFICES ASSUME NEW u \in Values
                 PROVE  r[u] = Claims(slots, Kept(stack, iteratorData), slots, variables, stack, u)
                               + (IF u = NONE THEN 1 ELSE 0)
      BY <1>1, <1>6 DEF Balanced
    <3> QED
      BY <2>2, <2>3, <2>4 DEF Claims
  <2>6. \A u \in Values : r[u] = 0 <=> refs[u] = 0
    <3> SUFFICES ASSUME NEW u \in Values, refs[u] = 0 PROVE Count(slots, u) = 0
      BY <1>3, <2>2, <2>3
    <3> QED
      BY <2>2, <2>4 DEF Claims
  <2>7. FieldsOK'
    BY <1>1, <1>3, <1>4, <1>6 DEF FieldsOK
  <2>8. ReleaseIfAny(r, NONE, stack)
    BY <1>1, <2>1 DEF ReleaseIfAny
  <2> QED
    BY <1>1, <1>2, <2>3, <2>5, <2>6, <2>7, <2>8, Settles
<1> QED
  BY <1>5, <1>6 DEF Clone

\* mergeWith() holds the value it copies while the one it overwrites is destroyed.
LEMMA MergeTurnKeeps ==
  ASSUME Inv, NEW at \in Keys \cup {BEFORE}, NEW rest, Ready(rest), MergeTurn(at, rest)
  PROVE  Inv'
<1>1. CASE After(other, at) = {}
  <2>1. /\ stack' = rest /\ refs' = refs /\ life' = life
        /\ UNCHANGED <<type, slots, keyScratch, iteratorKey, iteratorData, other, variables>>
    BY <1>1 DEF MergeTurn, object
  <2>2. FieldsOK'
    BY <2>1, InvFacts DEF FieldsOK
  <2>3. ReleaseIfAny(refs, NONE, rest)
    BY <2>1 DEF ReleaseIfAny
  <2>4. Balanced(refs, NONE, rest, slots', iteratorData', other', variables')
        /\ Framed(rest, keyScratch', other')
    BY <2>1 DEF Ready
  <2> QED
    BY <2>1, <2>2, <2>3, <2>4, InvFacts, Settles
<1>2. CASE After(other, at) # {}
  <2> DEFINE k == Min(After(other, at))
             v == other[k]
             e == [op |-> "merged", at |-> k, value |-> v]
             r == Plus(Plus(refs, v), v)
  <2>1. k \in Keys /\ v \in Values
    <3>1. at \in Int
      BY KeysAssumption DEF BEFORE
    <3> QED
      BY <1>2, <3>1, InvFacts, SearchAhead DEF FieldsOK
  <2>2. /\ slots' = [slots EXCEPT ![k] = v]
        /\ ReleaseIfAny(r, slots[k], <<e>> \o rest)
        /\ UNCHANGED <<type, keyScratch, iteratorKey, iteratorData, other, variables>>
    BY <1>2 DEF MergeTurn
  <2>3. refs[v] >= 1
    BY <2>1, SlotHeld
  <2> HIDE DEF k, v
  <2>4. e \in Frames
    BY <2>1 DEF Frames
  <2>5. /\ Sound(e, keyScratch, other) /\ ~Gives(e) /\ \A f \in Elements(rest) : Apart(e, f)
        /\ \A u : FrameHolds(e, u) = IF u = v THEN 1 ELSE 0
    BY DEF Sound, Apart, Gives, SharesScratch, Filters, FrameHolds
  <2>6. r \in [Values -> Nat] /\ \A u \in Values : r[u] = refs[u] + (IF u = v THEN 2 ELSE 0)
    <3>1. /\ Plus(refs, v) \in [Values -> Nat]
          /\ \A u \in Values : Plus(refs, v)[u] = refs[u] + (IF u = v THEN 1 ELSE 0)
      BY <2>1, InvFacts, PlusFacts
    <3>2. /\ r \in [Values -> Nat]
          /\ \A u \in Values : r[u] = Plus(refs, v)[u] + (IF u = v THEN 1 ELSE 0)
      BY <2>1, <3>1, PlusFacts
    <3> HIDE DEF r
    <3> QED
      BY <3>1, <3>2, InvFacts
  <2> HIDE DEF e, r
  <2>7. slots \in Arrays /\ slots[k] \in Values \cup {NONE} /\ slots' \in Arrays
    BY <2>1, <2>2, InvFacts DEF FieldsOK, Arrays
  <2>8. /\ Framed(<<e>> \o rest, keyScratch, other)
        /\ \A data : Kept(<<e>> \o rest, data) = Kept(rest, data)
        /\ \A array, data, inVariables, u :
             Claims(array, data, other, inVariables, <<e>> \o rest, u) =
               Claims(array, data, other, inVariables, rest, u) + FrameHolds(e, u)
    BY <2>4, <2>5, Pushed DEF Ready
  <2>9. Balanced(r, slots[k], <<e>> \o rest, slots', iteratorData', other', variables')
    <3> SUFFICES ASSUME NEW u \in Values
                 PROVE  r[u] =
                          Claims(slots', Kept(<<e>> \o rest, iteratorData), other, variables, <<e>> \o rest, u)
                               + (IF u = slots[k] THEN 1 ELSE 0)
      BY <2>2 DEF Balanced
    <3>1. /\ Count(slots, u) \in Nat /\ Count(other, u) \in Nat /\ Held(rest, u) \in Nat
          /\ Count(slots', u) \in Nat /\ u # NONE
      BY CountType, HeldType, ValuesAssumption DEF Ready
    <3>2. Count([slots EXCEPT ![k] = v], u) =
            Count(slots, u) - (IF slots[k] = u THEN 1 ELSE 0) + (IF v = u THEN 1 ELSE 0)
      BY <2>1, <2>7, CountWrite
    <3>3. Count(slots', u) =
            Count(slots, u) - (IF slots[k] = u THEN 1 ELSE 0) + (IF v = u THEN 1 ELSE 0)
      BY <2>2, <3>2
    <3>4. refs[u] = Claims(slots, Kept(rest, iteratorData), other, variables, rest, u)
                    + (IF u = NONE THEN 1 ELSE 0)
      BY DEF Ready, Balanced
    <3>5. Claims(slots', Kept(<<e>> \o rest, iteratorData), other, variables, <<e>> \o rest, u)
          = Claims(slots', Kept(rest, iteratorData), other, variables, rest, u)
            + (IF u = v THEN 1 ELSE 0)
      BY <2>5, <2>8
    <3> QED
      BY <2>6, <3>1, <3>3, <3>4, <3>5 DEF Claims
  <2>10. \A u \in Values : r[u] = 0 <=> refs[u] = 0
    <3>1. refs \in [Values -> Nat]
      BY InvFacts
    <3> QED
      BY <2>1, <2>3, <2>6, <3>1
  <2>11. FieldsOK'
    BY <2>2, <2>7, InvFacts DEF FieldsOK
  <2>12. Framed(<<e>> \o rest, keyScratch', other')
    BY <2>2, <2>8
  <2> QED
    BY <2>2, <2>6, <2>7, <2>9, <2>10, <2>11, <2>12, Settles
<1> QED
  BY <1>1, <1>2

LEMMA MergeResumesKeeps ==
  ASSUME Inv, stack # << >>, Head(stack).op = "merged", MergeResumes(Head(stack), Tail(stack))
  PROVE  Inv'
<1> DEFINE f == Head(stack)
           rest == Tail(stack)
           v == f.value
           n == [op |-> "mergenext", at |-> f.at]
<1>1. /\ f \in Frames /\ rest \in Seq(Frames) /\ Framed(rest, keyScratch, other)
  BY Popped
<1>2. \A u \in Values :
        refs[u] = Claims(slots, Kept(rest, iteratorData), other, variables, rest, u)
                  + (IF u = v THEN 1 ELSE 0)
  <2>1. ~Gives(f) /\ \A u : FrameHolds(f, u) = IF u = v THEN 1 ELSE 0
    BY DEF Gives, FrameHolds
  <2> QED
    BY <2>1, Popped
<1>3. v \in Values /\ v # NONE
  BY Popped, FrameHeld, ValuesAssumption
<1>4. n \in Frames
  <2>1. f.at \in Keys
    BY <1>1, FrameFields
  <2> QED
    BY <2>1 DEF Frames
<1>5. UNCHANGED <<type, slots, keyScratch, iteratorKey, iteratorData, other, variables>>
  BY DEF MergeResumes, object
<1>6. FieldsOK' /\ FieldsOK /\ refs \in [Values -> Nat]
  BY <1>5, InvFacts DEF FieldsOK
<1>7. Release(refs, v, rest) \/ Release(refs, v, <<n>> \o rest)
  BY DEF MergeResumes
<1> HIDE DEF f, rest, v
<1>8. CASE Release(refs, v, rest)
  <2>1. Balanced(refs, v, rest, slots', iteratorData', other', variables')
    BY <1>2, <1>5 DEF Balanced
  <2>2. ReleaseIfAny(refs, v, rest)
    BY <1>3, <1>8 DEF ReleaseIfAny
  <2>3. Framed(rest, keyScratch', other')
    BY <1>1, <1>5
  <2> QED
    BY <1>3, <1>5, <1>6, <2>1, <2>2, <2>3, Settles
<1>9. CASE Release(refs, v, <<n>> \o rest)
  <2>1. /\ Sound(n, keyScratch, other) /\ ~Gives(n) /\ \A g \in Elements(rest) : Apart(n, g)
        /\ \A u : FrameHolds(n, u) = 0
    BY DEF Sound, Apart, Gives, SharesScratch, Filters, FrameHolds
  <2> HIDE DEF n
  <2>2. /\ Framed(<<n>> \o rest, keyScratch, other)
        /\ \A data : Kept(<<n>> \o rest, data) = Kept(rest, data)
        /\ \A array, data, inVariables, u :
             Claims(array, data, other, inVariables, <<n>> \o rest, u) =
               Claims(array, data, other, inVariables, rest, u) + 0
    BY <1>1, <1>4, <2>1, Pushed
  <2>3. Balanced(refs, v, <<n>> \o rest, slots', iteratorData', other', variables')
    <3> SUFFICES ASSUME NEW u \in Values
                 PROVE  refs[u] =
                          Claims(slots, Kept(<<n>> \o rest, iteratorData), other, variables, <<n>> \o rest, u)
                                  + (IF u = v THEN 1 ELSE 0)
      BY <1>5 DEF Balanced
    <3>1. Claims(slots, Kept(rest, iteratorData), other, variables, rest, u) \in Nat
      BY <1>1, ClaimsType
    <3> QED
      BY <1>2, <2>2, <3>1
  <2>4. ReleaseIfAny(refs, v, <<n>> \o rest)
    BY <1>3, <1>9 DEF ReleaseIfAny
  <2>5. Framed(<<n>> \o rest, keyScratch', other')
    BY <1>5, <2>2
  <2> QED
    BY <1>3, <1>5, <1>6, <2>3, <2>4, <2>5, Settles
<1> QED
  BY <1>7, <1>8, <1>9

-----------------------------------------------------------------------------
(* Resume and the whole next-state relation.                               *)

\* No destructor uses key_scratch while a free() walks with it, none moves the cursor
\* while a move of it is under way.
Orderly == ScratchReentry = FALSE /\ DataReentry = FALSE

\* The handler on top is done.
LEMMA EndsKeeps ==
  ASSUME Inv, NEW rest, Ready(rest), stack' = rest, UNCHANGED <<object, refs, life, variables>>
  PROVE  Inv'
<1>1. UNCHANGED <<type, slots, keyScratch, iteratorKey, iteratorData, other, variables>>
  BY DEF object
<1>2. FieldsOK'
  BY <1>1, InvFacts DEF FieldsOK
<1>3. ReleaseIfAny(refs, NONE, rest)
  BY DEF ReleaseIfAny
<1>4. Balanced(refs, NONE, rest, slots', iteratorData', other', variables')
      /\ Framed(rest, keyScratch', other')
  BY <1>1 DEF Ready
<1> QED
  BY <1>1, <1>2, <1>3, <1>4, InvFacts, Settles

LEMMA ResumeKeeps ==
  ASSUME Inv, Resume
  PROVE  Inv'
<1> DEFINE f == Head(stack)
           rest == Tail(stack)
<1>1. stack # << >>
  BY DEF Resume
<1>2. /\ f \in Frames /\ Sound(f, keyScratch, other)
      /\ \A g \in Elements(rest) : Apart(f, g)
  BY <1>1, Popped
<1>3. ASSUME f.op \in {"range", "destroyed", "eachnext", "mergenext"} PROVE Ready(rest)
  <2>1. ~Gives(f) /\ \A u \in Values : FrameHolds(f, u) = 0
    BY <1>3 DEF Gives, FrameHolds
  <2> QED
    BY <1>1, <2>1, PoppedPlain
<1>4. CASE f.op = "dtor"
  <2>1. DtorReturns(f, rest)
    BY <1>4 DEF Resume
  <2> QED
    BY <1>1, <1>4, <2>1, DtorReturnsKeeps
<1>5. CASE f.op = "range"
  <2>1. RangeTurn(f.at, f.last, rest)
    BY <1>5 DEF Resume
  <2>2. f.at \in Nat /\ f.last \in Keys
    BY <1>2, <1>5, FrameFields
  <2> QED
    BY <1>3, <1>5, <2>1, <2>2, RangeTurnKeeps
<1>6. CASE f.op = "free"
  <2>1. FreeTurn(f, rest) /\ UNCHANGED <<type, slots, iteratorKey, iteratorData, other, variables>>
    BY <1>6 DEF Resume
  <2> QED
    BY <1>1, <1>6, <2>1, FreeTurnKeeps
<1>7. CASE f.op = "destroy"
  <2>1. DestroyResumes(rest)
    BY <1>7 DEF Resume
  <2> QED
    BY <1>1, <1>7, <2>1, DestroyResumesKeeps
<1>8. CASE f.op = "destroyed"
  <2>1. stack' = rest /\ UNCHANGED <<object, refs, life, variables>>
    BY <1>8 DEF Resume
  <2> QED
    BY <1>3, <1>8, <2>1, EndsKeeps
<1>9. CASE f.op = "move"
  <2>1. MoveResumes(f, rest)
    BY <1>9 DEF Resume
  <2> QED
    BY <1>1, <1>9, <2>1, MoveResumesKeeps
<1>10. CASE f.op = "each"
  <2>1. EachReturns(f, rest)
    BY <1>10 DEF Resume
  <2> QED
    BY <1>1, <1>10, <2>1, EachReturnsKeeps
<1>11. CASE f.op = "eachnext"
  <2>1. EachTurn(f.at, f.filters, rest)
    BY <1>11 DEF Resume
  <2>2. f.at \in Keys /\ f.filters \in BOOLEAN
    BY <1>2, <1>11, FrameFields
  <2>3. f.filters => /\ \A g \in Elements(rest) : ~Filters(g)
                     /\ \A j \in Filled(other) : j <= f.at
    BY <1>2, <1>11 DEF Apart, Filters, Sound
  <2> QED
    BY <1>3, <1>11, <2>1, <2>2, <2>3, EachTurnKeeps
<1>12. CASE f.op = "merged"
  <2>1. MergeResumes(f, rest)
    BY <1>12 DEF Resume
  <2> QED
    BY <1>1, <1>12, <2>1, MergeResumesKeeps
<1>13. CASE f.op = "mergenext"
  <2>1. MergeTurn(f.at, rest)
    BY <1>13 DEF Resume
  <2>2. f.at \in Keys
    BY <1>2, <1>13, FrameFields
  <2> QED
    BY <1>3, <1>13, <2>1, <2>2, MergeTurnKeeps
<1>14. f.op \in {"dtor", "range", "free", "destroy", "destroyed", "move", "each",
                 "eachnext", "merged", "mergenext"}
  BY <1>2, FrameFields
<1> QED
  BY <1>4, <1>5, <1>6, <1>7, <1>8, <1>9, <1>10, <1>11, <1>12, <1>13, <1>14

LEMMA FilterKeeps ==
  ASSUME Inv, Filter
  PROVE  Inv'
<1>1. Filled(other) = {} /\ (\A f \in Elements(stack) : ~Filters(f)) /\ EachTurn(BEFORE, TRUE, stack)
  BY NoFilters DEF Filter, OtherIsFree
<1>2. BEFORE \in Keys \cup {BEFORE} /\ Ready(stack)
  BY ReadyNow
<1>3. \A j \in Filled(other) : j <= BEFORE
  BY <1>1
<1> QED
  BY <1>1, <1>2, <1>3, EachTurnKeeps

LEMMA InvInit == Init => Inv
<1> SUFFICES ASSUME Init PROVE Inv
  OBVIOUS
<1>1. Empty \in [Keys -> Values \cup {NONE}]
  BY DEF Empty
<1>2. TypeOK
  BY <1>1 DEF Init, TypeOK
<1>3. Framed(stack, keyScratch, other)
  BY EmptyStack DEF Init
<1>4. Counted
  <2> SUFFICES ASSUME NEW v \in Values
               PROVE  refs[v] = Claims(slots, Kept(stack, iteratorData), other, variables, stack, v)
    BY DEF Counted
  <2>1. Count(Empty, v) = 0 /\ Held(<< >>, v) = 0
    BY CountEmpty, HeldNone
  <2>2. Kept(<< >>, NONE) = NONE /\ v # NONE
    BY ValuesAssumption DEF Kept
  <2> QED
    BY <2>1, <2>2 DEF Init, Claims
<1>5. FreedWhenUnheld
  BY DEF Init, FreedWhenUnheld
<1> QED
  BY <1>2, <1>3, <1>4, <1>5 DEF Inv

\* Every step of every handler keeps the invariant.
LEMMA InvStep ==
  ASSUME Orderly
  PROVE  Inv /\ [Next]_vars => Inv'
<1> SUFFICES ASSUME Inv, [Next]_vars PROVE Inv'
  OBVIOUS
<1>1. ScratchReentry = FALSE /\ DataReentry = FALSE
  BY DEF Orderly
<1>2. Ready(stack) /\ BEFORE \in Keys \cup {BEFORE}
  BY ReadyNow
<1>3. ASSUME NEW v \in Values, Create(v) PROVE Inv'
  BY <1>3, CreateKeeps
<1>4. ASSUME NEW v \in Values, Forget(v) PROVE Inv'
  BY <1>4, ForgetKeeps
<1>5. ASSUME NEW k \in Keys, NEW v \in Values, Store(k, v) PROVE Inv'
  BY <1>5, StoreKeeps
<1>6. ASSUME NEW k \in Keys, Unset(k) PROVE Inv'
  BY <1>6, UnsetKeeps
<1>7. ASSUME NEW n \in Keys, Search(n) PROVE Inv'
  BY <1>1, <1>7, SearchKeeps
<1>8. ASSUME NEW from \in Keys, NEW last \in Keys, DeleteRange(from, last) PROVE Inv'
  <2>1. from \in Nat /\ RangeTurn(from, last, stack)
    BY <1>8, KeysAssumption DEF DeleteRange
  <2> QED
    BY <1>2, <2>1, RangeTurnKeeps
<1>9. ASSUME NEW goal \in {"next", "rewind"}, Move(goal) PROVE Inv'
  BY <1>1, <1>9, MoveKeeps
<1>10. CASE Free
  BY <1>1, <1>10, FreeKeeps
<1>11. CASE Destroy
  BY <1>11, DestroyKeeps
<1>12. CASE FreeOther
  BY <1>12, FreeOtherKeeps
<1>13. CASE Clone
  BY <1>1, <1>13, CloneKeeps
<1>14. CASE ForEach
  <2>1. EachTurn(BEFORE, FALSE, stack)
    BY <1>14 DEF ForEach
  <2> QED
    BY <1>2, <2>1, EachTurnKeeps
<1>15. CASE Filter
  BY <1>15, FilterKeeps
<1>16. CASE MergeWith
  <2>1. MergeTurn(BEFORE, stack)
    BY <1>16 DEF MergeWith
  <2> QED
    BY <1>2, <2>1, MergeTurnKeeps
<1>17. CASE Resume
  BY <1>17, ResumeKeeps
<1>18. CASE UNCHANGED vars
  <2>1. stack' = stack /\ UNCHANGED <<object, refs, life, variables>>
    BY <1>18 DEF vars, object
  <2> QED
    BY <1>2, <2>1, EndsKeeps
<1> QED
  BY <1>3, <1>4, <1>5, <1>6, <1>7, <1>8, <1>9, <1>10, <1>11, <1>12, <1>13, <1>14, <1>15,
     <1>16, <1>17, <1>18 DEF Next

-----------------------------------------------------------------------------
(* The theorems.                                                           *)

\* Whatever the destructors and callbacks of user code do to the object, as long as they
\* keep off the shared cursor and off a move under way, every field holds what its C type
\* allows; in particular no reference count ever goes below zero.
THEOREM TypeSafe ==
  ASSUME Orderly
  PROVE  Spec => []TypeOK
<1>1. Inv => TypeOK
  BY DEF Inv
<1>2. Inv /\ [Next]_vars => Inv'
  BY InvStep
<1> QED
  BY <1>1, <1>2, InvInit, PTL DEF Spec

\* Under the same assumption every reference is given back exactly once: the count of a
\* value is the number of its holders at every step of every handler, for any number of
\* keys, values and handlers inside each other.
THEOREM RefsSafe ==
  ASSUME Orderly
  PROVE  Spec => []RefsAgree
<1>1. Inv => RefsAgree
  <2> SUFFICES ASSUME Inv, NEW v \in Values PROVE refs[v] = Holders(v)
    BY DEF RefsAgree
  <2>1. Holders(v) = Claims(slots, Kept(stack, iteratorData), other, variables, stack, v)
    BY HoldersAre DEF Inv
  <2> QED
    BY <2>1 DEF Inv, Counted
<1>2. Inv /\ [Next]_vars => Inv'
  BY InvStep
<1> QED
  BY <1>1, <1>2, InvInit, PTL DEF Spec

\* Under the same assumption a value is freed exactly when its last reference goes: never
\* while a slot, the iterator, a detached array or a handler refers to it, and at once
\* when none does.
THEOREM FreedSafe ==
  ASSUME Orderly
  PROVE  Spec => []FreedWhenUnheld
<1>1. Inv => FreedWhenUnheld
  BY DEF Inv
<1>2. Inv /\ [Next]_vars => Inv'
  BY InvStep
<1> QED
  BY <1>1, <1>2, InvInit, PTL DEF Spec

=============================================================================
