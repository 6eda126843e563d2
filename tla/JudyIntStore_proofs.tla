------------------------ MODULE JudyIntStore_proofs ------------------------
(***************************************************************************)
(* Proofs about JudyIntStore, for every word size, every set of types and  *)
(* every depth of re-entrancy.                                             *)
(***************************************************************************)
EXTENDS JudyIntStore, DataLemmas

-----------------------------------------------------------------------------
(* What the steps shared by the handlers do, whoever takes them.           *)

\* A handler suspended before its insert has an index of the key space in its frame.
StoreKeys == \A f \in Elements(stack) : f.op = "store" => f.key \in Words

TypeInv == TypeOK /\ StoreKeys

\* Suspending a handler pushes its frame, and changes no other.
LEMMA SuspendStep ==
  ASSUME NEW f \in Frame, NEW callers \in Seq(Frame), Suspend(f, callers)
  PROVE  /\ stack' \in Seq(Frame)
         /\ Elements(stack') = {f} \cup Elements(callers)
BY Push DEF Suspend

\* A handler that has just called user code is described by a frame.
LEMMA AtFrame ==
  ASSUME NEW op \in {"store", "unset", "range", "bulk", "reload"}, NEW key \in Nat
  PROVE  At(op, key) \in Frame /\ At(op, key).op = op /\ At(op, key).key = key
<1>1. 0 \in Words
  BY WordAssumption DEF Words
<1> QED
  BY <1>1 DEF At, Frame

\* An insert adds at most its own index.
LEMMA StoreStep ==
  ASSUME TypeOK, NEW i, Store(i)
  PROVE  array' \subseteq array \cup {i} /\ counter' \in Int
BY DEF TypeOK, Store, Insert, NoMemory, NotPacked

\* The rest of offsetSet() adds at most its own index, now or when its frame resumes.
LEMMA StoreAtStep ==
  ASSUME TypeOK, NEW i \in Words, StoreAt(i)
  PROVE  /\ array' \subseteq array \cup {i} /\ counter' \in Int
         /\ stack' \in Seq(Frame)
         /\ \A f \in Elements(stack') : f \in Elements(stack) \/ (f.op = "store" /\ f.key = i)
<1>1. CASE Store(i) /\ UNCHANGED stack
  BY <1>1, StoreStep DEF TypeOK
<1>2. CASE Delete(i) /\ UNCHANGED stack
  BY <1>2 DEF TypeOK, Delete
<1>3. CASE Suspend(At("store", i), stack) /\ UNCHANGED <<array, counter>>
  <2>1. At("store", i) \in Frame /\ At("store", i).op = "store" /\ At("store", i).key = i
    BY AtFrame DEF Words
  <2> QED
    BY <1>3, <2>1, SuspendStep DEF TypeOK
<1> QED
  BY <1>1, <1>2, <1>3 DEF StoreAt

\* The frames of the two loops.
LEMMA RangeFrame ==
  ASSUME NEW calls \in BOOLEAN, NEW key \in Nat, NEW last \in Words
  PROVE  RangeAt(key, last, calls) \in Frame /\ RangeAt(key, last, calls).op = "range"
BY DEF RangeAt, Frame

LEMMA LoadFrame ==
  ASSUME NEW calls \in BOOLEAN, NEW data \in SUBSET Words, NEW op \in {"bulk", "reload"}
  PROVE  LoadOf(op, data, calls) \in Frame /\ LoadOf(op, data, calls).op = op
BY WordAssumption DEF LoadOf, Frame, Words

\* A turn of deleteRange() only removes keys; its frame is never one that inserts.
LEMMA RangeTurnStep ==
  ASSUME TypeOK, NEW from \in Nat, NEW last \in Words,
         NEW callers \in Seq(Frame), RangeTurn(from, last, callers)
  PROVE  /\ array' \subseteq array /\ counter' \in Int
         /\ stack' \in Seq(Frame)
         /\ \A f \in Elements(stack') : f \in Elements(callers) \/ f.op = "range"
<1>1. CASE stack' = callers /\ UNCHANGED <<array, counter>>
  BY <1>1 DEF TypeOK
<1>2. CASE \E k \in InRange(from, last) :
             Delete(k) /\ Suspend(RangeAt(k + 1, last, type = "INT_TO_MIXED"), callers)
  <2>1. PICK k \in InRange(from, last) :
               Delete(k) /\ Suspend(RangeAt(k + 1, last, type = "INT_TO_MIXED"), callers)
    BY <1>2
  <2> DEFINE g == RangeAt(k + 1, last, type = "INT_TO_MIXED")
  <2>2. k + 1 \in Nat
    BY DEF TypeOK, InRange, Words
  <2>3. g \in Frame /\ g.op = "range"
    <3>1. (type = "INT_TO_MIXED") \in BOOLEAN
      OBVIOUS
    <3> QED
      BY <2>2, <3>1, RangeFrame
  <2>4. Suspend(g, callers)
    BY <2>1
  <2> HIDE DEF g
  <2>5. stack' \in Seq(Frame) /\ Elements(stack') = {g} \cup Elements(callers)
    BY <2>3, <2>4, SuspendStep
  <2>6. array' \subseteq array /\ counter' \in Int
    BY <2>1 DEF TypeOK, Delete
  <2> QED
    BY <2>3, <2>5, <2>6
<1> QED
  BY <1>1, <1>2 DEF RangeTurn

\* The start of a bulk load invalidates the watermark.
LEMMA LoadStep ==
  ASSUME TypeOK, NEW data \in SUBSET Words, NEW callers \in Seq(Frame), Load(data, callers)
  PROVE  /\ nextEmpty' = nextEmpty /\ nextEmptyIsValid' = FALSE /\ nextEmptyIsValid' \in BOOLEAN
         /\ stack' \in Seq(Frame)
         /\ \A f \in Elements(stack') : f \in Elements(callers) \/ f.op = "bulk"
<1> DEFINE c == type # "INT_TO_MIXED"
           g == LoadOf("bulk", data, c)
<1>1. Suspend(g, callers)
  BY DEF Load
<1>2. g \in Frame /\ g.op = "bulk"
  <2>1. c \in BOOLEAN
    OBVIOUS
  <2> HIDE DEF c
  <2> QED
    BY <2>1, LoadFrame
<1> HIDE DEF g
<1>3. stack' \in Seq(Frame) /\ Elements(stack') = {g} \cup Elements(callers)
  BY <1>1, <1>2, SuspendStep
<1>4. nextEmpty' = nextEmpty /\ nextEmptyIsValid' = FALSE
  BY DEF Load, Invalidate
<1>5. nextEmptyIsValid' \in BOOLEAN
  BY <1>4, Zenon
<1> QED
  BY <1>2, <1>3, <1>4, <1>5, Zenon

\* A turn of a bulk load inserts one of the remaining elements or ends the load.
LEMMA BulkStep ==
  ASSUME TypeOK, stack # << >>, NEW f, f = Head(stack), f.op = "bulk", BulkResumes(f)
  PROVE  /\ array' \subseteq Words /\ counter' \in Int
         /\ stack' \in Seq(Frame)
         /\ \A g \in Elements(stack') : g \in Elements(stack) \/ g.op = "bulk"
<1>1. /\ f \in Frame /\ Tail(stack) \in Seq(Frame)
      /\ Elements(Tail(stack)) \subseteq Elements(stack)
  BY Pop DEF TypeOK
<1>2. CASE stack' = Tail(stack) /\ UNCHANGED <<array, counter>>
  BY <1>1, <1>2 DEF TypeOK
<1>3. ASSUME NEW i \in f.rest, Insert(i) \/ NotPacked,
             Suspend(LoadOf("bulk", f.rest \ {i}, type = "INT_TO_MIXED" => i \in array), Tail(stack))
      PROVE  /\ array' \subseteq Words /\ counter' \in Int
             /\ stack' \in Seq(Frame)
             /\ \A g \in Elements(stack') : g \in Elements(stack) \/ g.op = "bulk"
  <2> DEFINE g == LoadOf("bulk", f.rest \ {i}, type = "INT_TO_MIXED" => i \in array)
  <2>1. i \in Words /\ f.rest \ {i} \in SUBSET Words
    BY <1>1 DEF Frame
  <2>2. g \in Frame /\ g.op = "bulk"
    <3>1. (type = "INT_TO_MIXED" => i \in array) \in BOOLEAN
      OBVIOUS
    <3> QED
      BY <2>1, <3>1, LoadFrame
  <2>3. Suspend(g, Tail(stack))
    BY <1>3
  <2> HIDE DEF g
  <2>4. stack' \in Seq(Frame) /\ Elements(stack') = {g} \cup Elements(Tail(stack))
    BY <2>2, <2>3, <1>1, SuspendStep
  <2>5. array' \subseteq Words /\ counter' \in Int
    BY <1>3, <2>1 DEF TypeOK, Insert, NotPacked
  <2> QED
    BY <2>2, <2>4, <2>5, <1>1
<1>4. CASE \E i \in f.rest : NoMemory(i) /\ stack' = Tail(stack)
  BY <1>1, <1>4 DEF TypeOK, NoMemory
<1> QED
  BY <1>2, <1>3, <1>4 DEF BulkResumes

-----------------------------------------------------------------------------
(* Type correctness.                                                       *)

LEMMA TypeInit == Init => TypeInv
<1> SUFFICES ASSUME Init PROVE TypeInv
  OBVIOUS
<1>1. 0 \in Words
  BY WordAssumption DEF Words
<1>2. Elements(stack) = {}
  BY NoElements DEF Init
<1> QED
  BY <1>1, <1>2 DEF Init, TypeInv, TypeOK, StoreKeys

\* What a step of each operation does to the type invariant.
LEMMA TypeStep == TypeInv /\ [Next]_vars => TypeInv'
<1> SUFFICES ASSUME TypeInv, [Next]_vars PROVE TypeInv'
  OBVIOUS
<1> USE DEF TypeInv
<1>1. ASSUME NEW i \in Words, Set(i) PROVE TypeInv'
  BY <1>1, StoreAtStep DEF Set, Invalidate, TypeOK, StoreKeys
<1>2. ASSUME NEW i \in Words, AppendAt(i) PROVE TypeInv'
  <2>1. nextEmpty' \in Words /\ nextEmptyIsValid' \in BOOLEAN
    BY <1>2, WordAssumption DEF AppendAt, Advance, TypeOK, Words
  <2>2. StoreAt(i) /\ type' = type
    BY <1>2 DEF AppendAt
  <2> QED
    BY <2>1, <2>2, StoreAtStep DEF TypeOK, StoreKeys
<1>3. ASSUME NEW i \in Words, Unset(i) PROVE TypeInv'
  <2>1. CASE type = "INT_TO_MIXED"
    <3>1. At("unset", i) \in Frame /\ At("unset", i).op = "unset"
      BY AtFrame DEF Words
    <3>2. Suspend(At("unset", i), stack)
      BY <1>3, <2>1 DEF Unset
    <3>3. stack' \in Seq(Frame) /\ Elements(stack') = {At("unset", i)} \cup Elements(stack)
      BY <3>1, <3>2, SuspendStep DEF TypeOK
    <3> QED
      BY <1>3, <2>1, <3>1, <3>3 DEF Unset, watermark, TypeOK, StoreKeys
  <2>2. CASE type # "INT_TO_MIXED"
    BY <1>3, <2>2 DEF Unset, Delete, watermark, TypeOK, StoreKeys
  <2> QED
    BY <2>1, <2>2
<1>4. ASSUME NEW i \in Words, Increment(i) PROVE TypeInv'
  BY <1>4 DEF Increment, Insert, NoMemory, watermark, TypeOK, StoreKeys
<1>5. ASSUME NEW from \in Words, NEW last \in Words, DeleteRange(from, last) PROVE TypeInv'
  <2>1. RangeTurn(from, last, stack) /\ from \in Nat
    BY <1>5 DEF DeleteRange, Words
  <2>2. /\ array' \subseteq array /\ counter' \in Int
        /\ stack' \in Seq(Frame)
        /\ \A f \in Elements(stack') : f \in Elements(stack) \/ f.op = "range"
    BY <2>1, RangeTurnStep DEF TypeOK
  <2>3. type' = type /\ nextEmpty' = nextEmpty /\ nextEmptyIsValid' = nextEmptyIsValid
    BY <1>5 DEF DeleteRange, watermark
  <2>8. TypeOK'
    BY <2>2, <2>3 DEF TypeOK
  <2>9. StoreKeys'
    BY <2>2, <2>3 DEF StoreKeys
  <2> QED
    BY <2>8, <2>9
<1>6. ASSUME NEW data \in SUBSET Words, PutAll(data) PROVE TypeInv'
  BY <1>6, LoadStep DEF PutAll, TypeOK, StoreKeys
<1>7. ASSUME NEW data \in SUBSET Words, Unserialize(data) PROVE TypeInv'
  <2>1. CASE Load(data, stack)
    <3>1. /\ nextEmpty' = nextEmpty /\ nextEmptyIsValid' \in BOOLEAN
          /\ stack' \in Seq(Frame)
          /\ \A g \in Elements(stack') : g \in Elements(stack) \/ g.op = "bulk"
      BY <2>1, LoadStep DEF TypeOK
    <3>2. array' = {} /\ counter' = 0 /\ type' = type
      BY <1>7 DEF Unserialize
    <3>8. TypeOK'
      BY <3>1, <3>2 DEF TypeOK
    <3>9. StoreKeys'
      BY <3>1 DEF StoreKeys
    <3> QED
      BY <3>8, <3>9
  <2>2. CASE Suspend(LoadOf("reload", data, TRUE), stack) /\ UNCHANGED watermark
    <3> DEFINE g == LoadOf("reload", data, TRUE)
    <3>1. g \in Frame /\ g.op = "reload"
      BY LoadFrame
    <3>2. stack' \in Seq(Frame) /\ Elements(stack') = {g} \cup Elements(stack)
      BY <2>2, <3>1, SuspendStep DEF TypeOK
    <3> HIDE DEF g
    <3> QED
      BY <1>7, <2>2, <3>1, <3>2 DEF Unserialize, watermark, TypeOK, StoreKeys
  <2> QED
    BY <1>7, <2>1, <2>2 DEF Unserialize
<1>8. ASSUME NEW other \in SUBSET Words, MergeWith(other) PROVE TypeInv'
  <2>1. PICK added \in SUBSET (other \ array) :
               array' = array \cup added /\ counter' = counter + Cardinality(added)
    BY <1>8 DEF MergeWith
  <2>2. Cardinality(added) \in Int
    <3>1. IsFiniteSet(Words)
      BY FS_Interval, WordAssumption DEF Words
    <3>2. added \subseteq Words
      BY <2>1
    <3> QED
      BY <3>1, <3>2, FS_Subset, FS_CardinalityType
  <2>3. array' \subseteq Words /\ counter' \in Int
    BY <2>1, <2>2 DEF TypeOK
  <2>4. /\ type' = type /\ nextEmpty' = nextEmpty /\ nextEmptyIsValid' = nextEmptyIsValid
        /\ stack' = stack
    BY <1>8 DEF MergeWith, watermark
  <2>8. TypeOK'
    BY <2>3, <2>4 DEF TypeOK
  <2>9. StoreKeys'
    BY <2>3, <2>4 DEF StoreKeys
  <2> QED
    BY <2>8, <2>9
<1>9. ASSUME NEW keys \in SUBSET Words, DerivedResult(keys) PROVE TypeInv'
  <2>1. Cardinality(keys) \in Int
    <3>1. IsFiniteSet(Words)
      BY FS_Interval, WordAssumption DEF Words
    <3> QED
      BY <3>1, FS_Subset, FS_CardinalityType
  <2>2. 0 \in Words
    BY WordAssumption DEF Words
  <2> QED
    BY <1>9, <2>1, <2>2, NoElements DEF DerivedResult, TypeOK, StoreKeys
<1>10. CASE Free
  BY <1>10 DEF Free, watermark, TypeOK, StoreKeys
<1>11. CASE Clone
  <2>1. 0 \in Words
    BY WordAssumption DEF Words
  <2>2. /\ nextEmpty' = 0 /\ nextEmptyIsValid' = FALSE /\ stack' = << >>
        /\ type' = type /\ array' = array /\ counter' = counter
    BY <1>11 DEF Clone
  <2>3. nextEmptyIsValid' \in BOOLEAN
    BY <2>2, Zenon
  <2>8. TypeOK'
    BY <2>1, <2>2, <2>3 DEF TypeOK
  <2>9. StoreKeys'
    BY <2>2, NoElements DEF StoreKeys
  <2> QED
    BY <2>8, <2>9
<1>12. CASE Resume
  <2> DEFINE f == Head(stack)
  <2>0. stack # << >>
    BY <1>12 DEF Resume
  <2>1. /\ f \in Frame /\ f \in Elements(stack) /\ Tail(stack) \in Seq(Frame)
        /\ Elements(Tail(stack)) \subseteq Elements(stack)
    BY <2>0, Pop DEF TypeOK
  <2>2. CASE f.op = "store" /\ StoreResumes(f)
    <3>1. f.key \in Words
      BY <2>1, <2>2 DEF StoreKeys
    <3> QED
      BY <2>1, <2>2, <3>1, StoreStep DEF StoreResumes, watermark, TypeOK, StoreKeys
  <2>3. CASE f.op = "unset" /\ UnsetResumes
    BY <2>1, <2>3 DEF UnsetResumes, watermark, TypeOK, StoreKeys
  <2>4. CASE f.op = "range" /\ RangeResumes(f)
    <3>1. RangeTurn(f.key, f.last, Tail(stack)) /\ f.key \in Nat /\ f.last \in Words
      BY <2>1, <2>4 DEF RangeResumes, Frame
    <3>2. /\ array' \subseteq array /\ counter' \in Int
          /\ stack' \in Seq(Frame)
          /\ \A g \in Elements(stack') : g \in Elements(Tail(stack)) \/ g.op = "range"
      BY <2>1, <3>1, RangeTurnStep
    <3> QED
      BY <2>1, <2>4, <3>2 DEF RangeResumes, watermark, TypeOK, StoreKeys
  <2>5. CASE f.op = "bulk" /\ BulkResumes(f)
    <3>1. /\ array' \subseteq Words /\ counter' \in Int
          /\ stack' \in Seq(Frame)
          /\ \A g \in Elements(stack') : g \in Elements(stack) \/ g.op = "bulk"
      BY <2>0, <2>5, BulkStep
    <3>2. type' = type /\ nextEmpty' = nextEmpty /\ nextEmptyIsValid' = nextEmptyIsValid
      BY <2>5 DEF BulkResumes, watermark
    <3>8. TypeOK'
      BY <3>1, <3>2 DEF TypeOK
    <3>9. StoreKeys'
      BY <3>1, <3>2 DEF StoreKeys
    <3> QED
      BY <3>8, <3>9
  <2>6. CASE f.op = "reload" /\ ReloadResumes(f)
    <3>1. f.rest \in SUBSET Words
      BY <2>1 DEF Frame
    <3>2. Load(f.rest, Tail(stack))
      BY <2>6 DEF ReloadResumes
    <3>3. /\ nextEmpty' = nextEmpty /\ nextEmptyIsValid' \in BOOLEAN
          /\ stack' \in Seq(Frame)
          /\ \A g \in Elements(stack') : g \in Elements(Tail(stack)) \/ g.op = "bulk"
      BY <2>1, <3>1, <3>2, LoadStep
    <3>4. counter' = 0 /\ type' = type /\ array' = array
      BY <2>6 DEF ReloadResumes
    <3>8. TypeOK'
      BY <3>3, <3>4 DEF TypeOK
    <3>9. StoreKeys'
      BY <2>1, <3>3 DEF StoreKeys
    <3> QED
      BY <3>8, <3>9
  <2> QED
    BY <1>12, <2>1, <2>2, <2>3, <2>4, <2>5, <2>6 DEF Resume, Frame
<1>13. CASE UNCHANGED vars
  BY <1>13 DEF vars, TypeOK, StoreKeys
<1> QED
  BY <1>1, <1>2, <1>3, <1>4, <1>5, <1>6, <1>7, <1>8, <1>9, <1>10, <1>11, <1>12, <1>13 DEF Next

\* Every field of every reachable object holds what its C type allows, and a handler
\* suspended before its insert has an index of the key space to insert at.
THEOREM TypeCorrect == Spec => []TypeOK
<1>1. TypeInv => TypeOK
  BY DEF TypeInv
<1> QED
  BY <1>1, TypeInit, TypeStep, PTL DEF Spec

-----------------------------------------------------------------------------
(* The append watermark, where nothing is inserted behind its back.        *)

\* While the watermark is believed, no bulk load is suspended, and every offsetSet()
\* that is suspended before its insert will insert below it.
FramesBelow == nextEmptyIsValid =>
                 \A f \in Elements(stack) : /\ f.op # "bulk"
                                            /\ f.op = "store" => f.key < nextEmpty

WatermarkInv == TypeInv /\ WatermarkAbove /\ FramesBelow

\* A step that drops the watermark establishes both.
LEMMA Dropped ==
  ASSUME ~ nextEmptyIsValid'
  PROVE  WatermarkAbove' /\ FramesBelow'
BY DEF WatermarkAbove, FramesBelow

\* A step that only removes keys, and suspends no handler that will insert, keeps both.
LEMMA Shrinks ==
  ASSUME WatermarkAbove, FramesBelow, array' \subseteq array, UNCHANGED watermark,
         \A f \in Elements(stack') : f \in Elements(stack) \/ f.op \in {"unset", "range", "reload"}
  PROVE  WatermarkAbove' /\ FramesBelow'
<1>1. nextEmpty' = nextEmpty /\ (nextEmptyIsValid' => nextEmptyIsValid)
  BY DEF watermark
<1>2. WatermarkAbove'
  BY <1>1 DEF WatermarkAbove
<1>3. FramesBelow'
  BY <1>1 DEF FramesBelow
<1> QED
  BY <1>2, <1>3

\* An append takes an index above every key and moves the watermark past it.
LEMMA AppendAbove ==
  ASSUME TypeOK, WatermarkAbove, NEW i \in Words, Resolves(i)
  PROVE  \A k \in array : k < i
BY DEF Resolves, OnePastHighest, WatermarkAbove

LEMMA WatermarkStep ==
  ASSUME NestedAppend = FALSE, DirectInserts = FALSE
  PROVE  WatermarkInv /\ [Next]_vars => WatermarkInv'
<1> SUFFICES ASSUME WatermarkInv, [Next]_vars
             PROVE  WatermarkAbove' /\ FramesBelow'
  BY TypeStep DEF WatermarkInv
<1>0. TypeInv /\ TypeOK /\ WatermarkAbove /\ FramesBelow
  BY DEF WatermarkInv, TypeInv
<1>1. ASSUME NEW i \in Words, Set(i) PROVE WatermarkAbove' /\ FramesBelow'
  BY <1>1, Dropped DEF Set, Invalidate
<1>2. ASSUME NEW i \in Words, AppendAt(i) PROVE WatermarkAbove' /\ FramesBelow'
  <2>1. stack = << >> /\ Resolves(i) /\ Advance(i) /\ StoreAt(i)
    BY <1>2 DEF AppendAt, MayAppend
  <2>2. CASE i = WORD_MAX
    BY <2>1, <2>2, Dropped DEF Advance
  <2>3. CASE i # WORD_MAX
    <3>1. nextEmpty' = i + 1
      BY <2>1, <2>3 DEF Advance
    <3>2. /\ array' \subseteq array \cup {i}
          /\ \A f \in Elements(stack') : f \in Elements(stack) \/ (f.op = "store" /\ f.key = i)
      BY <1>0, <2>1, StoreAtStep
    <3>3. \A k \in array : k < i
      BY <1>0, <2>1, AppendAbove
    <3>4. WatermarkAbove'
      <4>1. ASSUME NEW k \in array' PROVE k < i + 1
        BY <3>2, <3>3, <1>0 DEF TypeOK, Words
      <4> QED
        BY <3>1, <4>1 DEF WatermarkAbove
    <3>5. FramesBelow'
      <4>1. Elements(stack) = {}
        BY <2>1, NoElements
      <4>2. ASSUME NEW f \in Elements(stack') PROVE f.op # "bulk" /\ f.key < i + 1
        BY <4>1, <3>2 DEF Words
      <4> QED
        BY <3>1, <4>2 DEF FramesBelow
    <3> QED
      BY <3>4, <3>5
  <2> QED
    BY <2>2, <2>3
<1>3. ASSUME NEW i \in Words, Unset(i) PROVE WatermarkAbove' /\ FramesBelow'
  <2>1. array' \subseteq array /\ UNCHANGED watermark
    BY <1>3 DEF Unset, Delete
  <2>2. \A f \in Elements(stack') : f \in Elements(stack) \/ f.op = "unset"
    <3>1. CASE type = "INT_TO_MIXED"
      <4>1. At("unset", i) \in Frame /\ At("unset", i).op = "unset"
        BY AtFrame DEF Words
      <4>2. Suspend(At("unset", i), stack)
        BY <1>3, <3>1 DEF Unset
      <4>3. Elements(stack') = {At("unset", i)} \cup Elements(stack)
        BY <4>1, <4>2, <1>0, SuspendStep DEF TypeOK
      <4> QED
        BY <4>1, <4>3
    <3>2. CASE type # "INT_TO_MIXED"
      BY <1>3, <3>2 DEF Unset
    <3> QED
      BY <3>1, <3>2
  <2> QED
    BY <1>0, <2>1, <2>2, Shrinks
<1>4. ASSUME NEW i \in Words, Increment(i) PROVE WatermarkAbove' /\ FramesBelow'
  <2>1. ~nextEmptyIsValid /\ UNCHANGED watermark
    BY <1>4 DEF Increment, MayInsertDirectly
  <2> QED
    BY <1>0, <2>1, Dropped DEF watermark, TypeOK
<1>5. ASSUME NEW from \in Words, NEW last \in Words, DeleteRange(from, last)
      PROVE  WatermarkAbove' /\ FramesBelow'
  <2>1. RangeTurn(from, last, stack) /\ from \in Nat /\ UNCHANGED watermark
    BY <1>5 DEF DeleteRange, Words
  <2>2. /\ array' \subseteq array
        /\ \A f \in Elements(stack') : f \in Elements(stack) \/ f.op = "range"
    BY <1>0, <2>1, RangeTurnStep DEF TypeOK
  <2> QED
    BY <1>0, <2>1, <2>2, Shrinks
<1>6. ASSUME NEW data \in SUBSET Words, PutAll(data) PROVE WatermarkAbove' /\ FramesBelow'
  BY <1>6, Dropped DEF PutAll, Load, Invalidate
<1>7. ASSUME NEW data \in SUBSET Words, Unserialize(data)
      PROVE  WatermarkAbove' /\ FramesBelow'
  <2>1. CASE Load(data, stack)
    BY <2>1, Dropped DEF Load, Invalidate
  <2>2. CASE Suspend(LoadOf("reload", data, TRUE), stack) /\ UNCHANGED watermark
    <3> DEFINE g == LoadOf("reload", data, TRUE)
    <3>1. g \in Frame /\ g.op = "reload"
      BY LoadFrame
    <3>2. Elements(stack') = {g} \cup Elements(stack)
      BY <2>2, <3>1, <1>0, SuspendStep DEF TypeOK
    <3>3. array' = {}
      BY <1>7 DEF Unserialize
    <3> HIDE DEF g
    <3> QED
      BY <1>0, <2>2, <3>1, <3>2, <3>3, Shrinks
  <2> QED
    BY <1>7, <2>1, <2>2 DEF Unserialize
<1>8. ASSUME NEW other \in SUBSET Words, MergeWith(other) PROVE WatermarkAbove' /\ FramesBelow'
  <2>1. ~nextEmptyIsValid /\ UNCHANGED watermark
    BY <1>8 DEF MergeWith, MayInsertDirectly
  <2> QED
    BY <1>0, <2>1, Dropped DEF watermark, TypeOK
<1>9. ASSUME NEW keys \in SUBSET Words, DerivedResult(keys) PROVE WatermarkAbove' /\ FramesBelow'
  <2>1. array' = {} /\ stack' = << >>
    BY <1>9 DEF DerivedResult
  <2>2. Elements(stack') = {}
    BY <2>1, NoElements
  <2> QED
    BY <2>1, <2>2 DEF WatermarkAbove, FramesBelow
<1>10. CASE Free
  BY <1>0, <1>10, Shrinks DEF Free
<1>11. CASE Clone
  BY <1>11, Dropped DEF Clone
<1>12. CASE Resume
  <2> DEFINE f == Head(stack)
  <2>0. stack # << >>
    BY <1>12 DEF Resume
  <2>1. /\ f \in Frame /\ f \in Elements(stack) /\ Tail(stack) \in Seq(Frame)
        /\ Elements(Tail(stack)) \subseteq Elements(stack)
    BY <1>0, <2>0, Pop DEF TypeOK
  <2>2. CASE f.op = "store" /\ StoreResumes(f)
    <3>1. array' \subseteq array \cup {f.key} /\ UNCHANGED watermark /\ stack' = Tail(stack)
      BY <1>0, <2>2, StoreStep DEF StoreResumes
    <3>2. nextEmpty' = nextEmpty /\ (nextEmptyIsValid' => nextEmptyIsValid)
      BY <3>1 DEF watermark
    <3>3. nextEmptyIsValid => f.key < nextEmpty
      BY <1>0, <2>1, <2>2 DEF FramesBelow
    <3>4. WatermarkAbove'
      BY <1>0, <3>1, <3>2, <3>3 DEF WatermarkAbove
    <3>5. FramesBelow'
      BY <1>0, <2>1, <3>1, <3>2 DEF FramesBelow
    <3> QED
      BY <3>4, <3>5
  <2>3. CASE f.op = "unset" /\ UnsetResumes
    BY <1>0, <2>1, <2>3, Shrinks DEF UnsetResumes
  <2>4. CASE f.op = "range" /\ RangeResumes(f)
    <3>1. /\ RangeTurn(f.key, f.last, Tail(stack)) /\ f.key \in Nat /\ f.last \in Words
          /\ UNCHANGED watermark
      BY <2>1, <2>4 DEF RangeResumes, Frame
    <3>2. /\ array' \subseteq array
          /\ \A g \in Elements(stack') : g \in Elements(Tail(stack)) \/ g.op = "range"
      BY <1>0, <2>1, <3>1, RangeTurnStep
    <3> QED
      BY <1>0, <2>1, <3>1, <3>2, Shrinks
  <2>5. CASE f.op = "bulk" /\ BulkResumes(f)
    <3>1. ~ nextEmptyIsValid
      BY <1>0, <2>1, <2>5 DEF FramesBelow
    <3>2. UNCHANGED watermark
      BY <2>5 DEF BulkResumes
    <3> QED
      BY <3>1, <3>2, Dropped DEF watermark
  <2>6. CASE f.op = "reload" /\ ReloadResumes(f)
    BY <2>6, Dropped DEF ReloadResumes, Load, Invalidate
  <2> QED
    BY <1>12, <2>1, <2>2, <2>3, <2>4, <2>5, <2>6 DEF Resume, Frame
<1>13. CASE UNCHANGED vars
  BY <1>0, <1>13, Shrinks DEF vars, watermark
<1> QED
  BY <1>1, <1>2, <1>3, <1>4, <1>5, <1>6, <1>7, <1>8, <1>9, <1>10, <1>11, <1>12, <1>13 DEF Next

LEMMA WatermarkInit == Init => WatermarkInv
<1>1. Init => WatermarkAbove
  BY DEF Init, WatermarkAbove
<1>2. Init => FramesBelow
  BY NoElements DEF Init, FramesBelow
<1> QED
  BY <1>1, <1>2, TypeInit DEF WatermarkInv

\* As long as the program inserts only through offsetSet() and the bulk loads, and no
\* handler's user code appends, a watermark that is believed lies above every key.
THEOREM WatermarkSafe ==
  ASSUME NestedAppend = FALSE, DirectInserts = FALSE
  PROVE  Spec => []WatermarkAbove
<1>1. WatermarkInv => WatermarkAbove
  BY DEF WatermarkInv
<1>2. WatermarkInv /\ [Next]_vars => WatermarkInv'
  BY WatermarkStep
<1> QED
  BY <1>1, <1>2, WatermarkInit, PTL DEF Spec

\* Under the same assumptions $j[] = v picks an index that holds nothing, and so replaces
\* no element that was there when it began; what the conversion of v stores at that index
\* before the append resumes is not spoken of, and is replaced.
THEOREM AppendSafe ==
  ASSUME NestedAppend = FALSE, DirectInserts = FALSE
  PROVE  Spec => AppendIsFresh
<1>1. WatermarkInv => \A i \in Words : AppendAt(i) => i \notin array
  <2> SUFFICES ASSUME WatermarkInv, NEW i \in Words, AppendAt(i) PROVE i \notin array
    OBVIOUS
  <2>1. \A k \in array : k < i
    BY AppendAbove DEF WatermarkInv, TypeInv, AppendAt
  <2> QED
    BY <2>1 DEF Words
<1>2. WatermarkInv /\ [Next]_vars => WatermarkInv'
  BY WatermarkStep
<1> QED
  BY <1>1, <1>2, WatermarkInit, PTL DEF Spec, AppendIsFresh

-----------------------------------------------------------------------------
(* The population counter, when nothing is reloaded into an array in use.  *)

Unsets(s) == Cardinality(Marked(s, "unset"))

\* Nothing is left to destroy when __unserialize() loads its data.
NoReload == \A f \in Elements(stack) : f.op # "reload"

CountInv == TypeInv /\ CounterAgrees /\ NoReload

\* What a step that removes and inserts in one go does to the counter.
CountsRight == counter' - counter = Cardinality(array') - Cardinality(array)

LEMMA UnsetMarked == UnsetFrames = Marked(stack, "unset")
BY DEF UnsetFrames, Marked

LEMMA ArrayCount ==
  ASSUME TypeOK
  PROVE  IsFiniteSet(array) /\ Cardinality(array) \in Nat
<1>1. IsFiniteSet(Words)
  BY FS_Interval, WordAssumption DEF Words
<1> QED
  BY <1>1, FS_Subset, FS_CardinalityType DEF TypeOK

\* Pushing or popping a frame of another operation leaves the unsets as they are.
LEMMA PushOther ==
  ASSUME NEW s \in Seq(Frame), NEW f \in Frame, f.op # "unset"
  PROVE  Unsets(<<f>> \o s) = Unsets(s)
<1>1. Unsets(<<f>> \o s) = Unsets(s) + 0
  BY MarkedPush DEF Unsets
<1> QED
  BY <1>1, MarkedFinite DEF Unsets

LEMMA PopOther ==
  ASSUME NEW s \in Seq(Frame), s # << >>, Head(s).op # "unset"
  PROVE  Unsets(Tail(s)) = Unsets(s)
<1>1. Unsets(s) = Unsets(Tail(s)) + 0
  BY MarkedPop DEF Unsets
<1>2. Tail(s) \in Seq(Frame)
  BY Pop
<1>3. Unsets(Tail(s)) \in Nat
  BY <1>2, MarkedFinite DEF Unsets
<1> QED
  BY <1>1, <1>3

LEMMA CountDifference ==
  ASSUME NEW c \in Int, NEW d \in Int, NEW n \in Int, NEW m \in Int, NEW u \in Int,
         c = n + u, d - c = m - n
  PROVE  d = m + u
OBVIOUS

\* A step that counts right and leaves the unsets alone keeps the counter right.
LEMMA CounterKept ==
  ASSUME TypeOK, TypeOK', CounterAgrees, CountsRight, Unsets(stack') = Unsets(stack)
  PROVE  CounterAgrees'
<1>1. Cardinality(array) \in Int /\ Unsets(stack) \in Int
  BY ArrayCount, MarkedFinite DEF TypeOK, Unsets
<1>2. counter = Cardinality(array) + Unsets(stack)
  BY UnsetMarked DEF CounterAgrees, Unsets
<1>3. Cardinality(array') \in Int
  <2>1. IsFiniteSet(Words)
    BY FS_Interval, WordAssumption DEF Words
  <2>2. array' \subseteq Words
    BY DEF TypeOK
  <2> QED
    BY <2>1, <2>2, FS_Subset, FS_CardinalityType
<1>4. counter' = Cardinality(array') + Unsets(stack)
  BY <1>1, <1>2, <1>3, CountDifference DEF CountsRight, TypeOK
<1>5. UnsetFrames' = Marked(stack', "unset")
  BY DEF UnsetFrames, Marked
<1> QED
  BY <1>4, <1>5 DEF CounterAgrees, Unsets

\* An insert and a delete count right.
LEMMA StoreCounts ==
  ASSUME TypeOK, NEW i \in Words, Insert(i) \/ Delete(i) \/ UNCHANGED <<array, counter>>
  PROVE  CountsRight
<1>1. IsFiniteSet(array) /\ Cardinality(array) \in Nat /\ counter \in Int
  BY ArrayCount DEF TypeOK
<1>2. CASE Insert(i)
  <2>1. Cardinality(array \cup {i}) = IF i \in array THEN Cardinality(array) ELSE Cardinality(array) + 1
    BY <1>1, FS_AddElement
  <2> QED
    BY <1>1, <1>2, <2>1 DEF Insert, CountsRight
<1>3. CASE Delete(i)
  <2>1. Cardinality(array \ {i}) = IF i \in array THEN Cardinality(array) - 1 ELSE Cardinality(array)
    BY <1>1, FS_RemoveElement
  <2> QED
    BY <1>1, <1>3, <2>1 DEF Delete, CountsRight
<1>4. CASE UNCHANGED <<array, counter>>
  BY <1>1, <1>4 DEF CountsRight
<1> QED
  BY <1>2, <1>3, <1>4

\* No unset is waiting: none is counted.
LEMMA NoUnsets ==
  ASSUME stack \in Seq(Frame), UnsetFrames = {}
  PROVE  Unsets(stack) = 0
BY UnsetMarked, FS_EmptySet DEF Unsets

LEMMA StoreAtCounts ==
  ASSUME TypeOK, NEW i \in Words, StoreAt(i)
  PROVE  CountsRight /\ Unsets(stack') = Unsets(stack)
<1>1. CASE Store(i) /\ UNCHANGED stack
  BY <1>1, StoreCounts DEF Store, NoMemory, NotPacked
<1>2. CASE Delete(i) /\ UNCHANGED stack
  BY <1>2, StoreCounts
<1>3. CASE Suspend(At("store", i), stack) /\ UNCHANGED <<array, counter>>
  <2>1. At("store", i) \in Frame /\ At("store", i).op = "store"
    BY AtFrame DEF Words
  <2>2. stack' = <<At("store", i)>> \o stack /\ stack \in Seq(Frame)
    BY <1>3 DEF Suspend, TypeOK
  <2> QED
    BY <1>3, <2>1, <2>2, StoreCounts, PushOther
<1> QED
  BY <1>1, <1>2, <1>3 DEF StoreAt

LEMMA RangeTurnCounts ==
  ASSUME TypeOK, NEW from \in Nat, NEW last \in Words, NEW callers \in Seq(Frame),
         RangeTurn(from, last, callers)
  PROVE  CountsRight /\ Unsets(stack') = Unsets(callers)
<1>1. CASE stack' = callers /\ UNCHANGED <<array, counter>>
  <2>1. 0 \in Words
    BY WordAssumption DEF Words
  <2> QED
    BY <1>1, <2>1, StoreCounts
<1>2. ASSUME NEW k \in InRange(from, last), Delete(k),
             Suspend(RangeAt(k + 1, last, type = "INT_TO_MIXED"), callers)
      PROVE  CountsRight /\ Unsets(stack') = Unsets(callers)
  <2> DEFINE c == type = "INT_TO_MIXED"
             g == RangeAt(k + 1, last, c)
  <2>1. k \in Words /\ k + 1 \in Nat
    BY DEF TypeOK, InRange, Words
  <2>2. g \in Frame /\ g.op = "range"
    <3>1. c \in BOOLEAN
      OBVIOUS
    <3> QED
      BY <2>1, <3>1, RangeFrame
  <2>3. stack' = <<g>> \o callers
    BY <1>2 DEF Suspend
  <2> HIDE DEF g
  <2> QED
    BY <1>2, <2>1, <2>2, <2>3, StoreCounts, PushOther
<1> QED
  BY <1>1, <1>2 DEF RangeTurn

\* The frame of a load is not one of an unset.
LEMMA LoadCounts ==
  ASSUME TypeOK, NEW data \in SUBSET Words, NEW callers \in Seq(Frame), Load(data, callers)
  PROVE  Unsets(stack') = Unsets(callers)
<1> DEFINE c == type # "INT_TO_MIXED"
           g == LoadOf("bulk", data, c)
<1>1. g \in Frame /\ g.op = "bulk"
  <2>1. c \in BOOLEAN
    OBVIOUS
  <2> HIDE DEF c
  <2> QED
    BY <2>1, LoadFrame
<1>2. stack' = <<g>> \o callers
  BY DEF Load, Suspend
<1> HIDE DEF g
<1> QED
  BY <1>1, <1>2, PushOther

LEMMA BulkCounts ==
  ASSUME TypeOK, stack # << >>, NEW f, f = Head(stack), f.op = "bulk", BulkResumes(f)
  PROVE  CountsRight /\ Unsets(stack') = Unsets(stack)
<1>1. /\ f \in Frame /\ Tail(stack) \in Seq(Frame) /\ stack \in Seq(Frame)
      /\ Unsets(Tail(stack)) = Unsets(stack) /\ 0 \in Words
  BY Pop, PopOther, WordAssumption DEF TypeOK, Words
<1>2. CASE stack' = Tail(stack) /\ UNCHANGED <<array, counter>>
  BY <1>1, <1>2, StoreCounts
<1>3. ASSUME NEW i \in f.rest, Insert(i) \/ NotPacked,
             Suspend(LoadOf("bulk", f.rest \ {i}, type = "INT_TO_MIXED" => i \in array), Tail(stack))
      PROVE  CountsRight /\ Unsets(stack') = Unsets(stack)
  <2> DEFINE c == type = "INT_TO_MIXED" => i \in array
             g == LoadOf("bulk", f.rest \ {i}, c)
  <2>1. i \in Words /\ f.rest \ {i} \in SUBSET Words
    BY <1>1 DEF Frame
  <2>2. g \in Frame /\ g.op = "bulk"
    <3>1. c \in BOOLEAN
      OBVIOUS
    <3> HIDE DEF c
    <3> QED
      BY <2>1, <3>1, LoadFrame
  <2>3. stack' = <<g>> \o Tail(stack)
    BY <1>3 DEF Suspend
  <2> HIDE DEF g
  <2>4. Unsets(stack') = Unsets(stack)
    BY <1>1, <2>2, <2>3, PushOther
  <2>5. CountsRight
    BY <1>3, <2>1, StoreCounts DEF NotPacked
  <2> QED
    BY <2>4, <2>5
<1>4. CASE \E i \in f.rest : NoMemory(i) /\ stack' = Tail(stack)
  BY <1>1, <1>4, StoreCounts DEF NoMemory
<1> QED
  BY <1>2, <1>3, <1>4 DEF BulkResumes

LEMMA CountInit == Init => CountInv
<1> SUFFICES ASSUME Init PROVE CountInv
  OBVIOUS
<1>1. Elements(stack) = {} /\ UnsetFrames = {}
  BY NoElements DEF Init, UnsetFrames
<1>2. CounterAgrees
  BY <1>1, FS_EmptySet DEF Init, CounterAgrees
<1> QED
  BY <1>1, <1>2, TypeInit DEF CountInv, NoReload

LEMMA CountStep ==
  ASSUME Reloads = FALSE, ReplaceInUnset = FALSE
  PROVE  CountInv /\ [Next]_vars => CountInv'
<1> SUFFICES ASSUME CountInv, [Next]_vars PROVE CounterAgrees' /\ NoReload'
  BY TypeStep DEF CountInv
<1>a. /\ TypeOK /\ TypeOK' /\ CounterAgrees /\ NoReload /\ stack \in Seq(Frame)
  BY TypeStep DEF CountInv, TypeInv, TypeOK
<1>b. ASSUME CountsRight, Unsets(stack') = Unsets(stack) PROVE CounterAgrees'
  BY <1>a, <1>b, CounterKept
<1>c. ASSUME UnsetFrames' = {}, counter' = Cardinality(array') PROVE CounterAgrees'
  <2>1. IsFiniteSet(Words)
    BY FS_Interval, WordAssumption DEF Words
  <2>2. Cardinality(array') \in Nat
    BY <1>a, <2>1, FS_Subset, FS_CardinalityType DEF TypeOK
  <2>3. Cardinality(UnsetFrames') = 0
    BY <1>c, FS_EmptySet
  <2> QED
    BY <1>c, <2>2, <2>3 DEF CounterAgrees
<1>d. 0 \in Words
  BY WordAssumption DEF Words
<1>1. ASSUME NEW i \in Words, StoreAt(i) PROVE CounterAgrees' /\ NoReload'
  <2>1. CountsRight /\ Unsets(stack') = Unsets(stack)
    BY <1>a, <1>1, StoreAtCounts
  <2>2. \A f \in Elements(stack') : f \in Elements(stack) \/ f.op = "store"
    BY <1>a, <1>1, StoreAtStep
  <2>3. NoReload'
    BY <1>a, <2>2 DEF NoReload
  <2> QED
    BY <1>b, <2>1, <2>3
<1>2. ASSUME NEW i \in Words, Unset(i) PROVE CounterAgrees' /\ NoReload'
  <2>1. CASE type = "INT_TO_MIXED"
    <3> DEFINE g == At("unset", i)
    <3>1. g \in Frame /\ g.op = "unset"
      BY AtFrame DEF Words
    <3>2. stack' = <<g>> \o stack /\ array' = array \ {i} /\ counter' = counter /\ i \in array
      BY <1>2, <2>1 DEF Unset, Suspend
    <3> HIDE DEF g
    <3>3. Elements(stack') = {g} \cup Elements(stack)
      BY <1>a, <3>1, <3>2, Push
    <3>4. Unsets(stack') = Unsets(stack) + 1
      BY <1>a, <3>1, <3>2, MarkedPush DEF Unsets
    <3>5. Cardinality(array') = Cardinality(array) - 1 /\ Cardinality(array) \in Nat
      BY <1>a, <3>2, ArrayCount, FS_RemoveElement
    <3>6. Unsets(stack) \in Nat /\ counter = Cardinality(array) + Unsets(stack)
      BY <1>a, UnsetMarked, MarkedFinite DEF CounterAgrees, Unsets
    <3>7. counter' = Cardinality(array') + Unsets(stack')
      BY <3>2, <3>4, <3>5, <3>6
    <3>8. UnsetFrames' = Marked(stack', "unset")
      BY DEF UnsetFrames, Marked
    <3>9. NoReload'
      BY <1>a, <3>1, <3>3 DEF NoReload
    <3> QED
      BY <3>7, <3>8, <3>9 DEF CounterAgrees, Unsets
  <2>2. CASE type # "INT_TO_MIXED"
    <3>1. Delete(i) /\ stack' = stack
      BY <1>2, <2>2 DEF Unset
    <3> QED
      BY <1>a, <1>b, <3>1, StoreCounts DEF NoReload
  <2> QED
    BY <2>1, <2>2
<1>3. ASSUME NEW i \in Words, Increment(i) PROVE CounterAgrees' /\ NoReload'
  <2>1. Insert(i) \/ UNCHANGED <<array, counter>>
    BY <1>3 DEF Increment, NoMemory
  <2>2. stack' = stack
    BY <1>3 DEF Increment
  <2> QED
    BY <1>a, <1>b, <2>1, <2>2, StoreCounts DEF NoReload
<1>4. ASSUME NEW from \in Nat, NEW last \in Words, NEW callers \in Seq(Frame),
             RangeTurn(from, last, callers), Unsets(callers) = Unsets(stack),
             Elements(callers) \subseteq Elements(stack)
      PROVE  CounterAgrees' /\ NoReload'
  <2>1. CountsRight /\ Unsets(stack') = Unsets(stack)
    BY <1>a, <1>4, RangeTurnCounts
  <2>2. \A f \in Elements(stack') : f \in Elements(callers) \/ f.op = "range"
    BY <1>a, <1>4, RangeTurnStep
  <2>3. NoReload'
    BY <1>a, <1>4, <2>2 DEF NoReload
  <2> QED
    BY <1>b, <2>1, <2>3
<1>5. ASSUME NEW from \in Words, NEW last \in Words, DeleteRange(from, last)
      PROVE  CounterAgrees' /\ NoReload'
  BY <1>a, <1>4, <1>5 DEF DeleteRange, Words
<1>6. ASSUME NEW data \in SUBSET Words, Load(data, stack) PROVE NoReload' /\ Unsets(stack') = Unsets(stack)
  <2>1. \A f \in Elements(stack') : f \in Elements(stack) \/ f.op = "bulk"
    BY <1>a, <1>6, LoadStep
  <2> QED
    BY <1>a, <1>6, <2>1, LoadCounts DEF NoReload
<1>7. ASSUME NEW data \in SUBSET Words, PutAll(data) PROVE CounterAgrees' /\ NoReload'
  BY <1>a, <1>b, <1>d, <1>6, <1>7, StoreCounts DEF PutAll
<1>8. ASSUME NEW data \in SUBSET Words, Unserialize(data) PROVE CounterAgrees' /\ NoReload'
  <2>1. array = {} /\ UnsetFrames = {} /\ array' = {} /\ counter' = 0 /\ Load(data, stack)
    BY <1>8 DEF Unserialize, MayReplace
  <2>2. counter = 0
    BY <1>a, <2>1, FS_EmptySet DEF CounterAgrees
  <2>3. CountsRight
    BY <1>d, <2>1, <2>2, <1>a, StoreCounts
  <2> QED
    BY <1>b, <1>6, <2>1, <2>3
<1>9. ASSUME NEW other \in SUBSET Words, MergeWith(other) PROVE CounterAgrees' /\ NoReload'
  <2>1. PICK added \in SUBSET (other \ array) :
               array' = array \cup added /\ counter' = counter + Cardinality(added)
    BY <1>9 DEF MergeWith
  <2>2. IsFiniteSet(added) /\ IsFiniteSet(array) /\ Cardinality(added) \in Nat
        /\ Cardinality(array) \in Nat
    <3>1. IsFiniteSet(Words) /\ added \subseteq Words
      BY FS_Interval, WordAssumption DEF Words
    <3> QED
      BY <1>a, <3>1, FS_Subset, FS_CardinalityType, ArrayCount
  <2>3. array \cap added = {}
    OBVIOUS
  <2>4. Cardinality(array \cup added) = Cardinality(array) + Cardinality(added)
    <3>1. Cardinality(array \cup added) =
            Cardinality(array) + Cardinality(added) - Cardinality(array \cap added)
      BY <2>2, FS_Union
    <3>2. Cardinality(array \cap added) = 0
      BY <2>3, FS_EmptySet
    <3> QED
      BY <2>2, <3>1, <3>2
  <2>5. CountsRight
    BY <1>a, <2>1, <2>2, <2>4 DEF CountsRight, TypeOK
  <2> QED
    BY <1>a, <1>b, <1>9, <2>5 DEF MergeWith, NoReload
<1>10. ASSUME NEW keys \in SUBSET Words, DerivedResult(keys) PROVE CounterAgrees' /\ NoReload'
  <2>1. stack' = << >> /\ counter' = Cardinality(array')
    BY <1>10 DEF DerivedResult
  <2>2. UnsetFrames' = {}
    BY <2>1 DEF UnsetFrames
  <2> QED
    BY <1>c, <2>1, <2>2, NoElements DEF NoReload
<1>11. CASE Free
  <2>1. UnsetFrames = {} /\ stack' = stack /\ array' = {} /\ counter' = 0
    BY <1>11 DEF Free, MayReplace
  <2>2. UnsetFrames' = {}
    BY <2>1 DEF UnsetFrames
  <2>3. counter' = Cardinality(array')
    BY <2>1, FS_EmptySet
  <2> QED
    BY <1>a, <1>c, <2>1, <2>2, <2>3 DEF NoReload
<1>12. CASE Clone
  <2>1. UnsetFrames = {} /\ stack' = << >> /\ array' = array /\ counter' = counter
    BY <1>12 DEF Clone, MayReplace
  <2>2. counter = Cardinality(array)
    BY <1>a, <2>1, ArrayCount, FS_EmptySet DEF CounterAgrees
  <2>3. UnsetFrames' = {}
    BY <2>1 DEF UnsetFrames
  <2> QED
    BY <1>c, <2>1, <2>2, <2>3, NoElements DEF NoReload
<1>13. CASE Resume
  <2> DEFINE f == Head(stack)
  <2>0. stack # << >>
    BY <1>13 DEF Resume
  <2>1. /\ f \in Frame /\ f \in Elements(stack) /\ Tail(stack) \in Seq(Frame)
        /\ Elements(Tail(stack)) \subseteq Elements(stack)
    BY <1>a, <2>0, Pop
  <2>2. ASSUME f.op # "unset" PROVE Unsets(Tail(stack)) = Unsets(stack)
    BY <1>a, <2>0, <2>2, PopOther
  <2>3. CASE f.op = "store" /\ StoreResumes(f)
    <3>1. f.key \in Words
      BY <2>1, <2>3 DEF CountInv, TypeInv, StoreKeys
    <3>2. stack' = Tail(stack) /\ (Insert(f.key) \/ UNCHANGED <<array, counter>>)
      BY <2>3 DEF StoreResumes, Store, NoMemory, NotPacked
    <3> QED
      BY <1>a, <1>b, <2>1, <2>2, <2>3, <3>1, <3>2, StoreCounts DEF NoReload
  <2>4. CASE f.op = "unset" /\ UnsetResumes
    <3>1. stack' = Tail(stack) /\ counter' = counter - 1 /\ array' = array
      BY <2>4 DEF UnsetResumes
    <3>2. Unsets(stack) = Unsets(stack') + 1 /\ Unsets(stack') \in Nat
      BY <1>a, <2>0, <2>1, <2>4, <3>1, MarkedPop, MarkedFinite DEF Unsets
    <3>3. counter = Cardinality(array) + Unsets(stack) /\ Cardinality(array) \in Nat
      BY <1>a, UnsetMarked, ArrayCount DEF CounterAgrees, Unsets
    <3>4. counter' = Cardinality(array') + Unsets(stack')
      BY <3>1, <3>2, <3>3
    <3>5. UnsetFrames' = Marked(stack', "unset")
      BY DEF UnsetFrames, Marked
    <3> QED
      BY <1>a, <2>1, <3>1, <3>4, <3>5 DEF CounterAgrees, Unsets, NoReload
  <2>5. CASE f.op = "range" /\ RangeResumes(f)
    BY <1>4, <2>1, <2>2, <2>5 DEF RangeResumes, Frame
  <2>6. CASE f.op = "bulk" /\ BulkResumes(f)
    <3>1. CountsRight /\ Unsets(stack') = Unsets(stack)
      BY <1>a, <2>0, <2>6, BulkCounts
    <3>2. \A g \in Elements(stack') : g \in Elements(stack) \/ g.op = "bulk"
      BY <1>a, <2>0, <2>6, BulkStep
    <3>3. NoReload'
      BY <1>a, <3>2 DEF NoReload
    <3> QED
      BY <1>b, <3>1, <3>3
  <2>7. CASE f.op = "reload"
    BY <1>a, <2>1, <2>7 DEF NoReload
  <2> QED
    BY <1>13, <2>1, <2>3, <2>4, <2>5, <2>6, <2>7 DEF Resume, Frame
<1>14. CASE UNCHANGED vars
  BY <1>a, <1>b, <1>d, <1>14, StoreCounts DEF vars, NoReload
<1>15. ASSUME NEW i \in Words, Set(i) \/ AppendAt(i) PROVE StoreAt(i)
  BY <1>15 DEF Set, AppendAt
<1> QED
  BY <1>1, <1>2, <1>3, <1>5, <1>7, <1>8, <1>9, <1>10, <1>11, <1>12, <1>13, <1>14, <1>15 DEF Next

\* If __unserialize() is only called on objects that hold nothing, and no destructor run
\* by offsetUnset() frees, reloads or copies the object, count() is the number of keys,
\* behind only by the unsets whose destructor runs, whatever else user code nests.
THEOREM CounterSafe ==
  ASSUME Reloads = FALSE, ReplaceInUnset = FALSE
  PROVE  Spec => []CounterAgrees
<1>1. CountInv => CounterAgrees
  BY DEF CountInv
<1>2. CountInv /\ [Next]_vars => CountInv'
  BY CountStep
<1> QED
  BY <1>1, <1>2, CountInit, PTL DEF Spec

=============================================================================
