--------------------------- MODULE JudySets_proofs ---------------------------
(***************************************************************************)
(* Proofs about JudySets: for every set of keys, every choice of types and *)
(* words and wherever memory runs out, what a call returns is exact, the   *)
(* result agrees with itself in the middle of every loop, and no copy is   *)
(* leaked.                                                                 *)
(*                                                                         *)
(* The invariant says what the loops have done when they stand at a key:   *)
(* the keys they have passed have the value the operation gives them, the  *)
(* keys ahead what the loop before has left there.  It is what tells that  *)
(* a loop that counts without asking comes across a key it has not seen.   *)
(***************************************************************************)
EXTENDS JudySets, DataLemmas

\* What the call was given, which no step changes.
Given == /\ type \in Types
         /\ method \in {"union", "intersect", "diff", "xor", "slice"}
         /\ method # "slice" => type \in SetTypes
         /\ mirrors \in BOOLEAN /\ (mirrors => type \in Mirroring)

\* What the first loop leaves under a key.
AfterFirst(k) ==
  CASE method = "union" -> IF LeftFirst THEN left[k] ELSE right[k]
    [] method = "xor" -> IF right[k] = NONE THEN left[k] ELSE NONE
    [] OTHER -> Reference(k)

\* What the result has under a key while the loops are on their way.
Due(k) == CASE walk = "first" -> IF k <= at THEN AfterFirst(k) ELSE NONE
            [] walk = "second" -> IF k <= at THEN Reference(k) ELSE AfterFirst(k)
            [] OTHER -> Reference(k)

LoopsAgree ==
  /\ walk = "second" => TwoLoops
  /\ walk # "thrown" =>
       \A k \in Keys : \/ result[k] = Due(k)
                       \/ ~Throws /\ k \in refused /\ result[k] = NONE

Inv == Given /\ TypeOK /\ LoopsAgree /\ ResultAgrees /\ CopiesOwned

-----------------------------------------------------------------------------
(* What the loops come across.                                             *)

\* A key that the loop does not stop at, for it is absent from the operand walked or
\* outside the range, has in the result what it is to have already.
LEMMA PassedKeys ==
  ASSUME Inv, walk \in {"first", "second"}, NEW j \in Keys, j > at, j \notin Ahead
  PROVE  /\ walk = "first" => AfterFirst(j) = NONE
         /\ walk = "second" => AfterFirst(j) = Reference(j)
<1>1. CASE method \in {"union", "xor"}
  BY <1>1 DEF Inv, Given, TypeOK, Operands, LoopsAgree, TwoLoops, Ahead, Filled, Walked,
     WalksRight, LeftFirst, AfterFirst, Reference
<1>2. CASE method \in {"intersect", "diff", "slice"}
  BY <1>2 DEF Inv, Given, TypeOK, Operands, LoopsAgree, TwoLoops, Ahead, Filled, Walked,
     WalksRight, LeftFirst, AfterFirst, Reference
<1> QED
  BY <1>1, <1>2 DEF Inv, Given

\* At a key that it stops at, the loop inserts the value the operation gives the key, and
\* leaves alone a key that the operation does not keep.
LEMMA StopsAt ==
  ASSUME Inv, walk \in {"first", "second"}, NEW k \in Ahead
  PROVE  /\ k \in Keys /\ k > at
         /\ Wanted(k) => /\ Value(k) \in (IF type = "BITSET" THEN {1} ELSE Words)
                         /\ Value(k) = IF walk = "first" THEN AfterFirst(k) ELSE Reference(k)
         /\ ~Wanted(k) => AfterFirst(k) = NONE /\ Reference(k) = NONE
<1>1. k \in Keys /\ k > at /\ Walked[k] # NONE
  BY DEF Ahead, Filled
<1>2. CASE method \in {"union", "xor"}
  BY <1>1, <1>2, WordsAssumption DEF Inv, Given, TypeOK, Operands, LoopsAgree, TwoLoops,
     Walked, Probed, Wanted,
     Value, WalksRight, LeftFirst, AfterFirst, Reference
<1>3. CASE method \in {"intersect", "diff"}
  BY <1>1, <1>3, WordsAssumption DEF Inv, Given, TypeOK, Operands, LoopsAgree, TwoLoops,
     Walked, Probed, Wanted,
     Value, WalksRight, LeftFirst, AfterFirst, Reference
<1>4. CASE method = "slice"
  BY <1>1, <1>4, WordsAssumption DEF Inv, Given, TypeOK, Operands, LoopsAgree, TwoLoops,
     Walked, Probed, Wanted,
     Value, WalksRight, LeftFirst, AfterFirst, Reference, Ahead
<1> QED
  BY <1>1, <1>2, <1>3, <1>4 DEF Inv, Given

\* The loops that count without asking stop at new keys only, and the word kept with a
\* key tells whether it is new as well as the slot does.
LEMMA CountsNewKeys ==
  ASSUME Inv, walk \in {"first", "second"}, NEW k \in Ahead, Wanted(k)
  PROVE  /\ IsNew(k) <=> result[k] = NONE
         /\ Counts(k) <=> result[k] = NONE
         /\ type \in CopyTypes => result[k] = NONE
<1>1. k \in Keys /\ k > at
  BY StopsAt
<1>2. ~(k <= at)
  BY <1>1, KeysAssumption DEF Inv, TypeOK, BEFORE
<1>3. IsNew(k) <=> result[k] = NONE
  <2>1. CASE type \in Indexed
    BY <2>1, <1>1 DEF Inv, ResultAgrees, IsNew, Filled
  <2>2. CASE type \notin Indexed
    BY <2>2 DEF Inv, Given, IsNew, KeepsPayload, Mirroring, Indexed, Adaptive
  <2> QED BY <2>1, <2>2
<1>4. walk = "first" => result[k] = NONE
  BY <1>1, <1>2 DEF Inv, LoopsAgree, Due
<1>5. walk = "second" /\ method = "xor" => result[k] = NONE
  BY <1>1, <1>2 DEF Inv, LoopsAgree, Due, AfterFirst, Wanted, Probed, Walked, LeftFirst, WalksRight
<1>6. walk = "second" => method \in {"union", "xor"}
  BY DEF Inv, LoopsAgree, TwoLoops
<1>7. Counts(k) <=> result[k] = NONE
  BY <1>3, <1>4, <1>5, <1>6 DEF Counts
<1>8. type \in CopyTypes => method = "slice"
  BY DEF Inv, Given, CopyTypes, SetTypes
<1> QED
  BY <1>3, <1>4, <1>6, <1>7, <1>8

\* The counter is that of the slots.
KeysCounted == counter = Cardinality(Filled(result))

\* What an object for strings counts in bytes.
BytesCounted == type \notin IntegerKeyed => bytes = Total(Bytes, Filled(result))

\* key_index and the slots have the same keys, and the words that belong to them.
IndexAgrees == type \in Indexed =>
                 /\ Filled(index) = Filled(result)
                 /\ \A j \in Filled(index) :
                      index[j] = IF KeepsPayload(j) THEN result[j] ELSE 0

\* ResultAgrees by its parts.
LEMMA ResultParts == ResultAgrees <=> KeysCounted /\ IndexAgrees /\ BytesCounted
BY DEF ResultAgrees, KeysCounted, IndexAgrees, BytesCounted, Total

\* The same of the state that a step leads to.
LEMMA ResultPartsNext == ResultAgrees' <=> KeysCounted' /\ IndexAgrees' /\ BytesCounted'
BY ResultParts, PTL

-----------------------------------------------------------------------------
(* The steps.                                                              *)

\* What the operands say does not change.
LEMMA OperandsKept ==
  ASSUME UNCHANGED operands
  PROVE  /\ Given <=> Given'
         /\ \A k \in Keys : /\ Reference(k)' = Reference(k) /\ AfterFirst(k)' = AfterFirst(k)
                           /\ KeepsPayload(k)' = KeepsPayload(k)
         /\ TwoLoops' = TwoLoops /\ Throws' = Throws
<1>1. UNCHANGED <<method, type, mirrors, left, right, range>>
  BY DEF operands
<1> QED
  BY <1>1 DEF Given, Reference, AfterFirst, LeftFirst, KeepsPayload, TwoLoops, Throws

\* A turn at a key agrees with the loops if it leaves under the key what is due there,
\* and every other key alone.
LEMMA TurnAgrees ==
  ASSUME Inv, walk \in {"first", "second"}, NEW k \in Ahead, \A j \in Ahead : k <= j,
         at' = k, UNCHANGED <<operands, walk>>, refused \subseteq refused',
         \A j \in Keys \ {k} : result'[j] = result[j],
         \/ result'[k] = IF walk = "first" THEN AfterFirst(k) ELSE Reference(k)
         \/ ~Throws /\ k \in refused' /\ result'[k] = NONE
  PROVE  LoopsAgree'
<1>1. /\ \A j \in Keys : Reference(j)' = Reference(j) /\ AfterFirst(j)' = AfterFirst(j)
      /\ TwoLoops' = TwoLoops /\ Throws' = Throws
  BY OperandsKept
<1>2. k \in Keys /\ k > at
  BY StopsAt
<1>3. at \in Int /\ \A j \in Keys : j \in Nat
  BY KeysAssumption DEF Inv, TypeOK, BEFORE
<1>4. ASSUME NEW j \in Keys
      PROVE  result'[j] = Due(j)' \/ (~Throws /\ j \in refused' /\ result'[j] = NONE)
  <2>1. CASE j = k
    BY <1>1, <1>2, <1>3, <2>1 DEF Due
  <2>2. CASE j # k
    <3>1. result[j] = Due(j) \/ (~Throws /\ j \in refused /\ result[j] = NONE)
      BY DEF Inv, LoopsAgree
    <3>2. Due(j)' = Due(j)
      <4>1. CASE j <= at \/ k < j
        BY <1>1, <1>2, <1>3, <4>1 DEF Due
      <4>2. CASE at < j /\ j < k
        <5>1. j \notin Ahead
          BY <1>2, <1>3, <4>2
        <5>2. /\ walk = "first" => AfterFirst(j) = NONE
              /\ walk = "second" => AfterFirst(j) = Reference(j)
          BY <1>3, <4>2, <5>1, PassedKeys
        <5> QED
          BY <1>1, <1>2, <1>3, <4>2, <5>2 DEF Due
      <4> QED
        BY <1>2, <1>3, <2>2, <4>1, <4>2
    <3> QED
      BY <2>2, <3>1, <3>2
  <2> QED
    BY <2>1, <2>2
<1> QED
  BY <1>1, <1>4 DEF Inv, LoopsAgree

\* An insert: the key's value, its word in the key_index, its counts and its copy.
LEMMA StoredKeeps ==
  ASSUME Inv, walk \in {"first", "second"}, NEW k \in Ahead, \A j \in Ahead : k <= j,
         at' = k, UNCHANGED operands, Wanted(k), Stored(k, Value(k))
  PROVE  Inv'
<1> DEFINE v == Value(k)
<1>1. /\ k \in Keys
      /\ v \in (IF type = "BITSET" THEN {1} ELSE Words)
      /\ v = IF walk = "first" THEN AfterFirst(k) ELSE Reference(k)
  BY StopsAt
<1>2. /\ IsNew(k) <=> result[k] = NONE
      /\ Counts(k) <=> result[k] = NONE
      /\ type \in CopyTypes => result[k] = NONE
  BY CountsNewKeys
<1> HIDE DEF v
<1>3. UNCHANGED <<method, type, mirrors, left, right, range, walk, refused>>
  BY DEF operands, Stored
<1>4. v \in Words /\ v # NONE /\ v \in Nat /\ 0 \in Words /\ 0 # NONE
  BY <1>1, WordsAssumption
<1>5. /\ result \in [Keys -> {NONE} \cup IF type = "BITSET" THEN {1} ELSE Words]
      /\ index \in [Keys -> Words \cup {NONE}]
      /\ counter \in Nat /\ bytes \in Nat /\ copies \in Nat
  BY DEF Inv, TypeOK, Operands
<1>6. /\ result' = [result EXCEPT ![k] = v]
      /\ index' = IF type \notin Indexed THEN index
                  ELSE [index EXCEPT ![k] = IF KeepsPayload(k) THEN v
                                            ELSE IF IsNew(k) THEN 0 ELSE @]
      /\ counter' = counter + (IF Counts(k) THEN 1 ELSE 0)
      /\ bytes' = bytes + (IF type \notin IntegerKeyed /\ Counts(k) THEN Bytes[k] ELSE 0)
      /\ copies' = copies + (IF type \in CopyTypes THEN 1 ELSE 0)
  BY DEF Stored, v
<1>7. Bytes[k] \in Nat
  BY <1>1, BytesAssumption
<1>8. Given'
  BY OperandsKept DEF Inv
<1>9. LoopsAgree'
  <2>1. /\ \A j \in Keys \ {k} : result'[j] = result[j]
        /\ result'[k] = v
    BY <1>1, <1>5, <1>6
  <2> QED
    BY <1>1, <1>3, <2>1, TurnAgrees
<1>10. Filled(result)' = Filled(result) \cup {k}
  BY <1>1, <1>4, <1>5, <1>6 DEF Filled
<1>11. /\ IsFiniteSet(Filled(result)) /\ Cardinality(Filled(result)) \in Nat
       /\ Cardinality(Filled(result)') = Cardinality(Filled(result))
                                           + (IF result[k] = NONE THEN 1 ELSE 0)
  <2>1. IsFiniteSet(Filled(result))
    BY KeysAssumption, FS_Subset DEF Filled
  <2>2. k \in Filled(result) <=> result[k] # NONE
    BY <1>1 DEF Filled
  <2>3. CASE result[k] = NONE
    <3>1. Cardinality(Filled(result) \cup {k}) = Cardinality(Filled(result)) + 1
      BY <2>1, <2>2, <2>3, FS_AddElement
    <3> QED
      BY <1>10, <2>1, <2>3, <3>1, FS_CardinalityType
  <2>4. CASE result[k] # NONE
    <3>1. Filled(result)' = Filled(result)
      BY <1>10, <2>2, <2>4
    <3> QED
      BY <2>1, <2>4, <3>1, FS_CardinalityType
  <2> QED
    BY <2>3, <2>4
<1>12. TypeOK'
  <2>1. result' \in Operands(type)
    BY <1>1, <1>5, <1>6 DEF Operands
  <2>2. index' \in [Keys -> Words \cup {NONE}]
    BY <1>1, <1>4, <1>5, <1>6
  <2>3. counter' \in Nat /\ bytes' \in Nat /\ copies' \in Nat
    BY <1>5, <1>6, <1>7
  <2>4. at' \in Keys
    BY <1>1
  <2> QED
    BY <1>3, <2>1, <2>2, <2>3, <2>4 DEF Inv, TypeOK, Operands
<1>13. ResultAgrees'
  <2>1. KeysCounted'
    BY <1>2, <1>5, <1>6, <1>11 DEF Inv, ResultAgrees, KeysCounted
  <2>2. ASSUME type \in Indexed
        PROVE  /\ Filled(index)' = Filled(result)'
               /\ \A j \in Filled(index)' :
                    index'[j] = IF KeepsPayload(j) THEN result'[j] ELSE 0
    <3>1. /\ Filled(index) = Filled(result)
          /\ \A j \in Filled(index) : index[j] = IF KeepsPayload(j) THEN result[j] ELSE 0
      BY <2>2 DEF Inv, ResultAgrees
    <3>2. /\ \A j \in Keys \ {k} : index'[j] = index[j] /\ result'[j] = result[j]
          /\ index'[k] = IF KeepsPayload(k) THEN v ELSE 0
          /\ result'[k] = v
      BY <1>1, <1>2, <1>5, <1>6, <2>2, <3>1 DEF Filled
    <3> QED
      BY <1>1, <1>4, <3>1, <3>2 DEF Filled
  <2>3. ASSUME type \notin IntegerKeyed
        PROVE  bytes' = Total(Bytes, Filled(result)')
    <3>1. bytes = Total(Bytes, Filled(result))
      BY <2>3 DEF Inv, ResultAgrees, Total
    <3>2. \A j \in Filled(result) : Bytes[j] \in Nat
      BY BytesAssumption DEF Filled
    <3>3. CASE result[k] = NONE
      <4>1. k \notin Filled(result)
        BY <3>3 DEF Filled
      <4>2. Total(Bytes, Filled(result) \cup {k}) = Total(Bytes, Filled(result)) + Bytes[k]
        BY <1>7, <1>11, <3>2, <4>1, TotalAdd
      <4> QED
        BY <1>2, <1>6, <1>10, <2>3, <3>1, <3>3, <4>2
    <3>4. CASE result[k] # NONE
      <4>1. Filled(result)' = Filled(result)
        BY <1>1, <1>10, <3>4 DEF Filled
      <4> QED
        BY <1>2, <1>5, <1>6, <3>1, <3>4, <4>1
    <3> QED
      BY <3>3, <3>4
  <2>4. \A j \in Keys : KeepsPayload(j)' = KeepsPayload(j)
    BY OperandsKept
  <2>5. Filled(index)' \subseteq Keys
    BY DEF Filled
  <2>6. IndexAgrees'
    BY <1>3, <2>2, <2>4, <2>5 DEF IndexAgrees
  <2>7. BytesCounted'
    BY <1>3, <2>3 DEF BytesCounted
  <2> QED
    BY <2>1, <2>6, <2>7, ResultPartsNext
<1>14. CopiesOwned'
  BY <1>2, <1>3, <1>5, <1>6, <1>11 DEF Inv, CopiesOwned
<1> QED
  BY <1>8, <1>9, <1>12, <1>13, <1>14 DEF Inv

\* A key that the operation does not keep is passed.
LEMMA SkippedKeeps ==
  ASSUME Inv, walk \in {"first", "second"}, NEW k \in Ahead, \A j \in Ahead : k <= j,
         at' = k, UNCHANGED operands, ~Wanted(k), UNCHANGED <<made, walk, refused>>
  PROVE  Inv'
<1>1. k \in Keys /\ k > at /\ AfterFirst(k) = NONE /\ Reference(k) = NONE
  BY StopsAt
<1>2. UNCHANGED <<method, type, mirrors, left, right, range, result, index, counter, bytes,
                  copies, walk, refused>>
  BY DEF operands, made
<1>3. ~(k <= at)
  BY <1>1, KeysAssumption DEF Inv, TypeOK, BEFORE
<1>4. result[k] = NONE
  BY <1>1, <1>3 DEF Inv, LoopsAgree, Due
<1>5. LoopsAgree'
  BY <1>1, <1>2, <1>4, TurnAgrees
<1>6. Given' /\ TypeOK' /\ CopiesOwned'
  BY <1>1, <1>2 DEF Inv, Given, TypeOK, Operands, CopiesOwned, Filled
<1>7. ResultAgrees'
  <2>1. KeysCounted /\ IndexAgrees /\ BytesCounted
    BY ResultParts DEF Inv
  <2>2. KeysCounted' /\ IndexAgrees' /\ BytesCounted'
    BY <1>2, <2>1 DEF KeysCounted, IndexAgrees, BytesCounted, Filled, KeepsPayload
  <2> QED
    BY <2>2, ResultPartsNext
<1> QED
  BY <1>5, <1>6, <1>7 DEF Inv

\* An insert that finds no memory: the loops for strings go on without the key, the
\* others destroy the result, with every copy that it owns.
LEMMA RefusedKeeps ==
  ASSUME Inv, walk \in {"first", "second"}, NEW k \in Ahead, \A j \in Ahead : k <= j,
         at' = k, UNCHANGED operands, Wanted(k), Refused(k)
  PROVE  Inv'
<1>1. k \in Keys
  BY StopsAt
<1>2. UNCHANGED <<method, type, mirrors, left, right, range>>
  BY DEF operands
<1>3. result[k] = NONE /\ refused' = refused \cup {k}
  BY DEF Refused
<1>4. CASE ~Throws
  <2>1. UNCHANGED <<result, index, counter, bytes, copies, walk>>
    BY <1>4 DEF Refused, made
  <2>2. LoopsAgree'
    BY <1>2, <1>3, <1>4, <2>1, TurnAgrees
  <2>3. Given' /\ TypeOK' /\ CopiesOwned'
    BY <1>1, <1>2, <1>3, <2>1 DEF Inv, Given, TypeOK, Operands, CopiesOwned, Filled
  <2>4. ResultAgrees'
    <3>1. KeysCounted /\ IndexAgrees /\ BytesCounted
      BY ResultParts DEF Inv
    <3>2. KeysCounted' /\ IndexAgrees' /\ BytesCounted'
      BY <1>2, <2>1, <3>1 DEF KeysCounted, IndexAgrees, BytesCounted, Filled, KeepsPayload
    <3> QED
      BY <3>2, ResultPartsNext
  <2> QED
    BY <2>2, <2>3, <2>4 DEF Inv
<1>5. CASE Throws
  <2>1. /\ walk' = "thrown" /\ result' = Empty /\ index' = Empty
        /\ counter' = 0 /\ bytes' = 0
        /\ copies' = copies - (IF type \in CopyTypes THEN Cardinality(Found) ELSE 0)
    BY <1>5 DEF Refused, Destroyed
  <2>2. Found = Filled(result)
    BY DEF Inv, ResultAgrees, Found
  <2>3. Cardinality(Filled(result)) \in Nat
    BY KeysAssumption, FS_Subset, FS_CardinalityType DEF Filled
  <2>4. copies' = 0
    BY <2>1, <2>2, <2>3 DEF Inv, CopiesOwned
  <2>5. Filled(result)' = {} /\ Filled(index)' = {}
    BY <2>1 DEF Filled, Empty
  <2>6. Cardinality({}) = 0 /\ Total(Bytes, {}) = 0
    BY FS_EmptySet, TotalEmpty
  <2>7. LoopsAgree'
    BY <2>1 DEF LoopsAgree
  <2>8. Given' /\ CopiesOwned'
    BY <1>2, <2>4, <2>5, <2>6 DEF Inv, Given, CopiesOwned
  <2>9. KeysCounted' /\ IndexAgrees' /\ BytesCounted'
    BY <2>1, <2>5, <2>6 DEF KeysCounted, IndexAgrees, BytesCounted
  <2>10. TypeOK'
    <3>1. Empty \in Operands(type) /\ Empty \in [Keys -> Words \cup {NONE}]
      BY DEF Empty, Operands
    <3> QED
      BY <1>1, <1>2, <1>3, <2>1, <2>4, <3>1 DEF Inv, TypeOK, Operands
  <2> QED
    BY <2>7, <2>8, <2>9, <2>10, ResultPartsNext DEF Inv
<1> QED
  BY <1>4, <1>5

\* A loop that has passed every key hands over to the second one, or returns.
LEMMA EndKeeps ==
  ASSUME Inv, EndOfLoop
  PROVE  Inv'
<1>1. /\ walk \in {"first", "second"} /\ Ahead = {}
      /\ walk' = IF TwoLoops /\ walk = "first" THEN "second" ELSE "returned"
      /\ at' = BEFORE
  BY DEF EndOfLoop
<1>2. UNCHANGED <<method, type, mirrors, left, right, range, result, index, counter, bytes,
                  copies, refused>>
  BY DEF EndOfLoop, operands, made
<1>3. LoopsAgree'
  <2>1. /\ \A j \in Keys : Reference(j)' = Reference(j) /\ AfterFirst(j)' = AfterFirst(j)
        /\ TwoLoops' = TwoLoops /\ Throws' = Throws
    BY OperandsKept DEF EndOfLoop
  <2>2. ASSUME NEW j \in Keys PROVE Due(j)' = Due(j)
    <3>1. j \in Nat /\ at \in Int
      BY KeysAssumption DEF Inv, TypeOK, BEFORE
    <3>2. j > at => /\ walk = "first" => AfterFirst(j) = NONE
                    /\ walk = "second" => AfterFirst(j) = Reference(j)
      BY <1>1, PassedKeys
    <3>3. Due(j) = IF walk = "first" THEN AfterFirst(j) ELSE Reference(j)
      BY <1>1, <3>1, <3>2 DEF Due
    <3>4. ~TwoLoops => AfterFirst(j) = Reference(j)
      BY DEF TwoLoops, AfterFirst
    <3>5. ~(j <= at')
      BY <1>1, <3>1 DEF BEFORE
    <3> QED
      BY <1>1, <2>1, <3>3, <3>4, <3>5 DEF Due, Inv, LoopsAgree
  <2> QED
    BY <1>1, <1>2, <2>1, <2>2 DEF Inv, LoopsAgree
<1>4. Given' /\ TypeOK' /\ CopiesOwned'
  BY <1>1, <1>2 DEF Inv, Given, TypeOK, Operands, CopiesOwned, Filled
<1>5. ResultAgrees'
  <2>1. KeysCounted /\ IndexAgrees /\ BytesCounted
    BY ResultParts DEF Inv
  <2>2. KeysCounted' /\ IndexAgrees' /\ BytesCounted'
    BY <1>2, <2>1 DEF KeysCounted, IndexAgrees, BytesCounted, Filled, KeepsPayload
  <2> QED
    BY <2>2, ResultPartsNext
<1> QED
  BY <1>3, <1>4, <1>5 DEF Inv

\* The empty result that every call begins with.
LEMMA InitInv == Init => Inv
<1> SUFFICES ASSUME Init PROVE Inv
  OBVIOUS
<1> USE DEF Init
<1>1. Filled(result) = {} /\ Filled(index) = {}
  BY DEF Filled, Empty
<1>2. Cardinality({}) = 0 /\ Total(Bytes, {}) = 0
  BY FS_EmptySet, TotalEmpty
<1>3. Empty \in Operands(type) /\ Empty \in [Keys -> Words \cup {NONE}]
  BY DEF Empty, Operands
<1>4. TypeOK
  BY <1>3 DEF TypeOK
<1>5. Given
  BY DEF Given
<1>6. LoopsAgree
  <2>1. \A k \in Keys : result[k] = NONE /\ ~(k <= at)
    BY KeysAssumption DEF Empty, BEFORE
  <2> QED
    BY <2>1 DEF LoopsAgree, Due
<1>7. ResultAgrees
  BY <1>1, <1>2, ResultParts DEF KeysCounted, IndexAgrees, BytesCounted
<1>8. CopiesOwned
  BY <1>1, <1>2 DEF CopiesOwned
<1> QED
  BY <1>4, <1>5, <1>6, <1>7, <1>8 DEF Inv

LEMMA InvStep == Inv /\ [Next]_vars => Inv'
<1> SUFFICES ASSUME Inv, [Next]_vars PROVE Inv'
  OBVIOUS
<1>1. CASE Turn
  <2>1. PICK k \in Ahead :
          /\ \A j \in Ahead : k <= j
          /\ at' = k
          /\ \/ Wanted(k) /\ (Stored(k, Value(k)) \/ Refused(k))
             \/ ~Wanted(k) /\ UNCHANGED <<made, walk, refused>>
    BY <1>1 DEF Turn
  <2>2. walk \in {"first", "second"} /\ UNCHANGED operands
    BY <1>1 DEF Turn
  <2>3. CASE Wanted(k) /\ Stored(k, Value(k))
    BY <2>1, <2>2, <2>3, StoredKeeps
  <2>4. CASE Wanted(k) /\ Refused(k)
    BY <2>1, <2>2, <2>4, RefusedKeeps
  <2>5. CASE ~Wanted(k) /\ UNCHANGED <<made, walk, refused>>
    BY <2>1, <2>2, <2>5, SkippedKeeps
  <2> QED
    BY <2>1, <2>3, <2>4, <2>5
<1>2. CASE EndOfLoop
  BY <1>2, EndKeeps
<1>3. CASE UNCHANGED vars
  <2>1. UNCHANGED <<method, type, mirrors, left, right, range, result, index, counter, bytes,
                    copies, walk, at, refused>>
    BY <1>3 DEF vars, operands, made
  <2>2. Given' /\ TypeOK' /\ CopiesOwned'
    BY <2>1 DEF Inv, Given, TypeOK, Operands, CopiesOwned, Filled
  <2>3. LoopsAgree'
    <3>1. /\ \A k \in Keys : Reference(k)' = Reference(k) /\ AfterFirst(k)' = AfterFirst(k)
          /\ TwoLoops' = TwoLoops /\ Throws' = Throws
      BY <2>1, OperandsKept DEF operands
    <3>2. \A k \in Keys : Due(k)' = Due(k)
      BY <2>1, <3>1 DEF Due
    <3> QED
      BY <2>1, <3>1, <3>2 DEF Inv, LoopsAgree
  <2>4. ResultAgrees'
    <3>1. KeysCounted /\ IndexAgrees /\ BytesCounted
      BY ResultParts DEF Inv
    <3>2. KeysCounted' /\ IndexAgrees' /\ BytesCounted'
      BY <2>1, <3>1 DEF KeysCounted, IndexAgrees, BytesCounted, Filled, KeepsPayload
    <3> QED
      BY <3>2, ResultPartsNext
  <2> QED
    BY <2>2, <2>3, <2>4 DEF Inv
<1> QED
  BY <1>1, <1>2, <1>3 DEF Next

-----------------------------------------------------------------------------
(* The theorems.                                                           *)

\* Every field holds what its C type allows.
THEOREM TypeSafe == Spec => []TypeOK
<1>1. Inv => TypeOK
  BY DEF Inv
<1> QED
  BY <1>1, InitInv, InvStep, PTL DEF Spec

\* What union(), intersect(), diff(), xor() and slice() return is the union,
\* intersection, difference or range of their operands, whatever the loops share of the
\* work, whichever operand intersect() walks and whichever inserts find no memory; under a
\* key of both operands a union has the value of $this, as the code's comments and tests
\* say and its API documents do not.
THEOREM ReturnedSafe == Spec => []ReturnedIsExact
<1>1. Inv => ReturnedIsExact
  BY DEF Inv, LoopsAgree, Due, ReturnedIsExact
<1> QED
  BY <1>1, InitInv, InvStep, PTL DEF Spec

\* Between any two turns of a loop the counters, the key_index and the mirrored payloads
\* of the result are those of its slots: no key is counted twice by the loops that count
\* without asking, none is missed by those that ask the key_index.
THEOREM ResultSafe == Spec => []ResultAgrees
<1>1. Inv => ResultAgrees
  BY DEF Inv
<1> QED
  BY <1>1, InitInv, InvStep, PTL DEF Spec

\* No copy that slice() makes is leaked, in the middle of the loop or when it throws.
THEOREM CopiesSafe == Spec => []CopiesOwned
<1>1. Inv => CopiesOwned
  BY DEF Inv
<1> QED
  BY <1>1, InitInv, InvStep, PTL DEF Spec

=============================================================================
