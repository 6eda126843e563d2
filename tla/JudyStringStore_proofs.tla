----------------------- MODULE JudyStringStore_proofs -----------------------
(***************************************************************************)
(* Proofs about JudyStringStore, for every finite set of keys, all key     *)
(* lengths, every word size, all seven types and every depth of            *)
(* re-entrancy.                                                            *)
(***************************************************************************)
EXTENDS JudyStringStore, DataLemmas, SequenceTheorems

-----------------------------------------------------------------------------
(* What the steps shared by the handlers do, whoever takes them.           *)

\* Handlers are suspended before a store only on word-valued types, and before the
\* second half of an unset only on the others.
FramesOK == \A f \in Elements(stack) :
              /\ f.op = "write" => IntValued /\ f.key \in Keys /\ f.arg \in Values
              /\ f.op = "unset" => ~IntValued /\ f.key \in Keys

TypeInv == TypeOK /\ FramesOK

Slots == [Keys -> Values \cup {ABSENT}]

\* A store and the counters are of their types.
DataOK == /\ array \in Slots /\ hsArray \in Slots /\ keyIndex \in Slots
          /\ counter \in Int /\ bytes \in Nat

\* The constants: keys are numbers, 0 is a value and ABSENT is none.
LEMMA Constants == /\ Keys \subseteq Nat /\ IsFiniteSet(Keys)
                   /\ Values \subseteq Nat /\ 0 \in Values /\ ABSENT \notin Values
                   /\ ABSENT # 0
BY KeysAssumption, WordAssumption DEF Values

LEMMA PayloadIsNat == ASSUME NEW k \in Keys PROVE PayloadBytes(k) \in Nat
<1> DEFINE n == KeyLength[k]
<1>1. n \in Nat
  BY LengthAssumption
<1>2. /\ n + 1 \in Nat /\ n + n + 1 \in Nat
      /\ n + 1 + (IF n >= SSO_MAX_LEN THEN n ELSE 0) \in Nat
  BY <1>1 DEF SSO_MAX_LEN
<1> DEFINE key == CASE type \in PlainTypes -> n + 1
                    [] type \in HashTypes -> n + n + 1
                    [] OTHER -> n + 1 + (IF n >= SSO_MAX_LEN THEN n ELSE 0)
           box == CASE type = "STRING_TO_ENTRY" -> EntryBytes
                    [] IntValued -> 0
                    [] OTHER -> ZvalBytes
<1>3. key \in Nat
  <2>1. CASE type \in PlainTypes
    <3>1. type \notin HashTypes
      BY <2>1 DEF PlainTypes, HashTypes
    <3> QED
      BY <2>1, <3>1, <1>2
  <2>2. CASE type \in HashTypes
    <3>1. type \notin PlainTypes
      BY <2>2 DEF PlainTypes, HashTypes
    <3> QED
      BY <2>2, <3>1, <1>2
  <2>3. CASE type \notin PlainTypes /\ type \notin HashTypes
    BY <2>3, <1>2
  <2> QED
    BY <2>1, <2>2, <2>3
<1>4. box \in Nat
  <2>1. CASE type = "STRING_TO_ENTRY"
    <3>1. ~IntValued
      BY <2>1 DEF IntValued, IntTypes
    <3> QED
      BY <2>1, <3>1 DEF EntryBytes
  <2>2. CASE IntValued
    <3>1. type # "STRING_TO_ENTRY"
      BY <2>2 DEF IntValued, IntTypes
    <3> QED
      BY <2>2, <3>1
  <2>3. CASE type # "STRING_TO_ENTRY" /\ ~IntValued
    BY <2>3 DEF ZvalBytes
  <2> QED
    BY <2>1, <2>2, <2>3
<1>5. PayloadBytes(k) = key + WordBytes + box
  BY DEF PayloadBytes
<1> HIDE DEF key, box
<1> QED
  BY <1>3, <1>4, <1>5 DEF WordBytes

\* Suspending a handler pushes its frame, and changes no other.
LEMMA SuspendStep ==
  ASSUME NEW f \in Frame, NEW callers \in Seq(Frame), Suspend(f, callers)
  PROVE  /\ stack' \in Seq(Frame)
         /\ Elements(stack') = {f} \cup Elements(callers)
BY Push DEF Suspend

LEMMA AtFrame ==
  ASSUME NEW op \in {"write", "unset", "range"}, NEW key \in Nat, NEW arg \in Nat
  PROVE  /\ At(op, key, arg) \in Frame
         /\ At(op, key, arg).op = op /\ At(op, key, arg).key = key /\ At(op, key, arg).arg = arg
BY DEF At, Frame

LEMMA RangeFrame ==
  ASSUME NEW c \in BOOLEAN, NEW key \in Nat, NEW arg \in Nat
  PROVE  /\ [At("range", key, arg) EXCEPT !.calls = c] \in Frame
         /\ [At("range", key, arg) EXCEPT !.calls = c].op = "range"
<1>1. [At("range", key, arg) EXCEPT !.calls = c] =
        [op |-> "range", calls |-> c, key |-> key, arg |-> arg]
  BY DEF At
<1> QED
  BY <1>1 DEF Frame

\* A slot is written in the structure that holds the key, and in no other place.
LEMMA SetSlotStep ==
  ASSUME DataOK, NEW k \in Keys, NEW w \in Values \cup {ABSENT}, SetSlot(k, w), type' = type
  PROVE  /\ array' \in Slots /\ hsArray' \in Slots
         /\ \A l \in Keys : Slot(l)' = IF l = k THEN w ELSE Slot(l)
         /\ \A l \in Keys \ {k} : array'[l] = array[l]
<1>1. InHsArray(k)' = InHsArray(k)
  BY DEF InHsArray
<1>2. CASE InHsArray(k)
  BY <1>2 DEF SetSlot, Slot, InHsArray, DataOK, Slots
<1>3. CASE ~InHsArray(k)
  BY <1>3 DEF SetSlot, Slot, InHsArray, DataOK, Slots
<1> QED
  BY <1>2, <1>3

\* The counters follow a key in and out.
LEMMA CountStep ==
  ASSUME DataOK, NEW k \in Keys, CountIn(k) \/ CountOut(k) \/ UNCHANGED <<counter, bytes>>
  PROVE  counter' \in Int /\ bytes' \in Nat
<1>1. PayloadBytes(k) \in Nat
  BY PayloadIsNat
<1> QED
  BY <1>1 DEF CountIn, CountOut, DataOK

-----------------------------------------------------------------------------
(* How the structures agree.                                               *)

\* The key_index lists the stored keys and those being unset, and its words are what
\* they should be.  This is IndexAgrees and MirrorAgrees in a form that a step keeps.
IndexInv == KeyIndexed => \A k \in Keys :
              /\ Stored(k) => Listed(k)
              /\ Listed(k) => Stored(k) \/ k \in BeingUnset
              /\ Listed(k) => keyIndex[k] = IF Mirrors(k) THEN Slot(k) ELSE 0

\* Nothing is stored under a key whose unset waits for a destructor.
UnsetInv == \A k \in BeingUnset : ~Stored(k)

ListedKeys == {k \in Keys : Listed(k)}

\* Without a key_index a key is listed when it is stored.
LEMMA PlainListed ==
  ASSUME type \in StringTypes, ~KeyIndexed, NEW k \in Keys
  PROVE  Listed(k) <=> Stored(k)
<1>1. ~InHsArray(k)
  BY DEF KeyIndexed, InHsArray
<1> QED
  BY <1>1 DEF Listed, Stored, Slot

\* Keys are mirrored only on two types, both with a key_index and word values.
LEMMA MirrorsType ==
  ASSUME TypeOK, NEW k \in Keys, Mirrors(k)
  PROVE  KeyIndexed /\ IntValued
<1>1. mirror = TRUE
  BY DEF Mirrors, TypeOK
<1> QED
  BY <1>1 DEF TypeOK, KeyIndexed, IntValued, MirrorTypes, IntTypes, HashTypes, AdaptiveTypes

LEMMA BeingUnsetKeys ==
  BeingUnset = {f.key : f \in {g \in Elements(stack) : g.op = "unset"}}
BY DEF BeingUnset, Elements

\* On a word-valued type no key is being unset.
LEMMA NoWordUnset == ASSUME TypeInv, IntValued PROVE BeingUnset = {}
BY BeingUnsetKeys DEF TypeInv, FramesOK

\* The population changes with the set of listed keys.
LEMMA ListedCount ==
  ASSUME NEW k \in Keys
  PROVE  /\ IsFiniteSet(ListedKeys) /\ Cardinality(ListedKeys) \in Nat
         /\ ListedKeys' = ListedKeys \cup {k} =>
              Cardinality(ListedKeys') = Cardinality(ListedKeys) + (IF Listed(k) THEN 0 ELSE 1)
         /\ ListedKeys' = ListedKeys \ {k} =>
              Cardinality(ListedKeys') = Cardinality(ListedKeys) - (IF Listed(k) THEN 1 ELSE 0)
<1>1. IsFiniteSet(ListedKeys) /\ Cardinality(ListedKeys) \in Nat
  BY Constants, FS_Subset, FS_CardinalityType DEF ListedKeys
<1>2. k \in ListedKeys <=> Listed(k)
  BY DEF ListedKeys
<1>3. Cardinality(ListedKeys \cup {k}) =
        IF k \in ListedKeys THEN Cardinality(ListedKeys) ELSE Cardinality(ListedKeys) + 1
  BY <1>1, FS_AddElement
<1>4. Cardinality(ListedKeys \ {k}) =
        IF k \in ListedKeys THEN Cardinality(ListedKeys) - 1 ELSE Cardinality(ListedKeys)
  BY <1>1, FS_RemoveElement
<1>5. ASSUME ListedKeys' = ListedKeys \cup {k}
      PROVE  Cardinality(ListedKeys') = Cardinality(ListedKeys) + (IF Listed(k) THEN 0 ELSE 1)
  BY <1>1, <1>2, <1>3, <1>5
<1>6. ASSUME ListedKeys' = ListedKeys \ {k}
      PROVE  Cardinality(ListedKeys') = Cardinality(ListedKeys) - (IF Listed(k) THEN 1 ELSE 0)
  BY <1>1, <1>2, <1>4, <1>6
<1> QED
  BY <1>1, <1>5, <1>6

-----------------------------------------------------------------------------
(* The payload bytes.                                                      *)

\* The payload of each key, and what the suspended unsets have still to count out.
Sizes == [k \in Nat |-> IF k \in Keys THEN PayloadBytes(k) ELSE 0]
Waits(f, sizes) == IF f.op = "unset" THEN sizes[f.key] ELSE 0
Owed(s, sizes) == Along([f \in Frame |-> Waits(f, sizes)], s)

\* BytesAgree in a form that a step keeps.
BytesCounted == bytes = Total(Sizes, ListedKeys) + (IF KeyIndexed THEN 0 ELSE Owed(stack, Sizes))

LEMMA SizesType ==
  /\ Sizes \in [Nat -> Nat]
  /\ \A k \in Keys : Sizes[k] = PayloadBytes(k)
BY Constants, PayloadIsNat DEF Sizes

\* An object keeps its type, so that a key keeps its size.
LEMMA SizesKept == ASSUME type' = type PROVE Sizes' = Sizes
BY DEF Sizes, PayloadBytes, IntValued

\* The listed payload changes with the set of listed keys.
LEMMA ListedBytes ==
  ASSUME NEW k \in Keys
  PROVE  /\ Total(Sizes, ListedKeys) \in Nat
         /\ Listed(k) => Total(Sizes, ListedKeys) >= PayloadBytes(k)
         /\ Total(Sizes, ListedKeys \cup {k}) =
              Total(Sizes, ListedKeys) + (IF Listed(k) THEN 0 ELSE PayloadBytes(k))
         /\ Total(Sizes, ListedKeys \ {k}) =
              Total(Sizes, ListedKeys) - (IF Listed(k) THEN PayloadBytes(k) ELSE 0)
<1>1. IsFiniteSet(ListedKeys) /\ \A l \in ListedKeys : Sizes[l] \in Nat
  BY Constants, FS_Subset, SizesType DEF ListedKeys
<1>2. (k \in ListedKeys <=> Listed(k)) /\ Sizes[k] = PayloadBytes(k) /\ PayloadBytes(k) \in Nat
  BY SizesType, PayloadIsNat DEF ListedKeys
<1>3. Total(Sizes, ListedKeys) \in Nat
  BY <1>1, TotalType
<1>4. CASE Listed(k)
  <2>1. ListedKeys \cup {k} = ListedKeys
    BY <1>2, <1>4
  <2>2. Total(Sizes, ListedKeys) = Sizes[k] + Total(Sizes, ListedKeys \ {k})
    BY <1>1, <1>2, <1>4, TotalRemove
  <2>3. Total(Sizes, ListedKeys \ {k}) \in Nat
    <3>1. IsFiniteSet(ListedKeys \ {k})
      BY <1>1, FS_RemoveElement
    <3> QED
      BY <1>1, <3>1, TotalType
  <2> DEFINE all == Total(Sizes, ListedKeys)
             others == Total(Sizes, ListedKeys \ {k})
  <2>4. all = PayloadBytes(k) + others /\ others \in Nat
    BY <1>2, <2>2, <2>3
  <2>5. Total(Sizes, ListedKeys \cup {k}) = all
    BY <2>1
  <2> HIDE DEF all, others
  <2>6. all >= PayloadBytes(k) /\ others = all - PayloadBytes(k) /\ all \in Nat
    BY <1>2, <2>4
  <2> QED
    BY <1>4, <2>5, <2>6 DEF all, others
<1>5. CASE ~Listed(k)
  <2>1. ListedKeys \ {k} = ListedKeys
    BY <1>2, <1>5
  <2>2. Total(Sizes, ListedKeys \cup {k}) = Total(Sizes, ListedKeys) + Sizes[k]
    BY <1>1, <1>2, <1>5, TotalAdd
  <2> DEFINE all == Total(Sizes, ListedKeys)
  <2>3. all \in Nat /\ Total(Sizes, ListedKeys \ {k}) = all
        /\ Total(Sizes, ListedKeys \cup {k}) = all + PayloadBytes(k)
    BY <1>2, <1>3, <2>1, <2>2
  <2> HIDE DEF all
  <2>4. all = all - 0
    BY <2>3
  <2> QED
    BY <1>5, <2>3, <2>4 DEF all
<1> QED
  BY <1>4, <1>5

LEMMA ListedBytesType == Total(Sizes, ListedKeys) \in Nat
<1>1. IsFiniteSet(ListedKeys) /\ \A l \in ListedKeys : Sizes[l] \in Nat
  BY Constants, FS_Subset, SizesType DEF ListedKeys
<1> QED
  BY <1>1, TotalType

LEMMA WaitsType ==
  ASSUME NEW f \in Frame, NEW sizes \in [Nat -> Nat]
  PROVE  Waits(f, sizes) \in Nat
<1>1. f.key \in Nat
  BY DEF Frame
<1> QED
  BY <1>1 DEF Waits

\* What a frame on top adds to the payload of the unsets.
LEMMA OwedPush ==
  ASSUME NEW s \in Seq(Frame), NEW e \in Frame, NEW sizes \in [Nat -> Nat]
  PROVE  /\ Owed(s, sizes) \in Nat
         /\ Owed(<<e>> \o s, sizes) = Waits(e, sizes) + Owed(s, sizes)
<1> DEFINE h == [f \in Frame |-> Waits(f, sizes)]
<1>1. h \in [Frame -> Nat] /\ h[e] = Waits(e, sizes)
  BY WaitsType
<1> HIDE DEF h
<1>2. Along(h, s) \in Nat /\ Along(h, <<e>> \o s) = h[e] + Along(h, s)
  BY <1>1, AlongPush
<1> QED
  BY <1>1, <1>2 DEF Owed, h

LEMMA OwedPop ==
  ASSUME NEW s \in Seq(Frame), s # << >>, NEW sizes \in [Nat -> Nat]
  PROVE  /\ Owed(s, sizes) = Waits(Head(s), sizes) + Owed(Tail(s), sizes)
         /\ Owed(Tail(s), sizes) \in Nat /\ Owed(s, sizes) \in Nat
<1>1. Head(s) \in Frame /\ Tail(s) \in Seq(Frame) /\ s = <<Head(s)>> \o Tail(s)
  OBVIOUS
<1> QED
  BY <1>1, OwedPush

LEMMA OwedType == ASSUME NEW s \in Seq(Frame) PROVE Owed(s, Sizes) \in Nat
<1>1. [op |-> "range", calls |-> TRUE, key |-> 0, arg |-> 0] \in Frame
  BY DEF Frame
<1> QED
  BY <1>1, SizesType, OwedPush

\* No unset, nothing owed.
LEMMA NothingOwed ==
  ASSUME NEW s \in Seq(Frame), \A f \in Elements(s) : f.op # "unset", NEW sizes
  PROVE  Owed(s, sizes) = 0
<1> DEFINE h == [f \in Frame |-> Waits(f, sizes)]
           w == [i \in DOMAIN s |-> h[s[i]]]
<1>1. DOMAIN w = 1 .. Len(s) /\ Len(s) \in Nat
  OBVIOUS
<1>2. IsFiniteSet(1 .. Len(s))
  BY <1>1, FS_Interval
<1>3. \A i \in DOMAIN w : w[i] = 0
  BY DEF Waits, Elements
<1>4. Owed(s, sizes) = Total(w, DOMAIN w)
  BY DEF Owed, Along
<1> HIDE DEF w, h
<1> QED
  BY <1>1, <1>2, <1>3, <1>4, TotalZero

\* The sums of BytesAgree.
LEMMA ListedSum ==
  MapThenSumSet(PayloadBytes, {k \in Keys : Listed(k)}) = Total(Sizes, ListedKeys)
<1> DEFINE S == ListedKeys
           g == CHOOSE g : g = [s \in SUBSET S |->
                  IF s = {} THEN 0 ELSE PayloadBytes(Pick(s)) + g[s \ {Pick(s)}]]
<1>1. MapThenSumSet(PayloadBytes, {k \in Keys : Listed(k)}) = g[S]
  BY DEF MapThenSumSet, MapThenFoldSet, Pick, ListedKeys
<1>2. IsFiniteSet(S) /\ S \subseteq Keys
  BY Constants, FS_Subset DEF ListedKeys
<1>3. Sums(g, Sizes, S)
  <2>1. \A s \in SUBSET S : s # {} => Sizes[Pick(s)] = PayloadBytes(Pick(s))
    BY <1>2, Constants DEF Pick, Sizes
  <2>2. PICK h : Sums(h, Sizes, S)
    BY <1>2, SumsExist
  <2>3. h = [s \in SUBSET S |-> IF s = {} THEN 0
                                ELSE PayloadBytes(Pick(s)) + h[s \ {Pick(s)}]]
    <3> HIDE DEF S
    <3> QED
      BY <2>1, <2>2 DEF Sums, SumsOn
  <2>4. g = [s \in SUBSET S |-> IF s = {} THEN 0
                                ELSE PayloadBytes(Pick(s)) + g[s \ {Pick(s)}]]
    BY <2>3
  <2> HIDE DEF S, g
  <2> QED
    BY <2>1, <2>4 DEF Sums, SumsOn
<1> HIDE DEF S, g
<1>4. Total(Sizes, S) = g[S]
  BY <1>2, <1>3, TotalIs
<1> QED
  BY <1>1, <1>4 DEF S

LEMMA OwedSum ==
  ASSUME TypeInv
  PROVE  MapThenSumSet(LAMBDA i : PayloadBytes(stack[i].key), UnsetFrames) = Owed(stack, Sizes)
<1> DEFINE D == DOMAIN stack
           S == UnsetFrames
           m == [f \in Frame |-> Waits(f, Sizes)]
           w == [i \in D |-> m[stack[i]]]
           g == CHOOSE g : g = [s \in SUBSET S |->
                  IF s = {} THEN 0 ELSE PayloadBytes(stack[Pick(s)].key) + g[s \ {Pick(s)}]]
<1>1. MapThenSumSet(LAMBDA i : PayloadBytes(stack[i].key), UnsetFrames) = g[S]
  BY DEF MapThenSumSet, MapThenFoldSet, Pick
<1>a. \A i \in D : stack[i] \in Frame
  BY DEF TypeInv, TypeOK
<1>2. IsFiniteSet(D) /\ IsFiniteSet(S) /\ S \in SUBSET D
  <2>1. stack \in Seq(Frame)
    BY DEF TypeInv, TypeOK
  <2>2. D = 1 .. Len(stack) /\ Len(stack) \in Nat
    BY <2>1
  <2>3. IsFiniteSet(1 .. Len(stack))
    BY <2>2, FS_Interval
  <2>4. S \in SUBSET D
    BY DEF UnsetFrames
  <2> QED
    BY <2>2, <2>3, <2>4, FS_Subset
<1>3. ASSUME NEW i \in S
      PROVE  w[i] = PayloadBytes(stack[i].key) /\ w[i] \in Nat
  <2>1. i \in D /\ stack[i].op = "unset" /\ stack[i] \in Elements(stack)
    BY DEF UnsetFrames, Elements
  <2>2. stack[i].key \in Keys
    BY <2>1 DEF TypeInv, FramesOK
  <2> QED
    BY <1>a, <2>1, <2>2, Constants, PayloadIsNat DEF Waits, Sizes
<1>4. \A i \in D \ S : w[i] = 0
  BY <1>a DEF Waits, UnsetFrames
<1>5. Sums(g, w, S)
  <2>1. \A s \in SUBSET S : s # {} => w[Pick(s)] = PayloadBytes(stack[Pick(s)].key)
    BY <1>3 DEF Pick
  <2>2. PICK h : Sums(h, w, S)
    BY <1>2, SumsExist
  <2>3. h = [s \in SUBSET S |-> IF s = {} THEN 0
                                ELSE PayloadBytes(stack[Pick(s)].key) + h[s \ {Pick(s)}]]
    <3> HIDE DEF S, w, m
    <3> QED
      BY <2>1, <2>2 DEF Sums, SumsOn
  <2>4. g = [s \in SUBSET S |-> IF s = {} THEN 0
                                ELSE PayloadBytes(stack[Pick(s)].key) + g[s \ {Pick(s)}]]
    BY <2>3
  <2> HIDE DEF S, g, w, m
  <2> QED
    BY <2>1, <2>4 DEF Sums, SumsOn
<1>6. Owed(stack, Sizes) = Total(w, D)
  BY DEF Owed, Along
<1> HIDE DEF S, g, w, D, m
<1>7. Total(w, S) = g[S]
  BY <1>2, <1>5, TotalIs
<1>8. Total(w, S) = Total(w, D)
  <2>1. \A i \in D : w[i] \in Nat
    BY <1>3, <1>4
  <2> QED
    BY <1>2, <1>4, <2>1, TotalPart
<1> QED
  BY <1>1, <1>6, <1>7, <1>8 DEF S

LEMMA BytesAre == ASSUME TypeInv, BytesCounted PROVE BytesAgree
<1> DEFINE u == MapThenSumSet(LAMBDA i : PayloadBytes(stack[i].key), UnsetFrames)
           l == MapThenSumSet(PayloadBytes, {k \in Keys : Listed(k)})
<1>1. BytesAgree <=> bytes = l + (IF KeyIndexed THEN 0 ELSE u)
  BY Zenon DEF BytesAgree
<1>2. u = Owed(stack, Sizes) /\ l = Total(Sizes, ListedKeys)
  BY OwedSum, ListedSum, Zenon
<1> HIDE DEF u, l
<1> QED
  BY <1>1, <1>2 DEF BytesCounted

-----------------------------------------------------------------------------
(* The store step.                                                         *)

\* What the steps of this component change, key by key: the others are left alone.
OthersKept(k) == \A l \in Keys \ {k} : /\ Slot(l)' = Slot(l)
                                       /\ keyIndex'[l] = keyIndex[l]
                                       /\ Listed(l)' <=> Listed(l)

\* The key is stored, listed and counted.
StoresKey(k, v) ==
  /\ Slot(k)' = v
  /\ KeyIndexed => keyIndex'[k] = IF Mirrors(k) THEN v ELSE 0
  /\ ListedKeys' = ListedKeys \cup {k}
  /\ counter' = counter + (IF Listed(k) THEN 0 ELSE 1)
  /\ bytes' = bytes + (IF Listed(k) THEN 0 ELSE PayloadBytes(k))

\* The store is as it was.
KeepsKeys ==
  /\ \A l \in Keys : Slot(l)' = Slot(l)
  /\ KeyIndexed => keyIndex' = keyIndex
  /\ ListedKeys' = ListedKeys /\ counter' = counter /\ bytes' = bytes

\* Whether a key is new is asked of one structure and is true of both.
LEMMA NewIsUnlisted ==
  ASSUME TypeInv, IndexInv, NEW k \in Keys, k \notin BeingUnset
  PROVE  IsNew(k) <=> ~Listed(k)
<1>1. type \in StringTypes
  BY TypesAssumption DEF TypeInv, TypeOK
<1>2. CASE KeyIndexed
  BY <1>2 DEF IndexInv, IsNew, Listed
<1>3. CASE ~KeyIndexed
  BY <1>1, <1>3, PlainListed, MirrorsType DEF IsNew, TypeInv
<1> QED
  BY <1>2, <1>3

LEMMA InsertedStep ==
  ASSUME TypeInv, IndexInv, NEW k \in Keys, NEW v \in Values, k \notin BeingUnset,
         Inserted(k, v), type' = type, mirror' = mirror
  PROVE  DataOK' /\ OthersKept(k) /\ StoresKey(k, v)
<1>1. DataOK /\ type \in StringTypes
  BY TypesAssumption DEF TypeInv, TypeOK, DataOK, Slots
<1>2. /\ array' \in Slots /\ hsArray' \in Slots
      /\ \A l \in Keys : Slot(l)' = IF l = k THEN v ELSE Slot(l)
      /\ \A l \in Keys \ {k} : array'[l] = array[l]
  BY <1>1, SetSlotStep DEF Inserted
<1>3. counter' \in Int /\ bytes' \in Nat
  BY <1>1, CountStep DEF Inserted
<1>4. IsNew(k) <=> ~Listed(k)
  BY NewIsUnlisted
<1>5. /\ counter' = counter + (IF Listed(k) THEN 0 ELSE 1)
      /\ bytes' = bytes + (IF Listed(k) THEN 0 ELSE PayloadBytes(k))
  BY <1>1, <1>4 DEF Inserted, CountIn, DataOK
<1>6. KeyIndexed' <=> KeyIndexed
  BY DEF KeyIndexed
<1>7. CASE KeyIndexed
  <2>1. \A l \in Keys : keyIndex[l] # ABSENT <=> Listed(l)
    BY <1>7 DEF Listed
  <2>2. Listed(k) /\ ~Mirrors(k) => keyIndex[k] = 0
    BY <1>7 DEF IndexInv
  <2>3. \E w \in Values : /\ keyIndex' = [keyIndex EXCEPT ![k] = w]
                           /\ w = IF Mirrors(k) THEN v ELSE 0
    <3>1. CASE Mirrors(k)
      BY <1>7, <3>1, Zenon DEF Inserted
    <3>2. CASE ~Mirrors(k)
      <4>1. keyIndex' = [keyIndex EXCEPT ![k] = IF @ = ABSENT THEN 0 ELSE @]
        BY <1>7, <3>2, Zenon DEF Inserted
      <4>2. (IF keyIndex[k] = ABSENT THEN 0 ELSE keyIndex[k]) = 0
        BY <2>1, <2>2, <3>2
      <4> QED
        BY <4>1, <4>2, <3>2, Constants
    <3> QED
      BY <3>1, <3>2
  <2>4. PICK w \in Values : /\ keyIndex' = [keyIndex EXCEPT ![k] = w]
                            /\ w = IF Mirrors(k) THEN v ELSE 0
    BY <2>3
  <2>5. /\ keyIndex' \in Slots /\ keyIndex'[k] = w
        /\ \A l \in Keys \ {k} : keyIndex'[l] = keyIndex[l]
    BY <1>1, <2>4 DEF DataOK, Slots
  <2>6. \A l \in Keys : Listed(l)' <=> keyIndex'[l] # ABSENT
    BY <1>6, <1>7 DEF Listed
  <2>7. ListedKeys' = ListedKeys \cup {k}
    BY <2>1, <2>5, <2>6, Constants DEF ListedKeys
  <2> QED
    BY <1>2, <1>3, <1>5, <2>1, <2>4, <2>5, <2>6, <2>7 DEF DataOK, OthersKept, StoresKey
<1>8. CASE ~KeyIndexed
  <2>0. ~Mirrors(k)
    BY <1>8, MirrorsType DEF TypeInv
  <2>1. keyIndex' = keyIndex
    BY <1>8, <2>0, Zenon DEF Inserted
  <2>2. \A l \in Keys : (Listed(l) <=> Slot(l) # ABSENT) /\ (Listed(l)' <=> Slot(l)' # ABSENT)
    <3> SUFFICES ASSUME NEW l \in Keys
                 PROVE  (Listed(l) <=> Slot(l) # ABSENT) /\ (Listed(l)' <=> Slot(l)' # ABSENT)
      OBVIOUS
    <3>1. Listed(l) <=> Slot(l) # ABSENT
      BY <1>1, <1>8, PlainListed DEF Stored
    <3>2. ~InHsArray(l)'
      BY <1>8 DEF KeyIndexed, InHsArray
    <3>3. Listed(l)' <=> Slot(l)' # ABSENT
      BY <1>6, <1>8, <3>2 DEF Listed, Slot
    <3> QED
      BY <3>1, <3>3
  <2>3. ListedKeys' = ListedKeys \cup {k}
    BY <1>2, <2>2, Constants DEF ListedKeys
  <2> QED
    BY <1>1, <1>2, <1>3, <1>5, <1>8, <2>1, <2>2, <2>3 DEF DataOK, OthersKept, StoresKey
<1> QED
  BY <1>7, <1>8

\* A store that finds no memory, in the value store or in the key_index, leaves no trace.
LEMMA StoreStep ==
  ASSUME TypeInv, IndexInv, NEW k \in Keys, NEW v \in Values, k \notin BeingUnset, Store(k, v)
  PROVE  /\ DataOK' /\ type' = type /\ mirror' = mirror
         /\ (OthersKept(k) /\ StoresKey(k, v)) \/ KeepsKeys
<1>1. DataOK /\ type' = type /\ mirror' = mirror
  BY DEF TypeInv, TypeOK, DataOK, Slots, Store
<1>2. CASE Inserted(k, v)
  BY <1>1, <1>2, InsertedStep
<1>3. CASE ValueInsertFails(k)
  BY <1>1, <1>3 DEF ValueInsertFails, KeepsKeys, ListedKeys, Listed, KeyIndexed, Slot, InHsArray, DataOK
<1>4. CASE IndexInsertFails(k)
  <2>1. KeyIndexed /\ Slot(k) = ABSENT
    BY <1>4, NewIsUnlisted DEF IndexInsertFails, IndexInv, Stored
  <2>2. /\ array' \in Slots /\ hsArray' \in Slots
        /\ \A l \in Keys : Slot(l)' = IF l = k THEN ABSENT ELSE Slot(l)
    BY <1>1, <1>4, SetSlotStep DEF IndexInsertFails
  <2>3. keyIndex' = keyIndex /\ counter' = counter /\ bytes' = bytes
    BY <1>4 DEF IndexInsertFails
  <2>4. ListedKeys' = ListedKeys
    BY <1>1, <2>1, <2>3 DEF ListedKeys, Listed, KeyIndexed
  <2> QED
    BY <1>1, <2>1, <2>2, <2>3, <2>4 DEF KeepsKeys, DataOK
<1> QED
  BY <1>2, <1>3, <1>4 DEF Store

-----------------------------------------------------------------------------
(* The removal step.                                                       *)

\* The payload total without a key, clamped at 0.
Lowered(k) == IF bytes > PayloadBytes(k) THEN bytes - PayloadBytes(k) ELSE 0

\* The key is neither stored nor listed, and counted out if it was listed.
RemovesKey(k) ==
  /\ Slot(k)' = ABSENT
  /\ KeyIndexed => keyIndex'[k] = ABSENT
  /\ ListedKeys' = ListedKeys \ {k}
  /\ counter' = counter - (IF Listed(k) THEN 1 ELSE 0)
  /\ bytes' = IF Listed(k) THEN Lowered(k) ELSE bytes

\* The removal of a key from both structures, when neither delete fails.
Removed(k) ==
  /\ SetSlot(k, ABSENT)
  /\ IF KeyIndexed THEN Unlist(k, TRUE) ELSE CountOut(k) /\ UNCHANGED keyIndex
  /\ type' = type /\ mirror' = mirror

LEMMA RemovedStep ==
  ASSUME TypeInv, NEW k \in Keys, Removed(k), KeyIndexed \/ Listed(k)
  PROVE  DataOK' /\ OthersKept(k) /\ RemovesKey(k)
<1>1. DataOK /\ type \in StringTypes /\ type' = type
  BY TypesAssumption DEF TypeInv, TypeOK, DataOK, Slots, Removed
<1>2. /\ array' \in Slots /\ hsArray' \in Slots
      /\ \A l \in Keys : Slot(l)' = IF l = k THEN ABSENT ELSE Slot(l)
      /\ \A l \in Keys \ {k} : array'[l] = array[l]
  BY <1>1, SetSlotStep DEF Removed
<1>3. CountOut(k) \/ UNCHANGED <<counter, bytes>>
  BY DEF Removed, Unlist
<1>4. counter' \in Int /\ bytes' \in Nat
  BY <1>1, <1>3, CountStep
<1>5. KeyIndexed' <=> KeyIndexed
  BY <1>1 DEF KeyIndexed
<1>6. CASE KeyIndexed
  <2>1. \A l \in Keys : /\ Listed(l) <=> keyIndex[l] # ABSENT
                        /\ Listed(l)' <=> keyIndex'[l] # ABSENT
    BY <1>5, <1>6 DEF Listed
  <2>2. /\ keyIndex' = [keyIndex EXCEPT ![k] = ABSENT]
        /\ counter' = counter - (IF Listed(k) THEN 1 ELSE 0)
        /\ bytes' = IF Listed(k) THEN Lowered(k) ELSE bytes
    <3>1. Unlist(k, TRUE)
      BY <1>6 DEF Removed
    <3>2. CASE keyIndex[k] # ABSENT
      BY <1>1, <2>1, <3>1, <3>2 DEF Unlist, CountOut, DataOK, Lowered
    <3>3. CASE keyIndex[k] = ABSENT
      BY <1>1, <2>1, <3>1, <3>3 DEF Unlist, DataOK, Slots
    <3> QED
      BY <3>2, <3>3
  <2>3. /\ keyIndex' \in Slots /\ keyIndex'[k] = ABSENT
        /\ \A l \in Keys \ {k} : keyIndex'[l] = keyIndex[l]
    BY <1>1, <2>2 DEF DataOK, Slots
  <2>4. ListedKeys' = ListedKeys \ {k}
    BY <2>1, <2>3 DEF ListedKeys
  <2> QED
    BY <1>2, <1>4, <2>1, <2>2, <2>3, <2>4 DEF DataOK, OthersKept, RemovesKey
<1>7. CASE ~KeyIndexed
  <2>1. keyIndex' = keyIndex /\ counter' = counter - 1 /\ bytes' = Lowered(k)
    BY <1>7 DEF Removed, CountOut, Lowered
  <2>2. \A l \in Keys : (Listed(l) <=> Slot(l) # ABSENT) /\ (Listed(l)' <=> Slot(l)' # ABSENT)
    <3> SUFFICES ASSUME NEW l \in Keys
                 PROVE  (Listed(l) <=> Slot(l) # ABSENT) /\ (Listed(l)' <=> Slot(l)' # ABSENT)
      OBVIOUS
    <3>1. Listed(l) <=> Slot(l) # ABSENT
      BY <1>1, <1>7, PlainListed DEF Stored
    <3>2. ~InHsArray(l)'
      BY <1>1, <1>7 DEF KeyIndexed, InHsArray
    <3>3. Listed(l)' <=> Slot(l)' # ABSENT
      BY <1>5, <1>7, <3>2 DEF Listed, Slot
    <3> QED
      BY <3>1, <3>3
  <2>3. ListedKeys' = ListedKeys \ {k}
    BY <1>2, <2>2 DEF ListedKeys
  <2> QED
    BY <1>1, <1>2, <1>4, <1>7, <2>1, <2>2, <2>3 DEF DataOK, OthersKept, RemovesKey
<1> QED
  BY <1>6, <1>7

-----------------------------------------------------------------------------
(* What a step does to the stack.                                          *)

\* A stack that differs from another only in frames of deleteRange() and in finished
\* writes describes the same unsets.
Alike(s, t) ==
  /\ t \in Seq(Frame)
  /\ \A f \in Elements(t) : f.op # "range" => f \in Elements(s)
  /\ {f \in Elements(t) : f.op = "unset"} = {f \in Elements(s) : f.op = "unset"}
  /\ Cardinality(Marked(t, "unset")) = Cardinality(Marked(s, "unset"))
  /\ \A sizes \in [Nat -> Nat] : Owed(t, sizes) = Owed(s, sizes)

LEMMA AlikePush ==
  ASSUME NEW s \in Seq(Frame), NEW f \in Frame, f.op = "range"
  PROVE  Alike(s, <<f>> \o s)
<1>1. <<f>> \o s \in Seq(Frame) /\ Elements(<<f>> \o s) = {f} \cup Elements(s)
  BY Push
<1>2. Cardinality(Marked(<<f>> \o s, "unset")) = Cardinality(Marked(s, "unset"))
  <2>1. Cardinality(Marked(<<f>> \o s, "unset")) = Cardinality(Marked(s, "unset")) + 0
    BY MarkedPush
  <2> QED
    BY <2>1, MarkedFinite
<1>3. ASSUME NEW sizes \in [Nat -> Nat] PROVE Owed(<<f>> \o s, sizes) = Owed(s, sizes)
  <2>1. Waits(f, sizes) = 0
    BY DEF Waits
  <2>2. Owed(s, sizes) \in Nat /\ Owed(<<f>> \o s, sizes) = Waits(f, sizes) + Owed(s, sizes)
    BY OwedPush
  <2> QED
    BY <2>1, <2>2
<1> QED
  BY <1>1, <1>2, <1>3 DEF Alike

LEMMA AlikePop ==
  ASSUME NEW s \in Seq(Frame), s # << >>, Head(s).op # "unset"
  PROVE  Alike(s, Tail(s))
<1>1. /\ Tail(s) \in Seq(Frame) /\ Head(s) \in Frame
      /\ Elements(s) = {Head(s)} \cup Elements(Tail(s))
  BY Pop
<1>2. Cardinality(Marked(s, "unset")) = Cardinality(Marked(Tail(s), "unset"))
  <2>1. Cardinality(Marked(s, "unset")) = Cardinality(Marked(Tail(s), "unset")) + 0
    BY MarkedPop
  <2>2. Cardinality(Marked(Tail(s), "unset")) \in Nat
    BY <1>1, MarkedFinite
  <2> QED
    BY <2>1, <2>2
<1>3. ASSUME NEW sizes \in [Nat -> Nat] PROVE Owed(Tail(s), sizes) = Owed(s, sizes)
  <2>1. Waits(Head(s), sizes) = 0
    BY DEF Waits
  <2> QED
    BY <2>1, OwedPop
<1> QED
  BY <1>1, <1>2, <1>3 DEF Alike

LEMMA AlikeSame == ASSUME NEW s \in Seq(Frame) PROVE Alike(s, s)
BY DEF Alike

LEMMA AlikeTrans ==
  ASSUME NEW s, NEW t, NEW u, Alike(s, t), Alike(t, u), u \in Seq(Frame)
  PROVE  Alike(s, u)
BY DEF Alike

\* After a step, the handlers on the stack are still described by their frames and the
\* same keys are being unset, as often.
StackKept == /\ stack' \in Seq(Frame) /\ FramesOK'
             /\ BeingUnset' = BeingUnset
             /\ Cardinality(UnsetFrames') = Cardinality(UnsetFrames)
             /\ \A sizes \in [Nat -> Nat] : Owed(stack', sizes) = Owed(stack, sizes)

LEMMA UnsetMarked == UnsetFrames = Marked(stack, "unset")
BY DEF UnsetFrames, Marked

LEMMA AlikeKept == ASSUME TypeInv, Alike(stack, stack'), type' = type PROVE StackKept
<1>1. \A f \in Elements(stack') : f.op # "range" => f \in Elements(stack)
  BY DEF Alike
<1>2. IntValued' <=> IntValued
  BY DEF IntValued
<1>3. FramesOK'
  BY <1>1, <1>2 DEF TypeInv, FramesOK
<1>4. BeingUnset' = BeingUnset
  <2>1. {f \in Elements(stack') : f.op = "unset"} = {f \in Elements(stack) : f.op = "unset"}
    BY DEF Alike
  <2>2. BeingUnset' = {f.key : f \in {g \in Elements(stack') : g.op = "unset"}}
    BY DEF BeingUnset, Elements
  <2> QED
    BY <2>1, <2>2, BeingUnsetKeys
<1>5. Cardinality(UnsetFrames') = Cardinality(UnsetFrames)
  <2>1. UnsetFrames' = Marked(stack', "unset")
    BY DEF UnsetFrames, Marked
  <2> QED
    BY <2>1, UnsetMarked DEF Alike
<1> QED
  BY <1>3, <1>4, <1>5 DEF StackKept, Alike

\* offsetSet() suspended by a cast.
LEMMA WriteFrameKept ==
  ASSUME TypeInv, IntValued, type' = type, NEW k \in Keys, NEW v \in Values,
         Suspend(At("write", k, v), stack)
  PROVE  StackKept
<1> DEFINE g == At("write", k, v)
<1>1. g \in Frame /\ g.op = "write" /\ g.key = k /\ g.arg = v
  BY AtFrame, Constants
<1>2. Suspend(g, stack)
  OBVIOUS
<1> HIDE DEF g
<1>3. stack' \in Seq(Frame) /\ Elements(stack') = {g} \cup Elements(stack)
  BY <1>1, <1>2, SuspendStep DEF TypeInv, TypeOK
<1>4. IntValued'
  BY DEF IntValued
<1>5. FramesOK'
  BY <1>1, <1>3, <1>4 DEF TypeInv, FramesOK
<1>6. BeingUnset' = BeingUnset
  <2>1. BeingUnset' = {f.key : f \in {h \in Elements(stack') : h.op = "unset"}}
    BY DEF BeingUnset, Elements
  <2> QED
    BY <1>1, <1>3, <2>1, BeingUnsetKeys
<1>7. Cardinality(UnsetFrames') = Cardinality(UnsetFrames)
  <2>1. UnsetFrames' = Marked(stack', "unset")
    BY DEF UnsetFrames, Marked
  <2>2. stack' = <<g>> \o stack /\ stack \in Seq(Frame)
    BY <1>2 DEF Suspend, TypeInv, TypeOK
  <2>3. Cardinality(Marked(stack', "unset")) = Cardinality(Marked(stack, "unset")) + 0
    BY <1>1, <2>2, MarkedPush
  <2> QED
    BY <2>1, <2>2, <2>3, MarkedFinite, UnsetMarked
<1>8. ASSUME NEW sizes \in [Nat -> Nat] PROVE Owed(stack', sizes) = Owed(stack, sizes)
  <2>1. stack' = <<g>> \o stack /\ stack \in Seq(Frame)
    BY <1>2 DEF Suspend, TypeInv, TypeOK
  <2>2. Waits(g, sizes) = 0
    BY <1>1 DEF Waits
  <2>3. /\ Owed(stack, sizes) \in Nat
        /\ Owed(<<g>> \o stack, sizes) = Waits(g, sizes) + Owed(stack, sizes)
    BY <1>1, <2>1, OwedPush
  <2> QED
    BY <2>1, <2>2, <2>3
<1> QED
  BY <1>3, <1>5, <1>6, <1>7, <1>8 DEF StackKept

-----------------------------------------------------------------------------
(* Type correctness, with failing deletes and unrestricted destructors.    *)

TypeKept == type' = type /\ mirror' = mirror

\* The stack describes handlers that can be suspended.
StackOK == stack' \in Seq(Frame) /\ FramesOK'

LEMMA UnlistStep ==
  ASSUME DataOK, NEW k \in Keys, NEW done \in BOOLEAN, Unlist(k, done)
  PROVE  /\ keyIndex' \in Slots
         /\ CountOut(k) \/ UNCHANGED <<counter, bytes>>
BY DEF Unlist, DataOK, Slots

LEMMA DataStep ==
  ASSUME DataOK, type' = type, NEW k \in Keys, NEW w \in Values \cup {ABSENT},
         SetSlot(k, w), keyIndex' \in Slots,
         CountIn(k) \/ CountOut(k) \/ UNCHANGED <<counter, bytes>>
  PROVE  DataOK'
<1>1. array' \in Slots /\ hsArray' \in Slots
  BY SetSlotStep
<1>2. counter' \in Int /\ bytes' \in Nat
  BY CountStep
<1> QED
  BY <1>1, <1>2 DEF DataOK

LEMMA StoreTypes ==
  ASSUME TypeInv, NEW k \in Keys, NEW v \in Values, Store(k, v)
  PROVE  DataOK' /\ TypeKept
<1>1. DataOK /\ TypeKept /\ type' = type
  BY DEF TypeInv, TypeOK, DataOK, Slots, Store, TypeKept
<1>2. CASE Inserted(k, v)
  <2>1. keyIndex' \in Slots
    <3>1. CASE ~KeyIndexed
      <4>1. ~Mirrors(k)
        BY <3>1, MirrorsType DEF TypeInv
      <4>2. keyIndex' = keyIndex
        BY <1>2, <3>1, <4>1, Zenon DEF Inserted
      <4> QED
        BY <1>1, <4>2 DEF DataOK
    <3>2. CASE KeyIndexed /\ Mirrors(k)
      <4>1. keyIndex' = [keyIndex EXCEPT ![k] = v]
        BY <1>2, <3>2, Zenon DEF Inserted
      <4> QED
        BY <1>1, <4>1 DEF DataOK, Slots
    <3>3. CASE KeyIndexed /\ ~Mirrors(k)
      <4>1. keyIndex' = [keyIndex EXCEPT ![k] = IF @ = ABSENT THEN 0 ELSE @]
        BY <1>2, <3>3, Zenon DEF Inserted
      <4> QED
        BY <1>1, <4>1, Constants DEF DataOK, Slots
    <3> QED
      BY <3>1, <3>2, <3>3
  <2>2. SetSlot(k, v) /\ (CountIn(k) \/ UNCHANGED <<counter, bytes>>)
    BY <1>2 DEF Inserted
  <2> QED
    BY <1>1, <2>1, <2>2, DataStep
<1>3. CASE ValueInsertFails(k)
  BY <1>1, <1>3 DEF ValueInsertFails, DataOK
<1>4. CASE IndexInsertFails(k)
  <2>1. SetSlot(k, ABSENT) /\ keyIndex' = keyIndex /\ UNCHANGED <<counter, bytes>>
    BY <1>4 DEF IndexInsertFails
  <2> QED
    BY <1>1, <2>1, DataStep DEF DataOK
<1> QED
  BY <1>1, <1>2, <1>3, <1>4 DEF Store

LEMMA TypeFromParts == ASSUME TypeInv, TypeKept, DataOK', StackOK PROVE TypeInv'
BY DEF TypeInv, TypeOK, TypeKept, DataOK, Slots, StackOK

LEMMA AlikeOK == ASSUME TypeInv, Alike(stack, stack'), TypeKept PROVE StackOK
BY AlikeKept DEF StackKept, StackOK, TypeKept

\* The removal of one key, in unset() of a word or in a turn of deleteRange(), when
\* either delete may have failed.
LEMMA RemovalTypes ==
  ASSUME TypeInv, TypeKept, NEW k \in Keys, NEW valueGone \in BOOLEAN, NEW done \in BOOLEAN,
         SetSlot(k, IF valueGone THEN ABSENT ELSE Slot(k)),
         IF KeyIndexed THEN Unlist(k, done)
           ELSE /\ UNCHANGED keyIndex
                /\ IF valueGone THEN CountOut(k) ELSE UNCHANGED <<counter, bytes>>
  PROVE  DataOK'
<1>1. DataOK /\ type' = type
  BY DEF TypeInv, TypeOK, DataOK, Slots, TypeKept
<1> DEFINE w == IF valueGone THEN ABSENT ELSE Slot(k)
<1>2. w \in Values \cup {ABSENT}
  BY <1>1 DEF Slot, DataOK, Slots
<1>3. keyIndex' \in Slots /\ (CountOut(k) \/ UNCHANGED <<counter, bytes>>)
  BY <1>1, UnlistStep DEF DataOK
<1>4. SetSlot(k, w)
  OBVIOUS
<1> HIDE DEF w
<1> QED
  BY <1>1, <1>2, <1>3, <1>4, DataStep

LEMMA RangeTurnTypes ==
  ASSUME TypeInv, NEW from \in Nat, NEW last \in Nat, NEW callers \in Seq(Frame),
         Alike(stack, callers), RangeTurn(from, last, callers)
  PROVE  TypeInv'
<1>1. CASE stack' = callers /\ UNCHANGED object
  <2>1. TypeKept /\ DataOK'
    BY <1>1 DEF object, TypeKept, TypeInv, TypeOK, DataOK, Slots
  <2> QED
    BY <1>1, <2>1, AlikeOK, TypeFromParts
<1>2. ASSUME NEW k \in InRange(from, last), NEW valueGone \in DeleteOutcomes,
             NEW indexGone \in DeleteOutcomes,
             SetSlot(k, IF valueGone THEN ABSENT ELSE Slot(k)),
             IF KeyIndexed THEN Unlist(k, indexGone)
               ELSE /\ UNCHANGED keyIndex
                    /\ IF valueGone THEN CountOut(k) ELSE UNCHANGED <<counter, bytes>>,
             Suspend([At("range", k + 1, last) EXCEPT
                        !.calls = (~IntValued /\ Stored(k) /\ valueGone)], callers),
             UNCHANGED <<type, mirror>>
      PROVE  TypeInv'
  <2>1. valueGone \in BOOLEAN /\ indexGone \in BOOLEAN
    BY DEF DeleteOutcomes
  <2>2. k \in Keys /\ k + 1 \in Nat
    BY Constants DEF InRange
  <2>3. TypeKept
    BY <1>2 DEF TypeKept
  <2>4. DataOK'
    BY <1>2, <2>1, <2>2, <2>3, RemovalTypes
  <2> DEFINE c == ~IntValued /\ Stored(k) /\ valueGone
             g == [At("range", k + 1, last) EXCEPT !.calls = c]
  <2>5. g \in Frame /\ g.op = "range"
    <3>1. c \in BOOLEAN
      OBVIOUS
    <3> HIDE DEF c
    <3> QED
      BY <2>2, <3>1, RangeFrame
  <2>6. stack' = <<g>> \o callers
    BY <1>2 DEF Suspend
  <2> HIDE DEF g
  <2>7. StackOK
    <3>1. Alike(callers, stack') /\ stack' \in Seq(Frame)
      BY <2>5, <2>6, AlikePush DEF Alike
    <3> QED
      BY <2>3, <3>1, AlikeTrans, AlikeOK
  <2> QED
    BY <2>3, <2>4, <2>7, TypeFromParts
<1> QED
  BY <1>1, <1>2 DEF RangeTurn

LEMMA TypeInit == Init => TypeInv
<1> SUFFICES ASSUME Init PROVE TypeInv
  OBVIOUS
<1>1. NoKeys \in Slots
  BY DEF NoKeys, Slots
<1>2. stack = << >> /\ Elements(stack) = {}
  BY NoElements DEF Init
<1>3. type \in Types /\ mirror \in BOOLEAN /\ (mirror => type \in MirrorTypes)
  <2>1. CASE type \in MirrorTypes
    BY <2>1 DEF Init
  <2>2. CASE type \notin MirrorTypes
    <3>1. mirror = FALSE /\ type \in Types
      BY <2>2 DEF Init
    <3>2. mirror \in BOOLEAN
      BY <3>1, Zenon
    <3> QED
      BY <3>1, <3>2
  <2> QED
    BY <2>1, <2>2
<1> QED
  BY <1>1, <1>2, <1>3 DEF Init, TypeInv, TypeOK, FramesOK, Slots

LEMMA TypeStep == TypeInv /\ [Next]_vars => TypeInv'
<1> SUFFICES ASSUME TypeInv, [Next]_vars PROVE TypeInv'
  OBVIOUS
<1>a. DataOK /\ stack \in Seq(Frame) /\ Alike(stack, stack)
  BY AlikeSame DEF TypeInv, TypeOK, DataOK, Slots
<1>b. ASSUME UNCHANGED object PROVE TypeKept /\ DataOK'
  BY <1>b DEF object, TypeKept, TypeInv, TypeOK, DataOK, Slots
<1>1. ASSUME NEW k \in Keys, NEW v \in Values, Write(k, v) PROVE TypeInv'
  <2>1. Store(k, v) /\ Alike(stack, stack')
    BY <1>1, <1>a DEF Write
  <2> QED
    BY <2>1, StoreTypes, AlikeOK, TypeFromParts
<1>2. ASSUME NEW k \in Keys, NEW v \in Values, WriteCasts(k, v) PROVE TypeInv'
  <2>1. IntValued /\ UNCHANGED object /\ Suspend(At("write", k, v), stack)
    BY <1>2 DEF WriteCasts
  <2>2. TypeKept /\ DataOK'
    BY <1>b, <2>1
  <2>3. StackOK
    BY <2>1, <2>2, WriteFrameKept DEF TypeKept, StackKept, StackOK
  <2> QED
    BY <2>2, <2>3, TypeFromParts
<1>3. ASSUME NEW k \in Keys, NEW v \in Values, Increment(k, v) PROVE TypeInv'
  <2> DEFINE n == (IF Stored(k) THEN Slot(k) ELSE 0) + v
             w == n % (WordMax + 1)
  <2>1. Store(k, w) /\ Alike(stack, stack')
    BY <1>3, <1>a DEF Increment
  <2>2. w \in Values
    <3>1. Slot(k) \in Values \cup {ABSENT}
      BY DEF Slot, TypeInv, TypeOK
    <3>2. (IF Stored(k) THEN Slot(k) ELSE 0) \in Nat
      BY <3>1, Constants DEF Stored
    <3>3. n \in Nat
      BY <3>2, Constants
    <3> HIDE DEF n
    <3>4. n % (WordMax + 1) \in 0 .. WordMax
      BY <3>3, WordAssumption
    <3> QED
      BY <3>4 DEF Values
  <2> HIDE DEF w
  <2> QED
    BY <2>1, <2>2, StoreTypes, AlikeOK, TypeFromParts
<1>4. ASSUME NEW k \in Keys, UnsetWord(k) PROVE TypeInv'
  <2>1. PICK valueGone \in DeleteOutcomes, indexGone \in DeleteOutcomes :
               /\ SetSlot(k, IF valueGone THEN ABSENT ELSE Slot(k))
               /\ IF KeyIndexed THEN Unlist(k, valueGone /\ indexGone)
                  ELSE /\ UNCHANGED keyIndex
                       /\ IF valueGone THEN CountOut(k) ELSE UNCHANGED <<counter, bytes>>
    BY <1>4 DEF UnsetWord
  <2> DEFINE done == valueGone /\ indexGone
  <2>2. valueGone \in BOOLEAN /\ done \in BOOLEAN
    BY DEF DeleteOutcomes
  <2>3. IF KeyIndexed THEN Unlist(k, done)
        ELSE /\ UNCHANGED keyIndex
             /\ IF valueGone THEN CountOut(k) ELSE UNCHANGED <<counter, bytes>>
    BY <2>1
  <2> HIDE DEF done
  <2>4. TypeKept /\ Alike(stack, stack')
    BY <1>4, <1>a DEF UnsetWord, TypeKept
  <2>5. DataOK'
    BY <2>1, <2>2, <2>3, <2>4, RemovalTypes
  <2> QED
    BY <2>4, <2>5, AlikeOK, TypeFromParts
<1>5. ASSUME NEW k \in Keys, UnsetZval(k) PROVE TypeInv'
  <2> DEFINE g == At("unset", k, 0)
  <2>1. /\ g \in Frame /\ g.op = "unset" /\ g.key = k
        /\ stack' = <<g>> \o stack
    BY <1>5, AtFrame, Constants DEF UnsetZval, Suspend
  <2> HIDE DEF g
  <2>2. /\ type' = type /\ TypeKept /\ ~IntValued /\ SetSlot(k, ABSENT)
        /\ keyIndex' = keyIndex /\ UNCHANGED <<counter, bytes>>
    BY <1>5 DEF UnsetZval, TypeKept
  <2>3. DataOK'
    BY <1>a, <2>2, DataStep DEF DataOK
  <2>4. stack' \in Seq(Frame) /\ Elements(stack') = {g} \cup Elements(stack)
    BY <1>a, <2>1, Push
  <2>5. ~IntValued'
    BY <2>2 DEF IntValued
  <2>6. StackOK
    BY <2>1, <2>2, <2>4, <2>5 DEF StackOK, TypeInv, FramesOK
  <2> QED
    BY <2>2, <2>3, <2>6, TypeFromParts
<1>6. ASSUME NEW from \in Keys, NEW last \in Keys, DeleteRange(from, last) PROVE TypeInv'
  BY <1>6, <1>a, Constants, RangeTurnTypes DEF DeleteRange
<1>7. CASE Free
  <2>1. /\ array' = NoKeys /\ hsArray' = NoKeys /\ keyIndex' = NoKeys
        /\ counter' = 0 /\ bytes' = 0 /\ TypeKept /\ stack' = stack
    BY <1>7 DEF Free, TypeKept
  <2>2. DataOK'
    BY <2>1 DEF DataOK, NoKeys, Slots
  <2>3. StackOK
    BY <1>a, <2>1, AlikeOK
  <2> QED
    BY <2>1, <2>2, <2>3, TypeFromParts
<1>8. CASE Clone
  <2>1. TypeKept /\ stack' = << >> /\ counter' = counter /\ bytes' = bytes
    BY <1>8 DEF Clone, TypeKept
  <2>2. array' \in Slots /\ hsArray' \in Slots
    BY <1>8, <1>a DEF Clone, DataOK, Slots
  <2>3. keyIndex' \in Slots
    <3> DEFINE W(l) == CASE ~KeyIndexed \/ l \notin Cloned -> ABSENT
                         [] KeyIndexed /\ l \in Cloned /\ Mirrors(l) -> Slot(l)
                         [] OTHER -> 0
    <3>1. keyIndex' = [l \in Keys |-> W(l)]
      BY <1>8 DEF Clone
    <3>2. ASSUME NEW l \in Keys PROVE W(l) \in Values \cup {ABSENT}
      <4>1. Slot(l) \in Values \cup {ABSENT}
        BY <1>a DEF Slot, DataOK, Slots
      <4>2. W(l) = ABSENT \/ W(l) = Slot(l) \/ W(l) = 0
        <5>1. CASE ~KeyIndexed \/ l \notin Cloned
          BY <5>1, Zenon
        <5>2. CASE KeyIndexed /\ l \in Cloned /\ Mirrors(l)
          BY <5>2, Zenon
        <5>3. CASE KeyIndexed /\ l \in Cloned /\ ~Mirrors(l)
          BY <5>3, Zenon
        <5> QED
          BY <5>1, <5>2, <5>3, Zenon
      <4> HIDE DEF W
      <4> QED
        BY <4>1, <4>2, Constants
    <3> HIDE DEF W
    <3> QED
      BY <3>1, <3>2 DEF Slots
  <2>4. DataOK'
    BY <1>a, <2>1, <2>2, <2>3 DEF DataOK
  <2>5. StackOK
    BY <2>1, NoElements DEF StackOK, FramesOK
  <2> QED
    BY <2>1, <2>4, <2>5, TypeFromParts
<1>9. CASE Resume
  <2> DEFINE f == Head(stack)
  <2>0. stack # << >>
    BY <1>9 DEF Resume
  <2>1. /\ f \in Frame /\ f \in Elements(stack) /\ Tail(stack) \in Seq(Frame)
        /\ Elements(Tail(stack)) \subseteq Elements(stack)
    BY <1>a, <2>0, Pop
  <2>2. ASSUME f.op # "unset" PROVE Alike(stack, Tail(stack))
    BY <1>a, <2>0, <2>2, AlikePop
  <2>3. CASE f.op = "write" /\ WriteResumes(f)
    <3>1. f.key \in Keys /\ f.arg \in Values
      BY <2>1, <2>3 DEF TypeInv, FramesOK
    <3>2. Store(f.key, f.arg) /\ Alike(stack, stack')
      BY <2>2, <2>3 DEF WriteResumes
    <3> QED
      BY <3>1, <3>2, StoreTypes, AlikeOK, TypeFromParts
  <2>4. CASE f.op = "unset" /\ UnsetResumes(f)
    <3>1. f.key \in Keys /\ stack' = Tail(stack) /\ TypeKept /\ type' = type
      BY <2>1, <2>4 DEF TypeInv, FramesOK, UnsetResumes, TypeKept
    <3>2. keyIndex' \in Slots /\ (CountOut(f.key) \/ UNCHANGED <<counter, bytes>>)
      BY <1>a, <2>4, <3>1, UnlistStep DEF UnsetResumes, DataOK
    <3>3. counter' \in Int /\ bytes' \in Nat
      BY <1>a, <3>1, <3>2, CountStep
    <3>4. DataOK'
      BY <1>a, <2>4, <3>2, <3>3 DEF UnsetResumes, DataOK
    <3>5. IntValued' <=> IntValued
      BY <3>1 DEF IntValued
    <3>6. StackOK
      BY <2>1, <3>1, <3>5 DEF StackOK, TypeInv, FramesOK
    <3> QED
      BY <3>1, <3>4, <3>6, TypeFromParts
  <2>5. CASE f.op = "range" /\ RangeResumes(f)
    <3>1. f.key \in Nat /\ f.arg \in Nat /\ RangeTurn(f.key, f.arg, Tail(stack))
      BY <2>1, <2>5 DEF Frame, RangeResumes
    <3>2. Alike(stack, Tail(stack))
      BY <2>2, <2>5
    <3> QED
      BY <2>1, <3>1, <3>2, RangeTurnTypes
  <2>6. f.op \in {"write", "unset", "range"}
    BY <2>1 DEF Frame
  <2> QED
    BY <1>9, <2>3, <2>4, <2>5, <2>6 DEF Resume
<1>10. CASE UNCHANGED vars
  <2>1. UNCHANGED object /\ stack' = stack
    BY <1>10 DEF vars, object
  <2>2. TypeKept /\ DataOK'
    BY <1>b, <2>1
  <2>3. StackOK
    BY <1>a, <2>1, <2>2, AlikeOK
  <2> QED
    BY <2>2, <2>3, TypeFromParts
<1> QED
  BY <1>1, <1>2, <1>3, <1>4, <1>5, <1>6, <1>7, <1>8, <1>9, <1>10 DEF Next

\* Every field and every suspended frame keeps its type on all seven types, whatever
\* fails and whatever destructors do.
THEOREM TypeCorrect == Spec => []TypeOK
<1>1. TypeInv => TypeOK
  BY DEF TypeInv
<1> QED
  BY <1>1, TypeInit, TypeStep, PTL DEF Spec

-----------------------------------------------------------------------------
(* What holds of the key_index without any assumption about deletes that   *)
(* fail or destructors that write the key being unset.                     *)

\* The words in the key_index: MirrorAgrees in a form that a step keeps.
WordsInv == KeyIndexed => \A k \in Keys : Listed(k) =>
              IF Mirrors(k) THEN Stored(k) => keyIndex[k] = Slot(k) ELSE keyIndex[k] = 0

\* The first half of IndexAgrees.
ListedIsStored == KeyIndexed => \A k \in Keys : Listed(k) => Stored(k) \/ k \in BeingUnset

\* What a step may do to a key of the key_index: leave it alone; take its value while its
\* word stays; unlist it; store it, with the word that belongs to it.
LeavesKey(k) == /\ Slot(k)' = Slot(k) /\ keyIndex'[k] = keyIndex[k]
                /\ k \in BeingUnset => k \in BeingUnset'
TakesValue(k) == /\ Slot(k)' = ABSENT /\ keyIndex'[k] = keyIndex[k]
                 /\ keyIndex[k] = ABSENT \/ k \in BeingUnset' \/ DeletesFail
Unlists(k) == keyIndex'[k] = ABSENT
StoresWord(k) == /\ Slot(k)' \in Values
                 /\ IF Mirrors(k) THEN keyIndex'[k] = Slot(k)' ELSE keyIndex'[k] \in {0, keyIndex[k]}

Moves(k) == LeavesKey(k) \/ TakesValue(k) \/ Unlists(k) \/ StoresWord(k)

\* Such steps keep the words right, and, if no delete fails, list no key without a value.
LEMMA MovesKeep ==
  ASSUME TypeInv, TypeKept, KeyIndexed => \A k \in Keys : Moves(k)
  PROVE  /\ WordsInv => WordsInv'
         /\ ~DeletesFail /\ ListedIsStored => ListedIsStored'
<1>1. /\ KeyIndexed' <=> KeyIndexed
      /\ \A k \in Keys : Mirrors(k)' <=> Mirrors(k)
  BY DEF TypeKept, KeyIndexed, Mirrors
<1>2. KeyIndexed => \A k \in Keys : /\ Listed(k) <=> keyIndex[k] # ABSENT
                                    /\ Listed(k)' <=> keyIndex'[k] # ABSENT
  BY <1>1 DEF Listed
<1>3. \A k \in Keys : (Stored(k) <=> Slot(k) # ABSENT) /\ (Stored(k)' <=> Slot(k)' # ABSENT)
  BY DEF Stored
<1>4. ASSUME WordsInv, KeyIndexed, NEW k \in Keys, Listed(k)'
      PROVE  IF Mirrors(k) THEN Stored(k)' => keyIndex'[k] = Slot(k)' ELSE keyIndex'[k] = 0
  <2>1. Moves(k) /\ keyIndex'[k] # ABSENT
    BY <1>2, <1>4
  <2>2. Listed(k) => IF Mirrors(k) THEN Stored(k) => keyIndex[k] = Slot(k) ELSE keyIndex[k] = 0
    BY <1>4 DEF WordsInv
  <2>3. CASE LeavesKey(k)
    BY <1>2, <1>3, <1>4, <2>1, <2>2, <2>3 DEF LeavesKey
  <2>4. CASE TakesValue(k)
    BY <1>2, <1>3, <1>4, <2>1, <2>2, <2>4 DEF TakesValue
  <2>5. CASE StoresWord(k)
    BY <1>2, <1>3, <1>4, <2>1, <2>2, <2>5 DEF StoresWord
  <2> QED
    BY <2>1, <2>3, <2>4, <2>5 DEF Moves, Unlists
<1>5. ASSUME ~DeletesFail, ListedIsStored, KeyIndexed, NEW k \in Keys, Listed(k)'
      PROVE  Stored(k)' \/ k \in BeingUnset'
  <2>1. Moves(k) /\ keyIndex'[k] # ABSENT
    BY <1>2, <1>5
  <2>2. Listed(k) => Stored(k) \/ k \in BeingUnset
    BY <1>5 DEF ListedIsStored
  <2> QED
    BY <1>2, <1>3, <1>5, <2>1, <2>2, Constants
       DEF Moves, LeavesKey, TakesValue, Unlists, StoresWord
<1> QED
  BY <1>1, <1>4, <1>5 DEF WordsInv, ListedIsStored

\* A handler that does not touch the object leaves every key alone.
LEMMA ObjectMoves ==
  ASSUME UNCHANGED object, BeingUnset' = BeingUnset
  PROVE  TypeKept /\ \A k \in Keys : Moves(k)
<1>1. UNCHANGED <<type, mirror, array, hsArray, keyIndex>>
  BY DEF object
<1> QED
  BY <1>1 DEF TypeKept, Moves, LeavesKey, Slot, InHsArray

\* A store, with or without memory.
LEMMA StoreMoves ==
  ASSUME TypeInv, KeyIndexed, BeingUnset' = BeingUnset, NEW k \in Keys, NEW v \in Values,
         Store(k, v)
  PROVE  \A l \in Keys : Moves(l)
<1>1. DataOK /\ type' = type
  BY DEF TypeInv, TypeOK, DataOK, Slots, Store
<1>2. CASE Inserted(k, v)
  <2>1. \A l \in Keys : Slot(l)' = IF l = k THEN v ELSE Slot(l)
    BY <1>1, <1>2, SetSlotStep DEF Inserted
  <2>2. CASE Mirrors(k)
    <3>1. keyIndex' = [keyIndex EXCEPT ![k] = v]
      BY <1>2, <2>2, Zenon DEF Inserted
    <3> QED
      BY <1>1, <2>1, <2>2, <3>1 DEF DataOK, Slots, Moves, LeavesKey, StoresWord
  <2>3. CASE ~Mirrors(k)
    <3>1. keyIndex' = [keyIndex EXCEPT ![k] = IF @ = ABSENT THEN 0 ELSE @]
      BY <1>2, <2>3, Zenon DEF Inserted
    <3> QED
      BY <1>1, <2>1, <2>3, <3>1 DEF DataOK, Slots, Moves, LeavesKey, StoresWord
  <2> QED
    BY <2>2, <2>3
<1>3. CASE ValueInsertFails(k)
  BY <1>1, <1>3 DEF ValueInsertFails, Moves, LeavesKey, Slot, InHsArray
<1>4. CASE IndexInsertFails(k)
  <2>1. /\ \A l \in Keys : Slot(l)' = IF l = k THEN ABSENT ELSE Slot(l)
        /\ keyIndex' = keyIndex /\ keyIndex[k] = ABSENT
    BY <1>1, <1>4, SetSlotStep DEF IndexInsertFails
  <2> QED
    BY <2>1 DEF Moves, LeavesKey, TakesValue
<1> QED
  BY <1>2, <1>3, <1>4 DEF Store

\* A removal, of whose two deletes either may fail.
LEMMA RemovalMoves ==
  ASSUME TypeInv, type' = type, BeingUnset' = BeingUnset, NEW k \in Keys,
         NEW valueGone \in DeleteOutcomes, NEW done \in BOOLEAN,
         done \/ DeletesFail,
         SetSlot(k, IF valueGone THEN ABSENT ELSE Slot(k)), Unlist(k, done)
  PROVE  \A l \in Keys : Moves(l)
<1>1. DataOK
  BY DEF TypeInv, TypeOK, DataOK, Slots
<1> DEFINE w == IF valueGone THEN ABSENT ELSE Slot(k)
<1>2. w \in Values \cup {ABSENT} /\ (w = ABSENT \/ w = Slot(k)) /\ SetSlot(k, w)
  BY <1>1 DEF Slot, DataOK, Slots
<1> HIDE DEF w
<1>3. \A l \in Keys : Slot(l)' = IF l = k THEN w ELSE Slot(l)
  BY <1>1, <1>2, SetSlotStep
<1>4. /\ \A l \in Keys \ {k} : keyIndex'[l] = keyIndex[l]
      /\ keyIndex'[k] = ABSENT \/ (keyIndex' = keyIndex /\ (keyIndex[k] = ABSENT \/ DeletesFail))
  BY <1>1 DEF Unlist, DataOK, Slots
<1>5. Moves(k)
  BY <1>2, <1>3, <1>4 DEF Moves, LeavesKey, TakesValue, Unlists
<1>6. ASSUME NEW l \in Keys \ {k} PROVE Moves(l)
  BY <1>3, <1>4 DEF Moves, LeavesKey
<1> QED
  BY <1>5, <1>6

\* A turn of deleteRange().
LEMMA RangeTurnMoves ==
  ASSUME TypeInv, KeyIndexed, NEW from \in Nat, NEW last \in Nat, NEW callers \in Seq(Frame),
         Alike(stack, callers), RangeTurn(from, last, callers)
  PROVE  \A l \in Keys : Moves(l)
<1>1. CASE stack' = callers /\ UNCHANGED object
  <2>1. BeingUnset' = BeingUnset
    BY <1>1, AlikeKept DEF object, StackKept
  <2> QED
    BY <1>1, <2>1, ObjectMoves
<1>2. ASSUME NEW k \in InRange(from, last), NEW valueGone \in DeleteOutcomes,
             NEW indexGone \in DeleteOutcomes,
             SetSlot(k, IF valueGone THEN ABSENT ELSE Slot(k)),
             IF KeyIndexed THEN Unlist(k, indexGone)
               ELSE /\ UNCHANGED keyIndex
                    /\ IF valueGone THEN CountOut(k) ELSE UNCHANGED <<counter, bytes>>,
             Suspend([At("range", k + 1, last) EXCEPT
                        !.calls = (~IntValued /\ Stored(k) /\ valueGone)], callers),
             UNCHANGED <<type, mirror>>
      PROVE  \A l \in Keys : Moves(l)
  <2>1. indexGone \in BOOLEAN /\ (indexGone \/ DeletesFail)
    BY DEF DeleteOutcomes
  <2>2. k \in Keys /\ k + 1 \in Nat
    BY Constants DEF InRange
  <2>3. type' = type /\ Unlist(k, indexGone)
    BY <1>2
  <2> DEFINE c == ~IntValued /\ Stored(k) /\ valueGone
             g == [At("range", k + 1, last) EXCEPT !.calls = c]
  <2>4. g \in Frame /\ g.op = "range"
    <3>1. c \in BOOLEAN
      OBVIOUS
    <3> HIDE DEF c
    <3> QED
      BY <2>2, <3>1, RangeFrame
  <2>5. stack' = <<g>> \o callers
    BY <1>2 DEF Suspend
  <2> HIDE DEF g
  <2>6. BeingUnset' = BeingUnset
    <3>1. Alike(callers, stack') /\ stack' \in Seq(Frame)
      BY <2>4, <2>5, AlikePush DEF Alike
    <3> QED
      BY <2>3, <3>1, AlikeTrans, AlikeKept DEF StackKept
  <2> QED
    BY <1>2, <2>1, <2>2, <2>3, <2>6, RemovalMoves
<1> QED
  BY <1>1, <1>2 DEF RangeTurn

\* The two halves of offsetUnset() of a zval: the value goes, and then the key_index entry.
LEMMA UnsetZvalMoves ==
  ASSUME TypeInv, NEW k \in Keys, UnsetZval(k)
  PROVE  \A l \in Keys : Moves(l)
<1> DEFINE g == At("unset", k, 0)
<1>1. g \in Frame /\ g.op = "unset" /\ g.key = k /\ stack' = <<g>> \o stack
  BY AtFrame, Constants DEF UnsetZval, Suspend
<1> HIDE DEF g
<1>2. Elements(stack') = {g} \cup Elements(stack)
  BY <1>1, Push DEF TypeInv, TypeOK
<1>3. BeingUnset' = BeingUnset \cup {k}
  <2>1. BeingUnset' = {f.key : f \in {h \in Elements(stack') : h.op = "unset"}}
    BY DEF BeingUnset, Elements
  <2> QED
    BY <1>1, <1>2, <2>1, BeingUnsetKeys
<1>4. DataOK /\ type' = type /\ keyIndex' = keyIndex /\ SetSlot(k, ABSENT)
  BY DEF TypeInv, TypeOK, DataOK, Slots, UnsetZval
<1>5. \A l \in Keys : Slot(l)' = IF l = k THEN ABSENT ELSE Slot(l)
  BY <1>4, SetSlotStep
<1> QED
  BY <1>3, <1>4, <1>5 DEF Moves, LeavesKey, TakesValue

LEMMA UnsetResumesMoves ==
  ASSUME TypeInv, KeyIndexed, stack # << >>, Head(stack).op = "unset", UnsetResumes(Head(stack))
  PROVE  \A l \in Keys : Moves(l)
<1> DEFINE f == Head(stack)
<1>1. /\ f \in Elements(stack) /\ stack' = Tail(stack)
      /\ Elements(stack) = {f} \cup Elements(stack')
  BY Pop DEF TypeInv, TypeOK, UnsetResumes
<1>2. f.key \in Keys
  BY <1>1 DEF TypeInv, FramesOK
<1>3. \A l \in BeingUnset : l # f.key => l \in BeingUnset'
  <2>1. BeingUnset' = {h.key : h \in {e \in Elements(stack') : e.op = "unset"}}
    BY DEF BeingUnset, Elements
  <2> QED
    BY <1>1, <2>1, BeingUnsetKeys
<1>4. Unlist(f.key, TRUE) /\ UNCHANGED <<type, array, hsArray>> /\ keyIndex \in Slots
  BY DEF UnsetResumes, TypeInv, TypeOK, Slots
<1> HIDE DEF f
<1>5. \A l \in Keys : Slot(l)' = Slot(l)
  BY <1>4 DEF Slot, InHsArray
<1>6. keyIndex'[f.key] = ABSENT /\ \A l \in Keys \ {f.key} : keyIndex'[l] = keyIndex[l]
  BY <1>2, <1>4 DEF Unlist, Slots
<1> QED
  BY <1>3, <1>5, <1>6 DEF Moves, LeavesKey, Unlists

\* A clone has the keys that are listed and stored.
LEMMA CloneMoves ==
  ASSUME TypeInv, KeyIndexed, Clone
  PROVE  \A l \in Keys : Moves(l)
<1> SUFFICES ASSUME NEW l \in Keys PROVE Moves(l)
  OBVIOUS
<1>1. type' = type /\ DataOK
  BY DEF Clone, TypeInv, TypeOK, DataOK, Slots
<1>2. keyIndex'[l] = CASE ~KeyIndexed \/ l \notin Cloned -> ABSENT
                       [] KeyIndexed /\ l \in Cloned /\ Mirrors(l) -> Slot(l)
                       [] OTHER -> 0
  BY DEF Clone
<1>3. CASE l \notin Cloned
  <2>1. keyIndex'[l] = ABSENT
    <3>1. ~KeyIndexed \/ l \notin Cloned
      BY <1>3
    <3>2. ~(KeyIndexed /\ l \in Cloned /\ Mirrors(l))
      BY <1>3
    <3> HIDE DEF Cloned
    <3> QED
      BY <1>2, <3>1, <3>2
  <2> QED
    BY <2>1 DEF Moves, Unlists
<1>4. CASE l \in Cloned
  <2>1. Slot(l)' = Slot(l)
    BY <1>1, <1>4 DEF Clone, Slot, InHsArray
  <2>2. Slot(l) \in Values
    BY <1>1, <1>4 DEF Cloned, Stored, Slot, DataOK, Slots
  <2>3. IF Mirrors(l) THEN keyIndex'[l] = Slot(l) ELSE keyIndex'[l] = 0
    BY <1>2, <1>4
  <2> QED
    BY <2>1, <2>2, <2>3 DEF Moves, StoresWord
<1> QED
  BY <1>3, <1>4

\* Every step of every handler moves the keys of the key_index in one of these ways.
LEMMA MovesStep ==
  ASSUME TypeInv, [Next]_vars
  PROVE  TypeKept /\ (KeyIndexed => \A k \in Keys : Moves(k))
<1>a. stack \in Seq(Frame) /\ Alike(stack, stack)
  BY AlikeSame DEF TypeInv, TypeOK
<1>b. ASSUME Alike(stack, stack'), type' = type PROVE BeingUnset' = BeingUnset
  BY <1>b, AlikeKept DEF StackKept
<1> DEFINE Goal == TypeKept /\ (KeyIndexed => \A k \in Keys : Moves(k))
<1>1. ASSUME NEW k \in Keys, NEW v \in Values, Store(k, v), Alike(stack, stack') PROVE Goal
  <2>1. TypeKept /\ type' = type
    BY <1>1, StoreTypes DEF TypeKept
  <2>2. BeingUnset' = BeingUnset
    BY <1>1, <1>b, <2>1
  <2> QED
    BY <1>1, <2>1, <2>2, StoreMoves
<1>2. ASSUME NEW k \in Keys, NEW v \in Values, Write(k, v) PROVE Goal
  BY <1>1, <1>2, <1>a DEF Write
<1>3. ASSUME NEW k \in Keys, NEW v \in Values, WriteCasts(k, v) PROVE Goal
  <2>1. UNCHANGED object /\ type' = type /\ IntValued /\ Suspend(At("write", k, v), stack)
    BY <1>3 DEF WriteCasts, object
  <2>2. BeingUnset' = BeingUnset
    BY <2>1, WriteFrameKept DEF StackKept
  <2> QED
    BY <2>1, <2>2, ObjectMoves
<1>4. ASSUME NEW k \in Keys, NEW v \in Values, Increment(k, v) PROVE Goal
  <2> DEFINE n == (IF Stored(k) THEN Slot(k) ELSE 0) + v
  <2>1. Store(k, n % (WordMax + 1)) /\ Alike(stack, stack')
    BY <1>4, <1>a DEF Increment
  <2>2. Slot(k) \in Values \cup {ABSENT}
    BY DEF Slot, TypeInv, TypeOK
  <2>3. n \in Nat
    <3>1. (IF Stored(k) THEN Slot(k) ELSE 0) \in Nat
      BY <2>2, Constants DEF Stored
    <3> QED
      BY <3>1, Constants
  <2> HIDE DEF n
  <2>4. n % (WordMax + 1) \in Values
    BY <2>3, WordAssumption DEF Values
  <2> QED
    BY <1>1, <2>1, <2>4
<1>5. ASSUME NEW k \in Keys, UnsetWord(k) PROVE Goal
  <2>1. PICK valueGone \in DeleteOutcomes, indexGone \in DeleteOutcomes :
               /\ SetSlot(k, IF valueGone THEN ABSENT ELSE Slot(k))
               /\ KeyIndexed => Unlist(k, valueGone /\ indexGone)
    BY <1>5 DEF UnsetWord
  <2> DEFINE done == valueGone /\ indexGone
  <2>2. done \in BOOLEAN /\ (done \/ DeletesFail)
    BY DEF DeleteOutcomes
  <2>3. SetSlot(k, IF valueGone THEN ABSENT ELSE Slot(k)) /\ (KeyIndexed => Unlist(k, done))
    BY <2>1
  <2> HIDE DEF done
  <2>4. TypeKept /\ type' = type /\ Alike(stack, stack')
    BY <1>5, <1>a DEF UnsetWord, TypeKept
  <2>5. BeingUnset' = BeingUnset
    BY <1>b, <2>4
  <2> QED
    BY <2>2, <2>3, <2>4, <2>5, RemovalMoves
<1>6. ASSUME NEW k \in Keys, UnsetZval(k) PROVE Goal
  BY <1>6, UnsetZvalMoves DEF UnsetZval, TypeKept
<1>7. ASSUME NEW from \in Nat, NEW last \in Nat, NEW callers \in Seq(Frame),
             Alike(stack, callers), RangeTurn(from, last, callers)
      PROVE  Goal
  <2>1. TypeKept
    BY <1>7 DEF RangeTurn, TypeKept, object
  <2> QED
    BY <1>7, <2>1, RangeTurnMoves
<1>8. ASSUME NEW from \in Keys, NEW last \in Keys, DeleteRange(from, last) PROVE Goal
  <2>1. from \in Nat /\ last \in Nat /\ RangeTurn(from, last, stack)
    BY <1>8, Constants DEF DeleteRange
  <2> QED
    BY <1>7, <1>a, <2>1
<1>9. CASE Free
  BY <1>9 DEF Free, TypeKept, NoKeys, Moves, Unlists
<1>10. CASE Clone
  BY <1>10, CloneMoves DEF Clone, TypeKept
<1>11. CASE Resume
  <2> DEFINE f == Head(stack)
  <2>0. stack # << >>
    BY <1>11 DEF Resume
  <2>1. f \in Frame /\ f \in Elements(stack) /\ Tail(stack) \in Seq(Frame)
    BY <1>a, <2>0, Pop
  <2>2. ASSUME f.op # "unset" PROVE Alike(stack, Tail(stack))
    BY <1>a, <2>0, <2>2, AlikePop
  <2>3. CASE f.op = "write" /\ WriteResumes(f)
    <3>1. f.key \in Keys /\ f.arg \in Values
      BY <2>1, <2>3 DEF TypeInv, FramesOK
    <3> QED
      BY <1>1, <2>2, <2>3, <3>1 DEF WriteResumes
  <2>4. CASE f.op = "unset" /\ UnsetResumes(f)
    BY <2>0, <2>4, UnsetResumesMoves DEF UnsetResumes, TypeKept
  <2>5. CASE f.op = "range" /\ RangeResumes(f)
    <3>1. f.key \in Nat /\ f.arg \in Nat /\ RangeTurn(f.key, f.arg, Tail(stack))
      BY <2>1, <2>5 DEF Frame, RangeResumes
    <3> QED
      BY <1>7, <2>1, <2>2, <2>5, <3>1
  <2>6. f.op \in {"write", "unset", "range"}
    BY <2>1 DEF Frame
  <2> QED
    BY <1>11, <2>3, <2>4, <2>5, <2>6 DEF Resume
<1>12. CASE UNCHANGED vars
  <2>1. UNCHANGED object /\ BeingUnset' = BeingUnset
    BY <1>12 DEF vars, object, BeingUnset
  <2> QED
    BY <2>1, ObjectMoves
<1> QED
  BY <1>2, <1>3, <1>4, <1>5, <1>6, <1>8, <1>9, <1>10, <1>11, <1>12 DEF Next

\* At first nothing is listed.
LEMMA MovesInit == Init => WordsInv /\ ListedIsStored
<1> SUFFICES ASSUME Init, KeyIndexed PROVE \A k \in Keys : ~Listed(k)
  BY DEF WordsInv, ListedIsStored
<1> QED
  BY DEF Init, NoKeys, Listed

\* Whatever fails and whatever destructors do, optimizeIteration's copy of a payload is
\* never stale, and where nothing is mirrored the key_index word is never anything but 0.
THEOREM MirrorSafe == Spec => []MirrorAgrees
<1>1. WordsInv => MirrorAgrees
  BY DEF WordsInv, MirrorAgrees
<1>2. TypeInv /\ WordsInv /\ [Next]_vars => TypeInv' /\ WordsInv'
  BY TypeStep, MovesStep, MovesKeep
<1> QED
  BY <1>1, <1>2, TypeInit, MovesInit, PTL DEF Spec

\* As long as no delete fails, a traversal lists no key without a value but those whose
\* offsetUnset() is not finished: also when destructors write the key being unset, which
\* makes the other half of IndexAgrees false.
THEOREM ListedSafe ==
  ASSUME ~DeletesFail
  PROVE  Spec => []ListedIsStored
<1>1. TypeInv /\ ListedIsStored /\ [Next]_vars => TypeInv' /\ ListedIsStored'
  BY TypeStep, MovesStep, MovesKeep
<1> QED
  BY <1>1, TypeInit, MovesInit, PTL DEF Spec

-----------------------------------------------------------------------------
(* The invariant, and the ways a step keeps it.                            *)

Inv == TypeInv /\ IndexInv /\ UnsetInv /\ CounterAgrees /\ BytesCounted

SlotBecomes(k, w) == \A l \in Keys : Slot(l)' = IF l = k THEN w ELSE Slot(l)
SlotsKept == \A l \in Keys : Slot(l)' = Slot(l)
SettledAlike == Leaving' = Leaving /\ Behind' = Behind

\* What a step does to the readers of the map: it stores under one key, removes one,
\* does nothing, or empties the object; and an unset begins, or count() follows one.
PutStep(k, w) == k \notin Leaving /\ SlotBecomes(k, w) /\ SettledAlike
RemoveStep(k) == SlotBecomes(k, ABSENT) /\ Leaving' = Leaving \ {k} /\ Behind' = Behind
IdleStep == SlotsKept /\ SettledAlike
UnsetStep(k) == /\ Stored(k) /\ SlotBecomes(k, ABSENT)
                /\ \/ Leaving' = Leaving \cup {k} /\ Behind' = Behind
                   \/ Leaving' = Leaving /\ Behind' = Behind + 1
CatchUpStep == SlotsKept /\ Leaving' = Leaving /\ Behind > 0 /\ Behind' = Behind - 1
ClearStep == (\A l \in Keys : Slot(l)' = ABSENT) /\ Leaving' = {} /\ Behind' = 0

MapStep == \/ \E k \in Keys, w \in Values : PutStep(k, w)
           \/ \E k \in Keys : RemoveStep(k) \/ UnsetStep(k)
           \/ IdleStep
           \/ CatchUpStep
           \/ ClearStep

LEMMA TypeInvKept == ASSUME TypeInv, TypeKept, DataOK', StackKept PROVE TypeInv'
BY DEF TypeInv, TypeOK, TypeKept, DataOK, Slots, StackKept

LEMMA ReadersKept ==
  ASSUME TypeKept
  PROVE  /\ KeyIndexed' <=> KeyIndexed
         /\ \A k \in Keys : Mirrors(k)' <=> Mirrors(k)
BY DEF TypeKept, KeyIndexed, Mirrors

\* No unset begins or is settled.
LEMMA BehindKept == ASSUME TypeKept, StackKept PROVE Behind' = Behind
<1>1. KeyIndexed' <=> KeyIndexed
  BY ReadersKept
<1>2. Cardinality(UnsetFrames') = Cardinality(UnsetFrames)
  BY DEF StackKept
<1>3. Behind' = IF KeyIndexed' THEN 0 ELSE Cardinality(UnsetFrames')
  BY DEF Behind
<1> QED
  BY <1>1, <1>2, <1>3 DEF Behind

\* A key is leaving when it is listed without a value; a step of one key changes no other.
LEMMA LeavingOthers ==
  ASSUME NEW k \in Keys, OthersKept(k)
  PROVE  \A l \in Keys \ {k} : l \in Leaving' <=> l \in Leaving
<1> SUFFICES ASSUME NEW l \in Keys \ {k} PROVE l \in Leaving' <=> l \in Leaving
  OBVIOUS
<1>1. Slot(l)' = Slot(l) /\ (Listed(l)' <=> Listed(l))
  BY DEF OthersKept
<1>2. Stored(l)' <=> Stored(l)
  BY <1>1 DEF Stored
<1>3. (l \in Leaving <=> (Listed(l) /\ ~Stored(l))) /\ (l \in Leaving' <=> (Listed(l)' /\ ~Stored(l)'))
  BY DEF Leaving
<1> QED
  BY <1>1, <1>2, <1>3

\* Only a key being unset is leaving, and only on types with a key_index.
LEMMA LeavingUnset ==
  ASSUME TypeInv, IndexInv
  PROVE  /\ Leaving \subseteq BeingUnset \cap Keys
         /\ ~KeyIndexed => Leaving = {}
<1>1. ASSUME NEW k \in Leaving PROVE k \in BeingUnset \cap Keys /\ KeyIndexed
  <2>1. k \in Keys /\ Listed(k) /\ ~Stored(k)
    BY DEF Leaving
  <2>2. KeyIndexed
    BY <2>1, PlainListed, TypesAssumption DEF TypeInv, TypeOK
  <2> QED
    BY <2>1, <2>2 DEF IndexInv
<1> QED
  BY <1>1

\* The counter follows the population when the unsets stay as they are.
LEMMA CounterKept ==
  ASSUME CounterAgrees, TypeKept, StackKept, stack \in Seq(Frame),
         counter' - counter = Cardinality(ListedKeys') - Cardinality(ListedKeys),
         counter \in Int, counter' \in Int,
         Cardinality(ListedKeys) \in Nat, Cardinality(ListedKeys') \in Nat
  PROVE  CounterAgrees'
<1> DEFINE u == Cardinality(UnsetFrames)
<1>1. u \in Nat
  BY UnsetMarked, MarkedFinite
<1>2. counter = Cardinality(ListedKeys) + (IF KeyIndexed THEN 0 ELSE u)
  BY DEF CounterAgrees, Behind, ListedKeys
<1>3. u' = u /\ (KeyIndexed' <=> KeyIndexed)
  BY ReadersKept DEF StackKept
<1> HIDE DEF u
<1>4. counter' = Cardinality(ListedKeys') + (IF KeyIndexed' THEN 0 ELSE u')
  BY <1>1, <1>2, <1>3
<1> QED
  BY <1>4 DEF CounterAgrees, Behind, ListedKeys, u

\* The total is never clamped when a key goes that is counted.
LEMMA LoweredIs ==
  ASSUME TypeInv, BytesCounted, NEW k \in Keys, Listed(k)
  PROVE  Lowered(k) = bytes - PayloadBytes(k)
<1>1. /\ Total(Sizes, ListedKeys) \in Nat
      /\ Total(Sizes, ListedKeys) >= PayloadBytes(k) /\ PayloadBytes(k) \in Nat
  BY ListedBytes, PayloadIsNat
<1>2. Owed(stack, Sizes) \in Nat
  BY OwedType DEF TypeInv, TypeOK
<1>3. bytes >= PayloadBytes(k) /\ bytes \in Nat
  BY <1>1, <1>2 DEF BytesCounted
<1> QED
  BY <1>1, <1>3 DEF Lowered

\* The payload total follows the listed payload when the unsets stay as they are.
LEMMA BytesKept ==
  ASSUME BytesCounted, TypeInv, TypeKept, StackKept, bytes' \in Nat,
         Total(Sizes, ListedKeys) \in Nat, Total(Sizes, ListedKeys') \in Nat,
         bytes' - bytes = Total(Sizes, ListedKeys') - Total(Sizes, ListedKeys)
  PROVE  BytesCounted'
<1>1. Sizes' = Sizes /\ (KeyIndexed' <=> KeyIndexed)
  BY SizesKept, ReadersKept DEF TypeKept
<1>2. Owed(stack', Sizes) = Owed(stack, Sizes) /\ Owed(stack, Sizes) \in Nat
  BY SizesType, OwedType DEF StackKept, TypeInv, TypeOK
<1>3. bytes = Total(Sizes, ListedKeys) + (IF KeyIndexed THEN 0 ELSE Owed(stack, Sizes))
  BY DEF BytesCounted
<1>4. bytes' = Total(Sizes, ListedKeys') + (IF KeyIndexed THEN 0 ELSE Owed(stack', Sizes))
  BY <1>2, <1>3
<1> QED
  BY <1>1, <1>4 DEF BytesCounted

LEMMA ListedCountPrimed ==
  /\ IsFiniteSet(ListedKeys') /\ Cardinality(ListedKeys') \in Nat
BY Constants, FS_Subset, FS_CardinalityType DEF ListedKeys

LEMMA StoreKeeps ==
  ASSUME Inv, NEW k \in Keys, NEW v \in Values, k \notin BeingUnset,
         DataOK', TypeKept, StackKept, OthersKept(k), StoresKey(k, v)
  PROVE  Inv' /\ MapStep
<1>1. TypeInv'
  BY TypeInvKept DEF Inv
<1>2. Listed(k)' /\ Stored(k)'
  <2>1. k \in ListedKeys'
    BY DEF StoresKey
  <2>2. Slot(k)' # ABSENT
    BY Constants DEF StoresKey
  <2> QED
    BY <2>1, <2>2 DEF ListedKeys, Stored
<1>3. IndexInv'
  <2> SUFFICES ASSUME KeyIndexed', NEW l \in Keys
               PROVE  /\ Stored(l)' => Listed(l)'
                      /\ Listed(l)' => Stored(l)' \/ l \in BeingUnset'
                      /\ Listed(l)' => keyIndex'[l] = IF Mirrors(l)' THEN Slot(l)' ELSE 0
    BY DEF IndexInv
  <2>1. KeyIndexed /\ (Mirrors(l)' <=> Mirrors(l)) /\ BeingUnset' = BeingUnset
    BY ReadersKept DEF StackKept
  <2>2. CASE l = k
    <3>1. keyIndex'[k] = IF Mirrors(k) THEN Slot(k)' ELSE 0
      BY <2>1 DEF StoresKey
    <3> QED
      BY <1>2, <2>1, <2>2, <3>1
  <2>3. CASE l # k
    <3>1. Slot(l)' = Slot(l) /\ keyIndex'[l] = keyIndex[l] /\ (Listed(l)' <=> Listed(l))
      BY <2>3 DEF OthersKept
    <3>2. Stored(l)' <=> Stored(l)
      BY <3>1 DEF Stored
    <3> QED
      BY <2>1, <3>1, <3>2 DEF Inv, IndexInv
  <2> QED
    BY <2>2, <2>3
<1>4. UnsetInv'
  <2> SUFFICES ASSUME NEW l \in BeingUnset PROVE ~Stored(l)'
    BY DEF UnsetInv, StackKept
  <2>1. l \in Keys \ {k}
    BY BeingUnsetKeys DEF Inv, TypeInv, FramesOK
  <2> QED
    BY <2>1 DEF OthersKept, Stored, Inv, UnsetInv
<1>5. CounterAgrees'
  <2>1. counter' = counter + (IF Listed(k) THEN 0 ELSE 1) /\ ListedKeys' = ListedKeys \cup {k}
    BY DEF StoresKey
  <2>2. /\ Cardinality(ListedKeys) \in Nat
        /\ Cardinality(ListedKeys') = Cardinality(ListedKeys) + (IF Listed(k) THEN 0 ELSE 1)
    BY <2>1, ListedCount
  <2>3. counter \in Int /\ stack \in Seq(Frame) /\ counter' \in Int
    BY DEF Inv, TypeInv, TypeOK, DataOK
  <2>4. /\ Cardinality(ListedKeys') \in Nat
        /\ counter' - counter = Cardinality(ListedKeys') - Cardinality(ListedKeys)
    BY <2>1, <2>2, <2>3, ListedCountPrimed
  <2> QED
    BY <2>2, <2>3, <2>4, CounterKept DEF Inv
<1>6. MapStep
  <2>1. SlotBecomes(k, v)
    BY DEF SlotBecomes, OthersKept, StoresKey
  <2>2. k \notin Leaving /\ k \notin Leaving'
    <3>1. k \notin Leaving'
      BY <1>2 DEF Leaving
    <3> QED
      BY <3>1, LeavingUnset DEF Inv
  <2>3. Leaving' = Leaving
    <3>1. Leaving \subseteq Keys /\ Leaving' \subseteq Keys
      BY DEF Leaving
    <3> QED
      BY <2>2, <3>1, LeavingOthers
  <2>4. PutStep(k, v)
    BY <2>1, <2>2, <2>3, BehindKept DEF PutStep, SettledAlike
  <2> QED
    BY <2>4 DEF MapStep
<1>7. BytesCounted'
  <2>1. /\ bytes' = bytes + (IF Listed(k) THEN 0 ELSE PayloadBytes(k))
        /\ ListedKeys' = ListedKeys \cup {k}
    BY DEF StoresKey
  <2>2. /\ Total(Sizes, ListedKeys) \in Nat
        /\ Total(Sizes, ListedKeys') =
             Total(Sizes, ListedKeys) + (IF Listed(k) THEN 0 ELSE PayloadBytes(k))
    BY <2>1, ListedBytes
  <2>3. bytes \in Nat /\ bytes' \in Nat /\ PayloadBytes(k) \in Nat
    BY PayloadIsNat DEF Inv, TypeInv, TypeOK, DataOK
  <2>4. /\ Total(Sizes, ListedKeys') \in Nat
        /\ bytes' - bytes = Total(Sizes, ListedKeys') - Total(Sizes, ListedKeys)
    BY <2>1, <2>2, <2>3
  <2> QED
    BY <2>2, <2>3, <2>4, BytesKept DEF Inv
<1> QED
  BY <1>1, <1>3, <1>4, <1>5, <1>6, <1>7 DEF Inv

LEMMA StutterKeeps ==
  ASSUME Inv, DataOK', TypeKept, StackKept, KeepsKeys
  PROVE  Inv' /\ MapStep
<1>1. TypeInv'
  BY TypeInvKept DEF Inv
<1>2. ASSUME NEW l \in Keys
      PROVE  /\ Stored(l)' <=> Stored(l)
             /\ Listed(l)' <=> Listed(l)
             /\ Slot(l)' = Slot(l)
  <2>1. Stored(l)' <=> Stored(l)
    BY DEF KeepsKeys, Stored
  <2>2. Listed(l)' <=> Listed(l)
    <3>1. (l \in ListedKeys' <=> Listed(l)') /\ (l \in ListedKeys <=> Listed(l))
      BY DEF ListedKeys
    <3> QED
      BY <3>1 DEF KeepsKeys
  <2>3. Slot(l)' = Slot(l)
    BY DEF KeepsKeys
  <2> QED
    BY <2>1, <2>2, <2>3
<1>3. IndexInv'
  <2> SUFFICES ASSUME KeyIndexed', NEW l \in Keys
               PROVE  /\ Stored(l)' => Listed(l)'
                      /\ Listed(l)' => Stored(l)' \/ l \in BeingUnset'
                      /\ Listed(l)' => keyIndex'[l] = IF Mirrors(l)' THEN Slot(l)' ELSE 0
    BY DEF IndexInv
  <2>1. KeyIndexed /\ (Mirrors(l)' <=> Mirrors(l)) /\ BeingUnset' = BeingUnset
    BY ReadersKept DEF StackKept
  <2>2. /\ Stored(l)' <=> Stored(l)
        /\ Listed(l)' <=> Listed(l)
        /\ Slot(l)' = Slot(l)
    BY <1>2
  <2>3. keyIndex'[l] = keyIndex[l]
    BY <2>1 DEF KeepsKeys
  <2> QED
    BY <2>1, <2>2, <2>3 DEF Inv, IndexInv
<1>4. UnsetInv'
  <2> SUFFICES ASSUME NEW l \in BeingUnset PROVE ~Stored(l)'
    BY DEF UnsetInv, StackKept
  <2>1. l \in Keys
    BY BeingUnsetKeys DEF Inv, TypeInv, FramesOK
  <2>2. Stored(l)' <=> Stored(l)
    BY <1>2, <2>1
  <2> QED
    BY <2>2 DEF Inv, UnsetInv
<1>5. CounterAgrees'
  <2>1. counter' = counter /\ ListedKeys' = ListedKeys
    BY DEF KeepsKeys
  <2>2. Cardinality(ListedKeys) \in Nat
    BY Constants, FS_Subset, FS_CardinalityType DEF ListedKeys
  <2> QED
    BY <2>1, <2>2, CounterKept DEF Inv, TypeInv, TypeOK
<1>6. BytesCounted'
  <2>1. bytes' = bytes /\ ListedKeys' = ListedKeys /\ bytes \in Nat
    BY DEF KeepsKeys, Inv, TypeInv, TypeOK
  <2>2. Total(Sizes, ListedKeys) \in Nat
    BY ListedBytesType
  <2> QED
    BY <2>1, <2>2, BytesKept DEF Inv
<1>7. MapStep
  <2>1. Leaving' = Leaving
    BY <1>2 DEF Leaving
  <2>2. IdleStep
    BY <2>1, BehindKept DEF IdleStep, SlotsKept, SettledAlike, KeepsKeys
  <2> QED
    BY <2>2 DEF MapStep
<1> QED
  BY <1>1, <1>3, <1>4, <1>5, <1>6, <1>7 DEF Inv

LEMMA RemovalKeeps ==
  ASSUME Inv, NEW k \in Keys, DataOK', TypeKept, StackKept, OthersKept(k), RemovesKey(k)
  PROVE  Inv' /\ MapStep
<1>1. TypeInv'
  BY TypeInvKept DEF Inv
<1>2. ~Listed(k)' /\ ~Stored(k)'
  <2>1. k \notin ListedKeys'
    BY DEF RemovesKey
  <2>2. Slot(k)' = ABSENT
    BY DEF RemovesKey
  <2> QED
    BY <2>1, <2>2 DEF ListedKeys, Stored
<1>3. IndexInv'
  <2> SUFFICES ASSUME KeyIndexed', NEW l \in Keys
               PROVE  /\ Stored(l)' => Listed(l)'
                      /\ Listed(l)' => Stored(l)' \/ l \in BeingUnset'
                      /\ Listed(l)' => keyIndex'[l] = IF Mirrors(l)' THEN Slot(l)' ELSE 0
    BY DEF IndexInv
  <2>1. KeyIndexed /\ (Mirrors(l)' <=> Mirrors(l)) /\ BeingUnset' = BeingUnset
    BY ReadersKept DEF StackKept
  <2>2. CASE l = k
    BY <1>2, <2>2
  <2>3. CASE l # k
    <3>1. Slot(l)' = Slot(l) /\ keyIndex'[l] = keyIndex[l] /\ (Listed(l)' <=> Listed(l))
      BY <2>3 DEF OthersKept
    <3>2. Stored(l)' <=> Stored(l)
      BY <3>1 DEF Stored
    <3> QED
      BY <2>1, <3>1, <3>2 DEF Inv, IndexInv
  <2> QED
    BY <2>2, <2>3
<1>4. UnsetInv'
  <2> SUFFICES ASSUME NEW l \in BeingUnset PROVE ~Stored(l)'
    BY DEF UnsetInv, StackKept
  <2>1. CASE l = k
    BY <1>2, <2>1
  <2>2. CASE l # k
    <3>1. l \in Keys \ {k}
      BY <2>2, BeingUnsetKeys DEF Inv, TypeInv, FramesOK
    <3> QED
      BY <3>1 DEF OthersKept, Stored, Inv, UnsetInv
  <2> QED
    BY <2>1, <2>2
<1>5. CounterAgrees'
  <2>1. counter' = counter - (IF Listed(k) THEN 1 ELSE 0) /\ ListedKeys' = ListedKeys \ {k}
    BY DEF RemovesKey
  <2>2. /\ Cardinality(ListedKeys) \in Nat
        /\ Cardinality(ListedKeys') = Cardinality(ListedKeys) - (IF Listed(k) THEN 1 ELSE 0)
    BY <2>1, ListedCount
  <2>3. counter \in Int /\ stack \in Seq(Frame) /\ counter' \in Int
    BY DEF Inv, TypeInv, TypeOK, DataOK
  <2>4. /\ Cardinality(ListedKeys') \in Nat
        /\ counter' - counter = Cardinality(ListedKeys') - Cardinality(ListedKeys)
    BY <2>1, <2>2, <2>3, ListedCountPrimed
  <2> QED
    BY <2>2, <2>3, <2>4, CounterKept DEF Inv
<1>6. MapStep
  <2>1. SlotBecomes(k, ABSENT)
    BY DEF SlotBecomes, OthersKept, RemovesKey
  <2>2. Leaving' = Leaving \ {k}
    <3>1. Leaving \subseteq Keys /\ Leaving' \subseteq Keys /\ k \notin Leaving'
      BY <1>2 DEF Leaving
    <3> QED
      BY <3>1, LeavingOthers
  <2>3. RemoveStep(k)
    BY <2>1, <2>2, BehindKept DEF RemoveStep
  <2> QED
    BY <2>3 DEF MapStep
<1>7. BytesCounted'
  <2>1. bytes' = (IF Listed(k) THEN Lowered(k) ELSE bytes) /\ ListedKeys' = ListedKeys \ {k}
    BY DEF RemovesKey
  <2>2. Total(Sizes, ListedKeys') =
          Total(Sizes, ListedKeys) - (IF Listed(k) THEN PayloadBytes(k) ELSE 0)
    BY <2>1, ListedBytes
  <2>3. bytes \in Nat /\ bytes' \in Nat
    BY DEF Inv, TypeInv, TypeOK, DataOK
  <2>4. bytes' = bytes - (IF Listed(k) THEN PayloadBytes(k) ELSE 0)
    BY <2>1, <2>3, LoweredIs DEF Inv
  <2>5. Total(Sizes, ListedKeys') \in Nat /\ Total(Sizes, ListedKeys) \in Nat
    <3>1. /\ Total(Sizes, ListedKeys) \in Nat /\ PayloadBytes(k) \in Nat
          /\ Listed(k) => Total(Sizes, ListedKeys) >= PayloadBytes(k)
      BY ListedBytes, PayloadIsNat
    <3> QED
      BY <2>2, <3>1
  <2>6. bytes' - bytes = Total(Sizes, ListedKeys') - Total(Sizes, ListedKeys)
    BY <2>2, <2>3, <2>4, <2>5, PayloadIsNat
  <2> QED
    BY <2>3, <2>5, <2>6, BytesKept DEF Inv
<1> QED
  BY <1>1, <1>3, <1>4, <1>5, <1>6, <1>7 DEF Inv

-----------------------------------------------------------------------------
(* What each operation does to the invariant, when deletes do not fail and *)
(* no destructor writes the key that is being unset.                       *)

Quiet == DeletesFail = FALSE /\ (OwnKeyReentry = FALSE \/ Types \subseteq IntTypes)

LEMMA QuietUnsets ==
  ASSUME Quiet, TypeInv
  PROVE  /\ \A k \in Keys : MayWrite(k) => k \notin BeingUnset
         /\ MayReplaceAll => BeingUnset = {}
<1>1. CASE OwnKeyReentry = FALSE
  BY <1>1 DEF MayWrite, MayReplaceAll
<1>2. CASE Types \subseteq IntTypes
  BY <1>2, NoWordUnset DEF TypeInv, TypeOK, IntValued
<1> QED
  BY <1>1, <1>2 DEF Quiet

LEMMA NoUnsets ==
  ASSUME BeingUnset = {}
  PROVE  Cardinality(UnsetFrames) = 0
<1>1. UnsetFrames = {}
  BY DEF BeingUnset, UnsetFrames
<1> QED
  BY <1>1, FS_EmptySet

LEMMA NoneOwed ==
  ASSUME BeingUnset = {}, stack \in Seq(Frame), NEW sizes
  PROVE  Owed(stack, sizes) = 0
<1>1. \A f \in Elements(stack) : f.op # "unset"
  BY BeingUnsetKeys
<1> QED
  BY <1>1, NothingOwed

LEMMA StackSame == ASSUME TypeInv, TypeKept, stack' = stack PROVE StackKept
BY AlikeSame, AlikeKept DEF TypeInv, TypeOK, TypeKept

LEMMA ObjectSame ==
  ASSUME TypeInv, UNCHANGED object
  PROVE  DataOK' /\ TypeKept /\ KeepsKeys
<1>1. DataOK' /\ TypeKept
  BY DEF object, TypeInv, TypeOK, DataOK, Slots, TypeKept
<1>2. KeepsKeys
  BY DEF object, KeepsKeys, ListedKeys, Listed, KeyIndexed, Slot, InHsArray
<1> QED
  BY <1>1, <1>2

LEMMA StoreActionKeeps ==
  ASSUME Inv, NEW k \in Keys, NEW v \in Values, k \notin BeingUnset, Store(k, v),
         Alike(stack, stack')
  PROVE  Inv' /\ MapStep
<1>1. /\ DataOK' /\ TypeKept
      /\ (OthersKept(k) /\ StoresKey(k, v)) \/ KeepsKeys
  BY StoreStep DEF Inv, TypeKept
<1>2. StackKept
  BY <1>1, AlikeKept DEF Inv, TypeKept
<1> QED
  BY <1>1, <1>2, StoreKeeps, StutterKeeps

LEMMA RangeTurnKeeps ==
  ASSUME Quiet, Inv, NEW from \in Nat, NEW last \in Nat, NEW callers \in Seq(Frame),
         Alike(stack, callers), RangeTurn(from, last, callers)
  PROVE  Inv' /\ MapStep
<1>1. CASE stack' = callers /\ UNCHANGED object
  <2>1. DataOK' /\ TypeKept /\ KeepsKeys
    BY <1>1, ObjectSame DEF Inv
  <2>2. StackKept
    BY <1>1, <2>1, AlikeKept DEF Inv, TypeKept
  <2> QED
    BY <2>1, <2>2, StutterKeeps
<1>2. ASSUME NEW k \in InRange(from, last), NEW valueGone \in DeleteOutcomes,
             NEW indexGone \in DeleteOutcomes,
             SetSlot(k, IF valueGone THEN ABSENT ELSE Slot(k)),
             IF KeyIndexed THEN Unlist(k, indexGone)
               ELSE /\ UNCHANGED keyIndex
                    /\ IF valueGone THEN CountOut(k) ELSE UNCHANGED <<counter, bytes>>,
             Suspend([At("range", k + 1, last) EXCEPT
                        !.calls = (~IntValued /\ Stored(k) /\ valueGone)], callers),
             UNCHANGED <<type, mirror>>
      PROVE  Inv' /\ MapStep
  <2>1. valueGone = TRUE /\ indexGone = TRUE
    BY DEF Quiet, DeleteOutcomes
  <2>2. k \in Keys /\ k \in Nat /\ Listed(k)
    BY Constants DEF InRange
  <2>3. SetSlot(k, ABSENT)
    BY <1>2, <2>1
  <2>4. IF KeyIndexed THEN Unlist(k, TRUE) ELSE CountOut(k) /\ UNCHANGED keyIndex
    BY <1>2, <2>1
  <2>5. TypeKept /\ type' = type /\ mirror' = mirror
    BY <1>2 DEF TypeKept
  <2>6. DataOK' /\ OthersKept(k) /\ RemovesKey(k)
    BY <2>2, <2>3, <2>4, <2>5, RemovedStep DEF Inv, Removed
  <2> DEFINE c == ~IntValued /\ Stored(k) /\ valueGone
             g == [At("range", k + 1, last) EXCEPT !.calls = c]
  <2>7. g \in Frame /\ g.op = "range"
    <3>1. c \in BOOLEAN
      OBVIOUS
    <3> HIDE DEF c
    <3>2. k + 1 \in Nat
      BY <2>2
    <3> QED
      BY <3>1, <3>2, RangeFrame
  <2>8. stack' = <<g>> \o callers
    BY <1>2 DEF Suspend
  <2> HIDE DEF g
  <2>9. StackKept
    <3>1. Alike(callers, stack') /\ stack' \in Seq(Frame)
      BY <2>7, <2>8, AlikePush DEF Alike
    <3> QED
      BY <2>5, <3>1, AlikeTrans, AlikeKept DEF Inv
  <2> QED
    BY <2>2, <2>5, <2>6, <2>9, RemovalKeeps
<1> QED
  BY <1>1, <1>2 DEF RangeTurn

\* offsetUnset() of a word.
LEMMA UnsetWordKeeps ==
  ASSUME Quiet, Inv, NEW k \in Keys, UnsetWord(k)
  PROVE  Inv' /\ MapStep
<1>1. PICK valueGone \in DeleteOutcomes, indexGone \in DeleteOutcomes :
             /\ SetSlot(k, IF valueGone THEN ABSENT ELSE Slot(k))
             /\ IF KeyIndexed THEN Unlist(k, valueGone /\ indexGone)
                ELSE /\ UNCHANGED keyIndex
                     /\ IF valueGone THEN CountOut(k) ELSE UNCHANGED <<counter, bytes>>
  BY DEF UnsetWord
<1>2. valueGone = TRUE /\ indexGone = TRUE
  BY DEF Quiet, DeleteOutcomes
<1>3. TypeKept /\ type' = type /\ mirror' = mirror /\ stack' = stack
  BY DEF UnsetWord, TypeKept
<1>4. SetSlot(k, ABSENT)
  BY <1>1, <1>2
<1>5. IF KeyIndexed THEN Unlist(k, TRUE) ELSE CountOut(k) /\ UNCHANGED keyIndex
  <2>1. (valueGone /\ indexGone) = TRUE
    BY <1>2
  <2> QED
    BY <1>1, <1>2, <2>1
<1>6. KeyIndexed \/ Listed(k)
  BY PlainListed, TypesAssumption DEF UnsetWord, Inv, TypeInv, TypeOK
<1>7. DataOK' /\ OthersKept(k) /\ RemovesKey(k)
  BY <1>3, <1>4, <1>5, <1>6, RemovedStep DEF Inv, Removed
<1>8. StackKept
  BY <1>3, StackSame DEF Inv
<1> QED
  BY <1>3, <1>7, <1>8, RemovalKeeps

\* offsetUnset() of a zval or an entry, up to the destructor.
LEMMA UnsetZvalKeeps ==
  ASSUME Inv, NEW k \in Keys, UnsetZval(k)
  PROVE  Inv' /\ MapStep
<1> DEFINE g == At("unset", k, 0)
<1>1. /\ g \in Frame /\ g.op = "unset" /\ g.key = k
      /\ stack' = <<g>> \o stack /\ stack \in Seq(Frame)
  BY AtFrame, Constants DEF UnsetZval, Suspend, Inv, TypeInv, TypeOK
<1> HIDE DEF g
<1>2. stack' \in Seq(Frame) /\ Elements(stack') = {g} \cup Elements(stack)
  BY <1>1, Push
<1>3. /\ DataOK /\ type' = type /\ mirror' = mirror /\ type \in StringTypes
      /\ keyIndex' = keyIndex /\ counter' = counter /\ bytes' = bytes
      /\ ~IntValued /\ Stored(k)
  BY TypesAssumption DEF UnsetZval, Inv, TypeInv, TypeOK, DataOK, Slots
<1>4. /\ array' \in Slots /\ hsArray' \in Slots
      /\ \A l \in Keys : Slot(l)' = IF l = k THEN ABSENT ELSE Slot(l)
      /\ \A l \in Keys \ {k} : array'[l] = array[l]
  BY <1>3, SetSlotStep DEF UnsetZval
<1>5. DataOK' /\ TypeKept
  BY <1>3, <1>4 DEF DataOK, TypeKept
<1>6. BeingUnset' = BeingUnset \cup {k}
  <2>1. BeingUnset' = {f.key : f \in {h \in Elements(stack') : h.op = "unset"}}
    BY DEF BeingUnset, Elements
  <2> QED
    BY <1>1, <1>2, <2>1, BeingUnsetKeys
<1>7. TypeInv'
  <2>1. ~IntValued'
    BY <1>3 DEF IntValued
  <2>2. FramesOK'
    BY <1>1, <1>2, <1>3, <2>1 DEF Inv, TypeInv, FramesOK
  <2> QED
    BY <1>2, <1>3, <1>4, <2>2 DEF Inv, TypeInv, TypeOK, DataOK, Slots
<1>8. IndexInv'
  <2> SUFFICES ASSUME KeyIndexed', NEW l \in Keys
               PROVE  /\ Stored(l)' => Listed(l)'
                      /\ Listed(l)' => Stored(l)' \/ l \in BeingUnset'
                      /\ Listed(l)' => keyIndex'[l] = IF Mirrors(l)' THEN Slot(l)' ELSE 0
    BY DEF IndexInv
  <2>1. KeyIndexed /\ ~Mirrors(l) /\ ~Mirrors(l)'
    BY <1>3, <1>5, ReadersKept, MirrorsType DEF Inv, TypeInv
  <2>2. Listed(l)' <=> Listed(l)
    BY <1>3, <2>1 DEF Listed
  <2>3. Slot(l)' = IF l = k THEN ABSENT ELSE Slot(l)
    BY <1>4
  <2>4. /\ Stored(l) => Listed(l)
        /\ Listed(l) => Stored(l) \/ l \in BeingUnset
        /\ Listed(l) => keyIndex[l] = 0
    BY <2>1 DEF Inv, IndexInv
  <2>5. (Stored(l)' <=> Slot(l)' # ABSENT) /\ (Stored(l) <=> Slot(l) # ABSENT)
    BY DEF Stored
  <2> QED
    BY <1>3, <1>6, <2>1, <2>2, <2>3, <2>4, <2>5
<1>9. UnsetInv'
  <2> SUFFICES ASSUME NEW l \in BeingUnset \cup {k} PROVE ~Stored(l)'
    BY <1>6 DEF UnsetInv
  <2>1. l \in Keys
    BY BeingUnsetKeys DEF Inv, TypeInv, FramesOK
  <2>2. Slot(l)' = IF l = k THEN ABSENT ELSE Slot(l)
    BY <1>4, <2>1
  <2>3. (Stored(l)' <=> Slot(l)' # ABSENT) /\ (Stored(l) <=> Slot(l) # ABSENT)
    BY DEF Stored
  <2>4. l # k => ~Stored(l)
    BY DEF Inv, UnsetInv
  <2> QED
    BY <2>2, <2>3, <2>4
<1>13. ASSUME ~KeyIndexed PROVE Listed(k) /\ ListedKeys' = ListedKeys \ {k}
  <2>1. Listed(k) /\ (KeyIndexed' <=> KeyIndexed)
    BY <1>3, <1>5, <1>13, PlainListed, ReadersKept
  <2>2. ASSUME NEW l \in Keys PROVE Listed(l)' <=> (Listed(l) /\ l # k)
    <3>1. ~InHsArray(l) /\ ~InHsArray(l)'
      BY <1>3, <1>13 DEF KeyIndexed, InHsArray
    <3>2. (Listed(l) <=> Slot(l) # ABSENT) /\ (Listed(l)' <=> Slot(l)' # ABSENT)
      BY <1>13, <2>1, <3>1 DEF Listed, Slot
    <3> QED
      BY <1>4, <3>2
  <2> QED
    BY <2>1, <2>2 DEF ListedKeys
<1>10. CounterAgrees'
  <2>1. Cardinality(UnsetFrames') = Cardinality(UnsetFrames) + 1 /\ Cardinality(UnsetFrames) \in Nat
    <3>1. UnsetFrames' = Marked(stack', "unset")
      BY DEF UnsetFrames, Marked
    <3>2. Cardinality(Marked(stack', "unset")) = Cardinality(Marked(stack, "unset")) + 1
      BY <1>1, MarkedPush
    <3>3. Cardinality(Marked(stack, "unset")) \in Nat
      BY <1>1, MarkedFinite
    <3> QED
      BY <3>1, <3>2, <3>3, UnsetMarked
  <2>2. counter = Cardinality(ListedKeys) + (IF KeyIndexed THEN 0 ELSE Cardinality(UnsetFrames))
    BY DEF Inv, CounterAgrees, Behind, ListedKeys
  <2>3. KeyIndexed' <=> KeyIndexed
    BY <1>5, ReadersKept
  <2>4. CASE KeyIndexed
    <3>1. ListedKeys' = ListedKeys
      BY <1>3, <2>3, <2>4 DEF ListedKeys, Listed
    <3>2. counter' = Cardinality(ListedKeys') + 0
      BY <1>3, <2>2, <2>4, <3>1
    <3> QED
      BY <2>3, <2>4, <3>2 DEF CounterAgrees, Behind, ListedKeys
  <2>5. CASE ~KeyIndexed
    <3>1. Listed(k) /\ ListedKeys' = ListedKeys \ {k}
      BY <1>13, <2>5
    <3>4. /\ Cardinality(ListedKeys) \in Nat
          /\ Cardinality(ListedKeys') = Cardinality(ListedKeys) - (IF Listed(k) THEN 1 ELSE 0)
      BY <3>1, ListedCount
    <3>5. counter' = Cardinality(ListedKeys') + Cardinality(UnsetFrames')
      BY <1>3, <2>1, <2>2, <2>5, <3>1, <3>4
    <3> QED
      BY <2>3, <2>5, <3>5 DEF CounterAgrees, Behind, ListedKeys
  <2> QED
    BY <2>4, <2>5
<1>11. MapStep
  <2>1. Stored(k) /\ SlotBecomes(k, ABSENT)
    BY <1>3, <1>4 DEF SlotBecomes
  <2>2. KeyIndexed' <=> KeyIndexed
    BY <1>5, ReadersKept
  <2>3. CASE KeyIndexed
    <3>1. Behind' = Behind
      BY <2>2, <2>3 DEF Behind
    <3>2. ASSUME NEW l \in Keys PROVE l \in Leaving' <=> l \in Leaving \cup {k}
      <4>1. Listed(l)' <=> Listed(l)
        BY <1>3, <2>2, <2>3 DEF Listed
      <4>2. Stored(l)' <=> (Stored(l) /\ l # k)
        BY <1>4 DEF Stored
      <4>3. Listed(k)
        BY <1>3, <2>3 DEF Inv, IndexInv
      <4>4. (l \in Leaving <=> (Listed(l) /\ ~Stored(l))) /\ (l \in Leaving' <=> (Listed(l)' /\ ~Stored(l)'))
        BY DEF Leaving
      <4> QED
        BY <4>1, <4>2, <4>3, <4>4
    <3>3. Leaving \subseteq Keys /\ Leaving' \subseteq Keys
      BY DEF Leaving
    <3>4. Leaving' = Leaving \cup {k}
      BY <3>2, <3>3
    <3> QED
      BY <2>1, <3>1, <3>4 DEF UnsetStep, MapStep
  <2>4. CASE ~KeyIndexed
    <3>1. Leaving = {}
      BY <2>4, LeavingUnset DEF Inv
    <3>2. Leaving' = {}
      <4>1. (TypeInv /\ IndexInv => (~KeyIndexed => Leaving = {}))'
        BY LeavingUnset, PTL
      <4> QED
        BY <1>7, <1>8, <2>2, <2>4, <4>1
    <3>3. Behind' = Behind + 1
      <4>1. Cardinality(UnsetFrames') = Cardinality(UnsetFrames) + 1
        <5>1. UnsetFrames' = Marked(stack', "unset")
          BY DEF UnsetFrames, Marked
        <5>2. Cardinality(Marked(stack', "unset")) = Cardinality(Marked(stack, "unset")) + 1
          BY <1>1, MarkedPush
        <5> QED
          BY <5>1, <5>2, UnsetMarked
      <4>2. Behind' = IF KeyIndexed' THEN 0 ELSE Cardinality(UnsetFrames')
        BY DEF Behind
      <4> QED
        BY <2>2, <2>4, <4>1, <4>2 DEF Behind
    <3> QED
      BY <2>1, <3>1, <3>2, <3>3 DEF UnsetStep, MapStep
  <2> QED
    BY <2>3, <2>4
<1>12. BytesCounted'
  <2>1. /\ Owed(stack', Sizes) = PayloadBytes(k) + Owed(stack, Sizes)
        /\ Owed(stack, Sizes) \in Nat /\ PayloadBytes(k) \in Nat
    <3>1. Waits(g, Sizes) = PayloadBytes(k)
      BY <1>1, SizesType DEF Waits
    <3>2. /\ Owed(stack, Sizes) \in Nat
          /\ Owed(<<g>> \o stack, Sizes) = Waits(g, Sizes) + Owed(stack, Sizes)
      BY <1>1, SizesType, OwedPush
    <3> QED
      BY <1>1, <3>1, <3>2, PayloadIsNat
  <2>2. Sizes' = Sizes /\ (KeyIndexed' <=> KeyIndexed)
    BY <1>3, <1>5, SizesKept, ReadersKept
  <2>3. bytes = Total(Sizes, ListedKeys) + (IF KeyIndexed THEN 0 ELSE Owed(stack, Sizes))
    BY DEF Inv, BytesCounted
  <2>4. bytes' = Total(Sizes, ListedKeys') + (IF KeyIndexed THEN 0 ELSE Owed(stack', Sizes))
    <3>1. CASE KeyIndexed
      <4>1. ListedKeys' = ListedKeys
        BY <1>3, <2>2, <3>1 DEF ListedKeys, Listed
      <4> QED
        BY <1>3, <2>3, <3>1, <4>1
    <3>2. CASE ~KeyIndexed
      <4>1. Listed(k) /\ ListedKeys' = ListedKeys \ {k}
        BY <1>13, <3>2
      <4>2. /\ Total(Sizes, ListedKeys) \in Nat
            /\ Total(Sizes, ListedKeys') = Total(Sizes, ListedKeys) - PayloadBytes(k)
        BY <4>1, ListedBytes
      <4> QED
        BY <1>3, <2>1, <2>3, <3>2, <4>2
    <3> QED
      BY <3>1, <3>2
  <2> QED
    BY <2>2, <2>4 DEF BytesCounted
<1> QED
  BY <1>7, <1>8, <1>9, <1>10, <1>11, <1>12 DEF Inv

\* The rest of it, after the destructor has returned.
LEMMA UnsetResumesKeeps ==
  ASSUME Inv, stack # << >>, NEW f, f = Head(stack), f.op = "unset", UnsetResumes(f)
  PROVE  Inv' /\ MapStep
<1> DEFINE k == f.key
<1>1. /\ f \in Frame /\ f \in Elements(stack) /\ stack' = Tail(stack)
      /\ stack \in Seq(Frame) /\ stack' \in Seq(Frame)
      /\ Elements(stack) = {f} \cup Elements(stack')
  <2>1. stack' = Tail(stack)
    BY DEF UnsetResumes
  <2> QED
    BY <2>1, Pop DEF Inv, TypeInv, TypeOK
<1>2. k \in Keys /\ ~IntValued /\ k \in BeingUnset
  BY <1>1, BeingUnsetKeys DEF Inv, TypeInv, FramesOK
<1> HIDE DEF k
<1>3. /\ DataOK /\ type' = type /\ mirror' = mirror /\ type \in StringTypes
      /\ array' = array /\ hsArray' = hsArray
  BY TypesAssumption DEF UnsetResumes, Inv, TypeInv, TypeOK, DataOK, Slots
<1>4. TypeKept /\ (KeyIndexed' <=> KeyIndexed)
  BY <1>3, ReadersKept DEF TypeKept
<1>5. Slot(k) = ABSENT
  BY <1>2 DEF Inv, UnsetInv, Stored
<1>6. ASSUME NEW l \in Keys PROVE Slot(l)' = Slot(l) /\ (Stored(l)' <=> Stored(l))
  BY <1>3 DEF Slot, InHsArray, Stored
<1>7. BeingUnset' \subseteq BeingUnset /\ BeingUnset \subseteq BeingUnset' \cup {k}
  <2>1. BeingUnset' = {h.key : h \in {g \in Elements(stack') : g.op = "unset"}}
    BY DEF BeingUnset, Elements
  <2> QED
    BY <1>1, <2>1, BeingUnsetKeys DEF k
<1>8. FramesOK'
  <2>1. IntValued' <=> IntValued
    BY <1>3 DEF IntValued
  <2> QED
    BY <1>1, <2>1 DEF Inv, TypeInv, FramesOK
<1>9. UnsetInv'
  <2> SUFFICES ASSUME NEW l \in BeingUnset' PROVE ~Stored(l)'
    BY DEF UnsetInv
  <2>1. l \in BeingUnset /\ l \in Keys
    BY <1>7, BeingUnsetKeys DEF Inv, TypeInv, FramesOK
  <2> QED
    BY <1>6, <2>1 DEF Inv, UnsetInv
<1>10. /\ Cardinality(UnsetFrames) = Cardinality(UnsetFrames') + 1
       /\ Cardinality(UnsetFrames') \in Nat
  <2>1. UnsetFrames' = Marked(stack', "unset")
    BY DEF UnsetFrames, Marked
  <2>2. Cardinality(Marked(stack, "unset")) = Cardinality(Marked(stack', "unset")) + 1
    BY <1>1, MarkedPop
  <2>3. Cardinality(Marked(stack', "unset")) \in Nat
    BY <1>1, MarkedFinite
  <2> QED
    BY <2>1, <2>2, <2>3, UnsetMarked
<1>11. counter = Cardinality(ListedKeys) + (IF KeyIndexed THEN 0 ELSE Cardinality(UnsetFrames))
  BY DEF Inv, CounterAgrees, Behind, ListedKeys
<1>12. SlotsKept /\ SlotBecomes(k, ABSENT)
  BY <1>5, <1>6 DEF SlotsKept, SlotBecomes
<1>13. CASE KeyIndexed
  <2>1. SetSlot(k, ABSENT)
    BY <1>3, <1>5 DEF SetSlot, Slot, DataOK, Slots
  <2>2. Removed(k)
    BY <1>3, <1>13, <2>1 DEF Removed, UnsetResumes, k
  <2>3. DataOK' /\ OthersKept(k) /\ RemovesKey(k)
    BY <1>2, <1>13, <2>2, RemovedStep DEF Inv
  <2>4. TypeInv'
    BY <1>1, <1>3, <1>8, <2>3 DEF Inv, TypeInv, TypeOK, DataOK, Slots
  <2>5. IndexInv'
    <3> SUFFICES ASSUME NEW l \in Keys
                 PROVE  /\ Stored(l)' => Listed(l)'
                        /\ Listed(l)' => Stored(l)' \/ l \in BeingUnset'
                        /\ Listed(l)' => keyIndex'[l] = IF Mirrors(l)' THEN Slot(l)' ELSE 0
      BY DEF IndexInv
    <3>1. (Stored(l)' <=> Stored(l)) /\ Slot(l)' = Slot(l) /\ (Mirrors(l)' <=> Mirrors(l))
      BY <1>4, <1>6, ReadersKept
    <3>2. CASE l = k
      <4>1. ~Listed(k)'
        <5>1. k \notin ListedKeys'
          BY <2>3 DEF RemovesKey
        <5> QED
          BY <1>2, <5>1 DEF ListedKeys
      <4>2. ~Stored(k)
        BY <1>5 DEF Stored
      <4> QED
        BY <3>1, <3>2, <4>1, <4>2
    <3>3. CASE l # k
      <4>1. keyIndex'[l] = keyIndex[l] /\ (Listed(l)' <=> Listed(l))
        BY <2>3, <3>3 DEF OthersKept
      <4> QED
        BY <1>7, <1>13, <3>1, <3>3, <4>1 DEF Inv, IndexInv
    <3> QED
      BY <3>2, <3>3
  <2>6. CounterAgrees'
    <3>1. counter' = counter - (IF Listed(k) THEN 1 ELSE 0) /\ ListedKeys' = ListedKeys \ {k}
      BY <2>3 DEF RemovesKey
    <3>2. /\ Cardinality(ListedKeys) \in Nat
          /\ Cardinality(ListedKeys') = Cardinality(ListedKeys) - (IF Listed(k) THEN 1 ELSE 0)
      BY <1>2, <3>1, ListedCount
    <3>3. counter' = Cardinality(ListedKeys') + 0
      BY <1>11, <1>13, <3>1, <3>2
    <3> QED
      BY <1>4, <1>13, <3>3 DEF CounterAgrees, Behind, ListedKeys
  <2>7. BytesCounted'
    <3>1. bytes' = (IF Listed(k) THEN Lowered(k) ELSE bytes) /\ ListedKeys' = ListedKeys \ {k}
      BY <2>3 DEF RemovesKey
    <3>2. Total(Sizes, ListedKeys') =
            Total(Sizes, ListedKeys) - (IF Listed(k) THEN PayloadBytes(k) ELSE 0)
          /\ Total(Sizes, ListedKeys) \in Nat
      BY <1>2, <3>1, ListedBytes
    <3>3. bytes = Total(Sizes, ListedKeys) /\ (Listed(k) => Lowered(k) = bytes - PayloadBytes(k))
      BY <1>2, <1>13, <3>2, LoweredIs DEF Inv, BytesCounted
    <3>4. bytes' = Total(Sizes, ListedKeys') + 0
      BY <1>2, <3>1, <3>2, <3>3, PayloadIsNat
    <3> QED
      BY <1>3, <1>4, <1>13, <3>4, SizesKept DEF BytesCounted
  <2>8. MapStep
    <3>1. Behind' = Behind
      BY <1>4, <1>13 DEF Behind
    <3>2. k \notin Leaving'
      BY <2>3 DEF RemovesKey, ListedKeys, Leaving
    <3>3. Leaving \subseteq Keys /\ Leaving' \subseteq Keys
      BY DEF Leaving
    <3>4. Leaving' = Leaving \ {k}
      BY <1>2, <2>3, <3>2, <3>3, LeavingOthers
    <3> QED
      BY <1>2, <1>12, <3>1, <3>4 DEF RemoveStep, MapStep
  <2> QED
    BY <1>9, <2>4, <2>5, <2>6, <2>7, <2>8 DEF Inv
<1>14. CASE ~KeyIndexed
  <2>1. keyIndex' = keyIndex /\ counter' = counter - 1 /\ CountOut(k)
    BY <1>14 DEF UnsetResumes, CountOut, k
  <2>2. counter' \in Int /\ bytes' \in Nat
    BY <1>2, <1>3, <2>1, CountStep
  <2>3. TypeInv'
    BY <1>1, <1>3, <1>8, <2>1, <2>2 DEF Inv, TypeInv, TypeOK
  <2>4. ListedKeys' = ListedKeys
    BY <1>3, <1>4, <1>14 DEF ListedKeys, Listed
  <2>5. Cardinality(ListedKeys) \in Nat
    BY Constants, FS_Subset, FS_CardinalityType DEF ListedKeys
  <2>6. counter' = Cardinality(ListedKeys') + Cardinality(UnsetFrames')
    BY <1>10, <1>11, <1>14, <2>1, <2>4, <2>5
  <2>7. CounterAgrees'
    BY <1>4, <1>14, <2>6 DEF CounterAgrees, Behind, ListedKeys
  <2>8. IndexInv'
    BY <1>4, <1>14 DEF IndexInv
  <2>9. BytesCounted'
    <3>1. /\ Owed(stack, Sizes) = PayloadBytes(k) + Owed(stack', Sizes)
          /\ Owed(stack', Sizes) \in Nat
      <4>1. Waits(f, Sizes) = PayloadBytes(k)
        BY <1>2, SizesType DEF Waits, k
      <4> QED
        BY <1>1, <4>1, SizesType, OwedPop
    <3>2. bytes = Total(Sizes, ListedKeys) + Owed(stack, Sizes)
      BY <1>14 DEF Inv, BytesCounted
    <3>3. Total(Sizes, ListedKeys) \in Nat /\ PayloadBytes(k) \in Nat
      BY <1>2, ListedBytesType, PayloadIsNat
    <3>4. bytes' = Total(Sizes, ListedKeys') + Owed(stack', Sizes)
      BY <2>1, <2>4, <3>1, <3>2, <3>3 DEF CountOut
    <3> QED
      BY <1>3, <1>4, <1>14, <3>4, SizesKept DEF BytesCounted
  <2>10. MapStep
    <3>1. Leaving' = Leaving
      <4>1. ASSUME NEW l \in Keys PROVE Listed(l)' <=> Listed(l)
        BY <1>3, <1>4, <1>14 DEF Listed
      <4> QED
        BY <1>6, <4>1 DEF Leaving
    <3>2. Behind > 0 /\ Behind' = Behind - 1
      <4>1. Behind' = IF KeyIndexed' THEN 0 ELSE Cardinality(UnsetFrames')
        BY DEF Behind
      <4> QED
        BY <1>4, <1>10, <1>14, <4>1 DEF Behind
    <3> QED
      BY <1>12, <3>1, <3>2 DEF CatchUpStep, MapStep
  <2> QED
    BY <1>9, <2>3, <2>7, <2>8, <2>9, <2>10 DEF Inv
<1> QED
  BY <1>13, <1>14

\* free() and clone().
LEMMA FreeKeeps ==
  ASSUME Quiet, Inv, Free
  PROVE  Inv' /\ MapStep
<1>1. /\ array' = NoKeys /\ hsArray' = NoKeys /\ keyIndex' = NoKeys
      /\ counter' = 0 /\ bytes' = 0 /\ type' = type /\ mirror' = mirror /\ stack' = stack
      /\ BeingUnset = {}
  BY QuietUnsets DEF Free, Inv
<1>2. NoKeys \in Slots /\ \A l \in Keys : NoKeys[l] = ABSENT
  BY DEF NoKeys, Slots
<1>3. ASSUME NEW l \in Keys PROVE Slot(l)' = ABSENT /\ ~Listed(l)' /\ ~Stored(l)'
  <2>1. array'[l] = ABSENT /\ hsArray'[l] = ABSENT /\ keyIndex'[l] = ABSENT
    BY <1>1, <1>2
  <2> QED
    BY <2>1 DEF Slot, Listed, Stored
<1>4. StackKept
  BY <1>1, StackSame DEF Inv, TypeKept
<1>5. TypeInv'
  BY <1>1, <1>2, <1>4, TypeInvKept DEF Inv, TypeKept, DataOK
<1>6. IndexInv'
  BY <1>3 DEF IndexInv
<1>7. UnsetInv'
  BY <1>1, <1>4 DEF UnsetInv, StackKept
<1>8. CounterAgrees'
  <2>1. ListedKeys' = {}
    BY <1>3 DEF ListedKeys
  <2>2. Cardinality(ListedKeys') = 0 /\ Cardinality(UnsetFrames') = 0
    BY <1>1, <1>4, <2>1, NoUnsets, FS_EmptySet DEF StackKept
  <2>3. counter' = Cardinality(ListedKeys') + (IF KeyIndexed' THEN 0 ELSE Cardinality(UnsetFrames'))
    BY <1>1, <2>2
  <2> QED
    BY <2>3 DEF CounterAgrees, Behind, ListedKeys
<1>9. BytesCounted'
  <2>1. ListedKeys' = {} /\ Sizes' = Sizes
    BY <1>1, <1>3, SizesKept DEF ListedKeys
  <2>2. Total(Sizes, ListedKeys') = 0
    BY <2>1, TotalEmpty
  <2>3. Owed(stack, Sizes) = 0
    BY <1>1, NoneOwed DEF Inv, TypeInv, TypeOK
  <2> QED
    BY <1>1, <2>1, <2>2, <2>3 DEF BytesCounted
<1>10. MapStep
  <2>1. Leaving' = {}
    BY <1>3 DEF Leaving
  <2>2. Cardinality(UnsetFrames') = 0
    BY <1>1, <1>4, NoUnsets DEF StackKept
  <2>3. Behind' = 0
    BY <2>2 DEF Behind
  <2> QED
    BY <1>3, <2>1, <2>3 DEF ClearStep, MapStep
<1> QED
  BY <1>5, <1>6, <1>7, <1>8, <1>9, <1>10 DEF Inv

LEMMA CloneKeeps ==
  ASSUME Quiet, Inv, Clone
  PROVE  Inv' /\ MapStep
<1>1. /\ type' = type /\ mirror' = mirror /\ counter' = counter /\ bytes' = bytes
      /\ stack' = << >> /\ BeingUnset = {} /\ type \in StringTypes
      /\ DataOK
  BY QuietUnsets, TypesAssumption DEF Clone, Inv, TypeInv, TypeOK, DataOK, Slots
<1>2. TypeKept /\ (KeyIndexed' <=> KeyIndexed)
  BY <1>1, ReadersKept DEF TypeKept
<1>3. /\ array' = [l \in Keys |-> IF l \in Cloned THEN array[l] ELSE ABSENT]
      /\ hsArray' = [l \in Keys |-> IF l \in Cloned THEN hsArray[l] ELSE ABSENT]
  BY DEF Clone
<1>4. array' \in Slots /\ hsArray' \in Slots
  BY <1>1, <1>3 DEF DataOK, Slots
<1>5. ASSUME NEW l \in Keys PROVE Stored(l) <=> Listed(l)
  <2>1. CASE KeyIndexed
    BY <1>1, <2>1 DEF Inv, IndexInv
  <2>2. CASE ~KeyIndexed
    BY <1>1, <2>2, PlainListed
  <2> QED
    BY <2>1, <2>2
<1>6. ASSUME NEW l \in Keys PROVE l \in Cloned <=> Slot(l) # ABSENT
  BY <1>5 DEF Cloned, Stored
<1>7. ASSUME NEW l \in Keys PROVE Slot(l)' = Slot(l)
  <2>1. InHsArray(l)' <=> InHsArray(l)
    BY <1>1 DEF InHsArray
  <2>2. Slot(l) = IF InHsArray(l) THEN hsArray[l] ELSE array[l]
    BY DEF Slot
  <2>3. Slot(l)' = IF InHsArray(l) THEN hsArray'[l] ELSE array'[l]
    BY <2>1 DEF Slot
  <2>4. /\ array'[l] = IF l \in Cloned THEN array[l] ELSE ABSENT
        /\ hsArray'[l] = IF l \in Cloned THEN hsArray[l] ELSE ABSENT
    BY <1>3
  <2> QED
    BY <1>6, <2>2, <2>3, <2>4
<1>8. keyIndex' = [l \in Keys |-> CASE ~KeyIndexed \/ l \notin Cloned -> ABSENT
                                   [] KeyIndexed /\ l \in Cloned /\ Mirrors(l) -> Slot(l)
                                   [] OTHER -> 0]
  BY DEF Clone
<1>9. ASSUME NEW l \in Keys
      PROVE  /\ ~KeyIndexed \/ l \notin Cloned => keyIndex'[l] = ABSENT
             /\ KeyIndexed /\ l \in Cloned => keyIndex'[l] = IF Mirrors(l) THEN Slot(l) ELSE 0
  <2>1. keyIndex'[l] = CASE ~KeyIndexed \/ l \notin Cloned -> ABSENT
                         [] KeyIndexed /\ l \in Cloned /\ Mirrors(l) -> Slot(l)
                         [] OTHER -> 0
    BY <1>8, Zenon
  <2>2. CASE ~KeyIndexed \/ l \notin Cloned
    BY <2>1, <2>2, Zenon
  <2>3. CASE KeyIndexed /\ l \in Cloned /\ Mirrors(l)
    BY <2>1, <2>3, Zenon
  <2>4. CASE KeyIndexed /\ l \in Cloned /\ ~Mirrors(l)
    BY <2>1, <2>4, Zenon
  <2> QED
    BY <2>2, <2>3, <2>4
<1>10. keyIndex' \in Slots
  <2>1. ASSUME NEW l \in Keys PROVE keyIndex'[l] \in Values \cup {ABSENT}
    <3>1. Slot(l) \in Values \cup {ABSENT}
      BY <1>1 DEF Slot, DataOK, Slots
    <3> QED
      BY <1>9, <3>1, Constants
  <2>2. DOMAIN keyIndex' = Keys /\ keyIndex' = [l \in Keys |-> keyIndex'[l]]
    BY <1>8, Zenon
  <2> QED
    BY <2>1, <2>2 DEF Slots
<1>11. ASSUME KeyIndexed PROVE keyIndex' = keyIndex
  <2>1. ASSUME NEW l \in Keys PROVE keyIndex'[l] = keyIndex[l]
    <3>1. CASE l \in Cloned
      <4>1. Listed(l)
        BY <3>1 DEF Cloned
      <4>2. keyIndex[l] = IF Mirrors(l) THEN Slot(l) ELSE 0
        BY <1>11, <4>1 DEF Inv, IndexInv
      <4> QED
        BY <1>9, <1>11, <3>1, <4>2
    <3>2. CASE l \notin Cloned
      <4>1. ~Listed(l)
        BY <1>5, <1>6, <3>2 DEF Stored
      <4>2. keyIndex[l] = ABSENT
        BY <1>11, <4>1 DEF Listed
      <4> QED
        BY <1>9, <3>2, <4>2
    <3> QED
      BY <3>1, <3>2
  <2> QED
    BY <1>1, <1>10, <2>1 DEF DataOK, Slots
<1>12. ASSUME NEW l \in Keys PROVE Listed(l)' <=> Listed(l)
  <2>1. CASE KeyIndexed
    BY <1>2, <1>11, <2>1 DEF Listed
  <2>2. CASE ~KeyIndexed
    <3>1. ~InHsArray(l) /\ ~InHsArray(l)'
      BY <1>1, <2>2 DEF KeyIndexed, InHsArray
    <3>2. (Listed(l) <=> Slot(l) # ABSENT) /\ (Listed(l)' <=> Slot(l)' # ABSENT)
      BY <1>2, <2>2, <3>1 DEF Listed, Slot
    <3> QED
      BY <1>7, <3>2
  <2> QED
    BY <2>1, <2>2
<1>13. KeepsKeys
  <2>1. ListedKeys' = ListedKeys
    BY <1>12 DEF ListedKeys
  <2> QED
    BY <1>1, <1>7, <1>11, <2>1 DEF KeepsKeys
<1>14. DataOK'
  BY <1>1, <1>4, <1>10 DEF DataOK
<1>15. StackKept
  <2>1. stack' \in Seq(Frame) /\ FramesOK'
    BY <1>1, NoElements DEF FramesOK
  <2>2. BeingUnset' = {}
    BY <1>1 DEF BeingUnset
  <2>3. UnsetFrames' = {}
    BY <1>1 DEF UnsetFrames
  <2>4. ASSUME NEW sizes PROVE Owed(stack', sizes) = 0 /\ Owed(stack, sizes) = 0
    BY <1>1, <2>1, NoneOwed, NothingOwed, NoElements DEF Inv, TypeInv, TypeOK
  <2> QED
    BY <1>1, <2>1, <2>2, <2>3, <2>4, NoUnsets, FS_EmptySet DEF StackKept
<1> QED
  BY <1>2, <1>13, <1>14, <1>15, StutterKeeps

-----------------------------------------------------------------------------
(* The invariant.                                                          *)

LEMMA InvInit == Init => Inv
<1> SUFFICES ASSUME Init PROVE Inv
  OBVIOUS
<1>1. NoKeys \in Slots /\ \A l \in Keys : NoKeys[l] = ABSENT
  BY DEF NoKeys, Slots
<1>2. stack = << >> /\ Elements(stack) = {} /\ BeingUnset = {} /\ UnsetFrames = {}
  BY NoElements DEF Init, BeingUnset, UnsetFrames
<1>3. ASSUME NEW l \in Keys PROVE ~Listed(l) /\ ~Stored(l)
  BY <1>1 DEF Init, Listed, Stored, Slot
<1>4. TypeInv
  BY TypeInit
<1>5. IndexInv /\ UnsetInv
  BY <1>2, <1>3 DEF IndexInv, UnsetInv
<1>6. CounterAgrees
  <2>1. ListedKeys = {}
    BY <1>3 DEF ListedKeys
  <2>2. Cardinality(ListedKeys) = 0 /\ Cardinality(UnsetFrames) = 0
    BY <1>2, <2>1, FS_EmptySet
  <2>3. counter = Cardinality(ListedKeys) + (IF KeyIndexed THEN 0 ELSE Cardinality(UnsetFrames))
    BY <2>2 DEF Init
  <2> QED
    BY <2>3 DEF CounterAgrees, Behind, ListedKeys
<1>7. BytesCounted
  <2>1. ListedKeys = {}
    BY <1>3 DEF ListedKeys
  <2>2. Total(Sizes, ListedKeys) = 0
    BY <2>1, TotalEmpty
  <2>3. Owed(stack, Sizes) = 0
    BY <1>2, <1>4, NoneOwed DEF TypeInv, TypeOK
  <2> QED
    BY <2>2, <2>3 DEF Init, BytesCounted
<1> QED
  BY <1>4, <1>5, <1>6, <1>7 DEF Inv

\* Every step of every operation keeps the invariant, and is one step of the map.
LEMMA InvStep ==
  ASSUME Quiet, Inv, [Next]_vars
  PROVE  Inv' /\ MapStep
<1>1. ASSUME NEW k \in Keys, NEW v \in Values, Write(k, v) PROVE Inv' /\ MapStep
  <2>1. k \notin BeingUnset /\ Store(k, v) /\ stack' = stack
    BY <1>1, QuietUnsets DEF Write, Inv
  <2>2. Alike(stack, stack')
    BY <2>1, AlikeSame DEF Inv, TypeInv, TypeOK
  <2> QED
    BY <2>1, <2>2, StoreActionKeeps
<1>2. ASSUME NEW k \in Keys, NEW v \in Values, WriteCasts(k, v) PROVE Inv' /\ MapStep
  <2>1. IntValued /\ UNCHANGED object /\ Suspend(At("write", k, v), stack)
    BY <1>2 DEF WriteCasts
  <2>2. DataOK' /\ TypeKept /\ KeepsKeys
    BY <2>1, ObjectSame DEF Inv
  <2>3. StackKept
    BY <2>1, <2>2, WriteFrameKept DEF Inv, TypeKept
  <2> QED
    BY <2>2, <2>3, StutterKeeps
<1>3. ASSUME NEW k \in Keys, NEW v \in Values, Increment(k, v) PROVE Inv' /\ MapStep
  <2> DEFINE w == ((IF Stored(k) THEN Slot(k) ELSE 0) + v) % (WordMax + 1)
  <2>1. k \notin BeingUnset /\ Store(k, w) /\ stack' = stack
    BY <1>3, QuietUnsets DEF Increment, Inv
  <2>2. w \in Values
    <3>1. Slot(k) \in Values \cup {ABSENT}
      BY DEF Slot, Inv, TypeInv, TypeOK
    <3>2. (IF Stored(k) THEN Slot(k) ELSE 0) \in Nat
      BY <3>1, Constants DEF Stored
    <3> DEFINE n == (IF Stored(k) THEN Slot(k) ELSE 0) + v
    <3>3. n \in Nat
      BY <3>2, Constants
    <3> HIDE DEF n
    <3>4. n % (WordMax + 1) \in 0 .. WordMax
      BY <3>3, WordAssumption
    <3> QED
      BY <3>4 DEF Values, n
  <2> HIDE DEF w
  <2>3. Alike(stack, stack')
    BY <2>1, AlikeSame DEF Inv, TypeInv, TypeOK
  <2> QED
    BY <2>1, <2>2, <2>3, StoreActionKeeps
<1>4. ASSUME NEW k \in Keys, UnsetWord(k) PROVE Inv' /\ MapStep
  BY <1>4, UnsetWordKeeps
<1>5. ASSUME NEW k \in Keys, UnsetZval(k) PROVE Inv' /\ MapStep
  BY <1>5, UnsetZvalKeeps
<1>6. ASSUME NEW from \in Keys, NEW last \in Keys, DeleteRange(from, last)
      PROVE  Inv' /\ MapStep
  <2>1. Alike(stack, stack) /\ stack \in Seq(Frame) /\ from \in Nat /\ last \in Nat
    BY AlikeSame, Constants DEF Inv, TypeInv, TypeOK
  <2> QED
    BY <1>6, <2>1, RangeTurnKeeps DEF DeleteRange
<1>7. CASE Free
  BY <1>7, FreeKeeps
<1>8. CASE Clone
  BY <1>8, CloneKeeps
<1>9. CASE Resume
  <2> DEFINE f == Head(stack)
  <2>0. stack # << >>
    BY <1>9 DEF Resume
  <2>1. /\ f \in Frame /\ f \in Elements(stack) /\ Tail(stack) \in Seq(Frame)
        /\ stack \in Seq(Frame)
    BY <2>0, Pop DEF Inv, TypeInv, TypeOK
  <2>2. ASSUME f.op # "unset" PROVE Alike(stack, Tail(stack))
    BY <2>0, <2>1, <2>2, AlikePop
  <2>3. CASE f.op = "write" /\ WriteResumes(f)
    <3>1. IntValued /\ f.key \in Keys /\ f.arg \in Values
      BY <2>1, <2>3 DEF Inv, TypeInv, FramesOK
    <3>2. f.key \notin BeingUnset
      BY <3>1, NoWordUnset DEF Inv
    <3>3. Store(f.key, f.arg) /\ Alike(stack, stack')
      BY <2>2, <2>3 DEF WriteResumes
    <3> QED
      BY <3>1, <3>2, <3>3, StoreActionKeeps
  <2>4. CASE f.op = "unset" /\ UnsetResumes(f)
    BY <2>0, <2>4, UnsetResumesKeeps
  <2>5. CASE f.op = "range" /\ RangeResumes(f)
    <3>1. f.key \in Nat /\ f.arg \in Nat /\ RangeTurn(f.key, f.arg, Tail(stack))
      BY <2>1, <2>5 DEF Frame, RangeResumes
    <3>2. Alike(stack, Tail(stack))
      BY <2>2, <2>5
    <3> QED
      BY <2>1, <3>1, <3>2, RangeTurnKeeps
  <2>6. f.op \in {"write", "unset", "range"}
    BY <2>1 DEF Frame
  <2> QED
    BY <1>9, <2>3, <2>4, <2>5, <2>6 DEF Resume
<1>10. CASE UNCHANGED vars
  <2>1. UNCHANGED object /\ stack' = stack
    BY <1>10 DEF vars, object
  <2>2. DataOK' /\ TypeKept /\ KeepsKeys
    BY <2>1, ObjectSame DEF Inv
  <2>3. StackKept
    BY <2>1, <2>2, StackSame DEF Inv
  <2> QED
    BY <2>2, <2>3, StutterKeeps
<1> QED
  BY <1>1, <1>2, <1>3, <1>4, <1>5, <1>6, <1>7, <1>8, <1>9, <1>10 DEF Next

\* Unless libJudy fails to delete, or a destructor run by offsetUnset() writes the very
\* key being unset or replaces the array, the key_index lists exactly the stored keys
\* and those whose unset is not finished, on every type and at every step of every handler.
THEOREM IndexSafe ==
  ASSUME Quiet
  PROVE  Spec => []IndexAgrees
<1>1. Inv => IndexAgrees
  BY DEF Inv, IndexInv, IndexAgrees
<1>2. Inv /\ [Next]_vars => Inv'
  BY InvStep
<1> QED
  BY <1>1, <1>2, InvInit, PTL DEF Spec

\* Under the same assumption count() is the number of keys a traversal visits, but for
\* the unsets that a type without key_index has not finished.
THEOREM CounterSafe ==
  ASSUME Quiet
  PROVE  Spec => []CounterAgrees
<1>1. Inv => CounterAgrees
  BY DEF Inv
<1>2. Inv /\ [Next]_vars => Inv'
  BY InvStep
<1> QED
  BY <1>1, <1>2, InvInit, PTL DEF Spec

\* Under the same assumption memoryUsage()'s total is exact at every step, but for those
\* unsets: the subtraction that is clamped at 0 never has to be.
THEOREM BytesSafe ==
  ASSUME Quiet
  PROVE  Spec => []BytesAgree
<1>1. Inv => BytesAgree
  BY BytesAre DEF Inv
<1>2. Inv /\ [Next]_vars => Inv'
  BY InvStep
<1> QED
  BY <1>1, <1>2, InvInit, PTL DEF Spec

-----------------------------------------------------------------------------
(* The structures of an object implement one map.                          *)

slots == [k \in Keys |-> Slot(k)]

walks == [k \in Keys |-> Traversed(k)]

\* The keys shown are the keys listed, with what a traversal emits under them.
LEMMA ShownIs ==
  ASSUME Inv
  PROVE  /\ walks = Map!Shown(slots, Leaving)
         /\ {k \in Keys : walks[k] # ABSENT} = ListedKeys
<1>0. type \in StringTypes
  BY TypesAssumption DEF Inv, TypeInv, TypeOK
<1>1. ASSUME NEW k \in Keys
      PROVE  /\ Traversed(k) = IF k \in Leaving THEN NULL ELSE Slot(k)
             /\ Traversed(k) # ABSENT <=> Listed(k)
  <2>1. (Stored(k) <=> Slot(k) # ABSENT) /\ (k \in Leaving <=> (Listed(k) /\ ~Stored(k)))
    BY DEF Stored, Leaving
  <2>2. Stored(k) => Listed(k)
    <3>1. CASE KeyIndexed
      BY <3>1 DEF Inv, IndexInv
    <3>2. CASE ~KeyIndexed
      BY <1>0, <3>2, PlainListed
    <3> QED
      BY <3>1, <3>2
  <2>3. NULL # ABSENT
    BY WordAssumption
  <2>4. CASE ~Listed(k)
    BY <2>1, <2>2, <2>4 DEF Traversed
  <2>5. CASE Listed(k) /\ KeyIndexed /\ Mirrors(k)
    <3>1. keyIndex[k] = Slot(k) /\ keyIndex[k] # ABSENT
      BY <2>5 DEF Inv, IndexInv, Listed
    <3> QED
      BY <2>1, <2>5, <3>1 DEF Traversed
  <2>6. CASE Listed(k) /\ ~(KeyIndexed /\ Mirrors(k))
    BY <2>1, <2>3, <2>6 DEF Traversed
  <2> QED
    BY <2>4, <2>5, <2>6
<1>2. walks = Map!Shown(slots, Leaving)
  BY <1>1 DEF walks, slots, Map!Shown
<1>3. \A k \in Keys : walks[k] # ABSENT <=> Listed(k)
  BY <1>1 DEF walks
<1> QED
  BY <1>2, <1>3 DEF ListedKeys

LEMMA MapCardinality == \A S : Map!Cardinality(S) = Cardinality(S)
BY Zenon DEF Map!Cardinality, Cardinality

\* The three readings of an object are those of one map.
LEMMA ReadingsAgree ==
  ASSUME Inv
  PROVE  Map!Holds(slots, Leaving, Behind)
<1>1. walks = Map!Shown(slots, Leaving) /\ {k \in Keys : walks[k] # ABSENT} = ListedKeys
  BY ShownIs
<1>2. Map!Present(Map!Shown(slots, Leaving)) = ListedKeys
  BY <1>1 DEF Map!Present
<1>3. counter = Cardinality(ListedKeys) + Behind
  BY DEF Inv, CounterAgrees, ListedKeys
<1>4. counter = Map!Cardinality(Map!Present(Map!Shown(slots, Leaving))) + Behind
  BY <1>2, <1>3, MapCardinality
<1> QED
  BY <1>1, <1>4 DEF Map!Holds, slots, walks

\* A step of a handler is a step of JudyMap.
LEMMA MapStepImplements ==
  ASSUME Inv, Inv', MapStep
  PROVE  [Map!Next]_(Map!vars)
<1>1. Map!Holds(slots, Leaving, Behind) /\ Map!Holds(slots, Leaving, Behind)'
  <2>1. (Inv => Map!Holds(slots, Leaving, Behind))'
    BY ReadingsAgree, PTL
  <2> QED
    BY <2>1, ReadingsAgree
<1>2. Map!Becomes(slots', Leaving', Behind')
  BY <1>1 DEF Map!Holds, Map!Becomes, Map!Shown, Map!Present, slots
<1>3. slots' = [l \in Keys |-> Slot(l)']
  BY DEF slots
<1>4. ASSUME NEW k \in Keys, NEW w, SlotBecomes(k, w)
      PROVE  slots' = [slots EXCEPT ![k] = w]
  BY <1>3, <1>4 DEF slots, SlotBecomes
<1>5. ASSUME SlotsKept PROVE slots' = slots
  BY <1>3, <1>5 DEF slots, SlotsKept
<1>6. ASSUME NEW k \in Keys, NEW w \in Values, PutStep(k, w) PROVE Map!Next
  <2>1. k \notin Leaving /\ Map!Becomes([slots EXCEPT ![k] = w], Leaving, Behind)
    BY <1>2, <1>4, <1>6 DEF PutStep, SettledAlike
  <2>2. Map!Put(k, w)
    BY <2>1 DEF Map!Put, slots
  <2> QED
    BY <2>2 DEF Map!Next
<1>7. ASSUME NEW k \in Keys, RemoveStep(k) PROVE Map!Next
  <2>1. Map!Becomes([slots EXCEPT ![k] = ABSENT], Leaving \ {k}, Behind)
    BY <1>2, <1>4, <1>7 DEF RemoveStep
  <2>2. Map!Remove(k)
    BY <2>1 DEF Map!Remove, slots
  <2> QED
    BY <2>2 DEF Map!Next
<1>8. ASSUME NEW k \in Keys, UnsetStep(k) PROVE Map!Next
  <2>1. slots[k] # ABSENT
    BY <1>8 DEF UnsetStep, Stored, slots
  <2>2. slots' = [slots EXCEPT ![k] = ABSENT]
    BY <1>4, <1>8 DEF UnsetStep
  <2>3. \/ Map!Becomes([slots EXCEPT ![k] = ABSENT], Leaving \cup {k}, Behind)
        \/ Map!Becomes([slots EXCEPT ![k] = ABSENT], Leaving, Behind + 1)
    BY <1>2, <1>8, <2>2 DEF UnsetStep
  <2>4. Map!Unset(k)
    BY <2>1, <2>3 DEF Map!Unset, slots
  <2> QED
    BY <2>4 DEF Map!Next
<1>9. ASSUME CatchUpStep PROVE Map!Next
  <2>1. Behind > 0 /\ Map!Becomes(slots, Leaving, Behind - 1)
    BY <1>2, <1>5, <1>9 DEF CatchUpStep
  <2>2. Map!CatchUp
    BY <2>1 DEF Map!CatchUp, slots
  <2> QED
    BY <2>2 DEF Map!Next
<1>10. ASSUME ClearStep PROVE Map!Next
  <2>1. slots' = Map!Empty
    BY <1>3, <1>10 DEF ClearStep, Map!Empty
  <2>2. Map!Clear
    BY <1>2, <1>10, <2>1 DEF ClearStep, Map!Clear
  <2> QED
    BY <2>2 DEF Map!Next
<1>11. ASSUME IdleStep PROVE UNCHANGED Map!vars
  <2>1. slots' = slots /\ Leaving' = Leaving /\ Behind' = Behind
    BY <1>5, <1>11 DEF IdleStep, SettledAlike
  <2>2. walks' = walks /\ counter' = counter
    BY <1>1, <2>1 DEF Map!Holds, Map!Shown, Map!Present, slots, walks
  <2> QED
    BY <2>1, <2>2 DEF Map!vars, slots, walks
<1> QED
  BY <1>6, <1>7, <1>8, <1>9, <1>10, <1>11 DEF MapStep

\* As long as no delete fails and no destructor writes the key being unset, an object of
\* any string type is one map: what offsetGet(), a traversal and count() read changes
\* together at every step of every handler, failed inserts and re-entrant casts included,
\* and the only disagreement a handler can see is about the keys whose destructor runs:
\* a key listed and counted that reads as null, or a count() that has still to follow.
THEOREM Refinement ==
  ASSUME Quiet
  PROVE  Spec => ImplementsMap
<1>1. Init => Map!Init
  <2> SUFFICES ASSUME Init PROVE Map!Init
    OBVIOUS
  <2>1. Map!Holds(slots, Leaving, Behind)
    BY InvInit, ReadingsAgree
  <2>2. ASSUME NEW k \in Keys PROVE Slot(k) = ABSENT /\ ~Listed(k)
    BY DEF Init, NoKeys, Slot, Listed
  <2>3. slots = Map!Empty /\ Leaving = {}
    BY <2>2 DEF slots, Map!Empty, Leaving
  <2>4. Behind = 0
    <3>1. BeingUnset = {}
      BY DEF Init, BeingUnset
    <3> QED
      BY <3>1, NoUnsets DEF Behind
  <2> QED
    BY <2>1, <2>3, <2>4 DEF Map!Init
<1>2. Inv /\ [Next]_vars => Inv' /\ MapStep
  BY InvStep
<1>3. Inv /\ [Next]_vars => [Map!Next]_(Map!vars)
  BY <1>2, MapStepImplements
<1> QED
  BY <1>1, <1>2, <1>3, InvInit, PTL DEF Spec, ImplementsMap, Map!Spec

=============================================================================
