-------------------------- MODULE JudyCursor_proofs --------------------------
(***************************************************************************)
(* Proofs about JudyCursor, for every finite set of keys, every set of     *)
(* types and every depth of re-entrancy.                                   *)
(***************************************************************************)
EXTENDS JudyCursor, JudyEntryCache_proofs

-----------------------------------------------------------------------------
(* The walk is about the object of JudyEntryCache.                         *)

LEMMA CacheStep == [Next]_vars => [CacheNext]_cacheVars
<1> SUFFICES ASSUME [Next]_vars PROVE CacheNext \/ UNCHANGED cacheVars
  OBVIOUS
<1>1. CASE Rewind \/ NextKey \/ GetIterator
  BY <1>1 DEF Rewind, NextKey, GetIterator
<1>2. CASE ObjectStep
  <2>1. PlainStep => CacheNext
    BY TtlsAssumption DEF PlainStep, CacheNext
  <2> QED
    BY <1>2, <2>1 DEF ObjectStep
<1>3. CASE UNCHANGED vars
  BY <1>3 DEF vars, cacheVars
<1> QED
  BY <1>1, <1>2, <1>3 DEF Next

\* What an object does while it is walked is what the module of its entries allows: an
\* object of a type without expiry acts as one whose entries never expire.
THEOREM WalkedObject == Spec => CacheSpec
<1>1. Init => CacheInit
  BY DEF Init
<1> QED
  BY <1>1, CacheStep, PTL DEF Spec, CacheSpec

-----------------------------------------------------------------------------
(* The invariant of a walk.                                                *)

\* valid and the key agree.
Coherent == valid <=> iteratorKey # NONE

\* What is owed is still there.
OwedVisible == owed \subseteq Visible

WalkInv == TypeOK /\ Coherent /\ OwedVisible /\ NothingSkipped

LEMMA VisibleKeys == Visible \subseteq Keys /\ \A k \in Keys : k \in Nat /\ k # NONE
BY KeysAssumption, NoneAssumption DEF Visible, Present

\* A search ends the walk, or moves the cursor to the first key found.
LEMMA Seeking ==
  ASSUME NEW found \in SUBSET Keys, Seek(found)
  PROVE  /\ iteratorKey' \in Keys \cup {NONE} /\ valid' \in BOOLEAN /\ iteratorData' \in BOOLEAN
         /\ Coherent'
         /\ valid' => iteratorKey' \in found /\ \A k \in found : iteratorKey' <= k
         /\ ~valid' => found = {}
BY VisibleKeys, Zenon DEF Seek, MovesTo, Ends, Coherent

\* A search in which everything owed is found leaves nothing owed behind.
LEMMA SeekingOwed ==
  ASSUME NEW found \in SUBSET Keys, Seek(found), NEW due \in SUBSET found,
         owed' = due \ {iteratorKey'}
  PROVE  NothingSkipped'
<1>1. CASE valid'
  <2>1. iteratorKey' \in Keys /\ \A k \in owed' : k \in Keys /\ iteratorKey' <= k /\ k # iteratorKey'
    BY <1>1, Seeking
  <2>2. \A k \in owed' : iteratorKey' < k
    BY <2>1, VisibleKeys
  <2> QED
    BY <1>1, <2>2 DEF NothingSkipped
<1>2. CASE ~valid'
  BY <1>2, Seeking DEF NothingSkipped
<1> QED
  BY <1>1, <1>2

\* What the searches of a walk look through.
LEMMA Searches ==
  ASSUME WalkInv
  PROVE  /\ Visible \in SUBSET Keys
         /\ Past(iteratorKey) \in SUBSET Visible
         /\ valid => owed \subseteq Past(iteratorKey)
BY VisibleKeys DEF WalkInv, OwedVisible, NothingSkipped, Past

LEMMA WalkInit == Init => WalkInv
<1>1. Init => TypeOK
  BY TypeInit DEF Init, TypeOK
<1> QED
  BY <1>1 DEF Init, WalkInv, Coherent, OwedVisible, NothingSkipped

\* A step of the cursor leaves the object as it is.
LEMMA CursorFrame ==
  ASSUME WalkInv, UNCHANGED <<cacheVars, type, iterator>>, Coherent', NothingSkipped',
         iteratorKey' \in Keys \cup {NONE}, valid' \in BOOLEAN, iteratorData' \in BOOLEAN,
         owed' \subseteq Visible
  PROVE  WalkInv'
<1>1. CacheTypeOK'
  BY TypeStep DEF WalkInv, TypeOK
<1>2. Visible' = Visible
  BY DEF cacheVars, Visible, Present, ExpiredAt
<1>3. TypeOK'
  BY <1>1, VisibleKeys DEF WalkInv, TypeOK
<1> QED
  BY <1>2, <1>3 DEF WalkInv, OwedVisible

LEMMA WalkRewind == WalkInv /\ Rewind => WalkInv'
<1> SUFFICES ASSUME WalkInv, Rewind PROVE WalkInv'
  OBVIOUS
<1>1. UNCHANGED <<cacheVars, type, iterator>> /\ owed' = Visible \ {iteratorKey'}
  BY DEF Rewind, Starts
<1>2. CASE Seek(Visible)
  BY <1>1, <1>2, Searches, Seeking, SeekingOwed, CursorFrame
<1>3. CASE Visible = {} /\ Stays
  <2>1. owed' = {} /\ UNCHANGED <<iteratorKey, valid>> /\ iteratorData' = FALSE
    BY <1>1, <1>3 DEF Stays
  <2>2. NothingSkipped'
    BY <2>1 DEF NothingSkipped
  <2>3. Coherent'
    BY <2>1 DEF WalkInv, Coherent
  <2>4. iteratorKey' \in Keys \cup {NONE} /\ valid' \in BOOLEAN /\ iteratorData' \in BOOLEAN
    BY <2>1 DEF WalkInv, TypeOK
  <2> QED
    BY <1>1, <2>1, <2>2, <2>3, <2>4, CursorFrame
<1> QED
  BY <1>2, <1>3 DEF Rewind, MethodsRewind, ForeachRewind

\* What next() does, by whether the cursor is at a key.
LEMMA NextCases ==
  ASSUME WalkInv, NextKey
  PROVE  /\ UNCHANGED <<cacheVars, type, iterator>>
         /\ \/ valid /\ Seek(Past(iteratorKey)) /\ GoesOn
            \/ ~valid /\ Stays /\ GoesOn
            \/ ~valid /\ Seek(Visible) /\ Starts
BY DEF NextKey, MethodsNext, ForeachNext, WalkInv, Coherent

LEMMA WalkNext == WalkInv /\ NextKey => WalkInv'
<1> SUFFICES ASSUME WalkInv, NextKey PROVE WalkInv'
  OBVIOUS
<1>1. UNCHANGED <<cacheVars, type, iterator>>
  BY NextCases
<1>2. owed \subseteq Visible
  BY DEF WalkInv, OwedVisible
<1>3. CASE valid /\ Seek(Past(iteratorKey)) /\ GoesOn
  <2>1. owed' = owed \ {iteratorKey'} /\ Past(iteratorKey) \in SUBSET Keys
        /\ owed \subseteq Past(iteratorKey)
    BY <1>3, Searches DEF GoesOn
  <2>2. NothingSkipped'
    BY <1>3, <2>1, SeekingOwed
  <2> QED
    BY <1>1, <1>2, <1>3, <2>1, <2>2, Seeking, CursorFrame
<1>4. CASE ~valid /\ Stays /\ GoesOn
  <2>1. owed = {} /\ owed' = {}
    BY <1>4 DEF WalkInv, NothingSkipped, GoesOn
  <2>2. UNCHANGED <<iteratorKey, valid>> /\ iteratorData' = FALSE
    BY <1>4 DEF Stays
  <2>3. NothingSkipped'
    BY <2>1 DEF NothingSkipped
  <2>4. Coherent'
    BY <2>2 DEF WalkInv, Coherent
  <2>5. iteratorKey' \in Keys \cup {NONE} /\ valid' \in BOOLEAN /\ iteratorData' \in BOOLEAN
    BY <2>2 DEF WalkInv, TypeOK
  <2> QED
    BY <1>1, <2>1, <2>3, <2>4, <2>5, CursorFrame
<1>5. CASE ~valid /\ Seek(Visible) /\ Starts
  <2>1. owed' = Visible \ {iteratorKey'} /\ Visible \in SUBSET Keys
    BY <1>5, Searches DEF Starts
  <2> QED
    BY <1>1, <1>5, <2>1, Seeking, SeekingOwed, CursorFrame
<1> QED
  BY <1>3, <1>4, <1>5, NextCases

LEMMA WalkGetIterator == WalkInv /\ GetIterator => WalkInv'
<1> SUFFICES ASSUME WalkInv, GetIterator PROVE WalkInv'
  OBVIOUS
<1>1. /\ UNCHANGED <<cacheVars, type, iterator>>
      /\ iteratorKey' = NONE /\ valid' = FALSE /\ iteratorData' = FALSE /\ owed' = {}
  BY DEF GetIterator, Ends
<1>2. Coherent' /\ NothingSkipped'
  BY <1>1 DEF Coherent, NothingSkipped
<1> QED
  BY <1>1, <1>2, CursorFrame

\* A change of the object can only lower what is owed.
LEMMA WalkObject == WalkInv /\ ObjectStep => WalkInv'
<1> SUFFICES ASSUME WalkInv, ObjectStep PROVE WalkInv'
  OBVIOUS
<1>1. UNCHANGED <<type, iterator, iteratorKey, valid, iteratorData>> /\ owed' = owed \cap Visible'
  BY DEF ObjectStep, cursorVars
<1>2. CacheTypeOK'
  <2>1. [Next]_vars
    BY DEF Next
  <2> QED
    BY <2>1, CacheStep, TypeStep DEF WalkInv, TypeOK
<1>3. TypeOK'
  BY <1>1, <1>2 DEF WalkInv, TypeOK
<1>4. Coherent' /\ OwedVisible'
  BY <1>1 DEF WalkInv, Coherent, OwedVisible
<1>5. NothingSkipped'
  BY <1>1 DEF WalkInv, NothingSkipped
<1> QED
  BY <1>3, <1>4, <1>5 DEF WalkInv

LEMMA WalkStep == WalkInv /\ [Next]_vars => WalkInv'
<1> SUFFICES ASSUME WalkInv, [Next]_vars PROVE WalkInv'
  OBVIOUS
<1>1. CASE UNCHANGED vars
  <2>1. UNCHANGED <<cacheVars, type, iterator>> /\ UNCHANGED <<iteratorKey, valid, iteratorData, owed>>
    BY <1>1 DEF vars, cacheVars
  <2>2. Coherent' /\ NothingSkipped'
    BY <2>1 DEF WalkInv, Coherent, NothingSkipped
  <2>3. /\ iteratorKey' \in Keys \cup {NONE} /\ valid' \in BOOLEAN /\ iteratorData' \in BOOLEAN
        /\ owed' \subseteq Visible
    BY <2>1 DEF WalkInv, TypeOK, OwedVisible
  <2> QED
    BY <2>1, <2>2, <2>3, CursorFrame
<1> QED
  BY <1>1, WalkRewind, WalkNext, WalkGetIterator, WalkObject DEF Next

LEMMA Walks == Spec => []WalkInv
BY WalkInit, WalkStep, PTL DEF Spec

\* Every field of the two cursors keeps the type it has in C.
THEOREM TypeCorrect == Spec => []TypeOK
<1>1. WalkInv => TypeOK
  BY DEF WalkInv
<1> QED
  BY <1>1, Walks, PTL

\* No walk skips an entry that stays in the object, however the loop's body and the
\* destructors it runs change the object around the cursor.
THEOREM WalkComplete == Spec => []NothingSkipped
<1>1. WalkInv => NothingSkipped
  BY DEF WalkInv
<1> QED
  BY <1>1, Walks, PTL

-----------------------------------------------------------------------------
(* The steps of a walk.                                                    *)

\* No walk serves a key twice or out of order.
THEOREM WalkForward == Spec => MovesForward
<1>1. WalkInv /\ [Next]_vars =>
        [(NextKey /\ valid) => (~valid' \/ iteratorKey < iteratorKey')]_vars
  <2> SUFFICES ASSUME WalkInv, NextKey, valid, valid' PROVE iteratorKey < iteratorKey'
    OBVIOUS
  <2>1. Seek(Past(iteratorKey)) /\ Past(iteratorKey) \in SUBSET Keys
    BY NextCases, Searches
  <2>2. iteratorKey' \in Past(iteratorKey)
    BY <2>1, Seeking
  <2> QED
    BY <2>2 DEF Past
<1> QED
  BY <1>1, Walks, PTL DEF Spec, MovesForward

\* No walk arrives at a key that get() and isset() would not serve, the first key of a
\* foreach included; the rewind of a foreach iterator that finds nothing is not spoken of.
THEOREM WalkVisible == Spec => ServesVisible
<1>1. WalkInv /\ [Next]_vars =>
        [(valid' /\ (NextKey \/ (Rewind /\ ~RewindFindsNothing))) => iteratorKey' \in Visible]_vars
  <2> SUFFICES ASSUME WalkInv, valid', NextKey \/ (Rewind /\ ~RewindFindsNothing)
               PROVE  iteratorKey' \in Visible
    OBVIOUS
  <2>1. CASE NextKey
    <3>1. Seek(Past(iteratorKey)) \/ Seek(Visible)
      BY <2>1, NextCases DEF Stays
    <3>2. PICK found \in SUBSET Visible : Seek(found)
      BY <3>1, Searches
    <3>3. found \in SUBSET Keys
      BY <3>2, VisibleKeys
    <3> QED
      BY <3>2, <3>3, Seeking
  <2>2. CASE Rewind /\ ~RewindFindsNothing
    <3>1. CASE iterator = "methods"
      BY <2>2, <3>1, Seeking, Searches DEF Rewind, MethodsRewind
    <3>2. CASE iterator # "methods"
      <4>1. iterator = "foreach"
        BY <3>2 DEF WalkInv, TypeOK
      <4>2. ~(Visible = {} /\ type # "BITSET")
        BY <2>2, <4>1 DEF RewindFindsNothing
      <4>3. ForeachRewind
        BY <2>2, <3>2 DEF Rewind
      <4> QED
        BY <4>2, <4>3, Seeking, Searches DEF ForeachRewind
    <3> QED
      BY <3>1, <3>2
  <2> QED
    BY <2>1, <2>2
<1> QED
  BY <1>1, Walks, PTL DEF Spec, ServesVisible

=============================================================================
