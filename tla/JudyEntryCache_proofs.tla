----------------------- MODULE JudyEntryCache_proofs -----------------------
(***************************************************************************)
(* Proofs about JudyEntryCache, for every finite set of keys, every clock, *)
(* every set of ttls and every depth of re-entrancy.                       *)
(***************************************************************************)
EXTENDS JudyEntryCache, DataLemmas

-----------------------------------------------------------------------------
(* Types.                                                                  *)

\* A timestamp fits its field, before or after the cast.
LEMMA StampType == \A t \in Int : Stamp(t) \in Stamps
BY ClockAssumption DEF Stamp, Stamps

LEMMA StampsAreIntegers == Stamps \subseteq Nat /\ 0 \in Stamps
BY ClockAssumption DEF Stamps

LEMMA DeadlineType ==
  ASSUME CacheTypeOK, NEW ttl \in Ttls
  PROVE  Deadline(ttl) \in Stamps
<1>1. clock + ttl \in Int
  BY ClockAssumption, TtlsAssumption DEF CacheTypeOK
<1> QED
  BY <1>1, StampType, StampsAreIntegers DEF Deadline

LEMMA FrameTypes ==
  /\ UnsetFrame \in Frame /\ UnsetFrame.op = "unset"
  /\ \A now \in Stamps : /\ PruneFrame(now) \in Frame /\ PruneFrame(now).op = "prune"
                         /\ PruneFrame(now).key = 0 /\ PruneFrame(now).now = now
BY StampsAreIntegers DEF UnsetFrame, PruneFrame, Frame

\* Recording a store changes the history of frames and nothing else of them.
LEMMA RenewedFrames ==
  ASSUME CacheTypeOK, NEW k \in Keys
  PROVE  /\ Renewed(k) \in Seq(Frame)
         /\ DOMAIN Renewed(k) = DOMAIN stack
         /\ \A i \in DOMAIN stack :
              /\ Renewed(k)[i].op = stack[i].op
              /\ Renewed(k)[i].key = stack[i].key
              /\ Renewed(k)[i].now = stack[i].now
              /\ stack[i].renewed \subseteq Renewed(k)[i].renewed
              /\ (stack[i].op = "prune" /\ k < stack[i].key) => k \in Renewed(k)[i].renewed
<1>1. stack \in Seq(Frame) /\ DOMAIN stack = 1 .. Len(stack) /\ Len(stack) \in Nat
  BY DEF CacheTypeOK
<1>2. \A i \in DOMAIN stack : stack[i] \in Frame
  BY <1>1
<1>3. \A i \in DOMAIN stack : Renewed(k)[i] \in Frame
  BY <1>2 DEF Renewed, Frame
<1>4. Renewed(k) \in Seq(Frame)
  BY <1>1, <1>3 DEF Renewed
<1>5. DOMAIN Renewed(k) = DOMAIN stack
  BY DEF Renewed
<1>6. ASSUME NEW i \in DOMAIN stack
      PROVE  /\ Renewed(k)[i].op = stack[i].op
             /\ Renewed(k)[i].key = stack[i].key
             /\ Renewed(k)[i].now = stack[i].now
             /\ stack[i].renewed \subseteq Renewed(k)[i].renewed
             /\ (stack[i].op = "prune" /\ k < stack[i].key) => k \in Renewed(k)[i].renewed
  BY <1>2 DEF Renewed, Frame
<1> QED
  BY <1>4, <1>5, <1>6

\* A turn of pruneExpired() ends the walk, or removes the first entry due and leaves a
\* frame that continues strictly past it.
LEMMA PruneTurnStep ==
  ASSUME CacheTypeOK, NEW f \in Frame, NEW callers \in Seq(Frame), PruneTurn(f, callers)
  PROVE  /\ clock' = clock
         /\ \/ Due(f) = {} /\ stack' = callers /\ UNCHANGED <<expiresAt, counter>>
            \/ \E k \in Due(f), g \in Frame :
                 /\ \A l \in Due(f) : k <= l
                 /\ k \in Keys /\ k \in Nat
                 /\ expiresAt' = [expiresAt EXCEPT ![k] = ABSENT]
                 /\ counter' = counter - 1
                 /\ g.op = f.op /\ g.key = k + 1 /\ g.now = f.now /\ g.renewed = f.renewed
                 /\ stack' = <<g>> \o callers
<1>1. CASE Due(f) = {}
  BY <1>1 DEF PruneTurn
<1>2. CASE Due(f) # {}
  <2>1. PICK k \in Due(f), calls \in BOOLEAN :
               /\ \A l \in Due(f) : k <= l
               /\ expiresAt' = [expiresAt EXCEPT ![k] = ABSENT]
               /\ counter' = counter - 1
               /\ stack' = <<[f EXCEPT !.key = k + 1, !.calls = calls]>> \o callers
    BY <1>2 DEF PruneTurn
  <2> DEFINE g == [f EXCEPT !.key = k + 1, !.calls = calls]
  <2>2. k \in Keys /\ k \in Nat
    BY KeysAssumption DEF Due
  <2>3. g \in Frame /\ g.op = f.op /\ g.key = k + 1 /\ g.now = f.now /\ g.renewed = f.renewed
    <3>1. k + 1 \in Nat
      BY <2>2
    <3>2. g \in Frame
      BY <3>1, Zenon DEF Frame
    <3>3. g.op = f.op /\ g.key = k + 1 /\ g.now = f.now /\ g.renewed = f.renewed
      BY Zenon DEF Frame
    <3> QED
      BY <3>2, <3>3
  <2>4. stack' = <<g>> \o callers
    BY <2>1
  <2> HIDE DEF g
  <2>5. clock' = clock
    BY DEF PruneTurn
  <2> QED
    BY <2>1, <2>2, <2>3, <2>4, <2>5
<1> QED
  BY <1>1, <1>2

\* The innermost frame and the others.
LEMMA TopFrame ==
  ASSUME CacheTypeOK, stack # <<>>
  PROVE  /\ Head(stack) \in Frame /\ Tail(stack) \in Seq(Frame)
         /\ Head(stack).op \in {"unset", "prune"}
         /\ stack = <<Head(stack)>> \o Tail(stack)
<1>1. Head(stack) \in Frame /\ Tail(stack) \in Seq(Frame) /\ stack = <<Head(stack)>> \o Tail(stack)
  BY DEF CacheTypeOK
<1> QED
  BY <1>1 DEF Frame

LEMMA TypeInit == CacheInit => CacheTypeOK
BY StampsAreIntegers DEF CacheInit, CacheTypeOK

LEMMA TypePruneTurn ==
  ASSUME CacheTypeOK, NEW f \in Frame, NEW callers \in Seq(Frame), PruneTurn(f, callers)
  PROVE  CacheTypeOK'
<1>1. CASE Due(f) = {}
  <2>1. stack' = callers /\ UNCHANGED <<expiresAt, counter, clock>>
    BY <1>1, PruneTurnStep
  <2> QED
    BY <2>1 DEF CacheTypeOK
<1>2. CASE Due(f) # {}
  <2>1. PICK k \in Due(f), g \in Frame :
               /\ k \in Keys
               /\ expiresAt' = [expiresAt EXCEPT ![k] = ABSENT]
               /\ counter' = counter - 1
               /\ stack' = <<g>> \o callers
    BY <1>2, PruneTurnStep
  <2>2. clock' = clock
    BY PruneTurnStep
  <2> QED
    BY <2>1, <2>2 DEF CacheTypeOK
<1> QED
  BY <1>1, <1>2

LEMMA TypeStore ==
  ASSUME CacheTypeOK, NEW k \in Keys, NEW e \in Stamps, Store(k, e), UNCHANGED clock
  PROVE  CacheTypeOK'
BY RenewedFrames DEF CacheTypeOK, Store

LEMMA TypeStep == CacheTypeOK /\ [CacheNext]_cacheVars => CacheTypeOK'
<1> SUFFICES ASSUME CacheTypeOK, [CacheNext]_cacheVars PROVE CacheTypeOK'
  OBVIOUS
<1>1. ASSUME NEW k \in Keys, NEW ttl \in Ttls, Set(k, ttl) PROVE CacheTypeOK'
  BY <1>1, DeadlineType, TypeStore DEF Set
<1>2. ASSUME NEW k \in Keys, NEW e \in Stamps, MergeEntry(k, e) PROVE CacheTypeOK'
  BY <1>2, TypeStore DEF MergeEntry
<1>3. ASSUME NEW k \in Keys, Unset(k) PROVE CacheTypeOK'
  BY <1>3 DEF Unset, CacheTypeOK
<1>4. ASSUME NEW k \in Keys, UnsetDestroys(k) PROVE CacheTypeOK'
  BY <1>4, FrameTypes DEF UnsetDestroys, CacheTypeOK
<1>5. ASSUME NEW now \in Stamps, PruneExpired(now) PROVE CacheTypeOK'
  <2>1. stack \in Seq(Frame)
    BY DEF CacheTypeOK
  <2> QED
    BY <1>5, <2>1, FrameTypes, TypePruneTurn DEF PruneExpired
<1>6. CASE Free
  BY <1>6 DEF Free, CacheTypeOK
<1>7. CASE Resume
  <2>1. CASE Head(stack).op = "unset"
    <3>1. stack # << >> /\ Tail(stack) \in Seq(Frame)
      BY <1>7, TopFrame DEF Resume
    <3>2. UnsetResumes
      BY <1>7, <2>1 DEF Resume
    <3> QED
      BY <3>1, <3>2 DEF UnsetResumes, CacheTypeOK
  <2>2. CASE Head(stack).op # "unset"
    BY <1>7, <2>2, TopFrame, TypePruneTurn DEF Resume
  <2> QED
    BY <2>1, <2>2
<1>8. CASE Tick
  BY <1>8, ClockAssumption DEF Tick, CacheTypeOK
<1>9. CASE UNCHANGED cacheVars
  BY <1>9 DEF cacheVars, CacheTypeOK
<1> QED
  BY <1>1, <1>2, <1>3, <1>4, <1>5, <1>6, <1>7, <1>8, <1>9 DEF CacheNext

\* Every field of a STRING_TO_ENTRY object keeps the type it has in C, the truncated
\* expiry included, whatever ttl the program passes.
THEOREM CacheTypeCorrect == CacheSpec => []CacheTypeOK
BY TypeInit, TypeStep, PTL DEF CacheSpec

-----------------------------------------------------------------------------
(* What the steps do to the entries.                                       *)

\* What an entry's removal leaves.
LEMMA Removal ==
  ASSUME CacheTypeOK, NEW k \in Keys, expiresAt' = [expiresAt EXCEPT ![k] = ABSENT]
  PROVE  /\ Present' = Present \ {k}
         /\ \A l \in Keys, now \in Stamps : ExpiredAt(l, now)' => l # k /\ ExpiredAt(l, now)
BY DEF CacheTypeOK, Present, ExpiredAt

LEMMA Storing ==
  ASSUME CacheTypeOK, NEW k \in Keys, NEW e \in Stamps,
         expiresAt' = [expiresAt EXCEPT ![k] = e]
  PROVE  /\ Present' = Present \cup {k}
         /\ \A l \in Keys, now \in Stamps : ExpiredAt(l, now)' => l = k \/ ExpiredAt(l, now)
<1>1. e # ABSENT
  BY AbsentAssumption, StampsAreIntegers
<1> QED
  BY <1>1 DEF CacheTypeOK, Present, ExpiredAt

LEMMA Untouched ==
  ASSUME UNCHANGED expiresAt
  PROVE  Present' = Present /\ \A l, now : ExpiredAt(l, now)' <=> ExpiredAt(l, now)
BY DEF Present, ExpiredAt

-----------------------------------------------------------------------------
(* The counter.                                                            *)

Unsets(s) == Cardinality(Marked(s, "unset"))

LEMMA CountForm == CountIsRaw <=> counter = Cardinality(Present) + Unsets(stack)
BY DEF CountIsRaw, UnsetFrames, Unsets, Marked

LEMMA CountFormNext == CountIsRaw' <=> counter' = Cardinality(Present') + Unsets(stack')
BY DEF CountIsRaw, UnsetFrames, Unsets, Marked

LEMMA PresentCount ==
  IsFiniteSet(Present) /\ Cardinality(Present) \in Nat /\ Present \subseteq Keys
<1>1. Present \subseteq Keys
  BY DEF Present
<1> QED
  BY <1>1, KeysAssumption, FS_Subset, FS_CardinalityType

LEMMA UnsetsCount == \A s \in Seq(Frame) : Unsets(s) \in Nat
BY MarkedFinite DEF Unsets

\* Pushing or popping a frame of another operation leaves the unsets as they are.
LEMMA PushUnsets ==
  ASSUME NEW s \in Seq(Frame), NEW f \in Frame
  PROVE  Unsets(<<f>> \o s) = Unsets(s) + (IF f.op = "unset" THEN 1 ELSE 0)
BY MarkedPush DEF Unsets

LEMMA PopUnsets ==
  ASSUME NEW s \in Seq(Frame), s # << >>
  PROVE  Unsets(s) = Unsets(Tail(s)) + (IF Head(s).op = "unset" THEN 1 ELSE 0)
BY MarkedPop DEF Unsets

LEMMA RenewedUnsets ==
  ASSUME CacheTypeOK, NEW k \in Keys
  PROVE  Unsets(Renewed(k)) = Unsets(stack)
<1>1. Marked(Renewed(k), "unset") = Marked(stack, "unset")
  BY RenewedFrames DEF Marked
<1> QED
  BY <1>1 DEF Unsets

\* How a removal and a store change the number of entries.
LEMMA RemovalCount ==
  ASSUME CacheTypeOK, NEW k \in Present, expiresAt' = [expiresAt EXCEPT ![k] = ABSENT]
  PROVE  Cardinality(Present') = Cardinality(Present) - 1
<1>1. Present' = Present \ {k}
  BY PresentCount, Removal
<1>2. Cardinality(Present \ {k}) = Cardinality(Present) - 1
  BY PresentCount, FS_RemoveElement
<1> QED
  BY <1>1, <1>2

LEMMA StoreCount ==
  ASSUME CacheTypeOK, NEW k \in Keys, NEW e \in Stamps, Store(k, e)
  PROVE  /\ counter' - counter = Cardinality(Present') - Cardinality(Present)
         /\ Cardinality(Present') \in Nat
<1>1. Present' = Present \cup {k}
  BY Storing DEF Store
<1>2. Cardinality(Present \cup {k}) =
        IF k \in Present THEN Cardinality(Present) ELSE Cardinality(Present) + 1
  BY PresentCount, FS_AddElement
<1> QED
  BY <1>1, <1>2, PresentCount DEF CacheTypeOK, Store

\* What a turn of pruneExpired() removes it has counted.
LEMMA PruneTurnCount ==
  ASSUME CacheTypeOK, NEW f \in Frame, f.op = "prune", NEW callers \in Seq(Frame),
         PruneTurn(f, callers), counter = Cardinality(Present) + Unsets(callers)
  PROVE  CountIsRaw'
<1>1. CASE Due(f) = {}
  <2>1. stack' = callers /\ UNCHANGED <<expiresAt, counter>>
    BY <1>1, PruneTurnStep
  <2>2. counter' = Cardinality(Present') + Unsets(stack')
    BY <2>1, Untouched
  <2> QED
    BY <2>2, CountFormNext
<1>2. CASE Due(f) # {}
  <2>1. PICK k \in Due(f), g \in Frame :
               /\ k \in Keys
               /\ expiresAt' = [expiresAt EXCEPT ![k] = ABSENT]
               /\ counter' = counter - 1
               /\ g.op = f.op
               /\ stack' = <<g>> \o callers
    BY <1>2, PruneTurnStep
  <2>2. Cardinality(Present') = Cardinality(Present) - 1
    BY <2>1, RemovalCount DEF Due, ExpiredAt
  <2>3. Unsets(stack') = Unsets(callers)
    BY <2>1, PushUnsets, UnsetsCount
  <2>4. counter' = Cardinality(Present') + Unsets(stack')
    BY <2>1, <2>2, <2>3, PresentCount, UnsetsCount
  <2> QED
    BY <2>4, CountFormNext
<1> QED
  BY <1>1, <1>2

LEMMA CountInit == CacheInit => CountIsRaw
<1> SUFFICES ASSUME CacheInit PROVE CountIsRaw
  OBVIOUS
<1>1. Present = {} /\ Cardinality(Present) = 0
  BY FS_EmptySet DEF CacheInit, Present
<1> QED
  BY <1>1, MarkedEmpty, CountForm DEF CacheInit, Unsets

LEMMA CountStep ==
  ASSUME FreeInUnset = FALSE
  PROVE  CacheTypeOK /\ CountIsRaw /\ [CacheNext]_cacheVars => CountIsRaw'
<1> SUFFICES ASSUME CacheTypeOK, CountIsRaw, [CacheNext]_cacheVars PROVE CountIsRaw'
  OBVIOUS
<1>1. /\ counter = Cardinality(Present) + Unsets(stack)
      /\ stack \in Seq(Frame) /\ Unsets(stack) \in Nat
      /\ Cardinality(Present) \in Nat /\ counter \in Int
  BY CountForm, UnsetsCount, PresentCount DEF CacheTypeOK
<1>2. SUFFICES counter' = Cardinality(Present') + Unsets(stack') \/ CountIsRaw'
  BY CountFormNext
<1>3. ASSUME NEW k \in Keys, NEW e \in Stamps, Store(k, e)
      PROVE  counter' = Cardinality(Present') + Unsets(stack')
  <2>1. Unsets(stack') = Unsets(stack)
    BY <1>3, RenewedUnsets DEF Store
  <2>2. Cardinality(Present') \in Nat
    BY <1>3, StoreCount
  <2>3. counter' \in Int
    BY <1>1, <1>3 DEF Store
  <2> QED
    BY <1>1, <1>3, <2>1, <2>2, <2>3, StoreCount
<1>4. ASSUME NEW k \in Keys, NEW ttl \in Ttls, Set(k, ttl)
      PROVE  counter' = Cardinality(Present') + Unsets(stack')
  BY <1>3, <1>4, DeadlineType DEF Set
<1>5. ASSUME NEW k \in Keys, NEW e \in Stamps, MergeEntry(k, e)
      PROVE  counter' = Cardinality(Present') + Unsets(stack')
  BY <1>3, <1>5 DEF MergeEntry
<1>6. ASSUME NEW k \in Keys, Unset(k)
      PROVE  counter' = Cardinality(Present') + Unsets(stack')
  <2>1. Cardinality(Present') = Cardinality(Present) - 1
    BY <1>6, RemovalCount DEF Unset
  <2> QED
    BY <1>1, <1>6, <2>1 DEF Unset
<1>7. ASSUME NEW k \in Keys, UnsetDestroys(k)
      PROVE  counter' = Cardinality(Present') + Unsets(stack')
  <2>1. Unsets(stack') = Unsets(stack) + 1
    BY <1>1, <1>7, FrameTypes, PushUnsets DEF UnsetDestroys
  <2>2. Cardinality(Present') = Cardinality(Present) - 1
    BY <1>7, RemovalCount DEF UnsetDestroys
  <2> QED
    BY <1>1, <1>7, <2>1, <2>2 DEF UnsetDestroys
<1>8. ASSUME NEW now \in Stamps, PruneExpired(now) PROVE CountIsRaw'
  BY <1>1, <1>8, FrameTypes, PruneTurnCount DEF PruneExpired
<1>9. CASE Free
  <2>1. Present' = {} /\ Cardinality(Present') = 0
    BY <1>9, FS_EmptySet DEF Free, Present
  <2>2. Unsets(stack') = 0
    BY <1>9, FS_EmptySet DEF Free, Unsets, UnsetFrames, Marked
  <2> QED
    BY <1>9, <2>1, <2>2 DEF Free
<1>10. CASE Resume
  <2>1. Head(stack) \in Frame /\ Tail(stack) \in Seq(Frame) /\ stack # << >>
        /\ Unsets(Tail(stack)) \in Nat
    BY <1>10, TopFrame, UnsetsCount DEF Resume
  <2>2. CASE Head(stack).op = "unset"
    <3>1. Unsets(Tail(stack)) = Unsets(stack) - 1
      BY <1>1, <2>1, <2>2, PopUnsets
    <3>2. counter' = counter - 1 /\ stack' = Tail(stack) /\ UNCHANGED expiresAt
      BY <1>10, <2>2 DEF Resume, UnsetResumes
    <3> QED
      BY <1>1, <3>1, <3>2, Untouched
  <2>3. CASE Head(stack).op = "prune"
    <3>1. Unsets(Tail(stack)) = Unsets(stack)
      BY <1>1, <2>1, <2>3, PopUnsets
    <3> QED
      BY <1>1, <1>10, <2>1, <2>3, <3>1, PruneTurnCount DEF Resume
  <2> QED
    BY <1>10, <2>2, <2>3, TopFrame DEF Resume
<1>11. CASE Tick
  BY <1>1, <1>11, Untouched DEF Tick
<1>12. CASE UNCHANGED cacheVars
  BY <1>1, <1>12, Untouched DEF cacheVars
<1> QED
  BY <1>4, <1>5, <1>6, <1>7, <1>8, <1>9, <1>10, <1>11, <1>12 DEF CacheNext

\* The counter of a STRING_TO_ENTRY object is right whatever the destructors do that
\* pruneExpired() and offsetUnset() run, at every depth of re-entrancy - but for a free()
\* by a destructor that offsetUnset() runs.
THEOREM CountCorrect ==
  ASSUME FreeInUnset = FALSE
  PROVE  CacheSpec => []CountIsRaw
<1>1. CacheInit => CacheTypeOK /\ CountIsRaw
  BY TypeInit, CountInit
<1>2. (CacheTypeOK /\ CountIsRaw) /\ [CacheNext]_cacheVars => (CacheTypeOK /\ CountIsRaw)'
  BY TypeStep, CountStep
<1> QED
  BY <1>1, <1>2, PTL DEF CacheSpec

-----------------------------------------------------------------------------
(* What pruneExpired() has passed.                                         *)

\* PruneSweeps of one frame.
Sweeps(f) == f.op = "prune" =>
  \A k \in Keys : (k < f.key /\ ExpiredAt(k, f.now)) => k \in f.renewed

LEMMA SweepsForm == /\ PruneSweeps <=> \A f \in Elements(stack) : Sweeps(f)
                    /\ PruneSweeps' <=> \A f \in Elements(stack') : Sweeps(f)'
BY DEF PruneSweeps, Sweeps, Elements

\* A frame stays swept where nothing of it is stored.
LEMMA StaysSwept ==
  ASSUME NEW f \in Frame, Sweeps(f),
         \A l \in Keys, now \in Stamps : ExpiredAt(l, now)' => ExpiredAt(l, now)
  PROVE  Sweeps(f)'
BY DEF Sweeps, Frame

\* Only stores can put back what is due, and they are on record.
LEMMA StoreSweeps ==
  ASSUME CacheTypeOK, PruneSweeps, NEW k \in Keys, NEW e \in Stamps, Store(k, e)
  PROVE  PruneSweeps'
<1>1. stack' = Renewed(k) /\ DOMAIN stack' = DOMAIN stack
  BY RenewedFrames DEF Store
<1>2. SUFFICES ASSUME NEW f \in Elements(stack') PROVE Sweeps(f)'
  BY SweepsForm
<1>3. PICK i \in DOMAIN stack : f = Renewed(k)[i]
  BY <1>1 DEF Elements
<1>4. /\ f.op = stack[i].op /\ f.key = stack[i].key /\ f.now = stack[i].now
      /\ stack[i].renewed \subseteq f.renewed
      /\ (stack[i].op = "prune" /\ k < stack[i].key) => k \in f.renewed
  BY <1>3, RenewedFrames
<1>5. f.now \in Stamps
  <2>1. stack[i] \in Frame
    BY DEF CacheTypeOK
  <2> QED
    BY <1>4, <2>1 DEF Frame
<1>6. SUFFICES ASSUME f.op = "prune", NEW l \in Keys, l < f.key, ExpiredAt(l, f.now)'
               PROVE  l \in f.renewed
  BY DEF Sweeps
<1>7. l = k \/ ExpiredAt(l, f.now)
  BY <1>5, <1>6, Storing DEF Store
<1> QED
  BY <1>4, <1>6, <1>7 DEF PruneSweeps

LEMMA PruneTurnSweeps ==
  ASSUME CacheTypeOK, NEW f \in Frame, Sweeps(f), NEW callers \in Seq(Frame),
         \A g \in Elements(callers) : Sweeps(g), PruneTurn(f, callers)
  PROVE  PruneSweeps'
<1>1. \A g \in Elements(callers) : g \in Frame
  BY DEF Elements
<1>2. CASE Due(f) = {}
  <2>1. stack' = callers /\ UNCHANGED expiresAt
    BY <1>2, PruneTurnStep
  <2>2. \A g \in Elements(callers) : Sweeps(g)'
    BY <2>1, <1>1, StaysSwept, Untouched
  <2> QED
    BY <2>1, <2>2, SweepsForm
<1>3. CASE Due(f) # {}
  <2>1. PICK k \in Due(f), h \in Frame :
               /\ \A l \in Due(f) : k <= l
               /\ k \in Keys /\ k \in Nat
               /\ expiresAt' = [expiresAt EXCEPT ![k] = ABSENT]
               /\ counter' = counter - 1
               /\ h.op = f.op /\ h.key = k + 1 /\ h.now = f.now /\ h.renewed = f.renewed
               /\ stack' = <<h>> \o callers
    BY <1>3, PruneTurnStep
  <2>2. \A l \in Keys, now \in Stamps : ExpiredAt(l, now)' => l # k /\ ExpiredAt(l, now)
    BY <2>1, Removal
  <2>3. \A g \in Elements(callers) : Sweeps(g)'
    BY <2>2, <1>1, StaysSwept
  <2>4. Sweeps(h)'
    <3> SUFFICES ASSUME f.op = "prune", NEW l \in Keys, l < k + 1, ExpiredAt(l, f.now)'
                 PROVE  l \in f.renewed
      BY <2>1 DEF Sweeps
    <3>1. f.now \in Stamps /\ f.key \in Nat /\ l \in Nat
      BY KeysAssumption DEF Frame
    <3>2. l # k /\ ExpiredAt(l, f.now)
      BY <2>2, <3>1
    <3>3. l < k
      BY <2>1, <3>1, <3>2
    <3>4. l < f.key
      BY <2>1, <3>1, <3>2, <3>3 DEF Due
    <3> QED
      BY <3>2, <3>4 DEF Sweeps
  <2>5. Elements(stack') = {h} \cup Elements(callers)
    BY <2>1, Push
  <2> QED
    BY <2>3, <2>4, <2>5, SweepsForm
<1> QED
  BY <1>2, <1>3

LEMMA SweepsStep == CacheTypeOK /\ PruneSweeps /\ [CacheNext]_cacheVars => PruneSweeps'
<1> SUFFICES ASSUME CacheTypeOK, PruneSweeps, [CacheNext]_cacheVars PROVE PruneSweeps'
  OBVIOUS
<1>1. stack \in Seq(Frame)
  BY DEF CacheTypeOK
<1>2. \A f \in Elements(stack) : f \in Frame /\ Sweeps(f)
  BY <1>1, SweepsForm DEF Elements
<1>3. ASSUME Elements(stack') \subseteq Elements(stack),
             \A l \in Keys, now \in Stamps : ExpiredAt(l, now)' => ExpiredAt(l, now)
      PROVE  PruneSweeps'
  BY <1>2, <1>3, StaysSwept, SweepsForm
<1>4. ASSUME NEW k \in Keys, NEW ttl \in Ttls, Set(k, ttl) PROVE PruneSweeps'
  BY <1>4, DeadlineType, StoreSweeps DEF Set
<1>5. ASSUME NEW k \in Keys, NEW e \in Stamps, MergeEntry(k, e) PROVE PruneSweeps'
  BY <1>5, StoreSweeps DEF MergeEntry
<1>6. ASSUME NEW k \in Keys, Unset(k) PROVE PruneSweeps'
  BY <1>3, <1>6, Removal DEF Unset
<1>7. ASSUME NEW k \in Keys, UnsetDestroys(k) PROVE PruneSweeps'
  <2>1. \A l \in Keys, now \in Stamps : ExpiredAt(l, now)' => ExpiredAt(l, now)
    BY <1>7, Removal DEF UnsetDestroys
  <2>2. Sweeps(UnsetFrame)'
    BY FrameTypes DEF Sweeps
  <2>3. Elements(stack') = {UnsetFrame} \cup Elements(stack)
    BY <1>1, <1>7, FrameTypes, Push DEF UnsetDestroys
  <2> QED
    BY <1>2, <2>1, <2>2, <2>3, StaysSwept, SweepsForm
<1>8. ASSUME NEW now \in Stamps, PruneExpired(now) PROVE PruneSweeps'
  <2>1. Sweeps(PruneFrame(now))
    BY FrameTypes, KeysAssumption DEF Sweeps
  <2> QED
    BY <1>1, <1>2, <1>8, <2>1, FrameTypes, PruneTurnSweeps DEF PruneExpired
<1>9. CASE Free
  BY <1>3, <1>9 DEF Free, ExpiredAt, Present
<1>10. CASE Resume
  <2>1. /\ Head(stack) \in Frame /\ Tail(stack) \in Seq(Frame) /\ stack # << >>
        /\ Elements(Tail(stack)) \subseteq Elements(stack) /\ Head(stack) \in Elements(stack)
    BY <1>1, <1>10, TopFrame, Pop DEF Resume
  <2>2. CASE Head(stack).op = "unset"
    <3>1. UNCHANGED expiresAt /\ stack' = Tail(stack)
      BY <1>10, <2>2 DEF Resume, UnsetResumes
    <3> QED
      BY <1>3, <2>1, <3>1, Untouched
  <2>3. CASE Head(stack).op # "unset"
    BY <1>2, <1>10, <2>1, <2>3, PruneTurnSweeps DEF Resume
  <2> QED
    BY <2>2, <2>3
<1>11. CASE Tick
  BY <1>3, <1>11, Untouched DEF Tick
<1>12. CASE UNCHANGED cacheVars
  BY <1>3, <1>12, Untouched DEF cacheVars
<1> QED
  BY <1>4, <1>5, <1>6, <1>7, <1>8, <1>9, <1>10, <1>11, <1>12 DEF CacheNext

\* However deeply pruneExpired() calls are nested in destructors, none leaves behind an
\* entry it was due to remove, unless a destructor stored it again behind the search.
THEOREM PruneCorrect == CacheSpec => []PruneSweeps
<1>1. CacheInit => CacheTypeOK /\ PruneSweeps
  BY TypeInit DEF CacheInit, PruneSweeps
<1>2. (CacheTypeOK /\ PruneSweeps) /\ [CacheNext]_cacheVars => (CacheTypeOK /\ PruneSweeps)'
  BY TypeStep, SweepsStep
<1> QED
  BY <1>1, <1>2, PTL DEF CacheSpec

-----------------------------------------------------------------------------
(* What pruneExpired() takes away.                                         *)

\* What is expired at a timestamp that is not in the future is expired now.
LEMMA DueIsExpired ==
  ASSUME CacheTypeOK, NEW f \in Frame, f.now <= Stamp(clock), NEW k \in Due(f)
  PROVE  k \notin Visible
<1>1. k \in Keys /\ k \in Present /\ expiresAt[k] # 0 /\ expiresAt[k] <= f.now
  BY DEF Due, ExpiredAt
<1>2. expiresAt[k] \in Nat /\ f.now \in Nat
  BY <1>1, StampsAreIntegers DEF CacheTypeOK, Present, Frame
<1>3. Stamp(clock) \in Nat
  <2>1. clock \in Int
    BY DEF CacheTypeOK
  <2> QED
    BY <2>1, StampType, StampsAreIntegers
<1>4. expiresAt[k] <= Stamp(clock)
  BY <1>1, <1>2, <1>3
<1> QED
  BY <1>1, <1>4 DEF Visible, ExpiredAt

LEMMA PruneTurnSpares ==
  ASSUME CacheTypeOK, NEW f \in Frame, f.now <= Stamp(clock), NEW callers \in Seq(Frame),
         PruneTurn(f, callers)
  PROVE  Visible \subseteq Present'
<1>1. Visible \subseteq Present
  BY DEF Visible
<1>2. CASE Due(f) = {}
  BY <1>1, <1>2, PruneTurnStep, Untouched
<1>3. CASE Due(f) # {}
  <2>1. PICK k \in Due(f) : k \in Keys /\ expiresAt' = [expiresAt EXCEPT ![k] = ABSENT]
    BY <1>3, PruneTurnStep
  <2>2. Present' = Present \ {k}
    BY <2>1, Removal
  <2>3. k \notin Visible
    BY <2>1, DueIsExpired
  <2> QED
    BY <1>1, <2>2, <2>3
<1> QED
  BY <1>2, <1>3

LEMMA SparesStep == CacheTypeOK /\ PruneSteps => Visible \subseteq Present'
<1> SUFFICES ASSUME CacheTypeOK, PruneSteps PROVE Visible \subseteq Present'
  OBVIOUS
<1>1. stack \in Seq(Frame) /\ Stamp(clock) \in Stamps
  BY StampType DEF CacheTypeOK
<1>2. ASSUME NEW now \in 0 .. Stamp(clock), PruneExpired(now)
      PROVE  Visible \subseteq Present'
  <2>1. now \in Stamps
    BY <1>1, ClockAssumption DEF Stamps
  <2>2. PruneFrame(now) \in Frame /\ PruneFrame(now).now <= Stamp(clock)
    BY <2>1, FrameTypes
  <2> QED
    BY <1>1, <1>2, <2>2, PruneTurnSpares DEF PruneExpired
<1>3. CASE stack # << >> /\ Head(stack).op = "prune" /\ Head(stack).now <= Stamp(clock) /\ Resume
  BY <1>3, TopFrame, PruneTurnSpares DEF Resume
<1> QED
  BY <1>2, <1>3 DEF PruneSteps

\* A pruneExpired() whose timestamp is not in the future takes away nothing that a
\* reader would be served, however far the clock has gone since it was captured.
THEOREM PruneSafe == CacheSpec => PruneSparesVisible
<1>1. CacheTypeOK /\ [CacheNext]_cacheVars => [PruneSteps => Visible \subseteq Present']_cacheVars
  BY SparesStep
<1> QED
  BY <1>1, CacheTypeCorrect, PTL DEF CacheSpec, PruneSparesVisible

=============================================================================
