----------------------------- MODULE JudyCursor -----------------------------
(***************************************************************************)
(* A walk over a Judy object that changes under it: the Iterator methods   *)
(* rewind(), next(), valid(), key() on the cursor every object has, or the *)
(* iterator that foreach and the SPL decorators (IteratorIterator, ...)    *)
(* get, whose functions they may call in any order.                        *)
(*                                                                         *)
(* Both cursors hold a copy of the key they are at and search the array    *)
(* from there, so the walk is composed with JudyEntryCache: what an object *)
(* of a type without expiry holds are entries that never expire.           *)
(***************************************************************************)
EXTENDS JudyEntryCache

CONSTANTS
  Types,  \* the types the object may be built with
  NONE    \* an undefined key (IS_UNDEF)

\* The integer- and string-keyed types without expiry walk alike; INT_TO_INT stands
\* for them.
WalkedTypes == {"BITSET", "INT_TO_INT", "STRING_TO_ENTRY"}

ASSUME WalkedAssumption == Types \subseteq WalkedTypes
ASSUME NoneAssumption == NONE \notin Int

VARIABLES
  type,        \* intern->type
  iterator,    \* which of the two cursors walks the object: "methods" or "foreach"
  iteratorKey, \* intern->iterator_key, or key of the judy_iterator
  valid,       \* intern->iterator_initialized, or valid of the judy_iterator
  iteratorData,\* is intern->iterator_data, or data of the judy_iterator, defined?
  owed         \* history: what has been in the object, unexpired, since the walk began
               \* and has not been visited

cursorVars == <<iteratorKey, valid, iteratorData>>
vars == <<clock, expiresAt, counter, stack, type, iterator, iteratorKey, valid,
          iteratorData, owed>>

-----------------------------------------------------------------------------
(* The steps of the two cursors.                                           *)

\* The cursor moves to the first of the keys found, if there is one.
MovesTo(found) == /\ iteratorKey' \in found
                  /\ \A k \in found : iteratorKey' <= k
                  /\ valid' = TRUE /\ iteratorData' = TRUE

Ends == iteratorKey' = NONE /\ valid' = FALSE /\ iteratorData' = FALSE

\* Every step of a cursor destroys its copy of the value first.
Stays == iteratorData' = FALSE /\ UNCHANGED <<iteratorKey, valid>>

\* J1F, JLF, JSLF and J1N, JLN, JSLN, and the loop that passes over expired entries.
Seek(found) == IF found = {} THEN Ends ELSE MovesTo(found)

\* Mutant of Past: the search is inclusive.
PastInclusive(key) == {k \in Visible : key <= k}

\* Mutant of Past: expired entries are not passed over.
PastExpiredToo(key) == {k \in Present : key < k}

Past(key) == {k \in Visible : key < k}

\* rewind()
MethodsRewind == Seek(Visible)

\* Mutant of MethodsNext: the walk ends at a key that has been removed.
MethodsNextNeedsKey ==
  IF valid /\ iteratorKey # NONE
    THEN IF iteratorKey \in Present THEN Seek(Past(iteratorKey)) ELSE Ends
    ELSE Stays

\* next() does nothing without a position.
MethodsNext == IF valid /\ iteratorKey # NONE THEN Seek(Past(iteratorKey))
               ELSE Stays

\* Mutant of ForeachRewind: expired entries are not passed over.
ForeachRewindExpiredToo == IF Present = {} /\ type # "BITSET" THEN Stays
                           ELSE Seek(Present)

\* judy_iterator_rewind(): only BITSET clears the key and the flag if nothing is found.
ForeachRewind == IF Visible = {} /\ type # "BITSET" THEN Stays
                 ELSE Seek(Visible)

\* judy_iterator_move_forward(): without a key it starts again from the first.
ForeachNext == Seek(IF iteratorKey = NONE THEN Visible ELSE Past(iteratorKey))

-----------------------------------------------------------------------------
(* The walk.                                                               *)

\* Once the cursor has started from the first entry, everything else is owed.
Starts == owed' = Visible \ {iteratorKey'}

GoesOn == owed' = owed \ {iteratorKey'}

Rewind == /\ UserCodeRuns
          /\ IF iterator = "methods" THEN MethodsRewind ELSE ForeachRewind
          /\ Starts
          /\ UNCHANGED <<cacheVars, type, iterator>>

NextKey == /\ UserCodeRuns
           /\ IF iterator = "methods" THEN MethodsNext /\ GoesOn
              ELSE ForeachNext /\ (IF iteratorKey = NONE THEN Starts ELSE GoesOn)
           /\ UNCHANGED <<cacheVars, type, iterator>>

\* judy_get_iterator(): a new foreach has an iterator of its own.
GetIterator == /\ UserCodeRuns /\ iterator = "foreach"
               /\ Ends /\ owed' = {}
               /\ UNCHANGED <<cacheVars, type, iterator>>

\* The operations of a type without expiry, as far as a cursor can tell.
PlainStep == \/ \E k \in Keys : Set(k, 0) \/ Unset(k)
             \/ Free

\* Anything else the program, a destructor or the clock does.
ObjectStep == /\ IF type = "STRING_TO_ENTRY" THEN CacheNext ELSE PlainStep
              /\ owed' = owed \cap Visible'
              /\ UNCHANGED <<type, iterator, cursorVars>>

Init == /\ CacheInit
        /\ type \in Types
        /\ iterator \in {"methods", "foreach"}
        /\ iteratorKey = NONE /\ valid = FALSE /\ iteratorData = FALSE
        /\ owed = {}

Next == Rewind \/ NextKey \/ GetIterator \/ ObjectStep

Spec == Init /\ [][Next]_vars

\* User code that a handler has called returns.
Returns == /\ Resume
           /\ owed' = owed \cap Visible'
           /\ UNCHANGED <<type, iterator, cursorVars>>

FairSpec == Spec /\ WF_vars(Returns)

-----------------------------------------------------------------------------
(* Properties.                                                             *)

\* Every field holds what its C type allows.
TypeOK == /\ CacheTypeOK
          /\ type \in Types /\ iterator \in {"methods", "foreach"}
          /\ iteratorKey \in Keys \cup {NONE}
          /\ valid \in BOOLEAN /\ iteratorData \in BOOLEAN
          /\ owed \subseteq Keys

\* A walk skips nothing: what stays in the object, unexpired, from the rewind on lies
\* ahead of the cursor until it is visited, and nothing of it is left when the walk
\* ends, whatever is stored, removed, pruned or freed meanwhile, the current key included.
NothingSkipped == IF valid THEN \A k \in owed : iteratorKey < k ELSE owed = {}

\* A walk serves no key twice and none out of order: next() moves strictly forward or
\* ends, so a foreach ends however its body changes the object.
MovesForward == [][(NextKey /\ valid) => (~valid' \/ iteratorKey < iteratorKey')]_vars

\* The rewind that leaves the cursor where it was: a foreach iterator, of any type but
\* BITSET, finds nothing to serve.
RewindFindsNothing == /\ Rewind /\ Visible = {}
                      /\ iterator = "foreach" /\ type # "BITSET"

\* Traversals agree with get() and isset(): a key that a rewind or next() arrives at, of
\* either cursor, is one they would serve, whatever has expired since it was stored and
\* at the head of the walk too.  The only step that may leave a cursor valid at another
\* key is the rewind that finds nothing.
ServesVisible ==
  [][(valid' /\ (NextKey \/ (Rewind /\ ~RewindFindsNothing))) => iteratorKey' \in Visible]_vars

-----------------------------------------------------------------------------
(* What a comment of the code says, and that rewind does not keep.         *)

\* "an all-expired array iterates as empty": once everything in the object has expired, a
\* rewind is at no position.
AllExpiredIsEmpty == [][(Rewind /\ Present # {} /\ Visible = {}) => ~valid']_vars

=============================================================================
