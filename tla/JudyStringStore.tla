-------------------------- MODULE JudyStringStore --------------------------
(***************************************************************************)
(* A string-keyed Judy object: the value store, the key_index that orders  *)
(* it, the payload mirrored into the key_index by optimizeIteration, the   *)
(* population counter and the byte counter, under every operation that     *)
(* writes them (offsetSet, increment, offsetUnset, deleteRange, free,      *)
(* clone), with allocation failures and with user code re-entering the     *)
(* object from a cast or a destructor.                                     *)
(*                                                                         *)
(* One PHP thread runs everything.  A handler that calls user code is      *)
(* suspended: its frame stays on the stack, any operation may be performed *)
(* on the object, and Resume runs the rest of the handler.  Code between   *)
(* two such calls is one step.                                             *)
(*                                                                         *)
(* A key is its rank in strcmp() order; a Judy array is a function on the  *)
(* keys that is ABSENT where the array has no slot.                        *)
(***************************************************************************)
EXTENDS Integers, Sequences, FiniteSets, FiniteSetsExt

CONSTANTS
  Keys,           \* the keys, by rank
  KeyLength,      \* the length of each key in bytes
  WordMax,        \* payloads are the words 0 .. WordMax
  ABSENT,         \* no slot
  NULL,           \* what a traversal emits under a listed key that has no slot
  Types,          \* the string-keyed types the object may be built with
  MaxDepth,       \* bound: how many handlers can be suspended at once
  AllocFails,     \* may libJudy fail to allocate on an insert?
  DeletesFail,    \* may libJudy fail (JERR) on a delete?
  OwnKeyReentry   \* may a destructor run by offsetUnset() write the very key
                  \* that is being unset, or free or clone the whole array?

PlainTypes    == {"STRING_TO_INT", "STRING_TO_MIXED", "STRING_TO_ENTRY"}
HashTypes     == {"STRING_TO_INT_HASH", "STRING_TO_MIXED_HASH"}
AdaptiveTypes == {"STRING_TO_INT_ADAPTIVE", "STRING_TO_MIXED_ADAPTIVE"}
IntTypes      == {"STRING_TO_INT", "STRING_TO_INT_HASH", "STRING_TO_INT_ADAPTIVE"}
StringTypes   == PlainTypes \cup HashTypes \cup AdaptiveTypes
MirrorTypes   == {"STRING_TO_INT_HASH", "STRING_TO_INT_ADAPTIVE"}

Values == 0 .. WordMax

ASSUME KeysAssumption == Keys \subseteq Nat /\ IsFiniteSet(Keys)
ASSUME LengthAssumption == KeyLength \in [Keys -> Nat]
ASSUME WordAssumption == /\ WordMax \in Nat /\ ABSENT \notin Values
                         /\ NULL \notin Values \cup {ABSENT}
ASSUME TypesAssumption == Types \subseteq StringTypes
ASSUME DepthAssumption == MaxDepth \in Nat
ASSUME SwitchAssumption == /\ AllocFails \in BOOLEAN
                           /\ DeletesFail \in BOOLEAN
                           /\ OwnKeyReentry \in BOOLEAN

VARIABLES
  type,       \* intern->type
  mirror,     \* intern->mirror_payload
  array,      \* intern->array: JudySL, JudyHS, or JudyL of the short keys
  hsArray,    \* intern->hs_array: JudyHS of an ADAPTIVE type's long keys
  keyIndex,   \* intern->key_index: JudySL, its value word 0 or the mirrored payload
  counter,    \* intern->counter
  bytes,      \* intern->approx_payload_bytes
  stack       \* the suspended handlers, innermost first

object == <<type, mirror, array, hsArray, keyIndex, counter, bytes>>
vars == <<type, mirror, array, hsArray, keyIndex, counter, bytes, stack>>

-----------------------------------------------------------------------------
(* Which structure holds a key.                                            *)

IntValued  == type \in IntTypes
KeyIndexed == type \in HashTypes \cup AdaptiveTypes
SSO_MAX_LEN == 8

InHsArray(k) == type \in AdaptiveTypes /\ KeyLength[k] >= SSO_MAX_LEN

Slot(k) == IF InHsArray(k) THEN hsArray[k] ELSE array[k]

Stored(k) == Slot(k) # ABSENT

Mirrors(k) == /\ mirror
              /\ type = "STRING_TO_INT_HASH" \/ KeyLength[k] >= SSO_MAX_LEN

Listed(k) == IF KeyIndexed THEN keyIndex[k] # ABSENT ELSE array[k] # ABSENT

\* What an ordered traversal emits under a key: a listed key whose slot is gone, as it
\* is while the destructor of its value runs, is emitted with null.
Traversed(k) == IF ~Listed(k) THEN ABSENT
                ELSE IF KeyIndexed /\ Mirrors(k) THEN keyIndex[k]
                ELSE IF Stored(k) THEN Slot(k) ELSE NULL

WordBytes  == 8
ZvalBytes  == 16
EntryBytes == 24

PayloadBytes(k) ==
  LET n == KeyLength[k]
      key == CASE type \in PlainTypes -> n + 1
               [] type \in HashTypes -> n + n + 1
               [] OTHER -> n + 1 + (IF n >= SSO_MAX_LEN THEN n ELSE 0)
      box == CASE type = "STRING_TO_ENTRY" -> EntryBytes
               [] IntValued -> 0
               [] OTHER -> ZvalBytes
  IN key + WordBytes + box

-----------------------------------------------------------------------------
(* The steps every handler is made of.                                     *)

SetSlot(k, w) ==
  /\ array' = IF InHsArray(k) THEN array ELSE [array EXCEPT ![k] = w]
  /\ hsArray' = IF InHsArray(k) THEN [hsArray EXCEPT ![k] = w] ELSE hsArray

CountIn(k) == /\ counter' = counter + 1
              /\ bytes' = bytes + PayloadBytes(k)

\* Mutant of CountOut: the payload total is not lowered.
CountOutKeepsBytes(k) == counter' = counter - 1 /\ UNCHANGED bytes

CountOut(k) == /\ counter' = counter - 1
               /\ bytes' = IF bytes > PayloadBytes(k) THEN bytes - PayloadBytes(k) ELSE 0

\* JSLD on key_index: the accounting follows only a removal that happened.
Unlist(k, done) ==
  IF done /\ keyIndex[k] # ABSENT
    THEN keyIndex' = [keyIndex EXCEPT ![k] = ABSENT] /\ CountOut(k)
    ELSE UNCHANGED <<keyIndex, counter, bytes>>

\* A mirrored instance asks key_index whether the key exists, others the value store.
IsNew(k) == IF Mirrors(k) THEN keyIndex[k] = ABSENT ELSE ~Stored(k)

\* Mutant of Inserted: the payload is mirrored only when the key is registered.
InsertedMirrorsOnce(k, v) ==
  /\ SetSlot(k, v)
  /\ keyIndex' = CASE ~KeyIndexed -> keyIndex
                   [] Mirrors(k) -> [keyIndex EXCEPT ![k] = IF @ = ABSENT THEN v ELSE @]
                   [] OTHER -> [keyIndex EXCEPT ![k] = IF @ = ABSENT THEN 0 ELSE @]
  /\ IF IsNew(k) THEN CountIn(k) ELSE UNCHANGED <<counter, bytes>>

Inserted(k, v) ==
  /\ SetSlot(k, v)
  /\ keyIndex' = CASE ~KeyIndexed -> keyIndex
                   [] Mirrors(k) -> [keyIndex EXCEPT ![k] = v]
                   [] OTHER -> [keyIndex EXCEPT ![k] = IF @ = ABSENT THEN 0 ELSE @]
  /\ IF IsNew(k) THEN CountIn(k) ELSE UNCHANGED <<counter, bytes>>

\* JLI, JSLI or JHSI on the value store finds no memory: nothing has happened.
ValueInsertFails(k) == /\ AllocFails /\ ~Stored(k)
                       /\ UNCHANGED <<array, hsArray, keyIndex, counter, bytes>>

\* Mutant of IndexInsertFails: the value stays in the value store.
IndexInsertFailsKeepsValue(k) == /\ AllocFails /\ KeyIndexed /\ IsNew(k)
                                 /\ keyIndex[k] = ABSENT
                                 /\ SetSlot(k, 0)
                                 /\ UNCHANGED <<keyIndex, counter, bytes>>

\* The value went in, the key_index registration did not: take the value out again.
IndexInsertFails(k) == /\ AllocFails /\ KeyIndexed /\ IsNew(k)
                       /\ keyIndex[k] = ABSENT
                       /\ SetSlot(k, ABSENT)
                       /\ UNCHANGED <<keyIndex, counter, bytes>>

Store(k, v) == /\ \/ Inserted(k, v)
                  \/ ValueInsertFails(k)
                  \/ IndexInsertFails(k)
               /\ UNCHANGED <<type, mirror>>

-----------------------------------------------------------------------------
(* The stack of suspended handlers, and what user code may do.             *)

\* "calls" is FALSE while deleteRange() is between two turns of its loop without
\* having called user code: it does so only to destroy a value.
Frame == [op : {"write", "unset", "range"}, calls : BOOLEAN, key : Nat, arg : Nat]

At(op, key, arg) == [op |-> op, calls |-> TRUE, key |-> key, arg |-> arg]

Suspend(f, callers) == stack' = <<f>> \o callers

UserCodeRuns == stack # <<>> => Head(stack).calls

HasRoom == Len(stack) < MaxDepth

BeingUnset == {stack[i].key : i \in {j \in DOMAIN stack : stack[j].op = "unset"}}

MayWrite(k) == UserCodeRuns /\ (OwnKeyReentry \/ k \notin BeingUnset)

MayReplaceAll == UserCodeRuns /\ (OwnKeyReentry \/ BeingUnset = {})

-----------------------------------------------------------------------------
(* The operations.                                                         *)

\* offsetSet() with a value whose conversion runs no user code.  A replaced zval
\* is destroyed last, so what its destructor does are operations that follow.
Write(k, v) == MayWrite(k) /\ Store(k, v) /\ UNCHANGED stack

\* offsetSet() on a word-valued type calls zval_get_long() before it takes the slot.
WriteCasts(k, v) == /\ UserCodeRuns /\ IntValued /\ HasRoom
                    /\ Suspend(At("write", k, v), stack)
                    /\ UNCHANGED object

WriteResumes(f) == Store(f.key, f.arg) /\ stack' = Tail(stack)

\* Mutant of Increment: the sum does not wrap.
IncrementUnbounded(k, n) ==
  /\ MayWrite(k) /\ type \in {"STRING_TO_INT", "STRING_TO_INT_HASH"}
  /\ Store(k, (IF Stored(k) THEN Slot(k) ELSE 0) + n)
  /\ UNCHANGED stack

\* increment(): the sum wraps at the word.
Increment(k, n) ==
  /\ MayWrite(k) /\ type \in {"STRING_TO_INT", "STRING_TO_INT_HASH"}
  /\ Store(k, ((IF Stored(k) THEN Slot(k) ELSE 0) + n) % (WordMax + 1))
  /\ UNCHANGED stack

DeleteOutcomes == IF DeletesFail THEN BOOLEAN ELSE {TRUE}

\* offsetUnset() of a word: no user code, both structures in one step.
UnsetWord(k) ==
  /\ UserCodeRuns /\ IntValued /\ Stored(k)
  /\ \E valueGone, indexGone \in DeleteOutcomes :
       /\ SetSlot(k, IF valueGone THEN ABSENT ELSE Slot(k))
       /\ IF KeyIndexed THEN Unlist(k, valueGone /\ indexGone)
          ELSE /\ UNCHANGED keyIndex
               /\ IF valueGone THEN CountOut(k) ELSE UNCHANGED <<counter, bytes>>
  /\ UNCHANGED <<type, mirror, stack>>

\* offsetUnset() of a zval or an entry: the slot goes, then the destructor runs,
\* and the key_index entry and the counters are settled only when it has returned.
UnsetZval(k) ==
  /\ UserCodeRuns /\ ~IntValued /\ HasRoom /\ Stored(k)
  /\ SetSlot(k, ABSENT)
  /\ Suspend(At("unset", k, 0), stack)
  /\ UNCHANGED <<type, mirror, keyIndex, counter, bytes>>

\* Mutant of UnsetResumes: the key is counted out whether or not it was still listed.
UnsetResumesUngated(f) ==
  /\ CountOut(f.key)
  /\ keyIndex' = IF KeyIndexed THEN [keyIndex EXCEPT ![f.key] = ABSENT] ELSE keyIndex
  /\ stack' = Tail(stack)
  /\ UNCHANGED <<type, mirror, array, hsArray>>

UnsetResumes(f) ==
  /\ IF KeyIndexed THEN Unlist(f.key, TRUE)
     ELSE CountOut(f.key) /\ UNCHANGED keyIndex
  /\ stack' = Tail(stack)
  /\ UNCHANGED <<type, mirror, array, hsArray>>

\* One turn of deleteRange()'s loop: find the first listed key of the range, take it
\* out of both structures, settle the counters, and only then run the destructor.
\* The frame holds where the search continues, strictly past the deleted key.
InRange(from, last) == {k \in Keys : from <= k /\ k <= last /\ Listed(k)}

RangeTurn(from, last, callers) ==
  IF InRange(from, last) = {} THEN stack' = callers /\ UNCHANGED object
  ELSE \E k \in InRange(from, last), valueGone, indexGone \in DeleteOutcomes :
         /\ \A l \in InRange(from, last) : k <= l
         /\ SetSlot(k, IF valueGone THEN ABSENT ELSE Slot(k))
         /\ IF KeyIndexed THEN Unlist(k, indexGone)
            ELSE /\ UNCHANGED keyIndex
                 /\ IF valueGone THEN CountOut(k) ELSE UNCHANGED <<counter, bytes>>
         /\ Suspend([At("range", k + 1, last) EXCEPT
                       !.calls = (~IntValued /\ Stored(k) /\ valueGone)], callers)
         /\ UNCHANGED <<type, mirror>>

DeleteRange(from, last) == /\ UserCodeRuns /\ HasRoom /\ from <= last
                            /\ RangeTurn(from, last, stack)

RangeResumes(f) == RangeTurn(f.key, f.arg, Tail(stack))

\* free(): the roots are detached and the counters zeroed before anything is destroyed.
NoKeys == [k \in Keys |-> ABSENT]

Free == /\ MayReplaceAll
        /\ array' = NoKeys /\ hsArray' = NoKeys /\ keyIndex' = NoKeys
        /\ counter' = 0 /\ bytes' = 0
        /\ UNCHANGED <<type, mirror, stack>>

\* The program goes on with a clone of the object; handlers suspended on the
\* original never touch the clone.  The copy is driven by key_index, the counters
\* are taken over.  (A copy that runs out of memory throws and leaves the program
\* with the original, unchanged.)
Cloned == {k \in Keys : Listed(k) /\ Stored(k)}

\* Mutant of Clone: the key_index words of the copy are left 0.
CloneUnmirrored == /\ MayReplaceAll
                   /\ array' = [k \in Keys |-> IF k \in Cloned THEN array[k] ELSE ABSENT]
                   /\ hsArray' = [k \in Keys |-> IF k \in Cloned THEN hsArray[k] ELSE ABSENT]
                   /\ keyIndex' = [k \in Keys |-> IF KeyIndexed /\ k \in Cloned THEN 0 ELSE ABSENT]
                   /\ stack' = <<>>
                   /\ UNCHANGED <<type, mirror, counter, bytes>>

Clone == /\ MayReplaceAll
         /\ array' = [k \in Keys |-> IF k \in Cloned THEN array[k] ELSE ABSENT]
         /\ hsArray' = [k \in Keys |-> IF k \in Cloned THEN hsArray[k] ELSE ABSENT]
         /\ keyIndex' = [k \in Keys |-> CASE ~KeyIndexed \/ k \notin Cloned -> ABSENT
                                          [] KeyIndexed /\ k \in Cloned /\ Mirrors(k) -> Slot(k)
                                          [] OTHER -> 0]
         /\ stack' = <<>>
         /\ UNCHANGED <<type, mirror, counter, bytes>>

Resume == /\ stack # <<>>
          /\ LET f == Head(stack)
             IN CASE f.op = "write" -> WriteResumes(f)
                  [] f.op = "unset" -> UnsetResumes(f)
                  [] f.op = "range" -> RangeResumes(f)

-----------------------------------------------------------------------------
Init == /\ type \in Types
        /\ mirror \in (IF type \in MirrorTypes THEN BOOLEAN ELSE {FALSE})
        /\ array = NoKeys /\ hsArray = NoKeys /\ keyIndex = NoKeys
        /\ counter = 0 /\ bytes = 0
        /\ stack = <<>>

Next == \/ \E k \in Keys, v \in Values : Write(k, v) \/ WriteCasts(k, v) \/ Increment(k, v)
        \/ \E k \in Keys : UnsetWord(k) \/ UnsetZval(k)
        \/ \E from, last \in Keys : DeleteRange(from, last)
        \/ Free
        \/ Clone
        \/ Resume

Spec == Init /\ [][Next]_vars

-----------------------------------------------------------------------------
(* Properties.                                                             *)

\* Every field holds what its C type allows; a frame describes a handler that
\* can be suspended on an object of this type.
TypeOK == /\ type \in Types
          /\ mirror \in BOOLEAN /\ (mirror => type \in MirrorTypes)
          /\ array \in [Keys -> Values \cup {ABSENT}]
          /\ hsArray \in [Keys -> Values \cup {ABSENT}]
          /\ keyIndex \in [Keys -> Values \cup {ABSENT}]
          /\ counter \in Int /\ bytes \in Nat
          /\ stack \in Seq(Frame)

\* The key_index and the value store hold the same keys, in both directions: what
\* judy_debug_check_mirror() asserts as its checks 2 and 3.  The only exception is
\* a key whose offsetUnset() is still waiting for the destructor to return.
IndexAgrees == KeyIndexed => \A k \in Keys : /\ Stored(k) => Listed(k)
                                             /\ Listed(k) => Stored(k) \/ k \in BeingUnset

UnsetFrames == {i \in DOMAIN stack : stack[i].op = "unset"}

\* The unsets that count() has still to follow: on the types with one store the key is
\* gone at once, and the counter is lowered when the destructor has returned.
Behind == IF KeyIndexed THEN 0 ELSE Cardinality(UnsetFrames)

\* count() is the number of keys an ordered traversal visits (check 1); on the types
\* with one store it is behind by exactly the offsetUnset() calls whose destructor runs.
CounterAgrees == counter = Cardinality({k \in Keys : Listed(k)}) + Behind

\* The payload mirrored into key_index is the payload stored (check 4), and where
\* nothing is mirrored the key_index word still is the 0 that JSLI left (check 5).
MirrorAgrees == \A k \in Keys : (KeyIndexed /\ Listed(k) /\ Stored(k))
                  => keyIndex[k] = IF Mirrors(k) THEN Slot(k) ELSE 0

\* memoryUsage() is exact for what it claims: the payload bytes of the keys counted,
\* never clamped and never drifting, whatever failed on the way.
BytesAgree == bytes = MapThenSumSet(PayloadBytes, {k \in Keys : Listed(k)})
                      + (IF KeyIndexed THEN 0 ELSE MapThenSumSet(LAMBDA i : PayloadBytes(stack[i].key), UnsetFrames))

\* On the types with two, the key being unset is listed until the destructor returns.
Leaving == {k \in Keys : Listed(k) /\ ~Stored(k)}

\* The four structures of an object are one map to everybody, re-entrant user code
\* included: every step of every handler changes offsetGet(), traversal and count() by
\* at most one key at a time or all keys at once, and they disagree only about a key
\* whose destructor offsetUnset() runs - which offsetGet() no longer has, and which is
\* either still counted and emitted with null, or emitted no more and still counted.
Map == INSTANCE JudyMap WITH map <- [k \in Keys |-> Slot(k)],
                             walked <- [k \in Keys |-> Traversed(k)],
                             counted <- counter,
                             leaving <- Leaving,
                             behind <- Behind
ImplementsMap == Map!Spec

-----------------------------------------------------------------------------
(* What judy_debug_check_mirror() asserts, and offsetUnset() does not keep. *)

\* "short key present in the value store is missing from key_index" never happens: with
\* no handler suspended, every stored key is listed.
StoredIsListed == stack = <<>> => \A k \in Keys : Stored(k) => Listed(k)

=============================================================================
