---------------------------- MODULE JudyIntStore ----------------------------
(***************************************************************************)
(* An integer-keyed Judy object: its Judy1 or JudyL array, its population  *)
(* counter and the append watermark (next_empty, next_empty_is_valid) that *)
(* lets `$j[] = v` find its index without searching, under every operation *)
(* that adds or removes keys, with allocation failures and with user code  *)
(* re-entering the object from a cast, a serialization or a destructor.    *)
(*                                                                         *)
(* As in JudyStringStore, a handler that calls user code is a frame of the *)
(* stack and Resume runs the rest of it.  Only which keys are present is   *)
(* kept: no property here depends on the values.                           *)
(***************************************************************************)
EXTENDS Integers, Sequences, FiniteSets

CONSTANTS
  WORD_MAX,       \* the largest Word_t: keys are 0 .. WORD_MAX, in unsigned order
  Types,          \* the integer-keyed types the object may be built with
  MaxDepth,       \* bound: how many handlers can be suspended at once
  AllocFails,     \* may libJudy fail to allocate on an insert?
  NestedAppend,   \* may user code called by a handler append to this object?
  DirectInserts,  \* while the watermark is believed, does the program insert past
                  \* offsetSet(): by increment(), by mergeWith() on BITSET, by set
                  \* operations and slice()?
  Reloads,        \* is __unserialize() called on an object that holds something?
  ReplaceInUnset  \* may a destructor run by offsetUnset() free, reload or copy the
                  \* object?  The code lets it: offsetUnset() then lowers a counter
                  \* that no longer counts the key

IntegerTypes == {"BITSET", "INT_TO_INT", "INT_TO_MIXED", "INT_TO_PACKED"}

Words == 0 .. WORD_MAX

ASSUME WordAssumption == WORD_MAX \in Nat
ASSUME TypesAssumption == Types \subseteq IntegerTypes
ASSUME DepthAssumption == MaxDepth \in Nat
ASSUME SwitchAssumption == /\ AllocFails \in BOOLEAN
                           /\ NestedAppend \in BOOLEAN
                           /\ DirectInserts \in BOOLEAN
                           /\ Reloads \in BOOLEAN
                           /\ ReplaceInUnset \in BOOLEAN

VARIABLES
  type,             \* intern->type
  array,            \* the keys of intern->array
  counter,          \* intern->counter
  nextEmpty,        \* intern->next_empty
  nextEmptyIsValid, \* intern->next_empty_is_valid
  stack             \* the suspended handlers, innermost first

watermark == <<nextEmpty, nextEmptyIsValid>>
vars == <<type, array, counter, nextEmpty, nextEmptyIsValid, stack>>

-----------------------------------------------------------------------------
(* The stack of suspended handlers, and what user code may do.             *)

\* "calls" is FALSE while a loop is between two turns without having called user code.
Frame == [op : {"store", "unset", "range", "bulk", "reload"}, calls : BOOLEAN,
          key : Nat, last : Words, rest : SUBSET Words]

At(op, key) == [op |-> op, calls |-> TRUE, key |-> key, last |-> 0, rest |-> {}]

RangeAt(key, last, calls) ==
  [op |-> "range", calls |-> calls, key |-> key, last |-> last, rest |-> {}]

LoadOf(op, data, calls) ==
  [op |-> op, calls |-> calls, key |-> 0, last |-> 0, rest |-> data]

Suspend(f, callers) == stack' = <<f>> \o callers

HasRoom == Len(stack) < MaxDepth

UserCodeRuns == stack # <<>> => Head(stack).calls

MayAppend == UserCodeRuns /\ (NestedAppend \/ stack = <<>>)

MayInsertDirectly == DirectInserts \/ ~nextEmptyIsValid

UnsetFrames == {i \in DOMAIN stack : stack[i].op = "unset"}

MayReplace == UserCodeRuns /\ (ReplaceInUnset \/ UnsetFrames = {})

-----------------------------------------------------------------------------
(* The steps every handler is made of.                                     *)

\* J1S or JLI, and the counter if the key is new.
Insert(i) == /\ array' = array \cup {i}
             /\ counter' = IF i \in array THEN counter ELSE counter + 1

NoMemory(i) == AllocFails /\ i \notin array /\ UNCHANGED <<array, counter>>

\* judy_pack_value() finds a value that cannot be serialized: it is not stored.
NotPacked == type = "INT_TO_PACKED" /\ UNCHANGED <<array, counter>>

Store(i) == Insert(i) \/ NoMemory(i) \/ NotPacked

\* Mutant of Delete: the counter follows every attempt.
DeleteUngated(i) == array' = array \ {i} /\ counter' = counter - 1

\* J1U or JLD, and the counter if there was a key.
Delete(i) == /\ array' = array \ {i}
             /\ counter' = IF i \in array THEN counter - 1 ELSE counter

\* What J1L or JLL finds, plus one; 0 if it finds nothing.
OnePastHighest(i) == IF array = {} THEN i = 0
                     ELSE i - 1 \in array /\ \A k \in array : k < i

\* judy_resolve_append_index(): the cached watermark, or the result of a search.
\* Where no word satisfies this the key space is exhausted and the append throws.
Resolves(i) == IF nextEmptyIsValid THEN i = nextEmpty ELSE OnePastHighest(i)

\* Mutant of Advance: the end of the key space is not an end.
AdvanceUnbounded(i) == nextEmpty' = i + 1 /\ nextEmptyIsValid' = TRUE

\* Mutant of Advance: the watermark wraps to 0 at the end of the key space.
AdvanceWraps(i) == nextEmpty' = (i + 1) % (WORD_MAX + 1) /\ nextEmptyIsValid' = TRUE

\* It advances the watermark past the index, or drops it at the end of the key space.
Advance(i) == /\ nextEmpty' = IF i = WORD_MAX THEN nextEmpty ELSE i + 1
              /\ nextEmptyIsValid' = (i # WORD_MAX)

Invalidate == nextEmptyIsValid' = FALSE /\ UNCHANGED nextEmpty

\* What offsetSet() does once it has its index: types whose value has to be converted
\* may call user code first, a false BITSET value removes the index.
StoreAt(i) ==
  \/ /\ Store(i) /\ UNCHANGED stack
  \/ /\ type = "BITSET" /\ Delete(i) /\ UNCHANGED stack
  \/ /\ type \in {"INT_TO_INT", "INT_TO_PACKED"} /\ HasRoom
     /\ Suspend(At("store", i), stack)
     /\ UNCHANGED <<array, counter>>

-----------------------------------------------------------------------------
(* The operations.                                                         *)

\* $j[i] = v
Set(i) == UserCodeRuns /\ Invalidate /\ StoreAt(i) /\ UNCHANGED type

\* $j[] = v
AppendAt(i) == MayAppend /\ Resolves(i) /\ Advance(i) /\ StoreAt(i) /\ UNCHANGED type

StoreResumes(f) == Store(f.key) /\ stack' = Tail(stack) /\ UNCHANGED <<type, watermark>>

\* unset($j[i]): a zval is destroyed between the removal and the counter.
Unset(i) ==
  /\ UserCodeRuns /\ i \in array
  /\ IF type = "INT_TO_MIXED"
       THEN /\ HasRoom
            /\ array' = array \ {i} /\ UNCHANGED counter
            /\ Suspend(At("unset", i), stack)
       ELSE Delete(i) /\ UNCHANGED stack
  /\ UNCHANGED <<type, watermark>>

UnsetResumes == /\ counter' = counter - 1
                /\ stack' = Tail(stack)
                /\ UNCHANGED <<type, array, watermark>>

\* One turn of deleteRange()'s loop.  The search continues strictly past the deleted
\* key, and ends at the largest word.
InRange(from, last) == {k \in array : from <= k /\ k <= last}

\* Mutant of RangeTurn: the search continues at the deleted key, not past it.
RangeTurnReseeks(from, last, callers) ==
  IF InRange(from, last) = {}
    THEN stack' = callers /\ UNCHANGED <<array, counter>>
    ELSE \E k \in InRange(from, last) :
           /\ \A l \in InRange(from, last) : k <= l
           /\ Delete(k)
           /\ Suspend(RangeAt(k, last, type = "INT_TO_MIXED"), callers)

RangeTurn(from, last, callers) ==
  IF InRange(from, last) = {}
    THEN stack' = callers /\ UNCHANGED <<array, counter>>
    ELSE \E k \in InRange(from, last) :
           /\ \A l \in InRange(from, last) : k <= l
           /\ Delete(k)
           /\ Suspend(RangeAt(k + 1, last, type = "INT_TO_MIXED"), callers)

DeleteRange(from, last) == /\ UserCodeRuns /\ HasRoom /\ from <= last
                           /\ RangeTurn(from, last, stack)
                           /\ UNCHANGED <<type, watermark>>

RangeResumes(f) == /\ RangeTurn(f.key, f.last, Tail(stack))
                   /\ UNCHANGED <<type, watermark>>

\* Mutant of Load: the watermark is not invalidated.
LoadKeepsWatermark(data, callers) ==
  /\ Suspend(LoadOf("bulk", data, type # "INT_TO_MIXED"), callers)
  /\ UNCHANGED watermark

\* fromArray() and putAll(): the watermark is invalidated once, then every element is
\* inserted directly.  User code runs before each insert, to convert the element, or,
\* for zvals, after it, to destroy a replaced one.  The first failed allocation ends
\* the loop; a value that cannot be packed is skipped.
Load(data, callers) ==
  /\ Suspend(LoadOf("bulk", data, type # "INT_TO_MIXED"), callers)
  /\ Invalidate

PutAll(data) == /\ UserCodeRuns /\ HasRoom
                /\ Load(data, stack)
                /\ UNCHANGED <<type, array, counter>>

BulkResumes(f) ==
  LET after(i) == LoadOf("bulk", f.rest \ {i}, type = "INT_TO_MIXED" => i \in array)
  IN /\ IF f.rest = {} THEN stack' = Tail(stack) /\ UNCHANGED <<array, counter>>
        ELSE \E i \in f.rest : \/ /\ Insert(i) \/ NotPacked
                                  /\ Suspend(after(i), Tail(stack))
                               \/ /\ NoMemory(i)
                                  /\ stack' = Tail(stack)
     /\ UNCHANGED <<type, watermark>>

\* __unserialize(): the roots are detached and the counter zeroed, the old values are
\* destroyed, then the counter is zeroed again and the data loaded.
Unserialize(data) ==
  /\ MayReplace /\ HasRoom /\ (Reloads \/ array = {})
  /\ array' = {} /\ counter' = 0
  /\ IF type = "INT_TO_MIXED" /\ array # {}
       THEN Suspend(LoadOf("reload", data, TRUE), stack) /\ UNCHANGED watermark
       ELSE Load(data, stack)
  /\ UNCHANGED type

ReloadResumes(f) == /\ counter' = 0
                    /\ Load(f.rest, Tail(stack))
                    /\ UNCHANGED <<type, array>>

\* increment(): the key is inserted directly.
Increment(i) == /\ UserCodeRuns /\ MayInsertDirectly /\ type = "INT_TO_INT"
                /\ Insert(i) \/ NoMemory(i)
                /\ UNCHANGED <<type, watermark, stack>>

\* mergeWith() of two BITSETs: every index is inserted directly, one that finds no
\* memory is skipped without a word.
MergeWith(other) == /\ UserCodeRuns /\ MayInsertDirectly /\ type = "BITSET"
                    /\ \E added \in SUBSET (other \ array) :
                         /\ AllocFails \/ added = other \ array
                         /\ array' = array \cup added
                         /\ counter' = counter + Cardinality(added)
                    /\ UNCHANGED <<type, watermark, stack>>

\* free()
Free == /\ MayReplace
        /\ array' = {} /\ counter' = 0
        /\ UNCHANGED <<type, watermark, stack>>

\* The program goes on with another object made from this one; handlers suspended on
\* this one never touch it.  A clone takes the counter over and has no watermark.
Clone == /\ MayReplace
         /\ nextEmpty' = 0 /\ nextEmptyIsValid' = FALSE
         /\ stack' = <<>>
         /\ UNCHANGED <<type, array, counter>>

\* union(), intersect(), diff(), xor() and slice() insert directly into a new object,
\* whose watermark is the valid 0 that judy_object_new_ex() sets.
DerivedResult(keys) == /\ UserCodeRuns /\ (DirectInserts \/ keys = {})
                       /\ array' = keys /\ counter' = Cardinality(keys)
                       /\ nextEmpty' = 0 /\ nextEmptyIsValid' = TRUE
                       /\ stack' = <<>>
                       /\ UNCHANGED type

Resume == /\ stack # <<>>
          /\ LET f == Head(stack)
             IN CASE f.op = "store" -> StoreResumes(f)
                  [] f.op = "unset" -> UnsetResumes
                  [] f.op = "range" -> RangeResumes(f)
                  [] f.op = "bulk" -> BulkResumes(f)
                  [] f.op = "reload" -> ReloadResumes(f)

-----------------------------------------------------------------------------
Init == /\ type \in Types
        /\ array = {} /\ counter = 0
        /\ nextEmpty = 0 /\ nextEmptyIsValid = TRUE
        /\ stack = <<>>

Next == \/ \E i \in Words : Set(i) \/ AppendAt(i) \/ Unset(i) \/ Increment(i)
        \/ \E from, last \in Words : DeleteRange(from, last)
        \/ \E keys \in SUBSET Words : \/ PutAll(keys) \/ Unserialize(keys)
                                      \/ MergeWith(keys) \/ DerivedResult(keys)
        \/ Free
        \/ Clone
        \/ Resume

Spec == Init /\ [][Next]_vars

\* User code that a handler has called returns.
FairSpec == Spec /\ WF_vars(Resume)

-----------------------------------------------------------------------------
(* Properties.                                                             *)

\* Every field holds what its C type allows; a frame describes a handler that can be
\* suspended on the object.
TypeOK == /\ type \in Types
          /\ array \subseteq Words
          /\ counter \in Int
          /\ nextEmpty \in Words /\ nextEmptyIsValid \in BOOLEAN
          /\ stack \in Seq(Frame)

\* count() is the number of keys in the array (judy_debug_check_mirror(), check 1),
\* behind only by the offsetUnset() calls whose destructor is still running.  It holds
\* where no such destructor frees, reloads or copies the object (ReplaceInUnset) and no
\* object that holds something is reloaded (Reloads).
CounterAgrees == counter = Cardinality(array) + Cardinality(UnsetFrames)

\* A watermark that is believed lies above every key present, through explicit writes,
\* bulk loads, clones, failed inserts and the end of the key space.
WatermarkAbove == nextEmptyIsValid => \A k \in array : k < nextEmpty

\* An append picks an index that holds nothing: $j[] = v replaces no element that was
\* there when it began.  (The index is not looked at again: what the conversion of v
\* itself stores at it is replaced by v.)
AppendIsFresh == [][\A i \in Words : AppendAt(i) => i \notin array]_vars

\* The handlers return once the user code they call calls no more of them, whatever else
\* it does to the array: deleteRange() too, when a destructor puts the deleted key back
\* each time.
HandlersReturn == <>[][Len(stack') <= Len(stack)]_vars => []<>(stack = <<>>)

=============================================================================
