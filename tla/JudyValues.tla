---------------------------- MODULE JudyValues ----------------------------
(***************************************************************************)
(* The PHP values that a Judy object of a zval type holds, and who holds   *)
(* them: the slots, the copy that the Iterator methods keep, the elements  *)
(* that free() has detached and not destroyed yet, the arguments of a      *)
(* callback, a second Judy object.  Every one of them owns a reference,    *)
(* and gives it back with zval_ptr_dtor(), which runs the destructor of a  *)
(* value nobody else holds: user code that may do anything to the object.  *)
(*                                                                         *)
(* JudyStringStore and JudyIntStore are about the structures and counters, *)
(* and take a destructor for a moment in which something may happen; here  *)
(* it runs because the last reference went.                                *)
(*                                                                         *)
(* Handlers work as in those modules: one that has called zval_ptr_dtor()  *)
(* or a callback leaves a frame on the stack, user code runs while a       *)
(* destructor or a callback is on top, Resume goes on with the innermost.  *)
(***************************************************************************)
EXTENDS Integers, Sequences, FiniteSets, FiniteSetsExt

CONSTANTS
  Keys,           \* the keys, by rank
  Values,         \* PHP objects with a destructor
  Types,          \* the types the object may be built with
  MaxDepth,       \* bound: user code starts no handler on a stack deeper than this
  AllocFails,     \* may clone run out of memory?
  ScratchReentry, \* may a destructor run by free() use the object's key_scratch?
  DataReentry,    \* may a destructor run by next() or rewind() move the cursor?
  NONE            \* no value, no key

MixedTypes == {"INT_TO_MIXED", "STRING_TO_MIXED", "STRING_TO_ENTRY",
               "STRING_TO_MIXED_HASH", "STRING_TO_MIXED_ADAPTIVE"}

ASSUME KeysAssumption == Keys \subseteq Nat /\ Keys # {} /\ IsFiniteSet(Keys)
ASSUME ValuesAssumption == IsFiniteSet(Values) /\ NONE \notin Values \cup Keys
ASSUME TypesAssumption == Types \subseteq MixedTypes
ASSUME DepthAssumption == MaxDepth \in Nat
ASSUME SwitchAssumption ==
  AllocFails \in BOOLEAN /\ ScratchReentry \in BOOLEAN /\ DataReentry \in BOOLEAN

VARIABLES
  type,           \* intern->type
  slots,          \* the value under each key, NONE where there is no slot
  keyScratch,     \* intern->key_scratch: the buffer that string walks share
  iteratorKey,    \* intern->iterator_key
  iteratorData,   \* intern->iterator_data
  other,          \* the slots of a second object: a clone of this one
  refs,           \* the reference count of each value
  life,           \* what has become of each value
  variables,      \* the values that PHP variables hold
  stack           \* the suspended handlers, destructors and callbacks

object == <<type, slots, keyScratch, iteratorKey, iteratorData, other>>
vars == <<type, slots, keyScratch, iteratorKey, iteratorData, other,
          refs, life, variables, stack>>

\* Integer-keyed types walk with an index of their own, the others with key_scratch.
WalksScratch == type # "INT_TO_MIXED"

Empty == [k \in Keys |-> NONE]
Filled(a) == {k \in Keys : a[k] # NONE}
After(a, n) == {k \in Filled(a) : k > n}

-----------------------------------------------------------------------------
(* References (zval_ptr_dtor() and ZVAL_COPY(), of the engine).            *)

Plus(r, v) == [r EXCEPT ![v] = @ + 1]

\* One reference less than r says.  The last one runs the destructor, once in a life,
\* under a reference of the engine's own; rest is what goes on afterwards.
Release(r, v, rest) ==
  IF r[v] = 1 /\ life[v] = "live"
    THEN /\ refs' = r
         /\ life' = [life EXCEPT ![v] = "dying"]
         /\ stack' = <<[op |-> "dtor", value |-> v]>> \o rest
    ELSE /\ refs' = [r EXCEPT ![v] = @ - 1]
         /\ life' = IF r[v] = 1 THEN [life EXCEPT ![v] = "gone"] ELSE life
         /\ stack' = rest

ReleaseIfAny(r, v, rest) ==
  IF v # NONE THEN Release(r, v, rest)
  ELSE refs' = r /\ stack' = rest /\ UNCHANGED life

\* A value that its destructor has stored somewhere is freed all the same.
DtorReturnsAnyway(f, rest) ==
  /\ refs' = [refs EXCEPT ![f.value] = @ - 1]
  /\ life' = [life EXCEPT ![f.value] = "gone"]
  /\ stack' = rest
  /\ UNCHANGED <<object, variables>>

\* The destructor has returned: the value is freed unless somebody holds it by now.
DtorReturns(f, rest) ==
  /\ refs' = [refs EXCEPT ![f.value] = @ - 1]
  /\ life' = [life EXCEPT ![f.value] = IF refs[f.value] = 1 THEN "gone" ELSE "spent"]
  /\ stack' = rest
  /\ UNCHANGED <<object, variables>>

-----------------------------------------------------------------------------
(* Who holds what.                                                         *)

Suspended(ops) == {i \in DOMAIN stack : stack[i].op \in ops}

\* next(), rewind() and the object's own end destroy iterator_data where it stands.
DataGivenUp == Suspended({"move", "destroy"}) # {}

\* What judy_object_get_gc() tells the cycle collector the object refers to.
Reported(v) == Cardinality({k \in Keys : slots[k] = v}) + (IF iteratorData = v THEN 1 ELSE 0)

FrameHolds(f, v) ==
  IF f.op = "free" THEN Cardinality({k \in f.owed : f.arr[k] = v})
  ELSE IF f.op \in {"dtor", "each", "merged"} /\ f.value = v THEN 1 ELSE 0

Holders(v) ==
  Reported(v) - (IF DataGivenUp /\ iteratorData = v THEN 1 ELSE 0)
  + Cardinality({k \in Keys : other[k] = v})
  + (IF v \in variables THEN 1 ELSE 0)
  + MapThenSumSet(LAMBDA i : FrameHolds(stack[i], v), DOMAIN stack)

\* Nobody refers any more to an object that is being destroyed.
Alive == Suspended({"destroy", "destroyed"}) = {}

\* What user code can get at: its variables, $this of a running destructor, the
\* argument of a running callback, and what current() and offsetGet() return.
Reachable(v) == \/ v \in variables
                \/ \E i \in Suspended({"dtor", "each"}) : stack[i].value = v
                \/ v = iteratorData /\ ~DataGivenUp
                \/ \E k \in Keys : v = slots[k] /\ Alive

UserCodeRuns == stack # <<>> => Head(stack).op \in {"dtor", "each"}

MayCall == UserCodeRuns /\ Len(stack) <= MaxDepth

\* Is the second object one that filter() has not returned yet?
Building == \E i \in Suspended({"each", "eachnext"}) : stack[i].filters

OtherIsFree == /\ Filled(other) = {} /\ ~Building
               /\ Suspended({"merged", "mergenext"}) = {}

FreesWithScratch == \E i \in Suspended({"free"}) : stack[i].shared

MayUse == MayCall /\ Alive

MayUseScratch == MayUse /\ (WalksScratch /\ FreesWithScratch => ScratchReentry)

-----------------------------------------------------------------------------
(* Values come and go in the program.                                      *)

Create(v) == /\ MayCall
             /\ life[v] \in {"new", "gone"} /\ Holders(v) = 0
             /\ life' = [life EXCEPT ![v] = "live"]
             /\ refs' = [refs EXCEPT ![v] = 1]
             /\ variables' = variables \cup {v}
             /\ UNCHANGED <<object, stack>>

Forget(v) == /\ MayCall /\ v \in variables
             /\ variables' = variables \ {v}
             /\ Release(refs, v, stack)
             /\ UNCHANGED object

-----------------------------------------------------------------------------
(* Elements: offsetSet(), offsetUnset(), deleteRange().                    *)

\* The value is stored without a reference of its own.
StoreUncounted(k, v) ==
  /\ MayUse /\ Reachable(v)
  /\ slots' = [slots EXCEPT ![k] = v]
  /\ ReleaseIfAny(refs, slots[k], stack)
  /\ UNCHANGED <<type, keyScratch, iteratorKey, iteratorData, other, variables>>

\* The new value is in the slot before the old one is destroyed.
Store(k, v) == /\ MayUse /\ Reachable(v)
               /\ slots' = [slots EXCEPT ![k] = v]
               /\ ReleaseIfAny(Plus(refs, v), slots[k], stack)
               /\ UNCHANGED <<type, keyScratch, iteratorKey, iteratorData, other, variables>>

Unset(k) == /\ MayUse /\ slots[k] # NONE
            /\ slots' = [slots EXCEPT ![k] = NONE]
            /\ Release(refs, slots[k], stack)
            /\ UNCHANGED <<type, keyScratch, iteratorKey, iteratorData, other, variables>>

\* One turn: take the first element of the range out, then destroy it.  The search
\* goes on past its key, with a cursor of its own.
RangeTurn(from, last, rest) ==
  LET found == {k \in Filled(slots) : from <= k /\ k <= last}
  IN IF found = {} THEN stack' = rest /\ UNCHANGED <<object, refs, life, variables>>
     ELSE LET k == Min(found)
          IN /\ slots' = [slots EXCEPT ![k] = NONE]
             /\ Release(refs, slots[k], <<[op |-> "range", at |-> k + 1, last |-> last]>> \o rest)
             /\ UNCHANGED <<type, keyScratch, iteratorKey, iteratorData, other, variables>>

DeleteRange(from, last) == MayUse /\ from <= last /\ RangeTurn(from, last, stack)

-----------------------------------------------------------------------------
(* free(): the roots are detached, then the detached elements destroyed.   *)

\* Where the walk over a detached array is, and where it leaves the cursor.
FreeFrame(arr, owed, at, shared) ==
  [op |-> "free", arr |-> arr, owed |-> owed, at |-> at, shared |-> shared]

\* "owed" is a history: the elements that have not been destroyed yet.
FreeTurn(f, rest) ==
  LET at == IF f.shared THEN keyScratch ELSE f.at
      found == After(f.arr, at)
  IN IF found = {} THEN stack' = rest /\ UNCHANGED <<refs, life, keyScratch>>
     ELSE LET k == Min(found)
          IN /\ Release(refs, f.arr[k], <<FreeFrame(f.arr, f.owed \ {k}, k, f.shared)>> \o rest)
             /\ keyScratch' = IF f.shared THEN k ELSE keyScratch

BEFORE == -1

\* The elements are destroyed while the roots still lead to them.
FreeInPlace == /\ MayUseScratch /\ Filled(slots) # {}
               /\ keyScratch' = IF WalksScratch THEN BEFORE ELSE keyScratch
               /\ stack' = <<FreeFrame(slots, Filled(slots), BEFORE, WalksScratch)>> \o stack
               /\ UNCHANGED <<type, slots, iteratorKey, iteratorData, other, refs, life, variables>>

Free == /\ MayUseScratch /\ Filled(slots) # {}
        /\ slots' = Empty
        /\ keyScratch' = IF WalksScratch THEN BEFORE ELSE keyScratch
        /\ stack' = <<FreeFrame(slots, Filled(slots), BEFORE, WalksScratch)>> \o stack
        /\ UNCHANGED <<type, iteratorKey, iteratorData, other, refs, life, variables>>

\* The end of the object: its copies, then its elements; a new one takes its place.
Destroy == /\ stack = <<>>
           /\ ReleaseIfAny(refs, iteratorData, <<[op |-> "destroy"]>>)
           /\ UNCHANGED <<object, variables>>

DestroyResumes(rest) ==
  /\ iteratorKey' = NONE /\ iteratorData' = NONE
  /\ slots' = Empty /\ keyScratch' = BEFORE
  /\ stack' = <<FreeFrame(slots, Filled(slots), BEFORE, WalksScratch), [op |-> "destroyed"]>> \o rest
  /\ UNCHANGED <<type, other, refs, life, variables>>

-----------------------------------------------------------------------------
(* The Iterator methods, first() and searchNext().                         *)

\* The copy of the value is destroyed first; the move itself follows.
Move(goal) == /\ MayUseScratch
              /\ DataGivenUp => DataReentry
              /\ ReleaseIfAny(refs, iteratorData, <<[op |-> "move", goal |-> goal]>> \o stack)
              /\ UNCHANGED <<object, variables>>

Arrive(from) ==
  LET found == After(slots, from)
      k == IF found = {} THEN NONE ELSE Min(found)
  IN /\ iteratorKey' = k
     /\ iteratorData' = IF found = {} THEN NONE ELSE slots[k]
     /\ refs' = IF found = {} THEN refs ELSE Plus(refs, slots[k])
     /\ keyScratch' = IF ~WalksScratch THEN keyScratch ELSE IF found = {} THEN from ELSE k

MoveResumes(f, rest) ==
  /\ CASE f.goal = "rewind" -> Arrive(BEFORE)
       [] f.goal = "next" /\ iteratorKey # NONE -> Arrive(iteratorKey)
       [] f.goal = "next" /\ iteratorKey = NONE ->
            iteratorData' = NONE /\ UNCHANGED <<iteratorKey, keyScratch, refs>>
  /\ stack' = rest
  /\ UNCHANGED <<type, slots, other, life, variables>>

\* first() and searchNext() leave in key_scratch what they found, or what they were given.
Search(n) == /\ MayUseScratch /\ WalksScratch
             /\ \E found \in {After(slots, n - 1), After(slots, n)} :
                  keyScratch' = IF found = {} THEN n ELSE Min(found)
             /\ UNCHANGED <<type, slots, iteratorKey, iteratorData, other, refs, life, variables, stack>>

-----------------------------------------------------------------------------
(* forEach() and filter(): the callback runs on a copy of each element's   *)
(* value; filter() stores what it keeps in the object it will return.      *)

EachTurn(at, filters, rest) ==
  IF After(slots, at) = {} THEN stack' = rest /\ UNCHANGED <<object, refs, life, variables>>
  ELSE LET k == Min(After(slots, at))
       IN /\ refs' = Plus(refs, slots[k])
          /\ stack' = <<[op |-> "each", at |-> k, value |-> slots[k], filters |-> filters]>> \o rest
          /\ UNCHANGED <<object, life, variables>>

ForEach == MayUse /\ EachTurn(BEFORE, FALSE, stack)

Filter == MayUse /\ OtherIsFree /\ EachTurn(BEFORE, TRUE, stack)

\* The callback has returned or thrown; its argument is destroyed either way.
EachReturns(f, rest) ==
  LET next == <<[op |-> "eachnext", at |-> f.at, filters |-> f.filters]>> \o rest
  IN /\ \/ Release(refs, f.value, next) /\ UNCHANGED other
        \/ /\ f.filters
           /\ other' = [other EXCEPT ![f.at] = f.value]
           /\ Release(Plus(refs, f.value), f.value, next)
        \/ /\ other' = IF f.filters THEN Empty ELSE other
           /\ Release(refs, f.value,
                IF f.filters THEN <<FreeFrame(other, Filled(other), BEFORE, FALSE)>> \o rest ELSE rest)
     /\ UNCHANGED <<type, slots, keyScratch, iteratorKey, iteratorData, variables>>

-----------------------------------------------------------------------------
(* A second object: clone, mergeWith(), and its free().                    *)

\* A copy that runs out of memory destroys what it has made: values that the original
\* still holds, so that no destructor runs.
Clone == /\ MayUseScratch /\ OtherIsFree
         /\ \/ /\ other' = slots
               /\ refs' = [v \in Values |-> refs[v] + Cardinality({k \in Keys : slots[k] = v})]
            \/ AllocFails /\ UNCHANGED <<other, refs>>
         /\ keyScratch' = IF WalksScratch /\ Filled(slots) # {} THEN Max(Filled(slots))
                          ELSE keyScratch
         /\ UNCHANGED <<type, slots, iteratorKey, iteratorData, life, variables, stack>>

FreeOther == /\ MayCall /\ Filled(other) # {} /\ ~Building
             /\ other' = Empty
             /\ stack' = <<FreeFrame(other, Filled(other), BEFORE, FALSE)>> \o stack
             /\ UNCHANGED <<type, slots, keyScratch, iteratorKey, iteratorData, refs, life, variables>>

\* One turn: copy the value, write it as offsetSet() does, drop the copy.
MergeTurn(at, rest) ==
  IF After(other, at) = {} THEN stack' = rest /\ UNCHANGED <<object, refs, life, variables>>
  ELSE LET k == Min(After(other, at))
           v == other[k]
       IN /\ slots' = [slots EXCEPT ![k] = v]
          /\ ReleaseIfAny(Plus(Plus(refs, v), v), slots[k],
                          <<[op |-> "merged", at |-> k, value |-> v]>> \o rest)
          /\ UNCHANGED <<type, keyScratch, iteratorKey, iteratorData, other, variables>>

MergeWith == MayUse /\ ~Building /\ MergeTurn(BEFORE, stack)

MergeResumes(f, rest) ==
  \E throws \in BOOLEAN :
    /\ Release(refs, f.value,
               IF throws THEN rest ELSE <<[op |-> "mergenext", at |-> f.at]>> \o rest)
    /\ UNCHANGED <<object, variables>>

-----------------------------------------------------------------------------
Resume == /\ stack # <<>>
          /\ LET f == Head(stack)
                 rest == Tail(stack)
             IN CASE f.op = "dtor" -> DtorReturns(f, rest)
                  [] f.op = "range" -> RangeTurn(f.at, f.last, rest)
                  [] f.op = "free" -> /\ FreeTurn(f, rest)
                                      /\ UNCHANGED <<type, slots, iteratorKey, iteratorData, other, variables>>
                  [] f.op = "destroy" -> DestroyResumes(rest)
                  [] f.op = "destroyed" -> /\ stack' = rest
                                           /\ UNCHANGED <<object, refs, life, variables>>
                  [] f.op = "move" -> MoveResumes(f, rest)
                  [] f.op = "each" -> EachReturns(f, rest)
                  [] f.op = "eachnext" -> EachTurn(f.at, f.filters, rest)
                  [] f.op = "merged" -> MergeResumes(f, rest)
                  [] f.op = "mergenext" -> MergeTurn(f.at, rest)

Init == /\ type \in Types
        /\ slots = Empty /\ other = Empty
        /\ keyScratch = BEFORE
        /\ iteratorKey = NONE /\ iteratorData = NONE
        /\ refs = [v \in Values |-> 0]
        /\ life = [v \in Values |-> "new"]
        /\ variables = {}
        /\ stack = <<>>

Next == \/ \E v \in Values : Create(v) \/ Forget(v)
        \/ \E k \in Keys, v \in Values : Store(k, v)
        \/ \E k \in Keys : Unset(k) \/ Search(k)
        \/ \E from, last \in Keys : DeleteRange(from, last)
        \/ \E goal \in {"next", "rewind"} : Move(goal)
        \/ Free \/ Destroy \/ FreeOther \/ Clone \/ ForEach \/ Filter \/ MergeWith
        \/ Resume

Spec == Init /\ [][Next]_vars

-----------------------------------------------------------------------------
(* Properties.                                                             *)

\* Every field holds what its C type allows.
TypeOK == /\ type \in Types
          /\ slots \in [Keys -> Values \cup {NONE}] /\ other \in [Keys -> Values \cup {NONE}]
          /\ keyScratch \in Keys \cup {BEFORE}
          /\ iteratorKey \in Keys \cup {NONE} /\ iteratorData \in Values \cup {NONE}
          /\ refs \in [Values -> Nat]
          /\ life \in [Values -> {"new", "live", "dying", "spent", "gone"}]
          /\ variables \subseteq Values

\* Every reference is given back exactly once: whatever destructors and callbacks do to
\* the object, a value's count is the number of its holders, so that nothing is leaked
\* and nothing destroyed while it is still in a slot, in the iterator, in what free()
\* has detached or in a handler's hands.
RefsAgree == \A v \in Values : refs[v] = Holders(v)

\* A value is freed exactly when the last reference is gone.
FreedWhenUnheld == \A v \in Values : life[v] \in {"new", "gone"} <=> refs[v] = 0

=============================================================================
