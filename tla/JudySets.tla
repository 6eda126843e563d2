------------------------------ MODULE JudySets ------------------------------
(***************************************************************************)
(* Judy::union(), intersect(), diff(), xor() and slice(): loops that walk  *)
(* one or two operands in key order and insert into a new object, the      *)
(* result, which is returned, or destroyed when an insert finds no memory. *)
(* No user code runs in the middle of a loop, so that one behaviour is one *)
(* call, a step per turn, on every pair of operands.                       *)
(*                                                                         *)
(* An operand is a function to words, NONE where a key is absent; a result *)
(* is what the code keeps of it: slots, key_index, counters, copies.       *)
(***************************************************************************)
EXTENDS Integers, FiniteSets, FiniteSetsExt

CONSTANTS
  Keys,        \* the keys of the operands, by rank
  Words,       \* what a slot may hold
  Types,       \* the types the operands may have
  LongKeys,    \* the keys too long for the value store that ADAPTIVE types pack
  Bytes,       \* what an entry under each key adds to approx_payload_bytes
  AllocFails,  \* may an insert run out of memory?
  NONE         \* no slot

SetTypes == {"BITSET", "INT_TO_INT", "STRING_TO_INT", "STRING_TO_INT_HASH",
             "STRING_TO_INT_ADAPTIVE"}
CopyTypes == {"INT_TO_MIXED", "INT_TO_PACKED", "STRING_TO_MIXED", "STRING_TO_ENTRY",
              "STRING_TO_MIXED_HASH", "STRING_TO_MIXED_ADAPTIVE"}
IntegerKeyed == {"BITSET", "INT_TO_INT", "INT_TO_MIXED", "INT_TO_PACKED"}
Adaptive == {"STRING_TO_INT_ADAPTIVE", "STRING_TO_MIXED_ADAPTIVE"}
Indexed == {"STRING_TO_INT_HASH", "STRING_TO_MIXED_HASH"} \cup Adaptive
Mirroring == {"STRING_TO_INT_HASH", "STRING_TO_INT_ADAPTIVE"}

ASSUME KeysAssumption == Keys \subseteq Nat /\ IsFiniteSet(Keys) /\ LongKeys \subseteq Keys
ASSUME WordsAssumption == Words \subseteq Nat /\ 0 \in Words /\ 1 \in Words /\ NONE \notin Nat
ASSUME TypesAssumption == Types \subseteq SetTypes \cup CopyTypes
ASSUME BytesAssumption == Bytes \in [Keys -> Nat]
ASSUME SwitchAssumption == AllocFails \in BOOLEAN

VARIABLES
  method,      \* the operation
  type,        \* the type of both operands and of the result
  mirrors,     \* intern->mirror_payload, which the result takes over
  left,        \* $this
  right,       \* the argument
  range,       \* the bounds of slice()
  walk,        \* which loop is running, or how the call ended
  at,          \* the loop's position
  result,      \* the value store of the result
  index,       \* its key_index: the word kept with each key
  counter,     \* its counter
  bytes,       \* its approx_payload_bytes
  copies,      \* values that were copied for it and not destroyed
  refused      \* history: keys whose insert found no memory

operands == <<method, type, mirrors, left, right, range>>
made == <<result, index, counter, bytes, copies>>
vars == <<operands, made, walk, at, refused>>

Empty == [k \in Keys |-> NONE]
Filled(a) == {k \in Keys : a[k] # NONE}
BEFORE == -1

-----------------------------------------------------------------------------
(* The loops.                                                              *)

\* BITSET unions take $this first; the others let its values win by taking it last.
LeftFirst == method # "union" \/ type = "BITSET"

\* intersect() of integer-keyed operands walks the smaller one.
WalksRight == /\ method = "intersect" /\ type \in IntegerKeyed
              /\ Cardinality(Filled(left)) > Cardinality(Filled(right))

Walked == IF WalksRight \/ ((walk = "first") # LeftFirst) THEN right ELSE left
Probed == IF WalksRight \/ ((walk = "first") # LeftFirst) THEN left ELSE right

Ahead == {k \in Filled(Walked) : k > at /\ (method = "slice" => range[1] <= k /\ k <= range[2])}

Wanted(k) == CASE method \in {"union", "slice"} -> TRUE
               [] method = "intersect" -> Probed[k] # NONE
               [] method \in {"diff", "xor"} -> Probed[k] = NONE

\* intersect() takes the value it comes across.
ValueWalked(k) == Walked[k]

\* Where intersect() walks the argument it still takes the value of $this.
Value(k) == IF WalksRight THEN Probed[k] ELSE Walked[k]

TwoLoops == method \in {"union", "xor"}

-----------------------------------------------------------------------------
(* An insert into the result.                                              *)

KeepsPayload(k) == mirrors /\ (type \in Adaptive => k \in LongKeys)

IsNew(k) == IF KeepsPayload(k) THEN index[k] = NONE ELSE result[k] = NONE

\* The second loop of a union counts every key.
CountsAgain(k) == CASE type = "BITSET" -> result[k] = NONE
                    [] type \in SetTypes \ {"BITSET", "INT_TO_INT"} /\ method # "slice" -> IsNew(k)
                    [] OTHER -> TRUE

\* Some loops know that the key is new, and count without asking.
Counts(k) == CASE type = "BITSET" -> result[k] = NONE
               [] method = "slice" -> TRUE
               [] type = "INT_TO_INT" -> walk = "first" \/ method # "union" \/ result[k] = NONE
               [] OTHER -> IsNew(k)

Stored(k, v) ==
  /\ result' = [result EXCEPT ![k] = v]
  /\ index' = IF type \notin Indexed THEN index
              ELSE [index EXCEPT ![k] = IF KeepsPayload(k) THEN v ELSE IF IsNew(k) THEN 0 ELSE @]
  /\ counter' = counter + (IF Counts(k) THEN 1 ELSE 0)
  /\ bytes' = bytes + (IF type \notin IntegerKeyed /\ Counts(k) THEN Bytes[k] ELSE 0)
  /\ copies' = copies + (IF type \in CopyTypes THEN 1 ELSE 0)
  /\ UNCHANGED <<walk, refused>>

\* The string loops of the set operations do not look at what the insert returns.
Throws == method = "slice" \/ type \in IntegerKeyed

\* The values that free() finds: through the key_index, where there is one.
Found == IF type \in Indexed THEN Filled(index) \cap Filled(result) ELSE Filled(result)

Destroyed == /\ result' = Empty /\ index' = Empty
             /\ counter' = 0 /\ bytes' = 0
             /\ copies' = copies - (IF type \in CopyTypes THEN Cardinality(Found) ELSE 0)

\* The copy is not destroyed when its key finds no room in the key_index.
RefusedLeaks(k) ==
  /\ AllocFails /\ result[k] = NONE
  /\ refused' = refused \cup {k}
  /\ IF ~Throws THEN UNCHANGED <<made, walk>>
     ELSE /\ walk' = "thrown" /\ result' = Empty /\ index' = Empty
          /\ counter' = 0 /\ bytes' = 0
          /\ copies' = IF type \in CopyTypes THEN copies + 1 - Cardinality(Found) ELSE 0

\* A copy is destroyed also where the value store had no room for it.
RefusedUndoesNothing(k) ==
  /\ AllocFails /\ result[k] = NONE
  /\ refused' = refused \cup {k}
  /\ IF ~Throws THEN UNCHANGED <<made, walk>>
     ELSE /\ walk' = "thrown" /\ result' = Empty /\ index' = Empty
          /\ counter' = 0 /\ bytes' = 0
          /\ copies' = IF type \in CopyTypes THEN copies - 1 - Cardinality(Found) ELSE 0

\* The value store or, with the slot taken back, the key_index has no room.  The slot
\* of a key that is in the result already is found without an allocation.
Refused(k) == /\ AllocFails /\ result[k] = NONE
              /\ refused' = refused \cup {k}
              /\ IF Throws THEN walk' = "thrown" /\ Destroyed
                 ELSE UNCHANGED <<made, walk>>

\* The search for the next key starts at the key itself.
TurnInPlace == /\ walk \in {"first", "second"}
               /\ \E k \in Ahead :
                    /\ \A j \in Ahead : k <= j
                    /\ at' = k - 1
                    /\ \/ Wanted(k) /\ (Stored(k, Value(k)) \/ Refused(k))
                       \/ ~Wanted(k) /\ UNCHANGED <<made, walk, refused>>
               /\ UNCHANGED operands

Turn == /\ walk \in {"first", "second"}
        /\ \E k \in Ahead :
             /\ \A j \in Ahead : k <= j
             /\ at' = k
             /\ \/ Wanted(k) /\ (Stored(k, Value(k)) \/ Refused(k))
                \/ ~Wanted(k) /\ UNCHANGED <<made, walk, refused>>
        /\ UNCHANGED operands

EndOfLoop == /\ walk \in {"first", "second"} /\ Ahead = {}
             /\ walk' = IF TwoLoops /\ walk = "first" THEN "second" ELSE "returned"
             /\ at' = BEFORE
             /\ UNCHANGED <<operands, made, refused>>

-----------------------------------------------------------------------------
Operands(t) == [Keys -> {NONE} \cup IF t = "BITSET" THEN {1} ELSE Words]

Init == /\ type \in Types
        /\ method \in {"union", "intersect", "diff", "xor", "slice"}
        /\ method # "slice" => type \in SetTypes
        /\ mirrors \in BOOLEAN /\ (mirrors => type \in Mirroring)
        /\ left \in Operands(type)
        /\ right \in IF method = "slice" THEN {Empty} ELSE Operands(type)
        /\ range \in IF method = "slice" THEN Keys \X Keys ELSE {<<0, 0>>}
        /\ walk = "first" /\ at = BEFORE
        /\ result = Empty /\ index = Empty
        /\ counter = 0 /\ bytes = 0 /\ copies = 0
        /\ refused = {}

Next == Turn \/ EndOfLoop

Spec == Init /\ [][Next]_vars

\* The loops run in one thread and are not interrupted.
FairSpec == Spec /\ WF_vars(Next)

-----------------------------------------------------------------------------
(* Properties.                                                             *)

\* Every field holds what its C type allows.
TypeOK == /\ left \in Operands(type) /\ right \in Operands(type)
          /\ walk \in {"first", "second", "returned", "thrown"}
          /\ at \in Keys \cup {BEFORE}
          /\ result \in Operands(type)
          /\ index \in [Keys -> Words \cup {NONE}]
          /\ counter \in Nat /\ bytes \in Nat /\ copies \in Nat
          /\ refused \subseteq Keys

\* What the operation is to return, as the comments on the loops and the tests have it:
\* in a union the values of $this win.
Reference(k) ==
  CASE method = "union" -> IF left[k] # NONE THEN left[k] ELSE right[k]
    [] method = "intersect" -> IF right[k] # NONE THEN left[k] ELSE NONE
    [] method = "diff" -> IF right[k] = NONE THEN left[k] ELSE NONE
    [] method = "xor" -> IF left[k] = NONE THEN right[k]
                         ELSE IF right[k] = NONE THEN left[k] ELSE NONE
    [] method = "slice" -> IF range[1] <= k /\ k <= range[2] THEN left[k] ELSE NONE

\* What is returned is the union, intersection, difference or range of the operands,
\* value by value and however the loops share the work between them.  The string loops
\* may return it without a key that found no memory, but with no other value under it.
\* (Which value a union is to give a key of both operands is taken from the code's own
\* comments and tests; the API documents say the other: OtherOverwrites.)
ReturnedIsExact ==
  walk = "returned" =>
    \A k \in Keys : \/ result[k] = Reference(k)
                    \/ ~Throws /\ k \in refused /\ result[k] = NONE

\* In the middle of every loop, the result is an object that can be handed out or
\* destroyed: key_index, mirrored payloads and counters are those of its slots.
ResultAgrees ==
  /\ counter = Cardinality(Filled(result))
  /\ type \in Indexed => /\ Filled(index) = Filled(result)
                         /\ \A k \in Filled(index) :
                              index[k] = IF KeepsPayload(k) THEN result[k] ELSE 0
  /\ type \notin IntegerKeyed =>
       bytes = MapThenSumSet(LAMBDA k : Bytes[k], Filled(result))

\* Every value that slice() copies belongs to a slot of the result, or has been
\* destroyed with it: running out of memory leaks nothing.
CopiesOwned == copies = IF type \in CopyTypes THEN Cardinality(Filled(result)) ELSE 0

\* Every call ends.
CallEnds == <>(walk \in {"returned", "thrown"})

-----------------------------------------------------------------------------
(* What the API documents say of union(), and the code does not do.        *)

\* "values from the other array overwrite on duplicate keys": a union of integer-valued
\* objects holds the argument's value under every key that both have.
OtherOverwrites ==
  (walk = "returned" /\ method = "union" /\ type \in SetTypes \ {"BITSET"}) =>
    \A k \in Filled(left) \cap Filled(right) : result[k] = right[k]

=============================================================================
