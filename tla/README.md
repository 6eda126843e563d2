# A TLA+ model of php-judy

php-judy is a PHP extension that wraps libjudy's sparse arrays in one class, `Judy`. An
object has one of eleven types, chosen at construction, and is used like a PHP array: read,
written, unset, iterated, counted, copied, serialized. These modules model how the extension
keeps the several structures behind one object in step, which is where it can go wrong: every
operation is sequential C code, but most of them call back into PHP code in the middle. They
also model libjudy itself, which is vendored in `libjudy/`: its trees change their form with
every few keys, any allocation may fail on the way, and what it answers then is what the
extension builds on.

## The system

### Components

| component | code | state | operations |
|---|---|---|---|
| string-keyed store | `php_judy.c` 653-1570, `judy_arrayaccess.c` | `array` (JudySL / JudyHS / JudyL), `hs_array`, `key_index`, `mirror_payload`, `counter`, `approx_payload_bytes` | offsetGet/Set/Exists/Unset, increment, deleteRange, free, clone |
| integer-keyed store | same | `array` (Judy1 / JudyL), `counter` | the same, and bulk loads |
| append watermark | `php_judy.c` 1027-1091 | `next_empty`, `next_empty_is_valid` | `$j[] = v` |
| bulk loads | `php_judy.c` 5884-6111 | none of its own | fromArray, putAll, `__unserialize` |
| clone | `judy_handlers.c` 24-370 | none of its own | clone |
| deleteRange | `php_judy.c` 4827-5120 | a private cursor | deleteRange |
| Iterator methods, cursors | `php_judy.c` 2097-2930 | `iterator_key`, `iterator_data`, `iterator_initialized` | rewind, valid, current, key, next, first, last, prev, ... |
| foreach | `judy_iterator.c` | its own key, value and `valid` | the five iterator functions |
| set operations and slice | `php_judy.c` 2940-3935 | a result object | union, intersect, diff, xor, slice |
| callback walks, mergeWith | `php_judy.c` 5124-5490, 5615-5790 | a position | forEach, filter, map, mergeWith |
| expiring entries | `php_judy.c` 6304-6680 | value, flags, expiry per entry | set, get, getEntry, getExpiry, getFlags, pruneExpired |
| bulk reads | `php_judy.c` 3947-4820 | none | keys, values, toArray, sums, counts, equals |
| teardown and GC | `php_judy.c` 63-218, 363-445 | a shared key buffer, references to values | free, destruction, cycle collection |
| packed values | `php_judy.c` 220-330 | none | pack, unpack |
| mirror checker | `php_judy.c` 1923-2093 | none | asserts five invariants in debug builds |
| Judy1, JudyL | `libjudy/src/JudyCommon` | a tree of Judy pointers, its counts | set, unset, get, first/next/last/prev, their Empty forms, count, by-count, free |
| JudySL, JudyHS | `libjudy/src/JudySL`, `JudyHS` | trees of JudyL arrays | get, insert, delete, walks (JudySL), free |

The `status` of each entry under "components" in `PROJECT.json` says whether it is modelled.

### How the components interact

There is one PHP thread. Everything interacts through one `struct _judy_object` and through
*re-entrancy*: a handler calls `zval_get_long()` (a cast may run an error handler), a
serializer (`__serialize`), `zval_ptr_dtor()` (a destructor) or a callback, and that user code
may perform any operation on the very object the handler is in the middle of changing. The
handler then goes on with what it had read or decided before the call. This is the
concurrency of this program, and it is what the modules are built around.

### What is hard

- *Two structures per key.* HASH and ADAPTIVE types keep the value in an unordered array and
  the key in an ordered `key_index`. Each of the two updates can fail on its own, and a
  destructor can run between them. With `optimizeIteration` the payload too is kept twice.
- *References.* A zval belongs to a slot, a cursor's copy, a callback's argument, a clone or to
  what `free()` has detached; each gives it back once, and giving it back may run user code.
- *Changing forms.* A Judy expanse is an immediate, a leaf, a bitmap, a full bitmap without any
  memory or one of three branches. It grows and shrinks at different sizes, skips levels
  (narrow pointers), and keeps populations that every count and every delete trusts.
- *Allocations that fail half way* through such a change, or between the two arrays of an object.
- *Counters kept beside the structures.* `count()` and the payload bytes of `memoryUsage()`
  are never recomputed.
- *A cached position.* The append watermark is believed as long as nobody invalidates it, and
  the last word of the key space has no successor.
- *Loops around user code.* `deleteRange()`, the bulk loads and teardown call destructors
  between their turns and must survive, and end, whatever those do.
- *Key-based cursors.* Iteration resumes from a copied key after arbitrary changes.

### What makes each component correct

- String-keyed store: the value store and the `key_index` hold the same keys; the mirrored
  payload equals the payload; the counter is the number of listed keys; the byte total is the
  sum over the counted keys; together: the object is one map.
- Integer-keyed store: the counter is the population.
- Watermark: an append picks an index that holds nothing.
- deleteRange, bulk loads: they return.
- Iteration: a traversal visits in order, without repetition, every key that stays.
- Set operations: the result is the set-theoretic one. Whose value a union gives a key of both
  operands is a question the repository answers twice: `php_judy.c` 2973 and 3043 and the tests
  say those of `$this`, `Judy.stub.php` 181 and `API.md` 304 say those of the other array.
- Entries: an expired entry is invisible to every reader, and pruning removes exactly those.
- Values: every reference is given back once, whatever the destructors do.
- libjudy: an array is one map; lookups, walks, searches for empty indexes and counts agree;
  a call that runs out of memory changes nothing and leaks nothing.

## The modules

### JudyMap

What an object promises to PHP code: one map, of which `offsetGet()` (`map`), an ordered
traversal (`walked`) and `count()` (`counted`) are three readings. They change together in every
step, and the specification says all that a caller may ever see them disagree about, which is
the keys whose destructor `offsetUnset()` is running: `offsetGet()` has no longer any of them,
and each is either `leaving` (still walked, with null as its value, and counted) or one of those
that `count()` is `behind` by (gone from the traversal, and still counted). `Unset` starts such
an interval, `Remove` and `CatchUp` end it. A key that is leaving cannot be stored.

### JudyStringStore

The seven string-keyed types. A key is its rank in `strcmp()` order and has a length, because
the ADAPTIVE types store keys shorter than 8 bytes (`JUDY_SSO_MAX_LEN`) in a JudyL and longer
ones in a JudyHS, and because the lengths are what `memoryUsage()` adds up. A Judy array is a
function that is `ABSENT` where there is no slot; `Slot(k)` picks the structure that holds the
key, as `judy_string_value_slot()` does. A word-valued slot holds the word, a zval slot stands
for whether there is one: no property depends on which zval it is. `Traversed(k)` is what
keys(), toArray() and foreach emit: `ABSENT` if the key is not listed, and `NULL` under a listed
key without a value slot, which MIXED_HASH and MIXED_ADAPTIVE objects have while a destructor
runs (`php_judy.c` 4155, 4188-4193, 4276-4281, `judy_iterator.c` 304-314). `Leaving` and
`Behind` are the two kinds of disagreement of `JudyMap`: one for the types with a `key_index`,
the other for those with one store.

Actions: `Write` (offsetSet without a cast), `WriteCasts` / `WriteResumes` (with one: the
handler is suspended in `zval_get_long()` before it takes the slot), `Increment`, `UnsetWord`,
`UnsetZval` / `UnsetResumes` (the destructor runs between the removal of the slot and the
settling of `key_index` and counters), `DeleteRange` / `RangeResumes` (one turn of the loop
each), `Free`, `Clone`, `Resume`. `Store` has three outcomes: stored, no memory in the value
store, no memory in the `key_index` (the value is taken out again, `php_judy.c` 881-888).

A handler that has called user code is a record on `stack`. While one is there, any other
action may happen (user code), and `Resume` runs the rest of the innermost handler. A frame
with `calls = FALSE` is a loop between two turns without user code, so nothing may interleave.

The switches: `AllocFails` and `DeletesFail` are libJudy's two failures (`PJERR`, `JERR`).
`DeletesFail` is off in every run: with it, `offsetUnset()` takes the value out, fails to take
the key out of the `key_index` and leaves a listed key without a value (see known limits).
`OwnKeyReentry` lets a destructor run by `offsetUnset()` write the very key being unset, or
free or clone the array; the code does not survive that (see StringUnsetRewrite), so the
passing run excludes it.

### JudyIntStore

The four integer-keyed types: which keys are present, the counter, and the watermark. Values
are left out, because nothing here depends on them. Words are `0 .. WORD_MAX`, so that the end
of the key space is within reach.

Actions: `Set`, `AppendAt` (the index is resolved and the watermark advanced *before* the
value is converted, `php_judy.c` 1122-1163), `StoreResumes`, `Unset` / `UnsetResumes`,
`DeleteRange` / `RangeResumes`, `PutAll` / `BulkResumes` (fromArray is putAll on a new object),
`Unserialize` / `ReloadResumes`, `Increment`, `MergeWith`, `Free`, `Clone`, `DerivedResult`
(union, intersect, diff, xor and slice insert into a new object; the program goes on with it).

The switches: `AllocFails`; `NestedAppend`, whether user code called by a handler appends;
`DirectInserts`, whether the operations that insert behind the watermark's back are used while
the watermark is believed (while it is not, they always are); `Reloads`, whether
`__unserialize()` is called on an object in use; `ReplaceInUnset`, whether a destructor run by
`offsetUnset()` frees, reloads or copies the object. `DirectInserts` is on in IntAppendDerived;
the other three are named below as what the code does not survive, and are off in every run.

### JudyEntryCache

A STRING_TO_ENTRY object: `expiresAt` gives the deadline of each entry (`ABSENT` where there is
none, 0 for never), `clock` is `time(NULL)`, and a deadline is taken modulo `STAMPS`, as the
cast to `uint32_t` does. Every reader of the code asks `judy_entry_is_expired()`, which reads
the clock at that moment: what they are served is `Visible`, and expired entries stay in
`Present` and in `count()` until something removes them.

Actions: `Set` (also offsetSet, which clears the expiry: ttl 0), `MergeEntry` (mergeWith copies
an entry with its deadline, past ones too), `Unset`, `UnsetDestroys` / `UnsetResumes` (the
destructor runs before the counter is settled), `PruneExpired` and, through `Resume`, one
`PruneTurn` per entry removed (with an explicit timestamp, past or future, or the clock's),
`Free`, `Tick`. Between two turns of pruneExpired() the destructor of the value may do any of
these, pruneExpired() included. A turn after a value without a destructor comes at once:
`UserCodeRuns` lets nothing in between but the clock. The frame's `renewed` is a history of
what was stored behind the search.

`FreeInUnset` lets a destructor run by `offsetUnset()` free the object. It is off in every run:
the counter would go below zero (see known limits).

### JudyCursor

A walk over an object while it changes. It EXTENDS JudyEntryCache: `ObjectStep` is any step of
that module for a STRING_TO_ENTRY object, and for the other types the steps without expiry and
without suspended handlers, which is all a cursor can tell of them. `iterator` says which of
the two implementations walks: the Iterator methods on the object's own cursor
(`iterator_key`, `iterator_initialized`, `php_judy.c` 2325-2544), or the iterator of foreach
and of the SPL decorators (`judy_iterator.c`), which call its functions in any order and
number. `iteratorKey`, `valid` and `iteratorData` are the fields both have.

The two differ, and the model keeps the differences: `next()` does nothing without a position,
`judy_iterator_move_forward()` starts again from the first key; a rewind that finds nothing
clears a method cursor, but of a foreach iterator only that of a BITSET. `ServesVisible` speaks
of every step of both cursors but that one (`RewindFindsNothing`), the first key of a foreach
included; what the comments of the code say of that rewind is `AllExpiredIsEmpty`, and
CursorAllExpired refutes it.

`owed` is a history variable: what has been visible ever since the walk started and has not
been visited. `NothingSkipped` says where it must be: ahead of the cursor, and nowhere once the
walk has ended.

### JudyValues

Who holds the PHP values of the zval types. `slots` is the object, `other` a second one (a
clone, or what `filter()` is building), `iteratorData` the copy that the Iterator methods keep,
`variables` what PHP variables hold, and `refs` the reference counts. `Release` is
`zval_ptr_dtor()`: the last reference makes the value `dying` and puts its destructor on the
stack, where it may do anything the program may do. `Holders(v)` counts who refers to a value;
it contains `Reported(v)`, which is what `get_gc()` tells the cycle collector.

Actions: `Create`, `Forget`, `Store`, `Unset`, `DeleteRange`, `Free`, `Destroy`, `Move` (next
and rewind: the old copy is destroyed *before* the cursor moves), `Search`, `ForEach`, `Filter`,
`Clone`, `FreeOther`, `MergeWith`, and `Resume` for the turns of all of these.

`Free` detaches the roots and then walks what it has detached, string types with the object's
shared `key_scratch`. `ScratchReentry` lets a destructor run by it use that buffer through
first(), searchNext(), next(), rewind(), clone or another free(): see ValuesScratch.
`DataReentry` lets a destructor run by next() or rewind() move the same cursor; see known
limits.

### JudySets

union, intersect, diff, xor and slice. No user code runs in their loops, so one behaviour is
one call, a step per turn, and Init chooses the operation, the type and both operands. The
module keeps what the code decides turn by turn: which operand is walked, which probed, whether
the key is counted without asking, whether a failed insert throws (integer types, slice) or is
ignored (the string loops of the set operations, which then return without that key).
`Reference` is what the call should return; for a union it takes the side of the code's comments
and tests, the values of `$this`. SetsUnion refutes the side of the API documents.

### JudyTree, JudyInsert, JudyReads, JudyDelete, JudyArray, IndexMap

One Judy1 or JudyL array. A Judy pointer is a record; `JudyTree` has its forms, sizes and
memory, `JudyInsert` what `JudyIns.c`, `JudyInsertBranch.c`, `JudyCascade.c` and
`JudyCreateBranch.c` do, `JudyDelete` `JudyDel.c` and `JudyDecascade.c` and `JudyFreeArray.c`,
`JudyReads` `JudyGet.c`, `JudyPrevNext.c`, `JudyPrevNextEmpty.c`, `JudyCount.c` and
`JudyByCount.c`. `JudyArray` is the state machine: a caller that sets and unsets indexes of a
small pool in an array where others are already set (`Fill`), each call with a number of
malloc()s that succeed (`Budgets`); and it reads everything back after every call. `IndexMap` is what an
array promises; `ImplementsMap` is the refinement.

An insertion or deletion is one recursive operator that returns the new pointer, the answer and
the memory, with every failure of an allocation where the code has it, because the C functions
are recursive and nothing runs between their steps. Digits are octal and there are four levels
instead of eight bytes; leaf, immediate and branch limits are scaled down with them, keeping
their order and the differences between Judy1 and JudyL, so that every form and every
transition between two forms is reached by a few calls.

`FailAtRoot` lets malloc() fail while the root turns from a leaf into a tree or back. The
library does not survive that (`TreeRoot.cfg`), so Tree keeps it off; what such a tree does
afterwards is not followed.

### JudyWords, JudySL, JudyHS, JudyHashArrays

The string arrays. A tree is a function from paths (the JudyL indexes on the way from the root
pointer) to slots: a null pointer or the root of a JudyL array, a shortcut leaf, or a value. A
JudyL array is thus the set of the paths one index longer, and is taken for the map that Tree
shows it to be. `JudyWords` has what the two libraries share: look up, grow, carry the string of
a leaf down, delete and free. They differ in the key they make of a string (`SLKey`, `HSKey`):
its way, and at which levels a shortcut leaf may hold the rest of it, in how many bytes.
`JudySL` spells a string word by word and has the walks; `JudyHS` goes by length, by hash value
(`HashRange`) if the string is longer than a word, and then by words. The C functions loop over
the levels; here the levels of a call are a set, of which it takes the first or last that fits,
so that nothing is recursive and the trees can be proved about.

The strings come in pools (`Pools`), of which an object uses one; walks also start from
`Probes`. All are in `Strings`, a constant set of byte sequences.

`JudyHashArrays` composes the two as a STRING_TO_INT_HASH object with `optimizeIteration` does:
`array` is the JudyHS, `keyIndex` the JudySL, and `Set`, `Unset` and `Free` are the handlers of
`php_judy.c` with the two trees below them. `FailAnywhere` lets an allocation also fail where
the libraries lose a string: while an old string is carried down (`HashArraysNoMem.cfg`), in an
unset, and in the rollback of a failed insert.

### MC modules, proofs and lemmas

Each `MC` module gives the constants of its component values. `DataLemmas` has the facts about
stacks, sums and finite sets that the proof modules cite; `JudyStringStore_proofs`,
`JudyIntStore_proofs`, `JudyEntryCache_proofs`, `JudyCursor_proofs`, `JudyValues_proofs`,
`JudySets_proofs` and `JudyHashArrays_proofs` hold the theorems.

## The runs

| run | question | what may happen | what it shows |
|---|---|---|---|
| StringStore | are the structures of a string object one map? | all seven types, failing inserts, casts and destructors that re-enter at depth 3, on other keys than the one being unset | `IndexAgrees`, `CounterAgrees`, `MirrorAgrees`, `BytesAgree` hold but for the `offsetUnset()` calls still waiting, and the store implements `JudyMap`: nothing else is ever out of step for re-entrant code |
| StringUnsetRewrite | ... and if the destructor writes the same key? | `OwnKeyReentry` | a stored key is left out of the `key_index` for good |
| IntAppend | does an append ever pick an index that is taken; is `count()` right; do the loops end? | failing inserts, re-entrancy without nested appends, destructors of `offsetUnset()` that do not replace the object, depth 2 | no, yes and yes, up to and past the end of the key space |
| IntAppendDerived | ... after inserts that bypass offsetSet()? | `DirectInserts` | an append picks an index that is taken, and replaces what is there |
| CursorWalks | does a walk over a changing object miss, repeat or show anything it should not, and does pruneExpired() remove what it should? | both cursors, the three kinds of types, past and future deadlines, destructors at depth 2 | all eight properties hold |
| CursorAllExpired | ... and if everything has expired before a rewind? | one entry, both cursors | a foreach iterator stays valid at the expired key |
| Values | is every value given back once and freed when nobody holds it? | destructors and callbacks that do anything, at depth 2, a clone that runs out of memory | yes, with `ScratchReentry` and `DataReentry` off |
| ValuesScratch | ... and if a destructor run by free() searches in the object? | `ScratchReentry` | an element is destroyed twice or never |
| Sets | do the set operations and slice() return what they should? | all pairs of operands, any insert failing | yes, in the middle of each loop too, and nothing copied is leaked |
| SetsUnion | ... and does a union take the other's values, as the API documents say? | INT_TO_INT, one key, two words | no, those of `$this` |
| Tree | are Judy1 and JudyL maps? | every form of expanse, any malloc() failing | yes: `WellFormed`, `Accounted`, `NextAgrees`, `EmptyAgrees`, `CountAgrees`, `AnswersTell`, `ImplementsMap` |
| HashArrays | are the JudyHS and JudySL arrays of an object one map? | strings that share words, end in one, or collide; failing allocations | yes; no leaks, no dead ends but those of failed inserts, correct walks |

The violated properties state what comments, assertions and API documents of the repository
say; the findings in `PROJECT.json` quote them:

- StringUnsetRewrite: `offsetUnset()` runs the destructor before it settles the `key_index`.
- IntAppendDerived: `increment()`, mergeWith() of BITSETs and the set operations insert without
  invalidating the watermark.
- CursorAllExpired: "an all-expired array iterates as empty" (`judy_iterator.c` 214-216), but
  `judy_iterator_rewind()` leaves `valid` and the key as they were when it finds nothing.
- SetsUnion: "values from the other array overwrite on duplicate keys" (`Judy.stub.php` 181,
  `API.md` 304), but `union()` stores those of `$this` over the other's (`php_judy.c` 3043).
- ValuesScratch: `free()` walks with the buffer that first() and searchNext() write.

Two more configurations are kept beside the runs, to be started by hand (`TreeRoot.cfg` with
`MCJudyArray`, `HashArraysNoMem.cfg` with `MCJudyHashArrays`). They are about the vendored
library under allocation failures that no property of the extension survives, and TLC refutes
the property of each:

- TreeRoot: `InsLeafWFull` (`JudyIns.c` 1812-1853) publishes the JPM with a `pop0` below
  `cJU_LEAFW_MAXPOP1` before it inserts, and `JudyDel.c` 1991-2008 counts the index out before it
  allocates the leaf that replaces the tree. If the allocation fails, the next call takes the
  JPM for a root leaf.
- HashArraysNoMem: `JudySLIns()` (`JudySL.c` 472) and `insStrJudyLTree()` (`JudyHS.c` 395) clear
  the slot of a leaf before its string has a new place: it is lost if there is no memory for it.

### Known limits of the code

What the models showed and the passing runs exclude, by a switch or by what a property says:

- A delete that fails in the second structure (`DeletesFail`) leaves a listed key without a
  value. libJudy does report `JERR` when it cannot allocate a smaller leaf.
- `JudySLDel()` and `JudyHSDel()` may report an error after the string is already gone, when the
  JudyL array above cannot shrink.
- A failed `JudySLIns()` may leave a dead end, and First, Next and Prev then stop short of what
  lies beyond it, although `JudySL.c` 385-389 says that searches cope (`WalksAgree` allows it).
- The rollback of `judy_string_slot_acquire()` (`php_judy.c` 886) is a JudyHS delete, which may
  itself run out of memory: the key then stays in the value store only.
- JudyStringStore takes a failed insert for one that changes nothing. HashArraysNoMem is where
  that is not so.
- A destructor run by `offsetUnset()` that frees the object, or deletes the range of the key,
  and stores the key again (`OwnKeyReentry`): the unset then counts out a key that it did not
  remove, and after some more calls `count()` is below zero.
- The same of an integer-keyed, STRING_TO_MIXED or STRING_TO_ENTRY object is worse, for there
  the counter is lowered unconditionally: a destructor run by `offsetUnset()` (`php_judy.c` 1441, 1507) that
  calls free() sets the counter to 0, and `offsetUnset()` then makes it -1 (1445-1446, 1522-1523).
  A clone made there keeps one too many. With `ReplaceInUnset` on, `CounterAgrees` of
  JudyIntStore is violated, with `FreeInUnset` on `CountIsRaw`; `CounterSafe` and `CountCorrect`
  assume them off.
- While `offsetUnset()` runs a destructor, keys(), toArray() and foreach of a MIXED_HASH or
  MIXED_ADAPTIVE object still emit the key, with null, although isset() is false and offsetGet()
  finds nothing; `JudyMap` has this as a key that is `leaving`.
- Code run by the conversion of v in `$j[] = v` (`php_judy.c` 1154 to 1170) that stores something
  at the index the append has picked: the append replaces it when it resumes. `AppendIsFresh` is
  about the picking, and does not forbid this.
- A removal of the highest key does not lower the watermark: the next append skips the key.
- User code that appends while an append or a bulk load is suspended (`NestedAppend`) makes the
  watermark valid again at an index that is taken later.
- `__unserialize()` on an object in use (`Reloads`) loses from `count()` what destructors of the
  old contents write.
- A foreach iterator of any type but BITSET stays valid at its old key when a rewind finds
  nothing: also when the object has become empty (CursorAllExpired shows it for expiry).
- A ttl that does not fit 32 bits wraps into the past, or to the 0 that means never.
- A destructor run by next() or rewind() that moves the same cursor destroys the copy it
  belongs to again (`DataReentry`, `php_judy.c` 2330).
- A string union, intersect, diff or xor that runs out of memory returns without the key.

### Bounds

StringStore: three keys, one shorter than `JUDY_SSO_MAX_LEN`, one of exactly that length, one
longer (two in the violation run). Every structure and both sides of the boundary are there, a
range has a proper middle, and a destructor has a key to write besides the one removed. Words
are `0 .. 1` (0 is the value that could be mistaken for an empty slot, and an increment wraps).
Integer runs: words `0 .. 3` or `0 .. 2`: a watermark, a key above it, and the last word.
`MaxDepth` bounds the number of handlers suspended at once: 2 or 3 is enough for a handler
interrupting another one that is itself interrupted; a deeper stack only repeats this.
CursorWalks: three keys (the one the cursor is at, one behind, one ahead), three values of the
timestamp (never, and two seconds) and a clock that ticks once, so that an entry can be stored
before, at and after its deadline and an entry can expire in the middle of a walk and of a
pruneExpired(); `STAMPS = 3` makes `clock + ttl` wrap. The proofs have none of these bounds.
CursorAllExpired needs one key and no re-entrancy, SetsUnion one key of both operands.

Values: two keys and two values: one that a handler holds while the destructor of the other
runs, or the same one held twice; the values are symmetric, the keys are not (they are ordered).
Sets: all pairs of operands over three keys and two words, so that an operand can be smaller
than the other, and a walk has keys on both sides of every probe; nine of the types. Two are left
out, whose loops are those of a type that is there: INT_TO_PACKED (INT_TO_MIXED) and
STRING_TO_MIXED (STRING_TO_ENTRY).

Tree: six pools, each aimed at one part of the library. `Spread`: the root's own forms.
`Narrow`: a leaf that hangs levels below its slot, and indexes that do not fit under it.
`Inner`: branches below the root. `Filling`: a bitmap leaf up to a full one. `Dense` and
`Whole`: full expanses with a few holes, in the level of the leaves and one that is skipped.
Budgets 0, 1, 2 and 9: the first, second or third malloc() of a call fails, or none does.
Whether it is a Judy1
or a JudyL is chosen in Init.

HashArrays: words of two bytes and two hash values; three pools of five strings of at most five
bytes, so one to three words: strings that are a prefix of another, end inside a word or at its
end, share one or two words, or collide; the empty string, and probes between and around them.
Budgets 0 to 4: the failures of an insert, in either tree; and 40, more than any call takes.
With budgets up to 8 no further state is reached. All that is assumed of them is that the largest
lets an unset succeed, which takes one allocation in each tree (`PlentyAssumption`).

### Fairness

`HandlersReturn` is checked under `WF_vars(Resume)`, `CacheReturns` under that of `Returns` in
JudyCursor: user code called by a handler returns. Both say that once user code stops calling
further handlers every suspended one, deleteRange(), the bulk loads and pruneExpired() included,
ends; user code that calls one more handler for each one that returns never ends in any
language, and no handler of the extension can be blamed for it. Destructors may go on storing,
for ever, entries that have already expired. `CallEnds` is checked under `WF_vars(Next)`: the
loops of the set operations run in one thread, uninterrupted. PHP has no other scheduling.

## The proofs

All with TLAPS, for every value of the constants the assumption does not fix.

`JudyIntStore_proofs`: `TypeCorrect`; `WatermarkSafe` and `AppendSafe`, assuming
`NestedAppend = FALSE` and `DirectInserts = FALSE`; `CounterSafe`, assuming `Reloads = FALSE` and
`ReplaceInUnset = FALSE`. `AppendSafe` is about the index an append picks, when it picks it.
`WatermarkAbove` is not inductive: a suspended `offsetSet()` inserts later, and so does a bulk
load. The invariant adds `FramesBelow`: while the watermark is valid no load is suspended and
every suspended store will insert below it. This holds because loads invalidate, explicit
writes invalidate, and an append - the only step that makes the watermark valid - happens, by
assumption, on an empty stack. `CounterSafe` counts the frames of `offsetUnset()` (the lemmas
`MarkedPush` and `MarkedPop`), and needs that no reload frame exists.

`JudyStringStore_proofs`: `TypeCorrect` and `MirrorSafe` without any assumption; `ListedSafe`,
the half of `IndexAgrees` that destructors which write the key being unset leave true, if no
delete fails; `IndexSafe`, `CounterSafe`, `BytesSafe` and `Refinement`, that the store
implements `JudyMap`, for all seven types under `Quiet` (deletes do not fail, and
`OwnKeyReentry` is off or all types are word-valued: StringUnsetRewrite shows what happens
otherwise). The first three follow from what a step may do to one key of the `key_index`
(`Moves`), whoever takes it. For the others the inductive invariant is
`Inv`: the types (`TypeInv`, with which frames can be suspended on which types), `IndexInv`
(keys listed and stored, and the word in the `key_index`), `UnsetInv` (nothing is stored under
a key whose unset is waiting: this is what makes the late removal from `key_index` harmless),
`CounterAgrees` and `BytesCounted`. Every handler step is shown to be one of four kinds (a key
stored, a key removed, nothing, everything removed), and each kind is shown once to keep `Inv`.
For the refinement there are two more, as the map tells the two halves of an `offsetUnset()`
from a removal: it starts (`UnsetStep`), and `count()` follows (`CatchUpStep`). `ShownIs` and
`ReadingsAgree` say that what is traversed and counted is what the map shows, with `Leaving` and
`Behind` read off the stack. `BytesCounted` is `BytesAgree` with the payload that suspended
unsets have still to count out (`Owed`) as a sum along the stack, which a handler that starts
or ends changes by its own frame only. The total is thus never below what is subtracted from
it: the clamp at zero never takes effect (`LoweredIs`).

`JudyEntryCache_proofs`: `CacheTypeCorrect`; `CountCorrect`, which counts entries and the frames
of `offsetUnset()`, assuming `FreeInUnset = FALSE`; `PruneCorrect`; `PruneSafe`, these without
any assumption but those on the constants. `PruneSweeps` is inductive together with the types:
a store into what a suspended pruneExpired() has passed is on record in its frame (`RenewedFrames`), removals and the clock
cannot make anything due at a fixed timestamp, and a turn passes only what is not due
(`PruneTurnStep`). `PruneSafe` needs that deadlines and timestamps are compared as unsigned
numbers of the same width: what is due at a timestamp that is not in the future is expired now.

`JudyCursor_proofs`: `WalkedObject`, that every step of the walked object is one of
JudyEntryCache, so the theorems above hold of it; `TypeCorrect`, `WalkComplete`, `WalkForward`
and `WalkVisible`. `NothingSkipped` becomes inductive with `OwedVisible` (what is owed is still
there, so the search of the next step finds it) and `Coherent` (`valid` and a defined key come
together: otherwise move_forward() would start again in the middle of a walk). Every step of a
cursor is a `Seek` among a set of keys, and `Seeking` and `SeekingOwed` say once what that does.
`WalkVisible` covers every rewind but the foreach one that finds nothing, and needs no invariant
beyond the types: what a search finds is visible at that moment.

`JudyValues_proofs`: `TypeSafe`, `RefsSafe` and `FreedSafe`, under `Orderly`: `ScratchReentry`
and `DataReentry` are off, as in Values. ValuesScratch refutes `RefsAgree` with the first one
on, and the known limits say what the second one does; with neither is a count below zero ruled
out, so the types need the assumption too. `RefsAgree` says that `refs` counts the holders, of
which the stack is one, and is not inductive, for what a suspended handler does next depends on
more than its own frame:

- A free() owes exactly what is ahead of its cursor, be that its own or `key_scratch`
  (`Sound`). Two that share `key_scratch`, or one below a move of the cursor, which also writes
  it, cannot both be right: hence `Apart`, that no two frames share it.
- next() and rewind() give `iteratorData` up before they write the new copy. Meanwhile the
  field still shows the old value, but holds nothing (`Kept`); at most one frame is in this
  state.
- filter() stores the element it has just shown to its callback. What it has stored is behind
  that element, so that the slot it writes is empty and no reference is overwritten; and there
  is one filter() at a time (the model has one second object).

`Inv` is the types, these facts of the stack (`Framed`) and `Counted`, which is `RefsAgree` as a
sum along the stack. All handlers do one of a few things (`Release`, a write to a slot, a frame
pushed or popped), each of which is shown once to balance what goes and what comes.

`JudySets_proofs`, without any assumption but those on the constants: `TypeSafe`,
`ReturnedSafe`, `ResultSafe` and `CopiesSafe`. `ResultAgrees` is not inductive: some loops add 1
to the counters without asking whether the key is new. `LoopsAgree` says what the loops have
done when they stand at `at`: keys up to it have the value that the operation gives them, keys
ahead have what the loop before has left there (`Due`), but for keys that a string loop was
refused. From it follows that a loop which does not ask never meets a key twice
(`CountsNewKeys`), and, at the end of the last loop, `ReturnedIsExact`, for the reading of
union() that the code has.

`JudyHashArrays_proofs`: `InStep`, `NothingLeaks`, `NothingLeft`, `FailureCostsNothing`,
`WalksFind` and `Refinement`, for every word size, hash range, set of strings and number of
allocations, under `FailAnywhere = FALSE`. The assumption leaves every allocation of an insert
free to fail, that of a new string put beside a carried-down one included; excluded are those of
the carried-down string itself (`Carries`), of an unset and of the undoing of a failed insert.
After one of these a string is in one of the two arrays only, or in none
(`HashArraysNoMem.cfg`; the known limits). The argument has four steps:

- What the ways of both libraries have in common is that none goes on from where another ends
  (`Coded`; `SLCoded` and `HSCoded` prove it of the keys). In a tree over such keys (`TreeOK`:
  each path is on the way of a key, above it are arrays only, leaves and values are where their
  keys say) the slots of a string are at one place, which is where a lookup ends (`GetHolds`).
- Everything an insert does is to hang indexes of one key below an empty slot (`Hung`), and all
  a removal does is to cut those that no other key shares (`Cut`, `Alone`): so a tree stays one,
  all other strings keep their values, and the words of its leaves change by those of one leaf
  (`GrowKeeps`, `InsKeeps`, `DelKeeps`). A split does it twice, from where the two strings part
  (`CarryDownKeeps`), and gives back as many words as the leaf was made with: in JudySL the leaf
  tells its length, while JudyHS takes that of the new string, which is the same because both
  came by the same length (`HSMeet`).
- `IInv` adds to this that both arrays hold the same strings (`Twins`), that what was read after
  the call (`seen`) and the counter are these strings and their number, that `heap` is the words
  of all leaves, and that there is no dead end unless an allocation has failed. `Accounted` and
  `NoDeadEnds` alone are not inductive: they need the trees, and that an unset finds a string in
  both or in neither. A step puts one string in, takes one out, takes all or none (`Moves`),
  which is a step of `IndexMap`.
- Two strings are in the order of the words at which their ways part (`WayOrder`). So the first
  index of an array leads to the first string below it (`EndIs`), the first index past the way
  of `s` at some level to the first string past `s` there (`PastIs`), and the last level that
  has such an index is the one to take (`SeekIs`). A probe need not be in the pool: the tree is
  also a tree over one more key (`TreeMore`).

`DataLemmas`: adding or taking one element changes a sum by its term; a sum along a sequence is
that of its first element and of the rest. The community modules define sums by recursion
and the library's induction theorems cannot be cited. What takes their place is that strict
inclusion among the subsets of a finite set is well founded (`SmallestSubset`): if a fact about
sums fails for some subset, it fails for a smallest one, and removing an element refutes that.

Only model-checked:

- `HandlersReturn`, `CacheReturns` and `CallEnds` (liveness).
- The trees of Judy1 and JudyL (Tree): the operators that build and search them are RECURSIVE,
  and what they do for every tree is an induction over data. `JudyHashArrays_proofs` relies on
  none of them, but takes a JudyL array for a map, which is what Tree shows of small ones.
- The violations, which are counterexamples.

## What is not modelled

- Bulk reads (keys, values, toArray, sums, equals, ...): they change no state and run no user
  code between two reads.
- Serialization and JSON; `__unserialize()` of a payload of another type than the object's; the
  byte layout of packed values.
- The values that foreach copies (those of the Iterator methods are in JudyValues), the flags
  of an entry, which are written with its deadline, map(), which differs from filter() in what
  it stores, and a slice() with a start longer than any key, which is cut to 65,535 bytes.
- Argument checks that reject before anything changes (NUL bytes, lengths, wrong types).
- In libjudy: `JudyInsArray.c`, a bulk load that the extension does not call, `JudyMemUsed.c`
  and `JudyMemActive.c`, which only read, and the layout of the structures in memory.
- PHP's engine and glue, the research spike `research/shm-arena`, tools and tests.

## The plan

1. Done: `JudyMap`, `JudyStringStore`, `JudyIntStore`, `JudyEntryCache`, `JudyCursor`, their
   runs and proofs.
2. Done: `JudyValues` (values, teardown, callbacks, GC) and `JudySets` (set operations, slice).
3. Done: libjudy: `JudyArray` and the modules below it, `JudyHashArrays` and the modules below it.
4. Done: theorems of `JudyValues`, `JudySets`, of the payload bytes of `JudyStringStore` and of
   `JudyHashArrays`: every safety property that a passing run checks, but those of Tree, is now
   a theorem.
   What of the string store survives `OwnKeyReentry` are `MirrorSafe` and `ListedSafe`; the
   counters do not (see known limits).
5. Serialization: an object is rebuilt from what the bulk reads return, with user code in
   `__serialize` of the values.

A new question should join an existing run where it concerns the same state, so that the whole
set of runs stays quick enough to check at every change.
