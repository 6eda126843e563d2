--------------------------- MODULE JudyEntryCache ---------------------------
(***************************************************************************)
(* The entries of a STRING_TO_ENTRY object: the expiry of each, the clock  *)
(* they are compared with, and pruneExpired(), whose loop destroys values  *)
(* whose destructors may write to the object behind and ahead of it.       *)
(*                                                                         *)
(* Values and flags are left out: set() writes both together with the      *)
(* expiry, in steps between which no user code runs.  As in the other      *)
(* modules a handler that has called user code is a frame of the stack.    *)
(***************************************************************************)
EXTENDS Integers, Sequences, FiniteSets

CONSTANTS
  Keys,      \* the keys, as ranks in strcmp() order
  STAMPS,    \* how many values a uint32_t has: expires_at is taken modulo this
  Ttls,      \* the ttl arguments the program passes to set()
  LastTime,  \* bound: the last second of the clock
  MaxDepth,  \* bound: how many handlers can be suspended at once
  ABSENT,    \* where there is no entry
  FreeInUnset \* may a destructor run by offsetUnset() free the object?  The code lets
              \* it: offsetUnset() then lowers a counter that no longer counts the key

ASSUME KeysAssumption == Keys \subseteq Nat /\ IsFiniteSet(Keys)
ASSUME ClockAssumption == /\ STAMPS \in Nat /\ LastTime \in Nat
                          /\ 1 <= LastTime /\ LastTime < STAMPS
ASSUME TtlsAssumption == Ttls \subseteq Int /\ 0 \in Ttls
ASSUME DepthAssumption == MaxDepth \in Nat
ASSUME AbsentAssumption == ABSENT \notin Int
ASSUME SwitchAssumption == FreeInUnset \in BOOLEAN

VARIABLES
  clock,      \* time(NULL)
  expiresAt,  \* the expires_at of each entry in intern->array, 0 for never
  counter,    \* intern->counter
  stack       \* the suspended handlers, innermost first

cacheVars == <<clock, expiresAt, counter, stack>>

Stamps == 0 .. STAMPS - 1

\* The cast to uint32_t.
Stamp(t) == t % STAMPS

-----------------------------------------------------------------------------
(* What is in the object and what its readers are served.                  *)

Present == {k \in Keys : expiresAt[k] # ABSENT}

\* judy_entry_is_expired_at()
ExpiredAt(k, now) == /\ k \in Present
                     /\ expiresAt[k] # 0 /\ expiresAt[k] <= now

\* What get(), isset() and every traversal serve: judy_entry_is_expired() reads the clock.
Visible == {k \in Present : ~ExpiredAt(k, Stamp(clock))}

-----------------------------------------------------------------------------
(* The stack of suspended handlers.                                        *)

\* "key" is where pruneExpired() continues its search, "now" its captured timestamp,
\* "calls" whether the value it removed last has a destructor.  "renewed" is a history
\* of the keys stored behind the search; the code has no such thing.
Frame == [op : {"unset", "prune"}, calls : BOOLEAN, key : Nat, now : Stamps,
          renewed : SUBSET Keys]

UnsetFrame == [op |-> "unset", calls |-> TRUE, key |-> 0, now |-> 0, renewed |-> {}]

PruneFrame(now) == [op |-> "prune", calls |-> FALSE, key |-> 0, now |-> now, renewed |-> {}]

UserCodeRuns == stack # <<>> => Head(stack).calls

HasRoom == Len(stack) < MaxDepth

UnsetFrames == {i \in DOMAIN stack : stack[i].op = "unset"}

\* The frames once k has been stored.
Renewed(k) == [i \in DOMAIN stack |->
                 IF stack[i].op = "prune" /\ k < stack[i].key
                   THEN [stack[i] EXCEPT !.renewed = @ \cup {k}] ELSE stack[i]]

-----------------------------------------------------------------------------
(* The operations.                                                         *)

\* Mutant of Store: an overwrite is counted too.
StoreCountsAll(k, e) == /\ expiresAt' = [expiresAt EXCEPT ![k] = e]
                        /\ counter' = counter + 1
                        /\ stack' = Renewed(k)

\* The slot is acquired, and the entry made or overwritten in place; the old value is
\* destroyed last.  A slot that cannot be acquired changes nothing.
Store(k, e) == /\ expiresAt' = [expiresAt EXCEPT ![k] = e]
               /\ counter' = IF k \in Present THEN counter ELSE counter + 1
               /\ stack' = Renewed(k)

\* Mutant of Deadline: the cast to uint32_t is left out.
DeadlineUncast(ttl) == IF ttl = 0 THEN 0 ELSE clock + ttl

\* set(), and with ttl = 0 offsetSet(), which clears the expiry.
Deadline(ttl) == IF ttl = 0 THEN 0 ELSE Stamp(clock + ttl)

Set(k, ttl) == UserCodeRuns /\ Store(k, Deadline(ttl)) /\ UNCHANGED clock

\* mergeWith() copies the entries of another object as they are, expired ones too.
MergeEntry(k, e) == UserCodeRuns /\ Store(k, e) /\ UNCHANGED clock

\* offsetUnset() of a value whose destruction runs no user code.
Unset(k) == /\ UserCodeRuns /\ k \in Present
            /\ expiresAt' = [expiresAt EXCEPT ![k] = ABSENT]
            /\ counter' = counter - 1
            /\ UNCHANGED <<clock, stack>>

\* Otherwise the destructor runs before the counter is settled.
UnsetDestroys(k) == /\ UserCodeRuns /\ HasRoom /\ k \in Present
                    /\ expiresAt' = [expiresAt EXCEPT ![k] = ABSENT]
                    /\ stack' = <<UnsetFrame>> \o stack
                    /\ UNCHANGED <<clock, counter>>

UnsetResumes == /\ counter' = counter - 1
                /\ stack' = Tail(stack)
                /\ UNCHANGED <<clock, expiresAt>>

\* Where pruneExpired() finds its next entry.
Due(f) == {k \in Keys : f.key <= k /\ ExpiredAt(k, f.now)}

\* Mutant of PruneTurn: the search goes on one key too far.
PruneTurnSkipsOne(f, callers) ==
  /\ IF Due(f) = {} THEN stack' = callers /\ UNCHANGED <<expiresAt, counter>>
     ELSE \E k \in Due(f), calls \in BOOLEAN :
            /\ \A l \in Due(f) : k <= l
            /\ expiresAt' = [expiresAt EXCEPT ![k] = ABSENT]
            /\ counter' = counter - 1
            /\ stack' = <<[f EXCEPT !.key = k + 2, !.calls = calls]>> \o callers
  /\ UNCHANGED clock

\* Mutant of PruneTurn: the search starts again at the key that was removed.
PruneTurnReseeks(f, callers) ==
  /\ IF Due(f) = {} THEN stack' = callers /\ UNCHANGED <<expiresAt, counter>>
     ELSE \E k \in Due(f), calls \in BOOLEAN :
            /\ \A l \in Due(f) : k <= l
            /\ expiresAt' = [expiresAt EXCEPT ![k] = ABSENT]
            /\ counter' = counter - 1
            /\ stack' = <<[f EXCEPT !.key = k, !.calls = calls]>> \o callers
  /\ UNCHANGED clock

\* Mutant of PruneTurn: the entries between two expired ones go too.
PruneTurnSkipsTest(f, callers) ==
  /\ IF Due(f) = {} THEN stack' = callers /\ UNCHANGED <<expiresAt, counter>>
     ELSE \E k \in {l \in Present : f.key <= l}, calls \in BOOLEAN :
            /\ \A l \in Present : f.key <= l => k <= l
            /\ expiresAt' = [expiresAt EXCEPT ![k] = ABSENT]
            /\ counter' = counter - 1
            /\ stack' = <<[f EXCEPT !.key = k + 1, !.calls = calls]>> \o callers
  /\ UNCHANGED clock

\* One turn of the loop: pass over what is not expired, delete the entry found, count
\* it out, and only then destroy its value; the search goes on strictly past it.
PruneTurn(f, callers) ==
  /\ IF Due(f) = {} THEN stack' = callers /\ UNCHANGED <<expiresAt, counter>>
     ELSE \E k \in Due(f), calls \in BOOLEAN :
            /\ \A l \in Due(f) : k <= l
            /\ expiresAt' = [expiresAt EXCEPT ![k] = ABSENT]
            /\ counter' = counter - 1
            /\ stack' = <<[f EXCEPT !.key = k + 1, !.calls = calls]>> \o callers
  /\ UNCHANGED clock

PruneExpired(now) == /\ UserCodeRuns /\ HasRoom
                     /\ PruneTurn(PruneFrame(now), stack)

\* free()
Free == /\ UserCodeRuns /\ (FreeInUnset \/ UnsetFrames = {})
        /\ expiresAt' = [k \in Keys |-> ABSENT]
        /\ counter' = 0
        /\ UNCHANGED <<clock, stack>>

Resume == /\ stack # <<>>
          /\ IF Head(stack).op = "unset" THEN UnsetResumes
             ELSE PruneTurn(Head(stack), Tail(stack))

Tick == clock < LastTime /\ clock' = clock + 1 /\ UNCHANGED <<expiresAt, counter, stack>>

-----------------------------------------------------------------------------
CacheInit == /\ clock \in 1 .. LastTime
             /\ expiresAt = [k \in Keys |-> ABSENT]
             /\ counter = 0
             /\ stack = <<>>

CacheNext == \/ \E k \in Keys, ttl \in Ttls : Set(k, ttl)
             \/ \E k \in Keys, e \in Stamps : MergeEntry(k, e)
             \/ \E k \in Keys : Unset(k) \/ UnsetDestroys(k)
             \/ \E now \in Stamps : PruneExpired(now)
             \/ Free
             \/ Resume
             \/ Tick

CacheSpec == CacheInit /\ [][CacheNext]_cacheVars

-----------------------------------------------------------------------------
(* Properties.                                                             *)

\* Every field holds what its C type allows.
CacheTypeOK == /\ clock \in 1 .. LastTime
               /\ expiresAt \in [Keys -> Stamps \cup {ABSENT}]
               /\ counter \in Int
               /\ stack \in Seq(Frame)

\* count() is the raw number of entries, expired ones included, behind only by the
\* offsetUnset() calls whose destructor is running: pruneExpired() and its destructors
\* keep it so.  It holds where no destructor run by offsetUnset() frees the object.
CountIsRaw == counter = Cardinality(Present) + Cardinality(UnsetFrames)

\* pruneExpired() leaves nothing behind that was due: what it has passed and is expired
\* at its timestamp was stored again meanwhile by a destructor.
PruneSweeps == \A i \in DOMAIN stack : stack[i].op = "prune" =>
  \A k \in Keys : (k < stack[i].key /\ ExpiredAt(k, stack[i].now)) => k \in stack[i].renewed

\* A step of pruneExpired() whose timestamp is not in the future.
PruneSteps == \/ \E now \in 0 .. Stamp(clock) : PruneExpired(now)
              \/ /\ stack # <<>> /\ Head(stack).op = "prune"
                 /\ Head(stack).now <= Stamp(clock)
                 /\ Resume

\* pruneExpired() never takes away what a reader is still served, although the clock
\* advances and destructors renew entries while it walks.
PruneSparesVisible == [][PruneSteps => Visible \subseteq Present']_cacheVars

\* The handlers return once the user code they call calls no more of them: pruneExpired()
\* ends although destructors put expired entries back.
CacheReturns == <>[][Len(stack') <= Len(stack)]_cacheVars => []<>(stack = <<>>)

=============================================================================
