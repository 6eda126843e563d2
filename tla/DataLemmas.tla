----------------------------- MODULE DataLemmas -----------------------------
(***************************************************************************)
(* Facts about data that the proofs of several modules cite.               *)
(*                                                                         *)
(* Sums over finite sets, as MapThenSumSet computes them: what one element *)
(* more or less changes, and that the order does not matter.  The          *)
(* library's induction theorems have an operator for a parameter and are   *)
(* of no use here; what replaces them is that strict inclusion of the      *)
(* subsets of a finite set is well founded, so that a statement that fails *)
(* for some subset fails for a smallest one (SmallestSubset).              *)
(*                                                                         *)
(* The stacks of suspended handlers that JudyStringStore and JudyIntStore  *)
(* keep: what pushing and popping a frame does to the set of frames and to *)
(* the number of frames of one operation.                                  *)
(***************************************************************************)
EXTENDS Integers, Sequences, FiniteSets, FiniteSetsExt, TLAPS,
        FiniteSetTheorems, WellFoundedInduction

\* The sum of f over S.
Total(f, S) == MapThenSumSet(LAMBDA k : f[k], S)

-----------------------------------------------------------------------------
\* Of a non-empty family of subsets of a finite set, some member includes no other.
LEMMA SmallestSubset ==
  ASSUME NEW S, IsFiniteSet(S), NEW F, F \subseteq SUBSET S, F # {}
  PROVE  \E T \in F : \A U \in F : U \subseteq T => U = T
<1>1. IsWellFoundedOn(StrictSubsetOrdering(S), FiniteSubsetsOf(S))
  BY FS_StrictSubsetOrderingWellFounded
<1>2. F \subseteq FiniteSubsetsOf(S)
  BY FS_Subset DEF FiniteSubsetsOf
<1>3. \E T \in F : \A U \in F : ~ (<<U, T>> \in StrictSubsetOrdering(S))
  BY <1>1, <1>2, WFMin
<1> QED
  BY <1>3 DEF StrictSubsetOrdering

\* A non-empty set of numbers has a least one.
LEMMA SmallestNumber ==
  ASSUME NEW N, N \subseteq Nat, N # {}
  PROVE  \E n \in N : \A m \in N : n <= m
<1>1. PICK top \in N : TRUE
  OBVIOUS
<1> DEFINE F == {T \in SUBSET (0 .. top) : \E m \in N : T = 0 .. m}
<1>2. IsFiniteSet(0 .. top)
  BY FS_Interval
<1>3. 0 .. top \in F
  OBVIOUS
<1>4. PICK T \in F : \A U \in F : U \subseteq T => U = T
  <2>1. F \subseteq SUBSET (0 .. top) /\ F # {}
    BY <1>3
  <2> DEFINE R == 0 .. top
  <2>2. F \subseteq SUBSET R /\ IsFiniteSet(R) /\ F # {}
    BY <2>1, <1>2
  <2> HIDE DEF F, R
  <2> QED
    BY <2>2, SmallestSubset
<1>5. PICK n \in N : T = 0 .. n
  OBVIOUS
<1>6. ASSUME NEW m \in N, m < n PROVE FALSE
  <2>1. 0 .. m \in F /\ 0 .. m \subseteq T
    BY <1>5, <1>6
  <2>2. 0 .. m = 0 .. n
    BY <2>1, <1>4, <1>5
  <2>3. n \in 0 .. n /\ n \notin 0 .. m
    BY <1>6
  <2> QED BY <2>2, <2>3
<1> QED
  BY <1>6

\* A finite set of numbers has a largest one.
LEMMA LargestNumber ==
  ASSUME NEW S, IsFiniteSet(S), S # {}
  PROVE  S \subseteq Nat => \E x \in S : \A y \in S : x >= y
<1> DEFINE F == {U \in SUBSET S : U # {} /\ ~ \E x \in U : \A y \in U : x >= y}
<1>1. ASSUME F # {} PROVE \E U \in F : \A x \in U : U \ {x} \notin F
  <2>1. PICK U \in F : \A V \in F : V \subseteq U => V = U
    <3>1. F \subseteq SUBSET S /\ F # {}
      BY <1>1
    <3> HIDE DEF F
    <3> QED BY <3>1, SmallestSubset
  <2> HIDE DEF F
  <2>2. ASSUME NEW x \in U PROVE U \ {x} # U /\ U \ {x} \subseteq U
    OBVIOUS
  <2> QED BY <2>1, <2>2
<1>2. ASSUME S \subseteq Nat, F # {} PROVE FALSE
  <2>1. PICK U \in F : \A x \in U : U \ {x} \notin F
    <3> HIDE DEF F
    <3> QED BY <1>1, <1>2
  <2>2. PICK x \in U : TRUE
    OBVIOUS
  <2>3. U \subseteq Nat /\ x \in Nat /\ ~ \E y \in U : \A z \in U : y >= z
    BY <1>2
  <2>4. U \ {x} \notin F
    BY <2>1, <2>2
  <2>5. CASE U \ {x} = {}
    BY <2>2, <2>3, <2>5
  <2>6. CASE U \ {x} # {}
    <3>1. PICK y \in U \ {x} : \A z \in U \ {x} : y >= z
      BY <2>4, <2>6
    <3>2. CASE x >= y
      <4>1. \A z \in U : x >= z
        BY <2>3, <3>1, <3>2
      <4> QED BY <2>2, <2>3, <4>1
    <3>3. CASE ~ (x >= y)
      <4>1. \A z \in U : y >= z
        BY <2>3, <3>1, <3>3
      <4> QED BY <2>3, <4>1
    <3> QED BY <3>2, <3>3
  <2> QED BY <2>5, <2>6
<1> QED BY <1>2

\* The element that the definition takes out of a set.
Pick(s) == CHOOSE x \in s : TRUE
\* g adds up f over every set of D, over every subset of S.
SumsOn(g, f, D) == g = [s \in D |-> IF s = {} THEN 0 ELSE f[Pick(s)] + g[s \ {Pick(s)}]]
Sums(g, f, S) == SumsOn(g, f, SUBSET S)

\* A sum is the value at S of a function that adds up every subset.
LEMMA TotalDef ==
  ASSUME NEW f, NEW S
  PROVE  Total(f, S) = (CHOOSE g : Sums(g, f, S))[S]
BY DEF Total, MapThenSumSet, MapThenFoldSet, Pick, Sums, SumsOn

\* There is such a function, by induction on the size of the subsets.
LEMMA SumsExist ==
  ASSUME NEW f, NEW S, IsFiniteSet(S)
  PROVE  \E g : Sums(g, f, S)
<1> DEFINE D(n) == {s \in SUBSET S : Cardinality(s) <= n}
           N == {n \in Nat : ~ \E g : SumsOn(g, f, D(n))}
<1>0. \A s \in SUBSET S : IsFiniteSet(s) /\ Cardinality(s) \in Nat
  BY FS_Subset, FS_CardinalityType
<1>1. N = {}
  <2> SUFFICES ASSUME N # {} PROVE FALSE
    OBVIOUS
  <2>1. PICK n \in N : \A m \in N : n <= m
    <3> HIDE DEF N
    <3>1. N \subseteq Nat
      BY DEF N
    <3> QED BY <3>1, SmallestNumber
  <2>2. CASE n = 0
    <3>1. D(n) = {{}}
      BY <1>0, <2>2, FS_EmptySet
    <3> DEFINE g == [s \in D(n) |-> 0]
    <3>2. SumsOn(g, f, D(n))
      BY <3>1 DEF Sums, SumsOn
    <3> QED BY <3>2, <2>1
  <2>3. CASE n # 0
    <3>1. n - 1 \in Nat /\ n - 1 \notin N
      <4>1. n \in Nat /\ n - 1 < n /\ n - 1 \in Nat
        BY <2>3
      <4> HIDE DEF N
      <4> QED BY <4>1, <2>1
    <3>2. PICK h : SumsOn(h, f, D(n - 1))
      BY <3>1
    <3> DEFINE g == [s \in D(n) |-> IF s = {} THEN 0 ELSE f[Pick(s)] + h[s \ {Pick(s)}]]
    <3>3. ASSUME NEW s \in D(n), s # {} PROVE s \ {Pick(s)} \in D(n - 1) /\ s \ {Pick(s)} \in D(n)
      <4>1. Pick(s) \in s
        BY <3>3 DEF Pick
      <4>2. Cardinality(s \ {Pick(s)}) = Cardinality(s) - 1
        BY <4>1, <1>0, FS_RemoveElement
      <4> QED BY <4>2, <1>0, <3>1
    <3>4. ASSUME NEW t \in D(n - 1), t \in D(n) PROVE g[t] = h[t]
      <4>1. h[t] = IF t = {} THEN 0 ELSE f[Pick(t)] + h[t \ {Pick(t)}]
        <5> HIDE DEF D
        <5> QED
        BY <3>2, <3>4 DEF Sums, SumsOn
      <4> QED
        BY <4>1, <3>4
    <3>5. SumsOn(g, f, D(n))
      <4>1. \A s \in D(n) : s # {} => g[s \ {Pick(s)}] = h[s \ {Pick(s)}]
         BY <3>3, <3>4
      <4> HIDE DEF D
      <4>2. g = [s \in D(n) |-> IF s = {} THEN 0 ELSE f[Pick(s)] + g[s \ {Pick(s)}]]
         BY <4>1
      <4> QED BY <4>2 DEF Sums, SumsOn
    <3> QED BY <3>5, <2>1
  <2> QED BY <2>2, <2>3
<1>2. Cardinality(S) \in Nat
  BY FS_CardinalityType
<1>3. D(Cardinality(S)) = SUBSET S
  BY FS_Subset
<1> QED BY <1>1, <1>2, <1>3 DEF Sums

\* All of them have the same value, even those that add up the subsets of more than S.
LEMMA SumsAgree ==
  ASSUME NEW f, NEW S, IsFiniteSet(S), NEW T, S \in SUBSET T,
         NEW g, Sums(g, f, S), NEW h, Sums(h, f, T)
  PROVE  g[S] = h[S]
<1> DEFINE F == {U \in SUBSET S : g[U] # h[U]}
<1>1. F = {}
  <2> SUFFICES ASSUME F # {} PROVE FALSE
    OBVIOUS
  <2>1. PICK U \in F : \A V \in F : V \subseteq U => V = U
    <3> HIDE DEF F
    <3>1. F \subseteq SUBSET S
      BY DEF F
    <3> QED BY <3>1, SmallestSubset
  <2>2. /\ g[U] = IF U = {} THEN 0 ELSE f[Pick(U)] + g[U \ {Pick(U)}]
        /\ h[U] = IF U = {} THEN 0 ELSE f[Pick(U)] + h[U \ {Pick(U)}]
    BY DEF Sums, SumsOn
  <2>3. U # {} => U \ {Pick(U)} \subseteq U /\ U \ {Pick(U)} # U
    BY DEF Pick
  <2>4. U # {} => g[U \ {Pick(U)}] = h[U \ {Pick(U)}]
    BY <2>1, <2>3
  <2> QED BY <2>2, <2>4
<1> QED BY <1>1

\* An empty sum is zero.
LEMMA TotalEmpty == \A f : Total(f, {}) = 0
<1> SUFFICES ASSUME NEW f PROVE Total(f, {}) = 0
  OBVIOUS
<1> DEFINE g == CHOOSE g : Sums(g, f, {})
<1>1. Sums(g, f, {})
  BY SumsExist, FS_EmptySet
<1>2. g[{}] = 0
  <2> HIDE DEF g
  <2> QED
  BY <1>1 DEF Sums, SumsOn
<1> QED BY <1>2, TotalDef

\* The step of the definition.
LEMMA TotalPick ==
  ASSUME NEW f, NEW S, IsFiniteSet(S), S # {}
  PROVE  /\ Pick(S) \in S
         /\ Total(f, S) = f[Pick(S)] + Total(f, S \ {Pick(S)})
<1> DEFINE g == CHOOSE g : Sums(g, f, S)
           T == S \ {Pick(S)}
           h == CHOOSE h : Sums(h, f, T)
<1>1. IsFiniteSet(T) /\ T \in SUBSET S
  BY FS_RemoveElement
<1>2. Sums(g, f, S) /\ Sums(h, f, T)
  <2>1. (\E gg : Sums(gg, f, S)) /\ (\E hh : Sums(hh, f, T))
    BY <1>1, SumsExist
  <2> QED BY <2>1
<1>3. Total(f, S) = g[S] /\ Total(f, T) = h[T]
  BY TotalDef
<1> HIDE DEF g, h
<1>4. g[S] = f[Pick(S)] + g[T]
  BY <1>2 DEF Sums, SumsOn
<1>5. h[T] = g[T]
  <2> HIDE DEF T
  <2> QED
    BY <1>1, <1>2, SumsAgree
<1>6. Pick(S) \in S
  BY DEF Pick
<1> QED BY <1>3, <1>4, <1>5, <1>6

\* A sum of numbers is a number.
LEMMA TotalType ==
  ASSUME NEW f, NEW S, IsFiniteSet(S), \A k \in S : f[k] \in Nat
  PROVE  Total(f, S) \in Nat
<1> DEFINE F == {U \in SUBSET S : Total(f, U) \notin Nat}
<1>1. F = {}
  <2> SUFFICES ASSUME F # {} PROVE FALSE
    OBVIOUS
  <2>1. PICK U \in F : \A V \in F : V \subseteq U => V = U
    <3> HIDE DEF F
    <3>1. F \subseteq SUBSET S
      BY DEF F
    <3> QED BY <3>1, SmallestSubset
  <2>2. U # {}
    BY TotalEmpty
  <2>3. IsFiniteSet(U)
    BY FS_Subset
  <2>4. Pick(U) \in U /\ Total(f, U) = f[Pick(U)] + Total(f, U \ {Pick(U)})
    BY <2>2, <2>3, TotalPick
  <2>5. U \ {Pick(U)} \notin F
    BY <2>1, <2>4
  <2>6. Total(f, U \ {Pick(U)}) \in Nat
    BY <2>5
  <2>7. f[Pick(U)] \in Nat
    BY <2>4
  <2> QED BY <2>4, <2>6, <2>7
<1> QED BY <1>1

\* Any element may be taken out first.
LEMMA TotalRemove ==
  ASSUME NEW f, NEW S, IsFiniteSet(S), \A k \in S : f[k] \in Nat, NEW x \in S
  PROVE  Total(f, S) = f[x] + Total(f, S \ {x})
<1> DEFINE F == {U \in SUBSET S : \E y \in U : Total(f, U) # f[y] + Total(f, U \ {y})}
<1>1. F = {}
  <2> SUFFICES ASSUME F # {} PROVE FALSE
    OBVIOUS
  <2>1. PICK U \in F : \A V \in F : V \subseteq U => V = U
    <3> HIDE DEF F
    <3>1. F \subseteq SUBSET S
      BY DEF F
    <3> QED BY <3>1, SmallestSubset
  <2>2. PICK y \in U : Total(f, U) # f[y] + Total(f, U \ {y})
    OBVIOUS
  <2>3. IsFiniteSet(U)
    BY FS_Subset
  <2> DEFINE p == Pick(U)
  <2>4. p \in U /\ Total(f, U) = f[p] + Total(f, U \ {p})
    BY <2>3, TotalPick
  <2> HIDE DEF p
  <2>5. p # y
    BY <2>2, <2>4
  <2>6. U \ {p} \notin F /\ U \ {y} \notin F
    BY <2>1, <2>4
  <2>7. Total(f, U \ {p}) = f[y] + Total(f, (U \ {p}) \ {y})
    BY <2>5, <2>6
  <2>8. Total(f, U \ {y}) = f[p] + Total(f, (U \ {y}) \ {p})
    BY <2>4, <2>5, <2>6
  <2>9. (U \ {p}) \ {y} = (U \ {y}) \ {p}
    OBVIOUS
  <2>10. Total(f, (U \ {y}) \ {p}) \in Nat /\ f[p] \in Nat /\ f[y] \in Nat
    <3>1. IsFiniteSet((U \ {y}) \ {p})
      BY <2>3, FS_RemoveElement
    <3> QED BY <3>1, <2>4, TotalType
  <2> QED BY <2>2, <2>4, <2>7, <2>8, <2>9, <2>10
<1> QED BY <1>1

\* What one element more adds.
LEMMA TotalAdd ==
  ASSUME NEW f, NEW S, IsFiniteSet(S), \A k \in S : f[k] \in Nat, NEW x, x \notin S, f[x] \in Nat
  PROVE  Total(f, S \cup {x}) = Total(f, S) + f[x]
<1>1. IsFiniteSet(S \cup {x}) /\ (S \cup {x}) \ {x} = S
  BY FS_AddElement
<1>2. Total(f, S) \in Nat
  BY TotalType
<1>3. Total(f, S \cup {x}) = f[x] + Total(f, (S \cup {x}) \ {x})
  BY <1>1, TotalRemove
<1>4. Total(f, (S \cup {x}) \ {x}) = Total(f, S)
  BY <1>1
<1> QED BY <1>2, <1>3, <1>4

\* Nothing else has the values of a function that adds up every subset.
LEMMA TotalIs ==
  ASSUME NEW f, NEW S, IsFiniteSet(S), NEW g, Sums(g, f, S)
  PROVE  Total(f, S) = g[S]
<1> DEFINE h == CHOOSE h : Sums(h, f, S)
<1>1. Sums(h, f, S)
  OBVIOUS
<1>2. Total(f, S) = h[S]
  BY TotalDef
<1> HIDE DEF h
<1>3. h[S] = g[S]
  BY <1>1, SumsAgree
<1> QED BY <1>2, <1>3

\* A sum moves with its elements: h numbers the elements of S anew, and g has under the
\* new names what f has under the old ones.
LEMMA TotalImage ==
  ASSUME NEW f, NEW g, NEW h, NEW S, IsFiniteSet(S),
         \A k \in S : f[k] \in Nat /\ g[h[k]] = f[k],
         \A k, l \in S : h[k] = h[l] => k = l
  PROVE  Total(g, {h[k] : k \in S}) = Total(f, S)
<1> DEFINE I(U) == {h[k] : k \in U}
           F == {U \in SUBSET S : Total(g, I(U)) # Total(f, U)}
<1>1. F = {}
  <2> SUFFICES ASSUME F # {} PROVE FALSE
    OBVIOUS
  <2>1. PICK U \in F : \A V \in F : V \subseteq U => V = U
    <3> HIDE DEF F
    <3>1. F \subseteq SUBSET S
      BY DEF F
    <3> QED BY <3>1, SmallestSubset
  <2>2. U # {}
    <3>1. I({}) = {}
      OBVIOUS
    <3> QED BY <3>1, TotalEmpty
  <2>3. PICK x \in U : TRUE
    BY <2>2
  <2>4. IsFiniteSet(U) /\ U \subseteq S
    BY FS_Subset
  <2>5. IsFiniteSet(I(U))
    <3> DEFINE hU == [k \in U |-> h[k]]
    <3>1. hU \in Surjection(U, I(U))
      BY DEF Surjection
    <3> HIDE DEF hU, I
    <3> QED
      BY <2>4, <3>1, FS_Surjection
  <2>6. U \ {x} \notin F /\ U \ {x} \in SUBSET S
    BY <2>1, <2>3
  <2>7. Total(g, I(U \ {x})) = Total(f, U \ {x})
    BY <2>6
  <2>8. I(U \ {x}) = I(U) \ {h[x]} /\ h[x] \in I(U)
    BY <2>3, <2>4
  <2>9. (\A k \in U : f[k] \in Nat) /\ (\A i \in I(U) : g[i] \in Nat) /\ g[h[x]] = f[x]
    BY <2>3, <2>4
  <2> HIDE DEF I, F
  <2>10. Total(f, U) = f[x] + Total(f, U \ {x})
    BY <2>3, <2>4, <2>9, TotalRemove
  <2>11. Total(g, I(U)) = g[h[x]] + Total(g, I(U) \ {h[x]})
    BY <2>5, <2>8, <2>9, TotalRemove
  <2> QED BY <2>1, <2>7, <2>8, <2>9, <2>10, <2>11 DEF F
<1> QED BY <1>1

\* Only the values over S matter.
LEMMA TotalEqual ==
  ASSUME NEW f, NEW g, NEW S, IsFiniteSet(S), \A k \in S : f[k] \in Nat /\ g[k] = f[k]
  PROVE  Total(g, S) = Total(f, S)
<1> DEFINE h == [k \in S |-> k]
<1>1. Total(g, {h[k] : k \in S}) = Total(f, S)
  <2>1. (\A k \in S : g[h[k]] = f[k]) /\ (\A k, l \in S : h[k] = h[l] => k = l)
    OBVIOUS
  <2> HIDE DEF h
  <2> QED BY <2>1, TotalImage
<1>2. {h[k] : k \in S} = S
  OBVIOUS
<1> QED BY <1>1, <1>2

\* A sum of zeros is zero.
LEMMA TotalZero ==
  ASSUME NEW f, NEW S, IsFiniteSet(S), \A k \in S : f[k] = 0
  PROVE  Total(f, S) = 0
<1> DEFINE F == {U \in SUBSET S : Total(f, U) # 0}
<1>1. F = {}
  <2> SUFFICES ASSUME F # {} PROVE FALSE
    OBVIOUS
  <2>1. PICK U \in F : \A V \in F : V \subseteq U => V = U
    <3> HIDE DEF F
    <3>1. F \subseteq SUBSET S
      BY DEF F
    <3> QED BY <3>1, SmallestSubset
  <2>2. U # {} /\ IsFiniteSet(U)
    BY TotalEmpty, FS_Subset
  <2>3. Pick(U) \in U /\ Total(f, U) = f[Pick(U)] + Total(f, U \ {Pick(U)})
    BY <2>2, TotalPick
  <2>4. Total(f, U \ {Pick(U)}) = 0 /\ f[Pick(U)] = 0
    BY <2>1, <2>3
  <2> QED BY <2>3, <2>4
<1> QED BY <1>1

\* Elements that count nothing may be left out.
LEMMA TotalPart ==
  ASSUME NEW f, NEW S, IsFiniteSet(S), \A k \in S : f[k] \in Nat,
         NEW T \in SUBSET S, \A k \in S \ T : f[k] = 0
  PROVE  Total(f, T) = Total(f, S)
<1> DEFINE F == {U \in SUBSET S : Total(f, U \cap T) # Total(f, U)}
<1>1. F = {}
  <2> SUFFICES ASSUME F # {} PROVE FALSE
    OBVIOUS
  <2>1. PICK U \in F : \A V \in F : V \subseteq U => V = U
    <3> HIDE DEF F
    <3>1. F \subseteq SUBSET S
      BY DEF F
    <3> QED BY <3>1, SmallestSubset
  <2>2. {} \cap T = {}
    OBVIOUS
  <2>3. U # {} /\ IsFiniteSet(U) /\ U \subseteq S
    BY <2>2, FS_Subset
  <2> DEFINE x == Pick(U)
             R == U \ {x}
  <2>4. x \in U /\ Total(f, U) = f[x] + Total(f, R)
    BY <2>3, TotalPick
  <2>5. Total(f, R \cap T) = Total(f, R)
    BY <2>1, <2>3, <2>4
  <2>6. Total(f, U \cap T) = f[x] + Total(f, R \cap T)
    <3>1. CASE x \in T
      <4>1. IsFiniteSet(U \cap T) /\ (U \cap T) \ {x} = R \cap T /\ x \in U \cap T
        BY <2>3, <2>4, <3>1, FS_Subset
      <4>2. \A k \in U \cap T : f[k] \in Nat
        BY <2>3
      <4> HIDE DEF x, R
      <4>3. Total(f, U \cap T) = f[x] + Total(f, (U \cap T) \ {x})
        BY <4>1, <4>2, TotalRemove
      <4> QED BY <4>1, <4>3
    <3>2. CASE x \notin T
      <4>1. U \cap T = R \cap T /\ f[x] = 0
        BY <2>3, <2>4, <3>2
      <4>2. IsFiniteSet(R \cap T) /\ \A k \in R \cap T : f[k] \in Nat
        BY <2>3, FS_Subset
      <4>3. Total(f, R \cap T) \in Nat
        BY <4>2, TotalType
      <4>4. Total(f, U \cap T) = Total(f, R \cap T)
        BY <4>1
      <4> HIDE DEF x, R, F
      <4> QED BY <4>1, <4>3, <4>4
    <3> QED BY <3>1, <3>2
  <2> QED BY <2>1, <2>4, <2>5, <2>6
<1>2. S \cap T = T
  OBVIOUS
<1> QED BY <1>1, <1>2

-----------------------------------------------------------------------------
(* Sums over the positions of a sequence.                                  *)

\* What one element in front adds.
LEMMA TotalPush ==
  ASSUME NEW w \in Seq(Nat), NEW n \in Nat
  PROVE  /\ Total(w, DOMAIN w) \in Nat
         /\ Total(<<n>> \o w, DOMAIN (<<n>> \o w)) = n + Total(w, DOMAIN w)
<1> DEFINE t == <<n>> \o w
           D == DOMAIN t
           h == [i \in DOMAIN w |-> i + 1]
<1>1. /\ t \in Seq(Nat) /\ Len(t) = Len(w) + 1 /\ t[1] = n
      /\ \A i \in DOMAIN w : t[i + 1] = w[i] /\ w[i] \in Nat
      /\ \A i \in D : t[i] \in Nat
  OBVIOUS
<1>2. IsFiniteSet(DOMAIN w) /\ IsFiniteSet(D)
  <2>1. DOMAIN w = 1 .. Len(w) /\ D = 1 .. Len(t)
    BY <1>1
  <2>2. IsFiniteSet(1 .. Len(w)) /\ IsFiniteSet(1 .. Len(t))
    BY FS_Interval, <1>1
  <2> QED BY <2>1, <2>2
<1>3. D \ {1} = {h[i] : i \in DOMAIN w} /\ 1 \in D
  <2>1. D = 1 .. Len(w) + 1 /\ DOMAIN w = 1 .. Len(w) /\ Len(w) \in Nat
    BY <1>1
  <2>2. ASSUME NEW i \in D \ {1} PROVE \E j \in DOMAIN w : i = h[j]
    <3>1. i - 1 \in DOMAIN w /\ h[i - 1] = i
      BY <2>1
    <3> QED BY <3>1
  <2>3. \A j \in DOMAIN w : h[j] \in D \ {1}
    BY <2>1
  <2>4. 1 \in D
    BY <2>1
  <2> HIDE DEF D, h
  <2> QED BY <2>2, <2>3, <2>4
<1>4. /\ \A k \in DOMAIN w : w[k] \in Nat /\ t[h[k]] = w[k]
      /\ \A k, l \in DOMAIN w : h[k] = h[l] => k = l
  BY <1>1
<1>5. Total(t, {h[i] : i \in DOMAIN w}) = Total(w, DOMAIN w)
  <2> HIDE DEF h, t
  <2> QED BY <1>2, <1>4, TotalImage
<1>6. Total(t, D) = t[1] + Total(t, D \ {1})
  <2>1. (\A k \in D : t[k] \in Nat) /\ IsFiniteSet(D) /\ 1 \in D
    BY <1>1, <1>2, <1>3
  <2> HIDE DEF t, D
  <2> QED BY <2>1, TotalRemove
<1>7. Total(w, DOMAIN w) \in Nat
  BY <1>1, <1>2, TotalType
<1> HIDE DEF D, h, t
<1>8. Total(t, D) = n + Total(w, DOMAIN w)
  BY <1>1, <1>3, <1>5, <1>6
<1> QED BY <1>7, <1>8 DEF t, D

\* The sum of what a function gives for the elements of a sequence, and what one element
\* in front adds to it.
Along(h, s) == LET w == [i \in DOMAIN s |-> h[s[i]]] IN Total(w, DOMAIN w)

LEMMA AlongPush ==
  ASSUME NEW S, NEW s \in Seq(S), NEW e \in S, NEW h \in [S -> Nat]
  PROVE  /\ Along(h, s) \in Nat
         /\ Along(h, <<e>> \o s) = h[e] + Along(h, s)
<1> DEFINE t == <<e>> \o s
           w == [i \in DOMAIN s |-> h[s[i]]]
           x == [i \in DOMAIN t |-> h[t[i]]]
           n == h[e]
<1>1. n \in Nat /\ \A i \in DOMAIN s : h[s[i]] \in Nat
  OBVIOUS
<1>2. w \in Seq(Nat)
  <2>1. DOMAIN s = 1 .. Len(s) /\ Len(s) \in Nat
    OBVIOUS
  <2>2. w \in [1 .. Len(s) -> Nat]
    BY <1>1, <2>1
  <2> HIDE DEF w
  <2> QED
    BY <2>1, <2>2
<1>3. x = <<n>> \o w
  <2>1. t \in Seq(S) /\ Len(t) = Len(s) + 1 /\ t[1] = e
        /\ \A i \in 1 .. Len(s) : t[i + 1] = s[i]
    OBVIOUS
  <2>2. Len(w) = Len(s) /\ \A i \in 1 .. Len(s) : w[i] = h[s[i]]
    <3>1. DOMAIN w = 1 .. Len(s) /\ Len(s) \in Nat
      OBVIOUS
    <3>2. \A i \in 1 .. Len(s) : w[i] = h[s[i]]
      BY <3>1
    <3> HIDE DEF w
    <3> QED
      BY <1>2, <3>1, <3>2
  <2>3. DOMAIN x = 1 .. Len(s) + 1 /\ \A i \in 1 .. Len(s) + 1 : x[i] = h[t[i]]
    BY <2>1
  <2> HIDE DEF w, x, n, t
  <2> DEFINE y == <<n>> \o w
  <2>4. y \in Seq(Nat) /\ Len(y) = Len(s) + 1 /\ y[1] = n
        /\ \A i \in 1 .. Len(s) : y[i + 1] = w[i]
    BY <1>1, <1>2, <2>2
  <2>5. DOMAIN y = 1 .. Len(s) + 1
    BY <2>4
  <2>6. ASSUME NEW i \in 1 .. Len(s) + 1 PROVE x[i] = y[i]
    <3>1. CASE i = 1
      BY <2>1, <2>3, <2>4, <3>1 DEF n
    <3>2. CASE i # 1
      <4>1. i - 1 \in 1 .. Len(s) /\ (i - 1) + 1 = i
        BY <3>2
      <4>2. t[i] = s[i - 1] /\ y[i] = w[i - 1]
        BY <2>1, <2>4, <4>1
      <4> QED
        BY <2>2, <2>3, <4>1, <4>2
    <3> QED
      BY <3>1, <3>2
  <2>7. x = [i \in DOMAIN x |-> x[i]] /\ y = [i \in DOMAIN y |-> y[i]]
    <3>1. x = [i \in DOMAIN x |-> x[i]]
      BY DEF x
    <3> HIDE DEF y
    <3>2. y \in [1 .. Len(y) -> Nat]
      BY <2>4
    <3> QED
      BY <3>1, <3>2
  <2> HIDE DEF y
  <2>8. x = y
    BY <2>3, <2>5, <2>6, <2>7
  <2> QED
    BY <2>8 DEF y
<1>4. Along(h, s) = Total(w, DOMAIN w) /\ Along(h, t) = Total(x, DOMAIN x)
  BY DEF Along
<1> HIDE DEF n, w, x, t
<1>5. Along(h, s) \in Nat /\ Along(h, t) = n + Along(h, s)
  BY <1>1, <1>2, <1>3, <1>4, TotalPush
<1> QED
  BY <1>5 DEF t, n

-----------------------------------------------------------------------------
(* The stacks of suspended handlers.                                        *)

\* The frames on a stack.
Elements(s) == {s[i] : i \in DOMAIN s}

\* The positions of the frames of one operation.
Marked(s, op) == {i \in DOMAIN s : s[i].op = op}

-----------------------------------------------------------------------------
\* Pushing a frame adds it, and only it.
LEMMA Push ==
  ASSUME NEW S, NEW s \in Seq(S), NEW e \in S
  PROVE  /\ <<e>> \o s \in Seq(S)
         /\ Elements(<<e>> \o s) = {e} \cup Elements(s)
<1> DEFINE t == <<e>> \o s
<1>1. t \in Seq(S)
  OBVIOUS
<1>2. /\ Len(t) = Len(s) + 1
      /\ t[1] = e
      /\ \A i \in 1 .. Len(s) : t[i + 1] = s[i]
  OBVIOUS
<1>3. Elements(t) \subseteq {e} \cup Elements(s)
  <2> SUFFICES ASSUME NEW i \in 1 .. Len(t)
               PROVE  t[i] \in {e} \cup {s[j] : j \in 1 .. Len(s)}
    BY <1>1 DEF Elements
  <2>1. CASE i = 1
    BY <2>1, <1>2
  <2>2. CASE i # 1
    <3>1. i - 1 \in 1 .. Len(s) /\ t[(i - 1) + 1] = s[i - 1]
      BY <2>2, <1>2
    <3> QED
      BY <3>1
  <2> QED
    BY <2>1, <2>2
<1>4. {e} \cup Elements(s) \subseteq Elements(t)
  <2>1. e \in Elements(t)
    BY <1>1, <1>2 DEF Elements
  <2>2. ASSUME NEW i \in 1 .. Len(s) PROVE s[i] \in Elements(t)
    <3>1. i + 1 \in 1 .. Len(t) /\ t[i + 1] = s[i]
      BY <1>2
    <3> QED
      BY <3>1, <1>1 DEF Elements
  <2> QED
    BY <2>1, <2>2 DEF Elements
<1> QED
  BY <1>1, <1>3, <1>4

\* Popping a frame leaves only frames that were there.
LEMMA Pop ==
  ASSUME NEW S, NEW s \in Seq(S), s # << >>
  PROVE  /\ Head(s) \in S /\ Head(s) \in Elements(s)
         /\ Tail(s) \in Seq(S)
         /\ Elements(Tail(s)) \subseteq Elements(s)
         /\ Elements(s) = {Head(s)} \cup Elements(Tail(s))
<1>1. /\ Head(s) \in S /\ Head(s) = s[1] /\ 1 \in DOMAIN s
      /\ Tail(s) \in Seq(S) /\ Len(Tail(s)) = Len(s) - 1
      /\ \A i \in 1 .. Len(Tail(s)) : Tail(s)[i] = s[i + 1]
  OBVIOUS
<1>2. ASSUME NEW i \in DOMAIN Tail(s) PROVE Tail(s)[i] \in Elements(s)
  <2>1. i + 1 \in DOMAIN s /\ Tail(s)[i] = s[i + 1]
    BY <1>1
  <2> QED
    BY <2>1 DEF Elements
<1>3. s = <<Head(s)>> \o Tail(s)
  OBVIOUS
<1>4. Elements(s) = {Head(s)} \cup Elements(Tail(s))
  BY <1>1, <1>3, Push
<1> QED
  BY <1>1, <1>2, <1>4 DEF Elements

\* No frame is on the empty stack.
LEMMA NoElements == Elements(<< >>) = {}
BY DEF Elements

\* The number of frames of one operation is finite, 0 on the empty stack, and goes up
\* by one exactly when a frame of that operation is pushed.
LEMMA MarkedFinite ==
  ASSUME NEW S, NEW s \in Seq(S), NEW op
  PROVE  IsFiniteSet(Marked(s, op)) /\ Cardinality(Marked(s, op)) \in Nat
<1>1. IsFiniteSet(1 .. Len(s))
  BY FS_Interval
<1>2. Marked(s, op) \subseteq 1 .. Len(s)
  BY DEF Marked
<1> QED
  BY <1>1, <1>2, FS_Subset, FS_CardinalityType

LEMMA MarkedEmpty == \A op : Cardinality(Marked(<< >>, op)) = 0
BY FS_EmptySet DEF Marked

LEMMA MarkedPush ==
  ASSUME NEW S, NEW s \in Seq(S), NEW e \in S, NEW op
  PROVE  Cardinality(Marked(<<e>> \o s, op)) =
           Cardinality(Marked(s, op)) + (IF e.op = op THEN 1 ELSE 0)
<1> DEFINE t == <<e>> \o s
           M == Marked(s, op)
           U == {i + 1 : i \in M}
           f == [i \in M |-> i + 1]
<1>1. /\ t \in Seq(S) /\ Len(t) = Len(s) + 1
      /\ t[1] = e
      /\ \A i \in 1 .. Len(s) : t[i + 1] = s[i]
  OBVIOUS
<1>2. IsFiniteSet(M) /\ Cardinality(M) \in Nat /\ M \subseteq 1 .. Len(s)
  <2>1. IsFiniteSet(M) /\ Cardinality(M) \in Nat
    BY MarkedFinite
  <2>2. M \subseteq 1 .. Len(s)
    BY DEF Marked
  <2> QED
    BY <2>1, <2>2
<1>3. f \in Bijection(M, U)
  <2>1. f \in [M -> U]
    OBVIOUS
  <2>2. \A i, j \in M : f[i] = f[j] => i = j
    BY <1>2
  <2>3. \A u \in U : \E i \in M : f[i] = u
    OBVIOUS
  <2> QED
    BY <2>1, <2>2, <2>3 DEF Bijection, Injection, IsInjective, Surjection
<1>4. IsFiniteSet(U) /\ Cardinality(U) = Cardinality(M)
  <2> HIDE DEF M, U, f
  <2> QED
    BY <1>2, <1>3, FS_Bijection DEF ExistsBijection
<1>5. Marked(t, op) = U \cup (IF e.op = op THEN {1} ELSE {})
  <2>1. ASSUME NEW i \in Marked(t, op), i # 1 PROVE i \in U
    <3>1. i - 1 \in 1 .. Len(s) /\ t[(i - 1) + 1] = s[i - 1]
      BY <2>1, <1>1 DEF Marked
    <3>2. i - 1 \in M
      BY <3>1, <2>1 DEF Marked
    <3> QED
      BY <3>2, <2>1, <1>1 DEF Marked
  <2>2. ASSUME NEW i \in M PROVE i + 1 \in Marked(t, op)
    <3>1. i + 1 \in 1 .. Len(t) /\ t[i + 1] = s[i] /\ s[i].op = op
      BY <2>2, <1>1, <1>2 DEF Marked
    <3> QED
      BY <3>1, <1>1 DEF Marked
  <2>3. 1 \in Marked(t, op) <=> e.op = op
    BY <1>1 DEF Marked
  <2> QED
    BY <2>1, <2>2, <2>3
<1>6. 1 \notin U
  BY <1>2
<1>7. CASE e.op = op
  <2>1. Marked(t, op) = U \cup {1}
    BY <1>5, <1>7
  <2>2. Cardinality(U \cup {1}) = Cardinality(U) + 1
    <3> HIDE DEF U
    <3> QED
      BY <1>4, <1>6, FS_AddElement
  <2> QED
    BY <2>1, <2>2, <1>4, <1>7
<1>8. CASE e.op # op
  <2>1. Marked(t, op) = U
    BY <1>5, <1>8
  <2> HIDE DEF U, f
  <2> QED
    BY <2>1, <1>2, <1>4, <1>8
<1> QED
  BY <1>7, <1>8

\* It goes down by one exactly when a frame of that operation is popped.
LEMMA MarkedPop ==
  ASSUME NEW S, NEW s \in Seq(S), s # << >>, NEW op
  PROVE  Cardinality(Marked(s, op)) =
           Cardinality(Marked(Tail(s), op)) + (IF Head(s).op = op THEN 1 ELSE 0)
<1>1. /\ Head(s) \in S /\ Tail(s) \in Seq(S)
      /\ s = <<Head(s)>> \o Tail(s)
  OBVIOUS
<1>2. Cardinality(Marked(<<Head(s)>> \o Tail(s), op)) =
        Cardinality(Marked(Tail(s), op)) + (IF Head(s).op = op THEN 1 ELSE 0)
  BY <1>1, MarkedPush
<1> QED
  BY <1>1, <1>2

=============================================================================
