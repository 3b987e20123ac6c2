------------------------------ MODULE SumProofs ------------------------------
(***************************************************************************)
(* What SumIn does, for every array and every finite set of indices.       *)
(*                                                                         *)
(* The sum is a fold, a function that is recursive over the subsets of the *)
(* set.  Every fact here is proved by a smallest counterexample: among the *)
(* finite sets for which it fails there would be one none of whose proper  *)
(* subsets fails (SmallestSet), and there the recursion gives it after     *)
(* all.  Before that, the recursion is shown to define a function at all   *)
(* (PartialSumsExist) and no more than one (PartialSumsUnique).            *)
(***************************************************************************)
EXTENDS Sums, FiniteSetTheorems, WellFoundedInduction, TLAPS

\* A set of finite sets that is not empty has a smallest one.
LEMMA SmallestSet ==
  ASSUME NEW S, IsFiniteSet(S), NEW C, C \subseteq SUBSET S, C # {}
  PROVE  \E U \in C : \A V \in C : V \subseteq U => V = U
<1>1. IsWellFoundedOn(StrictSubsetOrdering(S), SUBSET S)
  BY FS_StrictSubsetOrderingWellFounded, FS_FiniteSubsetsOfFinite
<1>2. PICK U \in C : \A V \in C : <<V, U>> \notin StrictSubsetOrdering(S)
  BY <1>1, WFMin
<1>3. ASSUME NEW V \in C, V \subseteq U
      PROVE  V = U
  BY <1>2, <1>3 DEF StrictSubsetOrdering
<1> QED BY <1>3

-----------------------------------------------------------------------------
\* The member of s that the fold takes next, and what it leaves.
OneOf(s) == CHOOSE x \in s : TRUE
AllButOne(s) == s \ {OneOf(s)}

\* g[s] is the sum of f over s, for the subsets s of S.
IsPartialSums(f, S, g) ==
  g = [s \in SUBSET S |-> IF s = {} THEN 0 ELSE f[OneOf(s)] + g[AllButOne(s)]]

PartialSums(f, S) == CHOOSE g : IsPartialSums(f, S, g)

LEMMA SumIsPartialSum ==
  ASSUME NEW f, NEW S
  PROVE  SumIn(f, S) = PartialSums(f, S)[S]
BY DEF SumIn, MapThenSumSet, MapThenFoldSet, PartialSums, IsPartialSums, OneOf, AllButOne

\* OneOf(s) is a member.
LEMMA AllButOneSmaller ==
  ASSUME NEW s, s # {}
  PROVE  OneOf(s) \in s /\ AllButOne(s) \subseteq s /\ AllButOne(s) # s
BY DEF OneOf, AllButOne

\* Two tables of partial sums agree wherever both are defined.
LEMMA PartialSumsUnique ==
  ASSUME NEW f, NEW S, NEW T, NEW g, NEW h, IsFiniteSet(S),
         IsPartialSums(f, S, g), IsPartialSums(f, T, h),
         NEW U, U \subseteq S, U \subseteq T
  PROVE  g[U] = h[U]
<1> DEFINE C == {V \in SUBSET U : g[V] # h[V]}
<1>1. SUFFICES ASSUME C # {} PROVE FALSE
  OBVIOUS
<1>2. IsFiniteSet(U)
  BY FS_Subset
<1>3. PICK V \in C : \A W \in C : W \subseteq V => W = V
  <2>1. C \subseteq SUBSET U
    OBVIOUS
  <2> HIDE DEF C
  <2> QED BY <1>1, <1>2, <2>1, SmallestSet
<1>4. V \in SUBSET S /\ V \in SUBSET T
  OBVIOUS
<1>5. g[V] = IF V = {} THEN 0 ELSE f[OneOf(V)] + g[AllButOne(V)]
  BY <1>4 DEF IsPartialSums
<1>6. h[V] = IF V = {} THEN 0 ELSE f[OneOf(V)] + h[AllButOne(V)]
  BY <1>4 DEF IsPartialSums
<1>7. V # {}
  BY <1>5, <1>6
<1>8. AllButOne(V) \subseteq U /\ AllButOne(V) \notin C
  BY <1>3, <1>7, AllButOneSmaller
<1>9. g[AllButOne(V)] = h[AllButOne(V)]
  BY <1>8
<1> QED BY <1>5, <1>6, <1>9

\* The recursion of the fold defines a function.
LEMMA PartialSumsExist ==
  ASSUME NEW f, NEW S, IsFiniteSet(S)
  PROVE  \E g : IsPartialSums(f, S, g)
<1> DEFINE C == {V \in SUBSET S : ~ \E g : IsPartialSums(f, V, g)}
<1>1. SUFFICES ASSUME C # {} PROVE FALSE
  OBVIOUS
<1>2. PICK U \in C : \A V \in C : V \subseteq U => V = U
  <2>1. C \subseteq SUBSET S
    OBVIOUS
  <2> HIDE DEF C
  <2> QED BY <1>1, <2>1, SmallestSet
<1> DEFINE h == [s \in SUBSET U |->
                   IF s = {} THEN 0 ELSE f[OneOf(s)] + PartialSums(f, AllButOne(s))[AllButOne(s)]]
<1>3. ASSUME NEW s \in SUBSET U, s # U
      PROVE  IsPartialSums(f, s, PartialSums(f, s))
  <2>1. s \notin C
    BY <1>2, <1>3
  <2>2. s \in SUBSET S
    OBVIOUS
  <2>3. \E g : IsPartialSums(f, s, g)
    BY <2>1, <2>2
  <2> QED BY <2>3 DEF PartialSums
<1>4. ASSUME NEW s \in SUBSET U, s # U
      PROVE  PartialSums(f, s)[s] = h[s]
  <2>1. IsFiniteSet(s)
    BY FS_Subset
  <2>2. PartialSums(f, s)[s]
          = IF s = {} THEN 0 ELSE f[OneOf(s)] + PartialSums(f, s)[AllButOne(s)]
    BY <1>3, <1>4, s \in SUBSET s DEF IsPartialSums
  <2>3. ASSUME s # {}
        PROVE  PartialSums(f, s)[AllButOne(s)] = PartialSums(f, AllButOne(s))[AllButOne(s)]
    <3>1. AllButOne(s) \in SUBSET U /\ AllButOne(s) # U /\ AllButOne(s) \subseteq s
      BY <1>4, <2>3, AllButOneSmaller
    <3>2. IsPartialSums(f, AllButOne(s), PartialSums(f, AllButOne(s))) /\ IsPartialSums(f, s, PartialSums(f, s))
      BY <1>3, <1>4, <3>1
    <3> QED BY <2>1, <3>1, <3>2, PartialSumsUnique
  <2> QED BY <2>2, <2>3
<1>5. ASSUME NEW s \in SUBSET U, s # {}
      PROVE  AllButOne(s) \in SUBSET U /\ AllButOne(s) # U
  BY <1>5, AllButOneSmaller
<1>6. ASSUME NEW s \in SUBSET U
      PROVE  h[s] = IF s = {} THEN 0 ELSE f[OneOf(s)] + h[AllButOne(s)]
  BY <1>4, <1>5
<1>7. h = [s \in SUBSET U |-> IF s = {} THEN 0 ELSE f[OneOf(s)] + h[AllButOne(s)]]
  <2> DEFINE k == [s \in SUBSET U |-> IF s = {} THEN 0 ELSE f[OneOf(s)] + h[AllButOne(s)]]
  <2>1. \A s \in SUBSET U : h[s] = k[s]
    BY <1>6
  <2> QED BY <2>1
<1>8. IsPartialSums(f, U, h)
  BY <1>7 DEF IsPartialSums
<1> QED BY <1>8

-----------------------------------------------------------------------------
\* The recursion of the fold, in terms of sums.
LEMMA SumRecursion ==
  ASSUME NEW f, NEW S, IsFiniteSet(S)
  PROVE  SumIn(f, S) = IF S = {} THEN 0 ELSE f[OneOf(S)] + SumIn(f, AllButOne(S))
<1>1. IsPartialSums(f, S, PartialSums(f, S))
  BY PartialSumsExist DEF PartialSums
<1>2. PartialSums(f, S)[S] = IF S = {} THEN 0 ELSE f[OneOf(S)] + PartialSums(f, S)[AllButOne(S)]
  BY <1>1, S \in SUBSET S DEF IsPartialSums
<1>3. ASSUME S # {}
      PROVE  PartialSums(f, S)[AllButOne(S)] = SumIn(f, AllButOne(S))
  <2>1. AllButOne(S) \subseteq S /\ IsFiniteSet(AllButOne(S))
    BY <1>3, AllButOneSmaller, FS_Subset
  <2>2. IsPartialSums(f, AllButOne(S), PartialSums(f, AllButOne(S)))
    BY <2>1, PartialSumsExist DEF PartialSums
  <2>3. PartialSums(f, AllButOne(S))[AllButOne(S)] = PartialSums(f, S)[AllButOne(S)]
    BY <1>1, <2>1, <2>2, PartialSumsUnique
  <2> QED BY <2>3, SumIsPartialSum
<1> QED BY <1>2, <1>3, SumIsPartialSum

\* The empty sum.
LEMMA SumEmpty ==
  ASSUME NEW f
  PROVE  SumIn(f, {}) = 0
BY SumRecursion, FS_EmptySet

\* A sum of naturals is one.
LEMMA SumNat ==
  ASSUME NEW f, NEW S, IsFiniteSet(S), \A i \in S : f[i] \in Nat
  PROVE  SumIn(f, S) \in Nat
<1> DEFINE C == {V \in SUBSET S : SumIn(f, V) \notin Nat}
<1>1. SUFFICES ASSUME C # {} PROVE FALSE
  BY S \in SUBSET S
<1>2. PICK U \in C : \A V \in C : V \subseteq U => V = U
  <2>1. C \subseteq SUBSET S
    OBVIOUS
  <2> HIDE DEF C
  <2> QED BY <1>1, <2>1, SmallestSet
<1>3. IsFiniteSet(U)
  BY FS_Subset
<1>4. U # {}
  BY SumEmpty
<1>5. OneOf(U) \in U /\ AllButOne(U) \subseteq U /\ AllButOne(U) # U
  BY <1>4, AllButOneSmaller
<1>6. AllButOne(U) \in SUBSET S /\ AllButOne(U) \notin C
  BY <1>2, <1>5
<1>7. SumIn(f, AllButOne(U)) \in Nat /\ f[OneOf(U)] \in Nat
  BY <1>5, <1>6
<1>8. SumIn(f, U) = f[OneOf(U)] + SumIn(f, AllButOne(U))
  BY <1>3, <1>4, SumRecursion
<1>9. SumIn(f, U) \notin Nat
  OBVIOUS
<1> QED BY <1>7, <1>8, <1>9

\* Any member can be taken out first: the order of the fold does not matter.
LEMMA SumRemove ==
  ASSUME NEW f, NEW S, IsFiniteSet(S), \A i \in S : f[i] \in Nat, NEW x \in S
  PROVE  SumIn(f, S) = f[x] + SumIn(f, S \ {x})
<1> DEFINE C == {V \in SUBSET S : \E y \in V : SumIn(f, V) # f[y] + SumIn(f, V \ {y})}
<1>1. SUFFICES ASSUME C # {} PROVE FALSE
  BY S \in SUBSET S
<1>2. PICK U \in C : \A V \in C : V \subseteq U => V = U
  <2>1. C \subseteq SUBSET S
    OBVIOUS
  <2> HIDE DEF C
  <2> QED BY <1>1, <2>1, SmallestSet
<1>3. PICK y \in U : SumIn(f, U) # f[y] + SumIn(f, U \ {y})
  OBVIOUS
<1> DEFINE z == OneOf(U)
<1> DEFINE both == U \ {y, z}
<1>4. z \in U /\ AllButOne(U) = U \ {z}
  BY AllButOneSmaller DEF AllButOne
<1> HIDE DEF z
<1>5. U \subseteq S /\ IsFiniteSet(U) /\ IsFiniteSet(U \ {y})
  BY FS_Subset
<1>6. SumIn(f, U) = f[z] + SumIn(f, U \ {z})
  BY <1>4, <1>5, SumRecursion DEF z
<1>7. y # z
  BY <1>3, <1>6
<1>8. /\ SumIn(f, U \ {z}) = f[y] + SumIn(f, both)
      /\ SumIn(f, U \ {y}) = f[z] + SumIn(f, both)
  <2>1. U \ {z} \notin C /\ U \ {y} \notin C
    BY <1>2, <1>4
  <2>2. /\ \A w \in U \ {z} : SumIn(f, U \ {z}) = f[w] + SumIn(f, (U \ {z}) \ {w})
        /\ \A w \in U \ {y} : SumIn(f, U \ {y}) = f[w] + SumIn(f, (U \ {y}) \ {w})
    BY <1>5, <2>1
  <2>3. (U \ {z}) \ {y} = both /\ (U \ {y}) \ {z} = both
    OBVIOUS
  <2> QED BY <1>4, <1>7, <2>2, <2>3
<1>9. f[y] \in Nat /\ f[z] \in Nat /\ SumIn(f, both) \in Nat
  BY <1>4, <1>5, FS_Subset, SumNat
<1> QED BY <1>3, <1>6, <1>8, <1>9

\* Arrays that agree on the set have the same sum.
LEMMA SumAgree ==
  ASSUME NEW f, NEW g, NEW S, IsFiniteSet(S), \A i \in S : f[i] = g[i]
  PROVE  SumIn(f, S) = SumIn(g, S)
<1> DEFINE C == {V \in SUBSET S : SumIn(f, V) # SumIn(g, V)}
<1>1. SUFFICES ASSUME C # {} PROVE FALSE
  BY S \in SUBSET S
<1>2. PICK U \in C : \A V \in C : V \subseteq U => V = U
  <2>1. C \subseteq SUBSET S
    OBVIOUS
  <2> HIDE DEF C
  <2> QED BY <1>1, <2>1, SmallestSet
<1>3. IsFiniteSet(U) /\ SumIn(f, U) # SumIn(g, U)
  BY FS_Subset
<1>4. U # {}
  BY <1>3, SumEmpty
<1>5. OneOf(U) \in U /\ AllButOne(U) \subseteq U /\ AllButOne(U) # U
  BY <1>4, AllButOneSmaller
<1>6. AllButOne(U) \in SUBSET S /\ AllButOne(U) \notin C
  BY <1>2, <1>5
<1>7. SumIn(f, AllButOne(U)) = SumIn(g, AllButOne(U)) /\ f[OneOf(U)] = g[OneOf(U)]
  BY <1>5, <1>6
<1> QED BY <1>3, <1>4, <1>7, SumRecursion

\* What one entry gains the sum gains.
LEMMA SumGain ==
  ASSUME NEW f, NEW g, NEW S, IsFiniteSet(S), NEW x \in S, NEW n \in Nat,
         \A i \in S : f[i] \in Nat,
         \A i \in S \ {x} : g[i] = f[i],
         g[x] = f[x] + n
  PROVE  SumIn(g, S) = SumIn(f, S) + n
<1>1. \A i \in S : g[i] \in Nat
  OBVIOUS
<1>2. SumIn(f, S) = f[x] + SumIn(f, S \ {x}) /\ SumIn(g, S) = g[x] + SumIn(g, S \ {x})
  BY <1>1, SumRemove
<1>3. IsFiniteSet(S \ {x})
  BY FS_Subset
<1>4. SumIn(f, S \ {x}) = SumIn(g, S \ {x}) /\ SumIn(f, S \ {x}) \in Nat
  BY <1>3, SumAgree, SumNat
<1> QED BY <1>2, <1>4

\* A sum of zeros.
LEMMA SumZero ==
  ASSUME NEW f, NEW S, IsFiniteSet(S), \A i \in S : f[i] = 0
  PROVE  SumIn(f, S) = 0
<1> DEFINE C == {V \in SUBSET S : SumIn(f, V) # 0}
<1>1. SUFFICES ASSUME C # {} PROVE FALSE
  BY S \in SUBSET S
<1>2. PICK U \in C : \A V \in C : V \subseteq U => V = U
  <2>1. C \subseteq SUBSET S
    OBVIOUS
  <2> HIDE DEF C
  <2> QED BY <1>1, <2>1, SmallestSet
<1>3. IsFiniteSet(U) /\ SumIn(f, U) # 0
  BY FS_Subset
<1>4. U # {}
  BY <1>3, SumEmpty
<1>5. OneOf(U) \in U /\ AllButOne(U) \subseteq U /\ AllButOne(U) # U
  BY <1>4, AllButOneSmaller
<1>6. AllButOne(U) \in SUBSET S /\ AllButOne(U) \notin C
  BY <1>2, <1>5
<1>7. SumIn(f, AllButOne(U)) = 0 /\ f[OneOf(U)] = 0
  BY <1>5, <1>6
<1> QED BY <1>3, <1>4, <1>7, SumRecursion

\* Fewer entries sum up to no more, when none is negative.
LEMMA SumSubset ==
  ASSUME NEW f, NEW S, NEW T, IsFiniteSet(S), \A i \in S : f[i] \in Nat, T \subseteq S
  PROVE  SumIn(f, T) <= SumIn(f, S)
<1> DEFINE C == {V \in SUBSET S : T \subseteq V /\ ~ SumIn(f, T) <= SumIn(f, V)}
<1>1. SUFFICES ASSUME C # {} PROVE FALSE
  BY S \in SUBSET S
<1>2. PICK U \in C : \A V \in C : V \subseteq U => V = U
  <2>1. C \subseteq SUBSET S
    OBVIOUS
  <2> HIDE DEF C
  <2> QED BY <1>1, <2>1, SmallestSet
<1>3. IsFiniteSet(U) /\ IsFiniteSet(T) /\ T \subseteq U /\ ~ SumIn(f, T) <= SumIn(f, U)
  BY FS_Subset
<1>4. SumIn(f, T) \in Nat
  BY <1>3, SumNat
<1>5. PICK x \in U : x \notin T
  BY <1>3, <1>4
<1>6. U \ {x} \in SUBSET S /\ T \subseteq U \ {x} /\ U \ {x} \notin C
  BY <1>2, <1>3, <1>5
<1>7. SumIn(f, T) <= SumIn(f, U \ {x})
  BY <1>6
<1>8. SumIn(f, U) = f[x] + SumIn(f, U \ {x}) /\ f[x] \in Nat /\ SumIn(f, U \ {x}) \in Nat
  BY <1>3, FS_Subset, SumRemove, SumNat
<1> QED BY <1>3, <1>4, <1>7, <1>8

\* One entry is at most the sum.
LEMMA SumMember ==
  ASSUME NEW f, NEW S, IsFiniteSet(S), \A i \in S : f[i] \in Nat, NEW x \in S
  PROVE  f[x] <= SumIn(f, S)
<1>1. SumIn(f, S) = f[x] + SumIn(f, S \ {x}) /\ SumIn(f, S \ {x}) \in Nat
  BY FS_Subset, SumRemove, SumNat
<1> QED BY <1>1

-----------------------------------------------------------------------------
(* The sum of a whole array. *)

\* The sum of an array of naturals is one.
LEMMA SumOfNat ==
  ASSUME NEW S, IsFiniteSet(S), NEW f \in [S -> Nat]
  PROVE  SumOf(f) \in Nat
BY SumNat DEF SumOf

\* The sum of an array of zeros.
LEMMA SumOfZero ==
  ASSUME NEW S, IsFiniteSet(S)
  PROVE  SumOf([i \in S |-> 0]) = 0
BY SumZero DEF SumOf

\* What an entry gains the sum gains.
LEMMA SumOfGain ==
  ASSUME NEW S, IsFiniteSet(S), NEW f \in [S -> Nat], NEW x \in S, NEW n \in Nat
  PROVE  SumOf([f EXCEPT ![x] = f[x] + n]) = SumOf(f) + n
<1> DEFINE g == [f EXCEPT ![x] = f[x] + n]
<1>1. /\ DOMAIN f = S /\ DOMAIN g = S
      /\ \A i \in S : f[i] \in Nat
      /\ \A i \in S \ {x} : g[i] = f[i]
      /\ g[x] = f[x] + n
  OBVIOUS
<1> HIDE DEF g
<1>2. SumIn(g, S) = SumIn(f, S) + n
  BY <1>1, SumGain
<1> QED BY <1>1, <1>2 DEF SumOf, g

=============================================================================
