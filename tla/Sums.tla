-------------------------------- MODULE Sums --------------------------------
(***************************************************************************)
(* Facts about MapThenSumSet, the sum over a finite set, for the proofs    *)
(* that money and credits add up.  The sum is defined by CHOOSE, as the    *)
(* value of a function on sets that satisfies an equation; that such a     *)
(* function exists, and that the order in which it takes the elements does *)
(* not matter, is proved by looking at a minimal set for which it fails.   *)
(***************************************************************************)
EXTENDS Integers, FiniteSetsExt, FiniteSetTheorems, TLAPS

\* The sum of f[x] over the x in S.
SumOver(f, S) == MapThenSumSet(LAMBDA x : f[x], S)

Pick(s) == CHOOSE x \in s : TRUE

\* g maps every subset of U to its sum, one element after the other.
Iterates(g, f, U) ==
  g = [s \in SUBSET U |-> IF s = {} THEN 0 ELSE f[Pick(s)] + g[s \ {Pick(s)}]]

\* Among sets of subsets of a finite set one is minimal: the induction that every
\* proof below is.
LEMMA Least ==
  ASSUME NEW S, IsFiniteSet(S), NEW T, T \subseteq SUBSET S, T # {}
  PROVE  \E x \in T : \A y \in T : ~ (y \subseteq x /\ y # x)
<1>1. IsWellFoundedOn(StrictSubsetOrdering(S), SUBSET S)
  BY FS_StrictSubsetOrderingWellFounded, FS_FiniteSubsetsOfFinite
<1>2. PICK x \in T : \A y \in T : ~ (<<y, x>> \in StrictSubsetOrdering(S))
  BY <1>1, WFMin
<1> QED
  BY <1>2 DEF StrictSubsetOrdering

\* The equation of an iteration, for a set with elements and for the empty one.
LEMMA IterationStep ==
  ASSUME NEW g, NEW f, NEW U, Iterates(g, f, U), NEW s, s \subseteq U, s # {}
  PROVE  /\ Pick(s) \in s
         /\ g[s] = f[Pick(s)] + g[s \ {Pick(s)}]
BY DEF Iterates, Pick

\* The sum over the empty set is 0.
LEMMA IterationOfNothing ==
  ASSUME NEW g, NEW f, NEW U, Iterates(g, f, U)
  PROVE  g[{}] = 0
BY DEF Iterates

\* Two iterations have the same value on a finite set that both cover, when they
\* add up the same numbers: a minimal subset on which they differ would differ by
\* what its rest differs by.
LEMMA IterationsAgree ==
  ASSUME NEW g, NEW f, NEW U, Iterates(g, f, U),
         NEW h, NEW k, NEW V, Iterates(h, k, V),
         NEW q, q \subseteq U, q \subseteq V, IsFiniteSet(q),
         \A x \in q : f[x] = k[x]
  PROVE  g[q] = h[q]
<1> DEFINE T == {s \in SUBSET q : g[s] # h[s]}
<1>1. SUFFICES ASSUME g[q] # h[q] PROVE FALSE
  OBVIOUS
<1>2. T \subseteq SUBSET q /\ T # {}
  BY <1>1
<1> HIDE DEF T
<1>3. PICK s \in T : \A y \in T : ~ (y \subseteq s /\ y # s)
  BY <1>2, Least
<1>4. s # {}
  BY IterationOfNothing, <1>3 DEF T
<1>5. s \subseteq q /\ s \subseteq U /\ s \subseteq V
  BY <1>3 DEF T
<1>6. Pick(s) \in s
  BY <1>4 DEF Pick
<1>7. g[s] = f[Pick(s)] + g[s \ {Pick(s)}]
  BY <1>4, <1>5, IterationStep
<1>8. h[s] = k[Pick(s)] + h[s \ {Pick(s)}]
  BY <1>4, <1>5, IterationStep
<1>9. g[s \ {Pick(s)}] = h[s \ {Pick(s)}]
  BY <1>3, <1>6, <1>5 DEF T
<1> QED
  BY <1>3, <1>6, <1>5, <1>7, <1>8, <1>9 DEF T

\* The equation has a solution on every finite set: on a minimal set without one
\* it could be put together from the solutions on its proper subsets.
LEMMA IterationExists ==
  ASSUME NEW f, NEW S, IsFiniteSet(S)
  PROVE  \E g : Iterates(g, f, S)
<1> DEFINE T == {U \in SUBSET S : ~ \E g : Iterates(g, f, U)}
           H(V) == CHOOSE h : Iterates(h, f, V)
<1>1. SUFFICES ASSUME ~ \E g : Iterates(g, f, S) PROVE FALSE
  OBVIOUS
<1>2. T \subseteq SUBSET S /\ T # {}
  BY <1>1
<1> HIDE DEF T
<1>3. PICK U \in T : \A y \in T : ~ (y \subseteq U /\ y # U)
  BY <1>2, Least
<1> USE DEF T
<1>4. ASSUME NEW V, V \subseteq U, V # U
      PROVE  Iterates(H(V), f, V) /\ IsFiniteSet(V)
  <2>1. V \in SUBSET S /\ V \notin T
    BY <1>3, <1>4
  <2>2. \E g : Iterates(g, f, V)
    BY <2>1
  <2>3. Iterates(H(V), f, V)
    BY <2>2
  <2> QED
    BY <2>1, <2>3, FS_Subset
<1> DEFINE G == [s \in SUBSET U |-> IF s = {} THEN 0
                     ELSE f[Pick(s)] + H(s \ {Pick(s)})[s \ {Pick(s)}]]
<1> HIDE DEF H
<1>5. ASSUME NEW r, r \subseteq U, r # U
      PROVE  G[r] = H(r)[r]
  <2>1. CASE r = {}
    BY <2>1, <1>4, <1>5, IterationOfNothing
  <2>2. CASE r # {}
    <3> DEFINE q == r \ {Pick(r)}
    <3>1. Pick(r) \in r /\ H(r)[r] = f[Pick(r)] + H(r)[q]
      BY <2>2, <1>4, <1>5, IterationStep
    <3>2. q \subseteq r /\ q \subseteq U /\ q # U
      BY <1>5, <3>1
    <3>3. Iterates(H(r), f, r) /\ Iterates(H(q), f, q) /\ IsFiniteSet(q)
      BY <1>4, <1>5, <3>2
    <3>4. H(r)[q] = H(q)[q]
      BY <3>2, <3>3, IterationsAgree
    <3> QED
      BY <2>2, <1>5, <3>1, <3>4
  <2> QED
    BY <2>1, <2>2
<1>6. ASSUME NEW s \in SUBSET U, s # {}
      PROVE  G[s] = f[Pick(s)] + G[s \ {Pick(s)}]
  <2>1. Pick(s) \in s
    BY <1>6 DEF Pick
  <2>2. G[s \ {Pick(s)}] = H(s \ {Pick(s)})[s \ {Pick(s)}]
    BY <1>5, <1>6, <2>1
  <2> QED
    BY <1>6, <2>2
<1>7. G[{}] = 0
  OBVIOUS
<1>8. G = [s \in SUBSET U |-> G[s]]
  OBVIOUS
<1> HIDE DEF G
<1>9. Iterates(G, f, U)
  BY <1>6, <1>7, <1>8 DEF Iterates
<1> QED
  BY <1>3, <1>9

\* So the CHOOSE in the definition of a sum chooses an iteration.
LEMMA SumIsIterated ==
  ASSUME NEW f, NEW S, IsFiniteSet(S)
  PROVE  \E g : Iterates(g, f, S) /\ SumOver(f, S) = g[S]
<1>1. SumOver(f, S) = (CHOOSE g : Iterates(g, f, S))[S]
  BY DEF SumOver, MapThenSumSet, MapThenFoldSet, Iterates, Pick
<1> QED
  BY <1>1, IterationExists

-----------------------------------------------------------------------------
(* What the proofs about money and credits use.                            *)

\* Nothing adds up to 0.
LEMMA SumOfNothing ==
  ASSUME NEW f
  PROVE  SumOver(f, {}) = 0
BY SumIsIterated, IterationOfNothing, FS_EmptySet

\* A sum depends on no value outside its set.
LEMMA SumOfEquals ==
  ASSUME NEW f, NEW k, NEW S, IsFiniteSet(S), \A x \in S : f[x] = k[x]
  PROVE  SumOver(f, S) = SumOver(k, S)
<1>1. PICK g : Iterates(g, f, S) /\ SumOver(f, S) = g[S]
  BY SumIsIterated
<1>2. PICK h : Iterates(h, k, S) /\ SumOver(k, S) = h[S]
  BY SumIsIterated
<1> QED
  BY <1>1, <1>2, IterationsAgree

\* The element that the definition picks can be taken out.
LEMMA SumUnfolds ==
  ASSUME NEW f, NEW S, IsFiniteSet(S), S # {}
  PROVE  /\ Pick(S) \in S
         /\ SumOver(f, S) = f[Pick(S)] + SumOver(f, S \ {Pick(S)})
<1> DEFINE R == S \ {Pick(S)}
<1>0. IsFiniteSet(R) /\ R \subseteq S
  BY FS_Subset
<1>1. PICK g : Iterates(g, f, S) /\ SumOver(f, S) = g[S]
  BY SumIsIterated
<1>2. PICK h : Iterates(h, f, R) /\ SumOver(f, R) = h[R]
  BY <1>0, SumIsIterated
<1>3. g[R] = h[R]
  BY <1>0, <1>1, <1>2, IterationsAgree
<1> QED
  BY <1>1, <1>2, <1>3, IterationStep

\* Natural numbers add up to a natural number.
LEMMA SumType ==
  ASSUME NEW f, NEW S, IsFiniteSet(S), \A x \in S : f[x] \in Nat
  PROVE  SumOver(f, S) \in Nat
<1> DEFINE T == {s \in SUBSET S : SumOver(f, s) \notin Nat}
<1>1. SUFFICES ASSUME SumOver(f, S) \notin Nat PROVE FALSE
  OBVIOUS
<1>2. T \subseteq SUBSET S /\ T # {}
  BY <1>1
<1> HIDE DEF T
<1>3. PICK s \in T : \A y \in T : ~ (y \subseteq s /\ y # s)
  BY <1>2, Least
<1> USE DEF T
<1>4. IsFiniteSet(s) /\ s # {}
  <2>1. IsFiniteSet(s)
    BY <1>3, FS_Subset
  <2>2. SumOver(f, s) \notin Nat /\ SumOver(f, {}) \in Nat
    BY <1>3, SumOfNothing
  <2> QED
    BY <2>1, <2>2
<1>5. Pick(s) \in s /\ SumOver(f, s) = f[Pick(s)] + SumOver(f, s \ {Pick(s)})
  BY <1>4, SumUnfolds
<1>6. SumOver(f, s \ {Pick(s)}) \in Nat
  BY <1>3, <1>5
<1> QED
  BY <1>3, <1>5, <1>6

\* Any element can be taken out: the order of the additions does not matter.
LEMMA SumWithout ==
  ASSUME NEW f, NEW S, IsFiniteSet(S), \A x \in S : f[x] \in Nat, NEW e \in S
  PROVE  SumOver(f, S) = f[e] + SumOver(f, S \ {e})
<1> DEFINE Bad(s) == \E x \in s : SumOver(f, s) # f[x] + SumOver(f, s \ {x})
           T == {s \in SUBSET S : Bad(s)}
<1>1. SUFFICES ASSUME Bad(S) PROVE FALSE
  OBVIOUS
<1>2. T \subseteq SUBSET S /\ T # {}
  BY <1>1
<1> HIDE DEF T
<1>3. PICK s \in T : \A y \in T : ~ (y \subseteq s /\ y # s)
  BY <1>2, Least
<1> USE DEF T
<1>4. PICK x \in s : SumOver(f, s) # f[x] + SumOver(f, s \ {x})
  BY <1>3
<1> DEFINE p == Pick(s)
<1>5. IsFiniteSet(s) /\ s \subseteq S
  BY <1>3, FS_Subset
<1>6. p \in s /\ SumOver(f, s) = f[p] + SumOver(f, s \ {p})
  BY <1>4, <1>5, SumUnfolds
<1>7. x # p
  BY <1>4, <1>6
<1>8. SumOver(f, s \ {p}) = f[x] + SumOver(f, (s \ {p}) \ {x})
  BY <1>3, <1>4, <1>6, <1>7
<1>9. SumOver(f, s \ {x}) = f[p] + SumOver(f, (s \ {x}) \ {p})
  BY <1>3, <1>4, <1>6, <1>7
<1>10. (s \ {p}) \ {x} = (s \ {x}) \ {p}
  OBVIOUS
<1>11. IsFiniteSet((s \ {x}) \ {p})
  BY <1>5, FS_Subset
<1>12. SumOver(f, (s \ {x}) \ {p}) \in Nat /\ f[x] \in Nat /\ f[p] \in Nat
  BY <1>5, <1>6, <1>11, SumType
<1> QED
  BY <1>4, <1>6, <1>8, <1>9, <1>10, <1>12

\* One more element adds its value.
LEMMA SumWith ==
  ASSUME NEW f, NEW S, IsFiniteSet(S), NEW e, e \notin S,
         \A x \in S \cup {e} : f[x] \in Nat
  PROVE  SumOver(f, S \cup {e}) = SumOver(f, S) + f[e]
<1>1. IsFiniteSet(S \cup {e}) /\ (S \cup {e}) \ {e} = S /\ e \in S \cup {e}
  BY FS_AddElement
<1>2. SumOver(f, S \cup {e}) = f[e] + SumOver(f, (S \cup {e}) \ {e})
  BY <1>1, SumWithout
<1>3. SumOver(f, S) \in Nat /\ f[e] \in Nat
  BY SumType
<1>4. SumOver(f, S \cup {e}) = f[e] + SumOver(f, S)
  BY <1>1, <1>2
<1> QED
  BY <1>3, <1>4
=============================================================================
